--------------------------- MODULE JobQueueProofs ---------------------------
(***************************************************************************)
(* The safety invariants of JobQueue for any jobs, workers, lease, window, *)
(* concurrency and bounds.  Inv is inductive: LocksHold is what a claim    *)
(* under SKIP LOCKED rests on, and AttemptHasOneOwner needs the types.     *)
(* The last part shows with it that JobQueue implements JobClaims.         *)
(***************************************************************************)
EXTENDS JobQueue, TLAPS, SequenceTheorems, FiniteSetTheorems

\* ClaimColumns of one row, and an id without a row has no attempts yet.
RowOK(row) == /\ row.status = "running" <=> row.claimed_by # None
              /\ row.status = "running" <=> row.lease # NoLease
              /\ row.status = "new" => row.attempts = 0

Inv == /\ TypeOK
       /\ \A j \in Jobs : RowOK(rows[j])
       /\ AttemptHasOneOwner
       /\ LocksHold

\* What every step but a claim does to a row: it starts no claim, changes no
\* running claim's owner, and counts no attempt.
Keeps(old, new) ==
  /\ new.status = "running" => /\ old.status = "running"
                               /\ new.claimed_by = old.claimed_by
                               /\ new.attempts = old.attempts
  /\ new.status # "deleted" => old.status # "deleted" /\ new.attempts = old.attempts

\* The rows of a step that claims nothing.
QuietRows == /\ rows' \in [Jobs -> Row]
             /\ \A j \in Jobs : RowOK(rows'[j]) /\ Keeps(rows[j], rows'[j])

-----------------------------------------------------------------------------
(* The operations on one row *)

\* A history stays a sequence of entries when it is appended to and cut.
LEMMA AppendAttemptType ==
  ASSUME NEW row \in Row, NEW worker \in Workers \cup {None}, NEW status \in Statuses
  PROVE  AppendAttempt(row, worker, status) \in Seq(Entry)
<1> DEFINE all == Append(row.history, [worker |-> worker, status |-> status])
<1>1. row.history \in Seq(Entry) /\ [worker |-> worker, status |-> status] \in Entry
  BY DEF Row, Entry
<1>2. all \in Seq(Entry) /\ Len(all) \in Nat
  BY <1>1
<1>3. CASE Len(all) <= HistoryCap
  BY <1>2, <1>3 DEF AppendAttempt
<1>4. CASE ~(Len(all) <= HistoryCap)
  <2>1. HistoryCap \in Nat
    BY ConstantsAssumption
  <2>2. \A i \in (Len(all) - HistoryCap + 1) .. Len(all) : all[i] \in Entry
    BY <1>2, <1>4, <2>1
  <2>3. ASSUME NEW m \in Int, NEW n \in Int, \A i \in m .. n : all[i] \in Entry
        PROVE  SubSeq(all, m, n) \in Seq(Entry)
    <3> HIDE DEF all
    <3> QED BY <2>3, SubSeqProperties, Zenon
  <2>4. Len(all) - HistoryCap + 1 \in Int /\ Len(all) \in Int
    BY <1>2, <2>1
  <2>5. SubSeq(all, Len(all) - HistoryCap + 1, Len(all)) \in Seq(Entry)
    <3> HIDE DEF all
    <3> QED BY <2>2, <2>3, <2>4, Zenon
  <2> QED BY <1>4, <2>5 DEF AppendAttempt
<1> QED BY <1>3, <1>4

\* Clearing the claim columns of a row that is not running.
LEMMA ClearClaimRow ==
  ASSUME NEW row \in Row, row.status \notin {"running", "new"}
  PROVE  /\ ClearClaim(row) \in Row
         /\ ClearClaim(row).status = row.status /\ ClearClaim(row).attempts = row.attempts
         /\ RowOK(ClearClaim(row))
<1> DEFINE r1 == [row EXCEPT !.claimed_by = None]
           r2 == [r1 EXCEPT !.lease = NoLease]
<1>1. /\ r1 \in Row /\ r1.status = row.status
      /\ r1.attempts = row.attempts /\ r1.claimed_by = None
  BY DEF Row
<1>2. ClearClaim(row) = r2
  BY DEF ClearClaim
<1> HIDE DEF r1
<1>3. /\ r2 \in Row /\ r2.status = r1.status /\ r2.attempts = r1.attempts
      /\ r2.claimed_by = None /\ r2.lease = NoLease
  BY <1>1 DEF Row
<1> QED BY <1>1, <1>2, <1>3 DEF RowOK

\* Taking a row back to pending.
LEMMA RequeuedRow ==
  ASSUME NEW row \in Row
  PROVE  /\ Requeued(row) \in Row /\ RowOK(Requeued(row))
         /\ row.status # "deleted" => Keeps(row, Requeued(row))
<1> DEFINE r == [row EXCEPT !.status = "pending"]
<1>1. r \in Row /\ r.status = "pending" /\ r.attempts = row.attempts /\ row.attempts \in Nat
  BY DEF Row, Statuses
<1>2. Requeued(row) = ClearClaim(r)
  BY DEF Requeued
<1> HIDE DEF r
<1> QED BY <1>1, <1>2, ClearClaimRow DEF Keeps

\* Closing a claim: the status, the executor, the result and one entry, then
\* the claim columns.
LEMMA ClosedRow ==
  ASSUME NEW row \in Row, NEW status \in Statuses \ {"new", "running", "deleted"},
         NEW by \in Workers \cup {None}, NEW res \in Workers \cup {None},
         NEW h \in Seq(Entry), row.status # "deleted"
  PROVE  LET r == [row EXCEPT !.status = status, !.executed_by = by, !.result = res,
                              !.history = h]
         IN  /\ r \in Row /\ ClearClaim(r) \in Row
             /\ RowOK(ClearClaim(r)) /\ Keeps(row, ClearClaim(r))
<1> DEFINE r1 == [row EXCEPT !.status = status]
           r2 == [r1 EXCEPT !.executed_by = by]
           r3 == [r2 EXCEPT !.result = res]
           r4 == [r3 EXCEPT !.history = h]
<1>1. r1 \in Row /\ r1.status = status /\ r1.attempts = row.attempts /\ row.attempts \in Nat
  BY DEF Row
<1>2. r4 = [row EXCEPT !.status = status, !.executed_by = by, !.result = res, !.history = h]
  OBVIOUS
<1> HIDE DEF r1
<1>3. r2 \in Row /\ r2.status = status /\ r2.attempts = row.attempts
  BY <1>1 DEF Row
<1> HIDE DEF r2
<1>4. r3 \in Row /\ r3.status = status /\ r3.attempts = row.attempts
  BY <1>3 DEF Row
<1> HIDE DEF r3
<1>5. r4 \in Row /\ r4.status = status /\ r4.attempts = row.attempts
  BY <1>4 DEF Row
<1> HIDE DEF r4
<1>6. /\ ClearClaim(r4) \in Row /\ RowOK(ClearClaim(r4))
      /\ ClearClaim(r4).status = status /\ ClearClaim(r4).attempts = row.attempts
  BY <1>5, ClearClaimRow
<1> QED BY <1>1, <1>2, <1>5, <1>6 DEF Keeps

\* Finishing a row.
LEMMA AckedRow ==
  ASSUME NEW row \in Row, NEW e \in Execution, row.status # "deleted"
  PROVE  Acked(row, e) \in Row /\ RowOK(Acked(row, e)) /\ Keeps(row, Acked(row, e))
<1>1. /\ AppendAttempt(row, row.claimed_by, "done") \in Seq(Entry)
      /\ row.claimed_by \in Workers \cup {None}
  BY AppendAttemptType DEF Row, Statuses
<1>2. e.worker \in Workers /\ "done" \in Statuses \ {"new", "running", "deleted"}
  BY DEF Execution, Statuses
<1> QED BY <1>1, <1>2, ClosedRow DEF Acked

\* Requeueing or failing a row.
LEMMA NackedRow ==
  ASSUME TypeOK, NEW j \in Jobs, rows[j].status # "deleted"
  PROVE  Nacked(j) \in Row /\ RowOK(Nacked(j)) /\ Keeps(rows[j], Nacked(j))
<1> DEFINE next == IF Exhausted(j) THEN "failed" ELSE "pending"
           row == rows[j]
<1>1. row \in Row /\ next \in Statuses \ {"new", "running", "deleted"}
  BY DEF TypeOK, Statuses
<1>2. /\ AppendAttempt(row, row.claimed_by, next) \in Seq(Entry)
      /\ row.claimed_by \in Workers \cup {None} /\ row.result \in Workers \cup {None}
  BY <1>1, AppendAttemptType DEF Row
<1>3. Nacked(j) = ClearClaim([row EXCEPT !.status = next, !.executed_by = row.claimed_by,
                                !.history = AppendAttempt(row, row.claimed_by, next)])
  BY DEF Nacked
<1> HIDE DEF next, row
<1>4. [row EXCEPT !.status = next, !.executed_by = row.claimed_by, !.result = row.result,
                  !.history = AppendAttempt(row, row.claimed_by, next)]
       = [row EXCEPT !.status = next, !.executed_by = row.claimed_by,
                  !.history = AppendAttempt(row, row.claimed_by, next)]
  BY <1>1 DEF Row
<1>5. row.status # "deleted" /\ row = rows[j]
  BY DEF row
<1> DEFINE h == AppendAttempt(row, row.claimed_by, next)
           r == [row EXCEPT !.status = next, !.executed_by = row.claimed_by,
                            !.result = row.result, !.history = h]
<1>6. h \in Seq(Entry)
  BY <1>2
<1>7. Nacked(j) = ClearClaim(r)
  BY <1>3, <1>4
<1> HIDE DEF h
<1>8. ClearClaim(r) \in Row /\ RowOK(ClearClaim(r)) /\ Keeps(row, ClearClaim(r))
  BY <1>1, <1>2, <1>5, <1>6, ClosedRow
<1> QED BY <1>5, <1>7, <1>8

\* A claim.
LEMMA ClaimedRow ==
  ASSUME NEW row \in Row, NEW w \in Workers
  PROVE  /\ Claimed(row, w) \in Row /\ RowOK(Claimed(row, w))
         /\ Claimed(row, w).attempts = row.attempts + 1
         /\ Claimed(row, w).claimed_by = w /\ Claimed(row, w).status = "running"
<1> DEFINE h == IF skipLocked THEN AppendAttempt(row, w, "running") ELSE row.history
           n == row.attempts + 1
           r1 == [row EXCEPT !.status = "running"]
           r2 == [r1 EXCEPT !.claimed_by = w]
           r3 == [r2 EXCEPT !.lease = Lease]
           r4 == [r3 EXCEPT !.attempts = n]
           r5 == [r4 EXCEPT !.history = h]
<1>1. h \in Seq(Entry)
  BY AppendAttemptType DEF Statuses, Row
<1>2. Lease \in -1 .. Lease /\ w # None /\ n \in Nat /\ Lease # NoLease
  BY ConstantsAssumption DEF Row, NoLease
<1>3. Claimed(row, w) = r5
  BY DEF Claimed, Row
<1> HIDE DEF h, n
<1>4. r1 \in Row /\ r1.status = "running"
  BY DEF Row, Statuses
<1> HIDE DEF r1
<1>5. r2 \in Row /\ r2.status = "running" /\ r2.claimed_by = w
  BY <1>4 DEF Row
<1> HIDE DEF r2
<1>6. r3 \in Row /\ r3.status = "running" /\ r3.claimed_by = w /\ r3.lease = Lease
  BY <1>2, <1>5 DEF Row
<1> HIDE DEF r3
<1>7. /\ r4 \in Row /\ r4.status = "running" /\ r4.claimed_by = w /\ r4.lease = Lease
      /\ r4.attempts = n
  BY <1>2, <1>6 DEF Row
<1> HIDE DEF r4
<1>8. /\ r5 \in Row /\ r5.status = "running" /\ r5.claimed_by = w /\ r5.lease = Lease
      /\ r5.attempts = n
  BY <1>1, <1>7 DEF Row
<1> QED BY <1>2, <1>3, <1>8 DEF RowOK, n

\* A renewal of a running row.
LEMMA RenewedRow ==
  ASSUME TypeOK, NEW j \in Jobs, RowOK(rows[j]), rows[j].status = "running"
  PROVE  Renewed(j) \in Row /\ RowOK(Renewed(j)) /\ Keeps(rows[j], Renewed(j))
<1>1. rows[j] \in Row /\ rows[j].attempts \in Nat
  BY DEF TypeOK, Row
<1>2. RenewTo \in -1 .. Lease /\ RenewTo # NoLease
  BY ConstantsAssumption DEF NoLease
<1>3. /\ Renewed(j) \in Row /\ Renewed(j).lease = RenewTo
      /\ Renewed(j).status = rows[j].status /\ Renewed(j).claimed_by = rows[j].claimed_by
      /\ Renewed(j).attempts = rows[j].attempts
  BY <1>1, <1>2 DEF Renewed, Row
<1> QED BY <1>1, <1>2, <1>3 DEF RowOK, Keeps

\* Time passing.
LEMMA AgedRow ==
  ASSUME NEW row \in Row, RowOK(row)
  PROVE  Aged(row) \in Row /\ RowOK(Aged(row)) /\ Keeps(row, Aged(row))
<1> DEFINE l == IF row.lease >= 0 THEN row.lease - 1 ELSE row.lease
           t == IF row.wait > 0 THEN row.wait - 1 ELSE row.wait
           r1 == [row EXCEPT !.lease = l]
           r2 == [r1 EXCEPT !.wait = t]
<1>1. /\ l \in {NoLease} \cup (-1 .. Lease) /\ t \in Nat /\ row.attempts \in Nat
      /\ l = NoLease <=> row.lease = NoLease
  BY ConstantsAssumption DEF Row, NoLease
<1>2. Aged(row) = r2
  BY DEF Aged, Row
<1> HIDE DEF l, t
<1>3. /\ r1 \in Row /\ r1.lease = l /\ r1.status = row.status
      /\ r1.claimed_by = row.claimed_by /\ r1.attempts = row.attempts
  BY <1>1 DEF Row
<1> HIDE DEF r1
<1>4. /\ r2 \in Row /\ r2.lease = l /\ r2.status = row.status
      /\ r2.claimed_by = row.claimed_by /\ r2.attempts = row.attempts
  BY <1>1, <1>3 DEF Row
<1> QED BY <1>1, <1>2, <1>4 DEF RowOK, Keeps

-----------------------------------------------------------------------------
(* The operations on the table *)

LEMMA InvRows ==
  ASSUME Inv, NEW j \in Jobs
  PROVE  rows[j] \in Row /\ RowOK(rows[j]) /\ rows[j].attempts \in Nat
BY DEF Inv, TypeOK, Row

LEMMA SameRows ==
  ASSUME Inv, UNCHANGED rows
  PROVE  QuietRows
<1>1. \A j \in Jobs : RowOK(rows[j]) /\ Keeps(rows[j], rows[j])
  BY InvRows DEF Keeps
<1> QED BY <1>1 DEF QuietRows, Inv, TypeOK

LEMMA PutRow ==
  ASSUME Inv, NEW j \in Jobs, NEW r \in Row, RowOK(r), Keeps(rows[j], r), Put(j, r)
  PROVE  QuietRows
<1>1. rows' = [rows EXCEPT ![j] = r] /\ rows \in [Jobs -> Row]
  BY DEF Put, Inv, TypeOK
<1>2. rows' \in [Jobs -> Row]
  BY <1>1
<1>3. ASSUME NEW k \in Jobs PROVE RowOK(rows'[k]) /\ Keeps(rows[k], rows'[k])
  <2>1. CASE k = j
    BY <1>1, <2>1
  <2>2. CASE k # j
    BY <1>1, <2>2, InvRows DEF Keeps
  <2> QED BY <2>1, <2>2
<1> QED BY <1>2, <1>3 DEF QuietRows

LEMMA ReclaimedRows ==
  ASSUME Inv, NEW w \in Workers, rows' = ReclaimStalled(w)
  PROVE  QuietRows
<1>1. ASSUME NEW k \in Jobs
      PROVE  rows'[k] \in Row /\ RowOK(rows'[k]) /\ Keeps(rows[k], rows'[k])
  <2>1. rows[k] \in Row /\ RowOK(rows[k]) /\ rows[k].attempts \in Nat
    BY InvRows
  <2>2. CASE rows'[k] = rows[k]
    BY <2>1, <2>2 DEF Keeps
  <2>3. CASE Lapsed(k) /\ rows'[k] = Requeued(rows[k])
    BY <2>1, <2>3, RequeuedRow DEF Lapsed
  <2> QED BY <2>2, <2>3 DEF ReclaimStalled
<1>2. rows' = [k \in Jobs |-> rows'[k]]
  BY DEF ReclaimStalled
<1> QED BY <1>1, <1>2 DEF QuietRows

-----------------------------------------------------------------------------
(* Steps that claim nothing *)

\* Every execution of the next state goes back to one of this state, and
\* none is doubled.
ExecsKept ==
  /\ \A f \in execs' : \E e \in execs : /\ e.worker = f.worker /\ e.job = f.job
                                       /\ e.attempt = f.attempt
  /\ \A f, g \in execs' : f.job = g.job /\ f.attempt = g.attempt => f = g

\* Locked rows stay pending, and no claim in progress gets new candidates.
LocksKept ==
  /\ \A j \in Jobs : Locked(j) => rows'[j].status = "pending"
  /\ \A w \in Workers : cands'[w] \subseteq cands[w]

LEMMA QuietStep ==
  ASSUME Inv, TypeOK', QuietRows, ExecsKept, LocksKept, UNCHANGED skipLocked
  PROVE  Inv'
<1>1. \A j \in Jobs : RowOK(rows'[j])
  BY DEF QuietRows
<1>2. AttemptHasOneOwner'
  <2>1. ASSUME NEW f \in execs'
        PROVE  /\ rows'[f.job].status = "deleted" \/ f.attempt <= rows'[f.job].attempts
               /\ rows'[f.job].status = "running" /\ f.attempt = rows'[f.job].attempts
                     => rows'[f.job].claimed_by = f.worker
    <3>1. PICK e \in execs : e.worker = f.worker /\ e.job = f.job /\ e.attempt = f.attempt
      BY <2>1 DEF ExecsKept
    <3>2. e.job \in Jobs /\ e.attempt \in Nat
      BY DEF Inv, TypeOK, Execution
    <3>3. /\ rows[e.job].status = "deleted" \/ e.attempt <= rows[e.job].attempts
          /\ rows[e.job].status = "running" /\ e.attempt = rows[e.job].attempts
                => rows[e.job].claimed_by = e.worker
      BY DEF Inv, AttemptHasOneOwner
    <3>4. /\ Keeps(rows[e.job], rows'[e.job])
          /\ rows[e.job].attempts \in Nat /\ rows'[e.job].attempts \in Nat
      BY <3>2, InvRows DEF QuietRows, Row
    <3> QED BY <3>1, <3>2, <3>3, <3>4 DEF Keeps
  <2> QED BY <2>1 DEF AttemptHasOneOwner, ExecsKept
<1>3. LocksHold'
  <2> SUFFICES ASSUME skipLocked', NEW w \in Workers, NEW j \in cands'[w]
               PROVE  /\ rows'[j].status = "pending"
                      /\ \A v \in Workers : j \in cands'[v] => v = w
    BY DEF LocksHold
  <2>1. j \in cands[w] /\ j \in Jobs
    BY DEF LocksKept, Inv, TypeOK
  <2>2. rows'[j].status = "pending"
    BY <2>1 DEF LocksKept, Locked
  <2>3. \A v \in Workers : j \in cands'[v] => v = w
    BY <2>1 DEF LocksKept, Inv, LocksHold
  <2> QED BY <2>2, <2>3
<1> QED BY <1>1, <1>2, <1>3 DEF Inv

LEMMA SameExecs ==
  ASSUME Inv, execs' \subseteq execs
  PROVE  ExecsKept
BY DEF ExecsKept, Inv, AttemptHasOneOwner

LEMMA BecomesExecs ==
  ASSUME Inv, NEW e \in execs, NEW f, Becomes(e, f),
         f.worker = e.worker, f.job = e.job, f.attempt = e.attempt
  PROVE  ExecsKept
BY DEF ExecsKept, Becomes, Inv, AttemptHasOneOwner

LEMMA SameLocks ==
  ASSUME Inv, UNCHANGED rows, \A w \in Workers : cands'[w] \subseteq cands[w]
  PROVE  LocksKept
BY DEF LocksKept, Locked, Inv, LocksHold

LEMMA PutLocks ==
  ASSUME Inv, NEW j \in Jobs, NEW r, Put(j, r), ~Locked(j),
         \A w \in Workers : cands'[w] \subseteq cands[w]
  PROVE  LocksKept
BY DEF LocksKept, Locked, Inv, LocksHold, Put, TypeOK

LEMMA ReclaimLocks ==
  ASSUME Inv, NEW w \in Workers, rows' = ReclaimStalled(w), UNCHANGED cands
  PROVE  LocksKept
BY DEF LocksKept, Locked, Inv, LocksHold, ReclaimStalled, Lapsed

\* Only pending rows are locked.
LEMMA NotPendingNotLocked ==
  ASSUME Inv, NEW j \in Jobs, rows[j].status # "pending"
  PROVE  ~Locked(j)
BY DEF Inv, LocksHold, Locked

LEMMA SpendType ==
  ASSUME TypeOK, NEW kind \in {"crash", "stop", "admin", "fault"}, Spend(kind)
  PROVE  left' \in [{"crash", "stop", "admin", "fault"} -> Nat]
BY DEF TypeOK, Spend

-----------------------------------------------------------------------------
(* The steps, action by action *)

LEMMA BlankRowType ==
  ASSUME NEW status \in Statuses \ {"running"}, NEW wait \in Nat, NEW born \in Nat
  PROVE  /\ BlankRow(status, wait, born) \in Row /\ RowOK(BlankRow(status, wait, born))
         /\ BlankRow(status, wait, born).status = status
         /\ BlankRow(status, wait, born).attempts = 0
BY DEF BlankRow, Row, RowOK, NoLease

LEMMA InitInv ==
  ASSUME Init
  PROVE  Inv
<1>1. BlankRow("new", 0, 0) \in Row /\ RowOK(BlankRow("new", 0, 0))
  BY BlankRowType DEF Statuses
<1>2. TypeOK
  BY <1>1, ConstantsAssumption DEF Init, TypeOK
<1>3. \A j \in Jobs : RowOK(rows[j])
  BY <1>1 DEF Init
<1> QED BY <1>2, <1>3 DEF Inv, Init, AttemptHasOneOwner, LocksHold

LEMMA SubmitStep ==
  ASSUME Inv, NEW j \in Jobs, Submit(j),
         UNCHANGED skipLocked
  PROVE  Inv' /\ QuietRows /\ ExecsKept
<1> DEFINE b == Cardinality({k \in Jobs : rows[k].status # "new"}) + 1
           a == Request[j].run_after
           r == BlankRow("pending", a, b)
<1>1. rows[j].status = "new" /\ Put(j, r)
  BY DEF Submit
<1>2. rows[j].attempts = 0
  BY <1>1 DEF Inv, RowOK
<1>3. b \in Nat /\ a \in Nat
  <2>1. IsFiniteSet({k \in Jobs : rows[k].status # "new"})
    BY ConstantsAssumption, FS_Subset
  <2> QED BY <2>1, FS_CardinalityType, ConstantsAssumption
<1> HIDE DEF a, b
<1>4. r \in Row /\ RowOK(r) /\ r.status = "pending" /\ r.attempts = 0
  BY <1>3, BlankRowType DEF Statuses
<1>5. Keeps(rows[j], r)
  BY <1>1, <1>2, <1>4 DEF Keeps
<1>6. QuietRows
  BY <1>1, <1>4, <1>5, PutRow
<1>7. TypeOK'
  BY <1>6 DEF QuietRows, Inv, TypeOK, Submit
<1>8. ExecsKept /\ LocksKept
  BY <1>1, NotPendingNotLocked, PutLocks, SameExecs DEF Submit
<1> QED BY <1>6, <1>7, <1>8, QuietStep

LEMMA AdminStep ==
  ASSUME Inv, NEW j \in Jobs, Retry(j) \/ Cancel(j) \/ Delete(j),
         UNCHANGED skipLocked
  PROVE  Inv' /\ QuietRows /\ ExecsKept
<1>1. rows[j] \in Row /\ RowOK(rows[j]) /\ rows[j].attempts \in Nat
  BY InvRows
<1>2. PICK r \in Row : Put(j, r) /\ RowOK(r) /\ Keeps(rows[j], r)
  <2>1. CASE Retry(j)
    BY <1>1, <2>1, RequeuedRow DEF Retry, Stored
  <2>2. CASE Cancel(j)
    <3> DEFINE r == [rows[j] EXCEPT !.status = "failed"]
    <3>1. Put(j, r) /\ rows[j].status = "pending"
      BY <2>2 DEF Cancel
    <3>2. /\ r \in Row /\ r.status = "failed" /\ r.claimed_by = rows[j].claimed_by
          /\ r.lease = rows[j].lease /\ r.attempts = rows[j].attempts
      BY <1>1 DEF Row, Statuses
    <3> HIDE DEF r
    <3>3. RowOK(r) /\ Keeps(rows[j], r)
      BY <1>1, <3>1, <3>2 DEF RowOK, Keeps
    <3> QED BY <3>1, <3>2, <3>3
  <2>3. CASE Delete(j)
    <3> DEFINE r == BlankRow("deleted", 0, rows[j].born)
    <3>1. Put(j, r)
      BY <2>3 DEF Delete
    <3>2. r \in Row /\ RowOK(r) /\ r.status = "deleted"
      BY <1>1, BlankRowType DEF Row, Statuses
    <3> QED BY <3>1, <3>2 DEF Keeps
  <2> QED BY <2>1, <2>2, <2>3
<1>3. QuietRows
  BY <1>2, PutRow
<1>4. TypeOK'
  BY <1>3, SpendType DEF QuietRows, Inv, TypeOK, Retry, Cancel, Delete
<1>5. ExecsKept /\ LocksKept
  BY <1>2, PutLocks, SameExecs DEF Retry, Cancel, Delete
<1> QED BY <1>3, <1>4, <1>5, QuietStep

\* The two steps of a worker that may reclaim rows.
LEMMA ReclaimStep ==
  ASSUME Inv, NEW w \in Workers, Start(w) \/ Sweep(w),
         UNCHANGED skipLocked
  PROVE  Inv' /\ QuietRows /\ ExecsKept
<1>1. QuietRows
  BY SameRows, ReclaimedRows DEF Start, Sweep
<1>2. Popped(w) \in [Jobs -> Nat]
  BY DEF Popped, Inv, TypeOK
<1>3. TypeOK'
  BY <1>1, <1>2, SpendType DEF QuietRows, Inv, TypeOK, Start, Sweep
<1>4. ExecsKept /\ LocksKept
  BY SameExecs, SameLocks, ReclaimLocks DEF Start, Sweep
<1> QED BY <1>1, <1>3, <1>4, QuietStep

\* The steps of the loop that change neither rows nor executions, except
\* the selection of candidates.
LEMMA LoopStep ==
  ASSUME Inv, NEW w \in Workers, AtCapacity(w) \/ ClaimMiss(w) \/ ClaimNone(w),
         UNCHANGED skipLocked
  PROVE  Inv' /\ QuietRows /\ ExecsKept
<1>1. QuietRows
  BY SameRows DEF AtCapacity, ClaimMiss, ClaimNone
<1>2. TypeOK'
  BY <1>1 DEF QuietRows, Inv, TypeOK, AtCapacity, ClaimMiss, ClaimNone
<1>3. ExecsKept
  BY SameExecs DEF AtCapacity, ClaimMiss, ClaimNone
<1>4. LocksKept
  BY SameLocks DEF AtCapacity, ClaimMiss, ClaimNone, Inv, TypeOK
<1> QED BY <1>1, <1>2, <1>3, <1>4, QuietStep

LEMMA SelectStep ==
  ASSUME Inv, NEW w \in Workers, ClaimSelect(w),
         UNCHANGED skipLocked
  PROVE  Inv' /\ QuietRows /\ ExecsKept
<1>1. QuietRows
  BY SameRows DEF ClaimSelect
<1>2. /\ CandidateWindow(w) \subseteq Jobs
      /\ \A j \in CandidateWindow(w) : rows[j].status = "pending" /\ ~Locked(j)
  BY DEF CandidateWindow, Eligible
<1>3. TypeOK'
  BY <1>2 DEF Inv, TypeOK, ClaimSelect
<1>4. cands' = [cands EXCEPT ![w] = CandidateWindow(w)] /\ cands \in [Workers -> SUBSET Jobs]
  BY DEF ClaimSelect, Inv, TypeOK
<1>5. LocksHold'
  <2> SUFFICES ASSUME skipLocked', NEW v \in Workers, NEW j \in cands'[v]
               PROVE  /\ rows'[j].status = "pending"
                      /\ \A u \in Workers : j \in cands'[u] => u = v
    BY DEF LocksHold
  <2>1. CASE v = w
    BY <1>2, <1>4, <2>1 DEF Locked, ClaimSelect
  <2>2. CASE v # w
    BY <1>2, <1>4, <2>2 DEF Locked, ClaimSelect, Inv, LocksHold
  <2> QED BY <2>1, <2>2
<1>6. ExecsKept
  BY SameExecs DEF ClaimSelect
<1> QED BY <1>1, <1>3, <1>5, <1>6 DEF Inv, ClaimSelect, AttemptHasOneOwner

\* A claim, acknowledged to the worker or not.
LEMMA ClaimStep ==
  ASSUME Inv, NEW w \in Workers, ClaimUpdate(w) \/ ClaimFault(w),
         UNCHANGED skipLocked
  PROVE  Inv' /\ \A k \in Jobs : rows[k].status = "running" => rows'[k] = rows[k]
<1> PICK j \in cands[w] :
       /\ Claims(w, j) /\ Put(j, Claimed(rows[j], w))
       /\ cands' = [cands EXCEPT ![w] = {}]
       /\ execs' \subseteq execs \cup
            {[worker |-> w, job |-> j, attempt |-> rows[j].attempts + 1,
              phase |-> "held", renew |-> FALSE, task |-> FALSE, slot |-> FALSE]}
       /\ pc' \in [Workers -> {"down", "sweep", "claim", "try", "launch"}]
       /\ left' \in [{"crash", "stop", "admin", "fault"} -> Nat]
  BY SpendType DEF ClaimUpdate, ClaimFault, Inv, TypeOK
<1> DEFINE r == Claimed(rows[j], w)
           new == [worker |-> w, job |-> j, attempt |-> rows[j].attempts + 1,
                   phase |-> "held", renew |-> FALSE, task |-> FALSE, slot |-> FALSE]
<1>1. /\ j \in Jobs /\ rows[j].status = "pending" /\ rows' = [rows EXCEPT ![j] = r]
      /\ rows \in [Jobs -> Row] /\ rows[j] \in Row /\ rows[j].attempts \in Nat
  BY InvRows DEF Claims, StillPending, Inv, TypeOK, LocksHold, Put
<1>2. /\ r \in Row /\ RowOK(r) /\ r.attempts = rows[j].attempts + 1
      /\ r.claimed_by = w /\ r.status = "running"
  BY <1>1, ClaimedRow
<1> HIDE DEF r
<1>3. /\ rows' \in [Jobs -> Row] /\ rows'[j] = r
      /\ \A k \in Jobs : k # j => rows'[k] = rows[k]
  BY <1>1, <1>2
<1>4. new \in Execution
  BY <1>1 DEF Execution
<1>5. TypeOK'
  <2>1. execs' \subseteq Execution /\ cands' \in [Workers -> SUBSET Jobs]
    BY <1>4 DEF Inv, TypeOK
  <2>2. UNCHANGED <<zombies, inFlight>>
    BY DEF ClaimUpdate, ClaimFault
  <2> QED BY <1>3, <2>1, <2>2 DEF Inv, TypeOK
<1>6. \A k \in Jobs : RowOK(rows'[k])
  BY <1>2, <1>3, InvRows
<1>7. AttemptHasOneOwner'
  <2>1. \A e \in execs : /\ e.job \in Jobs /\ e.attempt \in Nat
                         /\ e.job = j => e.attempt <= rows[j].attempts
    BY <1>1 DEF Inv, TypeOK, Execution, AttemptHasOneOwner
  <2>2. /\ new.worker = w /\ new.job = j /\ new.attempt = rows[j].attempts + 1
        /\ \A f \in execs' : f \in execs \/ f = new
    OBVIOUS
  <2> HIDE DEF new
  <2>3. ASSUME NEW e \in execs', NEW f \in execs', e.job = f.job, e.attempt = f.attempt
        PROVE  e = f
    <3>1. CASE e \in execs /\ f \in execs
      BY <2>3, <3>1 DEF Inv, AttemptHasOneOwner
    <3>2. CASE e = new \/ f = new
      BY <1>1, <2>1, <2>2, <2>3, <3>2
    <3> QED BY <2>2, <3>1, <3>2
  <2>4. ASSUME NEW e \in execs'
        PROVE  /\ rows'[e.job].status = "deleted" \/ e.attempt <= rows'[e.job].attempts
               /\ rows'[e.job].status = "running" /\ e.attempt = rows'[e.job].attempts
                     => rows'[e.job].claimed_by = e.worker
    <3>1. CASE e = new
      BY <1>1, <1>2, <1>3, <2>2, <3>1
    <3>2. CASE e \in execs /\ e.job = j
      BY <1>1, <1>2, <1>3, <2>1, <3>2
    <3>3. CASE e \in execs /\ e.job # j
      BY <1>3, <2>1, <3>3 DEF Inv, AttemptHasOneOwner
    <3> QED BY <2>2, <3>1, <3>2, <3>3
  <2> QED BY <2>3, <2>4 DEF AttemptHasOneOwner
<1>8. LocksHold'
  BY <1>1, <1>3 DEF Inv, LocksHold, TypeOK
<1>9. \A k \in Jobs : rows[k].status = "running" => rows'[k] = rows[k]
  BY <1>1, <1>3
<1> QED BY <1>5, <1>6, <1>7, <1>8, <1>9 DEF Inv

\* Executions keep their identity when their phase or flags change.
LEMMA PhasedExecution ==
  ASSUME NEW e \in Execution, NEW p \in {"held", "handling", "acking", "nacking"},
         NEW b \in BOOLEAN
  PROVE  LET f == [e EXCEPT !.phase = p, !.renew = b]
         IN  f \in Execution /\ f.worker = e.worker /\ f.job = e.job /\ f.attempt = e.attempt
BY DEF Execution

LEMMA SlottedExecution ==
  ASSUME NEW e \in Execution, NEW a \in BOOLEAN, NEW b \in BOOLEAN
  PROVE  LET f == [e EXCEPT !.task = a, !.slot = b]
         IN  f \in Execution /\ f.worker = e.worker /\ f.job = e.job /\ f.attempt = e.attempt
BY DEF Execution

LEMMA LaunchedExecution ==
  ASSUME NEW e \in Execution
  PROVE  LET f == [e EXCEPT !.phase = "handling", !.renew = TRUE,
                            !.task = TRUE, !.slot = TRUE]
         IN  f \in Execution /\ f.worker = e.worker /\ f.job = e.job /\ f.attempt = e.attempt
<1> DEFINE g == [e EXCEPT !.phase = "handling", !.renew = TRUE]
<1>1. g \in Execution /\ g.worker = e.worker /\ g.job = e.job /\ g.attempt = e.attempt
  BY PhasedExecution
<1>2. [e EXCEPT !.phase = "handling", !.renew = TRUE, !.task = TRUE, !.slot = TRUE]
        = [g EXCEPT !.task = TRUE, !.slot = TRUE]
  OBVIOUS
<1> HIDE DEF g
<1> QED BY <1>1, <1>2, SlottedExecution

\* A held claim becomes an execution, or is lost.
LEMMA LaunchStep ==
  ASSUME Inv, NEW w \in Workers, Launch(w),
         UNCHANGED skipLocked
  PROVE  Inv' /\ QuietRows /\ ExecsKept
<1> PICK e \in execs : \/ execs' = execs \ {e} /\ UNCHANGED inFlight
                      \/ /\ Becomes(e, [e EXCEPT !.phase = "handling", !.renew = TRUE,
                                               !.task = TRUE, !.slot = TRUE])
                         /\ inFlight' = [inFlight EXCEPT ![w][e.job] = e.attempt]
  BY DEF Launch, Becomes
<1> DEFINE f == [e EXCEPT !.phase = "handling", !.renew = TRUE,
                          !.task = TRUE, !.slot = TRUE]
<1>0. e \in Execution
  BY DEF Inv, TypeOK
<1>1. /\ f \in Execution /\ e.job \in Jobs /\ e.attempt \in Nat
      /\ f.worker = e.worker /\ f.job = e.job /\ f.attempt = e.attempt
  BY <1>0, LaunchedExecution DEF Execution
<1> HIDE DEF f
<1>2. QuietRows /\ LocksKept
  BY SameRows, SameLocks DEF Launch
<1>3. ExecsKept
  BY <1>1, SameExecs, BecomesExecs DEF f
<1>4. TypeOK'
  <2>1. execs' \subseteq Execution
    BY <1>1 DEF Inv, TypeOK, Becomes, f
  <2>2. inFlight' \in [Workers -> [Jobs -> Nat]]
    <3>1. inFlight[w] \in [Jobs -> Nat] /\ inFlight \in [Workers -> [Jobs -> Nat]]
      BY DEF Inv, TypeOK
    <3>2. [inFlight[w] EXCEPT ![e.job] = e.attempt] \in [Jobs -> Nat]
      BY <1>1, <3>1
    <3> QED BY <3>1, <3>2
  <2> QED BY <2>1, <2>2 DEF Inv, TypeOK, Launch
<1> QED BY <1>2, <1>3, <1>4, QuietStep

LEMMA RunOneStep ==
  ASSUME Inv, NEW e \in execs, RunOne(e),
         UNCHANGED skipLocked
  PROVE  Inv' /\ QuietRows /\ ExecsKept
<1>1. /\ e \in Execution /\ e.job \in Jobs
      /\ rows[e.job] \in Row /\ UNCHANGED <<pc, cands, zombies, inFlight>>
  BY InvRows DEF Inv, TypeOK, Execution, RunOne, HandlerReturns, HandlerRaises, Ack, AckFault,
                 Nack, NackFault, RenewFault
<1>2. left' \in [{"crash", "stop", "admin", "fault"} -> Nat]
  BY SpendType DEF Inv, TypeOK, RunOne, HandlerReturns, HandlerRaises, Ack, AckFault,
                   Nack, NackFault, RenewFault
<1>3. ExecsKept /\ execs' \subseteq Execution
  <2>1. CASE execs' = execs \ {e}
    BY <2>1, SameExecs DEF Inv, TypeOK
  <2>2. ASSUME NEW f \in Execution, Becomes(e, f), f.worker = e.worker, f.job = e.job,
               f.attempt = e.attempt
        PROVE  ExecsKept /\ execs' \subseteq Execution
    BY <2>2, BecomesExecs DEF Becomes, Inv, TypeOK
  <2>3. CASE HandlerReturns(e)
    BY <1>1, <2>2, <2>3, PhasedExecution DEF HandlerReturns
  <2>4. CASE HandlerRaises(e)
    BY <1>1, <2>2, <2>4, PhasedExecution DEF HandlerRaises
  <2>5. CASE AckFault(e)
    <3> DEFINE f == [e EXCEPT !.phase = "nacking"]
    <3>1. f \in Execution /\ f.worker = e.worker /\ f.job = e.job /\ f.attempt = e.attempt
      BY <1>1 DEF Execution
    <3> HIDE DEF f
    <3> QED BY <2>1, <2>2, <2>5, <3>1 DEF AckFault, f
  <2>6. CASE RenewFault(e)
    <3> DEFINE f == [e EXCEPT !.renew = FALSE]
    <3>1. f \in Execution /\ f.worker = e.worker /\ f.job = e.job /\ f.attempt = e.attempt
      BY <1>1 DEF Execution
    <3> HIDE DEF f
    <3> QED BY <2>2, <2>6, <3>1 DEF RenewFault, f
  <2>7. CASE Ack(e) \/ Nack(e) \/ NackFault(e)
    BY <2>1, <2>7 DEF Ack, Nack, NackFault
  <2> QED BY <2>3, <2>4, <2>5, <2>6, <2>7 DEF RunOne
<1>4. QuietRows /\ LocksKept
  <2>1. CASE UNCHANGED rows
    BY <1>1, <2>1, SameRows, SameLocks
  <2>2. CASE AckRow(e) /\ ~UNCHANGED rows
    <3>1. rows[e.job].status = "running" /\ Put(e.job, Acked(rows[e.job], e))
      BY <2>2 DEF AckRow
    <3>2. ~Locked(e.job)
      BY <1>1, <3>1, NotPendingNotLocked
    <3>3. /\ Acked(rows[e.job], e) \in Row /\ RowOK(Acked(rows[e.job], e))
          /\ Keeps(rows[e.job], Acked(rows[e.job], e))
      BY <1>1, <3>1, AckedRow
    <3> QED BY <1>1, <3>1, <3>2, <3>3, PutRow, PutLocks
  <2>3. CASE Nack(e) /\ ~UNCHANGED rows
    <3>1. Stored(e.job) /\ ~Locked(e.job) /\ Put(e.job, Nacked(e.job))
      BY <2>3 DEF Nack
    <3>2. /\ Nacked(e.job) \in Row /\ RowOK(Nacked(e.job))
          /\ Keeps(rows[e.job], Nacked(e.job))
      BY <1>1, <3>1, NackedRow DEF Inv, Stored
    <3> QED BY <1>1, <3>1, <3>2, PutRow, PutLocks
  <2> QED BY <2>1, <2>2, <2>3 DEF RunOne, HandlerReturns, HandlerRaises, Ack, AckFault,
                                  NackFault, RenewFault
<1>5. TypeOK'
  BY <1>1, <1>2, <1>3, <1>4 DEF QuietRows, Inv, TypeOK
<1> QED BY <1>3, <1>4, <1>5, QuietStep

LEMMA RenewStep ==
  ASSUME Inv, NEW w \in Workers, NEW j \in Jobs, RenewLease(w, j) \/ ZombieFault(w, j),
         UNCHANGED skipLocked
  PROVE  Inv' /\ QuietRows /\ ExecsKept
<1>1. QuietRows /\ LocksKept
  <2>1. CASE RenewLease(w, j)
    <3>1. rows[j].status = "running" /\ Put(j, Renewed(j)) /\ UNCHANGED cands
      BY <2>1 DEF RenewLease
    <3>2. Renewed(j) \in Row /\ RowOK(Renewed(j)) /\ Keeps(rows[j], Renewed(j))
      BY <3>1, InvRows, RenewedRow DEF Inv
    <3> QED BY <3>1, <3>2, PutRow, PutLocks, NotPendingNotLocked
  <2>2. CASE ZombieFault(w, j)
    BY <2>2, SameRows, SameLocks DEF ZombieFault
  <2> QED BY <2>1, <2>2
<1>2. TypeOK'
  BY <1>1, SpendType DEF QuietRows, Inv, TypeOK, RenewLease, ZombieFault
<1>3. ExecsKept
  BY SameExecs DEF RenewLease, ZombieFault
<1> QED BY <1>1, <1>2, <1>3, QuietStep

LEMMA TickStep ==
  ASSUME Inv, Tick, UNCHANGED skipLocked
  PROVE  Inv' /\ QuietRows /\ ExecsKept
<1>1. rows' = [j \in Jobs |-> Aged(rows[j])] /\ UNCHANGED <<pc, cands, execs, zombies, inFlight, left>>
  BY DEF Tick
<1>2. QuietRows
  BY <1>1, AgedRow, InvRows DEF QuietRows
<1>3. LocksKept
  <2>1. ASSUME NEW j \in Jobs PROVE Aged(rows[j]).status = rows[j].status
    BY InvRows DEF Aged, Row
  <2> QED BY <1>1, <2>1 DEF LocksKept, Locked, Inv, LocksHold, TypeOK
<1>4. TypeOK'
  BY <1>1, <1>2 DEF QuietRows, Inv, TypeOK
<1> QED BY <1>1, <1>2, <1>3, <1>4, SameExecs, QuietStep

LEMMA StopStep ==
  ASSUME Inv, NEW w \in Workers, Stop(w) \/ Crash(w),
         UNCHANGED skipLocked
  PROVE  Inv' /\ QuietRows /\ ExecsKept
<1>1. QuietRows
  BY SameRows DEF Stop, Crash
<1>2. LocksKept
  BY SameLocks DEF Stop, Crash, Inv, TypeOK
<1> DEFINE Left(e) == IF e \in Unnamed(w) THEN [e EXCEPT !.slot = FALSE]
                                       ELSE [e EXCEPT !.task = FALSE, !.slot = FALSE]
<1>3. PICK stay : /\ stay \subseteq execs /\ \A e \in stay : e.worker = w
                  /\ execs' = {e \in execs : e.worker # w} \cup {Left(e) : e \in stay}
  <2>1. CASE Stop(w)
    <3> PICK late \in SUBSET Named(w) :
          execs' = {e \in execs : e.worker # w}
                     \cup {[e EXCEPT !.slot = FALSE] : e \in Unnamed(w)}
                     \cup {[e EXCEPT !.task = FALSE, !.slot = FALSE] : e \in late}
      BY <2>1 DEF Stop
    <3>1. \A e \in late : e \notin Unnamed(w)
      BY DEF Unnamed
    <3>2. {Left(e) : e \in Unnamed(w) \cup late}
            = {[e EXCEPT !.slot = FALSE] : e \in Unnamed(w)}
                \cup {[e EXCEPT !.task = FALSE, !.slot = FALSE] : e \in late}
      BY <3>1
    <3>3. /\ Unnamed(w) \cup late \subseteq execs
          /\ \A e \in Unnamed(w) \cup late : e.worker = w
      BY DEF Unnamed, Named
    <3> HIDE DEF Left
    <3> QED BY <3>2, <3>3
  <2>2. CASE Crash(w)
    <3>1. execs' = {e \in execs : e.worker # w} \cup {Left(e) : e \in {}}
      BY <2>2 DEF Crash
    <3> HIDE DEF Left
    <3> QED BY <3>1
  <2> QED BY <2>1, <2>2
<1>4. \A e \in execs : /\ Left(e) \in Execution /\ Left(e).worker = e.worker
                       /\ Left(e).job = e.job /\ Left(e).attempt = e.attempt
  <2>1. ASSUME NEW e \in execs
        PROVE  LET f == [e EXCEPT !.slot = FALSE]
               IN  f \in Execution /\ f.worker = e.worker /\ f.job = e.job
                     /\ f.attempt = e.attempt
    BY DEF Inv, TypeOK, Execution
  <2> QED BY <2>1, SlottedExecution DEF Inv, TypeOK
<1> HIDE DEF Left
<1>5. execs' \subseteq Execution
  BY <1>3, <1>4 DEF Inv, TypeOK
<1>6. ExecsKept
  <2>1. ASSUME NEW f \in execs'
        PROVE  \E e \in execs : /\ e.worker = f.worker /\ e.job = f.job /\ e.attempt = f.attempt
                               /\ f = IF e.worker = w THEN Left(e) ELSE e
    BY <1>3, <1>4
  <2>2. ASSUME NEW f \in execs', NEW g \in execs', f.job = g.job, f.attempt = g.attempt
        PROVE  f = g
    BY <2>1, <2>2 DEF Inv, AttemptHasOneOwner
  <2> QED BY <2>1, <2>2 DEF ExecsKept
<1>7. TypeOK'
  <2>1. zombies' \subseteq Workers \X Jobs
    <3>1. CASE Stop(w)
      <4>1. zombies' = zombies \cup {<<w, e.job>> : e \in {f \in Named(w) : f.renew}}
        BY <3>1 DEF Stop
      <4>2. \A e \in Named(w) : e.job \in Jobs
        BY DEF Named, Inv, TypeOK, Execution
      <4> QED BY <4>1, <4>2 DEF Inv, TypeOK
    <3>2. CASE Crash(w)
      BY <3>2 DEF Crash, Inv, TypeOK
    <3> QED BY <3>1, <3>2
  <2>2. /\ pc' \in [Workers -> {"down", "sweep", "claim", "try", "launch"}]
        /\ cands' \in [Workers -> SUBSET Jobs]
        /\ left' \in [{"crash", "stop", "admin", "fault"} -> Nat]
    BY SpendType DEF Stop, Crash, Inv, TypeOK
  <2>3. inFlight' \in [Workers -> [Jobs -> Nat]]
    <3>1. [j \in Jobs |-> 0] \in [Jobs -> Nat] /\ inFlight \in [Workers -> [Jobs -> Nat]]
      BY DEF Inv, TypeOK
    <3>2. inFlight' = [inFlight EXCEPT ![w] = [j \in Jobs |-> 0]]
      BY DEF Stop, Crash
    <3> QED BY <3>1, <3>2
  <2> QED BY <1>1, <1>5, <2>1, <2>2, <2>3 DEF QuietRows, Inv, TypeOK
<1> QED BY <1>1, <1>2, <1>6, <1>7, QuietStep

-----------------------------------------------------------------------------
(* The theorems *)

LEMMA StutterStep ==
  ASSUME Inv, UNCHANGED vars
  PROVE  Inv' /\ QuietRows /\ ExecsKept
<1>1. QuietRows /\ ExecsKept /\ LocksKept
  BY SameRows, SameExecs, SameLocks DEF vars
<1>2. TypeOK'
  BY DEF Inv, TypeOK, vars
<1> QED BY <1>1, <1>2, QuietStep DEF vars

\* A step that claims nothing keeps Inv, the claims of rows and executions.
LEMMA QuietNext ==
  ASSUME Inv, [Next]_vars, ~\E w \in Workers : ClaimUpdate(w) \/ ClaimFault(w)
  PROVE  Inv' /\ QuietRows /\ ExecsKept
<1>1. ASSUME Client, UNCHANGED skipLocked PROVE Inv' /\ QuietRows /\ ExecsKept
  BY <1>1, SubmitStep, AdminStep DEF Client
<1>2. ASSUME NEW w \in Workers,
             \/ Start(w) \/ Sweep(w) \/ AtCapacity(w) \/ ClaimSelect(w) \/ ClaimMiss(w)
             \/ ClaimNone(w) \/ Launch(w) \/ Stop(w) \/ Crash(w),
             UNCHANGED skipLocked
      PROVE  Inv' /\ QuietRows /\ ExecsKept
  BY <1>2, ReclaimStep, LoopStep, SelectStep, LaunchStep, StopStep
<1>3. ASSUME NEW e \in execs, RunOne(e), UNCHANGED skipLocked
      PROVE  Inv' /\ QuietRows /\ ExecsKept
  BY <1>3, RunOneStep
<1>4. ASSUME NEW w \in Workers, NEW j \in Jobs, RenewLease(w, j) \/ ZombieFault(w, j),
             UNCHANGED skipLocked
      PROVE  Inv' /\ QuietRows /\ ExecsKept
  BY <1>4, RenewStep
<1> QED BY <1>1, <1>2, <1>3, <1>4, TickStep, StutterStep DEF Next, Loop

\* A step preserves Inv, and leaves running rows their claim.
LEMMA NextStep ==
  ASSUME Inv, [Next]_vars
  PROVE  /\ Inv'
         /\ \A j \in Jobs : rows[j].status = "running" /\ rows'[j].status = "running" =>
              /\ rows'[j].claimed_by = rows[j].claimed_by
              /\ rows'[j].attempts = rows[j].attempts
<1>1. CASE UNCHANGED vars
  BY <1>1, StutterStep DEF QuietRows, Keeps
<1>2. ASSUME NEW w \in Workers, ClaimUpdate(w) \/ ClaimFault(w), UNCHANGED skipLocked
      PROVE  Inv' /\ \A j \in Jobs : rows[j].status = "running" => rows'[j] = rows[j]
  BY <1>2, ClaimStep
<1>3. ASSUME ~\E w \in Workers : ClaimUpdate(w) \/ ClaimFault(w)
      PROVE  Inv' /\ QuietRows
  BY <1>3, QuietNext
<1>4. QuietRows => \A j \in Jobs : rows[j].status = "running" /\ rows'[j].status = "running" =>
                      /\ rows'[j].claimed_by = rows[j].claimed_by
                      /\ rows'[j].attempts = rows[j].attempts
  BY DEF QuietRows, Keeps
<1>5. Next => UNCHANGED skipLocked
  BY DEF Next
<1> QED BY <1>1, <1>2, <1>3, <1>4, <1>5

\* The inductive invariant holds throughout.
THEOREM Invariance == Spec => []Inv
<1>1. Init => Inv
  BY InitInv
<1>2. Inv /\ [Next]_vars => Inv'
  BY NextStep
<1> QED BY <1>1, <1>2, PTL DEF Spec

\* Every variable keeps its type, whatever the number of jobs and workers.
THEOREM TypeCorrectness == Spec => []TypeOK
<1>1. Inv => TypeOK
  BY DEF Inv
<1> QED BY <1>1, Invariance, PTL

\* A row is running exactly while it carries a claim and a lease, so every
\* running row can be reclaimed.
THEOREM ClaimColumnsHold == Spec => []ClaimColumns
<1>1. Inv => ClaimColumns
  BY DEF Inv, RowOK, ClaimColumns
<1> QED BY <1>1, Invariance, PTL

\* However late the acks, the nacks and the reclaims, a claim has one
\* execution and the row's current claim is that of claimed_by.
THEOREM OneOwner == Spec => []AttemptHasOneOwner
<1>1. Inv => AttemptHasOneOwner
  BY DEF Inv
<1> QED BY <1>1, Invariance, PTL

\* FOR UPDATE SKIP LOCKED: no two claims hold one row, held rows stay pending.
THEOREM LocksAreExclusive == Spec => []LocksHold
<1>1. Inv => LocksHold
  BY DEF Inv
<1> QED BY <1>1, Invariance, PTL

\* On both dialects a claim is never replaced by another worker's claim.
THEOREM ClaimsAreNotStolen == Spec => NoClaimStolen
<1>1. Inv /\ [Next]_vars =>
        [\A j \in Jobs : rows[j].status = "running" /\ rows'[j].status = "running" =>
           /\ rows'[j].claimed_by = rows[j].claimed_by
           /\ rows'[j].attempts = rows[j].attempts]_vars
  BY NextStep
<1> QED BY <1>1, Invariance, PTL DEF Spec, NoClaimStolen

-----------------------------------------------------------------------------
(***************************************************************************)
(* The job engine implements JobClaims, for any jobs, workers and bounds.  *)
(* Every step but a claim leaves the count of attempts alone, starts no    *)
(* claim and invents none (QuietRows and ExecsKept), and so releases or    *)
(* stutters; a claim takes a row that is pending, which nobody holds, also *)
(* where the candidate was selected long before.                           *)
(***************************************************************************)

\* A step that claims nothing is a Release of the jobs whose claim it ends.
LEMMA QuietReleases ==
  ASSUME Inv, Inv', QuietRows, ExecsKept
  PROVE  Table!Release
<1> DEFINE deleted == {j \in Jobs : rows'[j].status = "deleted"}
           released == {j \in Jobs : rows'[j].status # "running"}
<1>1. ASSUME NEW j \in Jobs
      PROVE  /\ rows'[j].status = "running" <=> rows'[j].claimed_by # None
             /\ rows'[j].status = "running" => rows'[j].claimed_by = rows[j].claimed_by
             /\ rows'[j].status # "deleted" => /\ rows[j].status # "deleted"
                                               /\ rows'[j].attempts = rows[j].attempts
  BY DEF QuietRows, RowOK, Keeps
<1>2. GoneOf' = GoneOf \cup deleted
  BY <1>1 DEF GoneOf
<1>3. HolderOf' = [j \in Jobs |-> IF j \in released \cup deleted THEN None ELSE HolderOf[j]]
  BY <1>1 DEF HolderOf
<1>4. TurnOf' = [j \in Jobs |-> IF j \in deleted THEN 0 ELSE TurnOf[j]]
  BY <1>1 DEF TurnOf
<1>5. ClaimsOf' \subseteq ClaimsOf
  BY DEF ExecsKept, ClaimsOf
<1>6. deleted \in SUBSET Jobs /\ released \in SUBSET Jobs
  OBVIOUS
<1> HIDE DEF deleted, released
<1> QED BY <1>2, <1>3, <1>4, <1>5, <1>6 DEF Table!Release

\* A claim takes the job, whether its answer reaches the worker or is lost.
LEMMA ClaimTakes ==
  ASSUME Inv, NEW w \in Workers, ClaimUpdate(w) \/ ClaimFault(w)
  PROVE  \E j \in Jobs : Table!Take(w, j)
<1>1. PICK j \in cands[w] :
        /\ Claims(w, j) /\ Put(j, Claimed(rows[j], w))
        /\ \/ UNCHANGED execs
           \/ execs' = execs \cup
                {[worker |-> w, job |-> j, attempt |-> rows[j].attempts + 1,
                  phase |-> "held", renew |-> FALSE, task |-> FALSE, slot |-> FALSE]}
  BY DEF ClaimUpdate, ClaimFault
<1>2. j \in Jobs /\ rows \in [Jobs -> Row] /\ rows[j] \in Row /\ RowOK(rows[j])
  BY InvRows DEF Inv, TypeOK
<1>3. rows[j].status = "pending"
  BY <1>1, <1>2 DEF Claims, StillPending, Inv, LocksHold
<1> DEFINE r == Claimed(rows[j], w)
<1>4. r.attempts = rows[j].attempts + 1 /\ r.claimed_by = w /\ r.status = "running"
  BY <1>2, ClaimedRow
<1>5. rows' = [rows EXCEPT ![j] = r]
  BY <1>1 DEF Put
<1> HIDE DEF r
<1>6. rows'[j] = r /\ \A k \in Jobs : k # j => rows'[k] = rows[k]
  BY <1>2, <1>5
<1>7. HolderOf[j] = None /\ j \notin GoneOf /\ TurnOf[j] = rows[j].attempts
  BY <1>2, <1>3 DEF HolderOf, GoneOf, TurnOf, RowOK
<1>8. HolderOf' = [HolderOf EXCEPT ![j] = w]
  BY <1>4, <1>6 DEF HolderOf
<1>9. TurnOf' = [TurnOf EXCEPT ![j] = @ + 1]
  BY <1>3, <1>4, <1>6 DEF TurnOf
<1>10. GoneOf' = GoneOf
  BY <1>3, <1>4, <1>6 DEF GoneOf
<1>11. ClaimsOf' \in {ClaimsOf, ClaimsOf \cup {Table!Claim(w, j, TurnOf[j] + 1)}}
  <2> DEFINE e == [worker |-> w, job |-> j, attempt |-> rows[j].attempts + 1,
                   phase |-> "held", renew |-> FALSE, task |-> FALSE, slot |-> FALSE]
  <2>1. e.worker = w /\ e.job = j /\ e.attempt = rows[j].attempts + 1
    OBVIOUS
  <2>2. execs' = execs \/ execs' = execs \cup {e}
    BY <1>1
  <2> HIDE DEF e
  <2> QED BY <1>7, <2>1, <2>2 DEF ClaimsOf, Table!Claim
<1> QED BY <1>2, <1>7, <1>8, <1>9, <1>10, <1>11 DEF Table!Take

LEMMA StepRefines ==
  ASSUME Inv, [Next]_vars
  PROVE  [Table!Next]_(Table!cvars)
<1>1. Inv'
  BY NextStep
<1>2. ASSUME NEW w \in Workers, ClaimUpdate(w) \/ ClaimFault(w)
      PROVE  Table!Next
  BY <1>2, ClaimTakes DEF Table!Next
<1>3. CASE QuietRows /\ ExecsKept
  BY <1>1, <1>3, QuietReleases DEF Table!Next
<1>4. CASE UNCHANGED vars
  BY <1>3, <1>4, StutterStep
<1>5. ASSUME Next, ~\E w \in Workers : ClaimUpdate(w) \/ ClaimFault(w)
      PROVE  QuietRows /\ ExecsKept
  BY <1>5, QuietNext
<1> QED BY <1>2, <1>3, <1>4, <1>5

\* The job table is a lock that counts its turns: what JobClaims promises
\* holds of every run of the engine.
THEOREM EngineImplementsClaims == Spec => ImplementsClaims
<1>1. Init => Table!Init
  BY DEF Init, Table!Init, HolderOf, TurnOf, ClaimsOf, GoneOf, BlankRow
<1>2. Inv /\ [Next]_vars => [Table!Next]_(Table!cvars)
  BY StepRefines
<1> QED BY <1>1, <1>2, Invariance, PTL DEF Spec, Table!Spec, ImplementsClaims
=============================================================================
