-------------------------- MODULE JobLimitsProofs --------------------------
(***************************************************************************)
(* What holds of the job engine, for any jobs, workers and bounds, while   *)
(* executions keep their lease: Prompt, no database fault and no admin     *)
(* call (a retry takes a running job away from its handler).  Crashes and  *)
(* stops are in.                                                           *)
(*                                                                         *)
(* Then an execution is the owner of its row until it acks or nacks, so a  *)
(* job has one execution at most, and what the row records is what that    *)
(* execution did.                                                          *)
(***************************************************************************)
EXTENDS JobQueueProofs

KeepsLeases == Prompt /\ Budget["admin"] = 0 /\ Budget["fault"] = 0

\* The row still carries the claim of e, and its lease lives.
Attends(e) ==
  /\ rows[e.job].status = "running"
  /\ rows[e.job].claimed_by = e.worker
  /\ rows[e.job].attempts = e.attempt
  /\ rows[e.job].lease >= 0
  /\ e.phase = "handling" => e.renew

\* The history has room for the entry e will append; under SKIP LOCKED the
\* claim has appended it and the execution gets no further.
HasRoom(e) ==
  /\ skipLocked => e.phase = "held"
  /\ ~skipLocked => Len(rows[e.job].history) < rows[e.job].attempts

JobOK(j) ==
  /\ \A e \in execs : e.job = j => Attends(e) /\ HasRoom(e)
  /\ rows[j].status = "done" => rows[j].executed_by = rows[j].result
  /\ Len(rows[j].history) <= rows[j].attempts

Kept == /\ Inv
        /\ left["admin"] = 0 /\ left["fault"] = 0
        /\ \A j \in Jobs : JobOK(j)

-----------------------------------------------------------------------------
(* The operations on one row *)

LEMMA AppendAttemptLen ==
  ASSUME NEW row \in Row, NEW worker, NEW status
  PROVE  /\ Len(AppendAttempt(row, worker, status)) \in Nat
         /\ Len(AppendAttempt(row, worker, status)) <= Len(row.history) + 1
<1> DEFINE all == Append(row.history, [worker |-> worker, status |-> status])
<1>1. row.history \in Seq(Entry)
  BY DEF Row
<1> DEFINE S == Entry \cup {[worker |-> worker, status |-> status]}
<1>2. row.history \in Seq(S) /\ [worker |-> worker, status |-> status] \in S
  <2>1. \A i \in 1 .. Len(row.history) : row.history[i] \in S
    BY <1>1
  <2> QED BY <1>1, <2>1
<1>3. all \in Seq(S) /\ Len(all) = Len(row.history) + 1 /\ Len(row.history) \in Nat
  <2> HIDE DEF S
  <2> QED BY <1>2
<1>4. CASE Len(all) <= HistoryCap
  BY <1>3, <1>4 DEF AppendAttempt
<1>5. CASE ~(Len(all) <= HistoryCap)
  <2>1. HistoryCap \in Nat
    BY ConstantsAssumption
  <2> HIDE DEF S
  <2>2. ASSUME NEW m \in Int, NEW n \in Int, \A i \in m .. n : all[i] \in S
        PROVE  Len(SubSeq(all, m, n)) = IF m <= n THEN n - m + 1 ELSE 0
    <3> HIDE DEF all
    <3> QED BY <2>2, SubSeqProperties, Zenon
  <2>3. \A i \in (Len(all) - HistoryCap + 1) .. Len(all) : all[i] \in S
    <3> HIDE DEF all
    <3> QED BY <1>3, <1>5, <2>1
  <2>4. Len(all) - HistoryCap + 1 \in Int /\ Len(all) \in Int
    BY <1>3, <2>1
  <2>5. Len(SubSeq(all, Len(all) - HistoryCap + 1, Len(all))) =
          IF Len(all) - HistoryCap + 1 <= Len(all)
            THEN Len(all) - (Len(all) - HistoryCap + 1) + 1 ELSE 0
    BY <2>2, <2>3, <2>4
  <2>6. AppendAttempt(row, worker, status)
          = SubSeq(all, Len(all) - HistoryCap + 1, Len(all))
    BY <1>5 DEF AppendAttempt
  <2> HIDE DEF all
  <2> QED BY <1>3, <1>5, <2>1, <2>5, <2>6
<1> QED BY <1>4, <1>5

LEMMA AckedFields ==
  ASSUME NEW row \in Row, NEW e
  PROVE  /\ Acked(row, e).status = "done"
         /\ Acked(row, e).executed_by = row.claimed_by
         /\ Acked(row, e).result = e.worker
         /\ Acked(row, e).attempts = row.attempts
         /\ Acked(row, e).history = AppendAttempt(row, row.claimed_by, "done")
BY DEF Acked, ClearClaim, Row

LEMMA NackedFields ==
  ASSUME NEW j \in Jobs, rows[j] \in Row
  PROVE  /\ Nacked(j).status = IF Exhausted(j) THEN "failed" ELSE "pending"
         /\ Nacked(j).attempts = rows[j].attempts
         /\ Len(Nacked(j).history) <= Len(rows[j].history) + 1
<1> DEFINE next == IF Exhausted(j) THEN "failed" ELSE "pending"
           h == AppendAttempt(rows[j], rows[j].claimed_by, next)
<1>1. Len(h) <= Len(rows[j].history) + 1
  BY AppendAttemptLen
<1>2. Nacked(j) = ClearClaim([rows[j] EXCEPT !.status = next,
                                !.executed_by = rows[j].claimed_by, !.history = h])
  BY DEF Nacked
<1> HIDE DEF next, h
<1>3. /\ Nacked(j).status = next /\ Nacked(j).attempts = rows[j].attempts
      /\ Nacked(j).history = h
  BY <1>2 DEF ClearClaim, Row
<1> QED BY <1>1, <1>3 DEF next

LEMMA ClaimedFields ==
  ASSUME NEW row \in Row, NEW w
  PROVE  /\ Claimed(row, w).status = "running"
         /\ Claimed(row, w).claimed_by = w
         /\ Claimed(row, w).lease = Lease
         /\ Claimed(row, w).attempts = row.attempts + 1
         /\ ~skipLocked => Claimed(row, w).history = row.history
         /\ Len(Claimed(row, w).history) <= Len(row.history) + 1
<1> DEFINE h == IF skipLocked THEN AppendAttempt(row, w, "running") ELSE row.history
<1>1. Len(h) <= Len(row.history) + 1
  <2>1. Len(row.history) \in Nat
    BY DEF Row
  <2> QED BY <2>1, AppendAttemptLen
<1>2. Claimed(row, w) = [row EXCEPT !.status = "running", !.claimed_by = w, !.lease = Lease,
                           !.attempts = row.attempts + 1, !.history = h]
  BY DEF Claimed, Row
<1> HIDE DEF h
<1>3. /\ Claimed(row, w).status = "running" /\ Claimed(row, w).claimed_by = w
      /\ Claimed(row, w).lease = Lease /\ Claimed(row, w).attempts = row.attempts + 1
      /\ Claimed(row, w).history = h
  BY <1>2 DEF Row
<1> QED BY <1>1, <1>3 DEF h

LEMMA RequeuedFields ==
  ASSUME NEW row \in Row
  PROVE  /\ Requeued(row).status = "pending" /\ Requeued(row).attempts = row.attempts
         /\ Requeued(row).history = row.history
BY DEF Requeued, ClearClaim, Row

-----------------------------------------------------------------------------
(* The steps, action by action *)

LEMMA KeptTypes ==
  ASSUME Kept
  PROVE  /\ rows \in [Jobs -> Row]
         /\ \A j \in Jobs : /\ rows[j] \in Row /\ rows[j].attempts \in Nat
                            /\ rows[j].lease \in Int /\ Len(rows[j].history) \in Nat
         /\ \A e \in execs : e \in Execution /\ e.job \in Jobs
<1>1. rows \in [Jobs -> Row] /\ execs \subseteq Execution
  BY DEF Kept, Inv, TypeOK
<1>2. ASSUME NEW j \in Jobs
      PROVE  /\ rows[j] \in Row /\ rows[j].attempts \in Nat /\ rows[j].lease \in Int
             /\ Len(rows[j].history) \in Nat
  <2>1. rows[j] \in Row
    BY <1>1
  <2>2. rows[j].history \in Seq(Entry) /\ rows[j].attempts \in Nat
    BY <2>1 DEF Row
  <2>3. rows[j].lease \in {-2} \cup (-1 .. Lease) /\ Lease \in Nat
    BY <2>1, ConstantsAssumption DEF Row, NoLease
  <2> QED BY <2>1, <2>2, <2>3
<1> QED BY <1>1, <1>2 DEF Execution

\* A job whose row and executions are as before.
LEMMA SameJob ==
  ASSUME Kept, UNCHANGED skipLocked, NEW j \in Jobs, rows'[j] = rows[j],
         \A f \in execs' : f.job = j => f \in execs
  PROVE  JobOK(j)'
BY DEF Kept, JobOK, Attends, HasRoom

\* A job without executions, pending again or for the first time.
LEMMA IdleJob ==
  ASSUME NEW j \in Jobs, \A f \in execs' : f.job # j, rows'[j].status # "done",
         Len(rows'[j].history) <= rows'[j].attempts
  PROVE  JobOK(j)'
BY DEF JobOK

LEMMA OnlyRunning ==
  ASSUME Kept, NEW e \in execs
  PROVE  /\ Attends(e) /\ HasRoom(e)
         /\ \A f \in execs : f.job = e.job => f = e
<1>1. \A f \in execs : Attends(f) /\ HasRoom(f)
  BY KeptTypes DEF Kept, JobOK
<1> QED BY <1>1 DEF Attends, Kept, Inv, AttemptHasOneOwner

LEMMA NoSpend ==
  ASSUME Kept
  PROVE  ~Spend("admin") /\ ~Spend("fault")
BY DEF Kept, Spend

LEMMA SubmitKept ==
  ASSUME Kept, NEW j \in Jobs, Submit(j), UNCHANGED skipLocked
  PROVE  \A k \in Jobs : JobOK(k)'
<1> PICK b : rows' = [rows EXCEPT ![j] = BlankRow("pending", Request[j].run_after, b)]
  BY DEF Submit, Put
<1>1. UNCHANGED execs /\ rows[j].status = "new"
  BY DEF Submit
<1>2. \A e \in execs : e.job # j
  BY <1>1, OnlyRunning DEF Attends
<1> DEFINE r == BlankRow("pending", Request[j].run_after, b)
<1>3. r.status = "pending" /\ Len(r.history) <= r.attempts
  BY DEF BlankRow
<1> HIDE DEF r
<1>4. ASSUME NEW k \in Jobs PROVE JobOK(k)'
  <2>1. CASE k = j
    <3>1. rows'[j] = r
      BY KeptTypes DEF r
    <3> QED BY <1>1, <1>2, <1>3, <2>1, <3>1, IdleJob
  <2>2. CASE k # j
    BY <1>1, <2>2, KeptTypes, SameJob
  <2> QED BY <2>1, <2>2
<1> QED BY <1>4

LEMMA ReclaimKept ==
  ASSUME Kept, NEW w \in Workers, Start(w) \/ Sweep(w), UNCHANGED skipLocked
  PROVE  \A k \in Jobs : JobOK(k)'
<1>1. rows' = ReclaimStalled(w) /\ UNCHANGED execs
  BY NoSpend DEF Start, Sweep
<1>2. ASSUME NEW k \in Jobs PROVE JobOK(k)'
  <2>1. CASE rows'[k] = rows[k]
    BY <1>1, <2>1, SameJob
  <2>2. CASE Lapsed(k) /\ rows'[k] = Requeued(rows[k])
    <3>1. \A e \in execs : e.job # k
      BY <2>2, OnlyRunning DEF Lapsed, Attends
    <3>2. rows'[k].status = "pending" /\ Len(rows'[k].history) <= rows'[k].attempts
      BY <2>2, KeptTypes, RequeuedFields DEF Kept, JobOK
    <3> QED BY <1>1, <3>1, <3>2, IdleJob
  <2> QED BY <1>1, <2>1, <2>2 DEF ReclaimStalled
<1> QED BY <1>2

\* What a claim is: a job nobody executes, pending until now.
LEMMA ClaimShape ==
  ASSUME Kept, NEW w \in Workers, ClaimUpdate(w) \/ ClaimFault(w)
  PROVE  \E j \in Jobs :
           /\ rows[j].status = "pending" /\ \A e \in execs : e.job # j
           /\ rows' = [rows EXCEPT ![j] = Claimed(rows[j], w)]
           /\ execs' = execs \cup {[worker |-> w, job |-> j, attempt |-> rows[j].attempts + 1,
                                    phase |-> "held", renew |-> FALSE,
                                    task |-> FALSE, slot |-> FALSE]}
           /\ UNCHANGED left
<1>1. PICK j \in cands[w] :
        /\ Claims(w, j) /\ Put(j, Claimed(rows[j], w))
        /\ execs' = execs \cup {[worker |-> w, job |-> j, attempt |-> rows[j].attempts + 1,
                                    phase |-> "held", renew |-> FALSE,
                                    task |-> FALSE, slot |-> FALSE]}
        /\ UNCHANGED left
  BY NoSpend DEF ClaimUpdate, ClaimFault
<1>2. j \in Jobs /\ rows[j].status = "pending"
  BY <1>1 DEF Kept, Inv, TypeOK, Claims, StillPending, LocksHold
<1>3. \A e \in execs : e.job # j
  BY <1>2, OnlyRunning DEF Attends
<1> QED BY <1>1, <1>2, <1>3 DEF Put

LEMMA ClaimKept ==
  ASSUME Kept, NEW w \in Workers, ClaimUpdate(w) \/ ClaimFault(w), UNCHANGED skipLocked
  PROVE  \A k \in Jobs : JobOK(k)'
<1> PICK j \in Jobs :
           /\ rows[j].status = "pending" /\ \A e \in execs : e.job # j
           /\ rows' = [rows EXCEPT ![j] = Claimed(rows[j], w)]
           /\ execs' = execs \cup {[worker |-> w, job |-> j, attempt |-> rows[j].attempts + 1,
                                    phase |-> "held", renew |-> FALSE,
                                    task |-> FALSE, slot |-> FALSE]}
           /\ UNCHANGED left
  BY ClaimShape
<1> DEFINE r == Claimed(rows[j], w)
<1> PICK new : new = [worker |-> w, job |-> j, attempt |-> rows[j].attempts + 1,
                      phase |-> "held", renew |-> FALSE, task |-> FALSE, slot |-> FALSE]
  OBVIOUS
<1>1. /\ r.status = "running" /\ r.claimed_by = w /\ r.lease = Lease
      /\ r.attempts = rows[j].attempts + 1
      /\ ~skipLocked => r.history = rows[j].history
      /\ Len(r.history) <= Len(rows[j].history) + 1
  BY KeptTypes, ClaimedFields
<1>2. /\ new.worker = w /\ new.job = j /\ new.attempt = rows[j].attempts + 1
      /\ new.phase = "held"
  OBVIOUS
<1>3. execs' = execs \cup {new} /\ rows' = [rows EXCEPT ![j] = r]
  OBVIOUS
<1> HIDE DEF r
<1>4. ASSUME NEW k \in Jobs PROVE JobOK(k)'
  <2>1. CASE k = j
    <3>1. rows'[j] = r
      BY <1>3, KeptTypes
    <3>2. Len(rows[j].history) <= rows[j].attempts
      BY DEF Kept, JobOK
    <3>3. /\ rows[j].attempts \in Nat /\ Len(rows[j].history) \in Nat /\ Lease \in Nat
          /\ rows[j] \in Row
      BY KeptTypes, ConstantsAssumption
    <3>4. Len(r.history) <= r.attempts
      <4>1. CASE skipLocked
        <5>1. r.history = AppendAttempt(rows[j], w, "running")
          BY <4>1 DEF r, Claimed, Row
        <5>2. Len(r.history) \in Nat
          BY <3>3, <5>1, AppendAttemptLen
        <5> QED BY <1>1, <3>2, <3>3, <5>2
      <4>2. CASE ~skipLocked
        BY <1>1, <3>2, <3>3, <4>2
      <4> QED BY <4>1, <4>2
    <3>5. \A f \in execs' : f.job = j => f = new
      BY <1>3
    <3>6. Attends(new)' /\ HasRoom(new)'
      BY <1>1, <1>2, <3>1, <3>2, <3>3 DEF Attends, HasRoom
    <3> QED BY <1>1, <2>1, <3>1, <3>4, <3>5, <3>6 DEF JobOK
  <2>2. CASE k # j
    BY <1>2, <1>3, <2>2, KeptTypes, SameJob
  <2> QED BY <2>1, <2>2
<1> QED BY <1>4

\* An execution moves on while its row stays as it is.
LEMMA MovedKept ==
  ASSUME Kept, UNCHANGED <<skipLocked, rows>>, ~skipLocked,
         NEW e \in execs, NEW f, f.worker = e.worker, f.job = e.job, f.attempt = e.attempt,
         f.phase = "handling" => f.renew,
         \A g \in execs' : g \in execs \/ g = f
  PROVE  \A k \in Jobs : JobOK(k)'
<1>1. /\ Attends(e) /\ HasRoom(e) /\ e.job \in Jobs
  BY KeptTypes, OnlyRunning
<1>2. Attends(f)' /\ HasRoom(f)'
  BY <1>1 DEF Attends, HasRoom
<1>3. \A g \in execs : (Attends(g) /\ HasRoom(g))'
  BY OnlyRunning DEF Attends, HasRoom
<1> QED BY <1>2, <1>3 DEF Kept, JobOK

LEMMA LaunchKept ==
  ASSUME Kept, NEW w \in Workers, Launch(w), UNCHANGED skipLocked
  PROVE  \A k \in Jobs : JobOK(k)'
<1>1. CASE skipLocked
  <2>1. UNCHANGED rows /\ execs' \subseteq execs
    BY <1>1 DEF Launch
  <2> QED BY <2>1, SameJob
<1>2. CASE ~skipLocked
  <2> PICK e \in execs :
        execs' = (execs \ {e}) \cup
                      {[e EXCEPT !.phase = "handling", !.renew = TRUE,
                                 !.task = TRUE, !.slot = TRUE]}
    BY <1>2 DEF Launch
  <2> PICK f : f = [e EXCEPT !.phase = "handling", !.renew = TRUE,
                             !.task = TRUE, !.slot = TRUE]
    OBVIOUS
  <2>1. /\ f.worker = e.worker /\ f.job = e.job /\ f.attempt = e.attempt
        /\ f.phase = "handling" => f.renew
    <3>1. e \in Execution
      BY KeptTypes
    <3>2. f.worker = e.worker /\ f.job = e.job /\ f.attempt = e.attempt
      BY <3>1, LaunchedExecution
    <3>3. f.renew
      BY <3>1 DEF Execution
    <3> QED BY <3>2, <3>3
  <2>2. UNCHANGED <<skipLocked, rows>> /\ \A g \in execs' : g \in execs \/ g = f
    BY DEF Launch
  <2>3. f.phase = "handling" => f.renew
    BY <2>1
  <2> QED BY <1>2, <2>1, <2>2, <2>3, MovedKept
<1> QED BY <1>1, <1>2

\* The job of an execution that ends.
LEMMA EndedKept ==
  ASSUME Kept, UNCHANGED skipLocked, NEW e \in execs, execs' = execs \ {e}, NEW r,
         rows' = [rows EXCEPT ![e.job] = r],
         r.status = "done" => r.executed_by = r.result,
         r.attempts = rows[e.job].attempts,
         Len(r.history) <= Len(rows[e.job].history) + 1, Len(r.history) \in Nat,
         e.phase # "held"
  PROVE  \A k \in Jobs : JobOK(k)'
<1>1. /\ Attends(e) /\ HasRoom(e) /\ e.job \in Jobs
      /\ \A f \in execs : f.job = e.job => f = e
  BY KeptTypes, OnlyRunning
<1>2. /\ Len(rows[e.job].history) < rows[e.job].attempts
      /\ rows[e.job].attempts \in Nat /\ Len(rows[e.job].history) \in Nat
  BY <1>1, KeptTypes DEF HasRoom
<1>3. ASSUME NEW k \in Jobs PROVE JobOK(k)'
  <2>1. CASE k = e.job
    <3>1. rows'[k] = r
      BY <2>1, KeptTypes
    <3>2. \A f \in execs' : f.job # k
      BY <1>1, <2>1
    <3>3. Len(r.history) <= r.attempts
      BY <1>2
    <3>4. /\ rows'[k].status = "done" => rows'[k].executed_by = rows'[k].result
          /\ Len(rows'[k].history) <= rows'[k].attempts
      BY <3>1, <3>3
    <3> QED BY <3>2, <3>4 DEF JobOK
  <2>2. CASE k # e.job
    BY <2>2, KeptTypes, SameJob
  <2> QED BY <2>1, <2>2
<1> QED BY <1>3

LEMMA RunOneKept ==
  ASSUME Kept, NEW e \in execs, RunOne(e), UNCHANGED skipLocked
  PROVE  \A k \in Jobs : JobOK(k)'
<1>1. /\ Attends(e) /\ HasRoom(e) /\ e \in Execution /\ e.job \in Jobs /\ rows[e.job] \in Row
      /\ rows[e.job].attempts \in Nat
  BY KeptTypes, OnlyRunning
<1>2. CASE HandlerReturns(e) \/ HandlerRaises(e)
  <2> PICK p \in {"acking", "nacking"} :
        e.phase = "handling" /\ Becomes(e, [e EXCEPT !.phase = p, !.renew = FALSE])
                             /\ UNCHANGED rows
    BY <1>2 DEF HandlerReturns, HandlerRaises
  <2> PICK f : f = [e EXCEPT !.phase = p, !.renew = FALSE]
    OBVIOUS
  <2>1. f.worker = e.worker /\ f.job = e.job /\ f.attempt = e.attempt
    BY <1>1, PhasedExecution
  <2>2. f.phase = p
    BY <1>1 DEF Execution
  <2>3. ~skipLocked
    BY <1>1 DEF HasRoom
  <2>4. \A g \in execs' : g \in execs \/ g = f
    BY DEF Becomes
  <2>5. f.phase = "handling" => f.renew
    BY <2>2
  <2>6. UNCHANGED <<skipLocked, rows>>
    OBVIOUS
  <2> QED BY <2>1, <2>3, <2>4, <2>5, <2>6, MovedKept
<1>3. CASE Ack(e)
  <2> DEFINE r == Acked(rows[e.job], e)
  <2>1. rows' = [rows EXCEPT ![e.job] = r] /\ execs' = execs \ {e} /\ e.phase # "held"
    BY <1>1, <1>3 DEF Ack, AckRow, Attends, Put
  <2>2. /\ r.executed_by = r.result /\ r.attempts = rows[e.job].attempts
        /\ r.history = AppendAttempt(rows[e.job], rows[e.job].claimed_by, "done")
    BY <1>1, AckedFields DEF Attends
  <2>3. Len(r.history) <= Len(rows[e.job].history) + 1 /\ Len(r.history) \in Nat
    BY <1>1, <2>2, AppendAttemptLen
  <2> HIDE DEF r
  <2> QED BY <2>1, <2>2, <2>3, EndedKept
<1>4. CASE Nack(e)
  <2> DEFINE r == Nacked(e.job)
  <2>1. rows' = [rows EXCEPT ![e.job] = r] /\ execs' = execs \ {e} /\ e.phase # "held"
    BY <1>1, <1>4 DEF Nack, Stored, Attends, Put
  <2>2. /\ r.status # "done" /\ r.attempts = rows[e.job].attempts
        /\ Len(r.history) <= Len(rows[e.job].history) + 1
    BY <1>1, NackedFields
  <2>3. Len(r.history) \in Nat
    <3>1. r \in Row
      BY <1>1, NackedRow DEF Kept, Inv, Attends
    <3> HIDE DEF r
    <3>2. r.history \in Seq(Entry)
      BY <3>1 DEF Row
    <3>3. ASSUME NEW s \in Seq(Entry) PROVE Len(s) \in Nat
      OBVIOUS
    <3> QED BY <3>2, <3>3
  <2> HIDE DEF r
  <2> QED BY <2>1, <2>2, <2>3, EndedKept
<1>5. ~AckFault(e) /\ ~NackFault(e) /\ ~RenewFault(e)
  BY NoSpend DEF AckFault, NackFault, RenewFault
<1> QED BY <1>2, <1>3, <1>4, <1>5 DEF RunOne

\* A row whose lease changes, and stays for those who have it.
LEMMA LeaseKept ==
  ASSUME Kept, UNCHANGED skipLocked, NEW k \in Jobs, UNCHANGED execs,
         rows'[k].status = rows[k].status, rows'[k].claimed_by = rows[k].claimed_by,
         rows'[k].attempts = rows[k].attempts, rows'[k].history = rows[k].history,
         rows'[k].executed_by = rows[k].executed_by, rows'[k].result = rows[k].result,
         (\E e \in execs : e.job = k) => rows'[k].lease >= 0
  PROVE  JobOK(k)'
BY DEF Kept, JobOK, Attends, HasRoom

LEMMA RenewKept ==
  ASSUME Kept, NEW w \in Workers, NEW j \in Jobs, RenewLease(w, j) \/ ZombieFault(w, j),
         UNCHANGED skipLocked
  PROVE  \A k \in Jobs : JobOK(k)'
<1>1. rows' = [rows EXCEPT ![j] = Renewed(j)] /\ UNCHANGED execs
  BY NoSpend DEF RenewLease, ZombieFault, Put
<1>2. ASSUME NEW k \in Jobs PROVE JobOK(k)'
  <2>1. CASE k = j
    <3>1. rows'[k] = [rows[k] EXCEPT !.lease = RenewTo] /\ RenewTo >= 0
      BY <1>1, <2>1, KeptTypes, ConstantsAssumption DEF Renewed
    <3>2. rows[k] \in Row
      BY KeptTypes
    <3>3. /\ rows'[k].status = rows[k].status /\ rows'[k].claimed_by = rows[k].claimed_by
          /\ rows'[k].attempts = rows[k].attempts /\ rows'[k].history = rows[k].history
          /\ rows'[k].executed_by = rows[k].executed_by /\ rows'[k].result = rows[k].result
          /\ rows'[k].lease = RenewTo
      BY <3>1, <3>2 DEF Row
    <3> QED BY <1>1, <3>1, <3>3, LeaseKept
  <2>2. CASE k # j
    BY <1>1, <2>2, KeptTypes, SameJob
  <2> QED BY <2>1, <2>2
<1> QED BY <1>2

\* Prompt: time waits for the executions whose lease is at its last instant.
LEMMA TickKept ==
  ASSUME Kept, KeepsLeases, Tick, UNCHANGED skipLocked
  PROVE  \A k \in Jobs : JobOK(k)'
<1>1. /\ rows' = [j \in Jobs |-> Aged(rows[j])] /\ UNCHANGED execs
      /\ \A j \in Jobs : rows[j].lease = 0 => ~Attended(j)
  BY DEF Tick, KeepsLeases
<1>2. ASSUME NEW k \in Jobs PROVE JobOK(k)'
  <2>1. rows[k] \in Row /\ rows[k].lease \in Int
    BY KeptTypes
  <2> DEFINE l == IF rows[k].lease >= 0 THEN rows[k].lease - 1 ELSE rows[k].lease
             t == IF rows[k].wait > 0 THEN rows[k].wait - 1 ELSE rows[k].wait
  <2>2. rows'[k] = [rows[k] EXCEPT !.lease = l, !.wait = t]
    BY <1>1, <2>1 DEF Aged, Row
  <2>3. \A e \in execs : e.job = k => l >= 0
    <3> SUFFICES ASSUME NEW e \in execs, e.job = k PROVE l >= 0
      OBVIOUS
    <3>1. Attends(e)
      BY OnlyRunning
    <3>2. rows[k].lease # 0
      BY <1>1, <3>1 DEF Attends, Attended
    <3> QED BY <2>1, <3>1, <3>2 DEF Attends
  <2> HIDE DEF l, t
  <2>4. /\ rows'[k].status = rows[k].status /\ rows'[k].claimed_by = rows[k].claimed_by
        /\ rows'[k].attempts = rows[k].attempts /\ rows'[k].history = rows[k].history
        /\ rows'[k].executed_by = rows[k].executed_by /\ rows'[k].result = rows[k].result
        /\ rows'[k].lease = l
    BY <2>1, <2>2 DEF Row
  <2> QED BY <1>1, <2>3, <2>4, LeaseKept
<1> QED BY <1>2

\* Those a stop leaves stay who they are.
LEMMA StopKept ==
  ASSUME Kept, NEW w \in Workers, Stop(w) \/ Crash(w), UNCHANGED skipLocked
  PROVE  \A k \in Jobs : JobOK(k)'
<1>1. UNCHANGED rows
  BY DEF Stop, Crash
<1>2. ASSUME NEW f \in execs'
      PROVE  \E e \in execs : /\ f.worker = e.worker /\ f.job = e.job
                             /\ f.attempt = e.attempt /\ f.phase = e.phase
                             /\ f.renew = e.renew
  <2>1. CASE f \in execs
    BY <2>1
  <2>2. CASE \E e \in execs : f = [e EXCEPT !.slot = FALSE]
    BY <2>2, KeptTypes DEF Execution
  <2>3. CASE \E e \in execs : f = [e EXCEPT !.task = FALSE, !.slot = FALSE]
    <3> PICK e \in execs : f = [e EXCEPT !.task = FALSE, !.slot = FALSE]
      BY <2>3
    <3>1. e \in Execution
      BY DEF Kept, Inv, TypeOK
    <3>2. f.worker = e.worker /\ f.job = e.job /\ f.attempt = e.attempt
      BY <3>1, SlottedExecution
    <3>3. f.phase = e.phase
      BY <3>1 DEF Execution
    <3>4. f.renew = e.renew
      BY <3>1 DEF Execution
    <3> QED BY <3>2, <3>3, <3>4
  <2>4. CASE Crash(w)
    BY <2>1, <2>4 DEF Crash
  <2>5. CASE Stop(w)
    <3> PICK late \in SUBSET Named(w) :
          execs' = {e \in execs : e.worker # w}
                     \cup {[e EXCEPT !.slot = FALSE] : e \in Unnamed(w)}
                     \cup {[e EXCEPT !.task = FALSE, !.slot = FALSE] : e \in late}
      BY <2>5 DEF Stop
    <3>1. Unnamed(w) \subseteq execs /\ late \subseteq execs
      BY DEF Unnamed, Named
    <3>2. \/ f \in execs
          \/ \E e \in execs : f = [e EXCEPT !.slot = FALSE]
          \/ \E e \in execs : f = [e EXCEPT !.task = FALSE, !.slot = FALSE]
      BY <3>1
    <3> QED BY <2>1, <2>2, <2>3, <3>2
  <2> QED BY <2>4, <2>5
<1>3. ASSUME NEW f \in execs'
      PROVE  Attends(f)' /\ HasRoom(f)'
  <2> PICK e \in execs : /\ f.worker = e.worker /\ f.job = e.job
                         /\ f.attempt = e.attempt /\ f.phase = e.phase
                         /\ f.renew = e.renew
    BY <1>2
  <2> QED BY <1>1, OnlyRunning DEF Attends, HasRoom
<1> QED BY <1>1, <1>3 DEF Kept, JobOK

-----------------------------------------------------------------------------
(* The theorems that rest on kept leases *)

LEMMA KeptInit ==
  ASSUME KeepsLeases, Init
  PROVE  Kept
<1>1. Inv /\ left["admin"] = 0 /\ left["fault"] = 0
  BY InitInv DEF Init, KeepsLeases
<1>2. \A j \in Jobs : JobOK(j)
  BY DEF Init, JobOK, BlankRow
<1> QED BY <1>1, <1>2 DEF Kept

LEMMA KeptStep ==
  ASSUME KeepsLeases, Kept, [Next]_vars
  PROVE  Kept'
<1>1. Inv'
  BY NextStep DEF Kept
<1>2. left'["admin"] = 0 /\ left'["fault"] = 0
  <2>1. ASSUME NEW kind \in {"crash", "stop"}, Spend(kind)
        PROVE  left'["admin"] = left["admin"] /\ left'["fault"] = left["fault"]
    BY <2>1 DEF Spend, Kept, Inv, TypeOK
  <2>2. left' = left \/ \E kind \in {"crash", "stop"} : Spend(kind)
    BY NoSpend DEF Next, vars, Client, Submit, Retry, Cancel, Delete, Start, Loop, Sweep,
       AtCapacity, ClaimSelect, ClaimUpdate, ClaimFault, ClaimMiss, ClaimNone, Launch, Stop,
       Crash, RunOne, HandlerReturns, HandlerRaises, Ack, AckFault, Nack, NackFault,
       RenewFault, RenewLease, ZombieFault, Tick
  <2> QED BY <2>1, <2>2 DEF Kept
<1>3. \A k \in Jobs : JobOK(k)'
  <2>1. CASE UNCHANGED <<skipLocked, rows, execs>>
    BY <2>1, SameJob
  <2>2. CASE Client /\ UNCHANGED skipLocked
    BY <2>2, SubmitKept, NoSpend DEF Client, Retry, Cancel, Delete
  <2>3. ASSUME NEW w \in Workers, UNCHANGED skipLocked,
               \/ Start(w) \/ Sweep(w) \/ ClaimUpdate(w) \/ ClaimFault(w) \/ Launch(w)
               \/ Stop(w) \/ Crash(w)
        PROVE  \A k \in Jobs : JobOK(k)'
    BY <2>3, ReclaimKept, ClaimKept, LaunchKept, StopKept
  <2>4. ASSUME NEW w \in Workers, AtCapacity(w) \/ ClaimSelect(w) \/ ClaimMiss(w) \/ ClaimNone(w)
        PROVE  UNCHANGED <<rows, execs>>
    BY <2>4 DEF AtCapacity, ClaimSelect, ClaimMiss, ClaimNone
  <2>5. ASSUME NEW e \in execs, RunOne(e), UNCHANGED skipLocked
        PROVE  \A k \in Jobs : JobOK(k)'
    BY <2>5, RunOneKept
  <2>6. ASSUME NEW w \in Workers, NEW j \in Jobs, RenewLease(w, j) \/ ZombieFault(w, j),
               UNCHANGED skipLocked
        PROVE  \A k \in Jobs : JobOK(k)'
    BY <2>6, RenewKept
  <2>7. CASE Tick /\ UNCHANGED skipLocked
    BY <2>7, TickKept
  <2> QED BY <2>1, <2>2, <2>3, <2>4, <2>5, <2>6, <2>7 DEF Next, Loop, vars
<1> QED BY <1>1, <1>2, <1>3 DEF Kept

\* The inductive invariant holds throughout.
THEOREM LeasesKept ==
  ASSUME KeepsLeases
  PROVE  Spec => []Kept
<1>1. Init => Kept
  BY KeptInit
<1>2. Kept /\ [Next]_vars => Kept'
  BY KeptStep
<1> QED BY <1>1, <1>2, PTL DEF Spec

\* A handler that keeps its lease has its job to itself.
THEOREM HandlersExcludeEachOther ==
  ASSUME KeepsLeases
  PROVE  Spec => []HandlersExclusive
<1>1. Kept => HandlersExclusive
  BY OnlyRunning DEF HandlersExclusive
<1> QED BY <1>1, LeasesKept, PTL

\* The executor a done row names is the one whose result it stores.
THEOREM ExecutorIsRecorded ==
  ASSUME KeepsLeases
  PROVE  Spec => []ExecutorRecorded
<1>1. Kept => ExecutorRecorded
  BY DEF Kept, JobOK, ExecutorRecorded
<1> QED BY <1>1, LeasesKept, PTL

\* No attempt leaves two entries.
THEOREM HistoryFitsAttempts ==
  ASSUME KeepsLeases
  PROVE  Spec => []OneEntryPerAttempt
<1>1. Kept => OneEntryPerAttempt
  BY DEF Kept, JobOK, OneEntryPerAttempt
<1> QED BY <1>1, LeasesKept, PTL

-----------------------------------------------------------------------------
(* Done rows: only a nack that comes too late, or an admin, would touch one *)

Frozen(j) ==
  rows[j].status = "done" =>
    /\ rows'[j].status = "done" /\ rows'[j].attempts = rows[j].attempts
    /\ rows'[j].executed_by = rows[j].executed_by /\ rows'[j].result = rows[j].result
    /\ rows'[j].history = rows[j].history

\* A done row keeps its status, its executor and its result.
DoneIsFinal == [][\A j \in Jobs : Frozen(j)]_vars

\* A step writes one row at most, and that one is not done; or it is a reclaim
\* or a tick.
LEMMA OneRowWritten ==
  ASSUME Kept, NEW k \in Jobs, rows[k].status # "done", NEW r, Put(k, r)
  PROVE  \A j \in Jobs : Frozen(j)
BY KeptTypes DEF Put, Frozen

LEMMA ReclaimFrozen ==
  ASSUME Kept, NEW w \in Workers, rows' = ReclaimStalled(w)
  PROVE  \A j \in Jobs : Frozen(j)
<1>1. \A j \in Jobs : rows[j].status = "done" => rows'[j] = rows[j]
  BY DEF ReclaimStalled, Lapsed
<1> QED BY <1>1 DEF Frozen

LEMMA TickFrozen ==
  ASSUME Kept, Tick
  PROVE  \A j \in Jobs : Frozen(j)
<1> SUFFICES ASSUME NEW j \in Jobs PROVE Frozen(j)
  OBVIOUS
<1> DEFINE l == IF rows[j].lease >= 0 THEN rows[j].lease - 1 ELSE rows[j].lease
           t == IF rows[j].wait > 0 THEN rows[j].wait - 1 ELSE rows[j].wait
<1>1. rows[j] \in Row
  BY KeptTypes
<1>2. rows'[j] = [rows[j] EXCEPT !.lease = l, !.wait = t]
  BY <1>1 DEF Tick, Aged, Row
<1> HIDE DEF l, t
<1> QED BY <1>1, <1>2 DEF Frozen, Row

\* An execution that answers does so to a row that is still running.
LEMMA RunOneFrozen ==
  ASSUME Kept, NEW e \in execs, RunOne(e)
  PROVE  \A j \in Jobs : Frozen(j)
<1>1. e.job \in Jobs /\ rows[e.job].status = "running"
  BY KeptTypes, OnlyRunning DEF Attends
<1>2. CASE UNCHANGED rows
  BY <1>2 DEF Frozen
<1>3. CASE Ack(e)
  BY <1>1, <1>3, OneRowWritten DEF Ack, AckRow
<1>4. CASE Nack(e)
  BY <1>1, <1>2, <1>4, OneRowWritten DEF Nack
<1> QED BY <1>2, <1>3, <1>4, NoSpend DEF RunOne, HandlerReturns, HandlerRaises, AckFault,
                                       NackFault, RenewFault

LEMMA StepFrozen ==
  ASSUME Kept, [Next]_vars
  PROVE  \A j \in Jobs : Frozen(j)
<1>1. CASE UNCHANGED rows
  BY <1>1 DEF Frozen
<1>2. CASE Client
  BY <1>2, OneRowWritten, NoSpend DEF Client, Submit, Retry, Cancel, Delete
<1>3. ASSUME NEW w \in Workers, Start(w) \/ Sweep(w)
      PROVE  \A j \in Jobs : Frozen(j)
  BY <1>3, ReclaimFrozen, NoSpend DEF Start, Sweep
<1>4. ASSUME NEW w \in Workers, ClaimUpdate(w) \/ ClaimFault(w)
      PROVE  \A j \in Jobs : Frozen(j)
  <2> PICK k \in Jobs : /\ rows[k].status = "pending"
                        /\ rows' = [rows EXCEPT ![k] = Claimed(rows[k], w)]
    BY <1>4, ClaimShape
  <2> QED BY OneRowWritten DEF Put
<1>5. ASSUME NEW w \in Workers, NEW k \in Jobs, RenewLease(w, k) \/ ZombieFault(w, k)
      PROVE  \A j \in Jobs : Frozen(j)
  BY <1>5, OneRowWritten, NoSpend DEF RenewLease, ZombieFault
<1>6. ASSUME NEW w \in Workers,
             \/ AtCapacity(w) \/ ClaimSelect(w) \/ ClaimMiss(w) \/ ClaimNone(w) \/ Launch(w)
             \/ Stop(w) \/ Crash(w)
      PROVE  UNCHANGED rows
  BY <1>6 DEF AtCapacity, ClaimSelect, ClaimMiss, ClaimNone, Launch, Stop, Crash
<1> QED BY <1>1, <1>2, <1>3, <1>4, <1>5, <1>6, RunOneFrozen, TickFrozen DEF Next, Loop, vars

\* A result that is stored stays, with the executor the row names: the nack
\* that tests nothing meets no done row.
THEOREM DoneStaysDone ==
  ASSUME KeepsLeases
  PROVE  Spec => DoneIsFinal
<1>1. Kept /\ [Next]_vars => [\A j \in Jobs : Frozen(j)]_vars
  BY StepFrozen
<1> QED BY <1>1, LeasesKept, PTL DEF Spec, DoneIsFinal

\* So a done job is never taken back, although without kept leases it can be.
THEOREM DoneIsNotTakenBack ==
  ASSUME KeepsLeases
  PROVE  Spec => DoneUntilRetried
<1>1. Kept /\ [Next]_vars
        => [\A j \in Jobs : rows[j].status = "done" /\ rows'[j].status # "done"
              => left'["admin"] < left["admin"]]_vars
  BY StepFrozen DEF Frozen
<1> QED BY <1>1, LeasesKept, PTL DEF Spec, DoneUntilRetried

-----------------------------------------------------------------------------
(* Attempts: every claim beyond max_attempts is one a crash or stop took *)

CountsAttempts == KeepsLeases /\ \A j \in Jobs : Request[j].max_attempts >= 1

Losses == Budget["crash"] - left["crash"] + Budget["stop"] - left["stop"]
Limit(j) == Request[j].max_attempts + Losses

\* A job that is to be claimed again has an attempt left, and so has one that
\* a crash or a stop left running.
CountOK(j) ==
  /\ rows[j].attempts <= Limit(j)
  /\ rows[j].status = "pending" => rows[j].attempts < Limit(j)
  /\ rows[j].status = "running" /\ (\A e \in execs : e.job # j)
       => rows[j].attempts < Limit(j)

Counted == /\ Kept
           /\ left["stop"] <= Budget["stop"] /\ left["crash"] <= Budget["crash"]
           /\ ~skipLocked => \A j \in Jobs : CountOK(j)

LEMMA CountTypes ==
  ASSUME CountsAttempts, Counted, NEW j \in Jobs
  PROVE  /\ rows[j] \in Row /\ rows[j].attempts \in Nat
         /\ Limit(j) \in Int /\ Request[j].max_attempts \in Int
         /\ Request[j].max_attempts <= Limit(j)
<1>1. /\ Request[j].max_attempts \in Int
      /\ \A kind \in {"crash", "stop"} :
           Budget[kind] \in Nat /\ left[kind] \in Nat /\ left[kind] <= Budget[kind]
  BY ConstantsAssumption DEF Counted, Kept, Inv, TypeOK
<1> QED BY <1>1, KeptTypes DEF Counted, Limit, Losses

\* A job whose row has the status and the attempts it had.
LEMMA CountSame ==
  ASSUME CountsAttempts, Counted, UNCHANGED <<skipLocked, left>>, ~skipLocked, NEW j \in Jobs,
         rows'[j].status = rows[j].status, rows'[j].attempts = rows[j].attempts,
         \A e \in execs : e.job = j => \E f \in execs' : f.job = j
  PROVE  CountOK(j)'
BY CountTypes DEF Counted, CountOK, Limit, Losses

\* A job that is no longer, or not yet, running.
LEMMA CountIdle ==
  ASSUME CountsAttempts, Counted, UNCHANGED <<skipLocked, left>>, ~skipLocked, NEW j \in Jobs,
         rows'[j].attempts = rows[j].attempts, rows'[j].status # "running",
         rows'[j].status = "pending" => rows[j].attempts < Limit(j)
  PROVE  CountOK(j)'
BY CountTypes DEF Counted, CountOK, Limit, Losses

LEMMA CountClients ==
  ASSUME CountsAttempts, Counted, Client, UNCHANGED skipLocked, ~skipLocked
  PROVE  \A k \in Jobs : CountOK(k)'
<1> PICK j \in Jobs : Submit(j)
  BY NoSpend DEF Counted, Client, Retry, Cancel, Delete
<1> PICK b : rows' = [rows EXCEPT ![j] = BlankRow("pending", Request[j].run_after, b)]
  BY DEF Submit, Put
<1>1. /\ UNCHANGED <<execs, left>> /\ rows[j].status = "new" /\ rows[j].attempts = 0
  BY DEF Submit, Counted, Kept, Inv, RowOK
<1>2. ASSUME NEW k \in Jobs PROVE CountOK(k)'
  <2>1. CASE k = j
    <3>1. rows'[k].attempts = 0 /\ rows'[k].status = "pending"
      BY <2>1, KeptTypes DEF BlankRow, Counted
    <3>2. rows[k].attempts < Limit(k)
      BY <1>1, <2>1, CountTypes DEF CountsAttempts
    <3> QED BY <1>1, <2>1, <3>1, <3>2, CountIdle
  <2>2. CASE k # j
    BY <1>1, <2>2, KeptTypes, CountSame DEF Counted
  <2> QED BY <2>1, <2>2
<1> QED BY <1>2

LEMMA CountReclaim ==
  ASSUME CountsAttempts, Counted, NEW w \in Workers, Start(w) \/ Sweep(w),
         UNCHANGED skipLocked, ~skipLocked
  PROVE  \A k \in Jobs : CountOK(k)'
<1>1. rows' = ReclaimStalled(w) /\ UNCHANGED <<execs, left>>
  BY NoSpend DEF Start, Sweep, Counted
<1>2. ASSUME NEW k \in Jobs PROVE CountOK(k)'
  <2>1. CASE rows'[k] = rows[k]
    BY <1>1, <2>1, CountSame
  <2>2. CASE Lapsed(k) /\ rows'[k] = Requeued(rows[k])
    <3>1. \A e \in execs : e.job # k
      BY <2>2, OnlyRunning DEF Lapsed, Attends, Counted
    <3>2. rows[k].attempts < Limit(k)
      BY <2>2, <3>1 DEF Counted, CountOK, Lapsed
    <3>3. rows'[k].status = "pending" /\ rows'[k].attempts = rows[k].attempts
      BY <2>2, CountTypes, RequeuedFields
    <3> QED BY <1>1, <3>2, <3>3, CountIdle
  <2> QED BY <1>1, <2>1, <2>2 DEF ReclaimStalled
<1> QED BY <1>2

LEMMA CountClaim ==
  ASSUME CountsAttempts, Counted, NEW w \in Workers, ClaimUpdate(w) \/ ClaimFault(w),
         UNCHANGED skipLocked, ~skipLocked
  PROVE  \A k \in Jobs : CountOK(k)'
<1> PICK j \in Jobs :
           /\ rows[j].status = "pending" /\ \A e \in execs : e.job # j
           /\ rows' = [rows EXCEPT ![j] = Claimed(rows[j], w)]
           /\ execs' = execs \cup {[worker |-> w, job |-> j, attempt |-> rows[j].attempts + 1,
                                    phase |-> "held", renew |-> FALSE,
                                    task |-> FALSE, slot |-> FALSE]}
           /\ UNCHANGED left
  BY ClaimShape DEF Counted
<1> DEFINE r == Claimed(rows[j], w)
<1>1. r.status = "running" /\ r.attempts = rows[j].attempts + 1
  BY CountTypes, ClaimedFields
<1>2. rows' = [rows EXCEPT ![j] = r] /\ rows \in [Jobs -> Row]
  BY KeptTypes DEF Counted
<1> HIDE DEF r
<1>3. \E f \in execs' : f.job = j
  <2> DEFINE new == [worker |-> w, job |-> j, attempt |-> rows[j].attempts + 1,
                     phase |-> "held", renew |-> FALSE, task |-> FALSE, slot |-> FALSE]
  <2>1. new.job = j /\ new \in execs'
    OBVIOUS
  <2> QED BY <2>1
<1>4. ASSUME NEW k \in Jobs PROVE CountOK(k)'
  <2>1. CASE k = j
    <3>1. rows'[k] = r
      BY <1>2, <2>1
    <3>2. rows[j].attempts < Limit(j) /\ Limit(j)' = Limit(j)
      BY DEF Counted, CountOK, Limit, Losses
    <3> QED BY <1>1, <1>3, <2>1, <3>1, <3>2, CountTypes DEF CountOK
  <2>2. CASE k # j
    BY <1>2, <2>2, CountSame
  <2> QED BY <2>1, <2>2
<1> QED BY <1>4

LEMMA CountRun ==
  ASSUME CountsAttempts, Counted, NEW e \in execs, RunOne(e), UNCHANGED skipLocked, ~skipLocked
  PROVE  \A k \in Jobs : CountOK(k)'
<1>1. /\ Attends(e) /\ e \in Execution /\ e.job \in Jobs /\ rows[e.job] \in Row
      /\ UNCHANGED left
  BY KeptTypes, OnlyRunning, NoSpend DEF Counted, RunOne, HandlerReturns, HandlerRaises, Ack,
     AckFault, Nack, NackFault, RenewFault
<1>2. CASE HandlerReturns(e) \/ HandlerRaises(e)
  <2> PICK p \in {"acking", "nacking"} :
        Becomes(e, [e EXCEPT !.phase = p, !.renew = FALSE]) /\ UNCHANGED rows
    BY <1>2 DEF HandlerReturns, HandlerRaises
  <2>1. [e EXCEPT !.phase = p, !.renew = FALSE].job = e.job
    BY <1>1, PhasedExecution
  <2>2. \A k \in Jobs : \A g \in execs : g.job = k => \E f \in execs' : f.job = k
    BY <2>1 DEF Becomes
  <2> QED BY <1>1, <2>2, CountSame
<1>3. ASSUME NEW r, rows' = [rows EXCEPT ![e.job] = r], execs' = execs \ {e},
             r.attempts = rows[e.job].attempts, r.status # "running",
             r.status = "pending" => rows[e.job].attempts < Limit(e.job)
      PROVE  \A k \in Jobs : CountOK(k)'
  <2>1. ASSUME NEW k \in Jobs PROVE CountOK(k)'
    <3>1. CASE k = e.job
      <4>1. rows'[k] = r
        BY <1>3, <3>1, KeptTypes DEF Counted
      <4> QED BY <1>1, <1>3, <3>1, <4>1, CountIdle
    <3>2. CASE k # e.job
      BY <1>1, <1>3, <3>2, KeptTypes, CountSame DEF Counted
    <3> QED BY <3>1, <3>2
  <2> QED BY <2>1
<1>4. CASE Ack(e)
  <2>1. rows' = [rows EXCEPT ![e.job] = Acked(rows[e.job], e)] /\ execs' = execs \ {e}
    BY <1>1, <1>4 DEF Ack, AckRow, Attends, Put
  <2> QED BY <1>1, <1>3, <2>1, AckedFields
<1>5. CASE Nack(e)
  <2>1. rows' = [rows EXCEPT ![e.job] = Nacked(e.job)] /\ execs' = execs \ {e}
    BY <1>1, <1>5 DEF Nack, Stored, Attends, Put
  <2>2. ~Exhausted(e.job) => rows[e.job].attempts < Limit(e.job)
    <3>1. /\ Request[e.job].max_attempts <= Limit(e.job) /\ Limit(e.job) \in Int
          /\ rows[e.job].attempts \in Nat /\ Request[e.job].max_attempts \in Int
      BY <1>1, CountTypes, ConstantsAssumption
    <3> QED BY <3>1 DEF Exhausted
  <2> DEFINE r == Nacked(e.job)
  <2>3. /\ r.attempts = rows[e.job].attempts
        /\ r.status = IF Exhausted(e.job) THEN "failed" ELSE "pending"
    BY <1>1, NackedFields
  <2>4. /\ r.status # "running"
        /\ r.status = "pending" => rows[e.job].attempts < Limit(e.job)
    BY <2>2, <2>3
  <2>5. rows' = [rows EXCEPT ![e.job] = r] /\ execs' = execs \ {e}
    BY <2>1
  <2> HIDE DEF r
  <2> QED BY <1>3, <2>3, <2>4, <2>5
<1>6. ~AckFault(e) /\ ~NackFault(e) /\ ~RenewFault(e)
  BY NoSpend DEF AckFault, NackFault, RenewFault, Counted
<1> QED BY <1>2, <1>4, <1>5, <1>6 DEF RunOne

LEMMA CountTimes ==
  ASSUME CountsAttempts, Counted, UNCHANGED skipLocked, ~skipLocked,
         Tick \/ \E w \in Workers, j \in Jobs : RenewLease(w, j) \/ ZombieFault(w, j)
  PROVE  \A k \in Jobs : CountOK(k)'
<1>1. UNCHANGED <<execs, left>>
  BY NoSpend DEF Counted, Tick, RenewLease, ZombieFault
<1>2. ASSUME NEW k \in Jobs
      PROVE  rows'[k].status = rows[k].status /\ rows'[k].attempts = rows[k].attempts
  <2>1. rows[k] \in Row /\ rows \in [Jobs -> Row]
    BY KeptTypes DEF Counted
  <2>2. CASE Tick
    BY <2>1, <2>2 DEF Tick, Aged, Row
  <2>3. ASSUME NEW w \in Workers, NEW j \in Jobs, RenewLease(w, j)
        PROVE  rows'[k].status = rows[k].status /\ rows'[k].attempts = rows[k].attempts
    BY <2>1, <2>3 DEF RenewLease, Put, Renewed, Row
  <2>4. ASSUME NEW w \in Workers, NEW j \in Jobs, ZombieFault(w, j)
        PROVE  rows'[k].status = rows[k].status /\ rows'[k].attempts = rows[k].attempts
    BY <2>4 DEF ZombieFault
  <2> QED BY <2>2, <2>3, <2>4
<1> QED BY <1>1, <1>2, CountSame

\* Every claim may be lost at one time, and each job gets an attempt for it.
LEMMA CountLoss ==
  ASSUME CountsAttempts, Counted, NEW w \in Workers, Crash(w) \/ Stop(w), UNCHANGED skipLocked
  PROVE  /\ left'["crash"] <= Budget["crash"] /\ left'["stop"] <= Budget["stop"]
         /\ ~skipLocked => \A k \in Jobs : CountOK(k)'
<1> PICK kind \in {"crash", "stop"} : Spend(kind)
  BY DEF Crash, Stop
<1>1. /\ left'[kind] = left[kind] - 1
      /\ \A other \in {"crash", "stop"} \ {kind} : left'[other] = left[other]
      /\ \A any \in {"crash", "stop"} :
           left[any] \in Nat /\ Budget[any] \in Nat /\ left[any] <= Budget[any]
  BY ConstantsAssumption DEF Spend, Counted, Kept, Inv, TypeOK
<1>2. ASSUME NEW k \in Jobs, ~skipLocked PROVE CountOK(k)'
  <2>1. Losses' = Losses + 1 /\ Losses \in Int
    <3>1. CASE kind = "crash"
      BY <1>1, <3>1 DEF Losses
    <3>2. CASE kind = "stop"
      BY <1>1, <3>2 DEF Losses
    <3> QED BY <3>1, <3>2
  <2>2. Limit(k)' = Limit(k) + 1
    BY <2>1, CountTypes DEF Limit
  <2>3. rows'[k] = rows[k] /\ rows[k].attempts <= Limit(k)
    BY <1>2 DEF Crash, Stop, Counted, CountOK
  <2>4. rows'[k].attempts < Limit(k)'
    BY <2>2, <2>3, CountTypes
  <2>5. Limit(k)' \in Int /\ rows'[k].attempts \in Nat
    BY <2>2, <2>3, CountTypes
  <2>6. rows'[k].attempts <= Limit(k)'
    BY <2>4, <2>5
  <2> QED BY <2>4, <2>6 DEF CountOK
<1>3. \A any \in {"crash", "stop"} : left'[any] <= Budget[any]
  BY <1>1
<1> QED BY <1>2, <1>3

LEMMA CountedStep ==
  ASSUME CountsAttempts, Counted, [Next]_vars
  PROVE  Counted'
<1>1. Kept'
  BY KeptStep DEF CountsAttempts, Counted
<1>2. CASE UNCHANGED vars
  <2>1. ~skipLocked => \A k \in Jobs : CountOK(k)'
    BY <1>2, CountSame DEF vars
  <2> QED BY <1>1, <1>2, <2>1 DEF Counted, vars
<1>3. ASSUME NEW w \in Workers, Crash(w) \/ Stop(w), UNCHANGED skipLocked PROVE Counted'
  BY <1>1, <1>3, CountLoss DEF Counted
<1>4. ASSUME UNCHANGED <<skipLocked, left>>, ~skipLocked => \A k \in Jobs : CountOK(k)'
      PROVE  Counted'
  BY <1>1, <1>4 DEF Counted
<1>6. CASE Client /\ UNCHANGED skipLocked
  <2>1. UNCHANGED left
    BY <1>6, NoSpend DEF Counted, Client, Submit, Retry, Cancel, Delete
  <2> QED BY <1>4, <1>6, <2>1, CountClients
<1>7. ASSUME NEW w \in Workers, Start(w) \/ Sweep(w), UNCHANGED skipLocked PROVE Counted'
  <2>1. UNCHANGED left
    BY <1>7, NoSpend DEF Counted, Start, Sweep
  <2> QED BY <1>4, <1>7, <2>1, CountReclaim
<1>8. ASSUME NEW w \in Workers, ClaimUpdate(w) \/ ClaimFault(w), UNCHANGED skipLocked
      PROVE  Counted'
  <2>1. UNCHANGED left
    BY <1>8, ClaimShape DEF Counted
  <2> QED BY <1>4, <1>8, <2>1, CountClaim
<1>9. ASSUME NEW w \in Workers, UNCHANGED skipLocked,
             AtCapacity(w) \/ ClaimSelect(w) \/ ClaimMiss(w) \/ ClaimNone(w)
      PROVE  Counted'
  <2>1. UNCHANGED <<rows, execs, left>>
    BY <1>9 DEF AtCapacity, ClaimSelect, ClaimMiss, ClaimNone
  <2>2. ~skipLocked => \A k \in Jobs : CountOK(k)'
    BY <1>9, <2>1, CountSame
  <2> QED BY <1>4, <1>9, <2>1, <2>2
<1>10. ASSUME NEW w \in Workers, Launch(w), UNCHANGED skipLocked PROVE Counted'
  <2>1. UNCHANGED <<rows, left>>
    BY <1>10 DEF Launch
  <2>2. ASSUME ~skipLocked PROVE \A e \in execs : \E f \in execs' : f.job = e.job
    <3> PICK e \in execs :
          execs' = (execs \ {e}) \cup
                        {[e EXCEPT !.phase = "handling", !.renew = TRUE,
                                   !.task = TRUE, !.slot = TRUE]}
      BY <1>10, <2>2 DEF Launch
    <3> PICK f : f = [e EXCEPT !.phase = "handling", !.renew = TRUE,
                               !.task = TRUE, !.slot = TRUE]
      OBVIOUS
    <3>1. f.job = e.job
      BY LaunchedExecution, KeptTypes DEF Counted
    <3> QED BY <3>1
  <2>3. ~skipLocked => \A k \in Jobs : CountOK(k)'
    BY <1>10, <2>1, <2>2, CountSame
  <2> QED BY <1>4, <1>10, <2>1, <2>3
<1>11. ASSUME NEW e \in execs, RunOne(e), UNCHANGED skipLocked PROVE Counted'
  <2>1. UNCHANGED left
    BY <1>11, NoSpend DEF Counted, RunOne, HandlerReturns, HandlerRaises, Ack, AckFault, Nack,
       NackFault, RenewFault
  <2> QED BY <1>4, <1>11, <2>1, CountRun
<1>12. ASSUME UNCHANGED skipLocked,
              Tick \/ \E w \in Workers, j \in Jobs : RenewLease(w, j) \/ ZombieFault(w, j)
       PROVE  Counted'
  <2>1. UNCHANGED left
    BY <1>12, NoSpend DEF Counted, Tick, RenewLease, ZombieFault
  <2> QED BY <1>4, <1>12, <2>1, CountTimes
<1> QED BY <1>2, <1>3, <1>6, <1>7, <1>8, <1>9, <1>10, <1>11, <1>12 DEF Next, Loop

\* On SQLite a job is claimed max_attempts times, and once more for every
\* crash and stop at most, whichever jobs they hit.
THEOREM AttemptsAreBounded ==
  ASSUME CountsAttempts
  PROVE  Spec => []AttemptsBounded
<1>1. Init => Counted
  <2> SUFFICES ASSUME Init PROVE Counted
    OBVIOUS
  <2>1. /\ Kept
        /\ \A kind \in {"crash", "stop"} : left[kind] = Budget[kind] /\ Budget[kind] \in Nat
    BY KeptInit, ConstantsAssumption DEF CountsAttempts, Init
  <2>2. ASSUME NEW j \in Jobs PROVE CountOK(j)
    <3>1. rows[j].attempts = 0 /\ rows[j].status = "new"
      BY DEF Init, BlankRow
    <3>2. Request[j].max_attempts \in Int /\ Request[j].max_attempts >= 1
      BY ConstantsAssumption DEF CountsAttempts
    <3> QED BY <2>1, <3>1, <3>2 DEF CountOK, Limit, Losses
  <2> QED BY <2>1, <2>2 DEF Counted
<1>2. Counted /\ [Next]_vars => Counted'
  BY CountedStep
<1>3. Counted => AttemptsBounded
  <2> SUFFICES ASSUME Counted, ~skipLocked, NEW j \in Jobs
               PROVE  rows[j].attempts <= Request[j].max_attempts
                        + Budget["crash"] - left["crash"] + Budget["stop"] - left["stop"]
    BY DEF AttemptsBounded
  <2>1. /\ Request[j].max_attempts \in Int
        /\ \A kind \in {"crash", "stop"} : Budget[kind] \in Nat /\ left[kind] \in Nat
    BY ConstantsAssumption DEF Counted, Kept, Inv, TypeOK
  <2>2. rows[j].attempts <= Limit(j)
    BY DEF Counted, CountOK
  <2> QED BY <2>1, <2>2 DEF Limit, Losses
<1> QED BY <1>1, <1>2, <1>3, PTL DEF Spec

-----------------------------------------------------------------------------
(* The semaphore, without any assumption on leases.  A worker's handlers are *)
(* counted in two sets: those in a slot of its present loop, and those that  *)
(* outlived one.  A stop moves an execution from the first set to the second *)
(* only if _in_flight does not name it, and one of `concurrency` slots is    *)
(* always that of the last one launched, which is named.                   *)

Stops == Budget["stop"] - left["stop"]

Displaced(w) == {e \in Running(w) : inFlight[w][e.job] # e.attempt}
Outlived(w) == {e \in execs : e.worker = w /\ e.task /\ ~e.slot}

\* Executions by what no step changes of them.
Ids(S) == {<<e.job, e.attempt>> : e \in S}

SlotsOK(w) ==
  /\ IsFiniteSet(Ids(Running(w))) /\ Cardinality(Ids(Running(w))) <= Concurrency
  /\ Cardinality(Ids(Displaced(w))) <= Concurrency - 1
  /\ IsFiniteSet(Ids(Outlived(w)))
  /\ Cardinality(Ids(Outlived(w))) <= Stops * (Concurrency - 1)

SlotsHold ==
  /\ left["stop"] <= Budget["stop"]
  /\ \A e \in execs : e.slot \/ e.phase = "handling" => e.task
  /\ \A w \in Workers : SlotsOK(w)

LEMMA SubsetBound ==
  ASSUME NEW S, IsFiniteSet(S), NEW T, T \subseteq S, NEW n \in Int, Cardinality(S) <= n
  PROVE  IsFiniteSet(T) /\ Cardinality(T) \in Nat /\ Cardinality(T) <= n
<1>1. IsFiniteSet(T) /\ Cardinality(T) <= Cardinality(S)
  BY FS_Subset
<1>2. Cardinality(T) \in Nat /\ Cardinality(S) \in Nat
  BY <1>1, FS_CardinalityType
<1> QED BY <1>1, <1>2

LEMMA UnionBound ==
  ASSUME NEW S, IsFiniteSet(S), NEW T, IsFiniteSet(T), NEW U, U \subseteq S \cup T,
         NEW m \in Int, Cardinality(S) <= m, NEW n \in Int, Cardinality(T) <= n
  PROVE  IsFiniteSet(U) /\ Cardinality(U) \in Nat /\ Cardinality(U) <= m + n
<1>1. /\ IsFiniteSet(S \cup T) /\ IsFiniteSet(S \cap T)
      /\ Cardinality(S \cup T) = Cardinality(S) + Cardinality(T) - Cardinality(S \cap T)
  BY FS_Union, FS_Intersection
<1>2. Cardinality(S) \in Nat /\ Cardinality(T) \in Nat /\ Cardinality(S \cap T) \in Nat
  BY <1>1, FS_CardinalityType
<1>3. Cardinality(S \cup T) <= m + n /\ m + n \in Int
  BY <1>1, <1>2
<1> QED BY <1>1, <1>3, SubsetBound

\* The attempts of a job are told apart by their number.
LEMMA IdsCount ==
  ASSUME Inv, NEW S, S \subseteq execs, IsFiniteSet(Ids(S))
  PROVE  IsFiniteSet(S) /\ Cardinality(S) = Cardinality(Ids(S))
<1> DEFINE f == [e \in S |-> <<e.job, e.attempt>>]
<1>1. f \in [S -> Ids(S)] /\ \A i \in Ids(S) : \E e \in S : f[e] = i
  BY DEF Ids
<1>2. \A d, e \in S : f[d] = f[e] => d = e
  BY DEF Inv, AttemptHasOneOwner
<1> HIDE DEF f
<1>3. f \in Injection(S, Ids(S)) /\ f \in Surjection(S, Ids(S))
  BY <1>1, <1>2 DEF Injection, Surjection, IsInjective
<1> QED BY <1>3, FS_Injection

\* What has been stopped adds up.
LEMMA StopsTypes ==
  ASSUME Inv, SlotsHold
  PROVE  /\ Stops \in Nat /\ Concurrency - 1 \in Nat /\ Concurrency \in Nat
         /\ Stops * (Concurrency - 1) \in Nat
         /\ (Stops + 1) * (Concurrency - 1) = Stops * (Concurrency - 1) + (Concurrency - 1)
<1>1. Stops \in Nat /\ Concurrency - 1 \in Nat /\ Concurrency \in Nat
  BY ConstantsAssumption DEF Inv, TypeOK, SlotsHold, Stops
<1>2. \A s, c \in Nat : s * c \in Nat /\ (s + 1) * c = s * c + c
  OBVIOUS
<1> QED BY <1>1, <1>2

\* One worker, none of whose sets has grown.
LEMMA SlotsSame ==
  ASSUME Inv, SlotsHold, NEW w \in Workers, Stops' \in {Stops, Stops + 1},
         Ids(Running(w))' \subseteq Ids(Running(w)),
         Ids(Displaced(w))' \subseteq Ids(Displaced(w)),
         Ids(Outlived(w))' \subseteq Ids(Outlived(w))
  PROVE  SlotsOK(w)'
<1>1. /\ Concurrency - 1 \in Int /\ Concurrency \in Int
      /\ Stops' * (Concurrency - 1) \in Int
      /\ Stops * (Concurrency - 1) \in Int
      /\ Stops * (Concurrency - 1) <= Stops' * (Concurrency - 1)
  BY StopsTypes
<1>2. /\ IsFiniteSet(Ids(Running(w))) /\ Cardinality(Ids(Running(w))) <= Concurrency
      /\ Cardinality(Ids(Displaced(w))) <= Concurrency - 1
      /\ IsFiniteSet(Ids(Outlived(w)))
      /\ Cardinality(Ids(Outlived(w))) <= Stops * (Concurrency - 1)
  BY DEF SlotsHold, SlotsOK
<1>3. IsFiniteSet(Ids(Displaced(w)))
  <2>1. Ids(Displaced(w)) \subseteq Ids(Running(w))
    BY DEF Ids, Displaced
  <2> QED BY <1>2, <2>1, FS_Subset
<1>4. IsFiniteSet(Ids(Running(w))') /\ Cardinality(Ids(Running(w))') <= Concurrency
  BY <1>1, <1>2, SubsetBound
<1>5. Cardinality(Ids(Displaced(w))') <= Concurrency - 1
  BY <1>1, <1>2, <1>3, SubsetBound
<1>6. /\ IsFiniteSet(Ids(Outlived(w))') /\ Cardinality(Ids(Outlived(w))') \in Nat
      /\ Cardinality(Ids(Outlived(w))') <= Stops * (Concurrency - 1)
  BY <1>1, <1>2, SubsetBound
<1> QED BY <1>1, <1>4, <1>5, <1>6 DEF SlotsOK

\* f is e at another await, in the slot and under the name it had.
SameClaim(e, f) ==
  /\ f.worker = e.worker /\ f.job = e.job /\ f.attempt = e.attempt
  /\ f.task = e.task /\ f.slot = e.slot
  /\ f.phase = "handling" => e.phase = "handling"

\* The executions of a worker are as they were or not launched yet, and those
\* that _in_flight named it names still.
StaysPut(w) ==
  /\ \A f \in execs' : f.worker = w =>
       \/ ~f.slot /\ ~f.task /\ f.phase # "handling"
       \/ \E e \in execs : SameClaim(e, f)
  /\ \A e \in execs : e.worker = w /\ e.task /\ inFlight[w][e.job] = e.attempt
                      /\ (\E f \in execs' : SameClaim(e, f))
       => inFlight'[w][e.job] = e.attempt

LEMMA SlotsStay ==
  ASSUME Inv, SlotsHold, NEW w \in Workers, StaysPut(w), Stops' \in {Stops, Stops + 1}
  PROVE  SlotsOK(w)'
<1>1. ASSUME NEW f \in execs', f.worker = w, f.slot \/ f.task
      PROVE  \E e \in execs : SameClaim(e, f)
  BY <1>1 DEF StaysPut
<1>2. Ids(Running(w))' \subseteq Ids(Running(w))
  BY <1>1 DEF Ids, Running, SameClaim
<1>3. Ids(Outlived(w))' \subseteq Ids(Outlived(w))
  BY <1>1 DEF Ids, Outlived, SameClaim
<1>4. Ids(Displaced(w))' \subseteq Ids(Displaced(w))
  <2>1. ASSUME NEW f \in Displaced(w)'
        PROVE  \E e \in Displaced(w) : e.job = f.job /\ e.attempt = f.attempt
    <3>1. f \in execs' /\ f.worker = w /\ f.slot /\ inFlight'[w][f.job] # f.attempt
      BY <2>1 DEF Displaced, Running
    <3> PICK e \in execs : SameClaim(e, f)
      BY <1>1, <3>1
    <3>2. e.worker = w /\ e.slot /\ e.job = f.job /\ e.attempt = f.attempt
      BY <3>1 DEF SameClaim
    <3>3. e.task
      BY <3>2 DEF SlotsHold
    <3>4. inFlight[w][e.job] # e.attempt
      BY <3>1, <3>2, <3>3 DEF StaysPut
    <3> QED BY <3>2, <3>4 DEF Displaced, Running
  <2> QED BY <2>1 DEF Ids
<1> QED BY <1>2, <1>3, <1>4, SlotsSame

\* A step of this kind for every worker that is not a stop.
LEMMA SlotsQuiet ==
  ASSUME Inv, SlotsHold, \A w \in Workers : StaysPut(w), left'["stop"] = left["stop"],
         \A f \in execs' : f.worker \in Workers
  PROVE  SlotsHold'
<1>1. Stops' = Stops /\ left'["stop"] <= Budget["stop"]
  BY DEF Stops, SlotsHold
<1>2. \A w \in Workers : SlotsOK(w)'
  BY <1>1, SlotsStay
<1>3. ASSUME NEW f \in execs', f.slot \/ f.phase = "handling"
      PROVE  f.task
  <2> PICK e \in execs : SameClaim(e, f)
    BY <1>3 DEF StaysPut
  <2> QED BY <1>3 DEF SameClaim, SlotsHold
<1> QED BY <1>1, <1>2, <1>3 DEF SlotsHold

\* An execution that moves on, or a claim in nobody's slot.
LEMMA SlotsMoved ==
  ASSUME Inv, SlotsHold, NEW e \in execs, NEW f, Becomes(e, f), SameClaim(e, f),
         UNCHANGED inFlight, left'["stop"] = left["stop"]
  PROVE  SlotsHold'
<1>1. \A g \in execs' : \E d \in execs : SameClaim(d, g)
  BY DEF Becomes, SameClaim
<1>2. \A g \in execs' : g.worker \in Workers
  BY <1>1 DEF SameClaim, Inv, TypeOK, Execution
<1> QED BY <1>1, <1>2, SlotsQuiet DEF StaysPut

LEMMA SlotsLeft ==
  ASSUME Inv, SlotsHold, execs' \subseteq execs, UNCHANGED inFlight,
         left'["stop"] = left["stop"]
  PROVE  SlotsHold'
<1>1. \A g \in execs' : g \in execs /\ SameClaim(g, g)
  BY DEF SameClaim
<1>2. \A g \in execs' : g.worker \in Workers
  BY <1>1 DEF Inv, TypeOK, Execution
<1> QED BY <1>1, <1>2, SlotsQuiet DEF StaysPut

\* The one step that gives a slot tests that there is one, and names it.
LEMMA SlotsLaunch ==
  ASSUME Inv, SlotsHold, NEW w \in Workers, Launch(w)
  PROVE  SlotsHold'
<1>1. CASE skipLocked
  <2>1. execs' \subseteq execs /\ UNCHANGED <<inFlight, left>>
    BY <1>1 DEF Launch
  <2> QED BY <2>1, SlotsLeft
<1>2. CASE ~skipLocked
  <2> PICK e \in execs :
        /\ e.worker = w /\ SlotFree(w)
        /\ execs' = (execs \ {e}) \cup
                      {[e EXCEPT !.phase = "handling", !.renew = TRUE,
                                 !.task = TRUE, !.slot = TRUE]}
        /\ inFlight' = [inFlight EXCEPT ![w][e.job] = e.attempt]
        /\ UNCHANGED left
    BY <1>2 DEF Launch
  <2> PICK f : f = [e EXCEPT !.phase = "handling", !.renew = TRUE,
                             !.task = TRUE, !.slot = TRUE]
    OBVIOUS
  <2>1. f \in Execution /\ f.worker = w /\ f.job = e.job /\ f.attempt = e.attempt
    BY LaunchedExecution DEF Inv, TypeOK
  <2>2. f.slot /\ f.task /\ execs' = (execs \ {e}) \cup {f}
    BY DEF Inv, TypeOK, Execution
  <2>3. Stops' = Stops
    BY DEF Stops
  <2>4. \A j \in Jobs : inFlight'[w][j] = IF j = e.job THEN e.attempt ELSE inFlight[w][j]
    BY DEF Inv, TypeOK
  <2>5. ASSUME NEW v \in Workers, v # w PROVE SlotsOK(v)'
    <3>1. inFlight'[v] = inFlight[v]
      BY <2>5 DEF Inv, TypeOK
    <3>2. \A g \in execs' : g.worker = v => g \in execs /\ SameClaim(g, g)
      BY <2>1, <2>2, <2>5 DEF SameClaim
    <3> QED BY <2>3, <3>1, <3>2, SlotsStay DEF StaysPut
  <2>6. SlotsOK(w)'
    <3>1. /\ Concurrency \in Nat /\ IsFiniteSet(Ids(Running(w)))
          /\ Cardinality(Ids(Running(w))) \in Nat
      BY FS_CardinalityType, ConstantsAssumption DEF SlotsHold, SlotsOK
    <3>2. Cardinality(Ids(Running(w))) <= Concurrency - 1
      <4>1. Running(w) \subseteq execs
        BY DEF Running
      <4>2. Cardinality(Ids(Running(w))) = Cardinality(Running(w))
        BY <3>1, <4>1, IdsCount
      <4> QED BY <3>1, <4>2 DEF SlotFree
    <3>3. Ids(Running(w))' \subseteq Ids(Running(w)) \cup {<<e.job, e.attempt>>}
      BY <2>1, <2>2 DEF Ids, Running
    <3>4. /\ IsFiniteSet(Ids(Running(w))')
          /\ Cardinality(Ids(Running(w))') <= Concurrency
      <4> DEFINE R == Ids(Running(w))
      <4>1. /\ IsFiniteSet(R \cup {<<e.job, e.attempt>>})
            /\ Cardinality(R \cup {<<e.job, e.attempt>>}) <= Concurrency
        <5>1. /\ IsFiniteSet(R \cup {<<e.job, e.attempt>>})
              /\ Cardinality(R \cup {<<e.job, e.attempt>>})
                   = IF <<e.job, e.attempt>> \in R THEN Cardinality(R) ELSE Cardinality(R) + 1
          BY <3>1, FS_AddElement
        <5> QED BY <3>1, <3>2, <5>1
      <4> HIDE DEF R
      <4> QED BY <3>1, <3>3, <4>1, SubsetBound DEF R
    <3>5. Cardinality(Ids(Displaced(w))') <= Concurrency - 1
      <4>1. Ids(Displaced(w))' \subseteq Ids(Running(w))
        <5>1. ASSUME NEW g \in Displaced(w)' PROVE g \in Running(w)
          <6>1. g \in execs' /\ g.worker = w /\ g.slot /\ inFlight'[w][g.job] # g.attempt
            BY <5>1 DEF Displaced, Running
          <6>2. e.job \in Jobs
            BY DEF Inv, TypeOK, Execution
          <6>3. g # f
            BY <2>1, <2>4, <6>1, <6>2
          <6> QED BY <2>2, <6>1, <6>3 DEF Running
        <5> QED BY <5>1 DEF Ids
      <4> QED BY <3>1, <3>2, <4>1, SubsetBound
    <3>6. Ids(Outlived(w))' \subseteq Ids(Outlived(w))
      BY <2>2 DEF Ids, Outlived
    <3>7. /\ IsFiniteSet(Ids(Outlived(w))')
          /\ Cardinality(Ids(Outlived(w))') <= Stops * (Concurrency - 1)
      BY <3>6, StopsTypes, SubsetBound DEF SlotsHold, SlotsOK
    <3> QED BY <2>3, <3>4, <3>5, <3>7 DEF SlotsOK
  <2>7. \A g \in execs' : g.slot \/ g.phase = "handling" => g.task
    BY <2>2 DEF SlotsHold
  <2> QED BY <2>5, <2>6, <2>7 DEF SlotsHold
<1> QED BY <1>1, <1>2

\* A step of _run_one changes no slot.
LEMMA SlotsRunOne ==
  ASSUME Inv, SlotsHold, NEW e \in execs, RunOne(e)
  PROVE  SlotsHold'
<1>1. e \in Execution
  BY DEF Inv, TypeOK
<1>2. UNCHANGED inFlight /\ left'["stop"] = left["stop"]
  BY DEF RunOne, HandlerReturns, HandlerRaises, Ack, AckFault, Nack, NackFault, RenewFault,
         Spend, Inv, TypeOK
<1>3. CASE execs' = execs \ {e}
  BY <1>2, <1>3, SlotsLeft
<1>4. ASSUME NEW p \in {"acking", "nacking"}, NEW b \in BOOLEAN,
             Becomes(e, [e EXCEPT !.phase = p, !.renew = b])
      PROVE  SlotsHold'
  <2> PICK f : f = [e EXCEPT !.phase = p, !.renew = b]
    OBVIOUS
  <2>1. SameClaim(e, f)
    BY <1>1 DEF Execution, SameClaim
  <2> QED BY <1>2, <1>4, <2>1, SlotsMoved
<1>5. CASE Becomes(e, [e EXCEPT !.phase = "nacking"])
  <2> PICK f : f = [e EXCEPT !.phase = "nacking"]
    OBVIOUS
  <2>1. SameClaim(e, f)
    BY <1>1 DEF Execution, SameClaim
  <2> QED BY <1>2, <1>5, <2>1, SlotsMoved
<1>6. CASE Becomes(e, [e EXCEPT !.renew = FALSE])
  <2> PICK f : f = [e EXCEPT !.renew = FALSE]
    OBVIOUS
  <2>1. SameClaim(e, f)
    BY <1>1 DEF Execution, SameClaim
  <2> QED BY <1>2, <1>6, <2>1, SlotsMoved
<1> QED BY <1>3, <1>4, <1>5, <1>6 DEF RunOne, HandlerReturns, HandlerRaises, Ack, AckFault,
                                     Nack, NackFault, RenewFault

\* A claim joins in no slot; a sweep drops only entries of finished tasks.
LEMMA SlotsLoop ==
  ASSUME Inv, SlotsHold, NEW w \in Workers, ClaimUpdate(w) \/ Sweep(w)
  PROVE  SlotsHold'
<1>1. CASE ClaimUpdate(w)
  <2> PICK j \in cands[w] :
        execs' = execs \cup {[worker |-> w, job |-> j, attempt |-> rows[j].attempts + 1,
                               phase |-> "held", renew |-> FALSE,
                               task |-> FALSE, slot |-> FALSE]}
    BY <1>1 DEF ClaimUpdate
  <2>1. \A g \in execs' : \/ ~g.slot /\ ~g.task /\ g.phase # "handling" /\ g.worker = w
                          \/ g \in execs /\ SameClaim(g, g)
    BY DEF SameClaim
  <2>2. UNCHANGED <<inFlight, left>>
    BY <1>1 DEF ClaimUpdate
  <2>3. \A g \in execs' : g.worker \in Workers
    BY <2>1 DEF Inv, TypeOK, Execution
  <2>4. \A v \in Workers : StaysPut(v)
    BY <2>1, <2>2 DEF StaysPut
  <2> QED BY <2>2, <2>3, <2>4, SlotsQuiet
<1>2. CASE Sweep(w)
  <2>1. UNCHANGED execs /\ inFlight' = [inFlight EXCEPT ![w] = Popped(w)]
    BY <1>2 DEF Sweep
  <2>2. left'["stop"] = left["stop"]
    BY <1>2 DEF Sweep, Spend, Inv, TypeOK
  <2>3. ASSUME NEW e \in execs, e.task, inFlight[e.worker][e.job] = e.attempt
        PROVE  inFlight'[e.worker][e.job] = e.attempt
    <3>1. e.worker \in Workers /\ e.job \in Jobs
      BY DEF Inv, TypeOK, Execution
    <3>2. inFlight'[e.worker] = IF e.worker = w THEN Popped(w) ELSE inFlight[e.worker]
      BY <2>1, <3>1 DEF Inv, TypeOK
    <3>3. e.worker = w => Popped(w)[e.job] = inFlight[w][e.job]
      BY <2>3, <3>1 DEF Popped
    <3> QED BY <2>3, <3>2, <3>3
  <2>4. \A g \in execs' : g \in execs /\ g.worker \in Workers /\ SameClaim(g, g)
    BY <2>1 DEF SameClaim, Inv, TypeOK, Execution
  <2>5. \A v \in Workers : StaysPut(v)
    BY <2>3, <2>4 DEF StaysPut
  <2> QED BY <2>2, <2>4, <2>5, SlotsQuiet
<1> QED BY <1>1, <1>2

LEMMA SlotsCrash ==
  ASSUME Inv, SlotsHold, NEW w \in Workers, Crash(w)
  PROVE  SlotsHold'
<1>1. left'["stop"] = left["stop"]
  BY DEF Crash, Spend, Inv, TypeOK
<1>2. \A g \in execs' : /\ g \in execs /\ g.worker \in Workers /\ g.worker # w
                         /\ SameClaim(g, g)
  BY DEF Crash, SameClaim, Inv, TypeOK, Execution
<1>3. \A v \in Workers : v # w => inFlight'[v] = inFlight[v]
  BY DEF Crash, Inv, TypeOK
<1>4. ASSUME NEW v \in Workers PROVE StaysPut(v)
  <2>1. CASE v = w
    BY <1>2, <2>1 DEF StaysPut, SameClaim
  <2>2. CASE v # w
    BY <1>2, <1>3, <2>2 DEF StaysPut
  <2> QED BY <2>1, <2>2
<1> QED BY <1>1, <1>2, <1>4, SlotsQuiet

\* A stop empties the slots; what it does not cancel has outlived them.
LEMMA SlotsStop ==
  ASSUME Inv, SlotsHold, NEW w \in Workers, Stop(w)
  PROVE  SlotsHold'
<1>0. 0 <= Concurrency /\ 0 <= Concurrency - 1 /\ Concurrency - 1 \in Int
  BY ConstantsAssumption
<1>1. left'["stop"] <= Budget["stop"] /\ Stops' = Stops + 1
  <2>1. left["stop"] \in Nat /\ Budget["stop"] \in Nat /\ left["stop"] <= Budget["stop"]
    BY ConstantsAssumption DEF SlotsHold, Inv, TypeOK
  <2>2. left'["stop"] = left["stop"] - 1
    BY DEF Stop, Spend, Inv, TypeOK
  <2> QED BY <2>1, <2>2 DEF Stops
<1>2. /\ Stops * (Concurrency - 1) \in Int
      /\ Stops' * (Concurrency - 1) = Stops * (Concurrency - 1) + (Concurrency - 1)
  BY <1>1, StopsTypes
<1> PICK late \in SUBSET {e \in Named(w) : e.phase \in {"acking", "nacking"}} :
      /\ execs' = {e \in execs : e.worker # w}
                    \cup {[e EXCEPT !.slot = FALSE] : e \in Unnamed(w)}
                    \cup {[e EXCEPT !.task = FALSE, !.slot = FALSE] : e \in late}
      /\ inFlight' = [inFlight EXCEPT ![w] = [j \in Jobs |-> 0]]
  BY DEF Stop
<1>3. ASSUME NEW f \in execs', f.worker = w
      PROVE  /\ ~f.slot
             /\ \/ ~f.task /\ f.phase # "handling"
                \/ \E e \in Unnamed(w) : /\ f.job = e.job /\ f.attempt = e.attempt
                                         /\ f.task = e.task /\ f.phase = e.phase
  <2>1. CASE \E e \in Unnamed(w) : f = [e EXCEPT !.slot = FALSE]
    <3> PICK e \in Unnamed(w) : f = [e EXCEPT !.slot = FALSE]
      BY <2>1
    <3>1. e \in Execution
      BY DEF Unnamed, Inv, TypeOK
    <3> QED BY <3>1 DEF Execution
  <2>2. CASE \E e \in late : f = [e EXCEPT !.task = FALSE, !.slot = FALSE]
    <3> PICK e \in late : f = [e EXCEPT !.task = FALSE, !.slot = FALSE]
      BY <2>2
    <3>1. e \in Execution /\ e.phase \in {"acking", "nacking"}
      BY DEF Named, Inv, TypeOK
    <3>2. f.phase = e.phase
      BY <3>1 DEF Execution
    <3>3. ~f.slot /\ ~f.task
      BY <3>1 DEF Execution
    <3> QED BY <3>1, <3>2, <3>3
  <2> QED BY <1>3, <2>1, <2>2
<1>4. \A e \in Unnamed(w) : e.task => e \in Displaced(w) \/ e \in Outlived(w)
  BY DEF Unnamed, Named, Displaced, Outlived, Running
<1>5. ASSUME NEW v \in Workers, v # w PROVE SlotsOK(v)'
  <2>1. inFlight'[v] = inFlight[v]
    BY <1>5 DEF Inv, TypeOK
  <2>2. ASSUME NEW g \in execs', g.worker = v PROVE g \in execs /\ SameClaim(g, g)
    <3>1. \A e \in Unnamed(w) \cup late : e \in Execution /\ e.worker = w
      BY DEF Unnamed, Named, Inv, TypeOK
    <3>2. \A e \in Unnamed(w) : [e EXCEPT !.slot = FALSE].worker = w
      BY <3>1 DEF Execution
    <3>3. \A e \in late : [e EXCEPT !.task = FALSE, !.slot = FALSE].worker = w
      BY <3>1 DEF Execution
    <3> QED BY <1>5, <2>2, <3>2, <3>3 DEF SameClaim
  <2> QED BY <1>1, <2>1, <2>2, SlotsStay DEF StaysPut
<1>6. SlotsOK(w)'
  <2>1. Ids(Running(w))' = {} /\ Ids(Displaced(w))' = {}
    BY <1>3 DEF Ids, Running, Displaced
  <2>2. IsFiniteSet({}) /\ Cardinality({}) = 0
    BY FS_EmptySet
  <2>3. Ids(Outlived(w))' \subseteq Ids(Outlived(w)) \cup Ids(Displaced(w))
    <3>1. ASSUME NEW f \in Outlived(w)'
          PROVE  \E e \in Outlived(w) \cup Displaced(w) : f.job = e.job /\ f.attempt = e.attempt
      <4>1. f \in execs' /\ f.worker = w /\ f.task
        BY <3>1 DEF Outlived
      <4> QED BY <1>3, <1>4, <4>1
    <3> QED BY <3>1 DEF Ids
  <2> DEFINE O == Ids(Outlived(w))
             D == Ids(Displaced(w))
  <2>4. /\ IsFiniteSet(O) /\ IsFiniteSet(D)
        /\ Cardinality(O) <= Stops * (Concurrency - 1) /\ Cardinality(D) <= Concurrency - 1
    <3>1. Ids(Displaced(w)) \subseteq Ids(Running(w))
      BY DEF Ids, Displaced
    <3> QED BY <3>1, FS_Subset DEF SlotsHold, SlotsOK
  <2> HIDE DEF O, D
  <2>5. /\ IsFiniteSet(Ids(Outlived(w))')
        /\ Cardinality(Ids(Outlived(w))') <= Stops' * (Concurrency - 1)
    BY <1>0, <1>2, <2>3, <2>4, UnionBound DEF O, D
  <2> QED BY <1>0, <2>1, <2>2, <2>5 DEF SlotsOK
<1>7. ASSUME NEW f \in execs', f.slot \/ f.phase = "handling" PROVE f.task
  <2>1. CASE f.worker = w
    <3> PICK e \in Unnamed(w) : f.task = e.task /\ f.phase = e.phase
      BY <1>3, <1>7, <2>1
    <3>1. e \in execs /\ e.phase = "handling"
      BY <1>3, <1>7, <2>1 DEF Unnamed
    <3> QED BY <3>1 DEF SlotsHold
  <2>2. CASE f.worker # w
    <3>1. \A e \in Unnamed(w) \cup late : e \in Execution /\ e.worker = w
      BY DEF Unnamed, Named, Inv, TypeOK
    <3>2. \A e \in Unnamed(w) : [e EXCEPT !.slot = FALSE].worker = w
      BY <3>1 DEF Execution
    <3>3. \A e \in late : [e EXCEPT !.task = FALSE, !.slot = FALSE].worker = w
      BY <3>1 DEF Execution
    <3> QED BY <1>7, <2>2, <3>2, <3>3 DEF SlotsHold
  <2> QED BY <2>1, <2>2
<1> QED BY <1>1, <1>5, <1>6, <1>7 DEF SlotsHold

\* A worker that was never stopped runs at most config.concurrency handlers,
\* also when leases lapse, calls fail and jobs are retried while they run and
\* an _in_flight entry is overwritten; every stop leaves at most concurrency
\* - 1 handlers behind that the semaphore made by the next start ignores.
THEOREM SemaphoreHolds == Spec => []ConcurrencyBound
<1>1. Init => SlotsHold
  <2> SUFFICES ASSUME Init PROVE SlotsHold
    OBVIOUS
  <2>1. execs = {} /\ left["stop"] = Budget["stop"] /\ Budget["stop"] \in Nat
    BY ConstantsAssumption DEF Init
  <2>2. Stops = 0 /\ 0 * (Concurrency - 1) = 0 /\ 0 <= Concurrency - 1 /\ 0 <= Concurrency
    BY <2>1, ConstantsAssumption DEF Stops
  <2>3. IsFiniteSet({}) /\ Cardinality({}) = 0
    BY FS_EmptySet
  <2>4. ASSUME NEW w \in Workers PROVE SlotsOK(w)
    <3>1. Ids(Running(w)) = {} /\ Ids(Displaced(w)) = {} /\ Ids(Outlived(w)) = {}
      BY <2>1 DEF Ids, Displaced, Outlived, Running
    <3> QED BY <2>2, <2>3, <3>1 DEF SlotsOK
  <2> QED BY <2>1, <2>4 DEF SlotsHold
<1>2. Inv /\ SlotsHold /\ [Next]_vars => SlotsHold'
  <2> SUFFICES ASSUME Inv, SlotsHold, [Next]_vars PROVE SlotsHold'
    OBVIOUS
  <2>1. CASE UNCHANGED <<execs, inFlight>> /\ left'["stop"] = left["stop"]
    BY <2>1, SlotsLeft
  <2>2. ASSUME NEW w \in Workers,
               ClaimUpdate(w) \/ Sweep(w) \/ Launch(w) \/ Stop(w) \/ Crash(w)
        PROVE  SlotsHold'
    BY <2>2, SlotsLoop, SlotsLaunch, SlotsStop, SlotsCrash
  <2>3. ASSUME NEW e \in execs, RunOne(e) PROVE SlotsHold'
    BY <2>3, SlotsRunOne
  <2>4. \/ UNCHANGED <<execs, inFlight>> /\ left'["stop"] = left["stop"]
        \/ \E w \in Workers : ClaimUpdate(w) \/ Sweep(w) \/ Launch(w) \/ Stop(w) \/ Crash(w)
        \/ \E e \in execs : RunOne(e)
    <3> DEFINE Aside == UNCHANGED <<execs, inFlight>> /\ left'["stop"] = left["stop"]
    <3>1. \A kind \in {"admin", "fault"} : Spend(kind) => left'["stop"] = left["stop"]
      BY DEF Spend, Inv, TypeOK
    <3>2. Client \/ Tick => Aside
      BY <3>1 DEF Client, Submit, Retry, Cancel, Delete, Tick
    <3>3. \A w \in Workers, j \in Jobs : RenewLease(w, j) \/ ZombieFault(w, j) => Aside
      BY <3>1 DEF RenewLease, ZombieFault
    <3>4. ASSUME NEW w \in Workers,
                 \/ Start(w) \/ AtCapacity(w) \/ ClaimSelect(w) \/ ClaimFault(w)
                 \/ ClaimMiss(w) \/ ClaimNone(w)
          PROVE  Aside
      BY <3>1, <3>4 DEF Start, AtCapacity, ClaimSelect, ClaimFault, ClaimMiss, ClaimNone
    <3>5. CASE UNCHANGED vars
      BY <3>5 DEF vars
    <3>6. CASE Next
      <4> HIDE DEF Aside
      <4>1. \/ Aside
            \/ \E w \in Workers : ClaimUpdate(w) \/ Sweep(w) \/ Launch(w) \/ Stop(w) \/ Crash(w)
            \/ \E e \in execs : RunOne(e)
        BY <3>2, <3>3, <3>4, <3>6 DEF Next, Loop
      <4> QED BY <4>1 DEF Aside
    <3> QED BY <3>5, <3>6
  <2> QED BY <2>1, <2>2, <2>3, <2>4
<1>3. Inv /\ SlotsHold => ConcurrencyBound
  <2> SUFFICES ASSUME Inv, SlotsHold, NEW w \in Workers
               PROVE  Cardinality({e \in execs : e.worker = w /\ e.phase = "handling"})
                        <= Concurrency + Stops * (Concurrency - 1)
    BY DEF ConcurrencyBound, Stops
  <2> DEFINE H == {e \in execs : e.worker = w /\ e.phase = "handling"}
             R == Ids(Running(w))
             O == Ids(Outlived(w))
  <2>1. H \subseteq execs /\ H \subseteq Running(w) \cup Outlived(w)
    BY DEF SlotsHold, Running, Outlived
  <2>2. Ids(H) \subseteq R \cup O
    BY <2>1 DEF Ids
  <2>3. /\ IsFiniteSet(R) /\ Cardinality(R) <= Concurrency
        /\ IsFiniteSet(O) /\ Cardinality(O) <= Stops * (Concurrency - 1)
    BY DEF SlotsHold, SlotsOK
  <2> HIDE DEF H, R, O
  <2>4. /\ Concurrency \in Int /\ Stops * (Concurrency - 1) \in Int
    BY StopsTypes
  <2>5. /\ IsFiniteSet(Ids(H))
        /\ Cardinality(Ids(H)) <= Concurrency + Stops * (Concurrency - 1)
    BY <2>2, <2>3, <2>4, UnionBound
  <2>6. Cardinality(H) = Cardinality(Ids(H))
    BY <2>1, <2>5, IdsCount
  <2> QED BY <2>5, <2>6 DEF H
<1> QED BY <1>1, <1>2, <1>3, Invariance, PTL DEF Spec
=============================================================================
