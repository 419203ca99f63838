------------------------------ MODULE JobQueue ------------------------------
(***************************************************************************)
(* The persistent job engine of derisk_serve/job: the rows of the table    *)
(* `derisk_serve_job` behind JobDao, and the Service instances (workers)   *)
(* that claim rows under a lease, run their handler and ack or nack them.  *)
(*                                                                         *)
(* Every DAO call is one transaction, hence one action, except the claim:  *)
(* it SELECTs a window of candidates and UPDATEs one of them later, and on *)
(* SQLite other transactions commit in between.                            *)
(*                                                                         *)
(* Time is relative: a row carries the ticks its lease and its not_before  *)
(* still have, and Tick takes one from each.  lease = 0 is the last        *)
(* instant of a lease (lease_until = now), Lapsed is lease_until < now.    *)
(***************************************************************************)
EXTENDS Integers, Sequences, FiniteSets

CONSTANTS
  Jobs,          \* job ids, never reused (uuid)
  Workers,       \* worker ids: one Service per process
  None,          \* SQL NULL in a worker column
  Request,       \* Jobs -> the ServeRequest each is submitted with
  Tags,          \* Workers -> the tags the worker advertises
  Subscribed,    \* Workers -> the job types it consumes
  Window,        \* LIMIT of the candidate query (32 on SQLite, 16 otherwise)
  Concurrency,   \* config.concurrency
  Lease,         \* config.lease_seconds, in ticks
  RenewTo,       \* int(lease_seconds * 0.8), in ticks
  HistoryCap,    \* kept attempts_history entries (20); 0 leaves them out
  Prompt,        \* an execution's renewals and DAO calls beat its lease
  Budget,        \* bound on crashes, stops, admin calls and database faults
  Together,      \* those of them that may come together, a set of sets
  MaxClaims      \* bound on the claims of one job, and one more for every stop

ASSUME ConstantsAssumption ==
  /\ None \notin Workers
  /\ IsFiniteSet(Jobs)
  /\ Concurrency \in Nat \ {0}
  /\ Lease \in Nat
  /\ RenewTo \in 0 .. Lease
  /\ HistoryCap \in Nat
  /\ MaxClaims \in Nat
  /\ Prompt \in BOOLEAN
  /\ Request \in [Jobs -> [priority : Int, max_attempts : Int, run_after : Nat,
                           job_type : STRING, required_worker : SUBSET STRING]]
  /\ Budget \in [{"crash", "stop", "admin", "fault"} -> Nat]

VARIABLES
  skipLocked, \* _supports_skip_locked, detected once from the dialect
  rows,      \* the table: Jobs -> row
  pc,        \* Workers -> where its _worker_loop stands ("down": no loop)
  cands,     \* Workers -> candidates its claim still has to try
  execs,     \* claims being worked on, see Execution
  zombies,   \* <<worker, job>> of renewers whose execution was cancelled
  inFlight,  \* _in_flight: Workers -> [Jobs -> attempt of the task, 0 for none]
  left       \* what is left of Budget

vars == <<skipLocked, rows, pc, cands, execs, zombies, inFlight, left>>

NoLease == -2                      \* lease_until IS NULL
Statuses == {"new", "pending", "running", "done", "failed", "deleted"}
Entry == [worker : Workers \cup {None}, status : Statuses]

\* "new" is an id not inserted yet, "deleted" one whose row is gone.
\* executed_by is the column; result stands for the stored result by the
\* worker whose execution produced it.
Row == [status : Statuses, attempts : Nat,
        claimed_by : Workers \cup {None}, lease : {NoLease} \cup (-1 .. Lease),
        wait : Nat, born : Nat,
        executed_by : Workers \cup {None}, result : Workers \cup {None},
        history : Seq(Entry)]

\* One claim in the hands of a worker: "held" between claim_next and the
\* task, then the await _run_one stands at.  attempt tells claims of one job
\* apart; renew: its _renew_loop is alive; task: its _run_one is; slot: it
\* holds a permit of the semaphore of the worker's present loop.
Execution == [worker : Workers, job : Jobs, attempt : Nat,
              phase : {"held", "handling", "acking", "nacking"},
              renew : BOOLEAN, task : BOOLEAN, slot : BOOLEAN]

BlankRow(status, wait, born) ==
  [status |-> status, attempts |-> 0, claimed_by |-> None, lease |-> NoLease,
   wait |-> wait, born |-> born, executed_by |-> None, result |-> None, history |-> <<>>]

Init ==
  /\ skipLocked \in BOOLEAN
  /\ rows = [j \in Jobs |-> BlankRow("new", 0, 0)]
  /\ pc = [w \in Workers |-> "down"]
  /\ cands = [w \in Workers |-> {}]
  /\ execs = {}
  /\ zombies = {}
  /\ inFlight = [w \in Workers |-> [j \in Jobs |-> 0]]
  /\ left = Budget

-----------------------------------------------------------------------------
(* Rows *)
(* Here and below, the definitions named in PROJECT.json "mutants" stand     *)
(* before the one they vary; nothing else uses them.                       *)

Stored(j) == rows[j].status \notin {"new", "deleted"}
Lapsed(j) == rows[j].status = "running" /\ rows[j].lease = -1

Put(j, row) == rows' = [rows EXCEPT ![j] = row]

AppendAttempt(row, worker, status) ==
  LET all == Append(row.history, [worker |-> worker, status |-> status])
  IN  IF Len(all) <= HistoryCap THEN all
      ELSE SubSeq(all, Len(all) - HistoryCap + 1, Len(all))

ClearClaim(row) == [row EXCEPT !.claimed_by = None, !.lease = NoLease]

ClaimedSameAttempt(row, w) ==
  [row EXCEPT !.status = "running", !.claimed_by = w, !.lease = Lease]
\* SQLite expunges the row with the "running" entry still unflushed, so only
\* the SKIP LOCKED path stores it.
Claimed(row, w) ==
  [row EXCEPT !.status = "running", !.claimed_by = w, !.lease = Lease,
              !.attempts = @ + 1,
              !.history = IF skipLocked THEN AppendAttempt(row, w, "running") ELSE @]

RequeuedKeepingLease(row) == [row EXCEPT !.status = "pending", !.claimed_by = None]
Requeued(row) == ClearClaim([row EXCEPT !.status = "pending"])

AckedLosingExecutor(row, e) ==
  [ClearClaim(row) EXCEPT !.status = "done", !.executed_by = None, !.result = e.worker]
Acked(row, e) ==
  ClearClaim([row EXCEPT !.status = "done", !.executed_by = row.claimed_by,
                         !.result = e.worker,
                         !.history = AppendAttempt(row, row.claimed_by, "done")])

ExhaustedTooLate(j) == rows[j].attempts > Request[j].max_attempts
Exhausted(j) == rows[j].attempts >= Request[j].max_attempts

Nacked(j) ==
  LET row == rows[j]
      next == IF Exhausted(j) THEN "failed" ELSE "pending"
  IN  ClearClaim([row EXCEPT !.status = next, !.executed_by = row.claimed_by,
                             !.history = AppendAttempt(row, row.claimed_by, next)])

\* FOR UPDATE locks the whole candidate window until the claim commits.
Locked(j) == skipLocked /\ \E w \in Workers : j \in cands[w]

\* What has happened of crash, stop, admin call and fault.
Happened == {kind \in DOMAIN left : left[kind] < Budget[kind]}

Spend(kind) ==
  /\ left[kind] > 0
  /\ Happened \cup {kind} \in Together
  /\ left' = [left EXCEPT ![kind] = @ - 1]

-----------------------------------------------------------------------------
(* Clients and the admin endpoints *)

Submit(j) ==
  /\ rows[j].status = "new"
  /\ Put(j, BlankRow("pending", Request[j].run_after,
                     Cardinality({k \in Jobs : rows[k].status # "new"}) + 1))
  /\ UNCHANGED <<pc, cands, execs, zombies, inFlight, left>>

Retry(j) ==
  /\ Stored(j) /\ ~Locked(j)
  /\ Spend("admin")
  /\ Put(j, Requeued(rows[j]))
  /\ UNCHANGED <<pc, cands, execs, zombies, inFlight>>

Cancel(j) ==
  /\ rows[j].status = "pending" /\ ~Locked(j)
  /\ Spend("admin")
  /\ Put(j, [rows[j] EXCEPT !.status = "failed"])
  /\ UNCHANGED <<pc, cands, execs, zombies, inFlight>>

Delete(j) ==
  /\ Stored(j) /\ ~Locked(j)
  /\ Spend("admin")
  /\ Put(j, BlankRow("deleted", 0, rows[j].born))
  /\ UNCHANGED <<pc, cands, execs, zombies, inFlight>>

-----------------------------------------------------------------------------
(* _worker_loop: sweep -> claim -> try -> launch -> claim ... -> sweep *)

Before(j, k) ==
  \/ Request[j].priority < Request[k].priority
  \/ Request[j].priority = Request[k].priority /\ rows[j].born < rows[k].born

Eligible(w) == {j \in Jobs : /\ rows[j].status = "pending"
                             /\ rows[j].wait = 0
                             /\ Request[j].job_type \in Subscribed[w]
                             /\ ~Locked(j)}

\* The first Window eligible rows by (priority, gmt_create).
CandidateWindow(w) ==
  {j \in Eligible(w) : Cardinality({k \in Eligible(w) : Before(k, j)}) < Window}

WorkerCanClaim(w, j) == Request[j].required_worker \subseteq Tags[w]

NoRecheck(j) == TRUE
\* The UPDATE of SQLite repeats the status test; the other path holds the lock.
StillPending(j) == skipLocked \/ rows[j].status = "pending"

InFlightCount(w) == Cardinality({j \in Jobs : inFlight[w][j] # 0})
Running(w) == {e \in execs : e.worker = w /\ e.slot}

NeverPopped(w) == inFlight[w]
\* The pop of the finished tasks at the top of an iteration.
Popped(w) ==
  [j \in Jobs |-> IF \E e \in execs : /\ e.worker = w /\ e.job = j
                                      /\ e.attempt = inFlight[w][j] /\ e.task
                  THEN inFlight[w][j] ELSE 0]

NothingReclaimed(w) == rows
ReclaimStalled(w) ==
  [j \in Jobs |-> IF Lapsed(j) /\ Request[j].job_type \in Subscribed[w]
                  THEN Requeued(rows[j]) ELSE rows[j]]

Start(w) ==
  /\ pc[w] = "down"
  /\ \/ rows' = ReclaimStalled(w) /\ UNCHANGED left
     \/ Spend("fault") /\ UNCHANGED rows
  /\ pc' = [pc EXCEPT ![w] = "sweep"]
  /\ UNCHANGED <<cands, execs, zombies, inFlight>>

Sweep(w) ==
  /\ pc[w] = "sweep"
  /\ inFlight' = [inFlight EXCEPT ![w] = Popped(w)]
  /\ \/ rows' = ReclaimStalled(w) /\ pc' = [pc EXCEPT ![w] = "claim"]
        /\ UNCHANGED left
     \/ Spend("fault") /\ UNCHANGED <<rows, pc>>
  /\ UNCHANGED <<cands, execs, zombies>>

\* All of _in_flight taken: back to sleep until the next iteration.
AtCapacity(w) ==
  /\ pc[w] = "claim" /\ InFlightCount(w) >= Concurrency
  /\ pc' = [pc EXCEPT ![w] = "sweep"]
  /\ UNCHANGED <<rows, cands, execs, zombies, inFlight, left>>

ClaimSelect(w) ==
  /\ pc[w] = "claim" /\ InFlightCount(w) < Concurrency
  /\ pc' = [pc EXCEPT ![w] = "try"]
  /\ cands' = [cands EXCEPT ![w] = CandidateWindow(w)]
  /\ UNCHANGED <<rows, execs, zombies, inFlight, left>>

FirstCandidate(w, j) == j \in cands[w] /\ ~\E k \in cands[w] : Before(k, j)
Claims(w, j) == WorkerCanClaim(w, j) /\ StillPending(j)

\* The bound on claims: a loop started after a stop needs claims to fill up.
MoreClaims(j) == rows[j].attempts < MaxClaims + Budget["stop"] - left["stop"]

ClaimUpdate(w) == \E j \in cands[w] :
  /\ pc[w] = "try" /\ FirstCandidate(w, j) /\ Claims(w, j)
  /\ MoreClaims(j)
  /\ Put(j, Claimed(rows[j], w))
  /\ execs' = execs \cup {[worker |-> w, job |-> j, attempt |-> rows[j].attempts + 1,
                           phase |-> "held", renew |-> FALSE, task |-> FALSE, slot |-> FALSE]}
  /\ pc' = [pc EXCEPT ![w] = "launch"]
  /\ cands' = [cands EXCEPT ![w] = {}]
  /\ UNCHANGED <<zombies, inFlight, left>>

\* The update is committed but the connection fails before the reply.
ClaimFault(w) == \E j \in cands[w] :
  /\ pc[w] = "try" /\ FirstCandidate(w, j) /\ Claims(w, j)
  /\ MoreClaims(j)
  /\ Spend("fault")
  /\ Put(j, Claimed(rows[j], w))
  /\ pc' = [pc EXCEPT ![w] = "sweep"]
  /\ cands' = [cands EXCEPT ![w] = {}]
  /\ UNCHANGED <<execs, zombies, inFlight>>

ClaimMiss(w) == \E j \in cands[w] :
  /\ pc[w] = "try" /\ FirstCandidate(w, j) /\ ~Claims(w, j)
  /\ cands' = [cands EXCEPT ![w] = @ \ {j}]
  /\ UNCHANGED <<rows, pc, execs, zombies, inFlight, left>>

ClaimNone(w) ==
  /\ pc[w] = "try" /\ cands[w] = {}
  /\ pc' = [pc EXCEPT ![w] = "sweep"]
  /\ UNCHANGED <<rows, cands, execs, zombies, inFlight, left>>

NoSemaphore(w) == TRUE
SlotFree(w) == Cardinality(Running(w)) < Concurrency

\* The SKIP LOCKED claim returns its row expired (committed, then expunged):
\* reading job.id and job.job_type raises, in the loop and in the task.
Launch(w) == \E e \in execs :
  /\ pc[w] = "launch" /\ e.worker = w /\ e.phase = "held"
  /\ SlotFree(w)
  /\ IF skipLocked
     THEN /\ execs' = execs \ {e}
          /\ pc' = [pc EXCEPT ![w] = "sweep"]
          /\ UNCHANGED inFlight
     ELSE /\ execs' = (execs \ {e}) \cup
                      {[e EXCEPT !.phase = "handling", !.renew = TRUE,
                                 !.task = TRUE, !.slot = TRUE]}
          /\ pc' = [pc EXCEPT ![w] = "claim"]
          /\ inFlight' = [inFlight EXCEPT ![w][e.job] = e.attempt]
  /\ UNCHANGED <<rows, cands, zombies, left>>

-----------------------------------------------------------------------------
(* _run_one *)

Becomes(e, f) == execs' = (execs \ {e}) \cup {f}

\* The handler returns or raises; either way the renewer is cancelled first.
HandlerReturns(e) ==
  /\ e.phase = "handling"
  /\ Becomes(e, [e EXCEPT !.phase = "acking", !.renew = FALSE])
  /\ UNCHANGED <<rows, pc, cands, zombies, inFlight, left>>

HandlerRaises(e) ==
  /\ e.phase = "handling"
  /\ Becomes(e, [e EXCEPT !.phase = "nacking", !.renew = FALSE])
  /\ UNCHANGED <<rows, pc, cands, zombies, inFlight, left>>

\* dao.ack asks for a running row, not for the caller's own claim.
AckRow(e) == IF rows[e.job].status = "running"
             THEN Put(e.job, Acked(rows[e.job], e)) ELSE UNCHANGED rows

Ack(e) ==
  /\ e.phase = "acking"
  /\ AckRow(e)
  /\ execs' = execs \ {e}
  /\ UNCHANGED <<pc, cands, zombies, inFlight, left>>

\* dao.ack raises, before or after its commit: _run_one falls into its
\* except branch and nacks.  A detached ack has no _run_one any more.
AckFault(e) ==
  /\ e.phase = "acking"
  /\ Spend("fault")
  /\ AckRow(e) \/ UNCHANGED rows
  /\ IF e.task THEN Becomes(e, [e EXCEPT !.phase = "nacking"])
               ELSE execs' = execs \ {e}
  /\ UNCHANGED <<pc, cands, zombies, inFlight>>

\* dao.nack asks for neither a running row nor the caller's own claim.
Nack(e) ==
  /\ e.phase = "nacking"
  /\ ~Locked(e.job)
  /\ IF Stored(e.job) THEN Put(e.job, Nacked(e.job)) ELSE UNCHANGED rows
  /\ execs' = execs \ {e}
  /\ UNCHANGED <<pc, cands, zombies, inFlight, left>>

NackFault(e) ==
  /\ e.phase = "nacking"
  /\ Spend("fault")
  /\ execs' = execs \ {e}
  /\ UNCHANGED <<rows, pc, cands, zombies, inFlight>>

-----------------------------------------------------------------------------
(* _renew_loop *)

Renewing(w, j) == \/ \E e \in execs : e.worker = w /\ e.job = j /\ e.renew
                  \/ <<w, j>> \in zombies

Renewed(j) == [rows[j] EXCEPT !.lease = RenewTo]

RenewLease(w, j) ==
  /\ Renewing(w, j)
  /\ rows[j].status = "running" /\ rows[j].claimed_by = w
  /\ Put(j, Renewed(j))
  /\ UNCHANGED <<pc, cands, execs, zombies, inFlight, left>>

\* One failed renew_lease ends the loop; the handler runs on.
RenewFault(e) ==
  /\ e.renew
  /\ Spend("fault")
  /\ Becomes(e, [e EXCEPT !.renew = FALSE])
  /\ UNCHANGED <<rows, pc, cands, zombies, inFlight>>

ZombieFault(w, j) ==
  /\ <<w, j>> \in zombies
  /\ Spend("fault")
  /\ zombies' = zombies \ {<<w, j>>}
  /\ UNCHANGED <<rows, pc, cands, execs, inFlight>>

-----------------------------------------------------------------------------
(* Time, stop and crash *)

\* Under Prompt a lease does not run out on an execution that still has it.
Attended(j) == \E e \in execs : /\ e.job = j /\ e.worker = rows[j].claimed_by
                                /\ e.attempt = rows[j].attempts
                                /\ e.phase = "handling" => e.renew

Aged(row) == [row EXCEPT !.lease = IF @ >= 0 THEN @ - 1 ELSE @,
                         !.wait = IF @ > 0 THEN @ - 1 ELSE @]

Tick ==
  /\ Prompt => \A j \in Jobs : rows[j].lease = 0 => ~Attended(j)
  /\ rows' = [j \in Jobs |-> Aged(rows[j])]
  /\ UNCHANGED <<pc, cands, execs, zombies, inFlight, left>>

\* The executions whose task _in_flight names, and those it does not: their
\* entry was overwritten by a later claim of the job, or cleared by a stop.
Named(w) == {e \in execs : e.worker = w /\ e.task /\ inFlight[w][e.job] = e.attempt}
Unnamed(w) == {e \in execs : e.worker = w /\ e.phase # "held"} \ Named(w)

\* stop() cancels the loop, with the claim it holds, and the tasks that
\* _in_flight names.  CancelledError passes by the `except Exception` of
\* _run_one: no nack, and the renewer is not cancelled.  An ack or nack whose
\* thread has begun still takes place (late).  The other tasks run on, past
\* the semaphore of the loop that is started next.  A claim whose thread
\* commits after the cancellation is the claim followed by Stop.
Stop(w) == \E late \in SUBSET {e \in Named(w) : e.phase \in {"acking", "nacking"}} :
  /\ pc[w] # "down"
  /\ Spend("stop")
  /\ pc' = [pc EXCEPT ![w] = "down"]
  /\ cands' = [cands EXCEPT ![w] = {}]
  /\ execs' = {e \in execs : e.worker # w}
              \cup {[e EXCEPT !.slot = FALSE] : e \in Unnamed(w)}
              \cup {[e EXCEPT !.task = FALSE, !.slot = FALSE] : e \in late}
  /\ zombies' = zombies \cup {<<w, e.job>> : e \in {f \in Named(w) : f.renew}}
  /\ inFlight' = [inFlight EXCEPT ![w] = [j \in Jobs |-> 0]]
  /\ UNCHANGED rows

\* The process dies, stopped or not.
Crash(w) ==
  /\ Spend("crash")
  /\ pc' = [pc EXCEPT ![w] = "down"]
  /\ cands' = [cands EXCEPT ![w] = {}]
  /\ execs' = {e \in execs : e.worker # w}
  /\ zombies' = {z \in zombies : z[1] # w}
  /\ inFlight' = [inFlight EXCEPT ![w] = [j \in Jobs |-> 0]]
  /\ UNCHANGED rows

-----------------------------------------------------------------------------
Client == \E j \in Jobs : Submit(j) \/ Retry(j) \/ Cancel(j) \/ Delete(j)

Loop(w) == \/ Sweep(w) \/ AtCapacity(w) \/ ClaimSelect(w) \/ ClaimUpdate(w)
           \/ ClaimFault(w) \/ ClaimMiss(w) \/ ClaimNone(w) \/ Launch(w)

RunOne(e) == \/ HandlerReturns(e) \/ HandlerRaises(e) \/ Ack(e) \/ AckFault(e)
             \/ Nack(e) \/ NackFault(e) \/ RenewFault(e)

Next ==
  /\ UNCHANGED skipLocked
  /\ \/ Client
     \/ \E w \in Workers : Start(w) \/ Loop(w) \/ Stop(w) \/ Crash(w)
     \/ \E e \in execs : RunOne(e)
     \/ \E w \in Workers, j \in Jobs : RenewLease(w, j) \/ ZombieFault(w, j)
     \/ Tick

Spec == Init /\ [][Next]_vars

\* The loop polls for ever, a dead process is started again, handlers come to
\* an end, renewals and time go on.  Clients, crashes and faults are not fair.
Does(A) == A /\ UNCHANGED skipLocked
Fairness ==
  /\ \A w \in Workers : WF_vars(Does(Start(w))) /\ WF_vars(Does(Loop(w)))
  /\ \A w \in Workers, j \in Jobs :
       /\ WF_vars(Does(\E e \in execs : e.worker = w /\ e.job = j /\ RunOne(e)))
       /\ WF_vars(Does(RenewLease(w, j)))
  /\ WF_vars(Does(Tick))

FairSpec == Spec /\ Fairness

-----------------------------------------------------------------------------
(* The table as a lock that counts its turns, see JobClaims *)

HolderOf == [j \in Jobs |-> rows[j].claimed_by]
TurnOf == [j \in Jobs |-> IF rows[j].status = "deleted" THEN 0 ELSE rows[j].attempts]
ClaimsOf == {[worker |-> e.worker, job |-> e.job, turn |-> e.attempt] : e \in execs}
GoneOf == {j \in Jobs : rows[j].status = "deleted"}

Table == INSTANCE JobClaims WITH
  holder <- HolderOf, turn <- TurnOf, claims <- ClaimsOf, gone <- GoneOf

-----------------------------------------------------------------------------
(* Properties *)

\* Every variable has its type.
TypeOK ==
  /\ skipLocked \in BOOLEAN
  /\ rows \in [Jobs -> Row]
  /\ pc \in [Workers -> {"down", "sweep", "claim", "try", "launch"}]
  /\ cands \in [Workers -> SUBSET Jobs]
  /\ execs \subseteq Execution
  /\ zombies \subseteq Workers \X Jobs
  /\ inFlight \in [Workers -> [Jobs -> Nat]]
  /\ left \in [{"crash", "stop", "admin", "fault"} -> Nat]

\* A row is running exactly while it carries a claim, and then it carries a
\* lease too: reclaim_stalled skips a running row without lease_until, so a
\* step that left one behind would strand the job for ever.
ClaimColumns == \A j \in Jobs :
  /\ rows[j].status = "running" <=> rows[j].claimed_by # None
  /\ rows[j].status = "running" <=> rows[j].lease # NoLease

\* A claim (a job and its attempt number) is worked on by one execution, no
\* execution is ahead of its row, and the row's current claim is that of the
\* worker named in claimed_by: whatever is reclaimed, retried or acked late,
\* two workers never both believe they hold the current attempt.
AttemptHasOneOwner == \A e \in execs :
  /\ \A f \in execs : e.job = f.job /\ e.attempt = f.attempt => e = f
  /\ rows[e.job].status = "deleted" \/ e.attempt <= rows[e.job].attempts
  /\ rows[e.job].status = "running" /\ e.attempt = rows[e.job].attempts
       => rows[e.job].claimed_by = e.worker

\* No step replaces the claim of a running row: claim_next and the lease
\* only ever take a row that is pending at that moment, so a claim ends by
\* the row leaving "running" and never by another worker's claim.
NoClaimStolen == [][\A j \in Jobs :
  rows[j].status = "running" /\ rows'[j].status = "running" =>
    /\ rows'[j].claimed_by = rows[j].claimed_by
    /\ rows'[j].attempts = rows[j].attempts]_vars

\* The table is a lock that counts its turns, see JobClaims: whatever else a
\* step does, it takes only jobs nobody holds, makes at most one claim of a
\* turn, changes no claim a worker acts on, and never counts back.
ImplementsClaims == Table!Spec

\* The row locks of SKIP LOCKED: no two claims in progress hold one row, and
\* a held row stays pending until its claim commits, which is why the
\* UPDATE of that path needs no status test.
LocksHold == skipLocked => \A w \in Workers : \A j \in cands[w] :
  /\ rows[j].status = "pending"
  /\ \A v \in Workers : j \in cands[v] => v = w

\* While executions renew and answer within their lease, and nobody retries
\* a running job, two handlers never run one job at the same time.
HandlersExclusive == \A e, f \in execs :
  e.job = f.job /\ e.phase = "handling" /\ f.phase = "handling" => e = f

\* One Service runs at most config.concurrency handlers until it is stopped,
\* also when it reclaims its own stalled job and the _in_flight entry of the
\* first execution is overwritten by the second.  A stop leaves the handlers
\* without entry to the loop started next, which does not count them: each
\* stop adds at most concurrency - 1, so none where concurrency is 1.
ConcurrencyBound == \A w \in Workers :
  Cardinality({e \in execs : e.worker = w /\ e.phase = "handling"})
    <= Concurrency + (Budget["stop"] - left["stop"]) * (Concurrency - 1)

\* executed_by of a done row names the worker whose execution produced the
\* stored result.
ExecutorRecorded == \A j \in Jobs :
  rows[j].status = "done" => rows[j].executed_by = rows[j].result

\* A job is claimed at most max_attempts times, plus once for every time a
\* process died or was stopped with it: reclaim_stalled does not look at
\* max_attempts.
AttemptsBounded == ~skipLocked => \A j \in Jobs :
  rows[j].attempts <= Request[j].max_attempts + Budget["crash"] - left["crash"]
                                              + Budget["stop"] - left["stop"]

\* attempts_history holds at most one entry per attempt: no claim is both
\* acked and nacked, and a lost one leaves no entry.
OneEntryPerAttempt == \A j \in Jobs :
  rows[j].status # "deleted" => Len(rows[j].history) <= rows[j].attempts

\* A done row leaves "done" only by the retry and delete endpoints.
DoneUntilRetried == [][\A j \in Jobs :
  rows[j].status = "done" /\ rows'[j].status # "done" => left'["admin"] < left["admin"]]_vars

\* On SQLite every submitted job comes to an end, done or failed, although
\* a process may die with it and the other worker must reclaim it.
Settles == \A j \in Jobs :
  []<>(skipLocked \/ rows[j].status \notin {"pending", "running"})

\* A running row that nobody executes, its process dead or its claim lost,
\* is given up by lease expiry and reclaim: no row stays in that state.
StalledReclaimed == \A j \in Jobs :
  []<>(rows[j].status = "running" => \E e \in execs : e.job = j)
=============================================================================
