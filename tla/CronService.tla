----------------------------- MODULE CronService -----------------------------
(***************************************************************************)
(* The cron service, derisk_serve/cron: the rows of its table, the entries *)
(* APScheduler holds for them in memory, and the executions of             *)
(* _execute_job_safe that a timer or a client has triggered.               *)
(*                                                                         *)
(* Everything runs on one event loop.  add_job, update_job, remove_job and *)
(* start suspend nowhere, so each is one action; an execution suspends     *)
(* when it waits for the lock of its job and while the job runs, and what  *)
(* it read of the row before the first of these it uses after the second.  *)
(*                                                                         *)
(* Of a row only what decides about executions is kept: next_run_at_ms,    *)
(* last_status, the error counters and the payload are left out.           *)
(***************************************************************************)
EXTENDS Naturals, FiniteSets

CONSTANTS
  Jobs,          \* job ids; clients may choose them, so one can be added again
  NoJob,         \* the job of a free slot
  MaxRuns,       \* bound: executions under way at one time
  MaxInstances   \* config.max_instances

ASSUME CronAssumption ==
  /\ NoJob \notin Jobs
  /\ MaxRuns \in Nat
  /\ MaxInstances \in Nat

VARIABLES
  service,       \* "init" until start(), then _running, then after stop()
  rows,          \* the table
  entries,       \* the trigger the scheduler holds for each job, "none": none
  runs,          \* executions: created, waiting for the lock, executing
  orphaned       \* bookkeeping: jobs whose running mark a stop or crash left behind

vars == <<service, rows, entries, runs, orphaned>>

Slot == 1..MaxRuns

\* "bad" is a schedule no trigger can be made of: _create_trigger raises or
\* returns None, after the row has been committed.
Triggers == {"every", "at"}
Kinds    == Triggers \cup {"bad"}

Row == [stored : BOOLEAN, enabled : BOOLEAN, kind : Kinds,
        delete_after_run : BOOLEAN, running : BOOLEAN]

Missing == [stored |-> FALSE, enabled |-> FALSE, kind |-> "bad",
            delete_after_run |-> FALSE, running |-> FALSE]

(***************************************************************************)
(* delete_after_run is what the execution read of its row.  ahead is the   *)
(* set of executions before it in the queue of the asyncio.Lock.           *)
(***************************************************************************)
Run == [job : Jobs \cup {NoJob}, phase : {"none", "created", "waiting", "executing"},
        by : {"none", "timer", "client"}, delete_after_run : BOOLEAN, ahead : SUBSET Slot]

NewRun(j, by) == [job |-> j, phase |-> "created", by |-> by,
                  delete_after_run |-> FALSE, ahead |-> {}]
NoRun == [job |-> NoJob, phase |-> "none", by |-> "none",
          delete_after_run |-> FALSE, ahead |-> {}]

InPhase(j, phase) == {s \in Slot : runs[s].job = j /\ runs[s].phase = phase}

Init ==
  /\ service = "init"
  /\ rows = [j \in Jobs |-> Missing]
  /\ entries = [j \in Jobs |-> "none"]
  /\ runs = [s \in Slot |-> NoRun]
  /\ orphaned = {}

-----------------------------------------------------------------------------
(* Below, a definition that only a mutant of the run uses stands before    *)
(* the one it varies.                                                      *)

\* _create_trigger and _schedule_job: the trigger of a job that is scheduled now
Trigger(kind) == IF service = "running" /\ kind \in Triggers THEN kind ELSE "none"

\* An insert of an id that is stored fails before anything has changed.
AddJob(j, enabled, kind, delete) ==
  /\ ~rows[j].stored
  /\ rows' = [rows EXCEPT ![j] = [stored |-> TRUE, enabled |-> enabled, kind |-> kind,
                                  delete_after_run |-> delete, running |-> FALSE]]
  /\ entries' = [entries EXCEPT ![j] = Trigger(kind)]
  /\ UNCHANGED <<service, runs, orphaned>>

EntryKept(j, enabled, kind) ==
  IF ~enabled THEN "none" ELSE IF entries[j] = "none" THEN entries[j] ELSE Trigger(kind)
\* _unschedule_job, then _schedule_job_by_id if the job is enabled
Entry(j, enabled, kind) == IF enabled THEN Trigger(kind) ELSE "none"

\* Also the disable endpoint; the enable endpoint fails before it calls this.
UpdateJob(j, enabled, kind, delete) ==
  /\ rows[j].stored
  /\ rows' = [rows EXCEPT ![j] = [stored |-> TRUE, enabled |-> enabled, kind |-> kind,
                                  delete_after_run |-> delete, running |-> rows[j].running]]
  /\ entries' = [entries EXCEPT ![j] = Entry(j, enabled, kind)]
  /\ UNCHANGED <<service, runs, orphaned>>

RemoveJob(j) ==
  /\ rows[j].stored
  /\ rows' = [rows EXCEPT ![j] = Missing]
  /\ entries' = [entries EXCEPT ![j] = "none"]
  /\ orphaned' = orphaned \ {j}
  /\ UNCHANGED <<service, runs>>

Create(j, by) ==
  \E s \in Slot :
    /\ runs[s] = NoRun
    /\ \A t \in Slot : runs[t] = NoRun => s <= t
    /\ runs' = [runs EXCEPT ![s] = NewRun(j, by)]

\* create_task(self._execute_job_safe(job_id))
RunJob(j, force) ==
  /\ rows[j].stored
  /\ rows[j].enabled \/ force
  /\ Create(j, "client")
  /\ UNCHANGED <<service, rows, entries, orphaned>>

-----------------------------------------------------------------------------
(* The scheduler *)

StartSkippingRunning ==
  /\ service = "init"
  /\ service' = "running"
  /\ entries' = [j \in Jobs |->
                   IF rows[j].stored /\ rows[j].enabled /\ ~rows[j].running
                        /\ rows[j].kind \in Triggers
                     THEN rows[j].kind ELSE "none"]
  /\ UNCHANGED <<rows, runs, orphaned>>
\* start() and _recover_jobs
Start ==
  /\ service = "init"
  /\ service' = "running"
  /\ entries' = [j \in Jobs |->
                   IF rows[j].stored /\ rows[j].enabled /\ rows[j].kind \in Triggers
                     THEN rows[j].kind ELSE "none"]
  /\ UNCHANGED <<rows, runs, orphaned>>

\* A date trigger has no next fire time once it has fired.
Fired(j) == entries' = [entries EXCEPT ![j] = IF @ = "at" THEN "none" ELSE @]

Instances(j) == {s \in Slot : runs[s].job = j /\ runs[s].by = "timer"}

HasInstanceLeft(j) == Cardinality(Instances(j)) < MaxInstances

Fire(j) ==
  /\ entries[j] # "none"
  /\ HasInstanceLeft(j)
  /\ Create(j, "timer")
  /\ Fired(j)
  /\ UNCHANGED <<service, rows, orphaned>>

\* max_instances are running, or the loop is late by more than misfire_grace_time
FireSkipped(j) ==
  /\ entries[j] # "none"
  /\ Fired(j)
  /\ UNCHANGED <<service, rows, runs, orphaned>>

Without(gone) ==
  [s \in Slot |-> IF s \in gone THEN NoRun
                  ELSE [runs[s] EXCEPT !.ahead = @ \ gone]]

\* shutdown() of the asyncio executor cancels the tasks of the timers, not those
\* of run_job; CancelledError passes by the except clause that clears the mark.
Stop ==
  /\ service = "running"
  /\ service' = "stopped"
  /\ entries' = [j \in Jobs |-> "none"]
  /\ LET cancelled == {s \in Slot : runs[s].by = "timer"}
     IN  /\ runs' = Without(cancelled)
         /\ orphaned' = orphaned \cup
              {j \in Jobs : rows[j].running /\ InPhase(j, "executing") \cap cancelled # {}}
  /\ UNCHANGED rows

\* The process ends, stopped or not, and a new one comes up.
Crash ==
  /\ service' = "init"
  /\ entries' = [j \in Jobs |-> "none"]
  /\ runs' = [s \in Slot |-> NoRun]
  /\ orphaned' = {j \in Jobs : rows[j].running}
  /\ UNCHANGED rows

-----------------------------------------------------------------------------
(* _execute_job_safe *)

Mark(j, running) ==
  rows' = [rows EXCEPT ![j] = IF @.stored THEN [@ EXCEPT !.running = running] ELSE @]

LockFreeForNewcomers(j) == InPhase(j, "waiting") = {}
\* asyncio.Lock: released and nobody in its queue
LockFree(j) == InPhase(j, "waiting") = {} /\ InPhase(j, "executing") = {}

\* get_job finds no row
BeginMissing(s) ==
  /\ runs[s].phase = "created"
  /\ ~rows[runs[s].job].stored
  /\ runs' = [runs EXCEPT ![s] = NoRun]
  /\ UNCHANGED <<service, rows, entries, orphaned>>

Enter(s, delete) ==
  /\ runs' = [Without({s}) EXCEPT ![s] =
                [job |-> runs[s].job, phase |-> "executing", by |-> runs[s].by,
                 delete_after_run |-> delete, ahead |-> {}]]
  /\ Mark(runs[s].job, TRUE)
  /\ UNCHANGED <<service, entries, orphaned>>

Begin(s) ==
  /\ runs[s].phase = "created"
  /\ rows[runs[s].job].stored
  /\ LockFree(runs[s].job)
  /\ Enter(s, rows[runs[s].job].delete_after_run)

BeginWaiting(s) ==
  /\ runs[s].phase = "created"
  /\ rows[runs[s].job].stored
  /\ ~LockFree(runs[s].job)
  /\ runs' = [runs EXCEPT ![s] =
                [job |-> runs[s].job, phase |-> "waiting", by |-> runs[s].by,
                 delete_after_run |-> rows[runs[s].job].delete_after_run,
                 ahead |-> InPhase(runs[s].job, "waiting")]]
  /\ UNCHANGED <<service, rows, entries, orphaned>>

AcquireUnordered(s) ==
  /\ runs[s].phase = "waiting"
  /\ InPhase(runs[s].job, "executing") = {}
  /\ Enter(s, runs[s].delete_after_run)
\* The first of the queue has been woken; the row is not read again.
Acquire(s) ==
  /\ runs[s].phase = "waiting"
  /\ runs[s].ahead = {}
  /\ InPhase(runs[s].job, "executing") = {}
  /\ Enter(s, runs[s].delete_after_run)

FinishMarkingSuccess(s, success) ==
  /\ runs[s].phase = "executing"
  /\ runs' = [runs EXCEPT ![s] = NoRun]
  /\ orphaned' = orphaned \ {runs[s].job}
  /\ IF success THEN Mark(runs[s].job, FALSE) ELSE UNCHANGED rows
  /\ UNCHANGED <<service, entries>>
\* _execute_job has returned or raised; ~success is both False and an exception.
Finish(s, success) ==
  /\ runs[s].phase = "executing"
  /\ runs' = [runs EXCEPT ![s] = NoRun]
  /\ orphaned' = orphaned \ {runs[s].job}
  /\ IF success /\ runs[s].delete_after_run
       THEN /\ rows' = [rows EXCEPT ![runs[s].job] = Missing]
            /\ entries' = [entries EXCEPT ![runs[s].job] = "none"]
       ELSE /\ Mark(runs[s].job, FALSE)
            /\ UNCHANGED entries
  /\ UNCHANGED service

-----------------------------------------------------------------------------
Client(j) ==
  \/ \E enabled \in BOOLEAN, kind \in Kinds, delete \in BOOLEAN :
       AddJob(j, enabled, kind, delete) \/ UpdateJob(j, enabled, kind, delete)
  \/ RemoveJob(j)
  \/ \E force \in BOOLEAN : RunJob(j, force)

Execution(s) ==
  \/ BeginMissing(s) \/ Begin(s) \/ BeginWaiting(s) \/ Acquire(s)
  \/ \E success \in BOOLEAN : Finish(s, success)

Next ==
  \/ \E j \in Jobs : Client(j) \/ Fire(j) \/ FireSkipped(j)
  \/ \E s \in Slot : Execution(s)
  \/ Start \/ Stop \/ Crash

Spec == Init /\ [][Next]_vars

\* The event loop runs what is ready, jobs come to an end and timers come due.
Fairness ==
  /\ \A s \in Slot : WF_vars(Execution(s))
  /\ \A j \in Jobs : WF_vars(Fire(j))

FairSpec == Spec /\ Fairness

-----------------------------------------------------------------------------
\* Every variable has its type.
TypeOK ==
  /\ service \in {"init", "running", "stopped"}
  /\ rows \in [Jobs -> Row]
  /\ entries \in [Jobs -> Triggers \cup {"none"}]
  /\ runs \in [Slot -> Run]
  /\ orphaned \subseteq Jobs

(***************************************************************************)
(* A job never runs twice at one time, whether timers, clients or both     *)
(* have triggered it, and also if it was removed and added again meanwhile *)
(* (the lock of _execute_job_safe; max_instances holds timers only).       *)
(***************************************************************************)
OneRunPerJob ==
  \A j \in Jobs : \A s, t \in InPhase(j, "executing") : s = t

(***************************************************************************)
(* A row that says it is running tells the truth: an execution of its job  *)
(* is under way, or a stop or crash cut the last one off.                  *)
(***************************************************************************)
MarkHonest ==
  \A j \in Jobs : rows[j].running => j \in orphaned \/ InPhase(j, "executing") # {}

(***************************************************************************)
(* While the service runs, the scheduler and the table agree, through      *)
(* every sequence of adds, updates, removals, deletions by an execution,   *)
(* and restarts: an enabled recurring job has its timer, and a timer is    *)
(* that of a stored row.                                                   *)
(***************************************************************************)
ScheduleMatchesTable ==
  \A j \in Jobs :
    /\ service = "running" /\ rows[j].enabled /\ rows[j].kind = "every"
         => entries[j] = "every"
    /\ entries[j] # "none" =>
         service = "running" /\ rows[j].stored /\ entries[j] = rows[j].kind

(***************************************************************************)
(* Whatever is triggered comes to an end: nothing waits for ever for the   *)
(* lock of its job, however many come after it.                            *)
(***************************************************************************)
RunsEnd == \A s \in Slot : runs[s].phase # "none" ~> runs[s].phase = "none"

(***************************************************************************)
(* A recurring job that stays enabled in a running service is executed     *)
(* again and again.                                                        *)
(***************************************************************************)
EnabledKeepsRunning ==
  \A j \in Jobs :
    <>[](service = "running" /\ rows[j].enabled /\ rows[j].kind = "every")
      => []<>(InPhase(j, "executing") # {})
=============================================================================
