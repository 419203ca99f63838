----------------------------- MODULE AsyncTasks -----------------------------
(***************************************************************************)
(* AsyncTaskManager of derisk-core: the background sub-agent tasks of one  *)
(* agent.  Everything runs in one event loop, so an action is the code     *)
(* between two awaits, of the background coroutine of a task or of a call  *)
(* the agent's tools make; a tool batch is gathered, so calls overlap.     *)
(*                                                                         *)
(* Task.cancel() is a request: the coroutine receives CancelledError when  *)
(* it is resumed.  Up to Python 3.11 asyncio.wait_for drops the request    *)
(* when what it waits for is already done (keepsResult).                   *)
(***************************************************************************)
EXTENDS Integers, Sequences, FiniteSets

CONSTANTS
  Tasks,          \* task ids
  Callers,        \* tool calls of the agent that may be under way together
  Deps,           \* Tasks -> spec.depend_on
  MaxConcurrent,  \* max_concurrent
  Callbacks       \* outcomes with a callback: on_task_complete, on_task_failed

ASSUME ManagerAssumption ==
  /\ IsFiniteSet(Tasks)
  /\ Deps \in [Tasks -> Seq(Tasks)]
  /\ MaxConcurrent \in Nat \ {0}
  /\ Callbacks \subseteq {"COMPLETED", "FAILED"}

VARIABLES
  keepsResult,  \* asyncio.wait_for of Python < 3.12, fixed by the runtime
  spawned,      \* keys of _tasks, in insertion order
  status,       \* state.status
  phase,        \* the await the background coroutine stands at
  at,           \* index of the dependency it waits for
  requested,    \* tasks whose bg_task.cancel() is not delivered yet
  resolved,     \* tasks whose future is done
  permits,      \* value of _semaphore
  consumed,     \* tasks with state.consumed
  received,     \* tasks the agent was given in a terminal status
  unfinished,   \* tasks a timed-out wait_all gave it before their end
  calls         \* Callers -> the wait under way

results == <<consumed, received, unfinished>>
tasks == <<spawned, status, phase, at, requested, resolved, permits>>
vars == <<keepsResult, tasks, results, calls>>

Terminal == {"COMPLETED", "FAILED", "TIMEOUT", "CANCELLED"}
Phases == {"none", "created", "dep", "sem", "delegating", "returned", "callback", "ended"}
Holding == {"delegating", "returned", "callback"}   \* inside `async with _semaphore`
Call == [op : {"idle", "any", "all"}, ids : SUBSET Tasks, woken : BOOLEAN]
Idle == [op |-> "idle", ids |-> {}, woken |-> FALSE]

Init ==
  /\ keepsResult \in BOOLEAN
  /\ spawned = <<>>
  /\ status = [t \in Tasks |-> "PENDING"]
  /\ phase = [t \in Tasks |-> "none"]
  /\ at = [t \in Tasks |-> 0]
  /\ requested = {}
  /\ resolved = {}
  /\ permits = MaxConcurrent
  /\ consumed = {}
  /\ received = {}
  /\ unfinished = {}
  /\ calls = [c \in Callers |-> Idle]

Known == {spawned[i] : i \in DOMAIN spawned}

-----------------------------------------------------------------------------
(* Ends of a task.  As in JobQueue, a definition PROJECT.json names as the   *)
(* mutant of another stands before it and is used by nothing else.         *)

WokenOne == [c \in Callers |->
  IF c = CHOOSE d \in Callers : calls[d].op = "any" \/ \A e \in Callers : calls[e].op # "any"
  THEN [calls[c] EXCEPT !.woken = calls[c].op = "any"] ELSE calls[c]]
\* _completion_event.set() wakes every wait_any.
Woken == [c \in Callers |->
  IF calls[c].op = "any" THEN [calls[c] EXCEPT !.woken = TRUE] ELSE calls[c]]

Resolve(t) == resolved' = resolved \cup {t} /\ calls' = Woken

FreedUnlessCancelled(t) ==
  permits + IF phase[t] \in Holding /\ t \notin requested THEN 1 ELSE 0
Freed(t) == permits + IF phase[t] \in Holding THEN 1 ELSE 0

\* The coroutine of t records st and ends.
Settle(t, st) ==
  /\ status' = [status EXCEPT ![t] = st]
  /\ phase' = [phase EXCEPT ![t] = "ended"]
  /\ requested' = requested \ {t}
  /\ at' = [at EXCEPT ![t] = 0]
  /\ permits' = Freed(t)
  /\ Resolve(t)
  /\ UNCHANGED <<spawned, results>>

-----------------------------------------------------------------------------
(* The background coroutine *)

\* The coroutine goes on to another await (or dies silently): nothing is
\* resolved.  i is the dependency it waits for.
Goto(t, p, i) ==
  /\ phase' = [phase EXCEPT ![t] = p]
  /\ at' = [at EXCEPT ![t] = i]
  /\ requested' = requested \ {t}
  /\ UNCHANGED <<spawned, resolved, results, calls>>

SlotFree == permits > 0

Run(t) ==
  /\ SlotFree
  /\ permits' = permits - 1
  /\ status' = [status EXCEPT ![t] = "RUNNING"]
  /\ Goto(t, "delegating", 0)

\* _run_task up to its first await.
Enter(t) ==
  \/ status[t] = "CANCELLED" /\ Settle(t, "CANCELLED")
  \/ status[t] # "CANCELLED" /\ Run(t)
  \/ /\ status[t] # "CANCELLED"
     /\ ~SlotFree \/ \E u \in Tasks : phase[u] = "sem"
     /\ Goto(t, "sem", 0)
     /\ UNCHANGED <<status, permits>>

HoldsUpUnresolved(d) == d \in Known /\ d \notin resolved
\* A dependency nobody spawned is passed over.
HoldsUp(d) == d \in Known /\ (d \notin resolved \/ status[d] # "COMPLETED")

\* The loop over depend_on from its k-th element to the next await.
Proceed(t, k) ==
  LET stops == {i \in k .. Len(Deps[t]) : HoldsUp(Deps[t][i])}
  IN  \/ stops = {} /\ Enter(t)
      \/ \E i \in stops :
           /\ \A h \in stops : i <= h
           /\ \/ Deps[t][i] \in resolved /\ Settle(t, "FAILED")
              \/ /\ Deps[t][i] \notin resolved
                 /\ Goto(t, "dep", i)
                 /\ UNCHANGED <<status, permits>>

Start(t) ==
  /\ phase[t] = "created" /\ t \notin requested
  /\ Proceed(t, 1)

DepResolved(t) == Deps[t][at[t]] \in resolved

DepDone(t) ==
  /\ phase[t] = "dep" /\ DepResolved(t)
  /\ t \in requested => keepsResult
  /\ Proceed(t, at[t])

NoDepTimeout(t) == FALSE /\ UNCHANGED vars
DepTimeout(t) ==
  /\ phase[t] = "dep" /\ ~DepResolved(t) /\ t \notin requested
  /\ Settle(t, "TIMEOUT")

Acquire(t) ==
  /\ phase[t] = "sem" /\ t \notin requested
  /\ Run(t)

\* delegate() comes to its end; the coroutine waiting for it is resumed later.
DelegateEnds(t) ==
  /\ phase[t] = "delegating"
  /\ t \in requested => keepsResult
  /\ phase' = [phase EXCEPT ![t] = "returned"]
  /\ UNCHANGED <<spawned, status, at, requested, resolved, permits, results, calls>>

RunTimeout(t) ==
  /\ phase[t] = "delegating" /\ t \notin requested
  /\ Settle(t, "TIMEOUT")

\* delegate() has returned a success or a failure, for which there is a
\* callback, or raised.  The status is visible before the callback has run.
Resume(t) ==
  /\ phase[t] = "returned"
  /\ t \in requested => keepsResult
  /\ \/ \E raised \in {"FAILED", "CANCELLED"} : Settle(t, raised)
     \/ \E outcome \in {"COMPLETED", "FAILED"} :
          IF outcome \in Callbacks
          THEN /\ status' = [status EXCEPT ![t] = outcome]
               /\ Goto(t, "callback", 0)
               /\ UNCHANGED permits
          ELSE Settle(t, outcome)

CallbackEnds(t) ==
  /\ phase[t] = "callback"
  /\ Settle(t, status[t])

\* CancelledError reaches the coroutine.  Before its first step and inside
\* acquire() nothing catches it: cancel() has recorded the end already.
DeliverCancel(t) ==
  /\ t \in requested
  /\ \/ /\ phase[t] \in {"created", "sem"}
        /\ Goto(t, "ended", 0)
        /\ UNCHANGED <<status, permits>>
     \/ phase[t] = "dep" /\ ~(keepsResult /\ DepResolved(t)) /\ Settle(t, "CANCELLED")
     \/ phase[t] = "delegating" /\ Settle(t, "CANCELLED")
     \/ phase[t] = "returned" /\ ~keepsResult /\ Settle(t, "CANCELLED")

-----------------------------------------------------------------------------
(* Calls of the agent's tools *)

Spawn(t) ==
  /\ t \notin Known
  /\ spawned' = Append(spawned, t)
  /\ phase' = [phase EXCEPT ![t] = "created"]
  /\ UNCHANGED <<status, at, requested, resolved, permits, results, calls>>

CancellableUntilEnded(t) == t \in Known /\ phase[t] # "ended"
Cancellable(t) == t \in Known /\ status[t] \notin Terminal

Cancel(t) ==
  /\ Cancellable(t)
  /\ status' = [status EXCEPT ![t] = "CANCELLED"]
  /\ requested' = requested \cup {t}
  /\ Resolve(t)
  /\ UNCHANGED <<spawned, phase, at, permits, results>>

\* The agent receives the tasks of a set, which become consumed.
Receive(c, set) ==
  /\ consumed' = consumed \cup set
  /\ received' = received \cup {t \in set : status[t] \in Terminal}
  /\ calls' = [calls EXCEPT ![c] = Idle]

FreshUnfinished == {t \in Known : t \notin consumed}
Fresh == {t \in Known : status[t] \in Terminal /\ t \notin consumed}

\* get_completed_results(consume=True), alone or at the start of wait_any.
Collect(c) ==
  /\ calls[c].op = "idle"
  /\ Receive(c, Fresh)
  /\ UNCHANGED <<tasks, unfinished>>

WaitAny(c) ==
  /\ calls[c].op = "idle" /\ Fresh = {}
  /\ calls' = [calls EXCEPT ![c] = [Idle EXCEPT !.op = "any"]]
  /\ UNCHANGED <<tasks, results>>

\* Woken by the event, or timed out.
WaitAnyReturns(c) ==
  /\ calls[c].op = "any"
  /\ Receive(c, Fresh)
  /\ UNCHANGED <<tasks, unfinished>>

WaitAll(c) == \E ids \in (SUBSET Known) \ {{}} :
  /\ calls[c].op = "idle"
  /\ IF ids \subseteq resolved
     THEN Receive(c, ids) /\ UNCHANGED unfinished
     ELSE /\ calls' = [calls EXCEPT ![c] = [Idle EXCEPT !.op = "all", !.ids = ids]]
          /\ UNCHANGED results
  /\ UNCHANGED tasks

\* Timed out or not, wait_all marks and returns every task it was asked for.
WaitAllReturns(c) ==
  /\ calls[c].op = "all"
  /\ Receive(c, calls[c].ids)
  /\ unfinished' = unfinished \cup (calls[c].ids \ resolved)
  /\ UNCHANGED tasks

\* The conversation is stopped; shield() keeps the tasks out of it.
Abort(c) ==
  /\ calls[c].op # "idle"
  /\ calls' = [calls EXCEPT ![c] = Idle]
  /\ UNCHANGED <<tasks, results>>

-----------------------------------------------------------------------------
Background(t) == \/ Start(t) \/ DepDone(t) \/ DepTimeout(t) \/ Acquire(t)
                 \/ DelegateEnds(t) \/ RunTimeout(t) \/ Resume(t)
                 \/ CallbackEnds(t) \/ DeliverCancel(t)

Tool(c) == \/ Collect(c) \/ WaitAny(c) \/ WaitAnyReturns(c)
           \/ WaitAll(c) \/ WaitAllReturns(c) \/ Abort(c)

Next ==
  /\ UNCHANGED keepsResult
  /\ \/ \E t \in Tasks : Spawn(t) \/ Cancel(t) \/ Background(t)
     \/ \E c \in Callers : Tool(c)

Spec == Init /\ [][Next]_vars

\* The event loop resumes every coroutine that can run; wait_for bounds each
\* of its waits and the callback comes back.  Tool calls are not fair.
FairSpec == /\ Spec
            /\ \A t \in Tasks : WF_vars(Background(t) /\ UNCHANGED keepsResult)

-----------------------------------------------------------------------------
(* The manager as an executor of tasks, see TaskExecutor *)

EndOf == [t \in Tasks |-> IF status[t] \in Terminal THEN status[t] ELSE "OPEN"]
WorkingOf == {t \in Tasks : phase[t] \in Holding}

Executor == INSTANCE TaskExecutor WITH
  late <- keepsResult, order <- spawned, end <- EndOf, working <- WorkingOf,
  announced <- resolved, told <- received

-----------------------------------------------------------------------------
(* Properties *)

\* Every variable has its type; in particular permits stays in its range.
TypeOK ==
  /\ keepsResult \in BOOLEAN
  /\ spawned \in Seq(Tasks)
  /\ status \in [Tasks -> {"PENDING", "RUNNING"} \cup Terminal]
  /\ phase \in [Tasks -> Phases]
  /\ at \in [Tasks -> Nat]
  /\ requested \subseteq Tasks
  /\ resolved \subseteq Tasks
  /\ permits \in 0 .. MaxConcurrent
  /\ consumed \subseteq Tasks
  /\ received \subseteq Tasks
  /\ unfinished \subseteq Tasks
  /\ calls \in [Callers -> Call]

\* The semaphore neither leaks nor gains a permit, on whatever path a task
\* leaves: max_concurrent tasks run at most, and as many always can.
PermitsBalanced ==
  permits + Cardinality({t \in Tasks : phase[t] \in Holding}) = MaxConcurrent

\* A task gets to the semaphore only when every dependency that was known
\* when it was spawned has completed, and nothing undoes that later.
DepsHonoured == \A t \in Tasks : phase[t] \in Holding \cup {"sem"} =>
  \A i, j \in DOMAIN spawned :
    (i < j /\ spawned[j] = t /\ \E k \in DOMAIN Deps[t] : Deps[t][k] = spawned[i])
      => status[spawned[i]] = "COMPLETED"

\* The future and the status agree: a done future means a terminal status,
\* which is what wait_all and the dependents read after waiting for it, and
\* a coroutine that is gone, cancelled before its first step included, has
\* left its future done.
FutureMeansTerminal == \A t \in Tasks :
  /\ t \in resolved => status[t] \in Terminal
  /\ phase[t] = "ended" => t \in resolved

\* From Python 3.12 on, a terminal status is final: no cancellation, timeout
\* or late result overwrites the end that dependents and the agent may have
\* acted upon.  Before, a result can overwrite the CANCELLED of cancel().
StatusFinal == [][~keepsResult => \A t \in Tasks :
  status[t] \in Terminal => status'[t] = status[t]]_vars

\* The manager is an executor, see TaskExecutor: a task is worked on once, at
\* most MaxConcurrent are, none before its dependencies, and the end of each
\* is known when it is announced and changes only from CANCELLED, only where
\* wait_for keeps a late result.
ImplementsExecutor == Executor!Spec

\* Every consumed task that has ended was handed to the agent with that end,
\* unless a wait_all that timed out took it before: no two calls split a
\* task between them so that one marks it and neither returns it.
EndIsReceived == \A t \in consumed \ unfinished :
  phase[t] = "ended" => t \in received

\* A waiting wait_any that has not been woken misses nothing: every task
\* with a done future is consumed, whatever other calls took or cleared.
NoMissedWakeup == \A c \in Callers :
  calls[c].op = "any" /\ ~calls[c].woken => resolved \subseteq consumed

\* Every spawned task ends, tasks that depend on each other included.
EveryTaskEnds == \A t \in Tasks : phase[t] # "none" ~> phase[t] = "ended"
=============================================================================
