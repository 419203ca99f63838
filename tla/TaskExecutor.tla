---------------------------- MODULE TaskExecutor ----------------------------
(***************************************************************************)
(* What the task manager promises the agent and the tasks that depend on   *)
(* others, without coroutines, awaits, cancellation requests or a          *)
(* semaphore: it works on MaxConcurrent tasks at a time, on each once and  *)
(* only with its dependencies completed; every task gets one end, which is *)
(* there when it is announced; and nothing leaves its work unannounced.    *)
(* One exception is part of the promise: where a result may come late      *)
(* (Python before 3.12) it overrules CANCELLED, announced or not.          *)
(* AsyncTasks is shown to implement this module.                           *)
(***************************************************************************)
EXTENDS Naturals, Sequences, FiniteSets

CONSTANTS Tasks, Deps, MaxConcurrent

VARIABLES
  late,       \* a result may come after a cancellation
  order,      \* the tasks accepted, in this order
  end,        \* Tasks -> its end, or Open
  working,    \* the tasks being worked on
  announced,  \* tasks whose end those who wait for it have been told of
  told        \* tasks whose end the agent has been given

xvars == <<late, order, end, working, announced, told>>

Open == "OPEN"
Ends == {"COMPLETED", "FAILED", "TIMEOUT", "CANCELLED"}
Accepted == {order[i] : i \in DOMAIN order}

Init ==
  /\ late \in BOOLEAN
  /\ order = <<>>
  /\ end = [t \in Tasks |-> Open]
  /\ working = {}
  /\ announced = {}
  /\ told = {}

Accept(t) ==
  /\ t \notin Accepted
  /\ order' = Append(order, t)
  /\ UNCHANGED <<end, working, announced, told>>

\* What t depends on and was accepted before t has completed.
Ready(t) == \A i, j \in DOMAIN order :
  i < j /\ order[j] = t /\ (\E k \in DOMAIN Deps[t] : Deps[t][k] = order[i])
    => end[order[i]] = "COMPLETED"

Begin(t) ==
  /\ t \in Accepted \ working /\ end[t] = Open
  /\ Ready(t)
  /\ Cardinality(working) < MaxConcurrent
  /\ working' = working \cup {t}
  /\ UNCHANGED <<order, end, announced, told>>

\* The end of t is known, is announced, or its work is over, or several of
\* these.  A task that nobody works on is never completed.
Conclude(t, e) ==
  /\ t \in Accepted
  /\ end[t] \in {Open, e} \/ (late /\ end[t] = "CANCELLED")
  /\ e = "COMPLETED" => t \in working
  /\ end' = [end EXCEPT ![t] = e]
  /\ announced' \in {announced, announced \cup {t}}
  /\ working' \in {working, working \ {t}}
  /\ t \in working \ working' => t \in announced'
  /\ UNCHANGED <<order, told>>

Tell(some) ==
  /\ \A t \in some : end[t] # Open
  /\ told' = told \cup some
  /\ UNCHANGED <<order, end, working, announced>>

Next ==
  /\ UNCHANGED late
  /\ \/ \E t \in Tasks : Accept(t) \/ Begin(t) \/ \E e \in Ends : Conclude(t, e)
     \/ \E some \in SUBSET Tasks : Tell(some)

Spec == Init /\ [][Next]_xvars
=============================================================================
