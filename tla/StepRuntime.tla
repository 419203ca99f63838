---------------------------- MODULE StepRuntime ----------------------------
(***************************************************************************)
(* The v2 agent runtime of derisk-core: run_loop, run_step and resume_step *)
(* with the permission gate, the event stream and the state store, for one *)
(* conversation.                                                           *)
(*                                                                         *)
(* The store outlives the process: the log of step events, the state kept  *)
(* of each step, and the checkpoints of questions to the user, each        *)
(* written by a commit of its own.  An action is the code between two such *)
(* commits or other awaits, and the process may crash between any two.     *)
(* The generator of a step has one consumer: run_loop, which leaves it at  *)
(* the first event that waits for somebody, or a host that drains it, as   *)
(* the sub-agent runtime does.                                             *)
(***************************************************************************)
EXTENDS Integers, Sequences, FiniteSets

CONSTANTS
  Calls,       \* tool calls the model may ask for
  Rule,        \* Calls -> what the permission gate says of a call it has no
               \* grant for; "spawn": intercepted, goes to the sub-agents
  MaxRounds,   \* max_steps of run_loop
  MaxSteps,    \* bound: steps started
  MaxCalls,    \* bound: calls of one step
  MaxLog,      \* bound: length of the log that thinking and resuming respect
  MaxCrashes   \* bound: crashes of the process

ASSUME RuntimeAssumption ==
  /\ Rule \in [Calls -> {"allow", "deny", "ask", "spawn"}]
  /\ MaxRounds \in Nat \ {0} /\ MaxSteps \in Nat /\ MaxCalls \in Nat
  /\ MaxLog \in Nat /\ MaxCrashes \in Nat

VARIABLES
  adapter,   \* the gate has an interaction adapter, fixed by the agent
  log,       \* rows of step_event, in the order of their insertion
  snap,      \* rows of step_state: step -> state, "none" without a row
  asks,      \* rows of interaction_checkpoint: <<step, number of the question>>
  started,   \* steps created
  asked,     \* questions numbered
  crashes,   \* crashes so far
  pc,        \* the await the run stands at
  driver,    \* who consumes the run: "loop" or "host"
  step,      \* the step that runs or ran last
  rounds,    \* step_count of run_loop
  tracked,   \* _step_state_tracker of the step, "none" when popped
  seq,       \* next seq of emit()
  behind,    \* the last event is in the log and not yet in step_state
  todo,      \* calls of the step not dealt with
  cache,     \* SessionPermissionCache
  said       \* what the user said of a call in this life of the process

store == <<log, snap, asks>>
run == <<driver, step, rounds, seq, tracked, behind>>
vars == <<adapter, store, started, asked, crashes, pc, run, todo, cache, said>>

Steps == 1 .. MaxSteps
Awaiting == {"awaiting_user", "awaiting_permission", "awaiting_sub_agent"}
States == {"init", "thinking", "acting", "observing", "done"} \cup Awaiting
Waits == {"idle", "think", "calls", "saved", "waiting", "granted", "cleared",
          "refused", "acting", "subagent", "round"}
Answers == {"allow_once", "allow_session", "deny"}

\* VALID_TRANSITIONS; FAILED, which nothing in the runtime emits, is left out.
Legal(from) ==
  CASE from = "init" -> {"thinking", "awaiting_user"}
    [] from = "thinking" -> {"acting", "done"} \cup Awaiting
    [] from = "acting" -> {"observing", "done"} \cup Awaiting
    [] from = "observing" -> {"thinking", "acting", "done"}
    [] from = "awaiting_user" -> {"thinking"}
    [] from = "awaiting_permission" -> {"acting"}
    [] from = "awaiting_sub_agent" -> {"observing"}
    [] OTHER -> {}

Init ==
  /\ adapter \in BOOLEAN
  /\ log = <<>>
  /\ snap = [s \in Steps |-> "none"]
  /\ asks = {}
  /\ started = 0 /\ asked = 0 /\ crashes = 0
  /\ pc = "idle" /\ driver = "host" /\ step = 0 /\ rounds = 0
  /\ tracked = "none" /\ seq = 0 /\ behind = FALSE
  /\ todo = <<>>
  /\ cache = {}
  /\ said = [c \in Calls |-> "none"]

-----------------------------------------------------------------------------
(* Events.  A definition PROJECT.json names as the mutant of another stands  *)
(* before it and is used by nothing else.                                   *)

\* _validate_and_track_transition
Allowed(st) == tracked \in {"none", st} \/ st \in Legal(tracked)

\* emit() up to the commit of append_event, for an allowed transition.
Emit(st, then) ==
  /\ Allowed(st)
  /\ log' = Append(log, [step |-> step, state |-> st, seq |-> seq])
  /\ tracked' = st
  /\ seq' = seq + 1
  /\ behind' = TRUE
  /\ pc' = then
  /\ UNCHANGED <<snap, driver, step, rounds, started>>

\* The generator raises, or its consumer closes it.
Leave ==
  /\ pc' = "idle"
  /\ todo' = <<>>

\* emit() raises IllegalTransitionError.
EmitRaises(st) ==
  /\ ~Allowed(st)
  /\ Leave
  /\ UNCHANGED <<store, run, started, asked, cache, said>>

\* Standing at wait with the last event stored.
At(wait) == pc = wait /\ ~behind

\* The event goes to the consumer before it is stored.
StoresLate ==
  /\ behind
  /\ behind' = FALSE
  /\ IF driver = "loop" /\ tracked \in Awaiting
     THEN Leave /\ UNCHANGED snap
     ELSE snap' = [snap EXCEPT ![step] = tracked] /\ UNCHANGED <<pc, todo>>
  /\ UNCHANGED <<log, asks, started, asked, driver, step, rounds, seq, tracked, cache, said>>
\* set_step_state commits, and the event goes to the consumer; run_loop
\* leaves at a state that waits.
StoreState ==
  /\ behind
  /\ snap' = [snap EXCEPT ![step] = tracked]
  /\ behind' = FALSE
  /\ IF driver = "loop" /\ tracked \in Awaiting THEN Leave ELSE UNCHANGED <<pc, todo>>
  /\ UNCHANGED <<log, asks, started, asked, driver, step, rounds, seq, tracked, cache, said>>

-----------------------------------------------------------------------------
(* Starting a run *)

\* A run of step s begins: emit() knows nothing of the step yet.
Begin(d, s, n, count, st, then) ==
  /\ driver' = d
  /\ step' = s
  /\ rounds' = count
  /\ log' = Append(log, [step |-> s, state |-> st, seq |-> n])
  /\ tracked' = st
  /\ seq' = n + 1
  /\ behind' = TRUE
  /\ pc' = then
  /\ todo' = <<>>
  /\ UNCHANGED <<snap, asks, asked, cache, said>>

\* run_step: a new step, whose events count from 0.
NewStep(d, count) ==
  /\ started < MaxSteps
  /\ started' = started + 1
  /\ Begin(d, started', 0, count, "init", "think")

\* run_loop, or run_step for a host that drains it.
StartTurn(d) ==
  /\ At("idle")
  /\ NewStep(d, 0)

HadCall == \E i \in DOMAIN log : log[i].step = step /\ log[i].state = "acting"

\* The step is done; run_loop goes on after a step with tool calls.
GoesOn == driver = "loop" /\ HadCall /\ rounds + 1 < MaxRounds

NextRound ==
  /\ At("round") /\ GoesOn
  /\ NewStep("loop", rounds + 1)

TurnEnds ==
  /\ At("round") /\ ~GoesOn
  /\ Leave
  /\ UNCHANGED <<store, run, started, asked, cache, said>>

\* get_events sorts by seq; rows of one seq come in the order of insertion.
Latest == CHOOSE i \in DOMAIN log : \A k \in DOMAIN log :
  log[k].seq < log[i].seq \/ (log[k].seq = log[i].seq /\ k <= i)

ResumeSeqZero == 0
ResumeSeqRepeats == log[Latest].seq
\* existing[-1].seq + 1
ResumeSeq == log[Latest].seq + 1

\* resume_step of the step decide_resume_action names.  For one that is done
\* it is run_step (StartTurn).
Resume ==
  /\ At("idle")
  /\ log # <<>> /\ Len(log) < MaxLog
  /\ log[Latest].state # "done"
  /\ LET s == log[Latest].step
     IN  IF snap[s] \in Awaiting
         THEN Begin("host", s, ResumeSeq, 0, snap[s], "idle")
         ELSE Begin("host", s, ResumeSeq, 0, "init", "think")
  /\ UNCHANGED started

-----------------------------------------------------------------------------
(* Thinking *)

\* A chunk of thinking_fn: tokens, or tool calls too.
Think ==
  /\ At("think") /\ Len(log) < MaxLog
  /\ Emit("thinking", "think")
  /\ \/ UNCHANGED todo
     \/ Len(todo) < MaxCalls /\ \E c \in Calls : todo' = Append(todo, c)
  /\ UNCHANGED <<asks, asked, cache, said>>

\* An AwaitUserChunk suspends the step.
AwaitUser ==
  /\ At("think")
  /\ Emit("awaiting_user", "idle")
  /\ todo' = <<>>
  /\ UNCHANGED <<asks, asked, cache, said>>

ThinkingEnds ==
  /\ At("think")
  /\ pc' = "calls"
  /\ UNCHANGED <<store, run, started, asked, todo, cache, said>>

\* A grant for once is used up by the call it was given for.
UseGrant == [said EXCEPT ![Head(todo)] = IF @ = "allow_once" THEN "none" ELSE @]

\* thinking_fn, acting_fn, the adapter or the sub-agent runtime raises.
Raises ==
  /\ pc \in {"think", "waiting", "acting", "subagent"} /\ ~behind
  /\ Leave
  /\ said' = IF pc = "acting" THEN UseGrant ELSE said
  /\ UNCHANGED <<store, run, started, asked, cache>>

-----------------------------------------------------------------------------
(* Acting: the loop over the calls *)

StepDone ==
  /\ At("calls") /\ todo = <<>>
  /\ \/ Emit("done", "round") /\ UNCHANGED <<asks, asked, todo, cache, said>>
     \/ EmitRaises("done")

Call == Head(todo)
Next1 == todo' = Tail(todo)
AtCall == At("calls") /\ todo # <<>>

SpawnSubAgent ==
  /\ AtCall /\ Rule[Call] = "spawn"
  /\ \/ /\ Emit("awaiting_sub_agent", "subagent")
        /\ UNCHANGED <<asks, asked, todo, cache, said>>
     \/ EmitRaises("awaiting_sub_agent")

\* spawn() has returned the handle.
SubAgentSpawned ==
  /\ At("subagent")
  /\ Emit("observing", "calls")
  /\ Next1
  /\ UNCHANGED <<asks, asked, cache, said>>

\* The gate lets the call pass, by its mode, rules or a grant of the session.
Passes == Rule[Call] = "allow" \/ (Rule[Call] = "ask" /\ Call \in cache)

Pass ==
  /\ \/ AtCall /\ Passes
     \/ At("cleared")
  /\ Emit("acting", "acting")
  /\ UNCHANGED <<asks, asked, todo, cache, said>>

\* The refusal is recorded as a tool_call event.
Refuse ==
  /\ \/ AtCall /\ Rule[Call] = "deny"
     \/ At("refused")
  /\ Emit("acting", "calls")
  /\ Next1
  /\ UNCHANGED <<asks, asked, cache, said>>

\* The checkpoint is saved before the question is in the log.
Ask ==
  /\ AtCall /\ Rule[Call] = "ask" /\ ~Passes
  /\ IF adapter
     THEN /\ asked' = asked + 1
          /\ asks' = asks \cup {<<step, asked'>>}
          /\ pc' = "saved"
          /\ UNCHANGED todo
     ELSE Leave /\ UNCHANGED <<asks, asked>>
  /\ UNCHANGED <<log, snap, run, started, cache, said>>

Question ==
  /\ At("saved")
  /\ \/ /\ Emit("awaiting_permission", "waiting")
        /\ UNCHANGED <<asks, asked, todo, cache, said>>
     \/ EmitRaises("awaiting_permission")

ThisAsk == {<<step, asked>>}

CachesEveryGrant(answer) ==
  IF answer = "deny" THEN cache \ {Call} ELSE cache \cup {Call}
CacheAfter(answer) ==
  CASE answer = "allow_session" -> cache \cup {Call}
    [] answer = "deny" -> cache \ {Call}
    [] OTHER -> cache

\* request_tool_permission returns; the gate deletes the checkpoint of a denial.
Answer(answer) ==
  /\ At("waiting")
  /\ said' = [said EXCEPT ![Call] = answer]
  /\ cache' = CacheAfter(answer)
  /\ IF answer = "deny"
     THEN asks' = asks \ ThisAsk /\ pc' = "refused"
     ELSE pc' = "granted" /\ UNCHANGED asks
  /\ UNCHANGED <<log, snap, run, started, asked, todo>>

KeepCheckpoint ==
  /\ At("granted")
  /\ pc' = "cleared"
  /\ UNCHANGED <<store, run, started, asked, todo, cache, said>>
\* The runtime deletes the checkpoint of a grant, before the call is logged.
DeleteCheckpoint ==
  /\ At("granted")
  /\ asks' = asks \ ThisAsk
  /\ pc' = "cleared"
  /\ UNCHANGED <<log, snap, run, started, asked, todo, cache, said>>

\* acting_fn returns.
Executed ==
  /\ At("acting")
  /\ Emit("observing", "calls")
  /\ Next1
  /\ said' = UseGrant
  /\ UNCHANGED <<asks, asked, cache>>

-----------------------------------------------------------------------------
\* The process is lost and started again: only the store is left.
Crash ==
  /\ crashes < MaxCrashes
  /\ crashes' = crashes + 1
  /\ Leave
  /\ tracked' = "none" /\ behind' = FALSE
  /\ cache' = {}
  /\ said' = [c \in Calls |-> "none"]
  /\ UNCHANGED <<adapter, store, started, asked, driver, step, rounds, seq>>

Runtime ==
  \/ StoreState \/ NextRound \/ TurnEnds
  \/ Think \/ AwaitUser \/ ThinkingEnds \/ Raises
  \/ StepDone \/ SpawnSubAgent \/ SubAgentSpawned
  \/ Pass \/ Refuse \/ Ask \/ Question \/ DeleteCheckpoint \/ Executed
  \/ \E answer \in Answers : Answer(answer)

Next ==
  \/ /\ UNCHANGED <<adapter, crashes>>
     /\ \/ Runtime
        \/ Resume
        \/ \E d \in {"loop", "host"} : StartTurn(d)
  \/ Crash

Spec == Init /\ [][Next]_vars

-----------------------------------------------------------------------------
(* Properties *)

Event == [step : Steps, state : States, seq : Nat]

TypeOK ==
  /\ adapter \in BOOLEAN
  /\ log \in Seq(Event)
  /\ snap \in [Steps -> States \cup {"none"}]
  /\ asks \subseteq Steps \X Nat
  /\ started \in 0 .. MaxSteps /\ asked \in Nat /\ crashes \in 0 .. MaxCrashes
  /\ pc \in Waits /\ driver \in {"loop", "host"}
  /\ step \in 0 .. MaxSteps /\ rounds \in Nat
  /\ tracked \in States \cup {"none"} /\ seq \in Nat /\ behind \in BOOLEAN
  /\ todo \in Seq(Calls)
  /\ cache \subseteq Calls
  /\ said \in [Calls -> Answers \cup {"none"}]

\* Nothing follows the done event of a step: recovery, which looks for the
\* event with the highest seq, never runs again a step that has ended.
DoneIsFinal == \A i, k \in DOMAIN log :
  i < k /\ log[i].step = log[k].step => log[i].state # "done"

\* The events of a step, its runs and restarts together, are in the order of
\* their seq: sorting by seq replays the step as it happened.
ReplayInOrder == \A i, k \in DOMAIN log :
  i < k /\ log[i].step = log[k].step => log[i].seq < log[k].seq

Rows(s) == {i \in DOMAIN log : log[i].step = s}
After(i) == {k \in Rows(log[i].step) : i < k}
Storing(s) == IF behind /\ s = step THEN 1 ELSE 0

\* step_state, which resume_step goes by, is behind the events of the step by
\* the one being stored and by at most one for every crash.
StateIsRecent == \A s \in Steps :
  \/ snap[s] = "none" /\ Cardinality(Rows(s)) <= Storing(s) + crashes
  \/ \E i \in Rows(s) : /\ snap[s] = log[i].state
                        /\ Cardinality(After(i)) <= Storing(s) + crashes

\* A call the rules leave to the user runs only on what the user said of it:
\* a grant for once lets it run once, whatever was cached, crashed or redone.
RunsAsGranted ==
  pc = "acting" /\ Rule[Call] = "ask" => said[Call] \in {"allow_once", "allow_session"}

\* A step that went to its end in one run leaves no question open, as the test
\* of the runtime says ("no interaction_checkpoint should remain"); one that was
\* run again may end over the question of the run before.
DoneLeavesNoAsk == \A a \in asks :
  (\E i \in Rows(a[1]) : log[i].state = "done")
    => \E i, k \in Rows(a[1]) : i # k /\ log[i].state = "init" /\ log[k].state = "init"

\* Recovery reads the events to find the last step: the one whose event came
\* last.
RecoveryFindsLastStep == log # <<>> => log[Latest].step = log[Len(log)].step
=============================================================================
