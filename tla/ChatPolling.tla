---------------------------- MODULE ChatPolling ----------------------------
(***************************************************************************)
(* The polling hook of the web client, hooks/use-chat-polling.ts: it asks  *)
(* the server for the status of a conversation whenever the conversation   *)
(* or `enabled' changes, and while the answer is RUNNING asks again on a   *)
(* timer.                                                                  *)
(*                                                                         *)
(* What makes it hard is that a request in flight outlives the render that *)
(* sent it.  Its continuation runs with the conversation of that render,   *)
(* while the timer it starts or stops is the one held by the single        *)
(* intervalRef of the component.                                           *)
(*                                                                         *)
(* A render and its passive effects are two steps: React runs the effects  *)
(* after the commit and before it renders again.                           *)
(***************************************************************************)
EXTENDS Naturals

CONSTANTS
  Conv,          \* conversations the user can open
  NoConv,        \* no conversation yet: convUid is '' or undefined
  MaxRequests,   \* bound: status requests in flight at one time
  MaxIntervals   \* bound: timers alive at one time

ASSUME PollingAssumption ==
  /\ NoConv \notin Conv
  /\ MaxRequests \in Nat \ {0}
  /\ MaxIntervals \in Nat \ {0}

VARIABLES
  mounted,       \* mountedRef
  rendered,      \* what the last render closed over: convId, enabled, isPolling
  effected,      \* the dependencies its effects last ran with
  isPolling,     \* state of the hook
  state,         \* state of the hook: the status the last answer carried
  intervals,     \* the conversation each live timer polls, NoConv: no timer
  intervalRef,   \* the timer the component can clear
  requests       \* status requests in flight

pollVars == <<mounted, rendered, effected, isPolling, state,
              intervals, intervalRef, requests>>

Request  == 1..MaxRequests
Interval == 1..MaxIntervals

NoInterval == 0

Props == [convId : Conv \cup {NoConv}, enabled : BOOLEAN, isPolling : BOOLEAN]

(***************************************************************************)
(* An answer: the status of the conversation when the server looked, or    *)
(* "null" for an answer without data and "error" for a failed request.     *)
(* COMPLETE stands for every status that is not RUNNING.                   *)
(***************************************************************************)
Statuses   == {"RUNNING", "COMPLETE"}
Unanswered == "pending"
NoAnswer   == {"null", "error"}

Ask(c, why) == [convId |-> c, why |-> why, answer |-> Unanswered]
NoRequest   == Ask(NoConv, "none")

\* Here and in SceneChat, a definition that only a mutant of the run uses
\* stands before the one it varies.
OverWithAnyResult(answer) == answer \notin NoAnswer
\* result && result.state !== 'RUNNING'
Over(answer) == answer # "RUNNING" /\ answer \notin NoAnswer

PollInit(c) ==
  /\ mounted = TRUE
  /\ rendered = [convId |-> c, enabled |-> TRUE, isPolling |-> FALSE]
  /\ effected = [convId |-> NoConv, enabled |-> FALSE, isPolling |-> FALSE]
  /\ isPolling = FALSE
  /\ state = "UNKNOWN"
  /\ intervals = [i \in Interval |-> NoConv]
  /\ intervalRef = NoInterval
  /\ requests = [r \in Request |-> NoRequest]

\* The state of a component that has gone is dropped; setState does nothing then.
SetPolling(b) == isPolling' = (mounted /\ b)

StopPolling ==
  /\ intervals' = [i \in Interval |-> IF i = intervalRef THEN NoConv ELSE intervals[i]]
  /\ intervalRef' = NoInterval
  /\ SetPolling(FALSE)

StartInterval(c) ==
  \E i \in Interval :
    /\ intervals[i] = NoConv
    /\ \A j \in Interval : intervals[j] = NoConv => i <= j
    /\ intervals' = [intervals EXCEPT ![i] = c]
    /\ intervalRef' = i

Issue(ask) ==
  \E r \in Request :
    /\ requests[r] = NoRequest
    /\ \A q \in Request : requests[q] = NoRequest => r <= q
    /\ requests' = [requests EXCEPT ![r] = ask]

-----------------------------------------------------------------------------
Render(convId, enabled) ==
  /\ mounted
  /\ rendered = effected
  /\ rendered' = [convId |-> convId, enabled |-> enabled, isPolling |-> isPolling]
  /\ rendered' # rendered
  /\ UNCHANGED <<mounted, effected, isPolling, state, intervals, intervalRef, requests>>

(***************************************************************************)
(* The effects of a commit: the cleanup of the conversation effect and the *)
(* "not enabled" effect stop the polling, then the conversation effect     *)
(* asks for the status.                                                    *)
(***************************************************************************)
DepsChanged ==
  \/ effected.convId # rendered.convId
  \/ effected.enabled # rendered.enabled

RunEffects ==
  /\ mounted
  /\ effected # rendered
  /\ effected' = rendered
  /\ IF DepsChanged \/ (~rendered.enabled /\ rendered.isPolling)
       THEN StopPolling
       ELSE UNCHANGED <<intervals, intervalRef, isPolling>>
  /\ IF DepsChanged /\ rendered.enabled /\ rendered.convId # NoConv
       THEN Issue(Ask(rendered.convId, "effect"))
       ELSE UNCHANGED requests
  /\ UNCHANGED <<mounted, rendered, state>>

Unmount ==
  /\ mounted
  /\ mounted' = FALSE
  /\ StopPolling
  /\ state' = "UNKNOWN"
  /\ rendered' = [convId |-> NoConv, enabled |-> FALSE, isPolling |-> FALSE]
  /\ effected' = rendered'
  /\ UNCHANGED requests

Tick(i) ==
  /\ intervals[i] # NoConv
  /\ Issue(Ask(intervals[i], "tick"))
  /\ UNCHANGED <<mounted, rendered, effected, isPolling, state, intervals, intervalRef>>

-----------------------------------------------------------------------------
(***************************************************************************)
(* The request r returns to checkStatus and to the continuation that       *)
(* awaited it.                                                             *)
(***************************************************************************)
CheckStatus(answer) ==
  state' = CASE ~mounted \/ answer = "null" -> state
             [] answer = "error"            -> "UNKNOWN"
             [] OTHER                       -> answer

Return(r) == requests' = [requests EXCEPT ![r] = NoRequest]

\* checkStatus().then(...) of the conversation effect: startPolling() of that render
EffectReturns(r) ==
  /\ requests[r].why = "effect"
  /\ IF requests[r].answer = "RUNNING"
       THEN /\ SetPolling(TRUE)
            /\ requests' = [requests EXCEPT ![r] = Ask(requests[r].convId, "start")]
       ELSE /\ Return(r)
            /\ UNCHANGED isPolling
  /\ UNCHANGED <<intervals, intervalRef>>

StartReturnsFlagKept(r) ==
  /\ requests[r].why = "start"
  /\ Return(r)
  /\ UNCHANGED isPolling
  /\ IF Over(requests[r].answer)
       THEN UNCHANGED <<intervals, intervalRef>>
       ELSE StartInterval(requests[r].convId)
\* checkStatus().then(...) of startPolling
StartReturns(r) ==
  /\ requests[r].why = "start"
  /\ Return(r)
  /\ IF Over(requests[r].answer)
       THEN SetPolling(FALSE) /\ UNCHANGED <<intervals, intervalRef>>
       ELSE StartInterval(requests[r].convId) /\ UNCHANGED isPolling

\* the callback of setInterval
TickReturns(r) ==
  /\ requests[r].why = "tick"
  /\ Return(r)
  /\ IF Over(requests[r].answer)
       THEN StopPolling
       ELSE UNCHANGED <<intervals, intervalRef, isPolling>>

StatusReturns(r) ==
  /\ requests[r].answer # Unanswered
  /\ CheckStatus(requests[r].answer)
  /\ EffectReturns(r) \/ StartReturns(r) \/ TickReturns(r)
  /\ UNCHANGED <<mounted, rendered, effected>>

-----------------------------------------------------------------------------
PollTypeOK ==
  /\ mounted \in BOOLEAN
  /\ rendered \in Props
  /\ effected \in Props
  /\ isPolling \in BOOLEAN
  /\ state \in {"UNKNOWN"} \cup Statuses
  /\ intervals \in [Interval -> Conv \cup {NoConv}]
  /\ intervalRef \in Interval \cup {NoInterval}
  /\ requests \in [Request -> [convId : Conv \cup {NoConv},
                               why : {"none", "effect", "start", "tick"},
                               answer : {Unanswered} \cup NoAnswer \cup Statuses]]
=============================================================================
