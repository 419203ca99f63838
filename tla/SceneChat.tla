----------------------------- MODULE SceneChat -----------------------------
(***************************************************************************)
(* The chat of a scene workspace: useSceneAgentChat and AgentWorkspace in  *)
(* app/workspaces/detail, over the polling hook (ChatPolling) and the      *)
(* event stream of hooks/use-chat.ts.                                      *)
(*                                                                         *)
(* A snapshot of a conversation is told by the status the conversation     *)
(* had when it was taken: RUNNING, part of the content, or COMPLETE, all   *)
(* of it.  The view holds for each conversation the snapshot merged last,  *)
(* since merging overrides the steps a snapshot carries, by id, and keeps  *)
(* those of the others.                                                    *)
(*                                                                         *)
(* The server is the environment: it runs conversations, answers status    *)
(* requests with what it has when it sees them, and feeds the streams.     *)
(***************************************************************************)
EXTENDS ChatPolling, FiniteSets

CONSTANTS
  MaxInputs,     \* bound: messages sent and conversations opened, together
  MaxLost        \* bound: status requests that fail or find no data

ASSUME SceneAssumption == MaxInputs \in Nat /\ MaxLost \in Nat

VARIABLES
  convUid,            \* the prop: the conversation the shell shows
  loading,            \* state: a stream is believed to be running
  view,               \* workspaceView: the snapshot merged last of each conversation
  optimistic,         \* workspaceView: messages shown before the server echoed them
  optimisticUserRef,  \* the one an echo removes, 0: none
  streams,            \* the stream of each message sent, while it lasts
  heard,              \* bookkeeping: whose steps a stream brought into this view
  sent,               \* messages sent; abortRef is the controller of the last
  switches,           \* conversations opened after the first, counted for MaxInputs
  server,             \* external: status of each conversation
  lost                \* external: bookkeeping of MaxLost

chatVars == <<convUid, loading, view, optimistic, optimisticUserRef,
              streams, heard, sent>>
envVars  == <<server, lost>>
vars     == <<pollVars, chatVars, envVars, switches>>

SendNo == 1..MaxInputs

NoStream == [convId |-> NoConv, status |-> "none", echoed |-> FALSE]

\* fetchEventSource has neither resolved, failed nor been aborted
Live(n) == streams[n] # NoStream

EmptyView == [c \in Conv |-> "none"]

Init ==
  /\ convUid \in Conv \cup {NoConv}
  /\ PollInit(convUid)
  /\ loading = FALSE
  /\ view = EmptyView
  /\ optimistic = {}
  /\ optimisticUserRef = 0
  /\ streams = [n \in SendNo |-> NoStream]
  /\ heard = {}
  /\ sent = 0
  /\ switches = 0
  /\ server \in [Conv -> Statuses]
  /\ lost = 0

-----------------------------------------------------------------------------
(***************************************************************************)
(* The component.                                                          *)
(***************************************************************************)
RenderScene ==
  /\ Render(convUid, ~loading)
  /\ UNCHANGED <<chatVars, envVars, switches>>

ClearView ==
  /\ view' = EmptyView
  /\ heard' = {}
  /\ optimistic' = {}
  /\ optimisticUserRef' = 0

\* The effects of the hook, then AgentWorkspace's own: clearSteps, clearWorkspaceView.
RunSceneEffects ==
  /\ RunEffects
  /\ IF effected.convId # rendered.convId
       THEN ClearView
       ELSE UNCHANGED <<view, heard, optimistic, optimisticUserRef>>
  /\ UNCHANGED <<convUid, loading, streams, sent, envVars, switches>>

\* React drops the state of the component; its streams have nothing left to change.
UnmountScene ==
  /\ Unmount
  /\ ClearView
  /\ loading' = FALSE
  /\ streams' = [n \in SendNo |-> NoStream]
  /\ UNCHANGED <<convUid, sent, envVars, switches>>

SwitchConversation(c) ==
  /\ mounted
  /\ sent + switches < MaxInputs
  /\ c # convUid
  /\ convUid' = c
  /\ switches' = switches + 1
  /\ UNCHANGED <<pollVars, loading, view, optimistic, optimisticUserRef,
                 streams, heard, sent, envVars>>

TickScene(i) ==
  /\ Tick(i)
  /\ UNCHANGED <<chatVars, envVars, switches>>

HandlePollUnfiltered(c, answer) ==
  IF mounted /\ answer \notin NoAnswer
    THEN view' = [view EXCEPT ![c] = answer]
    ELSE UNCHANGED view
\* onPoll: the snapshot of another conversation than the rendered one is dropped
HandlePoll(c, answer) ==
  IF /\ mounted
     /\ answer \notin NoAnswer
     /\ rendered.convId = NoConv \/ c = rendered.convId
    THEN view' = [view EXCEPT ![c] = answer]
    ELSE UNCHANGED view

PollReturns(r) ==
  /\ StatusReturns(r)
  /\ HandlePoll(requests[r].convId, requests[r].answer)
  /\ UNCHANGED <<convUid, loading, optimistic, optimisticUserRef, streams, heard, sent,
                 envVars, switches>>

-----------------------------------------------------------------------------
(***************************************************************************)
(* Sending and the stream.  An abort resolves the promise of               *)
(* fetchEventSource without calling any handler.                           *)
(***************************************************************************)
AbortLast == [n \in SendNo |-> IF n = sent THEN NoStream ELSE streams[n]]

SendMessage ==
  /\ mounted
  /\ rendered.convId # NoConv
  /\ sent + switches < MaxInputs
  /\ sent' = sent + 1
  /\ streams' = [AbortLast EXCEPT ![sent + 1] =
                   [convId |-> rendered.convId, status |-> "connecting", echoed |-> FALSE]]
  /\ loading' = TRUE
  /\ optimistic' = optimistic \cup {sent + 1}
  /\ optimisticUserRef' = sent + 1
  /\ UNCHANGED <<pollVars, convUid, view, heard, envVars, switches>>

StreamOpens(n) ==
  /\ mounted
  /\ streams[n].status = "connecting"
  /\ streams' = [streams EXCEPT ![n].status = "open"]
  /\ server' = [server EXCEPT ![streams[n].convId] = "RUNNING"]
  /\ UNCHANGED <<pollVars, convUid, loading, view, optimistic, optimisticUserRef,
                 heard, sent, lost, switches>>

StreamMessageKeepingOwn(n, echo) ==
  /\ mounted
  /\ streams[n].status = "open"
  /\ streams' = [streams EXCEPT ![n].echoed = @ \/ echo]
  /\ heard' = heard \cup {streams[n].convId}
  /\ view' = [view EXCEPT ![streams[n].convId] = server[streams[n].convId]]
  /\ IF echo THEN optimisticUserRef' = 0 ELSE UNCHANGED optimisticUserRef
  /\ UNCHANGED <<pollVars, convUid, loading, optimistic, sent, envVars, switches>>
\* onMessage: a frame of the stream, with or without the echo of the message
StreamMessage(n, echo) ==
  /\ mounted
  /\ streams[n].status = "open"
  /\ streams' = [streams EXCEPT ![n].echoed = @ \/ echo]
  /\ heard' = heard \cup {streams[n].convId}
  /\ view' = [view EXCEPT ![streams[n].convId] = server[streams[n].convId]]
  /\ IF echo /\ optimisticUserRef = n
       THEN optimistic' = optimistic \ {n} /\ optimisticUserRef' = 0
       ELSE UNCHANGED <<optimistic, optimisticUserRef>>
  /\ UNCHANGED <<pollVars, convUid, loading, sent, envVars, switches>>

\* [DONE], [ERROR] or an error frame: the handler runs, the connection stays open
StreamEvent(n) ==
  /\ mounted
  /\ streams[n].status = "open"
  /\ loading
  /\ loading' = FALSE
  /\ UNCHANGED <<pollVars, convUid, view, optimistic, optimisticUserRef, streams,
                 heard, sent, envVars, switches>>

StreamEndsUnnoticed(n) ==
  /\ mounted
  /\ Live(n)
  /\ streams' = [streams EXCEPT ![n] = NoStream]
  /\ UNCHANGED <<pollVars, convUid, loading, view, optimistic, optimisticUserRef, heard, sent,
                 envVars, switches>>
\* onclose, or the catch of chatV1: the server may go on with the conversation
StreamEnds(n) ==
  /\ mounted
  /\ Live(n)
  /\ streams' = [streams EXCEPT ![n] = NoStream]
  /\ loading' = FALSE
  /\ UNCHANGED <<pollVars, convUid, view, optimistic, optimisticUserRef, heard, sent,
                 envVars, switches>>

-----------------------------------------------------------------------------
(***************************************************************************)
(* The server.                                                             *)
(***************************************************************************)
ServerCompletes(c) ==
  /\ server[c] = "RUNNING"
  /\ server' = [server EXCEPT ![c] = "COMPLETE"]
  /\ UNCHANGED <<pollVars, chatVars, lost, switches>>

Answer(r, answer) ==
  /\ requests[r] # NoRequest
  /\ requests[r].answer = Unanswered
  /\ requests' = [requests EXCEPT ![r].answer = answer]
  /\ UNCHANGED <<mounted, rendered, effected, isPolling, state, intervals, intervalRef,
                 chatVars, server, switches>>

ServerAnswers(r) == Answer(r, server[requests[r].convId]) /\ UNCHANGED lost

\* no data, or the request fails
AnswerLost(r) ==
  /\ lost < MaxLost
  /\ lost' = lost + 1
  /\ \E answer \in NoAnswer : Answer(r, answer)

-----------------------------------------------------------------------------
Next ==
  \/ RenderScene
  \/ RunSceneEffects
  \/ UnmountScene
  \/ \E c \in Conv \cup {NoConv} : SwitchConversation(c)
  \/ \E i \in Interval : TickScene(i)
  \/ \E r \in Request : PollReturns(r) \/ ServerAnswers(r) \/ AnswerLost(r)
  \/ SendMessage
  \/ \E n \in SendNo : \/ StreamOpens(n) \/ StreamEvent(n) \/ StreamEnds(n)
                       \/ \E echo \in BOOLEAN : StreamMessage(n, echo)
  \/ \E c \in Conv : ServerCompletes(c)

Spec == Init /\ [][Next]_vars

(***************************************************************************)
(* The browser renders, runs effects and timers and hands over answers;    *)
(* the server answers and completes.  Nothing obliges the user, a stream   *)
(* to end or an answer to be lost.                                         *)
(***************************************************************************)
Fairness ==
  /\ WF_vars(RenderScene)
  /\ WF_vars(RunSceneEffects)
  /\ \A i \in Interval : WF_vars(TickScene(i))
  /\ \A r \in Request : WF_vars(PollReturns(r)) /\ WF_vars(ServerAnswers(r))
  /\ \A c \in Conv : WF_vars(ServerCompletes(c))

FairSpec == Spec /\ Fairness

-----------------------------------------------------------------------------
ChatTypeOK ==
  /\ convUid \in Conv \cup {NoConv}
  /\ loading \in BOOLEAN
  /\ view \in [Conv -> {"none"} \cup Statuses]
  /\ optimistic \subseteq SendNo
  /\ optimisticUserRef \in SendNo \cup {0}
  /\ streams \in [SendNo -> [convId : Conv \cup {NoConv},
                             status : {"none", "connecting", "open"}, echoed : BOOLEAN]]
  /\ heard \subseteq Conv
  /\ sent \in 0..MaxInputs
  /\ switches \in 0..MaxInputs

EnvTypeOK == server \in [Conv -> Statuses] /\ lost \in 0..MaxLost

\* Every variable has its type.
TypeOK == PollTypeOK /\ ChatTypeOK /\ EnvTypeOK

(***************************************************************************)
(* Once a conversation is on the screen, the steps of another one are only *)
(* there if one of its streams brought them: no late answer and no timer   *)
(* left over from it can (use-scene-agent-chat.ts handlePoll).             *)
(***************************************************************************)
NoForeignPoll ==
  rendered = effected /\ rendered.convId # NoConv =>
    \A c \in Conv : view[c] # "none" => c = rendered.convId \/ c \in heard

(***************************************************************************)
(* The spinner is never stuck: while the component believes a stream runs, *)
(* there is one that can still end it.                                     *)
(***************************************************************************)
SpinnerHasStream == loading => \E n \in SendNo : Live(n)

(***************************************************************************)
(* Two streams never feed the view at once, even when the first went on    *)
(* after an error frame had released the input (send aborts abortRef).     *)
(***************************************************************************)
OneLiveStream == \A m, n \in SendNo : Live(m) /\ Live(n) => m = n

(***************************************************************************)
(* The stream never shows a message twice: when it has echoed the message, *)
(* the one inserted on sending is gone, whatever was sent, opened or       *)
(* cleared in between.                                                     *)
(***************************************************************************)
EchoReplaces == \A n \in optimistic : ~streams[n].echoed

(***************************************************************************)
(* The polling flag never sticks: while it is set, a timer is held or the  *)
(* first check of startPolling is on its way.                              *)
(***************************************************************************)
PollingIsReal ==
  mounted /\ isPolling =>
    \/ intervalRef # NoInterval
    \/ \E r \in Request : requests[r].why = "start"

(***************************************************************************)
(* Who opens a conversation that still runs in the background, and stays,  *)
(* gets its final content, and the header its final state, without doing   *)
(* anything.                                                               *)
(***************************************************************************)
CaughtUp(c) == view[c] = "COMPLETE" /\ state = "COMPLETE"

Undisturbed == mounted /\ sent = 0 /\ lost = 0

StayedCatchesUp ==
  \A c \in Conv : [](Undisturbed /\ convUid = c) => <>CaughtUp(c)

(***************************************************************************)
(* The same of one who came from another conversation, as the hook's       *)
(* comment says of every convUid it is given.                              *)
(***************************************************************************)
ReopenedCatchesUp ==
  \A c \in Conv : []Undisturbed /\ <>[](convUid = c) => <>CaughtUp(c)
=============================================================================
