-------------------------- MODULE SceneChatProofs --------------------------
(***************************************************************************)
(* The safety of the scene chat, for every set of conversations and every  *)
(* bound.  Inv is inductive relative to the typing: it says of every       *)
(* request and stream whom it is addressed to, that only the last stream   *)
(* is alive, which message its echo would remove, and whose steps the view *)
(* can hold between a render and its effects.                              *)
(***************************************************************************)
EXTENDS SceneChat, TLAPS

\* A request in flight and a live stream are about some conversation.
Addressed ==
  /\ \A r \in Request : requests[r] # NoRequest =>
       requests[r].convId \in Conv /\ requests[r].why # "none"
  /\ \A n \in SendNo : Live(n) => streams[n].convId \in Conv

\* Only the stream of the last message is alive, and it is while loading.
LastStream ==
  /\ \A n \in SendNo : Live(n) => n = sent
  /\ loading => sent \in SendNo /\ Live(sent)

\* The message in the view that a live stream can still echo is the one
\* optimisticUserRef remembers, and it has not been echoed.
OptimisticOwned ==
  \A n \in SendNo : n \in optimistic =>
    n <= sent /\ (Live(n) => optimisticUserRef = n /\ ~streams[n].echoed)

\* A step of another conversation came by a stream, or is about to be cleared.
ViewOwned ==
  \A c \in Conv : view[c] # "none" =>
    \/ c \in heard
    \/ rendered.convId \in {c, NoConv}
    \/ effected.convId # rendered.convId

Inv == TypeOK /\ Addressed /\ LastStream /\ OptimisticOwned /\ ViewOwned /\ PollingIsReal

-----------------------------------------------------------------------------
(***************************************************************************)
(* Types.                                                                  *)
(***************************************************************************)
LEMMA InitTypes == Init => TypeOK /\ Addressed
<1> SUFFICES ASSUME Init PROVE TypeOK /\ Addressed
  OBVIOUS
<1> USE PollingAssumption, SceneAssumption DEF Init
<1>1. PollTypeOK
  <2>1. rendered \in Props /\ effected \in Props
    BY DEF PollInit, Props
  <2>2. requests \in [Request -> [convId : Conv \cup {NoConv},
                              why : {"none", "effect", "start", "tick"},
                              answer : {Unanswered} \cup NoAnswer \cup Statuses]]
    BY DEF PollInit, NoRequest, Ask
  <2> QED BY <2>1, <2>2 DEF PollInit, PollTypeOK
<1>2. ChatTypeOK
  <2>1. streams \in [SendNo -> [convId : Conv \cup {NoConv},
                    status : {"none", "connecting", "open"}, echoed : BOOLEAN]]
    BY DEF NoStream
  <2>2. view \in [Conv -> {"none"} \cup Statuses]
    BY DEF EmptyView
  <2>3. 0 \in 0..MaxInputs
    OBVIOUS
  <2> QED BY <2>1, <2>2, <2>3 DEF ChatTypeOK
<1>3. EnvTypeOK /\ Addressed
  BY DEF PollInit, EnvTypeOK, Addressed, Live
<1> QED BY <1>1, <1>2, <1>3 DEF TypeOK

LEMMA StopTypes ==
  ASSUME PollTypeOK, StopPolling
  PROVE  /\ intervals' \in [Interval -> Conv \cup {NoConv}]
         /\ intervalRef' \in Interval \cup {NoInterval}
         /\ isPolling' \in BOOLEAN
BY DEF PollTypeOK, StopPolling, SetPolling

LEMMA IssueTypes ==
  ASSUME PollTypeOK, Addressed, NEW c \in Conv, NEW why \in {"effect", "start", "tick"},
         Issue(Ask(c, why))
  PROVE  /\ requests' \in [Request -> [convId : Conv \cup {NoConv},
                             why : {"none", "effect", "start", "tick"},
                             answer : {Unanswered} \cup NoAnswer \cup Statuses]]
         /\ \A r \in Request : requests'[r] # NoRequest =>
              requests'[r].convId \in Conv /\ requests'[r].why # "none"
BY DEF PollTypeOK, Issue, Ask, Addressed, NoRequest

LEMMA ComponentTypes ==
  ASSUME TypeOK, Addressed,
         RenderScene \/ RunSceneEffects \/ UnmountScene
           \/ (\E c \in Conv \cup {NoConv} : SwitchConversation(c))
  PROVE  TypeOK' /\ Addressed'
<1> USE PollingAssumption, SceneAssumption DEF TypeOK
<1>1. CASE RenderScene
  BY <1>1 DEF RenderScene, Render, PollTypeOK, ChatTypeOK, EnvTypeOK, Addressed, Live, Props,
              chatVars, envVars
<1>2. CASE RunSceneEffects
  <2>1. PollTypeOK' /\ (\A r \in Request : requests'[r] # NoRequest =>
              requests'[r].convId \in Conv /\ requests'[r].why # "none")
    <3>1. /\ intervals' \in [Interval -> Conv \cup {NoConv}]
          /\ intervalRef' \in Interval \cup {NoInterval}
          /\ isPolling' \in BOOLEAN
      BY <1>2, StopTypes DEF RunSceneEffects, RunEffects, PollTypeOK
    <3>2. CASE DepsChanged /\ rendered.enabled /\ rendered.convId # NoConv
      <4>1. rendered.convId \in Conv
        BY <3>2 DEF PollTypeOK, Props
      <4>2. Issue(Ask(rendered.convId, "effect"))
        BY <1>2, <3>2 DEF RunSceneEffects, RunEffects
      <4> QED BY <1>2, <3>1, <4>1, <4>2, IssueTypes DEF RunSceneEffects, RunEffects, PollTypeOK
    <3>3. CASE ~(DepsChanged /\ rendered.enabled /\ rendered.convId # NoConv)
      BY <1>2, <3>1, <3>3 DEF RunSceneEffects, RunEffects, PollTypeOK, Addressed
    <3> QED BY <3>2, <3>3
  <2> QED BY <1>2, <2>1 DEF RunSceneEffects, ClearView, EmptyView, ChatTypeOK, EnvTypeOK,
                            Addressed, Live, envVars
<1>3. CASE UnmountScene
  BY <1>3, StopTypes DEF UnmountScene, Unmount, ClearView, EmptyView, PollTypeOK, ChatTypeOK,
                         EnvTypeOK, Addressed, Live, NoStream, Props, envVars
<1>4. CASE \E c \in Conv \cup {NoConv} : SwitchConversation(c)
  BY <1>4 DEF SwitchConversation, PollTypeOK, ChatTypeOK, EnvTypeOK, Addressed, Live, pollVars,
              envVars
<1> QED BY <1>1, <1>2, <1>3, <1>4

LEMMA PollingTypes ==
  ASSUME TypeOK, Addressed, NEW r \in Request,
         PollReturns(r) \/ ServerAnswers(r) \/ AnswerLost(r)
  PROVE  TypeOK' /\ Addressed'
<1> USE PollingAssumption, SceneAssumption DEF TypeOK
<1>0. requests[r] \in [convId : Conv \cup {NoConv},
                       why : {"none", "effect", "start", "tick"},
                       answer : {Unanswered} \cup NoAnswer \cup Statuses]
  BY DEF PollTypeOK
<1>1. CASE PollReturns(r)
  <2> DEFINE Typed(q) == /\ q \in [convId : Conv \cup {NoConv},
                                   why : {"none", "effect", "start", "tick"},
                                   answer : {Unanswered} \cup NoAnswer \cup Statuses]
                         /\ q # NoRequest => q.convId \in Conv /\ q.why # "none"
  <2>1. requests[r].answer \in NoAnswer \cup Statuses /\ requests[r].convId \in Conv
    BY <1>0, <1>1 DEF PollReturns, StatusReturns, Addressed, NoRequest, Ask
  <2>2. state' \in {"UNKNOWN"} \cup Statuses
    BY <1>1, <2>1 DEF PollReturns, StatusReturns, CheckStatus, PollTypeOK, NoAnswer, Statuses
  <2>3. Typed(NoRequest) /\ Typed(Ask(requests[r].convId, "start"))
    BY <2>1 DEF NoRequest, Ask
  <2>4. /\ \/ requests' = [requests EXCEPT ![r] = NoRequest]
           \/ requests' = [requests EXCEPT ![r] = Ask(requests[r].convId, "start")]
        /\ intervals' \in [Interval -> Conv \cup {NoConv}]
        /\ intervalRef' \in Interval \cup {NoInterval}
        /\ isPolling' \in BOOLEAN
    <3>1. CASE EffectReturns(r)
      BY <3>1 DEF EffectReturns, Return, SetPolling, PollTypeOK
    <3>2. CASE StartReturns(r)
      BY <2>1, <3>2 DEF StartReturns, Return, SetPolling, StartInterval, PollTypeOK
    <3>3. CASE TickReturns(r)
      BY <3>3, StopTypes DEF TickReturns, Return, PollTypeOK
    <3> QED BY <1>1, <3>1, <3>2, <3>3 DEF PollReturns, StatusReturns
  <2>5. PollTypeOK' /\ \A q \in Request : requests'[q] # NoRequest =>
               requests'[q].convId \in Conv /\ requests'[q].why # "none"
    BY <1>1, <2>2, <2>3, <2>4 DEF PollReturns, StatusReturns, PollTypeOK, Addressed
  <2>6. view' \in [Conv -> {"none"} \cup Statuses]
    BY <1>1, <2>1 DEF PollReturns, HandlePoll, ChatTypeOK
  <2> QED BY <1>1, <2>5, <2>6 DEF PollReturns, ChatTypeOK, EnvTypeOK, Addressed, Live, envVars
<1>2. ASSUME NEW a \in NoAnswer \cup Statuses, Answer(r, a)
      PROVE  PollTypeOK' /\ ChatTypeOK' /\ server' \in [Conv -> Statuses] /\ Addressed'
  <2>1. [requests[r] EXCEPT !.answer = a] \in [convId : Conv \cup {NoConv},
                       why : {"none", "effect", "start", "tick"},
                       answer : {Unanswered} \cup NoAnswer \cup Statuses]
    BY <1>0
  <2>2. /\ [requests[r] EXCEPT !.answer = a].convId = requests[r].convId
        /\ [requests[r] EXCEPT !.answer = a].why = requests[r].why
    BY <1>0
  <2>3. requests' = [requests EXCEPT ![r] = [requests[r] EXCEPT !.answer = a]]
    BY <1>2, <1>0 DEF Answer, PollTypeOK
  <2>4. PollTypeOK'
    BY <1>2, <2>1, <2>3 DEF Answer, PollTypeOK
  <2>5. Addressed'
    BY <1>2, <2>2, <2>3 DEF Answer, PollTypeOK, Addressed, Live, chatVars
  <2> QED BY <1>2, <2>4, <2>5 DEF Answer, ChatTypeOK, EnvTypeOK, chatVars
<1>3. CASE ServerAnswers(r)
  <2>1. requests[r].convId \in Conv
    BY <1>3 DEF ServerAnswers, Answer, Addressed
  <2>2. server[requests[r].convId] \in Statuses
    BY <2>1 DEF EnvTypeOK
  <2> QED BY <1>2, <1>3, <2>2 DEF ServerAnswers, EnvTypeOK
<1>4. CASE AnswerLost(r)
  BY <1>2, <1>4 DEF AnswerLost, EnvTypeOK
<1> QED BY <1>1, <1>3, <1>4

LEMMA StreamTypes ==
  ASSUME TypeOK, Addressed,
         NEW n \in SendNo, NEW echo \in BOOLEAN,
         SendMessage \/ StreamOpens(n) \/ StreamEvent(n) \/ StreamEnds(n)
           \/ StreamMessage(n, echo)
  PROVE  TypeOK' /\ Addressed'
<1> USE PollingAssumption, SceneAssumption DEF TypeOK
<1> DEFINE Stream == [convId : Conv \cup {NoConv},
                      status : {"none", "connecting", "open"}, echoed : BOOLEAN]
<1>0. NoStream \in Stream /\ \A m \in SendNo : streams[m] \in Stream
  BY DEF NoStream, ChatTypeOK
<1>1. CASE SendMessage
  <2>1. rendered.convId \in Conv
    BY <1>1 DEF SendMessage, PollTypeOK, Props
  <2> DEFINE s == [convId |-> rendered.convId, status |-> "connecting", echoed |-> FALSE]
  <2>2. s \in Stream /\ s.convId \in Conv
    BY <2>1
  <2>3. sent + 1 \in SendNo
    BY <1>1 DEF SendMessage, ChatTypeOK, SendNo
  <2>4. AbortLast \in [SendNo -> Stream]
    BY <1>0 DEF AbortLast
  <2>5. streams' = [AbortLast EXCEPT ![sent + 1] = s]
    BY <1>1 DEF SendMessage
  <2>6. streams' \in [SendNo -> Stream]
    BY <2>2, <2>4, <2>5
  <2>7. \A m \in SendNo : streams'[m] # NoStream => streams'[m].convId \in Conv
    BY <2>2, <2>3, <2>5 DEF AbortLast, Addressed, Live
  <2> HIDE DEF s
  <2>8. PollTypeOK' /\ EnvTypeOK' /\ Addressed'
    BY <1>1, <2>7 DEF SendMessage, PollTypeOK, EnvTypeOK, Addressed, Live, pollVars, envVars
  <2>9. ChatTypeOK'
    <3>1. sent' = sent + 1 /\ sent + 1 \in 0..MaxInputs
      BY <1>1, <2>3 DEF SendMessage, SendNo, ChatTypeOK
    <3>2. optimistic' \subseteq SendNo /\ optimisticUserRef' \in SendNo \cup {0}
      BY <1>1, <2>3 DEF SendMessage, ChatTypeOK
    <3>3. loading' \in BOOLEAN /\ UNCHANGED <<convUid, view, heard, switches>>
      BY <1>1 DEF SendMessage
    <3> QED BY <2>6, <3>1, <3>2, <3>3 DEF ChatTypeOK
  <2> QED BY <2>8, <2>9
<1>2. CASE StreamOpens(n)
  <2>1. /\ [streams[n] EXCEPT !.status = "open"] \in Stream
        /\ [streams[n] EXCEPT !.status = "open"].convId = streams[n].convId
    BY <1>0
  <2>2. streams[n].convId \in Conv
    BY <1>2 DEF StreamOpens, Addressed, Live, NoStream
  <2>3. streams' = [streams EXCEPT ![n] = [streams[n] EXCEPT !.status = "open"]]
    BY <1>2 DEF StreamOpens
  <2>4. server' \in [Conv -> Statuses]
    BY <1>2 DEF StreamOpens, EnvTypeOK, Statuses
  <2> QED BY <1>2, <2>1, <2>2, <2>3, <2>4
       DEF StreamOpens, PollTypeOK, ChatTypeOK, EnvTypeOK, Addressed, Live, pollVars
<1>3. CASE StreamEvent(n)
  BY <1>3 DEF StreamEvent, PollTypeOK, ChatTypeOK, EnvTypeOK, Addressed, Live, pollVars, envVars
<1>4. CASE StreamEnds(n)
  BY <1>0, <1>4 DEF StreamEnds, PollTypeOK, ChatTypeOK, EnvTypeOK, Addressed, Live, pollVars,
                    envVars
<1>5. CASE StreamMessage(n, echo)
  <2> DEFINE s == [streams[n] EXCEPT !.echoed = @ \/ echo]
  <2>1. s \in Stream /\ s.convId = streams[n].convId
    BY <1>0
  <2>2. streams[n].convId \in Conv
    BY <1>5 DEF StreamMessage, Addressed, Live, NoStream
  <2>3. streams' = [streams EXCEPT ![n] = s]
    BY <1>5, Zenon DEF StreamMessage
  <2> HIDE DEF s
  <2>4. view' \in [Conv -> {"none"} \cup Statuses]
    BY <1>5, <2>2 DEF StreamMessage, ChatTypeOK, EnvTypeOK
  <2>5. streams' \in [SendNo -> Stream]
    BY <2>1, <2>3 DEF ChatTypeOK
  <2>6. Addressed'
    BY <1>5, <2>1, <2>2, <2>3 DEF StreamMessage, ChatTypeOK, Addressed, Live, pollVars
  <2> QED BY <1>5, <2>2, <2>4, <2>5, <2>6
       DEF StreamMessage, PollTypeOK, ChatTypeOK, EnvTypeOK, pollVars, envVars
<1> QED BY <1>1, <1>2, <1>3, <1>4, <1>5

LEMMA OtherTypes ==
  ASSUME TypeOK, Addressed,
         (\E i \in Interval : TickScene(i)) \/ (\E c \in Conv : ServerCompletes(c))
  PROVE  TypeOK' /\ Addressed'
<1> USE PollingAssumption, SceneAssumption DEF TypeOK
<1>1. ASSUME NEW i \in Interval, TickScene(i) PROVE TypeOK' /\ Addressed'
  <2>1. intervals[i] \in Conv
    BY <1>1 DEF TickScene, Tick, PollTypeOK
  <2>2. Issue(Ask(intervals[i], "tick"))
    BY <1>1 DEF TickScene, Tick
  <2> QED BY <1>1, <2>1, <2>2, IssueTypes
       DEF TickScene, Tick, PollTypeOK, ChatTypeOK, EnvTypeOK, Addressed, Live, chatVars, envVars
<1>2. ASSUME NEW c \in Conv, ServerCompletes(c) PROVE TypeOK' /\ Addressed'
  BY <1>2 DEF ServerCompletes, PollTypeOK, ChatTypeOK, EnvTypeOK, Addressed, Live, Statuses,
              pollVars, chatVars
<1> QED BY <1>1, <1>2

-----------------------------------------------------------------------------
(***************************************************************************)
(* Streams and messages.                                                   *)
(***************************************************************************)
LEMMA StreamsStill ==
  ASSUME LastStream, OptimisticOwned,
         UNCHANGED <<streams, sent, loading, optimistic, optimisticUserRef>>
  PROVE  LastStream' /\ OptimisticOwned'
BY DEF LastStream, OptimisticOwned, Live

LEMMA StreamsStep ==
  ASSUME TypeOK, LastStream, OptimisticOwned, Next
  PROVE  LastStream' /\ OptimisticOwned'
<1> USE PollingAssumption, SceneAssumption DEF TypeOK
<1>1. CASE RenderScene \/ (\E c \in Conv \cup {NoConv} : SwitchConversation(c))
             \/ (\E i \in Interval : TickScene(i)) \/ (\E c \in Conv : ServerCompletes(c))
  BY <1>1, StreamsStill DEF RenderScene, SwitchConversation, TickScene, ServerCompletes, chatVars
<1>2. CASE \E r \in Request : PollReturns(r) \/ ServerAnswers(r) \/ AnswerLost(r)
  BY <1>2, StreamsStill DEF PollReturns, ServerAnswers, AnswerLost, Answer, chatVars
<1>3. CASE RunSceneEffects
  BY <1>3 DEF RunSceneEffects, ClearView, LastStream, OptimisticOwned, Live
<1>4. CASE UnmountScene
  BY <1>4 DEF UnmountScene, ClearView, LastStream, OptimisticOwned, Live
<1>5. CASE SendMessage
  <2>1. sent + 1 \in SendNo /\ sent \in Nat
    BY <1>5 DEF SendMessage, ChatTypeOK, SendNo
  <2> DEFINE s == [convId |-> rendered.convId, status |-> "connecting", echoed |-> FALSE]
  <2>2. s # NoStream /\ s.echoed = FALSE
    BY DEF NoStream
  <2>3. streams' = [AbortLast EXCEPT ![sent + 1] = s]
    BY <1>5 DEF SendMessage
  <2> HIDE DEF s
  <2>4. streams'[sent + 1] = s /\ \A n \in SendNo \ {sent + 1} : streams'[n] = NoStream
    BY <2>1, <2>3 DEF AbortLast, LastStream, Live
  <2>5. LastStream'
    BY <1>5, <2>1, <2>2, <2>4 DEF SendMessage, LastStream, Live
  <2>6. OptimisticOwned'
    BY <1>5, <2>1, <2>2, <2>4 DEF SendMessage, OptimisticOwned, Live, SendNo
  <2> QED BY <2>5, <2>6
<1>6. ASSUME NEW n \in SendNo, StreamOpens(n) PROVE LastStream' /\ OptimisticOwned'
  <2>1. /\ \A m \in SendNo \ {n} : streams'[m] = streams[m]
        /\ streams'[n].echoed = streams[n].echoed
        /\ streams'[n] # NoStream
        /\ Live(n)
    BY <1>6 DEF StreamOpens, ChatTypeOK, NoStream, Live
  <2> QED BY <1>6, <2>1 DEF StreamOpens, LastStream, OptimisticOwned, Live
<1>7. ASSUME NEW n \in SendNo, StreamEvent(n) PROVE LastStream' /\ OptimisticOwned'
  BY <1>7 DEF StreamEvent, LastStream, OptimisticOwned, Live
<1>8. ASSUME NEW n \in SendNo, StreamEnds(n) PROVE LastStream' /\ OptimisticOwned'
  BY <1>8 DEF StreamEnds, LastStream, OptimisticOwned, Live, ChatTypeOK
<1>9. ASSUME NEW n \in SendNo, NEW echo \in BOOLEAN, StreamMessage(n, echo)
      PROVE  LastStream' /\ OptimisticOwned'
  <2>1. /\ \A m \in SendNo \ {n} : streams'[m] = streams[m]
        /\ streams'[n].echoed <=> (streams[n].echoed \/ echo)
        /\ streams'[n] # NoStream
        /\ Live(n)
    <3>1. /\ streams' = [streams EXCEPT ![n].echoed = @ \/ echo]
          /\ streams[n].status = "open"
      BY <1>9, Zenon DEF StreamMessage
    <3> QED BY <3>1 DEF ChatTypeOK, NoStream, Live
  <2>2. LastStream'
    BY <1>9, <2>1 DEF StreamMessage, LastStream, Live
  <2>3. CASE echo /\ optimisticUserRef = n
    BY <1>9, <2>1, <2>3 DEF StreamMessage, LastStream, OptimisticOwned, Live
  <2>4. CASE echo /\ optimisticUserRef # n
    BY <1>9, <2>1, <2>4 DEF StreamMessage, LastStream, OptimisticOwned, Live
  <2>5. CASE ~echo
    BY <1>9, <2>1, <2>5 DEF StreamMessage, LastStream, OptimisticOwned, Live
  <2> QED BY <2>2, <2>3, <2>4, <2>5
<1> QED BY <1>1, <1>2, <1>3, <1>4, <1>5, <1>6, <1>7, <1>8, <1>9 DEF Next

(***************************************************************************)
(* Whose steps the view holds.                                             *)
(***************************************************************************)
LEMMA ViewStep ==
  ASSUME TypeOK, Addressed, ViewOwned, Next
  PROVE  ViewOwned'
<1> USE DEF TypeOK
<1>1. CASE RenderScene
  BY <1>1 DEF RenderScene, Render, ViewOwned, chatVars, PollTypeOK, Props
<1>2. CASE RunSceneEffects
  BY <1>2 DEF RunSceneEffects, RunEffects, ClearView, EmptyView, ViewOwned
<1>3. CASE UnmountScene
  BY <1>3 DEF UnmountScene, ClearView, EmptyView, ViewOwned
<1>4. CASE (\E c \in Conv \cup {NoConv} : SwitchConversation(c))
             \/ (\E i \in Interval : TickScene(i)) \/ (\E c \in Conv : ServerCompletes(c))
             \/ SendMessage
  BY <1>4 DEF SwitchConversation, TickScene, Tick, ServerCompletes, SendMessage, ViewOwned,
              pollVars, chatVars
<1>5. CASE \E r \in Request : ServerAnswers(r) \/ AnswerLost(r)
  BY <1>5 DEF ServerAnswers, AnswerLost, Answer, ViewOwned, chatVars
<1>6. CASE \E n \in SendNo : StreamOpens(n) \/ StreamEvent(n) \/ StreamEnds(n)
  BY <1>6 DEF StreamOpens, StreamEvent, StreamEnds, ViewOwned, pollVars
<1>7. ASSUME NEW r \in Request, PollReturns(r) PROVE ViewOwned'
  BY <1>7 DEF PollReturns, StatusReturns, HandlePoll, ViewOwned, ChatTypeOK
<1>8. ASSUME NEW n \in SendNo, NEW echo \in BOOLEAN, StreamMessage(n, echo) PROVE ViewOwned'
  <2>1. /\ view' = [view EXCEPT ![streams[n].convId] = server[streams[n].convId]]
        /\ heard' = heard \cup {streams[n].convId}
        /\ UNCHANGED <<rendered, effected>>
    BY <1>8 DEF StreamMessage, pollVars
  <2> QED BY <2>1 DEF ViewOwned, ChatTypeOK
<1> QED BY <1>1, <1>2, <1>3, <1>4, <1>5, <1>6, <1>7, <1>8 DEF Next

(***************************************************************************)
(* The polling flag.                                                       *)
(***************************************************************************)
LEMMA PollingStill ==
  ASSUME PollingIsReal, UNCHANGED <<mounted, isPolling, intervalRef, requests>>
  PROVE  PollingIsReal'
BY DEF PollingIsReal

LEMMA IssueKeeps ==
  ASSUME PollTypeOK, NEW ask, Issue(ask), NEW r \in Request, requests[r].why = "start"
  PROVE  requests'[r].why = "start"
BY DEF PollTypeOK, Issue, NoRequest, Ask

LEMMA PollingStep ==
  ASSUME TypeOK, PollingIsReal, Next
  PROVE  PollingIsReal'
<1> USE PollingAssumption DEF TypeOK
<1>1. CASE RenderScene \/ (\E c \in Conv \cup {NoConv} : SwitchConversation(c))
             \/ (\E c \in Conv : ServerCompletes(c)) \/ SendMessage
  BY <1>1, PollingStill DEF RenderScene, Render, SwitchConversation, ServerCompletes,
                            SendMessage, pollVars
<1>2. CASE \E n \in SendNo : \/ StreamOpens(n) \/ StreamEvent(n) \/ StreamEnds(n)
                             \/ \E echo \in BOOLEAN : StreamMessage(n, echo)
  BY <1>2, PollingStill DEF StreamOpens, StreamEvent, StreamEnds, StreamMessage, pollVars
<1>3. CASE UnmountScene
  BY <1>3 DEF UnmountScene, Unmount, PollingIsReal
<1>4. CASE RunSceneEffects
  <2>1. CASE StopPolling
    BY <2>1 DEF StopPolling, SetPolling, PollingIsReal
  <2>2. CASE UNCHANGED <<intervals, intervalRef, isPolling>>
    <3>1. \A r \in Request : requests[r].why = "start" => requests'[r].why = "start"
      BY <1>4, IssueKeeps DEF RunSceneEffects, RunEffects
    <3> QED BY <1>4, <2>2, <3>1 DEF RunSceneEffects, RunEffects, PollingIsReal
  <2> QED BY <1>4, <2>1, <2>2 DEF RunSceneEffects, RunEffects
<1>5. ASSUME NEW i \in Interval, TickScene(i) PROVE PollingIsReal'
  <2>1. \A r \in Request : requests[r].why = "start" => requests'[r].why = "start"
    BY <1>5, IssueKeeps DEF TickScene, Tick
  <2> QED BY <1>5, <2>1 DEF TickScene, Tick, PollingIsReal
<1>6. ASSUME NEW r \in Request, NEW a, Answer(r, a) PROVE PollingIsReal'
  <2>1. \A q \in Request : requests'[q].why = requests[q].why
    BY <1>6 DEF Answer, PollTypeOK
  <2> QED BY <1>6, <2>1 DEF Answer, PollingIsReal
<1>7. ASSUME NEW r \in Request, PollReturns(r) PROVE PollingIsReal'
  <2>1. CASE EffectReturns(r)
    <3>1. CASE requests[r].answer = "RUNNING"
      <4>1. requests'[r].why = "start"
        BY <2>1, <3>1 DEF EffectReturns, Ask, PollTypeOK
      <4> QED BY <4>1 DEF PollingIsReal
    <3>2. CASE requests[r].answer # "RUNNING"
      <4>1. \A q \in Request : requests[q].why = "start" => requests'[q].why = "start"
        BY <2>1, <3>2 DEF EffectReturns, Return, PollTypeOK
      <4>2. UNCHANGED <<mounted, isPolling, intervalRef>>
        BY <1>7, <2>1, <3>2 DEF PollReturns, StatusReturns, EffectReturns
      <4> QED BY <4>1, <4>2 DEF PollingIsReal
    <3> QED BY <3>1, <3>2
  <2>2. CASE StartReturns(r)
    <3>1. CASE Over(requests[r].answer)
      BY <2>2, <3>1 DEF StartReturns, SetPolling, PollingIsReal
    <3>2. CASE ~Over(requests[r].answer)
      BY <2>2, <3>2 DEF StartReturns, StartInterval, Interval, NoInterval, PollingIsReal
    <3> QED BY <3>1, <3>2
  <2>3. CASE TickReturns(r)
    <3>1. CASE Over(requests[r].answer)
      BY <2>3, <3>1 DEF TickReturns, StopPolling, SetPolling, PollingIsReal
    <3>2. CASE ~Over(requests[r].answer)
      <4>1. \A q \in Request : requests[q].why = "start" => requests'[q].why = "start"
        BY <2>3 DEF TickReturns, Return, PollTypeOK
      <4>2. UNCHANGED <<mounted, isPolling, intervalRef>>
        BY <1>7, <2>3, <3>2 DEF PollReturns, StatusReturns, TickReturns
      <4> QED BY <4>1, <4>2 DEF PollingIsReal
    <3> QED BY <3>1, <3>2
  <2> QED BY <1>7, <2>1, <2>2, <2>3 DEF PollReturns, StatusReturns
<1> QED BY <1>1, <1>2, <1>3, <1>4, <1>5, <1>6, <1>7 DEF Next, ServerAnswers, AnswerLost

-----------------------------------------------------------------------------
LEMMA InitInv == Init => Inv
BY InitTypes
DEF Init, PollInit, Inv, LastStream, OptimisticOwned, ViewOwned, EmptyView, PollingIsReal, Live

LEMMA Stutter == Inv /\ UNCHANGED vars => Inv'
BY DEF vars, pollVars, chatVars, envVars, Inv, TypeOK, PollTypeOK, ChatTypeOK, EnvTypeOK,
       Addressed, LastStream, OptimisticOwned, ViewOwned, PollingIsReal, Live

LEMMA StepInv == Inv /\ [Next]_vars => Inv'
<1> SUFFICES ASSUME Inv, Next PROVE Inv'
  BY Stutter
<1> USE DEF Inv
<1>1. TypeOK' /\ Addressed'
  <2>1. CASE RenderScene \/ RunSceneEffects \/ UnmountScene
               \/ (\E c \in Conv \cup {NoConv} : SwitchConversation(c))
    BY <2>1, ComponentTypes
  <2>2. CASE \E r \in Request : PollReturns(r) \/ ServerAnswers(r) \/ AnswerLost(r)
    BY <2>2, PollingTypes
  <2>3. CASE SendMessage
    <3>1. sent + 1 \in SendNo /\ TRUE \in BOOLEAN
      BY <2>3, SceneAssumption DEF SendMessage, TypeOK, ChatTypeOK, SendNo
    <3> QED BY <2>3, <3>1, StreamTypes
  <2>4. ASSUME NEW n \in SendNo, NEW echo \in BOOLEAN,
               StreamOpens(n) \/ StreamEvent(n) \/ StreamEnds(n) \/ StreamMessage(n, echo)
        PROVE  TypeOK' /\ Addressed'
    BY <2>4, StreamTypes
  <2>5. CASE \/ \E i \in Interval : TickScene(i)
             \/ \E c \in Conv : ServerCompletes(c)
    BY <2>5, OtherTypes
  <2> HIDE DEF Inv
  <2>6. TRUE \in BOOLEAN
    OBVIOUS
  <2> QED BY <2>1, <2>2, <2>3, <2>4, <2>5, <2>6 DEF Next
<1> QED BY <1>1, StreamsStep, ViewStep, PollingStep DEF Inv

LEMMA Invariance == Spec => []Inv
BY InitInv, StepInv, PTL DEF Spec

\* Every variable keeps its type (hooks and component state).
THEOREM TypesHold == Spec => []TypeOK
<1>1. Inv => TypeOK
  BY DEF Inv
<1> QED BY <1>1, Invariance, PTL

\* No polled answer of another conversation stays on the screen: handlePoll
\* drops what arrives after the render, the convUid effect what came before.
THEOREM ForeignPollsDropped == Spec => []NoForeignPoll
<1>1. Inv => NoForeignPoll
  BY DEF Inv, ViewOwned, NoForeignPoll
<1> QED BY <1>1, Invariance, PTL

\* Every path that ends a stream, an abort included, either clears loading
\* or has another stream take over.
THEOREM SpinnerEnds == Spec => []SpinnerHasStream
<1>1. Inv => SpinnerHasStream
  BY DEF Inv, LastStream, SpinnerHasStream
<1> QED BY <1>1, Invariance, PTL

\* send aborts the stream before its own, so two never feed the view at once.
THEOREM StreamsExclusive == Spec => []OneLiveStream
<1>1. Inv => OneLiveStream
  BY DEF Inv, LastStream, OneLiveStream
<1> QED BY <1>1, Invariance, PTL

\* A message its stream has echoed is no longer in the view a second time.
THEOREM EchoReplacesOwn == Spec => []EchoReplaces
<1>1. Inv => EchoReplaces
  BY DEF Inv, TypeOK, ChatTypeOK, OptimisticOwned, EchoReplaces, Live, NoStream
<1> QED BY <1>1, Invariance, PTL

\* isPolling is cleared whenever neither a timer nor a first check is left.
THEOREM PollingFlagReal == Spec => []PollingIsReal
<1>1. Inv => PollingIsReal
  BY DEF Inv
<1> QED BY <1>1, Invariance, PTL
=============================================================================
