-------------------------- MODULE StreamPushProofs --------------------------
(***************************************************************************)
(* Safety of the push pipeline for any agents, messages, converter,        *)
(* channel and bounds.                                                     *)
(***************************************************************************)
EXTENDS StreamPush, TLAPS, SequenceTheorems, FiniteSetTheorems

States == {"ready", "flushing", "flushed", "pushing", "breaking", "blocked",
           "stopping", "ended", "aborted"}

LEMMA EmptyFrame == <<>> \in Frame /\ Done \in Frame /\ Len(<<>>) = 0
BY EmptySeq DEF Frame, Done

\* What one push hands to the pipeline.
LEMMA OneIncrement ==
  ASSUME NEW x \in Increment
  PROVE  /\ <<x>> \in Frame /\ <<x>> # <<>> /\ Len(<<x>>) = 1 /\ <<x>>[1] = x
         /\ DOMAIN <<x>> = {1}
BY DEF Frame

LEMMA AtIsWork ==
  ASSUME NEW s \in States
  PROVE  At(s) \in Work /\ At(s).at = s /\ At(s).frame = <<>> /\ At(s).own = <<>>
BY EmptyFrame DEF At, Work, States

LEMMA PutGrows ==
  ASSUME stream \in Seq(Frame), NEW item \in Frame, Put(item)
  PROVE  /\ stream' \in Seq(Frame) /\ Len(stream') >= Len(stream)
         /\ \/ stream' = stream
            \/ /\ Len(stream') = Len(stream) + 1
               /\ \A i \in DOMAIN stream : stream'[i] = stream[i]
               /\ stream'[Len(stream) + 1] = item
BY DEF Put

LEMMA DeliverTypes ==
  ASSUME TypeOK, NEW w \in Workers, NEW frame \in Frame, NEW own \in Frame,
         NEW during \in States, NEW after \in States, Deliver(w, frame, own, during, after)
  PROVE  /\ work' \in [Workers -> Work]
         /\ stream' \in Seq(Frame) /\ Len(stream') >= Len(stream) /\ taken' = taken
<1>1. stream' \in Seq(Frame) /\ Len(stream') >= Len(stream) /\ taken' = taken
  BY PutGrows DEF Deliver, TypeOK
<1>2. /\ [at |-> during, frame |-> frame, own |-> own] \in Work
      /\ [at |-> after, frame |-> <<>>, own |-> own] \in Work
  BY EmptyFrame DEF Work, States
<1> QED BY <1>1, <1>2 DEF Deliver, TypeOK

LEMMA PushOwnTypes ==
  ASSUME TypeOK, NEW w \in Workers, NEW own \in Frame, PushOwn(w, own)
  PROVE  /\ work' \in [Workers -> Work] /\ pending' \in Frame
         /\ handle' \in {"none", "armed", "fired"} /\ strays' \in Nat
         /\ stream' \in Seq(Frame) /\ Len(stream') >= Len(stream) /\ taken' = taken
<1>1. CASE Coalesced(own)
  <2>1. Open(own) /\ work' = [work EXCEPT ![w] = Idle] /\ UNCHANGED channel
    BY <1>1 DEF PushOwn
  <2>2. Idle \in Work
    BY AtIsWork DEF Idle, States
  <2> QED BY <2>1, <2>2 DEF Open, channel, TypeOK
<1>2. CASE ~Coalesced(own)
  <2>1. Deliver(w, own, <<>>, "pushing", "ready") /\ UNCHANGED collector
    BY <1>2 DEF PushOwn
  <2>2. /\ work' \in [Workers -> Work]
        /\ stream' \in Seq(Frame) /\ Len(stream') >= Len(stream) /\ taken' = taken
    BY <2>1, EmptyFrame, DeliverTypes DEF States
  <2> QED BY <2>1, <2>2 DEF collector, TypeOK
<1> QED BY <1>1, <1>2

LEMMA FlushFirstTypes ==
  ASSUME TypeOK, NEW w \in Workers, NEW own \in Frame, FlushFirst(w, own)
  PROVE  /\ work' \in [Workers -> Work] /\ pending' \in Frame
         /\ handle' \in {"none", "armed", "fired"} /\ strays' \in Nat
         /\ stream' \in Seq(Frame) /\ Len(stream') >= Len(stream) /\ taken' = taken
<1>1. pending \in Frame /\ Deliver(w, pending, own, "flushing", "flushed") /\ TakePending
  BY DEF FlushFirst, TypeOK
<1>2. /\ work' \in [Workers -> Work]
      /\ stream' \in Seq(Frame) /\ Len(stream') >= Len(stream) /\ taken' = taken
  BY <1>1, DeliverTypes DEF States
<1> QED BY <1>1, <1>2, EmptyFrame DEF TakePending, TypeOK

LEMMA PushMessageTypes ==
  ASSUME TypeOK, NEW w \in Workers, NEW own \in Frame, PushMessage(w, own)
  PROVE  /\ work' \in [Workers -> Work] /\ pending' \in Frame
         /\ handle' \in {"none", "armed", "fired"} /\ strays' \in Nat
         /\ stream' \in Seq(Frame) /\ Len(stream') >= Len(stream) /\ taken' = taken
<1>1. CASE /\ Joins(own) /\ Merge(own)
           /\ work' = [work EXCEPT ![w] = Idle]
           /\ UNCHANGED channel
  <2>1. pending \o own \in Frame
    BY ConcatProperties DEF TypeOK, Frame
  <2>2. Idle \in Work
    BY AtIsWork DEF Idle, States
  <2> QED BY <1>1, <2>1, <2>2 DEF Merge, channel, TypeOK
<1>2. CASE FlushFirst(w, own)
  BY <1>2, FlushFirstTypes
<1>3. CASE PushOwn(w, own)
  BY <1>3, PushOwnTypes
<1> QED BY <1>1, <1>2, <1>3 DEF PushMessage

LEMMA PutDoneTypes ==
  ASSUME TypeOK, NEW w \in Workers, PutDone(w)
  PROVE  /\ work' \in [Workers -> Work]
         /\ stream' \in Seq(Frame) /\ Len(stream') >= Len(stream) /\ taken' = taken
<1>1. /\ At("ended") \in Work /\ At("blocked") \in Work
  BY AtIsWork DEF States
<1>2. stream' \in Seq(Frame) /\ Len(stream') >= Len(stream)
  BY EmptyFrame, PutGrows DEF PutDone, TypeOK
<1> QED BY <1>1, <1>2 DEF PutDone, TypeOK

LEMMA FlushThenDoneTypes ==
  ASSUME TypeOK, NEW w \in Workers, FlushThenDone(w)
  PROVE  /\ work' \in [Workers -> Work] /\ pending' \in Frame
         /\ handle' \in {"none", "armed", "fired"} /\ strays' \in Nat
         /\ stream' \in Seq(Frame) /\ Len(stream') >= Len(stream) /\ taken' = taken
<1>1. CASE PutDone(w) /\ UNCHANGED collector
  BY <1>1, PutDoneTypes DEF collector, TypeOK
<1>2. CASE FlushFirst(w, Done)
  BY <1>2, FlushFirstTypes, EmptyFrame
<1> QED BY <1>1, <1>2 DEF FlushThenDone

LEMMA PushTypes ==
  ASSUME TypeOK, NEW a \in Agents, NEW kind \in Kinds, Push(a, kind)
  PROVE  TypeOK'
<1> DEFINE own == <<[by |-> a, n |-> made[a] + 1, kind |-> kind]>>
<1>1. made[a] \in Nat /\ made' \in [Agents -> Nat]
  BY DEF Push, TypeOK
<1>2. own \in Frame
  BY <1>1, OneIncrement, StreamAssumption DEF Increment
<1>3. a \in Workers /\ PushMessage(a, own)
  BY DEF Push, Workers
<1> HIDE DEF own
<1> QED BY <1>1, <1>2, <1>3, PushMessageTypes DEF Push, TypeOK

\* The increment of the error, or of the interruption.
BreakIncrement == [by |-> Main, n |-> 1, kind |-> "whole"]

LEMMA PushBreakTypes ==
  ASSUME TypeOK, PushBreak
  PROVE  TypeOK'
<1>1. Main \in Workers /\ <<BreakIncrement>> \in Frame
  BY OneIncrement DEF Workers, BreakIncrement, Increment
<1>2. Idle \in Work
  BY AtIsWork DEF Idle, States
<1>3. CASE PushMessage(Main, <<BreakIncrement>>)
  BY <1>1, <1>3, PushMessageTypes DEF PushBreak, TypeOK
<1>4. CASE work' = [work EXCEPT ![Main] = Idle] /\ UNCHANGED <<collector, channel>>
  BY <1>2, <1>4 DEF PushBreak, TypeOK, collector, channel
<1> QED BY <1>3, <1>4 DEF PushBreak, BreakIncrement

LEMMA InitTypes == Init => TypeOK
<1>1. Idle \in Work
  BY AtIsWork DEF Idle, States
<1>2. <<>> \in Seq(Frame) /\ Len(<<>>) = 0
  BY EmptySeq
<1>3. Init => cached \in BOOLEAN /\ stop_flag \in BOOLEAN /\ cancel \in BOOLEAN
  BY Zenon DEF Init
<1>4. Init => work \in [Workers -> Work] /\ made \in [Agents -> Nat] /\ pending \in Frame
  BY <1>1, EmptyFrame DEF Init
<1>5. Init => taken \in 0..Len(stream) /\ stream \in Seq(Frame)
  BY <1>2 DEF Init
<1> QED BY <1>3, <1>4, <1>5 DEF Init, TypeOK

LEMMA TurnTypes ==
  ASSUME TypeOK, Turn
  PROVE  TypeOK'
<1> USE DEF collector, channel
<1>1. ASSUME NEW s \in States
      PROVE  At(s) \in Work
  BY AtIsWork
<1>2. Idle \in Work
  BY <1>1 DEF Idle, States
<1>3. ASSUME NEW a \in Agents, End(a)
      PROVE  TypeOK'
  BY <1>1, <1>3 DEF End, TypeOK, States
<1>4. ASSUME NEW a \in Agents, NEW kind \in Kinds, Push(a, kind)
      PROVE  TypeOK'
  BY <1>4, PushTypes
<1>5. ASSUME NEW w \in Workers, Lands(w)
      PROVE  TypeOK'
  <2>1. work[w] \in Work
    BY DEF TypeOK
  <2>2. stream' \in Seq(Frame) /\ Len(stream') >= Len(stream)
    BY <1>5, <2>1, PutGrows DEF Lands, Work, TypeOK
  <2>3. [work[w] EXCEPT !.at = "flushed", !.frame = <<>>] \in Work
    BY <2>1, EmptyFrame DEF Work
  <2>4. work' \in [Workers -> Work]
    BY <1>2, <1>5, <2>3 DEF Lands, TypeOK
  <2> QED BY <1>5, <2>2, <2>4 DEF Lands, TypeOK
<1>6. ASSUME NEW w \in Workers, Resumes(w)
      PROVE  TypeOK'
  <2>1. work[w].own \in Frame
    BY DEF TypeOK, Work
  <2>2. CASE work[w].own = Done
    BY <1>6, <2>2, PutDoneTypes DEF Resumes, TypeOK
  <2>3. CASE PushOwn(w, work[w].own)
    BY <1>6, <2>1, <2>3, PushOwnTypes DEF Resumes, TypeOK
  <2> QED BY <1>6, <2>2, <2>3 DEF Resumes
<1>7. Main \in Workers
  BY DEF Workers
<1>8. CASE Complete
  <2>1. CASE FlushThenDone(Main)
    BY <1>7, <1>8, <2>1, FlushThenDoneTypes DEF Complete, TypeOK
  <2>2. CASE work' = [work EXCEPT ![Main] = At("ended")] /\ UNCHANGED <<collector, channel>>
    BY <1>1, <1>8, <2>2 DEF Complete, TypeOK, States
  <2> QED BY <1>8, <2>1, <2>2 DEF Complete
<1>9. CASE RoomForDone
  BY <1>7, <1>9, PutDoneTypes DEF RoomForDone, TypeOK
<1>10. CASE Fail
  BY <1>1, <1>10 DEF Fail, TypeOK, States
<1>11. CASE PushBreak
  BY <1>11, PushBreakTypes
<1>12. CASE Interrupted
  BY <1>1, <1>2, <1>12 DEF Interrupted, TypeOK, States
<1> QED BY <1>3, <1>4, <1>5, <1>6, <1>8, <1>9, <1>10, <1>11, <1>12 DEF Turn

LEMMA OtherTypes ==
  ASSUME TypeOK, Timer \/ StopChat \/ MemoryStop \/ Read \/ Leave \/ Clear
  PROVE  TypeOK'
<1> USE DEF collector, channel
<1>1. Stopper \in Workers /\ At("ended") \in Work /\ At("stopping") \in Work
  BY AtIsWork DEF Workers, States
<1>2. CASE TimerFires
  BY <1>2 DEF TimerFires, TypeOK
<1>3. CASE FlushById
  <2>1. CASE cached /\ pending # <<>>
    <3>1. stream' \in Seq(Frame) /\ Len(stream') >= Len(stream)
      BY <1>3, <2>1, PutGrows DEF FlushById, TypeOK
    <3> QED BY <1>3, <2>1, <3>1, EmptyFrame DEF FlushById, TakePending, TypeOK
  <2>2. CASE ~(cached /\ pending # <<>>)
    BY <1>3, <2>2 DEF FlushById, TypeOK
  <2> QED BY <2>1, <2>2
<1>4. ASSUME NEW frame \in flying, FlushLands(frame)
      PROVE  TypeOK'
  <2>1. stream' \in Seq(Frame) /\ Len(stream') >= Len(stream)
    BY <1>4, PutGrows DEF FlushLands, TypeOK
  <2> QED BY <1>4, <2>1 DEF FlushLands, TypeOK
<1>5. CASE StopChat
  BY <1>1, <1>5 DEF StopChat, TypeOK
<1>6. CASE MemoryStop
  <2>1. CASE FlushThenDone(Stopper) /\ stop_flag' = TRUE
    BY <1>1, <1>6, <2>1, FlushThenDoneTypes DEF MemoryStop, TypeOK
  <2>2. CASE /\ work' = [work EXCEPT ![Stopper] = At("ended")]
             /\ UNCHANGED <<stop_flag, collector, channel>>
    BY <1>1, <1>6, <2>2 DEF MemoryStop, TypeOK
  <2> QED BY <1>6, <2>1, <2>2 DEF MemoryStop
<1>7. CASE Read
  BY <1>7 DEF Read, TypeOK
<1>8. CASE Leave
  BY <1>8 DEF Leave, TypeOK
<1>9. CASE Clear
  <2>1. stream' \in Seq(Frame) /\ Len(stream') >= Len(stream)
    BY <1>9, PutGrows, EmptyFrame DEF Clear, TypeOK
  <2>2. cached' \in BOOLEAN
    BY <1>9, Zenon DEF Clear
  <2> QED BY <1>9, <2>1, <2>2 DEF Clear, TypeOK
<1> QED BY <1>2, <1>3, <1>4, <1>5, <1>6, <1>7, <1>8, <1>9 DEF Timer

LEMMA TypesStep == TypeOK /\ [Next]_vars => TypeOK'
<1>1. ASSUME TypeOK, UNCHANGED vars
      PROVE  TypeOK'
  BY <1>1 DEF vars, collector, channel, TypeOK
<1> QED BY <1>1, TurnTypes, OtherTypes DEF Next

\* Every variable of the push pipeline keeps its type.
THEOREM PushTypesHold == Spec => []TypeOK
BY InitTypes, TypesStep, PTL DEF Spec
-----------------------------------------------------------------------------
(***************************************************************************)
(* What is pending has a flush: a handle names a timer exactly when there  *)
(* is something to flush, and one that fired left a task behind.           *)
(***************************************************************************)
TimerServes == /\ pending = <<>> <=> handle = "none"
               /\ cached /\ handle = "fired" => flushes > 0

\* What a push, a flush before it or the flush of complete does to the timer.
TimerKept == \/ handle' = "armed" /\ pending' # <<>>
             \/ handle' = "none" /\ pending' = <<>>
             \/ handle' = handle /\ (pending' = <<>> <=> pending = <<>>)

LEMMA PushKeepsTimer ==
  ASSUME TypeOK, NEW w \in Workers, NEW own \in Frame, own # <<>>,
         PushMessage(w, own) \/ PushOwn(w, own)
  PROVE  TimerKept
<1>1. pending # <<>> => pending \o own # <<>>
  BY ConcatEqualIffEmpty DEF TypeOK, Frame
<1> QED BY <1>1 DEF PushMessage, PushOwn, FlushFirst, Merge, Open, TakePending, collector,
                    TimerKept, Joins

LEMMA FlushKeepsTimer ==
  ASSUME NEW w \in Workers, FlushThenDone(w)
  PROVE  TimerKept
BY DEF FlushThenDone, FlushFirst, TakePending, collector, TimerKept

LEMMA TurnServes ==
  ASSUME TypeOK, TimerServes, Turn
  PROVE  TimerServes'
<1> USE DEF collector
<1>1. ASSUME TimerKept, UNCHANGED <<cached, flushes>>
      PROVE  TimerServes'
  BY <1>1 DEF TimerKept, TimerServes
<1>2. ASSUME UNCHANGED <<pending, handle, cached, flushes>>
      PROVE  TimerServes'
  BY <1>2 DEF TimerServes
<1>3. ASSUME NEW a \in Agents, NEW kind \in Kinds, Push(a, kind)
      PROVE  TimerServes'
  <2> DEFINE own == <<[by |-> a, n |-> made[a] + 1, kind |-> kind]>>
  <2>1. own \in Frame /\ own # <<>>
    BY OneIncrement, StreamAssumption DEF Increment, TypeOK
  <2>2. a \in Workers /\ PushMessage(a, own) /\ UNCHANGED <<cached, flushes>>
    BY <1>3 DEF Push, Workers
  <2> HIDE DEF own
  <2> QED BY <1>1, <2>1, <2>2, PushKeepsTimer
<1>4. ASSUME NEW w \in Workers, Resumes(w)
      PROVE  TimerServes'
  <2>1. CASE work[w].own = Done
    BY <1>2, <1>4, <2>1 DEF Resumes
  <2>2. CASE work[w].own # Done
    <3>1. work[w].own \in Frame /\ work[w].own # <<>> /\ PushOwn(w, work[w].own)
      BY <1>4, <2>2 DEF Resumes, TypeOK, Work, Done
    <3> QED BY <1>1, <1>4, <3>1, PushKeepsTimer DEF Resumes
  <2> QED BY <2>1, <2>2
<1>5. CASE PushBreak
  <2>1. CASE PushMessage(Main, <<BreakIncrement>>)
    <3>1. <<BreakIncrement>> \in Frame /\ <<BreakIncrement>> # <<>> /\ Main \in Workers
      BY OneIncrement DEF BreakIncrement, Increment, Workers
    <3> QED BY <1>1, <1>5, <2>1, <3>1, PushKeepsTimer DEF PushBreak
  <2>2. CASE UNCHANGED collector
    BY <1>2, <1>5, <2>2 DEF PushBreak
  <2> QED BY <1>5, <2>1, <2>2 DEF PushBreak, BreakIncrement
<1>6. CASE Complete
  <2>1. CASE FlushThenDone(Main)
    BY <1>1, <1>6, <2>1, FlushKeepsTimer DEF Complete, Workers
  <2> QED BY <1>2, <1>6, <2>1 DEF Complete
<1>7. CASE \/ \E a \in Agents : End(a)
           \/ \E w \in Workers : Lands(w)
           \/ RoomForDone \/ Fail \/ Interrupted
  BY <1>2, <1>7 DEF End, Lands, RoomForDone, Fail, Interrupted
<1> QED BY <1>3, <1>4, <1>5, <1>6, <1>7 DEF Turn

LEMMA OtherServes ==
  ASSUME TypeOK, TimerServes, Timer \/ StopChat \/ MemoryStop \/ Read \/ Leave \/ Clear
  PROVE  TimerServes'
<1> USE DEF collector
<1>1. CASE TimerFires
  BY <1>1 DEF TimerFires, TimerServes, TypeOK
<1>2. CASE FlushById
  BY <1>2 DEF FlushById, TakePending, TimerServes, TypeOK
<1>3. CASE MemoryStop
  <2>1. CASE FlushThenDone(Stopper)
    BY <1>3, <2>1, FlushKeepsTimer DEF MemoryStop, TimerKept, TimerServes, Workers
  <2>2. CASE UNCHANGED collector
    BY <1>3, <2>2 DEF MemoryStop, TimerServes
  <2> QED BY <1>3, <2>1, <2>2 DEF MemoryStop
<1>4. CASE Clear
  BY <1>4 DEF Clear, TimerServes
<1>5. CASE (\E frame \in flying : FlushLands(frame)) \/ StopChat \/ Read \/ Leave
  BY <1>5 DEF FlushLands, StopChat, Read, Leave, TimerServes
<1> QED BY <1>1, <1>2, <1>3, <1>4, <1>5 DEF Timer

LEMMA ServesStep == TypeOK /\ TimerServes /\ [Next]_vars => TimerServes'
<1>1. ASSUME TimerServes, UNCHANGED vars
      PROVE  TimerServes'
  BY <1>1 DEF vars, collector, TimerServes
<1> QED BY <1>1, TurnServes, OtherServes DEF Next

\* What is pending is never left behind, whichever coroutine's timer was
\* overwritten or fired for another's increments.
THEOREM PendingIsFlushed == Spec => []PendingHasFlush
<1>1. Init => TimerServes
  BY DEF Init, TimerServes
<1>2. TypeOK /\ TimerServes => PendingHasFlush
  BY DEF TypeOK, TimerServes, PendingHasFlush
<1> QED BY <1>1, <1>2, PushTypesHold, ServesStep, PTL DEF Spec
-----------------------------------------------------------------------------
(***************************************************************************)
(* What the frames hold, wherever they are.  An increment was told before: *)
(* its coroutine has counted it, or the turn broke and said so.            *)
(***************************************************************************)
Incs(frame) == {frame[k] : k \in DOMAIN frame}

ToldIncs == {x \in Increment :
               \/ x.by \in Agents /\ x.n <= made[x.by]
               \/ x.by = Main /\ ending # "none" /\ work[Main].at # "breaking"}

\* OneMessageAFrame of one frame.
Single(frame) ==
  \A k, l \in DOMAIN frame :
    /\ MessageOf(frame[k]) = MessageOf(frame[l])
    /\ k < l /\ frame[k].by = frame[l].by => frame[k].n < frame[l].n

WellMade(frame) == Single(frame) /\ Incs(frame) \subseteq ToldIncs

\* What may follow a flush: nothing, or one increment of the coroutine's own.
OwnPush(w, own) == \/ own = Done
                   \/ \E x \in Increment : own = <<x>> /\ x.by = w /\ (w = Main => x.kind = "whole")

OwnOK(w) == OwnPush(w, work[w].own)

WorkMade(w) == WellMade(work[w].frame) /\ WellMade(work[w].own) /\ OwnOK(w)
StreamMade  == \A i \in DOMAIN stream : WellMade(stream[i])
PendingMade == WellMade(pending) /\ \A x \in Incs(pending) : x.by \in Agents
FlyingMade  == \A frame \in flying : WellMade(frame)
BreaksOnce  == work[Main].at = "breaking" => ending # "none"

FramesOK == /\ StreamMade /\ PendingMade /\ FlyingMade /\ BreaksOnce
            /\ \A w \in Workers : WorkMade(w)

LEMMA IncsType ==
  ASSUME NEW frame \in Frame
  PROVE  /\ Incs(frame) \subseteq Increment
         /\ \A k \in DOMAIN frame : frame[k] \in Increment
BY DEF Frame, Incs

LEMMA EmptyMade == WellMade(<<>>) /\ Incs(<<>>) = {} /\ Single(<<>>)
BY DEF WellMade, Single, Incs

LEMMA OneMade ==
  ASSUME NEW x \in Increment
  PROVE  Single(<<x>>) /\ Incs(<<x>>) = {x}
<1>1. \A k \in DOMAIN <<x>> : k = 1
  OBVIOUS
<1>2. <<x>>[1] = x /\ 1 \in DOMAIN <<x>>
  OBVIOUS
<1> QED BY <1>1, <1>2 DEF Single, Incs

LEMMA JoinedMade ==
  ASSUME NEW frame \in Frame, NEW x \in Increment, Single(frame), frame # <<>>,
         MessageOf(x) = MessageOf(frame[1]),
         \A y \in Incs(frame) : y.by = x.by => y.n < x.n
  PROVE  Single(frame \o <<x>>) /\ Incs(frame \o <<x>>) = Incs(frame) \cup {x}
<1> DEFINE joined == frame \o <<x>>
<1>1. /\ joined \in Frame /\ Len(joined) = Len(frame) + 1 /\ Len(frame) \in Nat \ {0}
      /\ \A i \in 1..Len(frame) : joined[i] = frame[i]
      /\ joined[Len(frame) + 1] = x
      /\ DOMAIN joined = 1..(Len(frame) + 1) /\ DOMAIN frame = 1..Len(frame)
  BY DEF Frame
<1>2. \A k \in DOMAIN frame : MessageOf(frame[k]) = MessageOf(x)
  BY <1>1 DEF Single
<1> HIDE DEF joined
<1>3. Single(joined)
  <2> SUFFICES ASSUME NEW k \in DOMAIN joined, NEW l \in DOMAIN joined
               PROVE  /\ MessageOf(joined[k]) = MessageOf(joined[l])
                      /\ k < l /\ joined[k].by = joined[l].by => joined[k].n < joined[l].n
    BY DEF Single
  <2>1. CASE k \in DOMAIN frame /\ l \in DOMAIN frame
    BY <1>1, <2>1 DEF Single
  <2>2. CASE k \in DOMAIN frame /\ l = Len(frame) + 1
    BY <1>1, <1>2, <2>2 DEF Incs
  <2>3. CASE k = Len(frame) + 1
    BY <1>1, <1>2, <2>3
  <2> QED BY <1>1, <2>1, <2>2, <2>3
<1>4. Incs(joined) = Incs(frame) \cup {x}
  <2>1. Incs(joined) \subseteq Incs(frame) \cup {x}
    BY <1>1 DEF Incs
  <2>2. Incs(frame) \subseteq Incs(joined)
    BY <1>1 DEF Incs
  <2>3. x \in Incs(joined)
    BY <1>1 DEF Incs
  <2> QED BY <2>1, <2>2, <2>3
<1> QED BY <1>3, <1>4 DEF joined

\* What the steps do to a coroutine and what it carries.
LEMMA DeliverMoves ==
  ASSUME TypeOK, NEW w \in Workers, NEW frame \in Frame, NEW own \in Frame,
         NEW during \in States, NEW after \in States, Deliver(w, frame, own, during, after)
  PROVE  /\ \A v \in Workers \ {w} : work'[v] = work[v]
         /\ work'[w].own = own /\ work'[w].at \in {during, after}
         /\ \/ work'[w].frame = frame /\ UNCHANGED stream
            \/ work'[w].frame = <<>> /\ (UNCHANGED stream \/ Put(frame))
BY DEF Deliver, TypeOK

LEMMA LandsMoves ==
  ASSUME TypeOK, NEW w \in Workers, Lands(w)
  PROVE  /\ \A v \in Workers \ {w} : work'[v] = work[v]
         /\ work'[w].frame = <<>> /\ work'[w].own \in {work[w].own, Done}
         /\ work'[w].at \in {"flushed", "ready"}
         /\ Put(work[w].frame) /\ work[w].frame \in Frame
<1>1. work[w] \in Work /\ Idle.frame = <<>> /\ Idle.own = Done /\ Idle.at = "ready"
  BY DEF TypeOK, Idle, At, Done
<1>2. work' = [work EXCEPT ![w] = IF work[w].at = "flushing"
                                  THEN [work[w] EXCEPT !.at = "flushed", !.frame = <<>>]
                                  ELSE Idle]
  BY DEF Lands
<1>3. /\ [work[w] EXCEPT !.at = "flushed", !.frame = <<>>].own = work[w].own
      /\ [work[w] EXCEPT !.at = "flushed", !.frame = <<>>].frame = <<>>
      /\ [work[w] EXCEPT !.at = "flushed", !.frame = <<>>].at = "flushed"
  BY <1>1 DEF Work
<1>4. \A v \in Workers \ {w} : work'[v] = work[v]
  BY <1>2 DEF TypeOK
<1>5. work'[w] = IF work[w].at = "flushing"
                 THEN [work[w] EXCEPT !.at = "flushed", !.frame = <<>>] ELSE Idle
  BY <1>2 DEF TypeOK
<1> QED BY <1>1, <1>3, <1>4, <1>5 DEF Lands, Work

\* The turn breaks once.
LEMMA TurnBreaks ==
  ASSUME TypeOK, BreaksOnce, [Next]_vars
  PROVE  /\ BreaksOnce'
         /\ ending # "none" /\ work[Main].at # "breaking"
            => ending' # "none" /\ work'[Main].at # "breaking"
<1> DEFINE Calm   == work'[Main].at = "breaking" => work[Main].at = "breaking"
           Breaks == ending = "none" /\ ending' # "none"
<1>1. (Calm /\ UNCHANGED ending) \/ Breaks
  <2> USE DEF TypeOK, Work
  <2>1. ASSUME NEW s \in States \ {"breaking"}
        PROVE  At(s).at # "breaking" /\ Idle.at # "breaking"
    BY DEF At, Idle
  <2>2. ASSUME NEW w \in Workers, NEW frame, NEW own,
               NEW during \in States \ {"breaking"}, NEW after \in States \ {"breaking"},
               Deliver(w, frame, own, during, after)
        PROVE  Calm
    BY <2>2 DEF Deliver, Workers
  <2>3. ASSUME NEW w \in Workers, NEW own, PushOwn(w, own)
        PROVE  Calm
    BY <2>1, <2>2, <2>3 DEF PushOwn, States, Workers
  <2>4. ASSUME NEW w \in Workers, NEW own, FlushFirst(w, own)
        PROVE  Calm
    BY <2>2, <2>4 DEF FlushFirst, States
  <2>5. ASSUME NEW w \in Workers, NEW own, PushMessage(w, own)
        PROVE  Calm
    BY <2>1, <2>3, <2>4, <2>5 DEF PushMessage, States, Workers
  <2>6. ASSUME NEW w \in Workers, PutDone(w)
        PROVE  Calm
    BY <2>1, <2>6 DEF PutDone, States, Workers
  <2>7. ASSUME NEW w \in Workers, FlushThenDone(w)
        PROVE  Calm
    BY <2>4, <2>6, <2>7 DEF FlushThenDone
  <2>8. CASE \/ \E a \in Agents, kind \in Kinds : Push(a, kind)
             \/ \E w \in Workers : Resumes(w)
    BY <2>3, <2>5, <2>6, <2>8 DEF Push, Resumes, Workers
  <2>9. CASE Complete \/ MemoryStop
    BY <2>1, <2>7, <2>9 DEF Complete, MemoryStop, States, Workers
  <2>10. CASE RoomForDone \/ PushBreak
    BY <2>1, <2>5, <2>6, <2>10 DEF RoomForDone, PushBreak, States, Workers
  <2>11. CASE Fail \/ Interrupted \/ StopChat
    BY <2>1, <2>11, StreamAssumption DEF Fail, Interrupted, StopChat, States, Workers
  <2>12. CASE \E a \in Agents : End(a)
    BY <2>1, <2>12 DEF End, States, Workers
  <2>13. CASE \E w \in Workers : Lands(w)
    BY <2>13, LandsMoves DEF Lands, Workers
  <2>14. CASE Timer \/ Read \/ Leave \/ Clear \/ UNCHANGED vars
    BY <2>14 DEF Timer, TimerFires, FlushById, FlushLands, Read, Leave, Clear, vars
  <2> QED BY <2>8, <2>9, <2>10, <2>11, <2>12, <2>13, <2>14 DEF Next, Turn
<1> QED BY <1>1 DEF BreaksOnce

\* What was told stays told.
LEMMA ToldKept ==
  ASSUME TypeOK, BreaksOnce, [Next]_vars
  PROVE  ToldIncs \subseteq ToldIncs'
<1>1. \A a \in Agents : made'[a] >= made[a]
  <2>1. CASE \E a \in Agents, kind \in Kinds : Push(a, kind)
    BY <2>1 DEF Push, TypeOK
  <2>2. CASE UNCHANGED made
    BY <2>2 DEF TypeOK
  <2>3. [Next]_vars => UNCHANGED made \/ \E a \in Agents, kind \in Kinds : Push(a, kind)
    BY DEF Next, Turn, Timer, End, Lands, Resumes, Complete, RoomForDone, Fail, PushBreak,
           Interrupted, TimerFires, FlushById, FlushLands, StopChat, MemoryStop, Read,
           Leave, Clear, vars
  <2> QED BY <2>1, <2>2, <2>3
<1>2. \A x \in Increment : x.n \in Nat
  BY DEF Increment
<1>3. TypeOK'
  BY TypesStep
<1>4. made \in [Agents -> Nat] /\ made' \in [Agents -> Nat]
  BY <1>3 DEF TypeOK
<1> QED BY <1>1, <1>2, <1>4, TurnBreaks DEF ToldIncs

-----------------------------------------------------------------------------
(* Each step keeps what the frames hold *)

LEMMA PutMade ==
  ASSUME TypeOK, StreamMade, ToldIncs \subseteq ToldIncs', NEW item \in Frame,
         Single(item), Incs(item) \subseteq ToldIncs', Put(item) \/ UNCHANGED stream
  PROVE  StreamMade'
<1>1. \A i \in DOMAIN stream' : (i \in DOMAIN stream /\ stream'[i] = stream[i])
                               \/ stream'[i] = item
  BY DEF Put, TypeOK
<1> QED BY <1>1 DEF StreamMade, WellMade

LEMMA WorkKept ==
  ASSUME ToldIncs \subseteq ToldIncs', NEW w \in Workers, WorkMade(w), work'[w] = work[w]
  PROVE  WorkMade(w)'
BY DEF WorkMade, WellMade, OwnOK, OwnPush

\* A coroutine that carries nothing.
LEMMA EmptyWork ==
  ASSUME NEW w \in Workers, work'[w].frame = <<>>, work'[w].own = <<>>
  PROVE  WorkMade(w)'
BY EmptyMade DEF WorkMade, WellMade, OwnOK, OwnPush, Done

LEMMA DeliverMade ==
  ASSUME TypeOK, FramesOK, ToldIncs \subseteq ToldIncs',
         NEW w \in Workers, NEW frame \in Frame, NEW own \in Frame,
         NEW during \in States, NEW after \in States,
         Single(frame), Incs(frame) \subseteq ToldIncs',
         OwnPush(w, own), Incs(own) \subseteq ToldIncs',
         Deliver(w, frame, own, during, after)
  PROVE  StreamMade' /\ \A v \in Workers : WorkMade(v)'
<1>1. StreamMade'
  BY DeliverMoves, PutMade DEF FramesOK
<1>2. \A v \in Workers \ {w} : WorkMade(v)'
  BY DeliverMoves, WorkKept DEF FramesOK
<1>3. Single(own)
  BY OneMade, EmptyMade DEF OwnPush, Done
<1>4. WorkMade(w)'
  BY <1>3, DeliverMoves, EmptyMade DEF WorkMade, WellMade, OwnOK, OwnPush
<1> QED BY <1>1, <1>2, <1>4

LEMMA PushOwnMade ==
  ASSUME TypeOK, FramesOK, ToldIncs \subseteq ToldIncs', NEW w \in Workers,
         NEW own \in Frame, own # Done, OwnPush(w, own), Incs(own) \subseteq ToldIncs',
         PushOwn(w, own)
  PROVE  StreamMade' /\ PendingMade' /\ \A v \in Workers : WorkMade(v)'
<1>1. PICK x \in Increment : own = <<x>> /\ x.by = w /\ (w = Main => x.kind = "whole")
  BY DEF OwnPush
<1>2. Single(own) /\ Incs(own) = {x} /\ own[1] = x
  BY <1>1, OneMade, OneIncrement
<1>3. CASE Coalesced(own)
  <2>1. pending' = own /\ UNCHANGED stream /\ work' = [work EXCEPT ![w] = Idle]
    BY <1>3 DEF PushOwn, Open, channel
  <2>2. x.by \in Agents
    BY <1>1, <1>2, <1>3 DEF Coalesced, Increment
  <2>3. PendingMade'
    BY <1>2, <2>1, <2>2 DEF PendingMade, WellMade
  <2>4. \A v \in Workers : WorkMade(v)'
    <3>1. work'[w] = Idle /\ \A v \in Workers \ {w} : work'[v] = work[v]
      BY <2>1 DEF TypeOK
    <3> QED BY <3>1, EmptyWork, WorkKept DEF FramesOK, Idle, At
  <2>5. StreamMade'
    BY <2>1, EmptyMade, EmptyFrame, PutMade DEF FramesOK
  <2> QED BY <2>3, <2>4, <2>5
<1>4. CASE ~Coalesced(own)
  <2>1. Deliver(w, own, <<>>, "pushing", "ready") /\ UNCHANGED pending
    BY <1>4 DEF PushOwn, collector
  <2>2. StreamMade' /\ \A v \in Workers : WorkMade(v)'
    BY <1>2, <2>1, EmptyFrame, EmptyMade, DeliverMade DEF OwnPush, Done, States
  <2> QED BY <2>1, <2>2 DEF FramesOK, PendingMade, WellMade
<1> QED BY <1>3, <1>4

LEMMA FlushFirstMade ==
  ASSUME TypeOK, FramesOK, ToldIncs \subseteq ToldIncs', NEW w \in Workers,
         NEW own \in Frame, OwnPush(w, own), Incs(own) \subseteq ToldIncs',
         FlushFirst(w, own)
  PROVE  StreamMade' /\ PendingMade' /\ \A v \in Workers : WorkMade(v)'
<1>1. /\ pending \in Frame /\ Single(pending) /\ Incs(pending) \subseteq ToldIncs'
      /\ Deliver(w, pending, own, "flushing", "flushed") /\ pending' = <<>>
  BY DEF FlushFirst, TakePending, TypeOK, FramesOK, PendingMade, WellMade
<1>2. StreamMade' /\ \A v \in Workers : WorkMade(v)'
  BY <1>1, DeliverMade DEF States
<1> QED BY <1>1, <1>2, EmptyMade DEF PendingMade, WellMade

\* Nothing of the same coroutine was told behind x.
Fresh(x) == \A y \in ToldIncs : y.by = x.by => y.n < x.n

LEMMA PushMessageMade ==
  ASSUME TypeOK, FramesOK, ToldIncs \subseteq ToldIncs', NEW w \in Workers,
         NEW x \in ToldIncs', x \in Increment, x.by = w, w = Main => x.kind = "whole",
         Fresh(x), PushMessage(w, <<x>>)
  PROVE  StreamMade' /\ PendingMade' /\ \A v \in Workers : WorkMade(v)'
<1>1. /\ <<x>> \in Frame /\ <<x>> # Done /\ Incs(<<x>>) = {x} /\ <<x>>[1] = x
      /\ OwnPush(w, <<x>>)
  BY OneMade, OneIncrement DEF OwnPush, Done
<1>2. CASE FlushFirst(w, <<x>>)
  BY <1>1, <1>2, FlushFirstMade
<1>3. CASE PushOwn(w, <<x>>)
  BY <1>1, <1>3, PushOwnMade
<1>4. CASE /\ Joins(<<x>>) /\ Merge(<<x>>)
           /\ work' = [work EXCEPT ![w] = Idle]
           /\ UNCHANGED channel
  <2>1. x.by \in Agents /\ pending # <<>> /\ Uid[pending[1].by] = Uid[x.by]
    BY <1>1, <1>4 DEF Joins, Coalesced, Increment
  <2>2. pending \in Frame /\ 1 \in DOMAIN pending
    BY <2>1 DEF TypeOK, Frame
  <2>3. MessageOf(x) = MessageOf(pending[1])
    BY <2>1, <2>2, StreamAssumption DEF MessageOf, FramesOK, PendingMade, Incs
  <2>4. \A y \in Incs(pending) : y.by = x.by => y.n < x.n
    BY DEF Fresh, FramesOK, PendingMade, WellMade
  <2>5. Single(pending \o <<x>>) /\ Incs(pending \o <<x>>) = Incs(pending) \cup {x}
    BY <2>1, <2>2, <2>3, <2>4, JoinedMade DEF FramesOK, PendingMade, WellMade
  <2>6. pending' \in {pending, pending \o <<x>>}
    BY <1>4 DEF Merge
  <2>7. PendingMade'
    BY <2>1, <2>5, <2>6 DEF FramesOK, PendingMade, WellMade
  <2>8. \A v \in Workers : WorkMade(v)'
    <3>1. work'[w] = Idle /\ \A v \in Workers \ {w} : work'[v] = work[v]
      BY <1>4 DEF TypeOK
    <3> QED BY <3>1, EmptyWork, WorkKept DEF FramesOK, Idle, At
  <2>9. StreamMade'
    BY <1>4, EmptyMade, EmptyFrame, PutMade DEF FramesOK, channel
  <2> QED BY <2>7, <2>8, <2>9
<1> QED BY <1>2, <1>3, <1>4 DEF PushMessage
LEMMA PutDoneMade ==
  ASSUME TypeOK, FramesOK, ToldIncs \subseteq ToldIncs', NEW w \in Workers, PutDone(w)
  PROVE  StreamMade' /\ \A v \in Workers : WorkMade(v)'
<1>1. StreamMade'
  BY EmptyFrame, EmptyMade, PutMade DEF PutDone, FramesOK, Done
<1>2. /\ work'[w].frame = <<>> /\ work'[w].own = <<>>
      /\ \A v \in Workers \ {w} : work'[v] = work[v]
  BY DEF PutDone, At, TypeOK
<1> QED BY <1>1, <1>2, EmptyWork, WorkKept DEF FramesOK

LEMMA FlushThenDoneMade ==
  ASSUME TypeOK, FramesOK, ToldIncs \subseteq ToldIncs', NEW w \in Workers,
         FlushThenDone(w)
  PROVE  StreamMade' /\ PendingMade' /\ \A v \in Workers : WorkMade(v)'
<1>1. CASE FlushFirst(w, Done)
  BY <1>1, EmptyFrame, EmptyMade, FlushFirstMade DEF OwnPush, Done
<1>2. CASE PutDone(w) /\ UNCHANGED collector
  BY <1>2, PutDoneMade DEF collector, FramesOK, PendingMade, WellMade
<1> QED BY <1>1, <1>2 DEF FlushThenDone

\* The increment of a push, and the one of a break, are told after all others.
LEMMA PushedIsFresh ==
  ASSUME TypeOK, NEW a \in Agents, NEW kind \in Kinds, Push(a, kind)
  PROVE  LET x == [by |-> a, n |-> made[a] + 1, kind |-> kind]
         IN  /\ x \in Increment /\ x \in ToldIncs' /\ x.by = a /\ Fresh(x)
             /\ a # Main /\ a \in Workers
<1> DEFINE x == [by |-> a, n |-> made[a] + 1, kind |-> kind]
<1>1. made[a] \in Nat /\ made'[a] = made[a] + 1
  BY DEF Push, TypeOK
<1>2. x \in Increment /\ x.by = a /\ x.n = made[a] + 1
  BY <1>1, StreamAssumption DEF Increment
<1> HIDE DEF x
<1>3. a # Main /\ a \in Workers
  BY StreamAssumption DEF Workers
<1>4. x \in ToldIncs'
  BY <1>1, <1>2 DEF ToldIncs
<1>5. Fresh(x)
  BY <1>1, <1>2, <1>3 DEF Fresh, ToldIncs, Increment
<1> QED BY <1>2, <1>3, <1>4, <1>5 DEF x

LEMMA BreakIsFresh ==
  ASSUME TypeOK, BreaksOnce, PushBreak
  PROVE  /\ BreakIncrement \in Increment /\ BreakIncrement \in ToldIncs'
         /\ BreakIncrement.by = Main /\ BreakIncrement.kind = "whole"
         /\ Fresh(BreakIncrement) /\ Main \in Workers
<1>1. /\ BreakIncrement \in Increment /\ Main \in Workers
      /\ BreakIncrement.by = Main /\ BreakIncrement.kind = "whole"
  BY DEF BreakIncrement, Increment, Workers
<1>2. ending # "none" /\ ending' = ending /\ work[Main].at = "breaking"
  BY DEF PushBreak, BreaksOnce
<1>3. work'[Main].at # "breaking"
  <2>1. <<BreakIncrement>> \in Frame /\ <<>> \in Frame /\ pending \in Frame
    BY <1>1, OneIncrement, EmptyFrame DEF TypeOK
  <2>2. Idle.at = "ready"
    BY DEF Idle, At
  <2>3. CASE work' = [work EXCEPT ![Main] = Idle]
    BY <1>1, <2>2, <2>3 DEF TypeOK
  <2>4. CASE Deliver(Main, <<BreakIncrement>>, <<>>, "pushing", "ready")
    BY <1>1, <2>1, <2>4, DeliverMoves DEF States
  <2>5. CASE Deliver(Main, pending, <<BreakIncrement>>, "flushing", "flushed")
    BY <1>1, <2>1, <2>5, DeliverMoves DEF States
  <2> QED BY <2>3, <2>4, <2>5 DEF PushBreak, PushMessage, PushOwn, FlushFirst, BreakIncrement
<1>4. Fresh(BreakIncrement)
  BY <1>1, <1>2, StreamAssumption DEF Fresh, ToldIncs
<1>5. BreakIncrement \in ToldIncs'
  BY <1>1, <1>2, <1>3 DEF ToldIncs
<1> QED BY <1>1, <1>4, <1>5

LEMMA FramesStep ==
  ASSUME TypeOK, FramesOK, [Next]_vars
  PROVE  FramesOK'
<1>1. ToldIncs \subseteq ToldIncs' /\ BreaksOnce'
  BY ToldKept, TurnBreaks DEF FramesOK
<1> DEFINE Goal == StreamMade' /\ PendingMade' /\ \A v \in Workers : WorkMade(v)'
<1>2. UNCHANGED pending => PendingMade'
  BY <1>1 DEF FramesOK, PendingMade, WellMade
<1>3. UNCHANGED stream => StreamMade'
  BY <1>1, EmptyMade, EmptyFrame, PutMade DEF FramesOK
<1>4. UNCHANGED work => \A v \in Workers : WorkMade(v)'
  BY <1>1, WorkKept DEF FramesOK
<1>5. UNCHANGED flying => FlyingMade'
  BY <1>1 DEF FramesOK, FlyingMade, WellMade
<1>6. ASSUME NEW w \in Workers, \A v \in Workers \ {w} : work'[v] = work[v],
             work'[w].frame = <<>>, work'[w].own \in {work[w].own, Done}
      PROVE  \A v \in Workers : WorkMade(v)'
  <2>1. WorkMade(w)'
    BY <1>1, <1>6, EmptyMade DEF FramesOK, WorkMade, WellMade, OwnOK, OwnPush, Done
  <2> QED BY <1>1, <1>6, <2>1, WorkKept DEF FramesOK
<1>7. ASSUME NEW a \in Agents, NEW kind \in Kinds, Push(a, kind)
      PROVE  Goal
  <2> DEFINE x == [by |-> a, n |-> made[a] + 1, kind |-> kind]
  <2>1. x \in Increment /\ x \in ToldIncs' /\ x.by = a /\ Fresh(x) /\ a # Main /\ a \in Workers
    BY <1>7, PushedIsFresh
  <2>2. PushMessage(a, <<x>>)
    BY <1>7 DEF Push
  <2> HIDE DEF x
  <2> QED BY <1>1, <2>1, <2>2, PushMessageMade
<1>8. ASSUME PushBreak
      PROVE  Goal
  <2>1. CASE PushMessage(Main, <<BreakIncrement>>)
    BY <1>1, <1>8, <2>1, BreakIsFresh, PushMessageMade DEF FramesOK
  <2>2. CASE work' = [work EXCEPT ![Main] = Idle] /\ UNCHANGED <<collector, channel>>
    <3>1. /\ work'[Main].frame = <<>> /\ work'[Main].own = Done
          /\ \A v \in Workers \ {Main} : work'[v] = work[v] /\ Main \in Workers
      BY <2>2 DEF TypeOK, Idle, At, Done, Workers
    <3> QED BY <1>2, <1>3, <1>6, <2>2, <3>1 DEF collector, channel, Workers
  <2> QED BY <1>8, <2>1, <2>2 DEF PushBreak, BreakIncrement
<1>9. ASSUME NEW w \in Workers, Resumes(w)
      PROVE  Goal
  <2>1. CASE work[w].own = Done
    BY <1>1, <1>2, <1>9, <2>1, PutDoneMade DEF Resumes, collector
  <2>2. CASE work[w].own # Done
    <3>1. PushOwn(w, work[w].own) /\ work[w].own \in Frame
      BY <1>9, <2>2 DEF Resumes, TypeOK, Work
    <3>2. OwnPush(w, work[w].own) /\ Incs(work[w].own) \subseteq ToldIncs'
      <4>1. OwnOK(w) /\ WellMade(work[w].own)
        BY DEF FramesOK, WorkMade
      <4>2. OwnPush(w, work[w].own)
        BY <4>1 DEF OwnOK, OwnPush
      <4> QED BY <1>1, <4>1, <4>2 DEF WellMade
    <3> QED BY <1>1, <2>2, <3>1, <3>2, PushOwnMade
  <2> QED BY <2>1, <2>2
<1>10. ASSUME NEW w \in Workers, Lands(w)
       PROVE  Goal
  <2>1. StreamMade'
    <3>1. Single(work[w].frame) /\ Incs(work[w].frame) \subseteq ToldIncs'
      BY <1>1 DEF FramesOK, WorkMade, WellMade
    <3> QED BY <1>1, <1>10, <3>1, LandsMoves, PutMade DEF FramesOK
  <2>2. UNCHANGED pending
    BY <1>10 DEF Lands, collector
  <2> QED BY <1>2, <1>6, <1>10, <2>1, <2>2, LandsMoves
<1>11. ASSUME Complete \/ MemoryStop
       PROVE  Goal
  <2>1. CASE FlushThenDone(Main) \/ FlushThenDone(Stopper)
    BY <1>1, <2>1, FlushThenDoneMade DEF Workers
  <2>2. ASSUME NEW w \in {Main, Stopper}, work' = [work EXCEPT ![w] = At("ended")],
               UNCHANGED <<collector, channel>>
        PROVE  Goal
    <3>1. /\ work'[w].frame = <<>> /\ work'[w].own = Done /\ w \in Workers
          /\ \A v \in Workers \ {w} : work'[v] = work[v]
      BY <2>2 DEF TypeOK, At, Done, Workers
    <3> QED BY <1>2, <1>3, <1>6, <2>2, <3>1 DEF collector, channel
  <2> QED BY <1>11, <2>1, <2>2 DEF Complete, MemoryStop, collector
<1>12. ASSUME RoomForDone
       PROVE  Goal
  BY <1>1, <1>2, <1>12, PutDoneMade DEF RoomForDone, collector, Workers
<1>13. ASSUME Fail \/ Interrupted
       PROVE  Goal
  <2>1. \A v \in Workers : work'[v] = work[v] \/ (work'[v].frame = <<>> /\ work'[v].own = <<>>)
    BY <1>13 DEF Fail, Interrupted, At, Idle, TypeOK
  <2> QED BY <1>1, <1>2, <1>3, <1>13, <2>1, EmptyWork, WorkKept
          DEF Fail, Interrupted, collector, channel, FramesOK
<1>14. ASSUME StopChat \/ \E a \in Agents : End(a)
       PROVE  Goal
  <2>1. \A v \in Workers : work'[v] = work[v] \/ (work'[v].frame = <<>> /\ work'[v].own = <<>>)
    BY <1>14 DEF StopChat, End, At, TypeOK
  <2> QED BY <1>1, <1>2, <1>3, <1>14, <2>1, EmptyWork, WorkKept
          DEF StopChat, End, collector, channel, FramesOK
<1>15. ASSUME Read \/ Leave \/ TimerFires \/ UNCHANGED vars
       PROVE  Goal
  BY <1>2, <1>3, <1>4, <1>15 DEF Read, Leave, TimerFires, vars, collector, channel
<1>16. ASSUME Clear
       PROVE  Goal
  BY <1>1, <1>2, <1>4, <1>16, EmptyFrame, EmptyMade, PutMade
     DEF Clear, collector, FramesOK, Done
<1>17. ASSUME FlushById
       PROVE  Goal
  <2>1. /\ pending \in Frame /\ Single(pending) /\ Incs(pending) \subseteq ToldIncs'
    BY <1>1 DEF TypeOK, FramesOK, PendingMade, WellMade
  <2>2. StreamMade'
    <3>1. Put(pending) \/ UNCHANGED stream
      BY <1>17 DEF FlushById
    <3> QED BY <1>1, <2>1, <3>1, PutMade DEF FramesOK
  <2>3. PendingMade'
    <3>1. pending' = <<>> \/ UNCHANGED pending
      BY <1>17 DEF FlushById, TakePending, collector
    <3> QED BY <1>2, <3>1, EmptyMade DEF PendingMade, WellMade
  <2>4. UNCHANGED work
    BY <1>17 DEF FlushById
  <2> QED BY <1>4, <2>2, <2>3, <2>4
<1>18. ASSUME NEW frame \in flying, FlushLands(frame)
       PROVE  Goal
  <2>1. frame \in Frame /\ Single(frame) /\ Incs(frame) \subseteq ToldIncs'
    BY <1>1 DEF TypeOK, FramesOK, FlyingMade, WellMade
  <2>2. StreamMade'
    BY <1>1, <1>18, <2>1, PutMade DEF FlushLands, FramesOK
  <2> QED BY <1>2, <1>4, <1>18, <2>2 DEF FlushLands, collector
<1>19. Goal
  BY <1>7, <1>8, <1>9, <1>10, <1>11, <1>12, <1>13, <1>14, <1>15, <1>16, <1>17, <1>18
     DEF Next, Turn, Timer
<1>20. FlyingMade'
  <2>1. CASE FlushById
    BY <1>1, <2>1 DEF FlushById, FramesOK, FlyingMade, PendingMade, WellMade
  <2>2. CASE \E frame \in flying : FlushLands(frame)
    BY <1>1, <2>2 DEF FlushLands, FramesOK, FlyingMade, WellMade
  <2>3. UNCHANGED flying \/ FlushById \/ \E frame \in flying : FlushLands(frame)
    BY DEF Next, Turn, Timer, End, Push, Lands, Resumes, Complete, RoomForDone, Fail,
           PushBreak, Interrupted, TimerFires, StopChat, MemoryStop, Read, Leave, Clear, vars
  <2> QED BY <1>5, <2>1, <2>2, <2>3
<1> QED BY <1>1, <1>19, <1>20 DEF FramesOK

LEMMA FramesInit == Init => FramesOK
<1>1. Init => /\ stream = <<>> /\ pending = <<>> /\ flying = {}
              /\ \A w \in Workers : /\ work[w].frame = <<>> /\ work[w].own = <<>>
                                     /\ work[w].at = "ready"
  BY DEF Init, Idle, At
<1>2. Main \in Workers
  BY DEF Workers
<1> QED BY <1>1, <1>2, EmptyMade DEF FramesOK, StreamMade, PendingMade, FlyingMade, BreaksOnce,
        WorkMade, WellMade, OwnOK, OwnPush, Done

LEMMA FramesHold == Spec => [](TypeOK /\ FramesOK)
BY InitTypes, TypesStep, FramesInit, FramesStep, PTL DEF Spec

\* Whatever overlaps, a frame shows one message and the order of its tokens.
THEOREM FramesDoNotMix == Spec => []OneMessageAFrame
<1>1. TypeOK /\ FramesOK => OneMessageAFrame
  BY DEF FramesOK, StreamMade, WellMade, Single, OneMessageAFrame
<1> QED BY <1>1, FramesHold, PTL
-----------------------------------------------------------------------------
(***************************************************************************)
(* An increment is in one place: in one frame of the stream, in what is    *)
(* pending, in a frame that a flush task or a coroutine is having made, or *)
(* in what a coroutine will push next.                                     *)
(***************************************************************************)
Shown   == UNION {Incs(stream[i]) : i \in DOMAIN stream}
Flown   == UNION {Incs(frame) : frame \in flying}
Held(w) == Incs(work[w].frame) \cup Incs(work[w].own)

StreamApart ==
  \A i, j \in DOMAIN stream : i # j => Incs(stream[i]) \cap Incs(stream[j]) = {}
FlyingApart ==
  \A f, g \in flying : f # g => Incs(f) \cap Incs(g) = {}
WorkApart ==
  \A w \in Workers : /\ Incs(work[w].frame) \cap Incs(work[w].own) = {}
                     /\ Held(w) \cap (Shown \cup Flown \cup Incs(pending)) = {}
                     /\ \A v \in Workers \ {w} : Held(w) \cap Held(v) = {}
PlacesApart ==
  /\ Shown \cap Flown = {} /\ Shown \cap Incs(pending) = {} /\ Flown \cap Incs(pending) = {}

OnePlace == StreamApart /\ FlyingApart /\ WorkApart /\ PlacesApart

LEMMA ShownGrows ==
  ASSUME TypeOK, StreamApart, NEW item \in Frame, Put(item) \/ UNCHANGED stream,
         Incs(item) \cap Shown = {}
  PROVE  StreamApart' /\ Shown' \subseteq Shown \cup Incs(item)
<1>1. CASE UNCHANGED stream
  BY <1>1 DEF StreamApart, Shown
<1>2. CASE stream' = Append(stream, item)
  <2>1. /\ DOMAIN stream' = 1..(Len(stream) + 1) /\ DOMAIN stream = 1..Len(stream)
        /\ \A i \in DOMAIN stream : stream'[i] = stream[i]
        /\ stream'[Len(stream) + 1] = item /\ Len(stream) \in Nat
    BY <1>2 DEF TypeOK
  <2>2. \A i \in DOMAIN stream : Incs(stream[i]) \cap Incs(item) = {}
    BY DEF Shown
  <2>3. StreamApart'
    <3> SUFFICES ASSUME NEW i \in DOMAIN stream', NEW j \in DOMAIN stream', i # j
                 PROVE  Incs(stream'[i]) \cap Incs(stream'[j]) = {}
      BY DEF StreamApart
    <3>1. CASE i \in DOMAIN stream /\ j \in DOMAIN stream
      BY <2>1, <3>1 DEF StreamApart
    <3>2. CASE i = Len(stream) + 1
      BY <2>1, <2>2, <3>2
    <3>3. CASE j = Len(stream) + 1
      BY <2>1, <2>2, <3>3
    <3> QED BY <2>1, <3>1, <3>2, <3>3
  <2>4. Shown' \subseteq Shown \cup Incs(item)
    BY <2>1 DEF Shown
  <2> QED BY <2>3, <2>4
<1> QED BY <1>1, <1>2 DEF Put

\* A coroutine moves what is pending, what it holds and what is new.
Moves(w, new) ==
  LET gain == Shown' \ Shown
      coll == Incs(pending')
      view == Incs(work'[w].frame)
      own  == Incs(work'[w].own)
  IN  /\ StreamApart' /\ UNCHANGED flying
      /\ \A v \in Workers \ {w} : work'[v] = work[v]
      /\ (gain \cup coll \cup view \cup own) \subseteq (Incs(pending) \cup Held(w) \cup new)
      /\ gain \cap coll = {} /\ gain \cap view = {} /\ gain \cap own = {}
      /\ coll \cap view = {} /\ coll \cap own = {} /\ view \cap own = {}

LEMMA MovesKeepApart ==
  ASSUME OnePlace, NEW w \in Workers, NEW new,
         new \cap (Shown \cup Flown \cup Incs(pending)) = {},
         \A v \in Workers : new \cap Held(v) = {},
         Moves(w, new)
  PROVE  OnePlace'
<1> DEFINE gain == Shown' \ Shown
           stock == Incs(pending) \cup Held(w) \cup new
<1>1. Flown' = Flown /\ FlyingApart' /\ StreamApart'
  BY DEF Moves, OnePlace, FlyingApart, Flown
<1>2. \A v \in Workers \ {w} : Held(v)' = Held(v) /\ work'[v] = work[v]
  BY DEF Moves, Held
<1>3. Held(w)' = Incs(work'[w].frame) \cup Incs(work'[w].own)
  BY DEF Held
<1>4. /\ gain \subseteq stock /\ Incs(pending') \subseteq stock /\ Held(w)' \subseteq stock
      /\ gain \cap Incs(pending') = {} /\ gain \cap Held(w)' = {}
      /\ Incs(pending') \cap Held(w)' = {}
      /\ Incs(work'[w].frame) \cap Incs(work'[w].own) = {}
  BY <1>3 DEF Moves
<1>5. /\ stock \cap Shown = {} /\ stock \cap Flown = {}
      /\ \A v \in Workers \ {w} : stock \cap Held(v) = {}
  BY DEF OnePlace, WorkApart, PlacesApart
<1>6. Shown' \subseteq Shown \cup gain
  OBVIOUS
<1> HIDE DEF gain, stock
<1>7. PlacesApart'
  <2>1. Shown \cap Flown = {}
    BY DEF OnePlace, PlacesApart
  <2> QED BY <1>1, <1>4, <1>5, <1>6, <2>1 DEF PlacesApart
<1>8. WorkApart'
  <2> SUFFICES ASSUME NEW v \in Workers
               PROVE  /\ Incs(work'[v].frame) \cap Incs(work'[v].own) = {}
                      /\ Held(v)' \cap (Shown' \cup Flown' \cup Incs(pending')) = {}
                      /\ \A u \in Workers \ {v} : Held(v)' \cap Held(u)' = {}
    BY DEF WorkApart
  <2>1. CASE v = w
    BY <1>1, <1>2, <1>4, <1>5, <1>6, <2>1
  <2>2. CASE v # w
    <3>1. /\ Incs(work[v].frame) \cap Incs(work[v].own) = {}
          /\ Held(v) \cap (Shown \cup Flown) = {}
          /\ \A u \in Workers \ {v} : Held(v) \cap Held(u) = {}
      BY DEF OnePlace, WorkApart
    <3>2. stock \cap Held(v) = {}
      BY <1>5, <2>2
    <3>3. Incs(work'[v].frame) \cap Incs(work'[v].own) = {}
      BY <1>2, <2>2, <3>1
    <3>4. Held(v)' \cap (Shown' \cup Flown' \cup Incs(pending')) = {}
      BY <1>1, <1>2, <1>4, <1>6, <2>2, <3>1, <3>2
    <3>5. \A u \in Workers \ {v} : Held(v)' \cap Held(u)' = {}
      BY <1>2, <1>4, <2>2, <3>1, <3>2
    <3> QED BY <3>3, <3>4, <3>5
  <2> QED BY <2>1, <2>2
<1> QED BY <1>1, <1>7, <1>8 DEF OnePlace
LEMMA DeliverPlaces ==
  ASSUME TypeOK, StreamApart, NEW w \in Workers, NEW frame \in Frame, NEW own \in Frame,
         NEW during \in States, NEW after \in States,
         Incs(frame) \cap Shown = {}, Deliver(w, frame, own, during, after)
  PROVE  /\ StreamApart' /\ \A v \in Workers \ {w} : work'[v] = work[v]
         /\ Incs(work'[w].own) = Incs(own)
         /\ \/ Incs(work'[w].frame) = Incs(frame) /\ Shown' = Shown
            \/ Incs(work'[w].frame) = {} /\ Shown' \subseteq Shown \cup Incs(frame)
<1>1. UNCHANGED stream => Shown' = Shown
  BY DEF Shown
<1>2. StreamApart' /\ Shown' \subseteq Shown \cup Incs(frame)
  BY DeliverMoves, ShownGrows
<1> QED BY <1>1, <1>2, DeliverMoves, EmptyMade

LEMMA PushOwnPlaces ==
  ASSUME TypeOK, OnePlace, NEW w \in Workers, NEW own \in Frame, NEW new,
         Incs(own) \subseteq new \/ own = work[w].own,
         Incs(own) \cap (Shown \cup Incs(pending)) = {},
         PushOwn(w, own), UNCHANGED flying
  PROVE  Moves(w, new)
<1>1. Incs(own) \subseteq Held(w) \cup new
  BY DEF Held
<1>2. CASE Coalesced(own)
  <2>1. pending' = own /\ UNCHANGED stream /\ work' = [work EXCEPT ![w] = Idle]
    BY <1>2 DEF PushOwn, Open, channel
  <2>2. Shown' = Shown /\ StreamApart'
    BY <2>1 DEF Shown, OnePlace, StreamApart
  <2>3. /\ \A v \in Workers \ {w} : work'[v] = work[v]
        /\ Incs(work'[w].frame) = {} /\ Incs(work'[w].own) = {}
    BY <2>1, EmptyMade DEF TypeOK, Idle, At
  <2> QED BY <1>1, <2>1, <2>2, <2>3 DEF Moves
<1>3. CASE ~Coalesced(own)
  <2>1. Deliver(w, own, <<>>, "pushing", "ready") /\ UNCHANGED pending
    BY <1>3 DEF PushOwn, collector
  <2>2. /\ StreamApart' /\ \A v \in Workers \ {w} : work'[v] = work[v]
        /\ Incs(work'[w].own) = {}
        /\ \/ Incs(work'[w].frame) = Incs(own) /\ Shown' = Shown
           \/ Incs(work'[w].frame) = {} /\ Shown' \subseteq Shown \cup Incs(own)
    <3>1. StreamApart /\ Incs(own) \cap Shown = {} /\ <<>> \in Frame /\ Incs(<<>>) = {}
      BY EmptyFrame, EmptyMade DEF OnePlace
    <3>2. "pushing" \in States /\ "ready" \in States
      BY DEF States
    <3>3. /\ StreamApart' /\ \A v \in Workers \ {w} : work'[v] = work[v]
          /\ Incs(work'[w].own) = Incs(<<>>)
          /\ \/ Incs(work'[w].frame) = Incs(own) /\ Shown' = Shown
             \/ Incs(work'[w].frame) = {} /\ Shown' \subseteq Shown \cup Incs(own)
      BY <2>1, <3>1, <3>2, DeliverPlaces
    <3> QED BY <3>1, <3>3
  <2>3. Incs(pending') = Incs(pending) /\ Incs(own) \cap Incs(pending) = {}
    BY <2>1
  <2> QED BY <1>1, <2>2, <2>3 DEF Moves
<1> QED BY <1>2, <1>3

LEMMA FlushFirstPlaces ==
  ASSUME TypeOK, OnePlace, NEW w \in Workers, NEW own \in Frame, NEW new,
         Incs(own) \subseteq new, Incs(own) \cap (Shown \cup Incs(pending)) = {},
         FlushFirst(w, own), UNCHANGED flying
  PROVE  Moves(w, new)
<1>1. /\ pending \in Frame /\ Deliver(w, pending, own, "flushing", "flushed")
      /\ pending' = <<>> /\ Incs(pending) \cap Shown = {}
  BY DEF FlushFirst, TakePending, TypeOK, OnePlace, PlacesApart
<1>2. /\ StreamApart' /\ \A v \in Workers \ {w} : work'[v] = work[v]
      /\ Incs(work'[w].own) = Incs(own)
      /\ \/ Incs(work'[w].frame) = Incs(pending) /\ Shown' = Shown
         \/ Incs(work'[w].frame) = {} /\ Shown' \subseteq Shown \cup Incs(pending)
  BY <1>1, DeliverPlaces DEF States, OnePlace
<1>3. Incs(pending') = {}
  BY <1>1, EmptyMade
<1> QED BY <1>2, <1>3 DEF Moves

LEMMA JoinedIncs ==
  ASSUME NEW frame \in Frame, NEW x \in Increment
  PROVE  Incs(frame \o <<x>>) \subseteq Incs(frame) \cup {x}
<1> DEFINE joined == frame \o <<x>>
<1>1. /\ DOMAIN joined = 1..(Len(frame) + 1) /\ DOMAIN frame = 1..Len(frame)
      /\ Len(frame) \in Nat /\ joined[Len(frame) + 1] = x
      /\ \A k \in 1..Len(frame) : joined[k] = frame[k]
  BY DEF Frame
<1> HIDE DEF joined
<1>2. \A k \in DOMAIN joined : joined[k] = x \/ \E l \in DOMAIN frame : joined[k] = frame[l]
  BY <1>1
<1>3. Incs(joined) \subseteq Incs(frame) \cup {x}
  BY <1>2 DEF Incs
<1> QED BY <1>3 DEF joined

LEMMA PushMessagePlaces ==
  ASSUME TypeOK, FramesOK, OnePlace, NEW w \in Workers, NEW x \in Increment,
         {x} \cap (Shown \cup Incs(pending)) = {},
         PushMessage(w, <<x>>), UNCHANGED flying
  PROVE  Moves(w, {x})
<1>1. <<x>> \in Frame /\ Incs(<<x>>) = {x}
  BY OneMade, OneIncrement
<1>2. CASE FlushFirst(w, <<x>>)
  BY <1>1, <1>2, FlushFirstPlaces
<1>3. CASE PushOwn(w, <<x>>)
  BY <1>1, <1>3, PushOwnPlaces
<1>4. CASE /\ Joins(<<x>>) /\ Merge(<<x>>)
           /\ work' = [work EXCEPT ![w] = Idle]
           /\ UNCHANGED channel
  <2>1. pending' \in {pending, pending \o <<x>>}
    BY <1>4 DEF Merge
  <2>2. Incs(pending \o <<x>>) \subseteq Incs(pending) \cup {x}
    BY JoinedIncs DEF TypeOK
  <2>3. Shown' = Shown /\ StreamApart'
    BY <1>4 DEF channel, Shown, OnePlace, StreamApart
  <2>4. /\ \A v \in Workers \ {w} : work'[v] = work[v]
        /\ Incs(work'[w].frame) = {} /\ Incs(work'[w].own) = {}
    BY <1>4, EmptyMade DEF TypeOK, Idle, At
  <2>5. Incs(pending') \subseteq Incs(pending) \cup {x}
    BY <2>1, <2>2
  <2> QED BY <2>3, <2>4, <2>5 DEF Moves
<1> QED BY <1>2, <1>3, <1>4 DEF PushMessage

\* A coroutine that lets go of what it held; what is put shows nothing.
LEMMA DropPlaces ==
  ASSUME TypeOK, OnePlace, NEW w \in Workers, UNCHANGED <<pending, flying>>,
         \A v \in Workers \ {w} : work'[v] = work[v],
         work'[w].frame = <<>>, work'[w].own \in {work[w].own, Done},
         Put(Done) \/ UNCHANGED stream \/ (Put(work[w].frame) /\ work[w].frame \in Frame)
  PROVE  Moves(w, {})
<1>1. /\ Incs(work[w].frame) \cap Incs(work[w].own) = {}
      /\ Incs(work[w].frame) \cap (Shown \cup Incs(pending)) = {}
      /\ Incs(work[w].own) \cap (Shown \cup Incs(pending)) = {}
  BY DEF OnePlace, WorkApart, Held
<1>2. StreamApart' /\ Shown' \subseteq Shown \cup Incs(work[w].frame)
  <2>1. CASE Put(Done) \/ UNCHANGED stream
    <3>1. Done \in Frame /\ Incs(Done) = {}
      BY EmptyFrame, EmptyMade DEF Done
    <3> QED BY <2>1, <3>1, ShownGrows DEF OnePlace
  <2>2. CASE Put(work[w].frame) /\ work[w].frame \in Frame
    BY <1>1, <2>2, ShownGrows DEF OnePlace
  <2> QED BY <2>1, <2>2
<1>3. /\ Incs(work'[w].frame) = {} /\ Incs(work'[w].own) \subseteq Incs(work[w].own)
      /\ Incs(pending') = Incs(pending)
  BY EmptyMade DEF Done
<1> QED BY <1>1, <1>2, <1>3 DEF Moves, Held

LEMMA FlushThenDonePlaces ==
  ASSUME TypeOK, OnePlace, NEW w \in Workers, FlushThenDone(w), UNCHANGED flying
  PROVE  Moves(w, {})
<1>1. CASE FlushFirst(w, Done)
  BY <1>1, EmptyFrame, EmptyMade, FlushFirstPlaces DEF Done
<1>2. CASE PutDone(w) /\ UNCHANGED collector
  <2>1. /\ \A v \in Workers \ {w} : work'[v] = work[v]
        /\ work'[w].frame = <<>> /\ work'[w].own = Done /\ Put(Done) /\ UNCHANGED pending
    BY <1>2 DEF PutDone, At, Done, TypeOK, collector
  <2> QED BY <2>1, DropPlaces
<1> QED BY <1>1, <1>2 DEF FlushThenDone

\* A fresh increment is in no place yet.
LEMMA FreshIsNowhere ==
  ASSUME TypeOK, FramesOK, NEW x \in Increment, Fresh(x)
  PROVE  /\ {x} \cap (Shown \cup Flown \cup Incs(pending)) = {}
         /\ \A v \in Workers : {x} \cap Held(v) = {}
<1>1. x \notin ToldIncs
  BY DEF Fresh, Increment
<1>2. /\ Shown \subseteq ToldIncs /\ Flown \subseteq ToldIncs /\ Incs(pending) \subseteq ToldIncs
  BY DEF FramesOK, StreamMade, FlyingMade, PendingMade, WellMade, Shown, Flown
<1>3. \A v \in Workers : Held(v) \subseteq ToldIncs
  BY DEF FramesOK, WorkMade, WellMade, Held
<1> QED BY <1>1, <1>2, <1>3
\* Steps that put nothing but "[DONE]" and take from coroutines what they hold.
LEMMA LettingGo ==
  ASSUME TypeOK, OnePlace, UNCHANGED <<pending, flying>>, UNCHANGED stream \/ Put(Done),
         \A v \in Workers : work'[v] = work[v] \/ (work'[v].frame = <<>> /\ work'[v].own = <<>>)
  PROVE  OnePlace'
<1>1. StreamApart' /\ Shown' \subseteq Shown
  <2>1. Done \in Frame /\ Incs(Done) = {}
    BY EmptyFrame, EmptyMade DEF Done
  <2> QED BY <2>1, ShownGrows DEF OnePlace
<1>2. \A v \in Workers : /\ Held(v)' \subseteq Held(v)
                        /\ Incs(work'[v].frame) \subseteq Incs(work[v].frame)
                        /\ Incs(work'[v].own) \subseteq Incs(work[v].own)
  BY EmptyMade DEF Held
<1>3. Flown' = Flown /\ FlyingApart'
  BY DEF Flown, OnePlace, FlyingApart
<1>4. PlacesApart'
  BY <1>1, <1>3 DEF OnePlace, PlacesApart
<1>5. WorkApart'
  <2> SUFFICES ASSUME NEW v \in Workers
               PROVE  /\ Incs(work'[v].frame) \cap Incs(work'[v].own) = {}
                      /\ Held(v)' \cap (Shown' \cup Flown' \cup Incs(pending')) = {}
                      /\ \A u \in Workers \ {v} : Held(v)' \cap Held(u)' = {}
    BY DEF WorkApart
  <2>1. /\ Incs(work[v].frame) \cap Incs(work[v].own) = {}
        /\ Held(v) \cap (Shown \cup Flown \cup Incs(pending)) = {}
        /\ \A u \in Workers \ {v} : Held(v) \cap Held(u) = {}
    BY DEF OnePlace, WorkApart
  <2>2. Incs(work'[v].frame) \cap Incs(work'[v].own) = {}
    BY <1>2, <2>1
  <2>3. Held(v)' \cap (Shown' \cup Flown' \cup Incs(pending')) = {}
    BY <1>1, <1>2, <1>3, <2>1
  <2>4. \A u \in Workers \ {v} : Held(v)' \cap Held(u)' = {}
    BY <1>2, <2>1
  <2> QED BY <2>2, <2>3, <2>4
<1> QED BY <1>1, <1>3, <1>4, <1>5 DEF OnePlace

LEMMA FlushByIdPlaces ==
  ASSUME TypeOK, OnePlace, FlushById
  PROVE  OnePlace'
<1>1. UNCHANGED work /\ \A v \in Workers : Held(v)' = Held(v)
  BY DEF FlushById, Held
<1>2. CASE ~(cached /\ pending # <<>>)
  <2>1. UNCHANGED <<pending, flying, stream>>
    BY <1>2 DEF FlushById, collector
  <2> QED BY <1>1, <2>1, LettingGo
<1>3. CASE cached /\ pending # <<>>
  <2>1. pending \in Frame /\ pending' = <<>> /\ Incs(pending') = {}
    BY <1>3, EmptyMade DEF FlushById, TakePending, TypeOK
  <2>2. /\ Incs(pending) \cap Shown = {} /\ Incs(pending) \cap Flown = {} /\ Shown \cap Flown = {}
        /\ \A v \in Workers : Held(v) \cap (Shown \cup Flown \cup Incs(pending)) = {}
        /\ \A v \in Workers : Incs(work[v].frame) \cap Incs(work[v].own) = {}
        /\ \A v \in Workers : \A u \in Workers \ {v} : Held(v) \cap Held(u) = {}
    BY DEF OnePlace, PlacesApart, WorkApart
  <2>3. /\ StreamApart' /\ FlyingApart' /\ Shown' \cap Flown' = {}
        /\ (Shown' \cup Flown') \subseteq (Shown \cup Flown \cup Incs(pending))
    <3>1. CASE flying' = flying \cup {pending} /\ UNCHANGED stream
      <4>1. Flown' = Flown \cup Incs(pending) /\ Shown' = Shown /\ StreamApart'
        BY <3>1 DEF Flown, Shown, OnePlace, StreamApart
      <4>2. \A f \in flying : Incs(f) \cap Incs(pending) = {}
        BY <2>2 DEF Flown
      <4>3. FlyingApart'
        BY <3>1, <4>2 DEF OnePlace, FlyingApart
      <4> QED BY <2>2, <4>1, <4>3
    <3>2. CASE Put(pending) /\ UNCHANGED flying
      <4>1. Flown' = Flown /\ FlyingApart'
        BY <3>2 DEF Flown, OnePlace, FlyingApart
      <4>2. StreamApart' /\ Shown' \subseteq Shown \cup Incs(pending)
        BY <2>1, <2>2, <3>2, ShownGrows DEF OnePlace
      <4> QED BY <2>2, <4>1, <4>2
    <3> QED BY <1>3, <3>1, <3>2 DEF FlushById
  <2>4. PlacesApart'
    BY <2>1, <2>3 DEF PlacesApart
  <2>5. WorkApart'
    BY <1>1, <2>1, <2>2, <2>3 DEF WorkApart
  <2> QED BY <2>3, <2>4, <2>5 DEF OnePlace
<1> QED BY <1>2, <1>3

LEMMA FlushLandsPlaces ==
  ASSUME TypeOK, OnePlace, NEW frame \in flying, FlushLands(frame)
  PROVE  OnePlace'
<1>1. UNCHANGED <<work, pending>> /\ \A v \in Workers : Held(v)' = Held(v)
  BY DEF FlushLands, Held, collector
<1>2. frame \in Frame /\ Incs(frame) \subseteq Flown /\ Incs(frame) \cap Shown = {}
  BY DEF TypeOK, Flown, OnePlace, PlacesApart
<1>3. StreamApart' /\ Shown' \subseteq Shown \cup Incs(frame)
  BY <1>2, ShownGrows DEF FlushLands, OnePlace
<1>4. FlyingApart' /\ Flown' \subseteq Flown /\ Flown' \cap Incs(frame) = {}
  BY DEF FlushLands, OnePlace, FlyingApart, Flown
<1>5. PlacesApart'
  BY <1>1, <1>2, <1>3, <1>4 DEF OnePlace, PlacesApart
<1>6. WorkApart'
  <2>1. Shown' \cup Flown' \subseteq Shown \cup Flown
    BY <1>2, <1>3, <1>4
  <2> QED BY <1>1, <2>1 DEF OnePlace, WorkApart
<1> QED BY <1>3, <1>4, <1>5, <1>6 DEF OnePlace

LEMMA OnePlaceStep ==
  ASSUME TypeOK, FramesOK, OnePlace, [Next]_vars
  PROVE  OnePlace'
<1>1. ASSUME NEW w \in Workers, Moves(w, {})
      PROVE  OnePlace'
  BY <1>1, MovesKeepApart
<1>2. ASSUME NEW w \in Workers, NEW x \in Increment, Fresh(x), PushMessage(w, <<x>>),
             UNCHANGED flying
      PROVE  OnePlace'
  <2>1. Moves(w, {x})
    BY <1>2, FreshIsNowhere, PushMessagePlaces
  <2> QED BY <1>2, <2>1, FreshIsNowhere, MovesKeepApart
<1>3. ASSUME NEW a \in Agents, NEW kind \in Kinds, Push(a, kind)
      PROVE  OnePlace'
  <2> DEFINE x == [by |-> a, n |-> made[a] + 1, kind |-> kind]
  <2>1. x \in Increment /\ Fresh(x) /\ a \in Workers
    BY <1>3, PushedIsFresh
  <2>2. PushMessage(a, <<x>>) /\ UNCHANGED flying
    BY <1>3 DEF Push
  <2> HIDE DEF x
  <2> QED BY <1>2, <2>1, <2>2
<1>4. ASSUME PushBreak
      PROVE  OnePlace'
  <2>1. CASE PushMessage(Main, <<BreakIncrement>>)
    BY <1>2, <1>4, <2>1, BreakIsFresh DEF FramesOK, PushBreak
  <2>2. CASE work' = [work EXCEPT ![Main] = Idle] /\ UNCHANGED <<collector, channel>>
    <3>1. \A v \in Workers : work'[v] = work[v] \/ (work'[v].frame = <<>> /\ work'[v].own = <<>>)
      BY <2>2 DEF TypeOK, Idle, At
    <3> QED BY <1>4, <2>2, <3>1, LettingGo DEF PushBreak, collector, channel
  <2> QED BY <1>4, <2>1, <2>2 DEF PushBreak, BreakIncrement
<1>5. ASSUME NEW w \in Workers, Resumes(w)
      PROVE  OnePlace'
  <2>1. UNCHANGED flying
    BY <1>5 DEF Resumes
  <2>2. CASE work[w].own = Done
    <3>1. PutDone(w) /\ UNCHANGED pending
      BY <1>5, <2>2 DEF Resumes, collector
    <3>2. /\ \A v \in Workers \ {w} : work'[v] = work[v]
          /\ work'[w].frame = <<>> /\ work'[w].own = Done /\ Put(Done)
      BY <3>1 DEF PutDone, At, Done, TypeOK
    <3> QED BY <1>1, <2>1, <3>1, <3>2, DropPlaces
  <2>3. CASE work[w].own # Done
    <3>1. PushOwn(w, work[w].own) /\ work[w].own \in Frame
      BY <1>5, <2>3 DEF Resumes, TypeOK, Work
    <3>2. Incs(work[w].own) \cap (Shown \cup Incs(pending)) = {}
      BY DEF OnePlace, WorkApart, Held
    <3>3. Moves(w, {})
      BY <2>1, <3>1, <3>2, PushOwnPlaces
    <3> QED BY <1>1, <3>3
  <2> QED BY <2>2, <2>3
<1>6. ASSUME NEW w \in Workers, Lands(w)
      PROVE  OnePlace'
  <2>1. UNCHANGED <<pending, flying>>
    BY <1>6 DEF Lands, collector
  <2> QED BY <1>1, <1>6, <2>1, LandsMoves, DropPlaces
<1>7. ASSUME Complete \/ MemoryStop
      PROVE  OnePlace'
  <2>1. UNCHANGED flying
    BY <1>7 DEF Complete, MemoryStop
  <2>2. CASE FlushThenDone(Main) \/ FlushThenDone(Stopper)
    BY <1>1, <2>1, <2>2, FlushThenDonePlaces DEF Workers
  <2>3. ASSUME NEW w \in Workers, work' = [work EXCEPT ![w] = At("ended")],
               UNCHANGED <<collector, channel>>
        PROVE  OnePlace'
    <3>1. \A v \in Workers : work'[v] = work[v] \/ (work'[v].frame = <<>> /\ work'[v].own = <<>>)
      BY <2>3 DEF TypeOK, At
    <3> QED BY <2>1, <2>3, <3>1, LettingGo DEF collector, channel
  <2> QED BY <1>7, <2>2, <2>3 DEF Complete, MemoryStop, collector, Workers
<1>8. ASSUME RoomForDone
      PROVE  OnePlace'
  <2>1. \A v \in Workers : work'[v] = work[v] \/ (work'[v].frame = <<>> /\ work'[v].own = <<>>)
    BY <1>8 DEF RoomForDone, PutDone, TypeOK, At
  <2> QED BY <1>8, <2>1, LettingGo DEF RoomForDone, PutDone, collector
<1>9. ASSUME Fail \/ Interrupted \/ StopChat \/ \E a \in Agents : End(a)
      PROVE  OnePlace'
  <2>1. \A v \in Workers : work'[v] = work[v] \/ (work'[v].frame = <<>> /\ work'[v].own = <<>>)
    BY <1>9 DEF Fail, Interrupted, StopChat, End, At, Idle, TypeOK
  <2> QED BY <1>9, <2>1, LettingGo DEF Fail, Interrupted, StopChat, End, collector, channel
<1>10. ASSUME Read \/ Leave \/ Clear \/ TimerFires \/ UNCHANGED vars
       PROVE  OnePlace'
  BY <1>10, LettingGo DEF Read, Leave, Clear, TimerFires, vars, collector, channel
<1> QED BY <1>3, <1>4, <1>5, <1>6, <1>7, <1>8, <1>9, <1>10, FlushByIdPlaces, FlushLandsPlaces
        DEF Next, Turn, Timer

LEMMA OnceInAFrame ==
  ASSUME NEW frame \in Frame, Single(frame), NEW k \in DOMAIN frame, NEW l \in DOMAIN frame,
         frame[k] = frame[l]
  PROVE  k = l
<1>1. k \in Nat /\ l \in Nat /\ frame[k] \in Increment
  BY DEF Frame
<1>2. frame[k].n \in Nat
  BY <1>1 DEF Increment
<1> QED BY <1>1, <1>2 DEF Single

LEMMA OnePlaceInit == Init => OnePlace
<1>1. Init => /\ stream = <<>> /\ pending = <<>> /\ flying = {}
              /\ \A w \in Workers : work[w].frame = <<>> /\ work[w].own = <<>>
  BY DEF Init, Idle, At
<1>2. Init => Shown = {} /\ Flown = {} /\ Incs(pending) = {} /\ \A w \in Workers : Held(w) = {}
  BY <1>1, EmptyMade DEF Shown, Flown, Held
<1> QED BY <1>1, <1>2 DEF OnePlace, StreamApart, FlyingApart, WorkApart, PlacesApart, Held

\* No increment is shown twice, whoever flushes, with views made in threads,
\* overwritten timers, stops and a client that leaves.
THEOREM ShownAtMostOnce == Spec => []ShownOnce
<1>1. TypeOK /\ FramesOK /\ OnePlace => ShownOnce
  <2> SUFFICES ASSUME TypeOK, FramesOK, OnePlace,
                      NEW i \in DOMAIN stream, NEW j \in DOMAIN stream,
                      NEW k \in DOMAIN stream[i], NEW l \in DOMAIN stream[j],
                      stream[i][k] = stream[j][l]
               PROVE  i = j /\ k = l
    BY DEF ShownOnce
  <2>1. i = j
    BY DEF OnePlace, StreamApart, Incs
  <2>2. Single(stream[i]) /\ stream[i] \in Frame
    BY DEF FramesOK, StreamMade, WellMade, TypeOK
  <2>3. k \in DOMAIN stream[i] /\ l \in DOMAIN stream[i] /\ stream[i][k] = stream[i][l]
    BY <2>1
  <2> QED BY <2>1, <2>2, <2>3, OnceInAFrame
<1> QED BY <1>1, FramesHold, OnePlaceInit, OnePlaceStep, PTL DEF Spec
-----------------------------------------------------------------------------
(***************************************************************************)
(* Order, where views are made without a thread.  No frame is on its way   *)
(* then: what is pending is behind all that was shown, and what a          *)
(* coroutine will push behind what it has told before.                     *)
(***************************************************************************)
Behind(frame) == \A x \in Shown, y \in Incs(frame) : x.by = y.by => x.n < y.n

StreamSorted ==
  \A i, j \in DOMAIN stream : i < j =>
    \A x \in Incs(stream[i]), y \in Incs(stream[j]) : x.by = y.by => x.n < y.n

NothingOnItsWay ==
  flying = {} /\ \A w \in Workers : work[w].at \notin {"flushing", "pushing"}

\* While a coroutine has something to push, nothing of its own is pending.
OwnLast(w) == /\ Behind(work[w].own)
              /\ work[w].own # Done => \A x \in Incs(pending) : x.by # w

Ordered == /\ NothingOnItsWay /\ StreamSorted /\ Behind(pending)
           /\ \A w \in Workers : OwnLast(w)

LEMMA SendSorted ==
  ASSUME TypeOK, StreamSorted, NEW item \in Frame, Behind(item),
         Put(item) \/ UNCHANGED stream
  PROVE  StreamSorted' /\ Shown' \subseteq Shown \cup Incs(item)
<1>1. CASE UNCHANGED stream
  BY <1>1 DEF StreamSorted, Shown
<1>2. CASE stream' = Append(stream, item)
  <2>1. /\ DOMAIN stream' = 1..(Len(stream) + 1) /\ DOMAIN stream = 1..Len(stream)
        /\ \A i \in DOMAIN stream : stream'[i] = stream[i]
        /\ stream'[Len(stream) + 1] = item /\ Len(stream) \in Nat
    BY <1>2 DEF TypeOK
  <2>2. Shown' \subseteq Shown \cup Incs(item)
    BY <2>1 DEF Shown
  <2>3. \A i \in DOMAIN stream : \A x \in Incs(stream[i]), y \in Incs(item) :
          x.by = y.by => x.n < y.n
    BY DEF Behind, Shown
  <2>4. StreamSorted'
    <3> SUFFICES ASSUME NEW i \in DOMAIN stream', NEW j \in DOMAIN stream', i < j
                 PROVE  \A x \in Incs(stream'[i]), y \in Incs(stream'[j]) : x.by = y.by => x.n < y.n
      BY DEF StreamSorted
    <3>1. i \in DOMAIN stream
      BY <2>1
    <3>2. CASE j \in DOMAIN stream
      BY <2>1, <3>1, <3>2 DEF StreamSorted
    <3>3. CASE j = Len(stream) + 1
      BY <2>1, <2>3, <3>1, <3>3
    <3> QED BY <2>1, <3>2, <3>3
  <2> QED BY <2>2, <2>4
<1> QED BY <1>1, <1>2 DEF Put

\* A coroutine that is not acting, and one that has nothing more to push.
LEMMA OthersLast ==
  ASSUME TypeOK, FramesOK, Ordered, NEW w \in Workers, NEW sent,
         Shown' \subseteq Shown \cup sent, \A x \in sent : x.by # w,
         \A x \in Incs(pending') : x \in Incs(pending) \/ x.by # w,
         work'[w].own \in {work[w].own, Done}
  PROVE  OwnLast(w)'
<1>1. CASE work'[w].own = Done
  BY <1>1, EmptyMade DEF OwnLast, Behind, Done
<1>2. CASE work'[w].own = work[w].own /\ work[w].own # Done
  <2>1. Behind(work[w].own) /\ \A x \in Incs(pending) : x.by # w
    BY <1>2 DEF Ordered, OwnLast
  <2>2. \A y \in Incs(work[w].own) : y.by = w
    <3>1. OwnOK(w)
      BY DEF FramesOK, WorkMade
    <3> QED BY <3>1, OneMade, EmptyMade DEF OwnOK, OwnPush, Done
  <2>3. Behind(work[w].own)'
    BY <1>2, <2>1, <2>2 DEF Behind
  <2> QED BY <1>2, <2>1, <2>3 DEF OwnLast
<1> QED BY <1>1, <1>2

LEMMA DeliverDirectly ==
  ASSUME ~Screens, TypeOK, NEW w \in Workers, NEW frame, NEW own, NEW during, NEW after,
         Deliver(w, frame, own, during, after)
  PROVE  /\ Put(frame) \/ UNCHANGED stream
         /\ \A v \in Workers \ {w} : work'[v] = work[v]
         /\ work'[w].at = after /\ work'[w].frame = <<>> /\ work'[w].own = own
BY DEF Deliver, TypeOK

LEMMA FlushFirstOrdered ==
  ASSUME ~Screens, TypeOK, FramesOK, Ordered, NEW w \in Workers, NEW own \in Frame,
         own = Done \/ (\E x \in Increment : own = <<x>> /\ x.by = w /\ Fresh(x)),
         FlushFirst(w, own), UNCHANGED flying
  PROVE  Ordered'
<1>1. /\ Put(pending) \/ UNCHANGED stream
      /\ \A v \in Workers \ {w} : work'[v] = work[v]
      /\ work'[w].at = "flushed" /\ work'[w].own = own /\ pending' = <<>>
  BY DeliverDirectly DEF FlushFirst, TakePending
<1>2. StreamSorted' /\ Shown' \subseteq Shown \cup Incs(pending)
  BY <1>1, SendSorted DEF Ordered, TypeOK
<1>3. NothingOnItsWay'
  BY <1>1 DEF Ordered, NothingOnItsWay
<1>4. Incs(pending') = {} /\ Behind(pending)'
  BY <1>1, EmptyMade DEF Behind
<1>5. ASSUME NEW v \in Workers \ {w}
      PROVE  OwnLast(v)'
  <2>1. CASE work[v].own = Done
    BY <1>1, <1>5, <2>1, EmptyMade DEF OwnLast, Behind, Done
  <2>2. CASE work[v].own # Done
    <3>1. \A x \in Incs(pending) : x.by # v
      BY <2>2 DEF Ordered, OwnLast
    <3> QED BY <1>1, <1>2, <1>4, <3>1, OthersLast
  <2> QED BY <2>1, <2>2
<1>6. OwnLast(w)'
  <2>1. CASE own = Done
    BY <1>1, <2>1, EmptyMade DEF OwnLast, Behind, Done
  <2>2. ASSUME NEW x \in Increment, own = <<x>>, x.by = w, Fresh(x)
        PROVE  OwnLast(w)'
    <3>1. Incs(own) = {x}
      BY <2>2, OneMade
    <3>2. Shown \cup Incs(pending) \subseteq ToldIncs
      BY DEF FramesOK, StreamMade, PendingMade, WellMade, Shown
    <3> QED BY <1>1, <1>2, <1>4, <2>2, <3>1, <3>2 DEF OwnLast, Behind, Fresh
  <2> QED BY <2>1, <2>2
<1> QED BY <1>2, <1>3, <1>4, <1>5, <1>6 DEF Ordered

LEMMA PushOwnOrdered ==
  ASSUME ~Screens, TypeOK, FramesOK, Ordered, NEW w \in Workers, NEW own \in Frame,
         Behind(own), \A x \in Incs(own) : x.by = w, \A x \in Incs(pending) : x.by # w,
         PushOwn(w, own), UNCHANGED flying
  PROVE  Ordered'
<1>1. CASE Coalesced(own)
  <2>1. /\ pending' = own /\ UNCHANGED stream /\ work'[w].own = Done /\ work'[w].at = "ready"
        /\ \A v \in Workers \ {w} : work'[v] = work[v]
    BY <1>1 DEF PushOwn, Open, channel, Idle, At, Done, TypeOK
  <2>2. Shown' = Shown /\ StreamSorted'
    BY <2>1 DEF Shown, StreamSorted, Ordered
  <2>3. NothingOnItsWay'
    BY <2>1 DEF Ordered, NothingOnItsWay
  <2>4. Behind(pending)'
    BY <2>1, <2>2 DEF Behind
  <2>5. \A v \in Workers : OwnLast(v)'
    <3>1. ASSUME NEW v \in Workers \ {w}
          PROVE  OwnLast(v)'
      <4>1. \A x \in Incs(pending') : x.by # v
        BY <2>1
      <4> QED BY <2>1, <2>2, <4>1, OthersLast
    <3>2. OwnLast(w)'
      BY <2>1, EmptyMade DEF OwnLast, Behind, Done
    <3> QED BY <3>1, <3>2
  <2> QED BY <2>2, <2>3, <2>4, <2>5 DEF Ordered
<1>2. CASE ~Coalesced(own)
  <2>1. /\ Put(own) \/ UNCHANGED stream
        /\ \A v \in Workers \ {w} : work'[v] = work[v]
        /\ work'[w].at = "ready" /\ work'[w].own = Done /\ UNCHANGED pending
    BY <1>2, DeliverDirectly DEF PushOwn, collector, Done
  <2>2. StreamSorted' /\ Shown' \subseteq Shown \cup Incs(own)
    BY <2>1, SendSorted DEF Ordered
  <2>3. NothingOnItsWay'
    BY <2>1 DEF Ordered, NothingOnItsWay
  <2>4. Behind(pending)'
    BY <2>1, <2>2 DEF Behind, Ordered
  <2>5. \A v \in Workers : OwnLast(v)'
    <3>1. ASSUME NEW v \in Workers \ {w}
          PROVE  OwnLast(v)'
      BY <2>1, <2>2, OthersLast
    <3>2. OwnLast(w)'
      BY <2>1, EmptyMade DEF OwnLast, Behind, Done
    <3> QED BY <3>1, <3>2
  <2> QED BY <2>2, <2>3, <2>4, <2>5 DEF Ordered
<1> QED BY <1>1, <1>2
LEMMA PushMessageOrdered ==
  ASSUME ~Screens, TypeOK, FramesOK, Ordered, NEW w \in Workers, NEW x \in Increment,
         x.by = w, Fresh(x), PushMessage(w, <<x>>), UNCHANGED flying
  PROVE  Ordered'
<1>1. <<x>> \in Frame /\ Incs(<<x>>) = {x}
  BY OneIncrement, OneMade
<1>2. Shown \cup Incs(pending) \subseteq ToldIncs
  BY DEF FramesOK, StreamMade, PendingMade, WellMade, Shown
<1>3. Behind(<<x>>)
  BY <1>1, <1>2 DEF Behind, Fresh
<1>4. CASE FlushFirst(w, <<x>>)
  BY <1>1, <1>4, FlushFirstOrdered
<1>5. CASE pending = <<>> /\ PushOwn(w, <<x>>)
  BY <1>1, <1>3, <1>5, EmptyMade, PushOwnOrdered
<1>6. CASE /\ Joins(<<x>>) /\ Merge(<<x>>)
           /\ work' = [work EXCEPT ![w] = Idle]
           /\ UNCHANGED channel
  <2>1. /\ UNCHANGED stream /\ work'[w].own = Done /\ work'[w].at = "ready"
        /\ \A v \in Workers \ {w} : work'[v] = work[v]
    BY <1>6 DEF channel, Idle, At, Done, TypeOK
  <2>2. Shown' = Shown /\ StreamSorted'
    BY <2>1 DEF Shown, StreamSorted, Ordered
  <2>3. NothingOnItsWay'
    BY <2>1 DEF Ordered, NothingOnItsWay
  <2>4. Incs(pending') \subseteq Incs(pending) \cup {x}
    <3>1. pending' \in {pending, pending \o <<x>>}
      BY <1>6 DEF Merge
    <3>2. Incs(pending \o <<x>>) \subseteq Incs(pending) \cup {x}
      BY JoinedIncs DEF TypeOK
    <3> QED BY <3>1, <3>2
  <2>5. Behind(pending)'
    BY <1>1, <1>3, <2>2, <2>4 DEF Behind, Ordered
  <2>6. \A v \in Workers : OwnLast(v)'
    <3>1. ASSUME NEW v \in Workers \ {w}
          PROVE  OwnLast(v)'
      <4>1. /\ Shown' \subseteq Shown \cup Incs(<<x>>) /\ \A y \in Incs(<<x>>) : y.by # v
            /\ work'[v].own \in {work[v].own, Done}
        BY <1>1, <2>1, <2>2
      <4>2. \A y \in Incs(pending') : y \in Incs(pending) \/ y.by # v
        BY <2>4
      <4> QED BY <4>1, <4>2, OthersLast
    <3>2. OwnLast(w)'
      BY <2>1, EmptyMade DEF OwnLast, Behind, Done
    <3> QED BY <3>1, <3>2
  <2> QED BY <2>2, <2>3, <2>5, <2>6 DEF Ordered
<1> QED BY <1>4, <1>5, <1>6 DEF PushMessage

LetsGo(w) == \/ work'[w] = work[w]
             \/ work'[w].own = <<>> /\ work'[w].at \notin {"flushing", "pushing"}

\* Steps that push nothing, and take from coroutines what they would push.
LEMMA QuietOrdered ==
  ASSUME TypeOK, FramesOK, Ordered, UNCHANGED <<pending, flying>>,
         Put(Done) \/ UNCHANGED stream,
         \A v \in Workers : LetsGo(v)
  PROVE  Ordered'
<1>1. Done \in Frame /\ Incs(Done) = {} /\ Behind(Done)
  BY EmptyFrame, EmptyMade DEF Done, Behind
<1>2. StreamSorted' /\ Shown' \subseteq Shown
  BY <1>1, SendSorted DEF Ordered
<1>3. NothingOnItsWay'
  BY DEF Ordered, NothingOnItsWay, LetsGo
<1>4. Behind(pending)'
  BY <1>2 DEF Behind, Ordered
<1>5. \A v \in Workers : OwnLast(v)'
  BY <1>2, OthersLast DEF Done, LetsGo
<1> QED BY <1>2, <1>3, <1>4, <1>5 DEF Ordered

LEMMA FlushByIdOrdered ==
  ASSUME ~Screens, TypeOK, FramesOK, Ordered, FlushById
  PROVE  Ordered'
<1>1. CASE ~(cached /\ pending # <<>>)
  BY <1>1, QuietOrdered DEF FlushById, collector, LetsGo
<1>2. CASE cached /\ pending # <<>>
  <2>1. Put(pending) /\ UNCHANGED <<flying, work>> /\ pending' = <<>> /\ Incs(pending') = {}
    BY <1>2, EmptyMade DEF FlushById, TakePending
  <2>2. StreamSorted' /\ Shown' \subseteq Shown \cup Incs(pending)
    BY <2>1, SendSorted DEF Ordered, TypeOK
  <2>3. NothingOnItsWay' /\ Behind(pending)'
    BY <2>1 DEF Ordered, NothingOnItsWay, Behind
  <2>4. ASSUME NEW v \in Workers
        PROVE  OwnLast(v)'
    <3>1. CASE work[v].own = Done
      BY <2>1, <3>1, EmptyMade DEF OwnLast, Behind, Done
    <3>2. CASE work[v].own # Done
      <4>1. \A x \in Incs(pending) : x.by # v
        BY <3>2 DEF Ordered, OwnLast
      <4> QED BY <2>1, <2>2, <4>1, OthersLast
    <3> QED BY <3>1, <3>2
  <2> QED BY <2>2, <2>3, <2>4 DEF Ordered
<1> QED BY <1>1, <1>2

LEMMA OrderedStep ==
  ASSUME ~Screens, TypeOK, FramesOK, Ordered, [Next]_vars
  PROVE  Ordered'
<1>1. ASSUME NEW a \in Agents, NEW kind \in Kinds, Push(a, kind)
      PROVE  Ordered'
  <2> DEFINE x == [by |-> a, n |-> made[a] + 1, kind |-> kind]
  <2>1. x \in Increment /\ x.by = a /\ Fresh(x) /\ a \in Workers
    BY <1>1, PushedIsFresh
  <2>2. PushMessage(a, <<x>>) /\ UNCHANGED flying
    BY <1>1 DEF Push
  <2> HIDE DEF x
  <2> QED BY <2>1, <2>2, PushMessageOrdered
<1>2. ASSUME PushBreak
      PROVE  Ordered'
  <2>1. CASE PushMessage(Main, <<BreakIncrement>>)
    BY <1>2, <2>1, BreakIsFresh, PushMessageOrdered DEF FramesOK, PushBreak
  <2>2. CASE work' = [work EXCEPT ![Main] = Idle] /\ UNCHANGED <<collector, channel>>
    <3>1. \A v \in Workers : LetsGo(v)
      BY <2>2 DEF TypeOK, Idle, At, LetsGo
    <3> QED BY <1>2, <2>2, <3>1, QuietOrdered DEF PushBreak, collector, channel
  <2> QED BY <1>2, <2>1, <2>2 DEF PushBreak, BreakIncrement
<1>3. ASSUME NEW w \in Workers, PutDone(w), UNCHANGED <<pending, flying>>
      PROVE  Ordered'
  <2>1. \A v \in Workers : LetsGo(v)
    BY <1>3 DEF PutDone, TypeOK, At, LetsGo
  <2> QED BY <1>3, <2>1, QuietOrdered DEF PutDone
<1>4. ASSUME NEW w \in Workers, FlushThenDone(w), UNCHANGED flying
      PROVE  Ordered'
  BY <1>3, <1>4, EmptyFrame, FlushFirstOrdered DEF FlushThenDone, collector
<1>5. ASSUME NEW w \in Workers, Resumes(w)
      PROVE  Ordered'
  <2>1. CASE work[w].own = Done
    BY <1>3, <1>5, <2>1 DEF Resumes, collector
  <2>2. CASE work[w].own # Done
    <3>1. PushOwn(w, work[w].own) /\ work[w].own \in Frame /\ UNCHANGED flying
      BY <1>5, <2>2 DEF Resumes, TypeOK, Work
    <3>2. Behind(work[w].own) /\ \A x \in Incs(pending) : x.by # w
      BY <2>2 DEF Ordered, OwnLast
    <3>3. \A x \in Incs(work[w].own) : x.by = w
      <4>1. OwnOK(w)
        BY DEF FramesOK, WorkMade
      <4> QED BY <2>2, <4>1, OneMade DEF OwnOK, OwnPush
    <3> QED BY <3>1, <3>2, <3>3, PushOwnOrdered
  <2> QED BY <2>1, <2>2
<1>6. ASSUME Complete \/ MemoryStop
      PROVE  Ordered'
  <2>1. UNCHANGED flying /\ Main \in Workers /\ Stopper \in Workers
    BY <1>6 DEF Complete, MemoryStop, Workers
  <2>2. CASE FlushThenDone(Main) \/ FlushThenDone(Stopper)
    BY <1>4, <2>1, <2>2
  <2>3. ASSUME NEW w \in Workers, work' = [work EXCEPT ![w] = At("ended")],
               UNCHANGED <<collector, channel>>
        PROVE  Ordered'
    <3>1. \A v \in Workers : LetsGo(v)
      BY <2>3 DEF TypeOK, At, LetsGo
    <3> QED BY <2>1, <2>3, <3>1, QuietOrdered DEF collector, channel
  <2> QED BY <1>6, <2>1, <2>2, <2>3 DEF Complete, MemoryStop, collector
<1>7. ASSUME RoomForDone
      PROVE  Ordered'
  BY <1>3, <1>7 DEF RoomForDone, collector, Workers
<1>8. ASSUME Fail \/ Interrupted \/ StopChat \/ \E a \in Agents : End(a)
      PROVE  Ordered'
  <2>1. \A v \in Workers : LetsGo(v)
    BY <1>8 DEF Fail, Interrupted, StopChat, End, At, Idle, TypeOK, LetsGo
  <2> QED BY <1>8, <2>1, QuietOrdered DEF Fail, Interrupted, StopChat, End, collector, channel
<1>9. ASSUME Read \/ Leave \/ Clear \/ TimerFires \/ UNCHANGED vars
      PROVE  Ordered'
  BY <1>9, QuietOrdered DEF LetsGo, Read, Leave, Clear, TimerFires, vars, collector, channel
<1>10. /\ ~\E w \in Workers : Lands(w)
       /\ ~\E frame \in flying : FlushLands(frame)
  BY DEF Ordered, NothingOnItsWay, Lands
<1> QED BY <1>1, <1>2, <1>5, <1>6, <1>7, <1>8, <1>9, <1>10, FlushByIdOrdered
        DEF Next, Turn, Timer

LEMMA OrderHolds ==
  ASSUME ~Screens
  PROVE  Spec => [](TypeOK /\ FramesOK /\ Ordered)
<1>1. Init => Ordered
  <2>1. Init => /\ stream = <<>> /\ pending = <<>> /\ flying = {}
                /\ \A w \in Workers : work[w].own = <<>> /\ work[w].at = "ready"
    BY DEF Init, Idle, At
  <2> QED BY <2>1, EmptyMade
          DEF Ordered, NothingOnItsWay, StreamSorted, Behind, OwnLast, Shown, Done
<1>2. TypeOK /\ FramesOK /\ Ordered /\ [Next]_vars => Ordered'
  BY OrderedStep
<1> QED BY <1>1, <1>2, FramesHold, PTL DEF Spec

\* Without threads the client gets what a coroutine pushes in that order.
THEOREM OrderIsKept ==
  ASSUME ~Screens
  PROVE  Spec => []OrderKept
<1>1. TypeOK /\ FramesOK /\ Ordered => OrderKept
  BY DEF FramesOK, StreamMade, WellMade, Single, Ordered, StreamSorted, Incs, OrderKept
<1> QED BY <1>1, OrderHolds, PTL
-----------------------------------------------------------------------------
(***************************************************************************)
(* "[DONE]" comes last where nothing is on its way: complete comes when no *)
(* coroutine can push any more, with nothing pending behind it.            *)
(***************************************************************************)
Closing == \/ work[Main].at \in {"blocked", "ended"}
           \/ work[Main].at = "flushed" /\ work[Main].own = Done
Shut == \E i \in DOMAIN stream : stream[i] = Done

DoneEnds == \A i, j \in DOMAIN stream : i < j /\ stream[i] = Done => stream[j] = Done

Tight == /\ DoneEnds
         /\ Shut => work[Main].at = "ended"
         /\ Closing => pending = <<>> /\ AllEnded

\* Only complete and stop put "[DONE]" behind a flush.
DoneIsOfTheEnd ==
  /\ \A a \in Agents : work[a].at = "flushed" => work[a].own # Done
  /\ work[Stopper].at = "flushed" => stop_flag

Sealed == DoneIsOfTheEnd /\ (cached /\ ~stop_flag => Tight)

\* A frame may be put while no "[DONE]" is, and "[DONE]" at any time.
LEMMA PutSealed ==
  ASSUME TypeOK, DoneEnds, NEW item \in Frame, Put(item) \/ UNCHANGED stream,
         Shut => item = Done
  PROVE  DoneEnds' /\ (Shut' => Shut \/ item = Done)
<1>1. CASE UNCHANGED stream
  BY <1>1 DEF DoneEnds, Shut
<1>2. CASE stream' = Append(stream, item)
  <2>1. /\ DOMAIN stream' = 1..(Len(stream) + 1) /\ DOMAIN stream = 1..Len(stream)
        /\ \A i \in DOMAIN stream : stream'[i] = stream[i]
        /\ stream'[Len(stream) + 1] = item /\ Len(stream) \in Nat
    BY <1>2 DEF TypeOK
  <2>2. DoneEnds'
    <3> SUFFICES ASSUME NEW i \in DOMAIN stream', NEW j \in DOMAIN stream', i < j,
                        stream'[i] = Done
                 PROVE  stream'[j] = Done
      BY DEF DoneEnds
    <3>1. i \in DOMAIN stream /\ stream[i] = Done /\ Shut
      BY <2>1 DEF Shut
    <3>2. CASE j \in DOMAIN stream
      BY <2>1, <3>1, <3>2 DEF DoneEnds
    <3>3. CASE j = Len(stream) + 1
      BY <2>1, <3>1, <3>3
    <3> QED BY <2>1, <3>2, <3>3
  <2>3. Shut' => Shut \/ item = Done
    BY <2>1 DEF Shut
  <2> QED BY <2>2, <2>3
<1> QED BY <1>1, <1>2 DEF Put

\* Where a push leaves its coroutine, and what it puts.
LEMMA PushDirectly ==
  ASSUME ~Screens, TypeOK, NEW w \in Workers, NEW own \in Frame,
         PushMessage(w, own) \/ PushOwn(w, own)
  PROVE  /\ \A v \in Workers \ {w} : work'[v] = work[v]
         /\ \/ work'[w].at = "ready"
            \/ PushMessage(w, own) /\ work'[w].at = "flushed" /\ work'[w].own = own
         /\ \/ UNCHANGED stream
            \/ Put(own)
            \/ pending # <<>> /\ Put(pending)
<1>1. CASE FlushFirst(w, own) /\ pending # <<>> /\ PushMessage(w, own)
  <2>1. Deliver(w, pending, own, "flushing", "flushed")
    BY <1>1 DEF FlushFirst
  <2> QED BY <1>1, <2>1, DeliverDirectly
<1>2. CASE PushOwn(w, own)
  <2>1. CASE Deliver(w, own, <<>>, "pushing", "ready")
    BY <2>1, DeliverDirectly
  <2>2. CASE work' = [work EXCEPT ![w] = Idle] /\ UNCHANGED channel
    BY <2>2 DEF Idle, At, TypeOK, channel
  <2> QED BY <1>2, <2>1, <2>2 DEF PushOwn
<1>3. CASE work' = [work EXCEPT ![w] = Idle] /\ UNCHANGED channel
  BY <1>3 DEF Idle, At, TypeOK, channel
<1> QED BY <1>1, <1>2, <1>3 DEF PushMessage

\* A coroutine pushes: the turn is not closing, and does not close by it.
LEMMA PushTight ==
  ASSUME ~Screens, TypeOK, Tight, NEW w \in Agents \cup {Main},
         NEW own \in Frame, own # Done, ~Closing,
         PushMessage(w, own) \/ PushOwn(w, own)
  PROVE  Tight'
<1>1. w \in Workers /\ Main \in Workers
  BY DEF Workers
<1>2. /\ \A v \in Workers \ {w} : work'[v] = work[v]
      /\ \/ work'[w].at = "ready"
         \/ work'[w].at = "flushed" /\ work'[w].own = own
      /\ \/ UNCHANGED stream
         \/ Put(own)
         \/ pending # <<>> /\ Put(pending)
  BY <1>1, PushDirectly
<1>3. ~Shut
  BY DEF Tight, Closing
<1>4. DoneEnds' /\ ~Shut'
  <2>1. ASSUME NEW item \in Frame, item # Done, Put(item) \/ UNCHANGED stream
        PROVE  DoneEnds' /\ ~Shut'
    BY <1>3, <2>1, PutSealed DEF Tight
  <2> QED BY <1>2, <2>1 DEF TypeOK, Done
<1>5. ~Closing'
  BY <1>1, <1>2 DEF Closing
<1> QED BY <1>4, <1>5 DEF Tight

\* complete puts "[DONE]", or waits for room.
LEMMA PutDoneTight ==
  ASSUME TypeOK, Tight, PutDone(Main), AllEnded, pending = <<>>, work[Main].at # "ended",
         UNCHANGED pending
  PROVE  Tight'
<1>1. Main \in Workers /\ Agents \subseteq Workers \ {Main}
  BY StreamAssumption DEF Workers
<1>2. /\ \A v \in Workers \ {Main} : work'[v] = work[v]
      /\ work'[Main].at = IF Room THEN "ended" ELSE "blocked"
      /\ Put(Done) /\ (~Room => UNCHANGED stream)
  BY <1>1 DEF PutDone, At, TypeOK, Put
<1>3. DoneEnds'
  BY <1>2, EmptyFrame, PutSealed DEF Tight
<1>4. AllEnded'
  BY <1>1, <1>2 DEF AllEnded
<1>5. Shut' => work'[Main].at = "ended"
  BY <1>2 DEF Tight, Shut
<1> QED BY <1>3, <1>4, <1>5 DEF Tight

\* complete flushes what is pending, and closes the turn.
LEMMA FlushTight ==
  ASSUME ~Screens, TypeOK, Tight, FlushFirst(Main, Done), pending # <<>>, AllEnded, ~Closing
  PROVE  Tight'
<1>1. Main \in Workers /\ Agents \subseteq Workers \ {Main}
  BY StreamAssumption DEF Workers
<1>2. Deliver(Main, pending, Done, "flushing", "flushed") /\ pending' = <<>>
  BY DEF FlushFirst, TakePending
<1>3. /\ Put(pending) \/ UNCHANGED stream
      /\ \A v \in Workers \ {Main} : work'[v] = work[v]
      /\ work'[Main].at = "flushed" /\ work'[Main].own = Done
  BY <1>1, <1>2, DeliverDirectly
<1>4. ~Shut /\ pending \in Frame /\ pending # Done
  BY DEF Tight, Closing, TypeOK, Done
<1>5. DoneEnds' /\ ~Shut'
  BY <1>3, <1>4, PutSealed DEF Tight
<1>6. AllEnded'
  BY <1>1, <1>3 DEF AllEnded
<1> QED BY <1>2, <1>5, <1>6 DEF Tight

\* Steps that put nothing, and by which the turn neither closes nor opens.
LEMMA QuietTight ==
  ASSUME Tight, UNCHANGED <<stream, pending>>,
         work'[Main] = work[Main] \/ (~Closing /\ ~Closing'),
         \A a \in Agents : work'[a] = work[a] \/ work'[a].at = "ended"
  PROVE  Tight'
<1>1. DoneEnds' /\ Shut' = Shut
  BY DEF Tight, DoneEnds, Shut
<1>2. AllEnded => AllEnded'
  BY DEF AllEnded
<1>3. Closing' => Closing /\ work'[Main] = work[Main]
  BY DEF Closing
<1>4. work[Main].at = "ended" => work'[Main].at = "ended"
  BY DEF Closing
<1> QED BY <1>1, <1>2, <1>3, <1>4 DEF Tight

\* A step after which the conversation is neither stopped nor cleared.
LEMMA TightStep ==
  ASSUME ~Screens, TypeOK, FramesOK, Ordered, Sealed, [Next]_vars, cached', ~stop_flag'
  PROVE  Tight'
<1>1. /\ Main \in Workers /\ Stopper \in Workers \ {Main} /\ Agents \subseteq Workers \ {Main}
      /\ Stopper \notin Agents
  BY StreamAssumption DEF Workers
<1>0. cached /\ ~stop_flag /\ Tight
  <2>1. CASE Turn
    <3>1. cached' = cached /\ stop_flag' = stop_flag
      BY <2>1 DEF Turn, End, Push, Lands, Resumes, Complete, RoomForDone, Fail, PushBreak,
                  Interrupted
    <3> QED BY <3>1, Zenon DEF Sealed
  <2>2. CASE Timer \/ StopChat \/ Read \/ Leave \/ UNCHANGED vars
    <3>1. cached' = cached /\ stop_flag' = stop_flag
      BY <2>2 DEF Timer, TimerFires, FlushById, FlushLands, StopChat, Read, Leave, vars
    <3> QED BY <3>1, Zenon DEF Sealed
  <2>3. CASE Clear
    <3>1. cached' = FALSE
      BY <2>3 DEF Clear
    <3> QED BY <3>1, Zenon
  <2>4. CASE MemoryStop
    <3>1. cached' = cached /\ (cached => stop_flag' = TRUE)
      BY <2>4, Zenon DEF MemoryStop
    <3> QED BY <3>1, Zenon
  <2> QED BY <2>1, <2>2, <2>3, <2>4 DEF Next
<1>2. ASSUME NEW a \in Agents, NEW kind \in Kinds, Push(a, kind)
      PROVE  Tight'
  <2> DEFINE own == <<[by |-> a, n |-> made[a] + 1, kind |-> kind]>>
  <2>1. own \in Frame /\ own # Done
    BY <1>2, PushedIsFresh, OneIncrement DEF Done
  <2>2. PushMessage(a, own)
    BY <1>2 DEF Push
  <2>3. ~Closing
    BY <1>2, <1>0 DEF Push, Tight, AllEnded
  <2> HIDE DEF own
  <2> QED BY <1>0, <2>1, <2>2, <2>3, PushTight
<1>3. ASSUME PushBreak
      PROVE  Tight'
  <2>1. ~Closing
    BY <1>3 DEF PushBreak, Closing
  <2>2. CASE PushMessage(Main, <<BreakIncrement>>)
    <3>1. <<BreakIncrement>> \in Frame /\ <<BreakIncrement>> # Done
      BY <1>3, BreakIsFresh, OneIncrement DEF FramesOK, Done
    <3> QED BY <1>0, <2>1, <2>2, <3>1, PushTight
  <2>3. CASE work' = [work EXCEPT ![Main] = Idle] /\ UNCHANGED <<collector, channel>>
    <3>1. /\ \A v \in Workers \ {Main} : work'[v] = work[v]
          /\ work'[Main].at = "ready" /\ UNCHANGED <<stream, pending>>
      BY <1>1, <2>3 DEF TypeOK, Idle, At, collector, channel
    <3>2. ~Closing'
      BY <3>1 DEF Closing
    <3> QED BY <1>1, <1>0, <2>1, <3>1, <3>2, QuietTight
  <2> QED BY <1>3, <2>2, <2>3 DEF PushBreak, BreakIncrement
<1>4. ASSUME NEW w \in Workers, Resumes(w)
      PROVE  Tight'
  <2>1. work[w].at = "flushed" /\ w # Stopper
    BY <1>4, <1>0 DEF Resumes, Sealed, DoneIsOfTheEnd
  <2>2. CASE work[w].own = Done
    <3>1. w = Main
      BY <2>1, <2>2 DEF Sealed, DoneIsOfTheEnd, Workers
    <3>2. pending = <<>> /\ AllEnded /\ work[Main].at # "ended"
      BY <1>0, <2>1, <2>2, <3>1 DEF Tight, Closing
    <3>3. PutDone(Main) /\ UNCHANGED pending
      BY <1>4, <2>2, <3>1 DEF Resumes, collector
    <3> QED BY <1>0, <3>2, <3>3, PutDoneTight
  <2>3. CASE work[w].own # Done
    <3>1. w \in Agents \cup {Main} /\ PushOwn(w, work[w].own) /\ work[w].own \in Frame
      BY <1>4, <2>1, <2>3 DEF Resumes, Workers, TypeOK, Work
    <3>2. ~Closing
      BY <1>0, <2>1, <2>3, <3>1 DEF Closing, Tight, AllEnded
    <3> QED BY <1>0, <2>3, <3>1, <3>2, PushTight
  <2> QED BY <2>2, <2>3
<1>5. ASSUME Complete
      PROVE  Tight'
  <2>1. work[Main].at = "ready" /\ AllEnded /\ ~Closing
    BY <1>5 DEF Complete, Closing
  <2>2. FlushThenDone(Main)
    BY <1>5, <1>0 DEF Complete
  <2>3. CASE pending = <<>> /\ PutDone(Main) /\ UNCHANGED collector
    BY <1>0, <2>1, <2>3, PutDoneTight DEF collector
  <2>4. CASE pending # <<>> /\ FlushFirst(Main, Done)
    BY <1>0, <2>1, <2>4, FlushTight
  <2> QED BY <2>2, <2>3, <2>4 DEF FlushThenDone
<1>6. ASSUME RoomForDone
      PROVE  Tight'
  <2>1. pending = <<>> /\ AllEnded /\ work[Main].at # "ended"
    BY <1>6, <1>0 DEF RoomForDone, Tight, Closing
  <2> QED BY <1>6, <1>0, <2>1, PutDoneTight DEF RoomForDone, collector
<1>7. ASSUME Fail
      PROVE  Tight'
  <2>1. /\ ~Closing /\ work'[Main].at = "breaking"
        /\ \A a \in Agents : work'[a].at = "ended"
    BY <1>1, <1>7 DEF Fail, Closing, At
  <2>2. ~Closing'
    BY <2>1 DEF Closing
  <2> QED BY <1>7, <1>0, <2>1, <2>2, QuietTight DEF Fail, collector, channel
<1>8. ASSUME NEW b \in Agents, End(b)
      PROVE  Tight'
  <2>1. /\ \A v \in Workers \ {b} : work'[v] = work[v]
        /\ work'[b].at = "ended"
    BY <1>1, <1>8 DEF End, At, TypeOK
  <2>2. /\ work'[Main] = work[Main]
        /\ \A a \in Agents : work'[a] = work[a] \/ work'[a].at = "ended"
    BY <1>1, <2>1, StreamAssumption
  <2> QED BY <1>8, <1>0, <2>2, QuietTight DEF End, collector, channel
<1>9. ASSUME FlushById
      PROVE  Tight'
  <2>1. CASE pending = <<>>
    BY <1>9, <1>0, <2>1, QuietTight DEF FlushById, collector
  <2>2. CASE pending # <<>>
    <3>1. /\ Put(pending) /\ pending' = <<>> /\ UNCHANGED work
      BY <1>9, <1>0, <2>2 DEF FlushById, TakePending
    <3>2. ~Closing /\ ~Shut /\ pending \in Frame /\ pending # Done
      BY <1>0, <2>2 DEF Tight, Closing, TypeOK, Done
    <3>3. DoneEnds' /\ ~Shut' /\ ~Closing'
      BY <1>0, <3>1, <3>2, PutSealed DEF Tight, Closing
    <3> QED BY <3>3 DEF Tight
  <2> QED BY <2>1, <2>2
<1>10. ASSUME Interrupted
       PROVE  Tight'
  <2>1. UNCHANGED <<stream, pending>>
    BY <1>10 DEF Interrupted, collector, channel
  <2>2. \A a \in Agents : work'[a] = work[a] \/ work'[a].at = "ended"
    BY <1>1, <1>10 DEF Interrupted, At, TypeOK
  <2>3. CASE work[Main].at = "ready" /\ work'[Main].at = "breaking"
    BY <1>0, <2>1, <2>2, <2>3, QuietTight DEF Closing
  <2>4. CASE ~Completing /\ ~TurnDone /\ work'[Main].at = "ready"
    BY <1>0, <2>1, <2>2, <2>4, QuietTight DEF Closing, Completing, TurnDone, Finished
  <2>5. CASE Completing /\ work'[Main].at = "aborted"
    <3>1. ~Shut
      BY <1>0, <2>5 DEF Tight, Completing
    <3>2. DoneEnds' /\ ~Shut' /\ ~Closing'
      BY <1>0, <2>1, <2>5, <3>1 DEF Tight, DoneEnds, Shut, Closing
    <3> QED BY <3>2 DEF Tight
  <2>6. CASE UNCHANGED work
    BY <1>0, <2>1, <2>6, QuietTight
  <2>7. \/ work[Main].at = "ready" /\ work'[Main].at = "breaking"
        \/ ~Completing /\ ~TurnDone /\ work'[Main].at = "ready"
        \/ Completing /\ work'[Main].at = "aborted"
        \/ UNCHANGED work
    BY <1>1, <1>10 DEF Interrupted, At, Idle, TypeOK
  <2> QED BY <2>3, <2>4, <2>5, <2>6, <2>7
<1>11. ASSUME StopChat \/ MemoryStop
       PROVE  Tight'
  <2>1. UNCHANGED <<stream, pending>>
    BY <1>11, <1>0 DEF StopChat, MemoryStop, collector, channel
  <2>2. \A v \in Workers \ {Stopper} : work'[v] = work[v]
    BY <1>11, <1>0 DEF StopChat, MemoryStop, TypeOK
  <2>3. work'[Main] = work[Main] /\ \A a \in Agents : work'[a] = work[a]
    BY <1>1, <2>2
  <2> QED BY <1>0, <2>1, <2>3, QuietTight
<1>12. ASSUME TimerFires \/ Read \/ Leave \/ UNCHANGED vars
       PROVE  Tight'
  BY <1>12, <1>0, QuietTight DEF TimerFires, Read, Leave, vars, collector, channel
<1>13. /\ ~Clear
       /\ ~\E w \in Workers : Lands(w)
       /\ ~\E frame \in flying : FlushLands(frame)
  BY DEF Clear, Ordered, NothingOnItsWay, Lands
<1> QED BY <1>2, <1>3, <1>4, <1>5, <1>6, <1>7, <1>8, <1>9, <1>10, <1>11, <1>12, <1>13
        DEF Next, Turn, Timer

LEMMA DoneIsOfTheEndStep ==
  ASSUME ~Screens, TypeOK, FramesOK, Ordered, DoneIsOfTheEnd, [Next]_vars
  PROVE  DoneIsOfTheEnd'
<1>1. /\ Main \in Workers /\ Stopper \in Workers \ {Main} /\ Agents \subseteq Workers \ {Main}
      /\ Stopper \notin Agents
  BY StreamAssumption DEF Workers
<1>2. ASSUME NEW a \in Agents, NEW kind \in Kinds, Push(a, kind)
      PROVE  DoneIsOfTheEnd'
  <2> DEFINE own == <<[by |-> a, n |-> made[a] + 1, kind |-> kind]>>
  <2>1. own \in Frame /\ own # Done
    BY <1>2, PushedIsFresh, OneIncrement DEF Done
  <2>2. PushMessage(a, own) /\ UNCHANGED stop_flag
    BY <1>2 DEF Push
  <2> HIDE DEF own
  <2>3. /\ \A v \in Workers \ {a} : work'[v] = work[v]
        /\ work'[a].at = "ready" \/ work'[a].own = own
    BY <1>1, <2>1, <2>2, PushDirectly
  <2> QED BY <1>1, <2>1, <2>2, <2>3 DEF DoneIsOfTheEnd
<1>3. ASSUME UNCHANGED stop_flag, \A v \in Workers \ {Main} : work'[v] = work[v]
      PROVE  DoneIsOfTheEnd'
  BY <1>1, <1>3 DEF DoneIsOfTheEnd
<1>4. ASSUME UNCHANGED stop_flag, work'[Stopper] = work[Stopper] \/ work'[Stopper].at = "stopping",
             \A a \in Agents : work'[a] = work[a] \/ work'[a].at = "ended"
      PROVE  DoneIsOfTheEnd'
  BY <1>4 DEF DoneIsOfTheEnd
<1>5. ASSUME PushBreak
      PROVE  DoneIsOfTheEnd'
  <2>1. <<BreakIncrement>> \in Frame
    BY <1>5, BreakIsFresh, OneIncrement DEF FramesOK
  <2>2. \/ PushMessage(Main, <<BreakIncrement>>)
        \/ work' = [work EXCEPT ![Main] = Idle]
    BY <1>5 DEF PushBreak, BreakIncrement
  <2>3. \A v \in Workers \ {Main} : work'[v] = work[v]
    BY <1>1, <2>1, <2>2, PushDirectly DEF TypeOK
  <2> QED BY <1>3, <1>5, <2>3 DEF PushBreak
<1>6. ASSUME NEW w \in Workers, Resumes(w)
      PROVE  DoneIsOfTheEnd'
  <2>1. /\ \A v \in Workers \ {w} : work'[v] = work[v]
        /\ work'[w].at # "flushed"
    <3>1. CASE work[w].own = Done
      BY <1>6, <3>1 DEF Resumes, PutDone, At, TypeOK
    <3>2. CASE PushOwn(w, work[w].own) /\ Coalesced(work[w].own)
      BY <3>2 DEF PushOwn, Idle, At, TypeOK
    <3>3. CASE PushOwn(w, work[w].own) /\ ~Coalesced(work[w].own)
      <4>1. Deliver(w, work[w].own, <<>>, "pushing", "ready")
        BY <3>3 DEF PushOwn
      <4> QED BY <4>1, DeliverDirectly
    <3> QED BY <1>6, <3>1, <3>2, <3>3 DEF Resumes
  <2> QED BY <1>1, <1>6, <2>1 DEF Resumes, DoneIsOfTheEnd
<1>7. ASSUME Complete \/ RoomForDone
      PROVE  DoneIsOfTheEnd'
  <2>1. CASE FlushFirst(Main, Done)
    <3>1. Deliver(Main, pending, Done, "flushing", "flushed")
      BY <2>1 DEF FlushFirst
    <3>2. \A v \in Workers \ {Main} : work'[v] = work[v]
      BY <1>1, <3>1, DeliverDirectly
    <3> QED BY <1>3, <1>7, <3>2 DEF Complete, RoomForDone
  <2>2. CASE PutDone(Main) \/ work' = [work EXCEPT ![Main] = At("ended")]
    <3>1. \A v \in Workers \ {Main} : work'[v] = work[v]
      BY <1>1, <2>2 DEF PutDone, TypeOK
    <3> QED BY <1>3, <1>7, <3>1 DEF Complete, RoomForDone
  <2> QED BY <1>7, <2>1, <2>2 DEF Complete, RoomForDone, FlushThenDone
<1>8. ASSUME MemoryStop
      PROVE  DoneIsOfTheEnd'
  <2>1. /\ \A v \in Workers \ {Stopper} : work'[v] = work[v]
        /\ work'[Stopper].at = "flushed" => stop_flag'
    <3>1. CASE FlushFirst(Stopper, Done) /\ stop_flag'
      <4>1. Deliver(Stopper, pending, Done, "flushing", "flushed")
        BY <3>1 DEF FlushFirst
      <4> QED BY <1>1, <3>1, <4>1, DeliverDirectly
    <3>2. CASE PutDone(Stopper) \/ work' = [work EXCEPT ![Stopper] = At("ended")]
      BY <1>1, <3>2 DEF PutDone, At, TypeOK
    <3> QED BY <1>8, <3>1, <3>2 DEF MemoryStop, FlushThenDone
  <2> QED BY <1>1, <2>1 DEF DoneIsOfTheEnd
<1>9. ASSUME Fail \/ Interrupted
      PROVE  DoneIsOfTheEnd'
  <2>1. work'[Stopper] = work[Stopper] /\ \A a \in Agents : work'[a] = work[a] \/ work'[a].at = "ended"
    BY <1>1, <1>9 DEF Fail, Interrupted, At, TypeOK
  <2> QED BY <1>4, <1>9, <2>1 DEF Fail, Interrupted
<1>10. ASSUME StopChat
       PROVE  DoneIsOfTheEnd'
  <2>1. /\ work'[Stopper].at = "stopping"
        /\ \A v \in Workers \ {Stopper} : work'[v] = work[v]
    BY <1>1, <1>10 DEF StopChat, At, TypeOK
  <2> QED BY <1>1, <1>4, <1>10, <2>1 DEF StopChat
<1>11. ASSUME NEW b \in Agents, End(b)
       PROVE  DoneIsOfTheEnd'
  <2>1. /\ work'[b].at = "ended"
        /\ \A v \in Workers \ {b} : work'[v] = work[v]
    BY <1>1, <1>11 DEF End, At, TypeOK
  <2>2. work'[Stopper] = work[Stopper] /\ \A a \in Agents : work'[a] = work[a] \/ work'[a].at = "ended"
    BY <1>1, <2>1
  <2> QED BY <1>4, <1>11, <2>2 DEF End
<1>12. ASSUME TimerFires \/ FlushById \/ Read \/ Leave \/ Clear \/ UNCHANGED vars
       PROVE  DoneIsOfTheEnd'
  BY <1>12 DEF TimerFires, FlushById, Read, Leave, Clear, vars, DoneIsOfTheEnd
<1>13. /\ ~\E w \in Workers : Lands(w)
       /\ ~\E frame \in flying : FlushLands(frame)
  BY DEF Ordered, NothingOnItsWay, Lands
<1> QED BY <1>2, <1>5, <1>6, <1>7, <1>8, <1>9, <1>10, <1>11, <1>12, <1>13
        DEF Next, Turn, Timer

LEMMA SealedHolds ==
  ASSUME ~Screens
  PROVE  Spec => [](TypeOK /\ FramesOK /\ Ordered /\ Sealed)
<1>1. Init => Sealed
  <2>1. Init => (\A w \in Workers : work[w].at = "ready") /\ stream = <<>>
    BY DEF Init, Idle, At
  <2> QED BY <2>1 DEF Sealed, Tight, DoneIsOfTheEnd, DoneEnds, Shut, Closing, Workers
<1>2. TypeOK /\ FramesOK /\ Ordered /\ Sealed /\ [Next]_vars => Sealed'
  BY TightStep, DoneIsOfTheEndStep DEF Sealed
<1> QED BY <1>1, <1>2, OrderHolds, PTL DEF Spec

\* Without threads nothing follows "[DONE]" before a stop or the clearing.
THEOREM DoneIsLast ==
  ASSUME ~Screens
  PROVE  Spec => []DoneComesLast
<1>1. Sealed => DoneComesLast
  BY DEF Sealed, Tight, DoneEnds, DoneComesLast
<1> QED BY <1>1, SealedHolds, PTL
-----------------------------------------------------------------------------
(***************************************************************************)
(* Nothing is lost, where views are made without a thread and the pushes   *)
(* of the turn are for one message.  As long as the turn goes well every   *)
(* increment was shown, is pending, or waits for the frame before it; what *)
(* waits is not coalesced, so it never takes the place of what is pending. *)
(***************************************************************************)
OneMessage == \A a, b \in Agents : Uid[a] = Uid[b]
NoReports  == "report" \notin Kinds

GoesWell == cached /\ ~stop_flag /\ ending = "none"

\* While no "[DONE]" is in, a frame of a turn that goes well finds room.
HasRoom == GoesWell /\ ~Shut => Room

Somewhere(a, n) ==
  \E x \in Shown \cup Incs(pending) \cup Incs(work[a].own) : x.by = a /\ x.n = n

WaitsAlone(a) == work[a].own # Done => work[a].at = "flushed" /\ ~Coalesced(work[a].own)

Whole(a) == WaitsAlone(a) /\ \A n \in 1..made[a] : Somewhere(a, n)

LEMMA PutShows ==
  ASSUME TypeOK, NEW item \in Frame, Put(item)
  PROVE  Shown \subseteq Shown' /\ (Room => Incs(item) \subseteq Shown')
<1>1. CASE UNCHANGED stream /\ ~Room
  BY <1>1 DEF Shown
<1>2. CASE stream' = Append(stream, item)
  <2>1. /\ DOMAIN stream' = 1..(Len(stream) + 1) /\ DOMAIN stream = 1..Len(stream)
        /\ \A i \in DOMAIN stream : stream'[i] = stream[i]
        /\ stream'[Len(stream) + 1] = item /\ Len(stream) \in Nat
    BY <1>2 DEF TypeOK
  <2> QED BY <2>1 DEF Shown
<1> QED BY <1>1, <1>2 DEF Put

LEMMA JoinedShows ==
  ASSUME NEW frame \in Frame, NEW x \in Increment
  PROVE  Incs(frame) \cup {x} \subseteq Incs(frame \o <<x>>)
<1> DEFINE joined == frame \o <<x>>
<1>1. /\ DOMAIN joined = 1..(Len(frame) + 1) /\ DOMAIN frame = 1..Len(frame)
      /\ Len(frame) \in Nat /\ joined[Len(frame) + 1] = x
      /\ \A k \in 1..Len(frame) : joined[k] = frame[k]
  BY DEF Frame
<1> HIDE DEF joined
<1>2. Incs(frame) \cup {x} \subseteq Incs(joined)
  BY <1>1 DEF Incs
<1> QED BY <1>2 DEF joined

\* The conversation is in the cache: what is delivered is put.
LEMMA DeliverPuts ==
  ASSUME ~Screens, cached, TypeOK, NEW w \in Workers, NEW frame, NEW own, NEW during,
         NEW after, Deliver(w, frame, own, during, after)
  PROVE  /\ Put(frame)
         /\ \A v \in Workers \ {w} : work'[v] = work[v]
         /\ work'[w].at = after /\ work'[w].frame = <<>> /\ work'[w].own = own
BY DEF Deliver, TypeOK

LEMMA FlushFirstShows ==
  ASSUME ~Screens, cached, Room, TypeOK, NEW w \in Workers, NEW own, FlushFirst(w, own)
  PROVE  /\ Shown \cup Incs(pending) \subseteq Shown'
         /\ \A v \in Workers \ {w} : work'[v] = work[v]
         /\ work'[w].at = "flushed" /\ work'[w].own = own
<1>1. /\ Put(pending) /\ pending \in Frame
      /\ \A v \in Workers \ {w} : work'[v] = work[v]
      /\ work'[w].at = "flushed" /\ work'[w].own = own
  BY DeliverPuts DEF FlushFirst, TypeOK
<1> QED BY <1>1, PutShows

\* Steps that push nothing: what an agent holds no more was shown, or is pending.
LEMMA WholeKept ==
  ASSUME NEW a \in Agents, Whole(a), UNCHANGED made,
         Shown \cup Incs(pending) \subseteq Shown' \cup Incs(pending'),
         \/ work'[a] = work[a]
         \/ work'[a].own = Done /\ Incs(work[a].own) \subseteq Shown' \cup Incs(pending')
  PROVE  Whole(a)'
<1>1. Shown \cup Incs(pending) \cup Incs(work[a].own)
        \subseteq Shown' \cup Incs(pending') \cup Incs(work'[a].own)
  OBVIOUS
<1>2. \A n \in 1..made'[a] : Somewhere(a, n)'
  BY <1>1 DEF Whole, Somewhere
<1>3. WaitsAlone(a)'
  BY DEF Whole, WaitsAlone
<1> QED BY <1>2, <1>3 DEF Whole

\* A turn goes well until it does not.
LEMMA WentWell ==
  ASSUME [Next]_vars, GoesWell'
  PROVE  GoesWell
<1>1. CASE Turn
  <2>1. cached' = cached /\ stop_flag' = stop_flag /\ (ending' = ending \/ ending = "none")
    BY <1>1 DEF Turn, End, Push, Lands, Resumes, Complete, RoomForDone, Fail, PushBreak,
                Interrupted
  <2> QED BY <2>1, Zenon DEF GoesWell
<1>2. CASE Timer \/ StopChat \/ Read \/ Leave \/ UNCHANGED vars
  <2>1. cached' = cached /\ stop_flag' = stop_flag /\ ending' = ending
    BY <1>2 DEF Timer, TimerFires, FlushById, FlushLands, StopChat, Read, Leave, vars
  <2> QED BY <2>1, Zenon DEF GoesWell
<1>3. CASE Clear
  <2>1. cached' = FALSE
    BY <1>3 DEF Clear
  <2> QED BY <2>1, Zenon DEF GoesWell
<1>4. CASE MemoryStop
  <2>1. cached' = cached /\ (cached => stop_flag' = TRUE)
    BY <1>4, Zenon DEF MemoryStop
  <2> QED BY <2>1, Zenon DEF GoesWell
<1> QED BY <1>1, <1>2, <1>3, <1>4 DEF Next

LEMMA PushWhole ==
  ASSUME ~Screens, OneMessage, NoReports, TypeOK, FramesOK, cached, Room,
         \A b \in Agents : Whole(b), NEW a \in Agents, NEW kind \in Kinds, Push(a, kind)
  PROVE  \A b \in Agents : Whole(b)'
<1> DEFINE x == [by |-> a, n |-> made[a] + 1, kind |-> kind]
<1>1. x \in Increment /\ x.by = a /\ a # Main /\ a \in Workers
  BY PushedIsFresh
<1>2. x.n = made[a] + 1 /\ x.kind \in {"text", "whole", "raw"}
  BY StreamAssumption DEF NoReports
<1>3. PushMessage(a, <<x>>) /\ work[a].at = "ready" /\ made' = [made EXCEPT ![a] = @ + 1]
  BY DEF Push
<1> HIDE DEF x
<1>4. <<x>> \in Frame /\ Incs(<<x>>) = {x} /\ <<x>>[1] = x /\ <<x>> # Done
  BY <1>1, OneIncrement, OneMade DEF Done
<1>5. pending \in Frame /\ (pending = <<>> => Incs(pending) = {})
  BY EmptyMade DEF TypeOK
<1>6. pending # <<>> => pending[1].by \in Agents
  BY <1>5 DEF FramesOK, PendingMade, Incs, Frame
<1>7. /\ Shown \cup Incs(pending) \subseteq Shown' \cup Incs(pending')
      /\ x \in Shown' \cup Incs(pending') \cup Incs(work'[a].own)
      /\ WaitsAlone(a)'
      /\ \A v \in Workers \ {a} : work'[v] = work[v]
  <2>1. CASE /\ Joins(<<x>>) /\ Merge(<<x>>)
             /\ work' = [work EXCEPT ![a] = Idle]
             /\ UNCHANGED channel
    <3>1. pending' = pending \o <<x>>
      BY <1>2, <1>4, <2>1 DEF Joins, Coalesced, Merge
    <3>2. Shown' = Shown /\ Incs(pending) \cup {x} \subseteq Incs(pending')
      BY <1>1, <1>5, <2>1, <3>1, JoinedShows DEF channel, Shown
    <3>3. work'[a].own = Done /\ \A v \in Workers \ {a} : work'[v] = work[v]
      BY <1>1, <2>1 DEF TypeOK, Idle, At, Done
    <3> QED BY <3>2, <3>3 DEF WaitsAlone
  <2>2. CASE pending # <<>> /\ ~Joins(<<x>>) /\ FlushFirst(a, <<x>>)
    <3>1. /\ Shown \cup Incs(pending) \subseteq Shown'
          /\ \A v \in Workers \ {a} : work'[v] = work[v]
          /\ work'[a].at = "flushed" /\ work'[a].own = <<x>>
      BY <1>1, <2>2, FlushFirstShows
    <3>2. ~Coalesced(<<x>>)
      BY <1>1, <1>4, <1>6, <2>2 DEF Joins, OneMessage
    <3> QED BY <1>4, <3>1, <3>2 DEF WaitsAlone, Coalesced
  <2>3. CASE pending = <<>> /\ PushOwn(a, <<x>>) /\ Coalesced(<<x>>)
    <3>1. /\ pending' = <<x>> /\ UNCHANGED stream
          /\ work'[a].own = Done /\ \A v \in Workers \ {a} : work'[v] = work[v]
      BY <1>1, <2>3 DEF PushOwn, Open, channel, TypeOK, Idle, At, Done
    <3>2. Shown' = Shown
      BY <3>1 DEF Shown
    <3> QED BY <1>4, <1>5, <2>3, <3>1, <3>2 DEF WaitsAlone
  <2>4. CASE pending = <<>> /\ PushOwn(a, <<x>>) /\ ~Coalesced(<<x>>)
    <3>1. Deliver(a, <<x>>, <<>>, "pushing", "ready") /\ UNCHANGED pending
      BY <2>4 DEF PushOwn, collector
    <3>2. /\ Put(<<x>>) /\ work'[a].own = Done
          /\ \A v \in Workers \ {a} : work'[v] = work[v]
      BY <1>1, <3>1, DeliverPuts DEF Done
    <3>3. Shown \cup {x} \subseteq Shown'
      BY <1>4, <3>2, PutShows
    <3> QED BY <3>1, <3>2, <3>3 DEF WaitsAlone
  <2> QED BY <1>3, <2>1, <2>2, <2>3, <2>4 DEF PushMessage
<1>8. ASSUME NEW b \in Agents \ {a}
      PROVE  Whole(b)'
  <2>1. /\ work'[b] = work[b] /\ made'[b] = made[b]
        /\ Shown \cup Incs(pending) \cup Incs(work[b].own)
             \subseteq Shown' \cup Incs(pending') \cup Incs(work'[b].own)
    BY <1>3, <1>7 DEF Workers, TypeOK
  <2>2. \A n \in 1..made'[b] : Somewhere(b, n)'
    BY <2>1 DEF Whole, Somewhere
  <2>3. WaitsAlone(b)'
    BY <2>1 DEF Whole, WaitsAlone
  <2> QED BY <2>2, <2>3 DEF Whole
<1>9. Whole(a)'
  <2>1. /\ made[a] \in Nat /\ made'[a] = made[a] + 1 /\ Incs(work[a].own) = {}
        /\ \A n \in 1..made[a] : Somewhere(a, n)
    BY <1>3, EmptyMade DEF TypeOK, Whole, WaitsAlone, Done
  <2>2. ASSUME NEW n \in 1..made'[a]
        PROVE  Somewhere(a, n)'
    <3>1. CASE n = made[a] + 1
      BY <1>1, <1>2, <1>7, <3>1 DEF Somewhere
    <3>2. CASE n \in 1..made[a]
      BY <1>7, <2>1, <3>2 DEF Somewhere
    <3> QED BY <2>1, <3>1, <3>2
  <2> QED BY <1>7, <2>2 DEF Whole
<1> QED BY <1>8, <1>9

LEMMA WholeStep ==
  ASSUME ~Screens, OneMessage, NoReports, TypeOK, FramesOK, Ordered, Sealed, HasRoom,
         \A a \in Agents : Whole(a), [Next]_vars, GoesWell'
  PROVE  \A a \in Agents : Whole(a)'
<1>1. /\ Main \in Workers /\ Stopper \in Workers \ {Main} /\ Agents \subseteq Workers \ {Main}
      /\ Stopper \notin Agents
  BY StreamAssumption DEF Workers
<1>2. cached /\ ~stop_flag /\ ending = "none" /\ Tight /\ (~Shut => Room)
  BY WentWell DEF GoesWell, Sealed, HasRoom
<1>3. ~Closing => Room
  BY <1>2 DEF Tight, Closing
<1>4. ASSUME UNCHANGED made, Shown \cup Incs(pending) \subseteq Shown' \cup Incs(pending'),
             \A a \in Agents : work'[a] = work[a]
      PROVE  \A a \in Agents : Whole(a)'
  BY <1>4, WholeKept
<1>5. ASSUME UNCHANGED <<made, stream, pending>>,
             \A a \in Agents : work'[a] = work[a] \/ (work[a].at # "flushed" /\ work'[a].own = Done)
      PROVE  \A a \in Agents : Whole(a)'
  <2>1. Shown' = Shown
    BY <1>5 DEF Shown
  <2>2. \A a \in Agents : work[a].at # "flushed" => Incs(work[a].own) = {}
    BY EmptyMade DEF Whole, WaitsAlone, Done
  <2> QED BY <1>5, <2>1, <2>2, WholeKept
<1>6. ASSUME NEW w \in {Main, Stopper}, PutDone(w), UNCHANGED <<made, pending>>
      PROVE  \A a \in Agents : Whole(a)'
  <2>1. Shown \subseteq Shown' /\ \A v \in Workers \ {w} : work'[v] = work[v]
    BY <1>6, EmptyFrame, PutShows DEF PutDone, TypeOK
  <2> QED BY <1>1, <1>4, <1>6, <2>1
<1>7. ASSUME NEW a \in Agents, NEW kind \in Kinds, Push(a, kind)
      PROVE  \A b \in Agents : Whole(b)'
  <2>1. ~Closing
    BY <1>2, <1>7 DEF Push, Tight, AllEnded
  <2> QED BY <1>2, <1>3, <1>7, <2>1, PushWhole
<1>8. ASSUME NEW b \in Agents, End(b)
      PROVE  \A a \in Agents : Whole(a)'
  <2>1. /\ UNCHANGED <<made, stream, pending>> /\ work[b].at # "flushed"
        /\ work'[b].own = Done /\ \A v \in Workers \ {b} : work'[v] = work[v]
    BY <1>1, <1>8 DEF End, At, Done, TypeOK, collector, channel
  <2> QED BY <1>1, <1>5, <2>1
<1>9. ASSUME NEW w \in Workers, Resumes(w)
      PROVE  \A a \in Agents : Whole(a)'
  <2>1. work[w].at = "flushed" /\ w # Stopper
    BY <1>2, <1>9 DEF Resumes, Sealed, DoneIsOfTheEnd
  <2>2. CASE w = Main
    <3>1. work[Main].own = Done
      <4>1. OwnOK(Main) /\ Incs(work[Main].own) \subseteq ToldIncs
        BY <1>1 DEF FramesOK, WorkMade, WellMade
      <4> QED BY <1>2, <4>1, OneMade, StreamAssumption DEF OwnOK, OwnPush, ToldIncs
    <3> QED BY <1>6, <1>9, <2>2, <3>1 DEF Resumes, collector
  <2>3. CASE w \in Agents
    <3>1. work[w].own # Done /\ ~Coalesced(work[w].own) /\ work[w].own \in Frame
      BY <2>1, <2>3 DEF Sealed, DoneIsOfTheEnd, Whole, WaitsAlone, TypeOK, Work
    <3>2. Deliver(w, work[w].own, <<>>, "pushing", "ready") /\ UNCHANGED <<pending, made>>
      BY <1>9, <3>1 DEF Resumes, PushOwn, collector
    <3>3. /\ Put(work[w].own) /\ work'[w].own = Done
          /\ \A v \in Workers \ {w} : work'[v] = work[v]
      BY <1>2, <3>2, DeliverPuts DEF Done
    <3>4. Room
      BY <1>2, <1>3, <2>1, <2>3 DEF Tight, AllEnded
    <3>5. Shown \cup Incs(work[w].own) \subseteq Shown'
      BY <3>1, <3>3, <3>4, PutShows
    <3> QED BY <1>1, <3>2, <3>3, <3>5, WholeKept
  <2> QED BY <2>1, <2>2, <2>3 DEF Workers
<1>10. ASSUME Complete
       PROVE  \A a \in Agents : Whole(a)'
  <2>1. FlushThenDone(Main) /\ UNCHANGED made /\ work[Main].at = "ready"
    BY <1>2, <1>10 DEF Complete
  <2>2. CASE PutDone(Main) /\ UNCHANGED collector
    BY <1>6, <2>1, <2>2 DEF collector
  <2>3. CASE FlushFirst(Main, Done)
    <3>1. Room
      BY <1>3, <2>1 DEF Closing
    <3> QED BY <1>1, <1>2, <1>4, <2>1, <2>3, <3>1, FlushFirstShows
  <2> QED BY <2>1, <2>2, <2>3 DEF FlushThenDone
<1>11. ASSUME RoomForDone
       PROVE  \A a \in Agents : Whole(a)'
  BY <1>6, <1>11 DEF RoomForDone, collector
<1>12. ASSUME Interrupted
       PROVE  \A a \in Agents : Whole(a)'
  <2>1. \A a \in Agents : work'[a] = work[a]
    BY <1>1, <1>2, <1>12 DEF Interrupted, GoesWell, TypeOK
  <2> QED BY <1>5, <1>12, <2>1 DEF Interrupted, collector, channel
<1>13. ASSUME FlushById
       PROVE  \A a \in Agents : Whole(a)'
  <2>1. CASE pending = <<>>
    BY <1>5, <1>13, <2>1 DEF FlushById, collector
  <2>2. CASE pending # <<>>
    <3>1. Put(pending) /\ pending \in Frame /\ UNCHANGED <<work, made>>
      BY <1>2, <1>13, <2>2 DEF FlushById, TypeOK
    <3>2. Room
      BY <1>2, <1>3, <2>2 DEF Tight
    <3>3. Shown \cup Incs(pending) \subseteq Shown'
      BY <3>1, <3>2, PutShows
    <3> QED BY <1>4, <3>1, <3>3
  <2> QED BY <2>1, <2>2
<1>14. ASSUME StopChat
       PROVE  \A a \in Agents : Whole(a)'
  BY <1>1, <1>5, <1>14 DEF StopChat, TypeOK, collector, channel
<1>15. ASSUME TimerFires \/ Read \/ Leave \/ UNCHANGED vars
       PROVE  \A a \in Agents : Whole(a)'
  BY <1>5, <1>15 DEF TimerFires, Read, Leave, vars, collector, channel
<1>16. /\ ~Clear /\ ~MemoryStop /\ ~Fail /\ ~PushBreak
       /\ ~\E w \in Workers : Lands(w)
       /\ ~\E frame \in flying : FlushLands(frame)
  <2>1. ~Clear /\ ~MemoryStop
    BY <1>2, Zenon DEF Clear, MemoryStop, GoesWell
  <2>2. ~Fail /\ ~PushBreak
    BY <1>2 DEF Fail, PushBreak, GoesWell, FramesOK, BreaksOnce
  <2> QED BY <2>1, <2>2 DEF Ordered, NothingOnItsWay, Lands
<1> QED BY <1>7, <1>8, <1>9, <1>10, <1>11, <1>12, <1>13, <1>14, <1>15, <1>16
        DEF Next, Turn, Timer

\* The reader comes to its "[DONE]" with everything behind it, and then
\* nobody pushes any more.
ReadsCached == reader = "reading" => cached

ReadThrough == reader = "ended" /\ ending = "none" /\ ~stop_flag
               => work[Main].at = "ended" /\ AllEnded /\ NothingLost

Intact == GoesWell => \A a \in Agents : Whole(a)

LEMMA ReadsCachedStep == ReadsCached /\ [Next]_vars => ReadsCached'
<1>1. [Next]_vars => /\ reader' = "reading" => reader = "reading"
                     /\ UNCHANGED cached \/ Clear
  BY DEF Next, Turn, End, Push, Lands, Resumes, Complete, RoomForDone, Fail, PushBreak,
         Interrupted, Timer, TimerFires, FlushById, FlushLands, StopChat, MemoryStop, Read,
         Leave, Clear, vars
<1>2. Clear => reader' # "reading"
  BY DEF Clear
<1>3. UNCHANGED cached /\ cached => cached'
  BY Zenon
<1> QED BY <1>1, <1>2, <1>3 DEF ReadsCached

\* What was read stays read.
LEMMA ChannelGrows ==
  ASSUME TypeOK, [Next]_vars
  PROVE  /\ taken' >= taken
         /\ Len(stream') >= Len(stream)
         /\ \A i \in DOMAIN stream : stream'[i] = stream[i]
<1> DEFINE Grown == /\ taken' = taken /\ Len(stream') >= Len(stream)
                    /\ \A i \in DOMAIN stream : stream'[i] = stream[i]
<1>1. ASSUME NEW item \in Frame, Put(item) \/ UNCHANGED stream, taken' = taken
      PROVE  Grown
  BY <1>1, PutGrows DEF TypeOK
<1>2. ASSUME NEW w \in Workers, NEW frame \in Frame, NEW own, NEW during, NEW after,
             Deliver(w, frame, own, during, after)
      PROVE  Grown
  BY <1>1, <1>2 DEF Deliver
<1>3. ASSUME NEW w \in Workers, NEW own \in Frame,
             FlushFirst(w, own) \/ PushOwn(w, own) \/ PushMessage(w, own)
      PROVE  Grown
  <2>1. pending \in Frame
    BY DEF TypeOK
  <2> QED BY <1>1, <1>2, <1>3, <2>1, EmptyFrame DEF FlushFirst, PushOwn, PushMessage, channel
<1>4. ASSUME NEW w \in Workers, PutDone(w) \/ FlushThenDone(w)
      PROVE  Grown
  BY <1>1, <1>3, <1>4, EmptyFrame DEF PutDone, FlushThenDone
<1>5. ASSUME NEW a \in Agents, NEW kind \in Kinds, Push(a, kind)
      PROVE  Grown
  <2>1. PushMessage(a, <<[by |-> a, n |-> made[a] + 1, kind |-> kind]>>)
    BY <1>5 DEF Push
  <2> QED BY <1>3, <1>5, <2>1, PushedIsFresh, OneIncrement
<1>6. ASSUME PushBreak
      PROVE  Grown
  <2>1. /\ <<BreakIncrement>> \in Frame /\ Main \in Workers /\ <<>> \in Frame
        /\ PushMessage(Main, <<BreakIncrement>>) \/ UNCHANGED channel
    BY <1>6, OneIncrement, EmptyFrame DEF PushBreak, BreakIncrement, Increment, Workers
  <2> QED BY <1>1, <1>3, <2>1 DEF channel
<1>7. ASSUME NEW w \in Workers, Lands(w) \/ Resumes(w)
      PROVE  Grown
  <2>1. work[w].frame \in Frame /\ work[w].own \in Frame
    BY DEF TypeOK, Work
  <2> QED BY <1>1, <1>3, <1>4, <1>7, <2>1 DEF Lands, Resumes
<1>8. ASSUME Complete \/ MemoryStop \/ RoomForDone
      PROVE  Grown
  <2>1. Main \in Workers /\ Stopper \in Workers /\ <<>> \in Frame
    BY EmptyFrame DEF Workers
  <2> QED BY <1>1, <1>4, <1>8, <2>1 DEF Complete, MemoryStop, RoomForDone, channel
<1>9. ASSUME \/ FlushById \/ Clear
             \/ \E frame \in flying : FlushLands(frame)
      PROVE  Grown
  <2>1. pending \in Frame /\ flying \subseteq Frame
    BY DEF TypeOK
  <2> QED BY <1>1, <1>9, <2>1, EmptyFrame DEF FlushById, FlushLands, Clear
<1>10. ASSUME \/ \E a \in Agents : End(a)
              \/ Fail \/ Interrupted \/ TimerFires \/ StopChat \/ Leave \/ UNCHANGED vars
       PROVE  Grown
  <2>1. UNCHANGED channel
    BY <1>10 DEF End, Fail, Interrupted, TimerFires, StopChat, Leave, vars
  <2> QED BY <1>1, <2>1, EmptyFrame DEF channel
<1>11. Read => /\ taken' = taken + 1 /\ UNCHANGED stream /\ taken \in Nat /\ Len(stream) \in Nat
  BY DEF Read, TypeOK
<1>12. taken \in Nat /\ Len(stream) \in Nat
  BY DEF TypeOK
<1> QED BY <1>5, <1>6, <1>7, <1>8, <1>9, <1>10, <1>11, <1>12 DEF Next, Turn, Timer

LEMMA SeenStays ==
  ASSUME TypeOK, [Next]_vars, NEW a, NEW n, Seen(a, n)
  PROVE  Seen(a, n)'
<1>1. taken \in 0..Len(stream) /\ Len(stream) \in Nat /\ DOMAIN stream = 1..Len(stream)
  BY DEF TypeOK
<1>2. taken' \in Nat
  BY TypesStep DEF TypeOK
<1> QED BY <1>1, <1>2, ChannelGrows DEF Seen

\* A turn that has ended well and was read through stays as it is.
LEMMA SettledStays ==
  ASSUME ~Screens, TypeOK, Ordered, DoneIsOfTheEnd, [Next]_vars, ~stop_flag, ending = "none",
         work[Main].at = "ended", AllEnded
  PROVE  work'[Main].at = "ended" /\ AllEnded' /\ UNCHANGED made /\ UNCHANGED ending
<1>1. /\ Main \in Workers /\ Stopper \in Workers \ {Main} /\ Agents \subseteq Workers \ {Main}
      /\ Stopper \notin Agents
  BY StreamAssumption DEF Workers
<1>2. ASSUME \A v \in Workers \ {Stopper} : work'[v] = work[v]
      PROVE  work'[Main].at = "ended" /\ AllEnded'
  <2>1. \A v \in Agents \cup {Main} : work'[v] = work[v]
    BY <1>1, <1>2
  <2> QED BY <2>1 DEF AllEnded
<1>3. /\ ~\E a \in Agents : End(a) \/ \E kind \in Kinds : Push(a, kind)
      /\ ~\E w \in Workers : Lands(w) \/ Resumes(w)
      /\ ~Complete /\ ~RoomForDone /\ ~Fail /\ ~PushBreak
      /\ ~\E frame \in flying : FlushLands(frame)
  BY DEF AllEnded, End, Push, Lands, Resumes, Complete, RoomForDone, Fail, PushBreak,
         Ordered, NothingOnItsWay, DoneIsOfTheEnd, Workers
<1>4. CASE Interrupted
  BY <1>4 DEF Interrupted, TurnDone, Finished, Completing, AllEnded
<1>5. CASE MemoryStop
  <2>1. \A v \in Workers \ {Stopper} : work'[v] = work[v]
    <3>1. CASE FlushFirst(Stopper, Done)
      <4>1. Deliver(Stopper, pending, Done, "flushing", "flushed")
        BY <3>1 DEF FlushFirst
      <4> QED BY <1>1, <4>1, DeliverDirectly
    <3>2. CASE PutDone(Stopper) \/ work' = [work EXCEPT ![Stopper] = At("ended")]
      BY <1>1, <3>2 DEF PutDone, TypeOK
    <3> QED BY <1>5, <3>1, <3>2 DEF MemoryStop, FlushThenDone
  <2> QED BY <1>2, <1>5, <2>1 DEF MemoryStop
<1>6. CASE StopChat
  BY <1>1, <1>2, <1>6 DEF StopChat, TypeOK
<1>7. CASE TimerFires \/ FlushById \/ Read \/ Leave \/ Clear \/ UNCHANGED vars
  BY <1>2, <1>7 DEF TimerFires, FlushById, Read, Leave, Clear, vars
<1> QED BY <1>3, <1>4, <1>5, <1>6, <1>7 DEF Next, Turn, Timer

LEMMA ReadThroughStep ==
  ASSUME ~Screens, TypeOK, Ordered, Sealed, ReadsCached, Intact, ReadThrough, [Next]_vars
  PROVE  ReadThrough'
<1> SUFFICES ASSUME reader' = "ended", ending' = "none", ~stop_flag'
             PROVE  work'[Main].at = "ended" /\ AllEnded' /\ NothingLost'
  BY DEF ReadThrough
<1>1. ~stop_flag
  <2>1. (Next /\ ~MemoryStop) \/ UNCHANGED vars => stop_flag' = stop_flag
    BY DEF Next, Turn, End, Push, Lands, Resumes, Complete, RoomForDone, Fail, PushBreak,
           Interrupted, Timer, TimerFires, FlushById, FlushLands, StopChat, Read, Leave,
           Clear, vars
  <2>2. MemoryStop => stop_flag' = TRUE \/ stop_flag' = stop_flag
    BY DEF MemoryStop
  <2> QED BY <2>1, <2>2, Zenon
<1>2. ending = "none"
  BY DEF Next, Turn, End, Push, Lands, Resumes, Complete, RoomForDone, Fail, PushBreak,
         Interrupted, Timer, TimerFires, FlushById, FlushLands, StopChat, MemoryStop, Read,
         Leave, Clear, vars
<1>3. CASE reader = "ended"
  <2>1. work[Main].at = "ended" /\ AllEnded /\ \A a \in Agents : \A n \in 1..made[a] : Seen(a, n)
    BY <1>1, <1>2, <1>3 DEF ReadThrough, NothingLost
  <2>2. work'[Main].at = "ended" /\ AllEnded' /\ UNCHANGED made
    BY <1>1, <1>2, <2>1, SettledStays DEF Sealed
  <2>3. \A a \in Agents : \A n \in 1..made'[a] : Seen(a, n)'
    BY <2>1, <2>2, SeenStays
  <2> QED BY <2>2, <2>3 DEF NothingLost
<1>4. CASE reader # "ended"
  <2>1. /\ Read /\ reader = "reading" /\ stream[taken + 1] = Done
        /\ taken < Len(stream) /\ taken' = taken + 1 /\ UNCHANGED <<stream, work, made>>
    <3>1. Read
      BY <1>4 DEF Next, Turn, End, Push, Lands, Resumes, Complete, RoomForDone, Fail,
             PushBreak, Interrupted, Timer, TimerFires, FlushById, FlushLands, StopChat,
             MemoryStop, Leave, Clear, vars
    <3> QED BY <1>2, <1>4, <3>1 DEF Read, channel
  <2>2. taken \in Nat /\ Len(stream) \in Nat /\ DOMAIN stream = 1..Len(stream)
    BY DEF TypeOK
  <2>3. cached /\ Tight /\ GoesWell
    BY <1>1, <1>2, <2>1 DEF ReadsCached, Sealed, GoesWell
  <2>4. work[Main].at = "ended" /\ AllEnded /\ pending = <<>> /\ DoneEnds
    <3>1. Shut
      BY <2>1, <2>2 DEF Shut
    <3> QED BY <2>3, <3>1 DEF Tight, Closing
  <2>5. ASSUME NEW a \in Agents, NEW n \in 1..made[a]
        PROVE  Seen(a, n)'
    <3>1. work[a].own = Done /\ Somewhere(a, n)
      BY <2>3, <2>4 DEF Intact, Whole, WaitsAlone, AllEnded
    <3>2. PICK i \in DOMAIN stream : \E k \in DOMAIN stream[i] :
                 stream[i][k].by = a /\ stream[i][k].n = n
      BY <2>4, <3>1, EmptyMade DEF Somewhere, Shown, Incs, Done
    <3>3. stream[i] # Done
      BY <3>2 DEF Done
    <3>4. i <= taken + 1
      BY <2>1, <2>2, <2>4, <3>3 DEF DoneEnds
    <3> QED BY <2>1, <2>2, <3>2, <3>4 DEF Seen
  <2> QED BY <2>1, <2>4, <2>5 DEF NothingLost, AllEnded
<1> QED BY <1>3, <1>4

Safe == TypeOK /\ FramesOK /\ Ordered /\ Sealed /\ ReadsCached

LEMMA SafeHolds ==
  ASSUME ~Screens
  PROVE  Spec => []Safe
<1>1. Init => ReadsCached
  <2>1. Init => cached
    BY Zenon DEF Init
  <2> QED BY <2>1 DEF ReadsCached
<1> QED BY <1>1, ReadsCachedStep, SealedHolds, PTL DEF Spec, Safe

LEMMA LostInit ==
  ASSUME Init
  PROVE  Intact /\ ReadThrough
<1>1. /\ \A a \in Agents : made[a] = 0 /\ work[a].own = Done
      /\ reader = "reading"
  BY DEF Init, Idle, At, Done, Workers
<1> QED BY <1>1 DEF Intact, Whole, WaitsAlone, ReadThrough

(***************************************************************************)
(* While a frame finds room, the client of a turn that ended well has read *)
(* every increment that was pushed.  With views made in threads, with two  *)
(* messages in the turn, or with reports in the window, one can be lost.   *)
(***************************************************************************)
THEOREM NothingIsLostWithRoom ==
  ASSUME ~Screens, OneMessage, NoReports
  PROVE  Spec /\ []HasRoom => []NothingLost
<1>1. Safe /\ HasRoom /\ Intact /\ [Next]_vars => Intact'
  BY WholeStep, WentWell DEF Safe, Intact
<1>2. Safe /\ Intact /\ ReadThrough /\ [Next]_vars => ReadThrough'
  BY ReadThroughStep DEF Safe
<1>3. ReadThrough => NothingLost
  BY DEF ReadThrough, NothingLost
<1> QED BY <1>1, <1>2, <1>3, LostInit, SafeHolds, PTL DEF Spec

-----------------------------------------------------------------------------
(* Fewer pushes than places in the channel: then a frame finds room. *)

Pushes == UNION {{a} \X (1..MaxPush[a]) : a \in Agents}
FewPushes == IsFiniteSet(Pushes) /\ Cardinality(Pushes) < MaxSize

Bounded == \A a \in Agents : made[a] <= MaxPush[a]

LEMMA BoundedStep == TypeOK /\ Bounded /\ [Next]_vars => Bounded'
<1> SUFFICES ASSUME TypeOK, Bounded, [Next]_vars
             PROVE  Bounded'
  OBVIOUS
<1>1. ASSUME NEW a \in Agents, NEW kind \in Kinds, Push(a, kind)
      PROVE  Bounded'
  BY <1>1, StreamAssumption DEF Push, Bounded, TypeOK
<1>2. UNCHANGED made \/ \E a \in Agents, kind \in Kinds : Push(a, kind)
  BY DEF Next, Turn, Timer, End, Lands, Resumes, Complete, RoomForDone, Fail, PushBreak,
         Interrupted, TimerFires, FlushById, FlushLands, StopChat, MemoryStop, Read, Leave,
         Clear, vars
<1> QED BY <1>1, <1>2 DEF Bounded

\* No two frames begin with the same push.
LEMMA FramesAreFew ==
  ASSUME FewPushes, TypeOK, FramesOK, Ordered, Bounded, ending = "none", ~Shut
  PROVE  Len(stream) <= Cardinality(Pushes)
<1> DEFINE n == Len(stream)
           first == [i \in 1..n |-> <<stream[i][1].by, stream[i][1].n>>]
<1>1. n \in Nat /\ DOMAIN stream = 1..n
  BY DEF TypeOK
<1>2. ASSUME NEW i \in 1..n
      PROVE  /\ stream[i][1] \in Incs(stream[i]) /\ stream[i][1].by \in Agents
             /\ stream[i][1].n \in 1..MaxPush[stream[i][1].by]
  <2>1. stream[i] \in Frame /\ stream[i] # <<>> /\ Incs(stream[i]) \subseteq ToldIncs
    BY <1>1 DEF TypeOK, Shut, Done, FramesOK, StreamMade, WellMade
  <2>2. stream[i][1] \in Incs(stream[i])
    BY <2>1 DEF Incs, Frame
  <2>3. stream[i][1] \in ToldIncs /\ stream[i][1] \in Increment
    BY <2>1, <2>2 DEF ToldIncs
  <2>4. /\ stream[i][1].by \in Agents /\ stream[i][1].n <= made[stream[i][1].by]
        /\ stream[i][1].n \in Nat \ {0}
    BY <2>3 DEF ToldIncs, Increment
  <2> QED BY <2>2, <2>4, StreamAssumption DEF Bounded, TypeOK
<1>3. first \in [1..n -> Pushes]
  <2>1. ASSUME NEW i \in 1..n
        PROVE  <<stream[i][1].by, stream[i][1].n>> \in Pushes
    <3>1. <<stream[i][1].by, stream[i][1].n>>
            \in {stream[i][1].by} \X (1..MaxPush[stream[i][1].by])
      BY <1>2
    <3> QED BY <1>2, <3>1 DEF Pushes
  <2> QED BY <2>1
<1>4. \A i, j \in 1..n : first[i] = first[j] => i = j
  <2> SUFFICES ASSUME NEW i \in 1..n, NEW j \in 1..n, i < j
               PROVE  first[i] # first[j]
    BY <1>1
  <2>1. stream[i][1].by = stream[j][1].by => stream[i][1].n < stream[j][1].n
    BY <1>1, <1>2 DEF Ordered, StreamSorted
  <2>2. stream[i][1].n \in Nat
    BY <1>2
  <2> QED BY <1>2, <2>1
<1> HIDE DEF first
<1>5. first \in Injection(1..n, Pushes)
  BY <1>3, <1>4 DEF Injection, IsInjective
<1>6. Cardinality(1..n) <= Cardinality(Pushes)
  BY <1>5, FS_Injection DEF FewPushes
<1>7. Cardinality(1..n) = n
  <2>1. 1 \in Int /\ n \in Int
    BY <1>1
  <2>2. Cardinality(1..n) = IF 1 > n THEN 0 ELSE n - 1 + 1
    BY <2>1, FS_Interval
  <2> QED BY <1>1, <2>2
<1> QED BY <1>6, <1>7

(***************************************************************************)
(* The same where the turn has fewer pushes than the channel has places,   *)
(* however slowly the client reads.                                        *)
(***************************************************************************)
THEOREM NothingIsLost ==
  ASSUME ~Screens, OneMessage, NoReports, FewPushes
  PROVE  Spec => []NothingLost
<1>1. Init => Bounded
  <2>1. Init => \A a \in Agents : made[a] = 0
    BY DEF Init
  <2>2. \A a \in Agents : MaxPush[a] \in Nat
    BY StreamAssumption, Zenon
  <2>3. \A n \in Nat : 0 <= n
    OBVIOUS
  <2> QED BY <2>1, <2>2, <2>3, Zenon DEF Bounded
<1>2. Safe /\ Bounded => HasRoom
  <2> SUFFICES ASSUME Safe, Bounded, GoesWell, ~Shut
               PROVE  Room
    BY DEF HasRoom
  <2>1. Len(stream) <= Cardinality(Pushes)
    BY FramesAreFew DEF Safe, GoesWell
  <2>2. taken \in Nat /\ Len(stream) \in Nat /\ MaxSize \in Nat
    BY StreamAssumption DEF Safe, TypeOK
  <2>3. Cardinality(Pushes) \in Nat
    BY FS_CardinalityType DEF FewPushes
  <2> QED BY <2>1, <2>2, <2>3 DEF FewPushes, Room
<1>3. Spec => []HasRoom
  BY <1>1, <1>2, BoundedStep, SafeHolds, PTL DEF Spec, Safe
<1> QED BY <1>3, NothingIsLostWithRoom, PTL
=============================================================================
