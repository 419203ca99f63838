----------------------------- MODULE StreamPush -----------------------------
(***************************************************************************)
(* What an agent turn shows its client while it runs: the push pipeline of *)
(* GptsMemory (push_message, the coalescing of token increments, its       *)
(* timer, complete, stop, clear), the coroutines of the turn that push,    *)
(* and the stream that reads the channel.                                  *)
(*                                                                         *)
(* Everything runs on one event loop.  A push suspends in two places:      *)
(* while its view is made, where vis_messages hands the messages to a      *)
(* thread unless the converter wants them unscreened, and at the           *)
(* asyncio.sleep(0) after the frame was put.  A dropped frame skips that   *)
(* sleep; here it may suspend all the same.                                *)
(*                                                                         *)
(* An increment is a token of a message ("text"), a state of its actions   *)
(* ("report"), a whole message or its reset ("whole"), or a fence sent as  *)
(* it is ("raw").  A frame is the sequence of increments one view shows.   *)
(***************************************************************************)
EXTENDS Naturals, Sequences

CONSTANTS
  Agents,     \* coroutines of the turn that push: the agent, its parallel tools
  Uid,        \* the message each of them pushes for
  Main,       \* _inner_chat, which waits for them and completes the turn
  Stopper,    \* a stop_chat of the user
  Kinds,      \* the increments this instance pushes
  Screens,    \* the converter does not set include_user_messages
  MaxSize,    \* capacity of the channel, 100 in the code
  MaxPush,    \* bound: pushes of each agent
  MayStop,    \* bound: the user may stop the turn
  MayLeave    \* bound: the client may go away

Workers == Agents \cup {Main, Stopper}

ASSUME StreamAssumption ==
  /\ Main \notin Agents /\ Stopper \notin Agents /\ Main # Stopper
  /\ DOMAIN Uid = Agents
  /\ Kinds \subseteq {"text", "report", "whole", "raw"}
  /\ {Screens, MayStop, MayLeave} \subseteq BOOLEAN
  /\ MaxSize \in Nat \ {0}
  /\ \A a \in Agents : MaxPush[a] \in Nat

VARIABLES
  cached,     \* the cache of the conversation is in _conversations
  stop_flag,
  pending,    \* stream_pending: the increments collected, none if empty
  handle,     \* the timer stream_pending_handle names, and what became of it
  strays,     \* timers no handle names any more
  flushes,    \* flush tasks that a timer started and that have not run yet
  flying,     \* frames whose view a flush task is making
  stream,     \* every item ever put in the channel
  taken,      \* how many of them were read
  reader,     \* the stream of the client
  work,       \* what each coroutine is doing
  made,       \* pushes of each agent that were accepted
  cancel,     \* task.cancel() was called on the turn and has not arrived
  ending      \* how the turn ended, where it did not end well

collector == <<pending, handle, strays>>
channel   == <<stream, taken>>
vars == <<cached, stop_flag, collector, flushes, flying, channel, reader, work, made,
          cancel, ending>>

Increment == [by : Agents \cup {Main}, n : Nat \ {0}, kind : {"text", "report", "whole", "raw"}]
Frame     == Seq(Increment)

\* "[DONE]" shows nothing.
Done == <<>>

(***************************************************************************)
(* A coroutine is flushing (the view of what was pending is being made),   *)
(* flushed (that frame was put, the push itself follows), or pushing (the  *)
(* view of its own frame is being made).  own is what follows the flush.   *)
(***************************************************************************)
Work == [at : {"ready", "flushing", "flushed", "pushing", "breaking", "blocked",
               "stopping", "ended", "aborted"},
         frame : Frame, own : Frame]
At(state)  == [at |-> state, frame |-> <<>>, own |-> <<>>]
Idle       == At("ready")
Finished   == {"ended", "aborted"}

TypeOK ==
  /\ cached \in BOOLEAN /\ stop_flag \in BOOLEAN /\ cancel \in BOOLEAN
  /\ pending \in Frame /\ flying \subseteq Frame /\ stream \in Seq(Frame)
  /\ handle \in {"none", "armed", "fired"}
  /\ strays \in Nat /\ flushes \in Nat
  /\ taken \in 0..Len(stream)
  /\ reader \in {"reading", "orphan", "gone", "ended"}
  /\ work \in [Workers -> Work]
  /\ made \in [Agents -> Nat]
  /\ ending \in {"none", "failed", "cancelled"}

Init ==
  /\ cached = TRUE /\ stop_flag = FALSE /\ cancel = FALSE
  /\ pending = <<>> /\ handle = "none" /\ strays = 0
  /\ flushes = 0 /\ flying = {}
  /\ stream = <<>> /\ taken = 0
  /\ reader = "reading"
  /\ work = [w \in Workers |-> Idle]
  /\ made = [a \in Agents |-> 0]
  /\ ending = "none"

-----------------------------------------------------------------------------
(* The channel and the making of views *)

Room == Len(stream) - taken < MaxSize

\* put_nowait; an item that finds no room is dropped.
Put(item) == stream' = IF Room THEN Append(stream, item) ELSE stream

Coalesced(own) == own[1].kind \in {"text", "report"}

\* The view of a fence is the fence; any other passes through vis_messages.
IsFence(frame) == frame[1].kind = "raw"

(***************************************************************************)
(* _deliver_push up to where it suspends.  vis_messages makes no view for  *)
(* a conversation that was cleared.                                        *)
(***************************************************************************)
Deliver(w, frame, own, during, after) ==
  /\ IF Screens /\ cached /\ ~IsFence(frame)
     THEN /\ work' = [work EXCEPT ![w] = [at |-> during, frame |-> frame, own |-> own]]
          /\ UNCHANGED stream
     ELSE /\ work' = [work EXCEPT ![w] = [at |-> after, frame |-> <<>>, own |-> own]]
          /\ IF cached \/ IsFence(frame) THEN Put(frame) ELSE UNCHANGED stream
  /\ UNCHANGED taken

\* The timer is cancelled after the delivery, when it may be another's.
LandsCancelling(w) ==
  /\ work[w].at \in {"flushing", "pushing"}
  /\ Put(work[w].frame)
  /\ work' = [work EXCEPT ![w] = IF @.at = "flushing"
                                 THEN [@ EXCEPT !.at = "flushed", !.frame = <<>>]
                                 ELSE Idle]
  /\ handle' = "none"
  /\ UNCHANGED <<cached, stop_flag, pending, strays, flushes, flying, taken, reader, made,
                 cancel, ending>>

\* The view is made: the frame is put in the channel.
Lands(w) ==
  /\ work[w].at \in {"flushing", "pushing"}
  /\ Put(work[w].frame)
  /\ work' = [work EXCEPT ![w] = IF @.at = "flushing"
                                 THEN [@ EXCEPT !.at = "flushed", !.frame = <<>>]
                                 ELSE Idle]
  /\ UNCHANGED <<cached, stop_flag, collector, flushes, flying, taken, reader, made,
                 cancel, ending>>

-----------------------------------------------------------------------------
(* push_message *)

Accepts == cached /\ ~stop_flag

\* What is pending is forgotten after it was delivered, not before.
TakePendingKept == handle' = "none" /\ UNCHANGED <<pending, strays>>

\* _flush_stream_pending takes what is pending and cancels its timer.
TakePending ==
  /\ pending' = <<>>
  /\ handle' = "none"
  /\ UNCHANGED strays

\* What is pending now is this; the handle names its timer and no other.
Open(own) ==
  /\ pending' = own
  /\ handle' = "armed"
  /\ strays' = IF handle = "armed" THEN strays + 1 ELSE strays

\* Of what is pushed in the window the first increment is kept.
MergeKeepingFirst(own) == UNCHANGED collector

\* Of an increment that joins the pending one only thinking and content are kept.
Merge(own) ==
  /\ pending' = IF own[1].kind = "text" THEN pending \o own ELSE pending
  /\ UNCHANGED <<handle, strays>>

\* Increments of any message are collected together.
JoinsAny(own) == Coalesced(own) /\ pending # <<>>

Joins(own) == /\ Coalesced(own) /\ pending # <<>>
              /\ Uid[pending[1].by] = Uid[own[1].by]

\* The rest of a push, when nothing that is pending has to go before it.
PushOwn(w, own) ==
  IF Coalesced(own)
  THEN /\ Open(own)
       /\ work' = [work EXCEPT ![w] = Idle]
       /\ UNCHANGED channel
  ELSE Deliver(w, own, <<>>, "pushing", "ready") /\ UNCHANGED collector

FlushFirst(w, own) ==
  /\ TakePending
  /\ Deliver(w, pending, own, "flushing", "flushed")

\* A push that is not coalesced goes out before what is pending.
PushMessageUnflushed(w, own) ==
  \/ /\ Joins(own) /\ Merge(own)
     /\ work' = [work EXCEPT ![w] = Idle]
     /\ UNCHANGED channel
  \/ pending # <<>> /\ Coalesced(own) /\ ~Joins(own) /\ FlushFirst(w, own)
  \/ (pending = <<>> \/ ~Coalesced(own)) /\ PushOwn(w, own)

PushMessage(w, own) ==
  \/ /\ Joins(own) /\ Merge(own)
     /\ work' = [work EXCEPT ![w] = Idle]
     /\ UNCHANGED channel
  \/ pending # <<>> /\ ~Joins(own) /\ FlushFirst(w, own)
  \/ pending = <<>> /\ PushOwn(w, own)

\* A cancelled coroutine runs no further than to where the cancellation meets it.
Runs(w) == w = Stopper \/ ~cancel

Push(a, kind) ==
  /\ work[a].at = "ready" /\ Runs(a) /\ Accepts
  /\ made[a] < MaxPush[a]
  /\ made' = [made EXCEPT ![a] = @ + 1]
  /\ PushMessage(a, <<[by |-> a, n |-> made[a] + 1, kind |-> kind]>>)
  /\ UNCHANGED <<cached, stop_flag, flushes, flying, reader, cancel, ending>>

\* The agent or the tool has nothing more to say.
End(a) ==
  /\ work[a].at = "ready" /\ Runs(a)
  /\ work' = [work EXCEPT ![a] = At("ended")]
  /\ UNCHANGED <<cached, stop_flag, collector, flushes, flying, channel, reader, made,
                 cancel, ending>>

-----------------------------------------------------------------------------
(* The timer of the window *)

TimerFires ==
  /\ \/ handle = "armed" /\ handle' = "fired" /\ UNCHANGED strays
     \/ strays > 0 /\ strays' = strays - 1 /\ UNCHANGED handle
  /\ flushes' = flushes + 1
  /\ UNCHANGED <<cached, stop_flag, pending, flying, channel, reader, work, made, cancel,
                 ending>>

\* _flush_stream_pending_by_id takes whatever is pending by the time it runs.
FlushById ==
  /\ flushes > 0
  /\ flushes' = flushes - 1
  /\ IF cached /\ pending # <<>>
     THEN /\ TakePending
          /\ IF Screens
             THEN flying' = flying \cup {pending} /\ UNCHANGED stream
             ELSE Put(pending) /\ UNCHANGED flying
     ELSE UNCHANGED <<collector, flying, stream>>
  /\ UNCHANGED <<cached, stop_flag, taken, reader, work, made, cancel, ending>>

FlushLands(frame) ==
  /\ frame \in flying
  /\ flying' = flying \ {frame}
  /\ Put(frame)
  /\ UNCHANGED <<cached, stop_flag, collector, flushes, taken, reader, work, made,
                 cancel, ending>>

-----------------------------------------------------------------------------
(* The end of the turn: complete, stop, and a cancellation *)

AllEnded == \A a \in Agents : work[a].at = "ended"
TurnDone == work[Main].at \in Finished

\* complete drops its "[DONE]" when the channel is full.
PutDoneNoWait(w) ==
  /\ work' = [work EXCEPT ![w] = At("ended")]
  /\ Put(Done)
  /\ UNCHANGED taken

(***************************************************************************)
(* "[DONE]" for the reader: complete waits for room, stop does not.  Once  *)
(* complete has returned, _inner_chat releases the lease and the sandbox.  *)
(***************************************************************************)
PutDone(w) ==
  /\ work' = [work EXCEPT ![w] = At(IF w = Main /\ ~Room THEN "blocked" ELSE "ended")]
  /\ Put(Done)
  /\ UNCHANGED taken

\* complete does not flush.
DoneUnflushed(w) == PutDone(w) /\ UNCHANGED collector

FlushThenDone(w) ==
  \/ pending = <<>> /\ PutDone(w) /\ UNCHANGED collector
  \/ pending # <<>> /\ FlushFirst(w, Done)

\* A push, or complete or stop, goes on after the frame it flushed.
Resumes(w) ==
  /\ work[w].at = "flushed" /\ Runs(w)
  /\ IF work[w].own = Done
     THEN PutDone(w) /\ UNCHANGED collector
     ELSE PushOwn(w, work[w].own)
  /\ UNCHANGED <<cached, stop_flag, flushes, flying, reader, made, cancel, ending>>

Complete ==
  /\ work[Main].at = "ready" /\ AllEnded /\ Runs(Main)
  /\ IF cached
     THEN FlushThenDone(Main)
     ELSE work' = [work EXCEPT ![Main] = At("ended")] /\ UNCHANGED <<collector, channel>>
  /\ UNCHANGED <<cached, stop_flag, flushes, flying, reader, made, cancel, ending>>

\* complete waits until the reader is through.
RoomForDoneJoined ==
  /\ work[Main].at = "blocked" /\ Runs(Main) /\ Room
  /\ reader # "reading"
  /\ PutDone(Main)
  /\ UNCHANGED <<cached, stop_flag, collector, flushes, flying, reader, made, cancel,
                 ending>>

RoomForDone ==
  /\ work[Main].at = "blocked" /\ Runs(Main) /\ Room
  /\ PutDone(Main)
  /\ UNCHANGED <<cached, stop_flag, collector, flushes, flying, reader, made, cancel,
                 ending>>

\* The agent raises; what it was doing is over.
Fail ==
  /\ work[Main].at = "ready" /\ ending = "none" /\ Runs(Main)
  /\ \A a \in Agents : work[a].at \in {"ready", "ended"}
  /\ ending' = "failed"
  /\ work' = [w \in Workers |-> CASE w = Main    -> At("breaking")
                                  [] w = Stopper -> work[w]
                                  [] OTHER       -> At("ended")]
  /\ UNCHANGED <<cached, stop_flag, collector, flushes, flying, channel, reader, made,
                 cancel>>

\* The error or the interruption is pushed; these messages have no uid.
PushBreak ==
  /\ work[Main].at = "breaking" /\ Runs(Main)
  /\ IF Accepts
     THEN PushMessage(Main, <<[by |-> Main, n |-> 1, kind |-> "whole"]>>)
     ELSE work' = [work EXCEPT ![Main] = Idle] /\ UNCHANGED <<collector, channel>>
  /\ UNCHANGED <<cached, stop_flag, flushes, flying, reader, made, cancel, ending>>

(***************************************************************************)
(* CancelledError meets the turn where it waits, and the frame whose view  *)
(* is being made there is lost.  In the body of _inner_chat it leads to    *)
(* the handler that tells the client, in a handler to the finally block,   *)
(* and in complete, out of the finally block.                              *)
(***************************************************************************)
Completing == \/ work[Main].at = "blocked"
              \/ work[Main].at \in {"flushing", "flushed"} /\ work[Main].own = Done

Interrupted ==
  /\ cancel /\ cancel' = FALSE
  /\ \/ /\ work[Main].at = "ready" /\ ending = "none"
        /\ ending' = "cancelled"
        /\ work' = [w \in Workers |-> CASE w = Main    -> At("breaking")
                                        [] w = Stopper -> work[w]
                                        [] OTHER       -> At("ended")]
     \/ /\ Completing
        /\ work' = [work EXCEPT ![Main] = At("aborted")]
        /\ UNCHANGED ending
     \/ /\ ~Completing /\ ~TurnDone /\ ending # "none"
        /\ work' = [work EXCEPT ![Main] = Idle]
        /\ UNCHANGED ending
     \/ TurnDone /\ UNCHANGED <<work, ending>>
  /\ UNCHANGED <<cached, stop_flag, collector, flushes, flying, channel, reader, made>>

\* stop_chat, up to memory.stop.
StopChat ==
  /\ MayStop /\ work[Stopper].at = "ready"
  /\ work' = [work EXCEPT ![Stopper] = At("stopping")]
  /\ cancel' = (cancel \/ ~TurnDone)
  /\ UNCHANGED <<cached, stop_flag, collector, flushes, flying, channel, reader, made,
                 ending>>

\* stop sets the flag and leaves the reader to the turn.
MemoryStopSilent ==
  /\ work[Stopper].at = "stopping"
  /\ stop_flag' = (stop_flag \/ cached)
  /\ work' = [work EXCEPT ![Stopper] = At("ended")]
  /\ UNCHANGED <<cached, collector, channel, flushes, flying, reader, made, cancel, ending>>

MemoryStop ==
  /\ work[Stopper].at = "stopping"
  /\ IF cached
     THEN stop_flag' = TRUE /\ FlushThenDone(Stopper)
     ELSE /\ work' = [work EXCEPT ![Stopper] = At("ended")]
          /\ UNCHANGED <<stop_flag, collector, channel>>
  /\ UNCHANGED <<cached, flushes, flying, reader, made, cancel, ending>>

-----------------------------------------------------------------------------
(* The client *)

\* An item was read: the stream ends at "[DONE]", or when the turn has failed.
Read ==
  /\ reader \in {"reading", "orphan"}
  /\ taken < Len(stream)
  /\ taken' = taken + 1
  /\ reader' = IF reader = "orphan" THEN "gone"
               ELSE IF stream[taken + 1] = Done \/ (TurnDone /\ ending # "none")
               THEN "ended" ELSE "reading"
  /\ UNCHANGED <<cached, stop_flag, collector, flushes, flying, stream, work, made, cancel,
                 ending>>

(***************************************************************************)
(* The client goes away.  A stream that waits for a chunk is cancelled,    *)
(* which cancels the turn and leaves the read of one item behind; one that *)
(* had not got rid of a chunk is closed, and the turn goes on.             *)
(***************************************************************************)
Leave ==
  /\ MayLeave /\ reader = "reading"
  /\ \/ reader' = "orphan" /\ cancel' = (cancel \/ ~TurnDone)
     \/ reader' = "gone" /\ UNCHANGED cancel
  /\ UNCHANGED <<cached, stop_flag, collector, flushes, flying, channel, work, made,
                 ending>>

\* save_conversation, which ends with the clearing of the cache.
Clear ==
  /\ reader # "reading" /\ cached
  /\ cached' = FALSE
  /\ Put(Done)
  /\ UNCHANGED <<stop_flag, collector, flushes, flying, taken, reader, work, made,
                 cancel, ending>>

-----------------------------------------------------------------------------
Turn == \/ \E a \in Agents : End(a) \/ \E kind \in Kinds : Push(a, kind)
        \/ \E w \in Workers : (Runs(w) /\ Lands(w)) \/ Resumes(w)
        \/ Complete \/ RoomForDone \/ Fail \/ PushBreak \/ Interrupted

Timer == TimerFires \/ FlushById \/ \E frame \in flying : FlushLands(frame)

Next == Turn \/ Timer \/ StopChat \/ MemoryStop \/ Read \/ Leave \/ Clear

Spec == Init /\ [][Next]_vars

(***************************************************************************)
(* The loop runs what is ready, threads finish their views, timers fire,   *)
(* agents come to an end and a client that stays reads on.                 *)
(***************************************************************************)
Fairness ==
  /\ \A a \in Agents : WF_vars(End(a))
  /\ \A w \in Workers : WF_vars((Runs(w) /\ Lands(w)) \/ Resumes(w))
  /\ WF_vars(Complete) /\ WF_vars(RoomForDone) /\ WF_vars(PushBreak)
  /\ WF_vars(Interrupted) /\ WF_vars(MemoryStop)
  /\ WF_vars(TimerFires) /\ WF_vars(FlushById)
  /\ WF_vars(\E frame \in flying : FlushLands(frame))
  /\ WF_vars(Read) /\ WF_vars(Clear)

FairSpec == Spec /\ Fairness

-----------------------------------------------------------------------------
(* Properties *)

(***************************************************************************)
(* What one coroutine pushes the client gets in that order, each increment *)
(* at most once: push_message flushes what is pending before it delivers   *)
(* ("先把攒批的流式增量按序冲刷,保证消息顺序", gpts_memory.py:1392).       *)
(***************************************************************************)
OrderKept ==
  \A i, j \in DOMAIN stream : \A k \in DOMAIN stream[i], l \in DOMAIN stream[j] :
    /\ i < j \/ (i = j /\ k < l)
    /\ stream[i][k].by = stream[j][l].by
    => stream[i][k].n < stream[j][l].n

(***************************************************************************)
(* No increment is shown twice, whoever of the timer, the next push,       *)
(* complete and stop flushes what is pending.                              *)
(***************************************************************************)
ShownOnce ==
  \A i, j \in DOMAIN stream : \A k \in DOMAIN stream[i], l \in DOMAIN stream[j] :
    stream[i][k] = stream[j][l] => i = j /\ k = l

(***************************************************************************)
(* A frame shows increments of one message, those of a coroutine in their  *)
(* order: a change of the uid starts another frame.                        *)
(***************************************************************************)
MessageOf(inc) == IF inc.by = Main THEN Main ELSE Uid[inc.by]
OneMessageAFrame ==
  \A i \in DOMAIN stream : \A k, l \in DOMAIN stream[i] :
    /\ MessageOf(stream[i][k]) = MessageOf(stream[i][l])
    /\ k < l /\ stream[i][k].by = stream[i][l].by => stream[i][k].n < stream[i][l].n

(***************************************************************************)
(* Nothing follows "[DONE]", where the reader stops, until a stop of the   *)
(* user or the clearing puts another: complete flushes what is pending     *)
(* before it ("避免最后一批 content 被 [DONE] 抢先进队列而丢失",           *)
(* gpts_memory.py:1125).                                                   *)
(***************************************************************************)
DoneComesLast ==
  cached /\ ~stop_flag =>
    \A i, j \in DOMAIN stream : i < j /\ stream[i] = Done => stream[j] = Done

(***************************************************************************)
(* The client of a turn that ended well was shown all that was pushed:     *)
(* increments may be merged, not dropped (gpts_memory.py:1373).            *)
(***************************************************************************)
Seen(a, n) ==
  \E i \in 1..taken : \E k \in DOMAIN stream[i] : stream[i][k].by = a /\ stream[i][k].n = n
NothingLost ==
  reader = "ended" /\ ending = "none" /\ ~stop_flag
    => \A a \in Agents : \A n \in 1..made[a] : Seen(a, n)

(***************************************************************************)
(* What is pending is never left behind: its timer runs, or a task that    *)
(* will flush it, also where a push overwrote the handle of another's.     *)
(***************************************************************************)
PendingHasFlush == cached /\ pending # <<>> => handle = "armed" \/ flushes > 0

\* The turn ends with its lease released (agent_chat.py, _inner_chat).
LeaseReleased == <>(work[Main].at = "ended")

\* The stream of a client that stays comes to its end.
StreamEnds == <>(reader # "reading")

(***************************************************************************)
(* After a stop the turn is over and so is the stream of the client, who   *)
(* may leave meanwhile: a cancellation that meets complete takes its       *)
(* "[DONE]" away, and then there is the one stop puts (gpts_memory.py:1565).*)
(***************************************************************************)
StopSettles == work[Stopper].at = "stopping" ~> (TurnDone /\ reader # "reading")
=============================================================================
