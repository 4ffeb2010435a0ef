---------------------------- MODULE Subscription ----------------------------
(***************************************************************************)
(* An established subscription: the SubscriptionSink that the server's     *)
(* callback sends with, and the client's stream, as the service macro      *)
(* types it.  The callback ends it with close(), which writes Stopped, or  *)
(* by dropping the sink, by an error or on purpose.  The sink's FramedWrite*)
(* puts its buffer on the wire piece by piece: a send() that does not end  *)
(* well may have put out some of the frames and keep the others.           *)
(***************************************************************************)
EXTENDS Naturals, Sequences

CONSTANT Updates       \* how many items the callback may send: 1..Updates

VARIABLES
  sink,        \* the callback's SubscriptionSink
  produced,    \* how many items the callback has given to send()
  frames,      \* the frames that are left in the sink's buffer
  wire,        \* server to client: items by number, Stopped, Torn
  written,     \* history: the items that went out whole, in order
  confirmed,   \* history: the items that an Ok said are out
  subscriber,  \* the client's typed stream
  received,    \* history: the items the client read, in order
  cut          \* the connection is closed

sinkVars == <<sink, produced, frames, written, confirmed>>
vars == <<sinkVars, wire, subscriber, received, cut>>

Stopped == 0
Torn == Updates + 1    \* the first part of a frame, and nothing after it

TypeOK ==
  /\ sink \in {"none", "open", "closed", "dropped"}
  /\ produced \in 0..Updates
  /\ frames \in Seq(1..produced)
  /\ wire \in Seq(0..Torn)
  /\ written \in Seq(1..produced)
  /\ confirmed \subseteq 1..produced
  /\ subscriber \in {"none", "polling", "ended", "failed", "gone"}
  /\ received \in Seq(1..produced)
  /\ cut \in BOOLEAN

Init(present) ==
  /\ sink = (IF present THEN "open" ELSE "none")
  /\ subscriber = (IF present THEN "polling" ELSE "none")
  /\ produced = 0 /\ frames = << >> /\ wire = << >>
  /\ written = << >> /\ confirmed = {} /\ received = << >>
-----------------------------------------------------------------------------
(* SubscriptionSink *)

\* The first n of these frames go out, in order, and then what ends them.
WriteOut(buffer, n, last) ==
  /\ written' = written \o SubSeq(buffer, 1, n)
  /\ wire' = wire \o SubSeq(buffer, 1, n) \o last

\* send(): the item and whatever the buffer still held go out.
SinkSend ==
  /\ sink = "open" /\ produced < Updates
  /\ produced' = produced + 1
  /\ confirmed' = confirmed \cup {produced + 1}
  /\ LET buffer == Append(frames, produced + 1) IN WriteOut(buffer, Len(buffer), << >>)
  /\ frames' = << >>
  /\ UNCHANGED <<sink, subscriber, received, cut>>

\* send() does not return Ok: it cannot serialize the item, the client stopped
\* reading, the connection is gone, or the callback drops the future while flow
\* control holds it up.  The item is in the buffer or was not taken, and the
\* buffer has gone out up to some point.
SinkSendFails ==
  /\ sink = "open" /\ produced < Updates
  /\ produced' = produced + 1
  /\ \E buffer \in {frames, Append(frames, produced + 1)} :
       \E n \in 0..Len(buffer) :
         /\ WriteOut(buffer, n, << >>)
         /\ frames' = SubSeq(buffer, n + 1, Len(buffer))
  /\ UNCHANGED <<sink, confirmed, subscriber, received, cut>>

\* Variant: Stopped overtakes what is in the buffer.
CloseSink_Unflushed ==
  /\ sink = "open"
  /\ sink' = "closed"
  /\ written' = written \o frames
  /\ wire' = wire \o <<Stopped>> \o frames
  /\ confirmed' = confirmed \cup {frames[i] : i \in DOMAIN frames}
  /\ frames' = << >>
  /\ UNCHANGED <<produced, subscriber, received, cut>>

\* close(): Stopped goes out after all that the buffer held, and the sink is
\* consumed.
CloseSink ==
  /\ sink = "open"
  /\ sink' = "closed"
  /\ WriteOut(frames, Len(frames), <<Stopped>>)
  /\ confirmed' = confirmed \cup {frames[i] : i \in DOMAIN frames}
  /\ frames' = << >>
  /\ UNCHANGED <<produced, subscriber, received, cut>>

\* The callback returns without close(), or its close() does not return Ok: the
\* stream is finished all the same.  Some frames may have gone out, and a part of
\* the one after them; the others are lost.
DropSink ==
  /\ sink = "open"
  /\ sink' = "dropped"
  /\ \E n \in 0..Len(frames) : \E last \in {<< >>, <<Torn>>} : WriteOut(frames, n, last)
  /\ frames' = << >>
  /\ UNCHANGED <<produced, confirmed, subscriber, received, cut>>
-----------------------------------------------------------------------------
(* The client's stream *)

pollUnchanged == <<sinkVars, cut>>

\* Data is an item, Stopped the end, a torn frame an error.
PollMessage ==
  /\ subscriber = "polling" /\ wire # << >>
  /\ wire' = Tail(wire)
  /\ LET message == Head(wire) IN
     \/ /\ message = Stopped /\ subscriber' = "ended" /\ UNCHANGED received
     \/ /\ message = Torn /\ subscriber' = "failed" /\ UNCHANGED received
     \/ /\ message \in 1..Updates
        /\ received' = Append(received, message) /\ UNCHANGED subscriber
  /\ UNCHANGED pollUnchanged

\* The stream's end is None, however the callback ended; a connection that is
\* closed is an error, and what was on the way may be lost with it.
PollEnd ==
  /\ subscriber = "polling"
  /\ \/ wire = << >> /\ sink \in {"closed", "dropped"} /\ subscriber' = "ended"
     \/ cut /\ subscriber' = "failed"
  /\ UNCHANGED <<pollUnchanged, wire, received>>

\* The client drops its stream.
Unsubscribe ==
  /\ subscriber = "polling"
  /\ subscriber' = "gone"
  /\ UNCHANGED <<pollUnchanged, wire, received>>

Poll == PollMessage \/ PollEnd
-----------------------------------------------------------------------------
Next ==
  \/ SinkSend \/ SinkSendFails \/ CloseSink \/ DropSink
  \/ Poll \/ Unsubscribe

\* Only the client's stream is polled for certain: a callback may run for ever.
Fairness == WF_vars(Poll)
-----------------------------------------------------------------------------
(* Properties *)

\* A stream that ended, rather than failed, gave the client every item that a
\* send() or the close() after it returned Ok for, and what it gave was in order
\* and once: nothing that was confirmed is cut off in silence.
EndMeansAllReceived ==
  subscriber = "ended" =>
    /\ \A item \in confirmed : \E i \in DOMAIN received : received[i] = item
    /\ \A i, j \in DOMAIN received : i < j => received[i] < received[j]
=============================================================================
