---------------------------- MODULE Notification ----------------------------
(***************************************************************************)
(* An established notification stream: the client's NotificationSender,    *)
(* which waits for an acknowledgement after each item, against the         *)
(* receiver the service macro generates for the server's callback, whose   *)
(* next() acknowledges an item before it returns it.  Acknowledgements     *)
(* carry no number: they are matched with items by counting.               *)
(*                                                                         *)
(* A frame written is handed to the transport whole.  The exception is an  *)
(* acknowledgement that flow control holds up: next() may then be dropped  *)
(* by a select! of the callback, with the item it has already taken.       *)
(***************************************************************************)
EXTENDS Naturals, Sequences, Functions

CONSTANT Items         \* how many items the client may send: 1..Items

VARIABLES
  sender,      \* the client's NotificationSender
  sent,        \* how many items it has sent
  up,          \* client to server: items by number, Completed
  upEnded,     \* the client's side of the stream is finished
  handler,     \* the server's callback and its receiver
  inHand,      \* the item whose acknowledgement is being written
  ending,      \* what next() told the callback of the end
  held,        \* acknowledgements in the sink's buffer, not flushed
  down,        \* server to client: "ack", "error"
  undecodable, \* the items that are not what the server expects (fixed)
  oks,         \* history: the items whose send() returned Ok
  handed,      \* history: the items next() returned, in order
  refused,     \* history: the items that did not decode or were turned down
  dropped,     \* history: the items next() took and neither returned nor refused
  abandoned,   \* history: how many send() were dropped while they waited
  cut          \* the connection is closed

senderVars == <<sender, sent, oks, abandoned>>
receiverVars == <<handler, inHand, ending, held, handed, refused, dropped>>
vars == <<senderVars, up, upEnded, receiverVars, down, undecodable, cut>>

Completed == 0
NoItem == 0

TypeOK ==
  /\ sender \in {"none", "idle", "awaiting", "gone"}
  /\ sent \in 0..Items
  /\ up \in Seq(0..Items) /\ upEnded \in BOOLEAN
  /\ handler \in {"none", "working", "reading", "acking", "over"}
  /\ inHand \in 0..Items /\ (inHand # NoItem <=> handler = "acking")
  /\ ending \in {"none", "completed", "closed", "error"}
  /\ held \in 0..Items
  /\ down \in Seq({"ack", "error"})
  /\ undecodable \subseteq 1..Items
  /\ oks \subseteq 1..sent /\ abandoned \in 0..Items
  /\ refused \subseteq 1..sent /\ dropped \subseteq 1..sent
  /\ handed \in Seq(1..sent) /\ IsInjective(handed)
  /\ Range(handed) \cap (refused \cup dropped) = {}
  /\ cut \in BOOLEAN

\* What is known once the stream is established, if the client has one.
Init(present) ==
  /\ sender = (IF present THEN "idle" ELSE "none")
  /\ handler = (IF present THEN "working" ELSE "none")
  /\ undecodable \in (IF present THEN {{}} \cup {{i} : i \in 1..Items} ELSE {{}})
  /\ sent = 0 /\ up = << >> /\ upEnded = FALSE
  /\ inHand = NoItem /\ ending = "none" /\ held = 0 /\ down = << >>
  /\ oks = {} /\ abandoned = 0
  /\ handed = << >> /\ refused = {} /\ dropped = {}
-----------------------------------------------------------------------------
(* NotificationSender *)

\* send(): the item is written; on a closed connection nothing happens but Err.
SendItem ==
  /\ sender = "idle" /\ sent < Items /\ ~cut
  /\ sender' = "awaiting"
  /\ sent' = sent + 1
  /\ up' = Append(up, sent + 1)
  /\ UNCHANGED <<oks, abandoned, upEnded, receiverVars, down, undecodable, cut>>

\* send() returns Ok on an Ack and Err on an Error.
AckArrives ==
  /\ sender = "awaiting" /\ down # << >>
  /\ sender' = "idle"
  /\ oks' = IF Head(down) = "ack" THEN oks \cup {sent} ELSE oks
  /\ down' = Tail(down)
  /\ UNCHANGED <<sent, abandoned, up, upEnded, receiverVars, undecodable, cut>>

\* Variant: only the connection's error ends the wait.
NoAckArrives_OnlyCut ==
  /\ sender = "awaiting" /\ cut
  /\ sender' = "idle"
  /\ UNCHANGED <<sent, oks, abandoned, up, upEnded, receiverVars, down, undecodable, cut>>

\* The stream ended or the connection is gone: send() returns Err.  An
\* acknowledgement on the way may be lost with the connection.
NoAckArrives ==
  /\ sender = "awaiting"
  /\ (handler = "over" /\ down = << >>) \/ cut
  /\ sender' = "idle"
  /\ UNCHANGED <<sent, oks, abandoned, up, upEnded, receiverVars, down, undecodable, cut>>

\* The caller drops the future of send() while it waits.
AbandonSend ==
  /\ sender = "awaiting"
  /\ sender' = "idle"
  /\ abandoned' = abandoned + 1
  /\ UNCHANGED <<sent, oks, up, upEnded, receiverVars, down, undecodable, cut>>

\* complete(): Completed, and the sender is consumed: its stream is finished.
Complete ==
  /\ sender = "idle"
  /\ sender' = "gone"
  /\ up' = Append(up, Completed) /\ upEnded' = TRUE
  /\ UNCHANGED <<sent, oks, abandoned, receiverVars, down, undecodable, cut>>

DropSender ==
  /\ sender = "idle"
  /\ sender' = "gone"
  /\ upEnded' = TRUE
  /\ UNCHANGED <<sent, oks, abandoned, up, receiverVars, down, undecodable, cut>>
-----------------------------------------------------------------------------
(* The generated receiver *)

receiverUnchanged == <<senderVars, upEnded, undecodable, cut>>

\* The callback calls next(), until it has seen the end.
CallNext ==
  /\ handler = "working" /\ ending = "none"
  /\ handler' = "reading"
  /\ UNCHANGED <<receiverUnchanged, up, inHand, ending, held, handed, refused, dropped, down>>

\* The callback returns: receiver and sink are dropped, and what the sink held.
HandlerReturns ==
  /\ handler = "working"
  /\ handler' = "over"
  /\ held' = 0
  /\ UNCHANGED <<receiverUnchanged, up, inHand, ending, handed, refused, dropped, down>>

\* Variant: the item is acknowledged as it comes, before it is decoded.
Read_AcksFirst ==
  /\ handler = "reading" /\ up # << >>
  /\ up' = Tail(up)
  /\ LET item == Head(up) IN
     IF item = Completed
     THEN handler' = "working" /\ ending' = "completed" /\ UNCHANGED <<inHand, refused, down>>
     ELSE /\ down' = Append(down, "ack")
          /\ IF item \in undecodable
             THEN handler' = "working" /\ refused' = refused \cup {item} /\ UNCHANGED <<inHand, ending>>
             ELSE handler' = "acking" /\ inHand' = item /\ UNCHANGED <<ending, refused>>
  /\ UNCHANGED <<receiverUnchanged, held, handed, dropped>>

\* A frame: Completed is None, an item that does not decode is an error that
\* the client is not told of, any other is acknowledged before it is returned.
Read ==
  /\ handler = "reading" /\ up # << >>
  /\ up' = Tail(up)
  /\ LET item == Head(up) IN
     \/ /\ item = Completed
        /\ handler' = "working" /\ ending' = "completed"
        /\ UNCHANGED <<inHand, refused>>
     \/ /\ item # Completed /\ item \in undecodable
        /\ handler' = "working" /\ refused' = refused \cup {item}
        /\ UNCHANGED <<inHand, ending>>
     \/ /\ item # Completed /\ item \notin undecodable
        /\ handler' = "acking" /\ inHand' = item
        /\ UNCHANGED <<ending, refused>>
  /\ UNCHANGED <<receiverUnchanged, held, handed, dropped, down>>

\* Variant: an error of the stream is taken for its end.
ReadEnd_ErrorIsEnd ==
  /\ handler = "reading"
  /\ handler' = "working"
  /\ (up = << >> /\ upEnded) \/ cut
  /\ ending' = "closed"
  /\ UNCHANGED <<receiverUnchanged, up, inHand, held, handed, refused, dropped, down>>

\* No frame is left: the stream's end is None, a lost connection an error.
ReadEnd ==
  /\ handler = "reading"
  /\ handler' = "working"
  /\ \/ up = << >> /\ upEnded /\ ending' = "closed"
     \/ cut /\ ending' = "error"
  /\ UNCHANGED <<receiverUnchanged, up, inHand, held, handed, refused, dropped, down>>

Flushed(message) == down \o [i \in 1..held |-> "ack"] \o <<message>>

\* The acknowledgement is written, after any that were held, and next()
\* returns the item.
Ack ==
  /\ handler = "acking"
  /\ handler' = "working" /\ inHand' = NoItem
  /\ down' = Flushed("ack") /\ held' = 0
  /\ handed' = Append(handed, inHand)
  /\ UNCHANGED <<receiverUnchanged, up, ending, refused, dropped>>

\* NotificationSink::error, by a callback written without the macro: the item
\* is turned down.
Reject ==
  /\ handler = "acking"
  /\ handler' = "working" /\ inHand' = NoItem
  /\ down' = Flushed("error") /\ held' = 0
  /\ refused' = refused \cup {inHand}
  /\ UNCHANGED <<receiverUnchanged, up, ending, handed, dropped>>

\* Nobody reads acknowledgements any more: next() returns the error, and the
\* item is dropped.
AckFails ==
  /\ handler = "acking" /\ (sender = "gone" \/ cut)
  /\ handler' = "working" /\ inHand' = NoItem
  /\ dropped' = dropped \cup {inHand}
  /\ UNCHANGED <<receiverUnchanged, up, ending, held, handed, refused, down>>

\* Variant: the receiver keeps the item and does not know what for.
AbandonNext_KeepsItem ==
  /\ handler = "acking"
  /\ handler' = "working"
  /\ held' = held + 1
  /\ UNCHANGED <<receiverUnchanged, up, inHand, ending, handed, refused, dropped, down>>

\* next() is dropped while its acknowledgement is held up; some of those held
\* before it may have gone out.
AbandonNext ==
  /\ handler = "acking"
  /\ handler' = "working" /\ inHand' = NoItem
  /\ \E n \in 0..held :
       /\ down' = down \o [i \in 1..n |-> "ack"]
       /\ held' = held - n + 1
  /\ dropped' = dropped \cup {inHand}
  /\ UNCHANGED <<receiverUnchanged, up, ending, handed, refused>>

SenderStep == AckArrives \/ NoAckArrives
ReceiverStep == CallNext \/ Read \/ ReadEnd \/ Ack \/ AckFails
HandlerStep == ReceiverStep \/ HandlerReturns
-----------------------------------------------------------------------------
Next ==
  \/ SendItem \/ AbandonSend \/ Complete \/ DropSender
  \/ SenderStep \/ HandlerStep \/ Reject \/ AbandonNext

\* Both ends are polled, and the callback does not go to sleep: it asks for the
\* next item or returns.
Fairness == WF_vars(SenderStep) /\ WF_vars(HandlerStep)
-----------------------------------------------------------------------------
(* Properties *)

\* While no send() is abandoned, an item whose send() returned Ok was taken by
\* next() for the callback: not one that failed to decode or was turned down.
\* Only a next() that was itself dropped kept it from the callback.
OkMeansHanded ==
  abandoned = 0 => oks \subseteq Range(handed) \cup dropped

\* Acknowledgements answer items one by one: more are under way than the one
\* that is waited for only by as many sends as were abandoned, which is also
\* how far behind the items a later Ok may be.
AcksAreCounted ==
  ~cut => Len(down) + held <= abandoned + (IF sender = "awaiting" THEN 1 ELSE 0)

\* A callback whose next() ended with None, be it by Completed or by the end of
\* the stream, has seen every item that was sent, in order.
NoneMeansAllRead ==
  ending \in {"completed", "closed"} =>
    /\ Range(handed) \cup refused \cup dropped = 1..sent
    /\ \A i, j \in DOMAIN handed : i < j => handed[i] < handed[j]

\* send() returns.  Not when the item does not decode, for then both ends wait
\* for each other, nor after an acknowledgement was abandoned in the sink.
SendReturns ==
  undecodable = {} =>
    (sender = "awaiting" ~> (sender # "awaiting" \/ held > 0))
=============================================================================
