------------------------------ MODULE Session -------------------------------
(***************************************************************************)
(* A server process with a client on one established stream, from the      *)
(* first message to the end of the bundle.  The streaming callbacks run in *)
(* tasks that no shutdown waits for: what ends them is their client, their *)
(* own code, or the connection closing under them, by the bundle's end or  *)
(* by the network.                                                         *)
(***************************************************************************)
EXTENDS Naturals, Sequences

CONSTANTS Items, Updates, Listeners   \* the constants of the parts, by the same names

ASSUME CountsAssumption == Items \in Nat /\ Updates \in Nat /\ Listeners \in Nat

VARIABLES
  sender, sent, up, upEnded, handler, inHand, ending, held, down, undecodable,
  oks, handed, refused, dropped, abandoned,
  sink, produced, frames, wire, written, confirmed, subscriber, received,
  phase, withHandle, notified, listener, reply, rpc, timedOut,
  cut

Note == INSTANCE Notification
Subs == INSTANCE Subscription
Bundle == INSTANCE IrohBundle

noteVars == <<sender, sent, up, upEnded, handler, inHand, ending, held, down,
              undecodable, oks, handed, refused, dropped, abandoned>>
subsVars == <<sink, produced, frames, wire, written, confirmed, subscriber, received>>
bundleVars == <<phase, withHandle, notified, listener, reply, rpc, timedOut>>
vars == <<noteVars, subsVars, bundleVars, cut>>

TypeOK == Note!TypeOK /\ Subs!TypeOK /\ Bundle!TypeOK

\* The client has a notification stream or a subscription.
Init ==
  /\ Bundle!Init
  /\ \E notifies \in BOOLEAN : Note!Init(notifies) /\ Subs!Init(~notifies)

LoseConnection ==
  /\ ~cut
  /\ cut' = TRUE
  /\ UNCHANGED <<noteVars, subsVars, bundleVars>>

Next ==
  \/ LoseConnection
  \/ Note!Next /\ UNCHANGED <<subsVars, bundleVars>>
  \/ Subs!Next /\ UNCHANGED <<noteVars, bundleVars>>
  \/ Bundle!Next /\ UNCHANGED <<noteVars, subsVars>>

Fairness == Note!Fairness /\ Subs!Fairness /\ Bundle!Fairness

Spec == Init /\ [][Next]_vars /\ Fairness
-----------------------------------------------------------------------------
(* Properties *)

\* The properties of the parts, with the whole around them: the connection of
\* a stream may be closed at any point.
AcksAreCounted == Note!AcksAreCounted
NoneMeansAllRead == Note!NoneMeansAllRead
SendReturns == Note!SendReturns
ShutdownInOrder == Bundle!ShutdownInOrder

\* Seen from outside, a subscription keeps the contract of one, whatever its
\* buffer, Stopped, torn frames and the connection's end do to it: items arrive
\* in order and once, and an end, rather than a failure, means all that got out,
\* which is at least what send() and close() returned Ok for.
StreamPromise ==
  INSTANCE StreamContract WITH
    finished <- sink \in {"closed", "dropped"},
    read <- received,
    outcome <- subscriber

StreamsKeepContract == StreamPromise!Spec

\* And a notification stream that of one.  Acknowledgements have no number, yet
\* an Ok tells of an item that was taken for the callback, which is the one that
\* was sent unless a send() was abandoned, and then at most as far behind it as
\* sends were abandoned; and the end means that every item had its turn.
NotePromise ==
  INSTANCE NotificationContract WITH
    waiting <- sender = "awaiting",
    closed <- sender = "gone",
    lost <- dropped

NotesKeepContract == NotePromise!Spec

\* A shutdown of the bundle ends, whatever its subscribers do, and its end
\* reaches the client: a subscription and a send() that wait when the endpoint
\* closes do not wait for ever.
ShutdownReachesClient ==
  /\ Bundle!ShutdownEnds
  /\ cut /\ subscriber = "polling" ~> subscriber # "polling"
  /\ cut /\ sender = "awaiting" ~> sender # "awaiting"
=============================================================================
