------------------------ MODULE NotificationContract ------------------------
(***************************************************************************)
(* What a notification stream promises, without acknowledgements, buffers  *)
(* or a connection: the client sends items one at a time and waits for a   *)
(* verdict on each; the receiver decides on every item in its turn, and    *)
(* hands it over, refuses it, or loses it when the callback lets go of the *)
(* one it is waiting for.  Ok is only said when an item has been handed    *)
(* over or lost that is at most as far behind the one that was sent as     *)
(* there are sends that were given up.  The callback is told of the end    *)
(* when every item that was sent has been decided on.                      *)
(***************************************************************************)
EXTENDS Naturals, Sequences, Functions

CONSTANT Items     \* the items that may be sent are 1..Items

VARIABLES
  sent,       \* how many items were sent: 1..sent
  waiting,    \* the client waits for a verdict on the last of them
  abandoned,  \* how many sends were given up while they waited
  oks,        \* the items whose send was told Ok
  closed,     \* the client sends no more
  handed,     \* the items handed over, in order
  refused,    \* the items turned down
  lost,       \* the items taken and neither handed over nor turned down
  ending      \* what the callback was told of the end

clientVars == <<sent, waiting, abandoned, oks, closed>>
receiverVars == <<handed, refused, lost, ending>>
contractVars == <<clientVars, receiverVars>>

Init ==
  /\ sent = 0 /\ ~waiting /\ abandoned = 0 /\ oks = {} /\ ~closed
  /\ handed = << >> /\ refused = {} /\ lost = {} /\ ending = "none"
-----------------------------------------------------------------------------
(* The client *)

Send ==
  /\ ~waiting /\ ~closed /\ sent < Items
  /\ sent' = sent + 1 /\ waiting' = TRUE
  /\ UNCHANGED <<abandoned, oks, closed, receiverVars>>

Ok ==
  /\ waiting
  /\ \E i \in Range(handed) \cup lost : sent <= i + abandoned
  /\ waiting' = FALSE /\ oks' = oks \cup {sent}
  /\ UNCHANGED <<sent, abandoned, closed, receiverVars>>

Err ==
  /\ waiting
  /\ waiting' = FALSE
  /\ UNCHANGED <<sent, abandoned, oks, closed, receiverVars>>

GiveUp ==
  /\ waiting
  /\ waiting' = FALSE /\ abandoned' = abandoned + 1
  /\ UNCHANGED <<sent, oks, closed, receiverVars>>

Close ==
  /\ ~waiting /\ ~closed
  /\ closed' = TRUE
  /\ UNCHANGED <<sent, waiting, abandoned, oks, receiverVars>>
-----------------------------------------------------------------------------
(* The receiver *)

\* The item i is the first that has not been decided on.
Turn(i) ==
  /\ ending = "none"
  /\ Range(handed) \cup refused \cup lost = 1..(i - 1)

HandOver(i) ==
  /\ Turn(i)
  /\ handed' = Append(handed, i)
  /\ UNCHANGED <<clientVars, refused, lost, ending>>

Refuse(i) ==
  /\ Turn(i)
  /\ refused' = refused \cup {i}
  /\ UNCHANGED <<clientVars, handed, lost, ending>>

Lose(i) ==
  /\ Turn(i)
  /\ lost' = lost \cup {i}
  /\ UNCHANGED <<clientVars, handed, refused, ending>>

End ==
  /\ closed /\ Turn(sent + 1)
  /\ ending' \in {"completed", "closed"}
  /\ UNCHANGED <<clientVars, handed, refused, lost>>

Break ==
  /\ ending = "none"
  /\ ending' = "error"
  /\ UNCHANGED <<clientVars, handed, refused, lost>>

Next ==
  \/ Send \/ Ok \/ Err \/ GiveUp \/ Close
  \/ \E i \in 1..sent : HandOver(i) \/ Refuse(i) \/ Lose(i)
  \/ End \/ Break

Spec == Init /\ [][Next]_contractVars
=============================================================================
