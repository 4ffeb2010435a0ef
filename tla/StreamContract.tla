--------------------------- MODULE StreamContract ---------------------------
(***************************************************************************)
(* What a subscription promises, without saying how: the publisher's items *)
(* get out, each later one with a greater number, and no item is confirmed *)
(* to the publisher that did not get out.  The reader takes what is out in *)
(* that order, and is told that the stream has ended only after the        *)
(* publisher has finished and the reader has taken everything that was     *)
(* out, and so all that was confirmed.  It may instead be told of a        *)
(* failure, or leave, at any moment.                                       *)
(***************************************************************************)
EXTENDS Naturals, Sequences, SequencesExt

CONSTANT Updates   \* the items that may be put out are 1..Updates

VARIABLES
  written,    \* the items that got out, in order
  confirmed,  \* those of them that the publisher was told are out
  finished,   \* the publisher puts out no more
  read,       \* the items the reader has taken, in order
  outcome     \* what the reader was told

contractVars == <<written, confirmed, finished, read, outcome>>

Increasing(items) == \A i, j \in DOMAIN items : i < j => items[i] < items[j]

Init ==
  /\ written = << >> /\ confirmed = {} /\ read = << >>
  /\ finished = FALSE
  /\ outcome \in {"none", "polling"}

\* Items that did not get out are left out: the numbers may leap.
PutOut ==
  /\ ~finished
  /\ IsPrefix(written, written') /\ Increasing(written')
  /\ \A i \in DOMAIN written' : written'[i] \in 1..Updates
  /\ confirmed \subseteq confirmed' /\ confirmed' \subseteq Range(written')
  /\ UNCHANGED <<read, outcome>>

Publish == PutOut /\ UNCHANGED finished

\* With its end the publisher may put out the last ones.
Finish == PutOut /\ finished' = TRUE

Take ==
  /\ outcome = "polling" /\ Len(read) < Len(written)
  /\ read' = Append(read, written[Len(read) + 1])
  /\ UNCHANGED <<written, confirmed, finished, outcome>>

End ==
  /\ outcome = "polling" /\ finished /\ read = written
  /\ outcome' = "ended"
  /\ UNCHANGED <<written, confirmed, finished, read>>

Break ==
  /\ outcome = "polling"
  /\ outcome' \in {"failed", "gone"}
  /\ UNCHANGED <<written, confirmed, finished, read>>

Next == Publish \/ Finish \/ Take \/ End \/ Break

Spec == Init /\ [][Next]_contractVars
=============================================================================
