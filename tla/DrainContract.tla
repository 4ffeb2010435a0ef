---------------------------- MODULE DrainContract ----------------------------
(***************************************************************************)
(* What graceful shutdown of an RpcServer promises about the operations it *)
(* tracks, without saying how: acceptors let operations in through a gate; *)
(* stopping shuts the gate for good, and an acceptor already through it    *)
(* may start the one operation it was admitted with and no other.  A       *)
(* shutdown call succeeds only at a moment when nothing runs, and gives up *)
(* otherwise.                                                              *)
(***************************************************************************)
EXTENDS FiniteSets

CONSTANTS Acceptors,   \* who admits operations
          Operations,  \* what may be started
          Callers      \* who asks for shutdown

VARIABLES
  stopping,  \* has any caller asked for shutdown?
  through,   \* acceptors that passed the gate and have not started their operation
  running,   \* tracked operations in progress
  verdict    \* what each shutdown call has returned

contractVars == <<stopping, through, running, verdict>>

Init ==
  /\ stopping = FALSE
  /\ through = {}
  /\ running = {}
  /\ verdict = [k \in Callers |-> "none"]

Admit(a) ==
  /\ ~stopping
  /\ a \notin through
  /\ through' = through \cup {a}
  /\ UNCHANGED <<stopping, running, verdict>>

Start(a, o) ==
  /\ a \in through
  /\ o \notin running
  /\ through' = through \ {a}
  /\ running' = running \cup {o}
  /\ UNCHANGED <<stopping, verdict>>

Finish(o) ==
  /\ o \in running
  /\ running' = running \ {o}
  /\ UNCHANGED <<stopping, through, verdict>>

Stop ==
  /\ stopping' = TRUE
  /\ UNCHANGED <<through, running, verdict>>

Succeed(k) ==
  /\ stopping
  /\ verdict[k] = "none"
  /\ running = {}
  /\ verdict' = [verdict EXCEPT ![k] = "ok"]
  /\ UNCHANGED <<stopping, through, running>>

GiveUp(k) ==
  /\ stopping
  /\ verdict[k] = "none"
  /\ verdict' = [verdict EXCEPT ![k] = "timeout"]
  /\ UNCHANGED <<stopping, through, running>>

Next ==
  \/ Stop
  \/ \E a \in Acceptors : Admit(a) \/ \E o \in Operations : Start(a, o)
  \/ \E o \in Operations : Finish(o)
  \/ \E k \in Callers : Succeed(k) \/ GiveUp(k)

Spec == Init /\ [][Next]_contractVars
=============================================================================
