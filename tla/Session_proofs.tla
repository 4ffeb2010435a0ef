--------------------------- MODULE Session_proofs ---------------------------
(***************************************************************************)
(* Theorems about Session, for any number of items, updates and shutdown   *)
(* subscribers.  Each part has an invariant of its own: the other parts    *)
(* leave its variables alone, but for the connection, which they may cut.  *)
(***************************************************************************)
EXTENDS Session, SequenceTheorems, TLAPS

USE CountsAssumption DEF CountsAssumption

SafeSpec == Init /\ [][Next]_vars

\* No fairness is needed for what follows.
LEMMA SpecIsSafe == Spec => SafeSpec
  BY DEF Spec, SafeSpec
-----------------------------------------------------------------------------
(* The bundle *)

ListenerStates == {"listening", "deaf", "cleanup", "replied", "told nothing"}
ReplyStates == {"none", "awaited", "over"}

\* What a phase says of the RPC server and of how far the loop has come.
PhaseInv ==
  /\ notified \in 0..Listeners
  /\ phase \in {"running", "rpc"} => notified = 0
  /\ phase = "running" => rpc = "none"
  /\ phase = "rpc" => rpc = "none" /\ withHandle
  /\ phase \in {"notifying", "waiting", "router", "ok"} =>
       rpc # "timeout" /\ (withHandle => rpc = "ok")
  /\ phase \in {"waiting", "router", "ok"} => notified = Listeners
  /\ phase = "err" => rpc = "timeout"
  /\ rpc \in {"none", "ok", "timeout"}
  /\ phase \in {"running", "rpc", "notifying", "waiting", "router", "ok", "err"}

\* The loop has told the subscribers it has passed and no others, a clean-up is
\* one that is waited for, and the router is shut down after the wait.
ListenerInv(s) ==
  /\ phase # "err" /\ s <= notified => listener[s] \in {"deaf", "cleanup", "replied"}
  /\ phase # "err" /\ s > notified => listener[s] \in {"listening", "deaf"}
  /\ phase = "err" => listener[s] \in {"told nothing", "deaf"}
  /\ listener[s] = "cleanup" <=> reply[s] = "awaited"
  /\ phase \in {"router", "ok"} => timedOut \/ reply[s] # "awaited"

BundleInv ==
  /\ listener \in [1..Listeners -> ListenerStates]
  /\ reply \in [1..Listeners -> ReplyStates]
  /\ PhaseInv
  /\ \A s \in 1..Listeners : ListenerInv(s)

LEMMA InitBundle == Bundle!Init => BundleInv
  BY DEF Bundle!Init, BundleInv, PhaseInv, ListenerInv, ListenerStates, ReplyStates,
         Bundle!Subscribers

LEMMA StepBundle == BundleInv /\ Bundle!Next => BundleInv'
<1> SUFFICES ASSUME BundleInv, Bundle!Next PROVE BundleInv'
  OBVIOUS
<1> USE DEF BundleInv, Bundle!Subscribers
<1>1. ASSUME NEW s \in Bundle!Subscribers, Bundle!DropListener(s)
      PROVE  BundleInv'
  <2>1. /\ listener[s] = "listening"
        /\ listener' = [listener EXCEPT ![s] = "deaf"]
        /\ UNCHANGED <<phase, withHandle, notified, rpc, timedOut, reply>>
    BY <1>1 DEF Bundle!DropListener, Bundle!bundleUnchanged
  <2>2. /\ listener' \in [1..Listeners -> ListenerStates]
        /\ \A t \in 1..Listeners : listener'[t] = IF t = s THEN "deaf" ELSE listener[t]
    BY <2>1 DEF ListenerStates
  <2>3. PhaseInv'
    BY <2>1 DEF PhaseInv
  <2>4. ASSUME NEW t \in 1..Listeners PROVE ListenerInv(t)'
    BY <2>1, <2>2, ListenerInv(t) DEF ListenerInv, PhaseInv
  <2> QED BY <2>1, <2>2, <2>3, <2>4
<1>2. ASSUME NEW s \in Bundle!Subscribers, Bundle!Reply(s)
      PROVE  BundleInv'
  <2>1. /\ listener[s] = "cleanup"
        /\ listener' = [listener EXCEPT ![s] = "replied"]
        /\ reply' = [reply EXCEPT ![s] = "over"]
        /\ UNCHANGED <<phase, withHandle, notified, rpc, timedOut>>
    BY <1>2 DEF Bundle!Reply, Bundle!bundleUnchanged
  <2>2. /\ listener' \in [1..Listeners -> ListenerStates]
        /\ reply' \in [1..Listeners -> ReplyStates]
        /\ \A t \in 1..Listeners :
             /\ listener'[t] = IF t = s THEN "replied" ELSE listener[t]
             /\ reply'[t] = IF t = s THEN "over" ELSE reply[t]
    BY <2>1 DEF ListenerStates, ReplyStates
  <2>3. PhaseInv'
    BY <2>1 DEF PhaseInv
  <2>4. ASSUME NEW t \in 1..Listeners PROVE ListenerInv(t)'
    BY <2>1, <2>2, ListenerInv(t) DEF ListenerInv, PhaseInv
  <2> QED BY <2>2, <2>3, <2>4
<1>3. CASE Bundle!Begin
  <2>1. PhaseInv'
    BY <1>3 DEF Bundle!Begin, PhaseInv
  <2>2. ASSUME NEW t \in 1..Listeners PROVE ListenerInv(t)'
    BY <1>3, ListenerInv(t) DEF Bundle!Begin, ListenerInv
  <2> QED BY <1>3, <2>1, <2>2 DEF Bundle!Begin
<1>4. CASE Bundle!RpcShutdown
  <2>1. CASE rpc' = "ok" /\ phase' = "notifying" /\ UNCHANGED listener
    <3>1. PhaseInv'
      BY <1>4, <2>1 DEF Bundle!RpcShutdown, PhaseInv
    <3>2. ASSUME NEW t \in 1..Listeners PROVE ListenerInv(t)'
      BY <1>4, <2>1, ListenerInv(t) DEF Bundle!RpcShutdown, ListenerInv
    <3> QED BY <1>4, <2>1, <3>1, <3>2 DEF Bundle!RpcShutdown
  <2>2. CASE /\ rpc' = "timeout" /\ phase' = "err"
             /\ listener' = [s \in Bundle!Subscribers |->
                  IF listener[s] = "listening" THEN "told nothing" ELSE listener[s]]
    <3>1. PhaseInv'
      BY <1>4, <2>2 DEF Bundle!RpcShutdown, PhaseInv
    <3>2. listener' \in [1..Listeners -> ListenerStates] /\ UNCHANGED reply
      <4>1. UNCHANGED reply
        BY <1>4 DEF Bundle!RpcShutdown
      <4>2. ASSUME NEW t \in 1..Listeners
            PROVE  (IF listener[t] = "listening" THEN "told nothing" ELSE listener[t]) \in ListenerStates
        BY DEF ListenerStates
      <4> QED BY <2>2, <4>1, <4>2
    <3>3. ASSUME NEW t \in 1..Listeners PROVE ListenerInv(t)'
      <4>1. listener[t] \in {"listening", "deaf"}
        <5>1. phase = "rpc" /\ notified = 0
          BY <1>4 DEF Bundle!RpcShutdown, PhaseInv
        <5> QED BY <5>1, ListenerInv(t) DEF ListenerInv
      <4>2. listener'[t] \in {"told nothing", "deaf"}
        BY <2>2, <4>1
      <4> QED BY <2>2, <3>2, <4>1, <4>2, ListenerInv(t) DEF ListenerInv
    <3> QED BY <3>1, <3>2, <3>3
  <2> QED BY <1>4, <2>1, <2>2 DEF Bundle!RpcShutdown
<1>5. CASE Bundle!NotifyNext
  <2>1. /\ phase = "notifying" /\ notified + 1 \in 1..Listeners /\ notified' = notified + 1
        /\ UNCHANGED <<phase, withHandle, rpc, timedOut>>
    BY <1>5 DEF Bundle!NotifyNext, PhaseInv
  <2>2. PhaseInv'
    BY <2>1 DEF PhaseInv
  <2>3. CASE listener[notified + 1] = "deaf"
    <3>1. UNCHANGED <<listener, reply>>
      BY <1>5, <2>3 DEF Bundle!NotifyNext
    <3>2. ASSUME NEW t \in 1..Listeners PROVE ListenerInv(t)'
      BY <2>1, <2>3, <3>1, ListenerInv(t) DEF ListenerInv, PhaseInv
    <3> QED BY <2>2, <3>1, <3>2
  <2>4. CASE listener[notified + 1] # "deaf"
    <3>1. /\ listener' = [listener EXCEPT ![notified + 1] = "cleanup"]
          /\ reply' = [reply EXCEPT ![notified + 1] = "awaited"]
      BY <1>5, <2>4 DEF Bundle!NotifyNext
    <3>2. /\ listener' \in [1..Listeners -> ListenerStates]
          /\ reply' \in [1..Listeners -> ReplyStates]
          /\ \A t \in 1..Listeners :
               /\ listener'[t] = IF t = notified + 1 THEN "cleanup" ELSE listener[t]
               /\ reply'[t] = IF t = notified + 1 THEN "awaited" ELSE reply[t]
      BY <2>1, <3>1 DEF ListenerStates, ReplyStates
    <3>3. ASSUME NEW t \in 1..Listeners PROVE ListenerInv(t)'
      BY <2>1, <3>2, ListenerInv(t) DEF ListenerInv, PhaseInv
    <3> QED BY <2>2, <3>2, <3>3
  <2> QED BY <2>3, <2>4
<1>6. CASE Bundle!JoinReplies
  <2>1. PhaseInv'
    BY <1>6 DEF Bundle!JoinReplies, PhaseInv
  <2>2. ASSUME NEW t \in 1..Listeners PROVE ListenerInv(t)'
    BY <1>6, ListenerInv(t) DEF Bundle!JoinReplies, ListenerInv
  <2> QED BY <1>6, <2>1, <2>2 DEF Bundle!JoinReplies
<1>7. CASE Bundle!RepliesIn
  <2>1. PhaseInv'
    BY <1>7 DEF Bundle!RepliesIn, PhaseInv
  <2>2. ASSUME NEW t \in 1..Listeners PROVE ListenerInv(t)'
    BY <1>7, ListenerInv(t) DEF Bundle!RepliesIn, ListenerInv
  <2> QED BY <1>7, <2>1, <2>2 DEF Bundle!RepliesIn
<1>8. CASE Bundle!TimeoutElapses
  <2>1. PhaseInv'
    BY <1>8 DEF Bundle!TimeoutElapses, PhaseInv
  <2>2. ASSUME NEW t \in 1..Listeners PROVE ListenerInv(t)'
    BY <1>8, ListenerInv(t) DEF Bundle!TimeoutElapses, ListenerInv
  <2> QED BY <1>8, <2>1, <2>2 DEF Bundle!TimeoutElapses
<1>9. CASE Bundle!RouterShutdown
  <2>1. PhaseInv'
    BY <1>9 DEF Bundle!RouterShutdown, PhaseInv
  <2>2. ASSUME NEW t \in 1..Listeners PROVE ListenerInv(t)'
    BY <1>9, ListenerInv(t) DEF Bundle!RouterShutdown, ListenerInv
  <2> QED BY <1>9, <2>1, <2>2 DEF Bundle!RouterShutdown
<1> QED BY <1>1, <1>2, <1>3, <1>4, <1>5, <1>6, <1>7, <1>8, <1>9
        DEF Bundle!Next, Bundle!BundleStep

LEMMA BundleKeepsInv == BundleInv /\ [Next]_vars => BundleInv'
<1> SUFFICES ASSUME BundleInv, [Next]_vars PROVE BundleInv'
  OBVIOUS
<1>1. CASE UNCHANGED bundleVars
  BY <1>1 DEF BundleInv, PhaseInv, ListenerInv, bundleVars
<1> QED BY <1>1, StepBundle DEF Next, vars, LoseConnection

\* Once the router is shut down, every subscriber was told and has let go, or
\* the timeout elapsed, and the RPC server has drained if it was asked to; when
\* it did not, no subscriber is told.
THEOREM NobodyIsCutShort == Spec => []ShutdownInOrder
<1>1. Init => BundleInv
  BY InitBundle DEF Init
<1>2. BundleInv => ShutdownInOrder
  <2> SUFFICES ASSUME BundleInv PROVE ShutdownInOrder
    OBVIOUS
  <2>1. ASSUME phase = "ok"
        PROVE  /\ \A s \in 1..Listeners : listener[s] \in {"replied", "deaf"} \/ timedOut
               /\ \A s \in 1..Listeners : listener[s] # "listening"
    BY <2>1 DEF BundleInv, PhaseInv, ListenerInv
  <2>2. phase = "ok" => (withHandle => rpc = "ok")
    BY DEF BundleInv, PhaseInv
  <2>3. rpc = "timeout" => phase = "err"
    BY DEF BundleInv, PhaseInv
  <2>4. ASSUME phase = "err"
        PROVE  \A s \in 1..Listeners : listener[s] \in {"told nothing", "deaf"}
    BY <2>4 DEF BundleInv, ListenerInv
  <2> QED BY <2>1, <2>2, <2>3, <2>4
          DEF ShutdownInOrder, Bundle!ShutdownInOrder, Bundle!Subscribers
<1> QED BY <1>1, <1>2, BundleKeepsInv, SpecIsSafe, PTL DEF SafeSpec

\* The steps a shutdown of the bundle has left at most.
ShutdownLeft ==
  CASE phase = "running" -> Listeners + 5
    [] phase = "rpc" -> Listeners + 4
    [] phase = "notifying" -> Listeners - notified + 3
    [] phase = "waiting" -> 2
    [] phase = "router" -> 1
    [] phase \in {"ok", "err"} -> 0

(***************************************************************************)
(* Every step of a shutdown brings it nearer its end, by either way in and *)
(* whatever listeners are dropped or reply meanwhile; and its way is no    *)
(* longer than the subscribers there are, so that it cannot go on without  *)
(* end.  ShutdownReachesClient adds that it is polled.                     *)
(***************************************************************************)
ShutdownAdvances ==
  [][UNCHANGED <<phase, notified>> \/ ShutdownLeft' < ShutdownLeft]_vars

ShutdownBounded == ShutdownLeft \in 0..(Listeners + 5)

LEMMA StepShutdown ==
  ASSUME BundleInv, Bundle!Next
  PROVE  UNCHANGED <<phase, notified>> \/ ShutdownLeft' < ShutdownLeft
<1>1. notified \in 0..Listeners /\ (phase \in {"running", "rpc"} => notified = 0)
  BY DEF BundleInv, PhaseInv
<1>2. CASE \E s \in Bundle!Subscribers : Bundle!DropListener(s) \/ Bundle!Reply(s)
  BY <1>2 DEF Bundle!DropListener, Bundle!Reply, Bundle!bundleUnchanged
<1>3. CASE Bundle!Begin
  <2>1. phase = "running" /\ phase' \in {"rpc", "notifying"} /\ notified' = 0
    BY <1>1, <1>3 DEF Bundle!Begin
  <2>2. ShutdownLeft = Listeners + 5
    BY <2>1 DEF ShutdownLeft
  <2>3. ShutdownLeft' \in {Listeners + 4, Listeners - 0 + 3}
    BY <2>1 DEF ShutdownLeft
  <2> QED BY <2>2, <2>3
<1>4. CASE Bundle!RpcShutdown
  <2>1. phase = "rpc" /\ phase' \in {"notifying", "err"} /\ notified' = 0
    <3>1. phase = "rpc" /\ notified' = notified
      BY <1>4 DEF Bundle!RpcShutdown
    <3>2. phase' \in {"notifying", "err"}
      BY <1>4 DEF Bundle!RpcShutdown
    <3> QED BY <1>1, <3>1, <3>2
  <2>2. ShutdownLeft = Listeners + 4
    BY <2>1 DEF ShutdownLeft
  <2>3. ShutdownLeft' \in {0, Listeners - 0 + 3}
    BY <2>1 DEF ShutdownLeft
  <2> QED BY <2>2, <2>3
<1>5. CASE Bundle!NotifyNext
  <2>1. phase = "notifying" /\ phase' = phase /\ notified' = notified + 1
    BY <1>5 DEF Bundle!NotifyNext
  <2>2. ShutdownLeft = Listeners - notified + 3
    BY <2>1 DEF ShutdownLeft
  <2>3. ShutdownLeft' = Listeners - (notified + 1) + 3
    BY <2>1 DEF ShutdownLeft
  <2> QED BY <1>1, <2>2, <2>3
<1>6. CASE Bundle!JoinReplies
  <2>1. phase = "notifying" /\ phase' = "waiting" /\ notified = Listeners
    BY <1>6 DEF Bundle!JoinReplies
  <2>2. ShutdownLeft = Listeners - Listeners + 3 /\ ShutdownLeft' = 2
    BY <2>1 DEF ShutdownLeft
  <2> QED BY <2>2
<1>7. CASE Bundle!RepliesIn \/ Bundle!TimeoutElapses
  <2>1. phase = "waiting" /\ phase' = "router"
    BY <1>7 DEF Bundle!RepliesIn, Bundle!TimeoutElapses
  <2>2. ShutdownLeft = 2 /\ ShutdownLeft' = 1
    BY <2>1 DEF ShutdownLeft
  <2> QED BY <2>2
<1>8. CASE Bundle!RouterShutdown
  <2>1. phase = "router" /\ phase' = "ok"
    BY <1>8 DEF Bundle!RouterShutdown
  <2>2. ShutdownLeft = 1 /\ ShutdownLeft' = 0
    BY <2>1 DEF ShutdownLeft
  <2> QED BY <2>2
<1> QED BY <1>2, <1>3, <1>4, <1>5, <1>6, <1>7, <1>8 DEF Bundle!Next, Bundle!BundleStep

\* A shutdown takes at most five steps and one for each subscriber.
THEOREM ShutdownsComeToAnEnd == Spec => ShutdownAdvances /\ []ShutdownBounded
<1>1. Init => BundleInv
  BY InitBundle DEF Init
<1>2. ASSUME BundleInv, [Next]_vars
      PROVE  UNCHANGED <<phase, notified>> \/ ShutdownLeft' < ShutdownLeft
  <2>1. CASE Bundle!Next
    BY <1>2, <2>1, StepShutdown
  <2>2. CASE UNCHANGED bundleVars
    BY <2>2 DEF bundleVars
  <2> QED BY <1>2, <2>1, <2>2 DEF Next, vars, LoseConnection
<1>3. BundleInv /\ [Next]_vars
      => [UNCHANGED <<phase, notified>> \/ ShutdownLeft' < ShutdownLeft]_vars
  BY <1>2
<1>4. ASSUME BundleInv PROVE ShutdownBounded
  <2>1. /\ notified \in 0..Listeners
        /\ phase \in {"running", "rpc", "notifying", "waiting", "router", "ok", "err"}
    BY <1>4 DEF BundleInv, PhaseInv
  <2>2. ShutdownLeft \in {0, 1, 2, Listeners - notified + 3, Listeners + 4, Listeners + 5}
    BY <2>1 DEF ShutdownLeft
  <2> QED BY <2>1, <2>2 DEF ShutdownBounded
<1> QED BY <1>1, <1>3, <1>4, BundleKeepsInv, SpecIsSafe, PTL DEF SafeSpec, ShutdownAdvances
-----------------------------------------------------------------------------
(* The subscription *)

ElementsOf(q) == {q[i] : i \in 1..Len(q)}

SubsTypes ==
  /\ sink \in {"none", "open", "closed", "dropped"}
  /\ produced \in 0..Updates
  /\ frames \in Seq(1..produced)
  /\ wire \in Seq(0..(Updates + 1))
  /\ written \in Seq(1..produced)
  /\ confirmed \subseteq 1..produced
  /\ subscriber \in {"none", "polling", "ended", "failed", "gone"}
  /\ received \in Seq(1..produced)

\* The sequence w begins with what is left of d after its first r elements.
Continues(w, d, r) ==
  /\ r <= Len(d) /\ Len(d) - r <= Len(w)
  /\ \A i \in 1..(Len(d) - r) : w[i] = d[r + i]

\* While the client reads, what is on the wire is what it has not read of what
\* got out, and then at most what the sink's end has put there.
WireInv ==
  /\ Continues(wire, written, Len(received))
  /\ sink \in {"none", "open"} => Len(wire) = Len(written) - Len(received)
  /\ sink = "closed" =>
       /\ Len(wire) = Len(written) - Len(received) + 1
       /\ wire[Len(wire)] = 0
  /\ sink = "dropped" =>
       \/ Len(wire) = Len(written) - Len(received)
       \/ /\ Len(wire) = Len(written) - Len(received) + 1
          /\ wire[Len(wire)] = Updates + 1

SubsInv ==
  /\ SubsTypes
  /\ confirmed \subseteq ElementsOf(written)
  /\ Len(received) <= Len(written)
  /\ \A i \in 1..Len(received) : received[i] = written[i]
  /\ subscriber = "polling" => WireInv
  /\ subscriber = "ended" =>
       sink \in {"closed", "dropped"} /\ Len(received) = Len(written)

\* A longer tail continues a longer sequence.
LEMMA ContinuesAppend ==
  ASSUME NEW S, NEW w \in Seq(S), NEW d \in Seq(S), NEW r \in Nat, NEW t \in Seq(S),
         Continues(w, d, r), Len(w) = Len(d) - r
  PROVE  /\ Continues(w \o t, d \o t, r)
         /\ Len(w \o t) = Len(d \o t) - r
<1>1. /\ w \o t \in Seq(S) /\ Len(w \o t) = Len(w) + Len(t)
      /\ d \o t \in Seq(S) /\ Len(d \o t) = Len(d) + Len(t)
  BY ConcatProperties
<1>2. Len(w) \in Nat /\ Len(d) \in Nat /\ Len(t) \in Nat
  BY LenProperties
<1>3. ASSUME NEW i \in 1..(Len(d) + Len(t) - r)
      PROVE  (w \o t)[i] = (d \o t)[r + i]
  <2>1. CASE i <= Len(w)
    <3>1. (w \o t)[i] = w[i] /\ (d \o t)[r + i] = d[r + i]
      BY <2>1, <1>2, ConcatProperties DEF Continues
    <3> QED BY <3>1, <2>1, <1>2 DEF Continues
  <2>2. CASE i > Len(w)
    <3>1. (w \o t)[i] = t[i - Len(w)]
      BY <2>2, <1>2, <1>3, ConcatProperties DEF Continues
    <3>2. (d \o t)[r + i] = t[r + i - Len(d)]
      BY <2>2, <1>2, <1>3, ConcatProperties DEF Continues
    <3>3. r + i - Len(d) = i - Len(w)
      BY <1>2
    <3> QED BY <3>1, <3>2, <3>3
  <2> QED BY <2>1, <2>2, <1>2
<1>4. Len(w \o t) = Len(d \o t) - r
  BY <1>1, <1>2
<1>5. r <= Len(d \o t) /\ Len(d \o t) - r <= Len(w \o t)
  BY <1>1, <1>2 DEF Continues
<1>6. \A i \in 1..(Len(d \o t) - r) : (w \o t)[i] = (d \o t)[r + i]
  <2>1. Len(d \o t) - r = Len(d) + Len(t) - r
    BY <1>1
  <2> QED BY <2>1, <1>3
<1> QED BY <1>4, <1>5, <1>6 DEF Continues

\* One more element at the end of the first sequence changes nothing.
LEMMA ContinuesExtra ==
  ASSUME NEW S, NEW w \in Seq(S), NEW d \in Seq(S), NEW r \in Nat, NEW x \in S,
         Continues(w, d, r), Len(w) = Len(d) - r
  PROVE  /\ Continues(w \o <<x>>, d, r)
         /\ Len(w \o <<x>>) = Len(d) - r + 1
         /\ (w \o <<x>>)[Len(w \o <<x>>)] = x
<1>1. /\ <<x>> \in Seq(S) /\ Len(<<x>>) = 1 /\ <<x>>[1] = x
      /\ Len(w) \in Nat /\ Len(d) \in Nat
  BY LenProperties
<1>2. /\ Len(w \o <<x>>) = Len(w) + 1
      /\ \A i \in 1..Len(w) : (w \o <<x>>)[i] = w[i]
      /\ (w \o <<x>>)[Len(w) + 1] = x
  BY <1>1, ConcatProperties
<1> QED BY <1>1, <1>2 DEF Continues

\* A beginning of a sequence is one of a longer sequence.
LEMMA BeginningAppend ==
  ASSUME NEW S, NEW b \in Seq(S), NEW d \in Seq(S), NEW t \in Seq(S),
         Len(b) <= Len(d), \A i \in 1..Len(b) : b[i] = d[i]
  PROVE  /\ Len(b) <= Len(d \o t)
         /\ \A i \in 1..Len(b) : b[i] = (d \o t)[i]
<1>1. Len(b) \in Nat /\ Len(d) \in Nat /\ Len(t) \in Nat
  BY LenProperties
<1>2. Len(d \o t) = Len(d) + Len(t) /\ \A i \in 1..Len(b) : (d \o t)[i] = d[i]
  BY <1>1, ConcatProperties
<1> QED BY <1>1, <1>2

LEMMA InitSubs == ASSUME NEW present \in BOOLEAN, Subs!Init(present) PROVE SubsInv
  BY DEF Subs!Init, SubsInv, SubsTypes, WireInv, Continues, ElementsOf

\* A beginning of a buffer, and what is left of it.
LEMMA PartsOfBuffer ==
  ASSUME NEW S, NEW b \in Seq(S), NEW n \in 0..Len(b)
  PROVE  /\ SubSeq(b, 1, n) \in Seq(S) /\ SubSeq(b, n + 1, Len(b)) \in Seq(S)
         /\ b = SubSeq(b, 1, n) \o SubSeq(b, n + 1, Len(b))
<1> DEFINE m == Len(b)
           head == SubSeq(b, 1, n)
           rest == SubSeq(b, n + 1, m)
<1>1. m \in Nat /\ n \in Nat /\ n <= m /\ \A i \in 1..m : b[i] \in S
  BY LenProperties, ElementOfSeq
<1>2. /\ head \in Seq(S) /\ Len(head) = n
      /\ \A i \in 1..n : head[i] = b[i]
  <2>1. \A i \in 1..n : b[i] \in S
    BY <1>1
  <2> HIDE DEF m
  <2>2. /\ head \in Seq(S) /\ Len(head) = IF 1 <= n THEN n - 1 + 1 ELSE 0
        /\ \A i \in 1..(n - 1 + 1) : head[i] = b[1 + i - 1]
    BY <1>1, <2>1, SubSeqProperties
  <2>3. ASSUME NEW i \in 1..n PROVE head[i] = b[i]
    <3>1. i \in 1..(n - 1 + 1) /\ 1 + i - 1 = i
      BY <1>1
    <3> QED BY <2>2, <3>1
  <2> QED BY <1>1, <2>2, <2>3
<1>3. /\ rest \in Seq(S) /\ Len(rest) = m - n
      /\ \A i \in 1..(m - n) : rest[i] = b[n + i]
  <2>1. n + 1 \in Nat /\ \A i \in (n + 1)..m : b[i] \in S
    BY <1>1
  <2> HIDE DEF m
  <2>2. /\ rest \in Seq(S) /\ Len(rest) = IF n + 1 <= m THEN m - (n + 1) + 1 ELSE 0
        /\ \A i \in 1..(m - (n + 1) + 1) : rest[i] = b[(n + 1) + i - 1]
    BY <1>1, <2>1, SubSeqProperties
  <2>3. ASSUME NEW i \in 1..(m - n) PROVE rest[i] = b[n + i]
    <3>1. i \in 1..(m - (n + 1) + 1) /\ (n + 1) + i - 1 = n + i
      BY <1>1
    <3> QED BY <2>2, <3>1
  <2>4. (IF n + 1 <= m THEN m - (n + 1) + 1 ELSE 0) = m - n
    BY <1>1
  <2> QED BY <2>2, <2>3, <2>4
<1> HIDE DEF head, rest
<1>4. /\ head \o rest \in Seq(S) /\ Len(head \o rest) = m
      /\ \A i \in 1..m : (head \o rest)[i] = b[i]
  <2>0. /\ head \o rest \in Seq(S) /\ Len(head \o rest) = Len(head) + Len(rest)
        /\ \A i \in 1..(Len(head) + Len(rest)) :
             (head \o rest)[i] = IF i <= Len(head) THEN head[i] ELSE rest[i - Len(head)]
    BY <1>2, <1>3, ConcatProperties
  <2>1. /\ head \o rest \in Seq(S) /\ Len(head \o rest) = n + (m - n)
        /\ \A i \in 1..(n + (m - n)) :
             (head \o rest)[i] = IF i <= n THEN head[i] ELSE rest[i - n]
    <3> HIDE DEF m
    <3> QED BY <1>2, <1>3, <2>0
  <2>2. ASSUME NEW i \in 1..m PROVE (head \o rest)[i] = b[i]
    <3>1. i \in 1..(n + (m - n))
      BY <1>1
    <3>2. CASE i <= n
      BY <1>1, <1>2, <2>1, <3>1, <3>2
    <3>3. CASE ~(i <= n)
      <4>1. i - n \in 1..(m - n) /\ n + (i - n) = i
        BY <1>1, <3>3
      <4> QED BY <1>3, <2>1, <3>1, <3>3, <4>1
    <3> QED BY <3>2, <3>3
  <2> QED BY <1>1, <2>1, <2>2
<1>5. head \o rest = b
  BY <1>4, SeqEqual
<1> QED BY <1>2, <1>3, <1>5 DEF head, rest

\* The elements of a sequence stay when it goes on, and those of the rest come.
LEMMA ElementsOfConcat ==
  ASSUME NEW S, NEW a \in Seq(S), NEW b \in Seq(S)
  PROVE  ElementsOf(a) \cup ElementsOf(b) \subseteq ElementsOf(a \o b)
<1>1. /\ Len(a \o b) = Len(a) + Len(b) /\ Len(a) \in Nat /\ Len(b) \in Nat
      /\ \A i \in 1..(Len(a) + Len(b)) :
           (a \o b)[i] = IF i <= Len(a) THEN a[i] ELSE b[i - Len(a)]
  BY ConcatProperties, LenProperties
<1>2. ASSUME NEW i \in 1..Len(a) PROVE a[i] \in ElementsOf(a \o b)
  <2>1. i \in 1..(Len(a) + Len(b)) /\ i <= Len(a)
    BY <1>1
  <2> QED BY <1>1, <2>1 DEF ElementsOf
<1>3. ASSUME NEW i \in 1..Len(b) PROVE b[i] \in ElementsOf(a \o b)
  <2>1. i + Len(a) \in 1..(Len(a) + Len(b)) /\ ~(i + Len(a) <= Len(a)) /\ i + Len(a) - Len(a) = i
    BY <1>1
  <2>2. (a \o b)[i + Len(a)] = b[i]
    BY <1>1, <2>1
  <2> QED BY <1>1, <2>1, <2>2 DEF ElementsOf
<1> QED BY <1>2, <1>3 DEF ElementsOf

\* Whatever part of the buffer goes out, and whatever the end of the sink puts
\* after it, the client finds on the wire what it has not read yet.
LEMMA OutputKeepsInv ==
  ASSUME SubsInv, sink = "open", produced' \in produced..Updates,
         NEW head \in Seq(1..produced'), NEW last,
         written' = written \o head, wire' = wire \o head \o last,
         frames' \in Seq(1..produced'),
         confirmed' \subseteq confirmed \cup ElementsOf(head), confirmed' \subseteq 1..produced',
         \/ sink' = "open" /\ last = << >>
         \/ sink' = "closed" /\ last = << 0 >>
         \/ sink' = "dropped" /\ last \in {<< >>, <<Updates + 1>>},
         UNCHANGED <<subscriber, received>>
  PROVE  SubsInv'
<1> DEFINE S == 0..(Updates + 1)
           w == wire \o head
           d == written \o head
<1>1. /\ produced \in 0..Updates /\ produced' \in 0..Updates /\ 1..produced \subseteq 1..produced'
      /\ 1..produced' \subseteq S /\ 0 \in S /\ Updates + 1 \in S
      /\ wire \in Seq(S) /\ written \in Seq(1..produced) /\ received \in Seq(1..produced)
      /\ subscriber \in {"none", "polling", "ended", "failed", "gone"} /\ subscriber # "ended"
  BY DEF SubsInv, SubsTypes
<1> HIDE DEF S
<1>2. /\ written \in Seq(1..produced') /\ received \in Seq(1..produced')
      /\ written \in Seq(S) /\ received \in Seq(S) /\ head \in Seq(S)
      /\ Len(received) \in Nat
  BY <1>1, SeqMonotonic, LenProperties
<1>3. /\ d \in Seq(1..produced') /\ w \in Seq(S) /\ d \in Seq(S)
  BY <1>1, <1>2, ConcatProperties
<1>4. wire' \in Seq(S) /\ last \in Seq(S)
  <2>1. last \in Seq(S)
    <3>1. << >> \in Seq(S) /\ << 0 >> \in Seq(S) /\ <<Updates + 1>> \in Seq(S)
      BY <1>1
    <3> QED BY <3>1
  <2> HIDE DEF w
  <2>2. w \o last \in Seq(S)
    BY <1>3, <2>1, ConcatProperties
  <2> QED BY <2>1, <2>2 DEF w
<1>5. SubsTypes'
  BY <1>1, <1>2, <1>3, <1>4 DEF SubsTypes, S
<1>6. confirmed' \subseteq ElementsOf(written')
  <2>1. ElementsOf(written) \cup ElementsOf(head) \subseteq ElementsOf(d)
    BY <1>2, ElementsOfConcat
  <2> QED BY <2>1 DEF SubsInv
<1>7. /\ Len(received) <= Len(d)
      /\ \A i \in 1..Len(received) : received[i] = d[i]
  BY <1>2, BeginningAppend DEF SubsInv
<1>8. ASSUME subscriber = "polling" PROVE WireInv'
  <2>1. Continues(wire, written, Len(received)) /\ Len(wire) = Len(written) - Len(received)
    BY <1>8 DEF SubsInv, WireInv
  <2>2. Continues(w, d, Len(received)) /\ Len(w) = Len(d) - Len(received)
    BY <1>1, <1>2, <2>1, ContinuesAppend
  <2> HIDE DEF w, d
  <2>3. CASE last = << >>
    <3>1. w \o << >> = w
      BY <1>3, ConcatEmptySeq
    <3>2. wire' = w /\ written' = d /\ sink' \in {"open", "dropped"}
      BY <2>3, <3>1 DEF w, d
    <3> QED BY <2>2, <3>2 DEF WireInv
  <2>4. ASSUME NEW x \in S, last = <<x>>,
               (sink' = "closed" /\ x = 0) \/ (sink' = "dropped" /\ x = Updates + 1)
        PROVE  WireInv'
    <3>1. /\ Continues(w \o <<x>>, d, Len(received))
          /\ Len(w \o <<x>>) = Len(d) - Len(received) + 1
          /\ (w \o <<x>>)[Len(w \o <<x>>)] = x
      BY <1>2, <1>3, <2>2, ContinuesExtra
    <3>2. wire' = w \o <<x>> /\ written' = d
      BY <2>4 DEF w, d
    <3> QED BY <2>4, <3>1, <3>2 DEF WireInv
  <2> QED BY <1>1, <2>3, <2>4
<1> HIDE DEF w
<1> QED BY <1>1, <1>5, <1>6, <1>7, <1>8 DEF SubsInv

LEMMA SinkKeepsInv ==
  ASSUME SubsInv, Subs!SinkSend \/ Subs!SinkSendFails \/ Subs!CloseSink \/ Subs!DropSink
  PROVE  SubsInv'
<1>1. /\ sink = "open" /\ produced \in 0..Updates /\ frames \in Seq(1..produced)
      /\ confirmed \subseteq 1..produced
      /\ UNCHANGED <<subscriber, received>>
  BY DEF SubsInv, SubsTypes, Subs!SinkSend, Subs!SinkSendFails, Subs!CloseSink, Subs!DropSink
<1>2. ASSUME NEW n \in Nat PROVE << >> \in Seq(1..n)
  OBVIOUS
\* The buffer with one more item in it.
<1>3. ASSUME produced < Updates, produced' = produced + 1
      PROVE  LET buffer == Append(frames, produced + 1) IN
             /\ buffer \in Seq(1..produced') /\ frames \in Seq(1..produced')
             /\ produced + 1 \in ElementsOf(buffer)
             /\ produced' \in produced..Updates /\ produced' \in Nat
             /\ confirmed \subseteq 1..produced' /\ produced + 1 \in 1..produced'
  <2> DEFINE x == produced + 1
  <2>1. /\ x \in 1..x /\ x \in Nat /\ x \in produced..Updates /\ 1..produced \subseteq 1..x
    BY <1>1, <1>3
  <2>2. frames \in Seq(1..x)
    BY <1>1, <2>1, SeqMonotonic
  <2> HIDE DEF x
  <2>3. /\ Append(frames, x) \in Seq(1..x) /\ Len(Append(frames, x)) = Len(frames) + 1
        /\ Append(frames, x)[Len(frames) + 1] = x /\ Len(frames) + 1 \in 1..(Len(frames) + 1)
    BY <2>1, <2>2, AppendProperties, LenProperties
  <2>4. x \in ElementsOf(Append(frames, x))
    BY <2>3 DEF ElementsOf
  <2> QED BY <1>1, <1>3, <2>1, <2>2, <2>3, <2>4 DEF x
<1>4. CASE Subs!SinkSend
  <2> DEFINE buffer == Append(frames, produced + 1)
  <2>1. /\ produced < Updates /\ produced' = produced + 1 /\ sink' = "open" /\ frames' = << >>
        /\ confirmed' = confirmed \cup {produced + 1}
        /\ written' = written \o SubSeq(buffer, 1, Len(buffer))
        /\ wire' = wire \o SubSeq(buffer, 1, Len(buffer)) \o << >>
    BY <1>1, <1>4 DEF Subs!SinkSend, Subs!WriteOut
  <2>2. /\ buffer \in Seq(1..produced') /\ produced + 1 \in ElementsOf(buffer)
        /\ produced' \in produced..Updates /\ produced' \in Nat
        /\ confirmed' \subseteq 1..produced'
    BY <1>3, <2>1
  <2> HIDE DEF buffer
  <2>3. SubSeq(buffer, 1, Len(buffer)) = buffer
    BY <2>2, SubSeqFull
  <2>4. confirmed' \subseteq confirmed \cup ElementsOf(buffer) /\ frames' \in Seq(1..produced')
    BY <1>2, <2>1, <2>2
  <2> QED BY <1>1, <2>1, <2>2, <2>3, <2>4, OutputKeepsInv
<1>5. CASE Subs!SinkSendFails
  <2>0. PICK buffer \in {frames, Append(frames, produced + 1)} :
          \E n \in 0..Len(buffer) :
            /\ written' = written \o SubSeq(buffer, 1, n)
            /\ wire' = wire \o SubSeq(buffer, 1, n) \o << >>
            /\ frames' = SubSeq(buffer, n + 1, Len(buffer))
    BY <1>5 DEF Subs!SinkSendFails, Subs!WriteOut
  <2>1. PICK n \in 0..Len(buffer) :
          /\ written' = written \o SubSeq(buffer, 1, n)
          /\ wire' = wire \o SubSeq(buffer, 1, n) \o << >>
          /\ frames' = SubSeq(buffer, n + 1, Len(buffer))
    BY <2>0
  <2>2. produced < Updates /\ produced' = produced + 1 /\ sink' = "open" /\ confirmed' = confirmed
    BY <1>1, <1>5 DEF Subs!SinkSendFails
  <2>3. /\ buffer \in Seq(1..produced') /\ produced' \in produced..Updates
        /\ confirmed' \subseteq 1..produced'
    BY <1>3, <2>1, <2>2
  <2>4. /\ SubSeq(buffer, 1, n) \in Seq(1..produced')
        /\ SubSeq(buffer, n + 1, Len(buffer)) \in Seq(1..produced')
    BY <2>3, PartsOfBuffer
  <2> QED BY <1>1, <2>1, <2>2, <2>3, <2>4, OutputKeepsInv
<1>6. CASE Subs!CloseSink
  <2>1. /\ produced' = produced /\ sink' = "closed" /\ frames' = << >>
        /\ confirmed' = confirmed \cup {frames[i] : i \in DOMAIN frames}
        /\ written' = written \o SubSeq(frames, 1, Len(frames))
        /\ wire' = wire \o SubSeq(frames, 1, Len(frames)) \o << 0 >>
    BY <1>6 DEF Subs!CloseSink, Subs!WriteOut, Subs!Stopped
  <2>2. SubSeq(frames, 1, Len(frames)) = frames
    BY <1>1, SubSeqFull
  <2>3. {frames[i] : i \in DOMAIN frames} = ElementsOf(frames) /\ ElementsOf(frames) \subseteq 1..produced
    BY <1>1, LenProperties, ElementOfSeq DEF ElementsOf
  <2>4. /\ produced' \in produced..Updates /\ frames' \in Seq(1..produced')
        /\ frames \in Seq(1..produced')
    BY <1>1, <1>2, <2>1
  <2>5. confirmed' \subseteq confirmed \cup ElementsOf(frames) /\ confirmed' \subseteq 1..produced'
    BY <1>1, <2>1, <2>3
  <2> QED BY <1>1, <2>1, <2>2, <2>4, <2>5, OutputKeepsInv
<1>7. CASE Subs!DropSink
  <2>1. PICK n \in 0..Len(frames), last \in {<< >>, <<Updates + 1>>} :
          /\ written' = written \o SubSeq(frames, 1, n)
          /\ wire' = wire \o SubSeq(frames, 1, n) \o last
    BY <1>7 DEF Subs!DropSink, Subs!WriteOut, Subs!Torn
  <2>2. produced' = produced /\ sink' = "dropped" /\ frames' = << >> /\ confirmed' = confirmed
    BY <1>7 DEF Subs!DropSink
  <2>3. /\ produced' \in produced..Updates /\ frames' \in Seq(1..produced')
        /\ SubSeq(frames, 1, n) \in Seq(1..produced')
    BY <1>1, <1>2, <2>1, <2>2, PartsOfBuffer
  <2> QED BY <1>1, <2>1, <2>2, <2>3, OutputKeepsInv
<1> QED BY <1>4, <1>5, <1>6, <1>7

LEMMA StepSubs == SubsInv /\ Subs!Next => SubsInv'
<1> SUFFICES ASSUME SubsInv, Subs!Next PROVE SubsInv'
  OBVIOUS
<1> DEFINE S == 0..(Updates + 1)
<1>a. /\ wire \in Seq(S) /\ written \in Seq(S) /\ received \in Seq(S) /\ frames \in Seq(S)
      /\ Len(received) \in Nat /\ Len(written) \in Nat /\ Len(wire) \in Nat
  BY DEF SubsInv, SubsTypes
<1>1. CASE Subs!SinkSend \/ Subs!SinkSendFails \/ Subs!CloseSink \/ Subs!DropSink
  BY <1>1, SinkKeepsInv
<1>6. CASE Subs!PollMessage
  <2> DEFINE m == Head(wire)
  <2>1. /\ subscriber = "polling" /\ wire # << >> /\ wire' = Tail(wire)
        /\ UNCHANGED <<sink, produced, frames, written, confirmed>>
        /\ WireInv
    BY <1>6 DEF Subs!PollMessage, Subs!pollUnchanged, Subs!sinkVars, SubsInv
  <2>2. /\ m = wire[1] /\ Len(wire) >= 1 /\ Tail(wire) \in Seq(S) /\ Len(Tail(wire)) = Len(wire) - 1
        /\ \A i \in 1..(Len(wire) - 1) : Tail(wire)[i] = wire[i + 1]
    BY <1>a, <2>1, HeadTailProperties
  <2>3. ASSUME Len(written) > Len(received)
        PROVE  m = written[Len(received) + 1] /\ m \in 1..produced /\ m \in 1..Updates
    <3>1. m = written[Len(received) + 1]
      <4>1. 1 \in 1..(Len(written) - Len(received))
        BY <1>a, <2>3
      <4>2. wire[1] = written[Len(received) + 1]
        BY <4>1, <2>1 DEF WireInv, Continues
      <4> QED BY <4>2, <2>2
    <3>2. Len(received) + 1 \in 1..Len(written)
      BY <1>a, <2>3
    <3>3. written \in Seq(1..produced) /\ produced \in 0..Updates
      BY DEF SubsInv, SubsTypes
    <3>4. written[Len(received) + 1] \in 1..produced
      BY <3>2, <3>3, ElementOfSeq
    <3> QED BY <3>1, <3>3, <3>4
  <2>4. ASSUME Len(written) = Len(received)
        PROVE  sink \in {"closed", "dropped"} /\ m \notin 1..Updates
    <3>1. sink \in {"none", "open", "closed", "dropped"}
      BY DEF SubsInv, SubsTypes
    <3>2. sink \notin {"none", "open"}
      BY <1>a, <2>1, <2>2, <2>4 DEF WireInv
    <3>3. Len(wire) = 1 /\ wire[1] \in {0, Updates + 1}
      <4>1. CASE sink = "closed"
        <5>1. Len(wire) = Len(written) - Len(received) + 1 /\ wire[Len(wire)] = 0
          BY <2>1, <4>1 DEF WireInv
        <5>2. Len(wire) = 1
          BY <1>a, <2>4, <5>1
        <5> QED BY <5>1, <5>2
      <4>2. CASE sink = "dropped"
        <5>1. Len(wire) = Len(written) - Len(received) + 1 /\ wire[Len(wire)] = Updates + 1
          BY <1>a, <2>1, <2>2, <2>4, <4>2 DEF WireInv
        <5>2. Len(wire) = 1
          BY <1>a, <2>4, <5>1
        <5> QED BY <5>1, <5>2
      <4> QED BY <3>1, <3>2, <4>1, <4>2
    <3> QED BY <2>2, <3>1, <3>2, <3>3
  <2>5. CASE /\ m \in {0, Updates + 1} /\ subscriber' \in {"ended", "failed"} /\ UNCHANGED received
    <3>1. Len(written) = Len(received) /\ sink \in {"closed", "dropped"}
      <4>1. m \notin 1..Updates
        BY <1>a, <2>5
      <4>2. Len(received) <= Len(written)
        BY DEF SubsInv
      <4>3. Len(written) = Len(received)
        BY <1>a, <2>3, <4>1, <4>2
      <4> QED BY <2>4, <4>3
    <3>2. SubsTypes'
      BY <2>1, <2>2, <2>5 DEF SubsInv, SubsTypes
    <3> QED BY <2>1, <2>5, <3>1, <3>2 DEF SubsInv
  <2>6. CASE m \in 1..Updates /\ received' = Append(received, m) /\ UNCHANGED subscriber
    <3>1. Len(written) > Len(received)
      BY <1>a, <2>4, <2>6 DEF SubsInv
    <3>2. /\ Len(received') = Len(received) + 1 /\ received' \in Seq(1..produced)
          /\ \A i \in 1..Len(received) : received'[i] = received[i]
          /\ received'[Len(received) + 1] = m
      BY <2>3, <2>6, <3>1, AppendProperties DEF SubsInv, SubsTypes
    <3>3. SubsTypes'
      BY <2>1, <2>2, <2>6, <3>2 DEF SubsInv, SubsTypes
    <3>4. \A i \in 1..Len(received') : received'[i] = written'[i]
      <4>1. ASSUME NEW i \in 1..Len(received') PROVE received'[i] = written[i]
        <5>1. i \in 1..Len(received) \/ i = Len(received) + 1
          BY <1>a, <3>2
        <5>2. \A j \in 1..Len(received) : received[j] = written[j]
          BY DEF SubsInv
        <5> QED BY <2>3, <3>1, <3>2, <5>1, <5>2
      <4> QED BY <2>1, <4>1
    <3>5. Continues(wire', written', Len(received'))
      <4>1. ASSUME NEW i \in 1..(Len(written) - (Len(received) + 1))
            PROVE  Tail(wire)[i] = written[Len(received) + 1 + i]
        <5>1. i \in 1..(Len(wire) - 1) /\ i + 1 \in 1..(Len(written) - Len(received))
          BY <1>a, <2>1 DEF WireInv, Continues
        <5>2. Tail(wire)[i] = wire[i + 1]
          BY <5>1, <2>2
        <5>3. wire[i + 1] = written[Len(received) + (i + 1)]
          BY <5>1, <2>1 DEF WireInv, Continues
        <5>4. Len(received) + (i + 1) = Len(received) + 1 + i
          BY <1>a
        <5> QED BY <5>2, <5>3, <5>4
      <4>2. /\ Len(received) + 1 <= Len(written)
            /\ Len(written) - (Len(received) + 1) <= Len(wire) - 1
        BY <1>a, <2>1, <3>1 DEF WireInv, Continues
      <4>3. Continues(Tail(wire), written, Len(received) + 1)
        <5>1. Len(Tail(wire)) = Len(wire) - 1
          BY <2>2
        <5> QED BY <4>1, <4>2, <5>1 DEF Continues
      <4> QED BY <2>1, <3>2, <4>3
    <3>6. /\ Len(wire') = Len(wire) - 1
          /\ Len(wire) > 1 => wire'[Len(wire')] = wire[Len(wire)]
      BY <1>a, <2>1, <2>2
    <3>7. WireInv'
      <4>1. /\ sink' = sink /\ written' = written
            /\ Len(wire) \in Nat /\ Len(written) \in Nat /\ Len(received) \in Nat
            /\ Len(received') = Len(received) + 1 /\ Len(wire') = Len(wire) - 1
            /\ Len(written) > Len(received)
        BY <1>a, <2>1, <3>1, <3>2, <3>6
      <4>2. sink' \in {"none", "open"} => Len(wire') = Len(written') - Len(received')
        <5>1. sink \in {"none", "open"} => Len(wire) = Len(written) - Len(received)
          BY <2>1 DEF WireInv
        <5> HIDE DEF WireInv, SubsTypes
        <5> QED BY <4>1, <5>1
      <4>3. ASSUME sink' = "closed"
            PROVE  /\ Len(wire') = Len(written') - Len(received') + 1
                   /\ wire'[Len(wire')] = 0
        <5>1. Len(wire) = Len(written) - Len(received) + 1 /\ wire[Len(wire)] = 0
          BY <2>1, <4>1, <4>3 DEF WireInv
        <5>2. Len(wire) > 1
          BY <4>1, <5>1
        <5> QED BY <3>6, <4>1, <5>1, <5>2
      <4>4. ASSUME sink' = "dropped"
            PROVE  \/ Len(wire') = Len(written') - Len(received')
                   \/ /\ Len(wire') = Len(written') - Len(received') + 1
                      /\ wire'[Len(wire')] = Updates + 1
        <5>1. \/ Len(wire) = Len(written) - Len(received)
              \/ Len(wire) = Len(written) - Len(received) + 1 /\ wire[Len(wire)] = Updates + 1
          BY <2>1, <4>1, <4>4 DEF WireInv
        <5>2. CASE Len(wire) = Len(written) - Len(received)
          BY <4>1, <5>2
        <5>3. CASE Len(wire) = Len(written) - Len(received) + 1 /\ wire[Len(wire)] = Updates + 1
          <6>1. Len(wire) > 1
            BY <4>1, <5>3
          <6> QED BY <3>6, <4>1, <5>3, <6>1
        <5> QED BY <5>1, <5>2, <5>3
      <4> HIDE DEF SubsTypes
      <4> QED BY <3>5, <4>2, <4>3, <4>4 DEF WireInv
    <3>8. Len(received') <= Len(written') /\ subscriber' # "ended"
      BY <1>a, <2>1, <2>6, <3>1, <3>2
    <3>9. confirmed' \subseteq ElementsOf(written')
      BY <2>1 DEF SubsInv
    <3> HIDE DEF SubsTypes, WireInv, m
    <3> QED BY <3>3, <3>4, <3>7, <3>8, <3>9 DEF SubsInv, ElementsOf
  <2> QED BY <1>6, <2>5, <2>6 DEF Subs!PollMessage, Subs!Stopped, Subs!Torn
<1>7. CASE Subs!PollEnd
  <2>1. /\ subscriber = "polling" /\ UNCHANGED <<sink, produced, frames, written, confirmed, wire, received>>
        /\ \/ wire = << >> /\ sink \in {"closed", "dropped"} /\ subscriber' = "ended"
           \/ subscriber' = "failed"
        /\ WireInv
    BY <1>7 DEF Subs!PollEnd, Subs!pollUnchanged, Subs!sinkVars, SubsInv
  <2>2. SubsTypes'
    BY <2>1 DEF SubsInv, SubsTypes
  <2>3. subscriber' = "ended" => Len(received) = Len(written)
    BY <1>a, <2>1 DEF WireInv, Continues
  <2> QED BY <2>1, <2>2, <2>3 DEF SubsInv
<1>8. CASE Subs!Unsubscribe
  <2>1. SubsTypes'
    BY <1>8 DEF Subs!Unsubscribe, Subs!pollUnchanged, Subs!sinkVars, SubsInv, SubsTypes
  <2> QED BY <1>8, <2>1 DEF Subs!Unsubscribe, Subs!pollUnchanged, Subs!sinkVars, SubsInv
<1> QED BY <1>1, <1>6, <1>7, <1>8 DEF Subs!Next, Subs!Poll

LEMMA SubsKeepsInv == SubsInv /\ [Next]_vars => SubsInv'
<1> SUFFICES ASSUME SubsInv, [Next]_vars PROVE SubsInv'
  OBVIOUS
<1>1. CASE UNCHANGED subsVars
  BY <1>1 DEF SubsInv, SubsTypes, WireInv, subsVars
<1> QED BY <1>1, StepSubs DEF Next, vars, LoseConnection
-----------------------------------------------------------------------------
(* The notification stream *)

NoteTypes ==
  /\ sender \in {"none", "idle", "awaiting", "gone"}
  /\ sent \in 0..Items
  /\ up \in Seq(0..Items)
  /\ handler \in {"none", "working", "reading", "acking", "over"}
  /\ inHand \in 0..Items /\ (inHand # 0 <=> handler = "acking")
  /\ ending \in {"none", "completed", "closed", "error"}
  /\ held \in Nat /\ abandoned \in Nat
  /\ down \in Seq({"ack", "error"})
  /\ undecodable \subseteq 1..Items
  /\ oks \subseteq 1..sent /\ refused \subseteq 1..sent /\ dropped \subseteq 1..sent
  /\ handed \in Seq(1..sent)

InHandSet == IF handler = "acking" THEN {inHand} ELSE {}
Acking == IF handler = "acking" THEN 1 ELSE 0
Awaiting == IF sender = "awaiting" THEN 1 ELSE 0

\* The receiver has taken k items: each was handed over, refused or dropped, in
\* their order, and the last may be in its hand.
TakenInv(k) ==
  /\ ElementsOf(handed) \cup refused \cup dropped \cup InHandSet = 1..k
  /\ handler = "acking" => inHand = k /\ inHand \notin ElementsOf(handed) \cup refused \cup dropped
  /\ ElementsOf(handed) \cap (refused \cup dropped) = {}
  /\ \A i, j \in 1..Len(handed) : i < j => handed[i] < handed[j]

\* The others are on their way, in order, and Completed can only come last.
UpInv(k) ==
  /\ Len(up) \in {sent - k, sent - k + 1}
  /\ \A i \in 1..(sent - k) : up[i] = k + i
  /\ Len(up) = sent - k + 1 => up[Len(up)] = 0 /\ upEnded
  /\ upEnded => sender = "gone"
  /\ ending \in {"completed", "closed"} =>
       k = sent /\ up = << >> /\ sender = "gone" /\ handler \in {"working", "over"}

\* What is answered, held back or still to be answered is no more than the send
\* that waits and those that were abandoned.
AcksInv(k) ==
  /\ \/ cut /\ sender # "awaiting"
     \/ Len(down) + held + (IF handler = "over" THEN 0 ELSE Acking + (sent - k))
          <= abandoned + Awaiting
  /\ handler = "over" => held = 0
  /\ held + Acking <= k
  /\ abandoned + Awaiting <= sent

\* An acknowledgement that a send() is about to find is the one of its item.
OksInv ==
  abandoned = 0 =>
    /\ oks \subseteq ElementsOf(handed) \cup dropped
    /\ sender = "awaiting" /\ down # << >> /\ Head(down) = "ack" =>
         sent \in ElementsOf(handed) \cup dropped

NoteInv ==
  /\ NoteTypes
  /\ OksInv
  /\ \E k \in 0..sent : TakenInv(k) /\ UpInv(k) /\ AcksInv(k)

LEMMA InitNote == ASSUME NEW present \in BOOLEAN, Note!Init(present) PROVE NoteInv
<1> USE DEF Note!Init
<1>1. NoteTypes
  <2>1. undecodable \subseteq 1..Items
    OBVIOUS
  <2> QED BY <2>1 DEF NoteTypes, Note!NoItem
<1>2. OksInv
  BY DEF OksInv
<1>3. TakenInv(0)
  BY DEF TakenInv, ElementsOf, InHandSet
<1>4. UpInv(0)
  BY DEF UpInv
<1>5. AcksInv(0)
  BY DEF AcksInv, Acking, Awaiting
<1>6. 0 \in 0..sent
  OBVIOUS
<1> HIDE DEF Note!Init
<1> QED BY <1>1, <1>2, <1>3, <1>4, <1>5, <1>6 DEF NoteInv

\* One more item handed over, beyond those before it.
LEMMA HandOver ==
  ASSUME NEW n \in Nat, NEW q \in Seq(1..n), NEW x \in 1..n
  PROVE  /\ Append(q, x) \in Seq(1..n)
         /\ ElementsOf(Append(q, x)) = ElementsOf(q) \cup {x}
<1>1. /\ Len(Append(q, x)) = Len(q) + 1 /\ Len(q) \in Nat
      /\ \A i \in 1..Len(q) : Append(q, x)[i] = q[i]
      /\ Append(q, x)[Len(q) + 1] = x
      /\ Append(q, x) \in Seq(1..n)
  BY AppendProperties
<1>2. ElementsOf(Append(q, x)) \subseteq ElementsOf(q) \cup {x}
  BY <1>1 DEF ElementsOf
<1>3. ElementsOf(q) \subseteq ElementsOf(Append(q, x))
  <2>1. ASSUME NEW i \in 1..Len(q) PROVE q[i] \in ElementsOf(Append(q, x))
    BY <1>1 DEF ElementsOf
  <2> QED BY <2>1 DEF ElementsOf
<1>4. x \in ElementsOf(Append(q, x))
  BY <1>1 DEF ElementsOf
<1> QED BY <1>1, <1>2, <1>3, <1>4

\* The lengths of three sequences one after the other, and the last element.
LEMMA ThreeInARow ==
  ASSUME NEW S, NEW d \in Seq(S), NEW a \in Seq(S), NEW x \in S
  PROVE  /\ d \o a \o <<x>> \in Seq(S)
         /\ Len(d \o a \o <<x>>) = Len(d) + Len(a) + 1
         /\ (d \o a \o <<x>>)[Len(d) + Len(a) + 1] = x
<1>1. d \o a \in Seq(S) /\ Len(d \o a) = Len(d) + Len(a)
      /\ Len(d) \in Nat /\ Len(a) \in Nat
  BY ConcatProperties, LenProperties
<1>2. d \o a \o <<x>> = Append(d \o a, x)
  BY <1>1, AppendIsConcat
<1> QED BY <1>1, <1>2, AppendProperties

\* The acknowledgements that were held go out before the answer.
LEMMA FlushedAcks ==
  ASSUME NEW message \in {"ack", "error"}, NoteTypes
  PROVE  /\ Note!Flushed(message) \in Seq({"ack", "error"})
         /\ Len(Note!Flushed(message)) = Len(down) + held + 1
         /\ down = << >> /\ held = 0 => Head(Note!Flushed(message)) = message
<1> DEFINE S == {"ack", "error"}
           a == [i \in 1..held |-> "ack"]
<1>1. message \in S /\ down \in Seq(S) /\ held \in Nat /\ a \in Seq(S) /\ Len(a) = held
  BY DEF NoteTypes
<1> HIDE DEF S, a
<1>2. /\ down \o a \o <<message>> \in Seq(S)
      /\ Len(down \o a \o <<message>>) = Len(down) + held + 1
      /\ (down \o a \o <<message>>)[Len(down) + held + 1] = message
  <2>1. down \in Seq(S) /\ a \in Seq(S)
    BY <1>1
  <2>2. ASSUME NEW x \in S
        PROVE  /\ down \o a \o <<x>> \in Seq(S)
               /\ Len(down \o a \o <<x>>) = Len(down) + Len(a) + 1
               /\ (down \o a \o <<x>>)[Len(down) + Len(a) + 1] = x
    BY ONLY <2>1, ThreeInARow
  <2> QED BY <1>1, <2>2
<1>3. ASSUME down = << >>, held = 0 PROVE Head(down \o a \o <<message>>) = message
  <2>1. Len(down) + held + 1 = 1
    BY <1>3
  <2> QED BY <1>2, <2>1
<1> QED BY <1>2, <1>3 DEF Note!Flushed, S, a

\* Some of the acknowledgements that were held go out.
LEMMA HeldGoOut ==
  ASSUME NoteTypes, NEW n \in 0..held
  PROVE  LET d == down \o [i \in 1..n |-> "ack"] IN
         /\ d \in Seq({"ack", "error"}) /\ Len(d) = Len(down) + n
         /\ \A i \in 1..Len(down) : d[i] = down[i]
         /\ n = 0 => d = down
<1> DEFINE S == {"ack", "error"}
           a == [i \in 1..n |-> "ack"]
<1>1. n \in Nat /\ down \in Seq(S) /\ a \in Seq(S) /\ Len(a) = n
  BY DEF NoteTypes
<1>2. n = 0 => a = << >>
  BY <1>1
<1> HIDE DEF S, a
<1>3. down \o a \in Seq(S) /\ Len(down \o a) = Len(down) + Len(a)
        /\ \A i \in 1..Len(down) : (down \o a)[i] = down[i]
  <2>1. Len(down) \in Nat /\ Len(a) \in Nat /\ \A i \in 1..Len(down) :
          i \in 1..(Len(down) + Len(a)) /\ i <= Len(down)
    BY <1>1, LenProperties
  <2>2. /\ down \o a \in Seq(S) /\ Len(down \o a) = Len(down) + Len(a)
        /\ \A i \in 1..(Len(down) + Len(a)) :
             (down \o a)[i] = IF i <= Len(down) THEN down[i] ELSE a[i - Len(down)]
    BY <1>1, ConcatProperties
  <2> QED BY <2>1, <2>2
<1>4. n = 0 => down \o a = down
  BY <1>1, <1>2, ConcatEmptySeq
<1> QED BY <1>1, <1>3, <1>4 DEF S, a

\* An item that is dropped adds at most one to the acknowledgements.
LEMMA DropItemAcks ==
  ASSUME NoteTypes, held \in Nat, Note!AckFails \/ Note!AbandonNext
  PROVE  /\ down' \in Seq({"ack", "error"}) /\ held' \in Nat /\ held' <= held + 1
         /\ Len(down') + held' <= Len(down) + held + 1
         /\ Note!AbandonNext => Len(down') + held' = Len(down) + held + 1
         /\ held = 0 => down' = down
<1>1. down \in Seq({"ack", "error"}) /\ Len(down) \in Nat
  BY DEF NoteTypes
<1>2. CASE Note!AckFails
  <2>1. down' = down /\ held' = held
    BY <1>2 DEF Note!AckFails
  <2>2. ASSUME Note!AbandonNext PROVE Len(down') + held' = Len(down) + held + 1
    <3>1. PICK n \in 0..held : held' = held - n + 1 /\ down' = down \o [i \in 1..n |-> "ack"]
      BY <2>2 DEF Note!AbandonNext
    <3>2. Len(down') = Len(down) + n
      BY <3>1, HeldGoOut
    <3> QED BY <1>1, <3>1, <3>2
  <2> QED BY <1>1, <2>1, <2>2
<1>3. CASE Note!AbandonNext
  <2>1. PICK n \in 0..held : held' = held - n + 1 /\ down' = down \o [i \in 1..n |-> "ack"]
    BY <1>3 DEF Note!AbandonNext
  <2>2. down' \in Seq({"ack", "error"}) /\ Len(down') = Len(down) + n /\ (n = 0 => down' = down)
    BY <2>1, HeldGoOut
  <2> QED BY <1>1, <2>1, <2>2
<1> QED BY <1>2, <1>3

(* The client's steps: what the receiver has taken does not change. *)

LEMMA SendItemKeeps ==
  ASSUME NoteInv, Note!SendItem PROVE NoteInv'
<1>1. PICK k \in 0..sent : TakenInv(k) /\ UpInv(k) /\ AcksInv(k)
  BY DEF NoteInv
<1>2. /\ sender = "idle" /\ sent < Items /\ ~cut /\ sender' = "awaiting"
      /\ sent' = sent + 1 /\ up' = Append(up, sent + 1)
      /\ UNCHANGED <<oks, abandoned, upEnded, handler, inHand, ending, held, handed, refused,
                     dropped, down, undecodable, cut>>
  BY DEF Note!SendItem, Note!receiverVars
<1>3. /\ sent \in Nat /\ held \in Nat /\ abandoned \in Nat /\ Len(down) \in Nat
      /\ up \in Seq(0..Items) /\ sent + 1 \in 1..Items /\ Items \in Nat
  BY <1>2 DEF NoteInv, NoteTypes
<1>4. /\ up' \in Seq(0..Items) /\ Len(up') = Len(up) + 1 /\ Len(up) \in Nat
      /\ \A i \in 1..Len(up) : up'[i] = up[i]
      /\ up'[Len(up) + 1] = sent + 1
  BY <1>2, <1>3, AppendProperties
<1>5. NoteTypes'
  <2>1. handed' \in Seq(1..sent')
    BY <1>2, <1>3 DEF NoteInv, NoteTypes
  <2>2. oks' \subseteq 1..sent' /\ refused' \subseteq 1..sent' /\ dropped' \subseteq 1..sent'
    BY <1>2, <1>3 DEF NoteInv, NoteTypes
  <2> QED BY <1>2, <1>3, <1>4, <2>1, <2>2 DEF NoteInv, NoteTypes
<1>6. TakenInv(k)'
  BY <1>1, <1>2 DEF TakenInv, InHandSet
<1>7. Len(up) = sent - k
  BY <1>1, <1>2 DEF UpInv
<1>8. UpInv(k)'
  <2>1. ASSUME NEW i \in 1..(sent' - k) PROVE up'[i] = k + i
    <3>1. i \in 1..Len(up) \/ i = Len(up) + 1
      BY <1>2, <1>3, <1>7
    <3>2. i \in 1..Len(up) => up[i] = k + i
      BY <1>1, <1>7 DEF UpInv
    <3> QED BY <1>2, <1>3, <1>4, <1>7, <3>1, <3>2
  <2> QED BY <1>1, <1>2, <1>3, <1>4, <1>7, <2>1 DEF UpInv
<1>9. AcksInv(k)'
  BY <1>1, <1>2, <1>3 DEF AcksInv, Awaiting, Acking
<1>10. ASSUME abandoned = 0 PROVE down = << >>
  <2>1. Len(down) = 0
    BY <1>1, <1>2, <1>3, <1>10 DEF AcksInv, Awaiting, Acking
  <2> QED BY <2>1 DEF NoteInv, NoteTypes
<1>11. OksInv'
  BY <1>2, <1>10 DEF NoteInv, OksInv
<1> QED BY <1>1, <1>2, <1>3, <1>5, <1>6, <1>8, <1>9, <1>11 DEF NoteInv

LEMMA AckArrivesKeeps ==
  ASSUME NoteInv, Note!AckArrives PROVE NoteInv'
<1>1. PICK k \in 0..sent : TakenInv(k) /\ UpInv(k) /\ AcksInv(k)
  BY DEF NoteInv
<1>2. /\ sender = "awaiting" /\ down # << >> /\ sender' = "idle"
      /\ oks' = IF Head(down) = "ack" THEN oks \cup {sent} ELSE oks
      /\ down' = Tail(down)
      /\ UNCHANGED <<sent, abandoned, up, upEnded, handler, inHand, ending, held, handed,
                     refused, dropped, undecodable, cut>>
  BY DEF Note!AckArrives, Note!receiverVars
<1>3. /\ sent \in Nat /\ held \in Nat /\ abandoned \in Nat
      /\ down' \in Seq({"ack", "error"}) /\ Len(down') = Len(down) - 1 /\ Len(down) \in Nat
  BY <1>2, HeadTailProperties DEF NoteInv, NoteTypes
<1>4. AcksInv(k)'
  BY <1>1, <1>2, <1>3 DEF AcksInv, Awaiting, Acking
<1>5. sent \in 1..sent
  BY <1>1, <1>2, <1>3 DEF AcksInv, Awaiting
<1>6. NoteTypes'
  <2>1. oks' \subseteq 1..sent
    BY <1>2, <1>5 DEF NoteInv, NoteTypes
  <2> QED BY <1>2, <1>3, <2>1 DEF NoteInv, NoteTypes
<1>7. OksInv'
  BY <1>2 DEF NoteInv, OksInv
<1>8. TakenInv(k)' /\ UpInv(k)'
  BY <1>1, <1>2 DEF TakenInv, InHandSet, UpInv
<1> QED BY <1>1, <1>2, <1>4, <1>6, <1>7, <1>8 DEF NoteInv

LEMMA NoAckArrivesKeeps ==
  ASSUME NoteInv, Note!NoAckArrives PROVE NoteInv'
<1>1. PICK k \in 0..sent : TakenInv(k) /\ UpInv(k) /\ AcksInv(k)
  BY DEF NoteInv
<1>2. /\ sender = "awaiting" /\ sender' = "idle"
      /\ (handler = "over" /\ down = << >>) \/ cut
      /\ UNCHANGED <<sent, oks, abandoned, up, upEnded, handler, inHand, ending, held, handed,
                     refused, dropped, down, undecodable, cut>>
  BY DEF Note!NoAckArrives, Note!receiverVars
<1>3. sent \in Nat /\ held \in Nat /\ abandoned \in Nat /\ Len(down) \in Nat
  BY DEF NoteInv, NoteTypes
<1>4. AcksInv(k)'
  <2>1. held + Acking <= k /\ abandoned <= sent /\ (handler = "over" => held = 0)
    BY <1>1, <1>2, <1>3 DEF AcksInv, Awaiting
  <2>2. CASE handler = "over" /\ down = << >>
    BY <1>2, <1>3, <2>1, <2>2 DEF AcksInv, Awaiting, Acking
  <2>3. CASE cut
    BY <1>2, <1>3, <2>1, <2>3 DEF AcksInv, Awaiting, Acking
  <2> QED BY <1>2, <2>2, <2>3
<1>5. NoteTypes' /\ OksInv'
  BY <1>2 DEF NoteInv, NoteTypes, OksInv
<1>6. TakenInv(k)' /\ UpInv(k)'
  BY <1>1, <1>2 DEF TakenInv, InHandSet, UpInv
<1> QED BY <1>1, <1>2, <1>4, <1>5, <1>6 DEF NoteInv

LEMMA AbandonSendKeeps ==
  ASSUME NoteInv, Note!AbandonSend PROVE NoteInv'
<1>1. PICK k \in 0..sent : TakenInv(k) /\ UpInv(k) /\ AcksInv(k)
  BY DEF NoteInv
<1>2. /\ sender = "awaiting" /\ sender' = "idle" /\ abandoned' = abandoned + 1
      /\ UNCHANGED <<sent, oks, up, upEnded, handler, inHand, ending, held, handed,
                     refused, dropped, down, undecodable, cut>>
  BY DEF Note!AbandonSend, Note!receiverVars
<1>3. sent \in Nat /\ held \in Nat /\ abandoned \in Nat /\ Len(down) \in Nat
  BY DEF NoteInv, NoteTypes
<1>4. AcksInv(k)'
  BY <1>1, <1>2, <1>3 DEF AcksInv, Awaiting, Acking
<1>5. NoteTypes' /\ OksInv'
  BY <1>2, <1>3 DEF NoteInv, NoteTypes, OksInv
<1>6. TakenInv(k)' /\ UpInv(k)'
  BY <1>1, <1>2 DEF TakenInv, InHandSet, UpInv
<1> QED BY <1>1, <1>2, <1>4, <1>5, <1>6 DEF NoteInv

LEMMA EndOfSenderKeeps ==
  ASSUME NoteInv, Note!Complete \/ Note!DropSender PROVE NoteInv'
<1>1. PICK k \in 0..sent : TakenInv(k) /\ UpInv(k) /\ AcksInv(k)
  BY DEF NoteInv
<1>2. /\ sender = "idle" /\ sender' = "gone" /\ upEnded'
      /\ up' = up \/ up' = Append(up, 0)
      /\ UNCHANGED <<sent, oks, abandoned, handler, inHand, ending, held, handed,
                     refused, dropped, down, undecodable, cut>>
  BY DEF Note!Complete, Note!DropSender, Note!receiverVars, Note!Completed
<1>3. /\ sent \in Nat /\ held \in Nat /\ abandoned \in Nat /\ Len(down) \in Nat
      /\ up \in Seq(0..Items) /\ 0 \in 0..Items
  BY DEF NoteInv, NoteTypes
<1>4. /\ Append(up, 0) \in Seq(0..Items) /\ Len(Append(up, 0)) = Len(up) + 1
      /\ Len(up) \in Nat
      /\ \A i \in 1..Len(up) : Append(up, 0)[i] = up[i]
      /\ Append(up, 0)[Len(up) + 1] = 0
  BY <1>3, AppendProperties
<1>5. Len(up) = sent - k /\ ending \notin {"completed", "closed"}
  BY <1>1, <1>2 DEF UpInv
<1>6. UpInv(k)'
  <2>1. CASE up' = up
    BY <1>1, <1>2, <1>3, <1>4, <1>5, <2>1 DEF UpInv
  <2>2. CASE up' = Append(up, 0)
    BY <1>1, <1>2, <1>3, <1>4, <1>5, <2>2 DEF UpInv
  <2> QED BY <1>2, <2>1, <2>2
<1>7. AcksInv(k)'
  BY <1>1, <1>2, <1>3 DEF AcksInv, Awaiting, Acking
<1>8. NoteTypes'
  BY <1>2, <1>3, <1>4 DEF NoteInv, NoteTypes
<1>9. OksInv' /\ TakenInv(k)'
  BY <1>1, <1>2 DEF NoteInv, OksInv, TakenInv, InHandSet
<1> QED BY <1>1, <1>2, <1>6, <1>7, <1>8, <1>9 DEF NoteInv

(* The receiver's steps. *)

LEMMA CallNextKeeps ==
  ASSUME NoteInv, Note!CallNext PROVE NoteInv'
<1>1. PICK k \in 0..sent : TakenInv(k) /\ UpInv(k) /\ AcksInv(k)
  BY DEF NoteInv
<1>2. /\ handler = "working" /\ ending = "none" /\ handler' = "reading"
      /\ UNCHANGED <<sender, sent, oks, abandoned, up, upEnded, inHand, ending, held, handed,
                     refused, dropped, down, undecodable, cut>>
  BY DEF Note!CallNext, Note!receiverUnchanged, Note!senderVars
<1>3. NoteTypes' /\ OksInv'
  BY <1>2 DEF NoteInv, NoteTypes, OksInv
<1>4. TakenInv(k)' /\ UpInv(k)' /\ AcksInv(k)'
  BY <1>1, <1>2 DEF TakenInv, InHandSet, UpInv, AcksInv, Awaiting, Acking
<1> QED BY <1>1, <1>2, <1>3, <1>4 DEF NoteInv

LEMMA HandlerReturnsKeeps ==
  ASSUME NoteInv, Note!HandlerReturns PROVE NoteInv'
<1>1. PICK k \in 0..sent : TakenInv(k) /\ UpInv(k) /\ AcksInv(k)
  BY DEF NoteInv
<1>2. /\ handler = "working" /\ handler' = "over" /\ held' = 0
      /\ UNCHANGED <<sender, sent, oks, abandoned, up, upEnded, inHand, ending, handed,
                     refused, dropped, down, undecodable, cut>>
  BY DEF Note!HandlerReturns, Note!receiverUnchanged, Note!senderVars
<1>3. sent \in Nat /\ held \in Nat /\ abandoned \in Nat /\ Len(down) \in Nat
  BY DEF NoteInv, NoteTypes
<1>4. NoteTypes' /\ OksInv'
  BY <1>2 DEF NoteInv, NoteTypes, OksInv
<1>5. TakenInv(k)' /\ UpInv(k)'
  BY <1>1, <1>2 DEF TakenInv, InHandSet, UpInv
<1>6. AcksInv(k)'
  BY <1>1, <1>2, <1>3 DEF AcksInv, Awaiting, Acking
<1> QED BY <1>1, <1>2, <1>4, <1>5, <1>6 DEF NoteInv

LEMMA ReadEndKeeps ==
  ASSUME NoteInv, Note!ReadEnd PROVE NoteInv'
<1>1. PICK k \in 0..sent : TakenInv(k) /\ UpInv(k) /\ AcksInv(k)
  BY DEF NoteInv
<1>2. /\ handler = "reading" /\ handler' = "working"
      /\ (up = << >> /\ upEnded /\ ending' = "closed") \/ ending' = "error"
      /\ UNCHANGED <<sender, sent, oks, abandoned, up, upEnded, inHand, held, handed,
                     refused, dropped, down, undecodable, cut>>
  BY DEF Note!ReadEnd, Note!receiverUnchanged, Note!senderVars
<1>3. sent \in Nat
  BY DEF NoteInv, NoteTypes
<1>4. NoteTypes' /\ OksInv'
  BY <1>2 DEF NoteInv, NoteTypes, OksInv
<1>5. TakenInv(k)' /\ AcksInv(k)'
  BY <1>1, <1>2 DEF TakenInv, InHandSet, AcksInv, Awaiting, Acking
<1>6. UpInv(k)'
  <2>1. up = << >> => k = sent
    BY <1>1, <1>3 DEF UpInv
  <2> QED BY <1>1, <1>2, <2>1 DEF UpInv
<1> QED BY <1>1, <1>2, <1>4, <1>5, <1>6 DEF NoteInv

LEMMA ReadKeeps ==
  ASSUME NoteInv, Note!Read PROVE NoteInv'
<1>1. PICK k \in 0..sent : TakenInv(k) /\ UpInv(k) /\ AcksInv(k)
  BY DEF NoteInv
<1> DEFINE item == Head(up)
<1>2. /\ handler = "reading" /\ up # << >> /\ up' = Tail(up)
      /\ UNCHANGED <<sender, sent, oks, abandoned, upEnded, held, handed, dropped, down,
                     undecodable, cut>>
  BY DEF Note!Read, Note!receiverUnchanged, Note!senderVars
<1>3. /\ sent \in 0..Items /\ held \in Nat /\ abandoned \in Nat /\ Len(down) \in Nat
      /\ up \in Seq(0..Items) /\ inHand = 0
  BY <1>2 DEF NoteInv, NoteTypes
<1>4. /\ up' \in Seq(0..Items) /\ Len(up') = Len(up) - 1 /\ Len(up) \in Nat /\ Len(up) >= 1
      /\ \A i \in 1..(Len(up) - 1) : up'[i] = up[i + 1]
      /\ item = up[1]
  BY <1>2, <1>3, HeadTailProperties
<1>5. ending \notin {"completed", "closed"}
  BY <1>1, <1>2 DEF UpInv
<1>6. CASE item = 0
  <2>1. /\ handler' = "working" /\ ending' = "completed" /\ UNCHANGED <<inHand, refused>>
    BY <1>6 DEF Note!Read, Note!Completed
  <2>2. k = sent
    <3>1. ASSUME k # sent PROVE FALSE
      <4>1. 1 \in 1..(sent - k)
        BY <1>3, <3>1
      <4>2. up[1] = k + 1
        BY <1>1, <4>1 DEF UpInv
      <4> QED BY <1>4, <1>6, <4>2
    <3> QED BY <3>1
  <2>3. Len(up) = 1 /\ upEnded /\ sender = "gone"
    BY <1>1, <1>3, <1>4, <2>2 DEF UpInv
  <2>4. up' = << >>
    BY <1>4, <2>3, EmptySeq
  <2>5. NoteTypes'
    BY <1>2, <1>4, <2>1 DEF NoteInv, NoteTypes
  <2>6. OksInv' /\ TakenInv(k)' /\ AcksInv(k)'
    BY <1>1, <1>2, <2>1 DEF NoteInv, OksInv, TakenInv, InHandSet, AcksInv, Awaiting, Acking
  <2>7. UpInv(k)'
    <3>1. sent - k = 0 /\ sent' - k = 0 /\ Len(up') = 0
      BY <1>2, <1>3, <1>4, <2>2, <2>3
    <3> QED BY <1>1, <1>2, <2>1, <2>2, <2>3, <2>4, <3>1 DEF UpInv
  <2> QED BY <1>1, <1>2, <2>5, <2>6, <2>7 DEF NoteInv
<1>7. CASE item # 0
  <2>1. k + 1 \in 1..sent /\ item = k + 1
    <3>1. ASSUME k = sent PROVE FALSE
      <4>1. Len(up) = 1 /\ up[Len(up)] = 0
        BY <1>1, <1>3, <1>4, <3>1 DEF UpInv
      <4> QED BY <1>4, <1>7, <4>1
    <3>2. 1 \in 1..(sent - k)
      BY <1>3, <3>1
    <3>3. up[1] = k + 1
      BY <1>1, <3>2 DEF UpInv
    <3> QED BY <1>3, <1>4, <3>2, <3>3
  <2>2. UNCHANGED ending
    BY <1>7 DEF Note!Read, Note!Completed
  <2>3. UpInv(k + 1)'
    <3>1. ASSUME NEW i \in 1..(sent - (k + 1)) PROVE up'[i] = (k + 1) + i
      <4>1. i + 1 \in 1..(sent - k) /\ i \in 1..(Len(up) - 1)
        BY <1>1, <1>3, <1>4 DEF UpInv
      <4>2. up'[i] = k + (i + 1)
        BY <1>1, <1>4, <4>1 DEF UpInv
      <4> QED BY <4>2
    <3>2. Len(up') \in {sent - (k + 1), sent - (k + 1) + 1}
      BY <1>1, <1>3, <1>4 DEF UpInv
    <3>3. ASSUME Len(up') = sent - (k + 1) + 1 PROVE up'[Len(up')] = 0 /\ upEnded
      <4> sent \in Nat /\ k \in Nat /\ k + 1 <= sent
        BY <1>3, <2>1
      <4>1. Len(up) = sent - k + 1 /\ Len(up') >= 1
        BY <1>4, <3>3
      <4>2. up[Len(up)] = 0 /\ upEnded
        BY <1>1, <4>1 DEF UpInv
      <4>3. Len(up') \in 1..(Len(up) - 1) /\ Len(up') + 1 = Len(up)
        BY <1>4, <4>1
      <4> QED BY <1>4, <4>2, <4>3
    <3> QED BY <1>1, <1>2, <1>5, <2>2, <3>1, <3>2, <3>3 DEF UpInv
  <2>4. 1..(k + 1) = (1..k) \cup {k + 1}
    BY <1>3
  <2>5. CASE handler' = "working" /\ refused' = refused \cup {item} /\ UNCHANGED inHand
    <3>1. refused' \subseteq 1..sent
      BY <2>1, <2>5 DEF NoteInv, NoteTypes
    <3>2. NoteTypes'
      BY <1>2, <1>4, <2>2, <2>5, <3>1 DEF NoteInv, NoteTypes
    <3>3. OksInv'
      BY <1>2 DEF NoteInv, OksInv
    <3>4. item \notin ElementsOf(handed)
      BY <1>1, <1>2, <2>1 DEF TakenInv
    <3>5. TakenInv(k + 1)'
      BY <1>1, <1>2, <2>1, <2>4, <2>5, <3>4 DEF TakenInv, InHandSet
    <3>6. AcksInv(k + 1)'
      BY <1>1, <1>2, <1>3, <2>1, <2>5 DEF AcksInv, Awaiting, Acking
    <3> QED BY <1>2, <2>1, <2>3, <3>2, <3>3, <3>5, <3>6 DEF NoteInv
  <2>6. CASE handler' = "acking" /\ inHand' = item /\ UNCHANGED refused
    <3>1. NoteTypes'
      BY <1>2, <1>3, <1>4, <2>1, <2>2, <2>6 DEF NoteInv, NoteTypes
    <3>2. OksInv'
      BY <1>2 DEF NoteInv, OksInv
    <3>3. item \notin ElementsOf(handed) \cup refused \cup dropped
      BY <1>1, <1>2, <2>1 DEF TakenInv
    <3>4. TakenInv(k + 1)'
      BY <1>1, <1>2, <2>1, <2>4, <2>6, <3>3 DEF TakenInv, InHandSet
    <3>5. AcksInv(k + 1)'
      BY <1>1, <1>2, <1>3, <2>1, <2>6 DEF AcksInv, Awaiting, Acking
    <3> QED BY <1>2, <2>1, <2>3, <3>1, <3>2, <3>4, <3>5 DEF NoteInv
  <2> QED BY <1>7, <2>5, <2>6 DEF Note!Read, Note!Completed
<1> QED BY <1>6, <1>7

\* The item in hand goes where the answer says.
LEMMA AckKeeps ==
  ASSUME NoteInv, Note!Ack PROVE NoteInv'
<1>1. PICK k \in 0..sent : TakenInv(k) /\ UpInv(k) /\ AcksInv(k)
  BY DEF NoteInv
<1>2. /\ handler = "acking" /\ handler' = "working" /\ inHand' = 0
      /\ down' = Note!Flushed("ack") /\ held' = 0 /\ handed' = Append(handed, inHand)
      /\ UNCHANGED <<sender, sent, oks, abandoned, up, upEnded, ending, refused, dropped,
                     undecodable, cut>>
  BY DEF Note!Ack, Note!receiverUnchanged, Note!senderVars, Note!NoItem
<1>3. /\ sent \in Nat /\ held \in Nat /\ abandoned \in Nat
      /\ down \in Seq({"ack", "error"}) /\ Len(down) \in Nat
      /\ handed \in Seq(1..sent) /\ inHand \in 1..sent
  BY <1>1, <1>2 DEF NoteInv, NoteTypes, TakenInv
<1>4. /\ down' \in Seq({"ack", "error"}) /\ Len(down') = Len(down) + held + 1
      /\ down = << >> /\ held = 0 => Head(down') = "ack"
  BY <1>2, FlushedAcks DEF NoteInv
<1>5. /\ handed' \in Seq(1..sent) /\ ElementsOf(handed') = ElementsOf(handed) \cup {inHand}
      /\ Len(handed') = Len(handed) + 1 /\ Len(handed) \in Nat
      /\ \A i \in 1..Len(handed) : handed'[i] = handed[i]
      /\ handed'[Len(handed) + 1] = inHand
  BY <1>2, <1>3, HandOver, AppendProperties
<1>6. NoteTypes'
  BY <1>2, <1>4, <1>5 DEF NoteInv, NoteTypes
<1>7. inHand = k /\ inHand \notin ElementsOf(handed) \cup refused \cup dropped
  BY <1>1, <1>2 DEF TakenInv
<1>8. TakenInv(k)'
  <2>1. ASSUME NEW i \in 1..Len(handed), NEW j \in 1..Len(handed'), i < j
        PROVE  handed'[i] < handed'[j]
    <3>1. CASE j \in 1..Len(handed)
      BY <1>1, <1>5, <2>1, <3>1 DEF TakenInv
    <3>2. CASE j = Len(handed) + 1
      <4>1. handed[i] \in ElementsOf(handed)
        BY DEF ElementsOf
      <4>2. handed[i] \in 1..k /\ handed[i] # k
        BY <1>1, <1>7, <4>1 DEF TakenInv
      <4> QED BY <1>5, <1>7, <3>2, <4>2
    <3> QED BY <1>5, <3>1, <3>2
  <2>2. \A i, j \in 1..Len(handed') : i < j => handed'[i] < handed'[j]
    BY <1>5, <2>1
  <2> QED BY <1>1, <1>2, <1>5, <1>7, <2>2 DEF TakenInv, InHandSet
<1>9. UpInv(k)'
  BY <1>1, <1>2 DEF UpInv
<1>10. AcksInv(k)'
  BY <1>1, <1>2, <1>3, <1>4 DEF AcksInv, Awaiting, Acking
<1>11. OksInv'
  <2>1. ASSUME abandoned = 0, sender = "awaiting" PROVE sent = inHand
    BY <1>1, <1>2, <1>3, <1>7, <2>1 DEF AcksInv, Awaiting, Acking
  <2> QED BY <1>2, <1>5, <2>1 DEF NoteInv, OksInv
<1> QED BY <1>1, <1>2, <1>6, <1>8, <1>9, <1>10, <1>11 DEF NoteInv

LEMMA RejectKeeps ==
  ASSUME NoteInv, Note!Reject PROVE NoteInv'
<1>1. PICK k \in 0..sent : TakenInv(k) /\ UpInv(k) /\ AcksInv(k)
  BY DEF NoteInv
<1>2. /\ handler = "acking" /\ handler' = "working" /\ inHand' = 0
      /\ down' = Note!Flushed("error") /\ held' = 0 /\ refused' = refused \cup {inHand}
      /\ UNCHANGED <<sender, sent, oks, abandoned, up, upEnded, ending, handed, dropped,
                     undecodable, cut>>
  BY DEF Note!Reject, Note!receiverUnchanged, Note!senderVars, Note!NoItem
<1>3. /\ sent \in Nat /\ held \in Nat /\ abandoned \in Nat
      /\ down \in Seq({"ack", "error"}) /\ Len(down) \in Nat
      /\ inHand \in 1..sent
  BY <1>1, <1>2 DEF NoteInv, NoteTypes, TakenInv
<1>4. /\ down' \in Seq({"ack", "error"}) /\ Len(down') = Len(down) + held + 1
      /\ down = << >> /\ held = 0 => Head(down') = "error"
  BY <1>2, FlushedAcks DEF NoteInv
<1>5. NoteTypes'
  <2>1. refused' \subseteq 1..sent
    BY <1>2, <1>3 DEF NoteInv, NoteTypes
  <2> QED BY <1>2, <1>4, <2>1 DEF NoteInv, NoteTypes
<1>6. TakenInv(k)'
  BY <1>1, <1>2 DEF TakenInv, InHandSet
<1>7. UpInv(k)'
  BY <1>1, <1>2 DEF UpInv
<1>8. AcksInv(k)'
  BY <1>1, <1>2, <1>3, <1>4 DEF AcksInv, Awaiting, Acking
<1>9. OksInv'
  <2>1. ASSUME abandoned = 0, sender = "awaiting" PROVE down = << >> /\ held = 0
    <3>1. Len(down) = 0 /\ held = 0
      BY <1>1, <1>2, <1>3, <2>1 DEF AcksInv, Awaiting, Acking
    <3> QED BY <1>3, <3>1, EmptySeq
  <2> QED BY <1>2, <1>4, <2>1 DEF NoteInv, OksInv
<1> QED BY <1>1, <1>2, <1>5, <1>6, <1>7, <1>8, <1>9 DEF NoteInv

\* The item is neither returned nor refused: its acknowledgement failed, or
\* waits in the sink, from where some of those before it have gone out.
LEMMA DropItemKeeps ==
  ASSUME NoteInv, Note!AckFails \/ Note!AbandonNext PROVE NoteInv'
<1>1. PICK k \in 0..sent : TakenInv(k) /\ UpInv(k) /\ AcksInv(k)
  BY DEF NoteInv
<1>2. /\ handler = "acking" /\ handler' = "working" /\ inHand' = 0
      /\ dropped' = dropped \cup {inHand}
      /\ UNCHANGED <<sender, sent, oks, abandoned, up, upEnded, ending, handed, refused,
                     undecodable, cut>>
  BY DEF Note!AckFails, Note!AbandonNext, Note!receiverUnchanged, Note!senderVars, Note!NoItem
<1>3. /\ sent \in Nat /\ held \in Nat /\ abandoned \in Nat /\ Len(down) \in Nat
      /\ inHand \in 1..sent
  BY <1>1, <1>2 DEF NoteInv, NoteTypes, TakenInv
<1>4. /\ down' \in Seq({"ack", "error"}) /\ held' \in Nat /\ held' <= held + 1
      /\ Len(down') + held' <= Len(down) + held + 1
      /\ held = 0 => down' = down
  BY <1>3, DropItemAcks DEF NoteInv
<1>5. NoteTypes'
  <2>1. dropped' \subseteq 1..sent
    BY <1>2, <1>3 DEF NoteInv, NoteTypes
  <2> QED BY <1>2, <1>4, <2>1 DEF NoteInv, NoteTypes
<1>6. TakenInv(k)' /\ UpInv(k)'
  BY <1>1, <1>2 DEF TakenInv, InHandSet, UpInv
<1>7. /\ (cut /\ sender # "awaiting") \/ Len(down) + held + 1 + (sent - k) <= abandoned + Awaiting
      /\ held + 1 <= k /\ abandoned + Awaiting <= sent
  BY <1>1, <1>2, <1>3 DEF AcksInv, Acking, Awaiting
<1>8. AcksInv(k)'
  <2>1. /\ Awaiting' = Awaiting /\ Acking' = 0 /\ Awaiting \in Nat
        /\ sent' = sent /\ abandoned' = abandoned /\ sender' = sender /\ cut' = cut
        /\ handler' # "over"
    BY <1>2 DEF Awaiting, Acking
  <2>2. Len(down') \in Nat
    BY <1>4
  <2>3. (cut' /\ sender' # "awaiting") \/ Len(down') + held' + (0 + (sent' - k)) <= abandoned' + Awaiting'
    <3>1. CASE cut /\ sender # "awaiting"
      BY <2>1, <3>1
    <3>2. CASE Len(down) + held + 1 + (sent - k) <= abandoned + Awaiting
      BY <1>3, <1>4, <2>1, <2>2, <3>2
    <3> QED BY <1>7, <3>1, <3>2
  <2>4. held' + Acking' <= k
    <3>1. ASSUME NEW a \in Nat, NEW b \in Nat, NEW c \in Nat, a <= b + 1, b + 1 <= c
          PROVE  a + 0 <= c
      BY <3>1
    <3>2. k \in Nat
      BY <1>3
    <3>3. held' + 0 <= k
      BY <1>3, <1>4, <1>7, <3>1, <3>2, Zenon
    <3> QED BY <2>1, <3>3
  <2>5. abandoned' + Awaiting' <= sent'
    BY <1>7, <2>1
  <2> QED BY <2>1, <2>3, <2>4, <2>5 DEF AcksInv
<1>9. OksInv'
  <2>1. ASSUME abandoned = 0, sender = "awaiting" PROVE held = 0
    BY <1>3, <1>7, <2>1 DEF Awaiting
  <2> QED BY <1>2, <1>4, <2>1 DEF NoteInv, OksInv
<1> QED BY <1>1, <1>2, <1>5, <1>6, <1>8, <1>9 DEF NoteInv

LEMMA StepNote == NoteInv /\ Note!Next => NoteInv'
  BY SendItemKeeps, AbandonSendKeeps, EndOfSenderKeeps, AckArrivesKeeps, NoAckArrivesKeeps,
     CallNextKeeps, ReadKeeps, ReadEndKeeps, AckKeeps, DropItemKeeps, HandlerReturnsKeeps,
     RejectKeeps
  DEF Note!Next, Note!SenderStep, Note!HandlerStep, Note!ReceiverStep

\* The connection is only ever closed.
LEMMA CutStays ==
  ASSUME Next
  PROVE  cut' = cut \/ cut'
<1>1. ASSUME Subs!Next PROVE cut' = cut
  BY <1>1 DEF Subs!Next, Subs!Poll, Subs!SinkSend, Subs!SinkSendFails, Subs!WriteOut,
     Subs!CloseSink, Subs!DropSink, Subs!PollMessage, Subs!PollEnd, Subs!Unsubscribe,
     Subs!pollUnchanged
<1>2. ASSUME Note!Next PROVE cut' = cut
  BY <1>2 DEF Note!Next, Note!SenderStep, Note!HandlerStep, Note!ReceiverStep, Note!SendItem,
     Note!AbandonSend, Note!Complete, Note!DropSender, Note!AckArrives, Note!NoAckArrives,
     Note!CallNext, Note!Read, Note!ReadEnd, Note!Ack, Note!AckFails, Note!HandlerReturns,
     Note!Reject, Note!AbandonNext, Note!receiverUnchanged
<1>3. ASSUME Bundle!Next PROVE cut' = cut \/ cut'
  BY <1>3 DEF Bundle!Next, Bundle!BundleStep, Bundle!Begin, Bundle!RpcShutdown,
     Bundle!NotifyNext, Bundle!JoinReplies, Bundle!RepliesIn, Bundle!TimeoutElapses,
     Bundle!RouterShutdown, Bundle!DropListener, Bundle!Reply, Bundle!bundleUnchanged
<1> QED BY <1>1, <1>2, <1>3 DEF Next, LoseConnection

LEMMA NoteKeepsInv == NoteInv /\ [Next]_vars => NoteInv'
<1> SUFFICES ASSUME NoteInv, [Next]_vars PROVE NoteInv'
  OBVIOUS
<1>1. ASSUME UNCHANGED noteVars, cut' = cut \/ cut' PROVE NoteInv'
  <2>1. PICK k \in 0..sent : TakenInv(k) /\ UpInv(k) /\ AcksInv(k)
    BY DEF NoteInv
  <2>2. NoteTypes' /\ OksInv'
    BY <1>1 DEF noteVars, NoteInv, NoteTypes, OksInv
  <2>3. TakenInv(k)' /\ UpInv(k)'
    BY <1>1, <2>1 DEF noteVars, TakenInv, InHandSet, UpInv
  <2>4. AcksInv(k)'
    BY <1>1, <2>1 DEF noteVars, AcksInv, Awaiting, Acking
  <2>5. sent' = sent
    BY <1>1 DEF noteVars
  <2> QED BY <2>2, <2>3, <2>4, <2>5 DEF NoteInv
<1>2. CASE UNCHANGED vars
  BY <1>1, <1>2 DEF vars
<1>3. CASE Next
  BY <1>1, <1>3, CutStays, StepNote DEF Next, LoseConnection
<1> QED BY <1>2, <1>3

LEMMA NoteHolds == Spec => []NoteInv
<1>1. Init => NoteInv
  BY InitNote DEF Init
<1> QED BY <1>1, NoteKeepsInv, SpecIsSafe, PTL DEF SafeSpec

LEMMA RangeIsElements == ASSUME NoteTypes PROVE Note!Range(handed) = ElementsOf(handed)
<1>1. DOMAIN handed = 1..Len(handed)
  BY DEF NoteTypes
<1> QED BY <1>1 DEF Note!Range, ElementsOf

\* While no send() is abandoned, an item whose send() returned Ok was taken by
\* next() for the callback.
THEOREM OksAreForTakenItems == Spec => []Note!OkMeansHanded
<1>1. NoteInv => Note!OkMeansHanded
  BY RangeIsElements DEF NoteInv, OksInv, Note!OkMeansHanded
<1> QED BY <1>1, NoteHolds, PTL

\* While both ends of the stream are there and every item decodes, nothing is
\* lost: each send() that waits, and each that was abandoned, has its answer on
\* the way, held back, about to be written, or its item still to be read.
DueInv ==
  sender \notin {"none", "gone"} /\ ~cut /\ handler # "over" /\ undecodable = {} =>
    Len(down) + held + Acking + Len(up) = abandoned + Awaiting

LEMMA InitDue == ASSUME NEW present \in BOOLEAN, Note!Init(present) PROVE DueInv
  BY DEF Note!Init, DueInv, Acking, Awaiting

LEMMA StepDue == NoteInv /\ DueInv /\ Note!Next => DueInv'
<1> SUFFICES ASSUME NoteInv, DueInv, Note!Next,
                    sender' \notin {"none", "gone"}, ~cut', handler' # "over", undecodable' = {}
             PROVE  Len(down') + held' + Acking' + Len(up') = abandoned' + Awaiting'
  BY DEF DueInv
<1> USE DEF Acking, Awaiting
<1>1. /\ down \in Seq({"ack", "error"}) /\ Len(down) \in Nat
      /\ up \in Seq(0..Items) /\ Len(up) \in Nat
      /\ sent \in 0..Items /\ held \in Nat /\ abandoned \in Nat
  BY DEF NoteInv, NoteTypes
<1>2. CASE Note!SendItem
  <2>1. Len(up') = Len(up) + 1
    BY <1>1, <1>2, AppendProperties DEF Note!SendItem
  <2>2. /\ sender = "idle" /\ sender' = "awaiting" /\ ~cut
        /\ UNCHANGED <<abandoned, handler, held, down, undecodable>>
    BY <1>2 DEF Note!SendItem, Note!receiverVars
  <2>3. Len(down) + held + Acking + Len(up) = abandoned
    BY <1>1, <2>2 DEF DueInv
  <2> QED BY <1>1, <2>1, <2>2, <2>3
<1>3. CASE Note!AckArrives
  <2>1. Len(down') = Len(down) - 1
    BY <1>1, <1>3, HeadTailProperties DEF Note!AckArrives
  <2> QED BY <1>1, <1>3, <2>1 DEF DueInv, Note!AckArrives, Note!receiverVars
<1>4. CASE Note!NoAckArrives
  BY <1>4 DEF Note!NoAckArrives, Note!receiverVars
<1>5. CASE Note!AbandonSend
  BY <1>1, <1>5 DEF DueInv, Note!AbandonSend, Note!receiverVars
<1>6. CASE Note!Complete \/ Note!DropSender
  BY <1>6 DEF Note!Complete, Note!DropSender
<1>7. CASE Note!CallNext
  BY <1>7 DEF DueInv, Note!CallNext, Note!receiverUnchanged, Note!senderVars
<1>8. CASE Note!Read
  <2>1. /\ handler = "reading" /\ up # << >> /\ up' = Tail(up)
        /\ UNCHANGED <<sender, sent, abandoned, held, down, undecodable, cut>>
    BY <1>8 DEF Note!Read, Note!receiverUnchanged, Note!senderVars
  <2>2. Len(up') = Len(up) - 1 /\ Len(up) >= 1
    BY <1>1, <2>1, HeadTailProperties
  <2>3. Head(up) # 0
    <3>1. PICK k \in 0..sent : UpInv(k)
      BY DEF NoteInv
    <3>2. Len(up) = sent - k
      BY <1>1, <2>1, <3>1 DEF UpInv
    <3>3. k \in Nat /\ sent \in Nat /\ 1 \in 1..(sent - k)
      BY <1>1, <2>2, <3>2
    <3>4. up[1] = k + 1
      BY <3>1, <3>3 DEF UpInv
    <3>5. Head(up) = up[1]
      BY <2>1
    <3> QED BY <3>3, <3>4, <3>5
  <2>4. handler' = "acking"
    BY <1>8, <2>1, <2>3 DEF Note!Read, Note!Completed
  <2>5. Len(down) + held + Acking + Len(up) = abandoned + Awaiting
    BY <2>1, <2>4 DEF DueInv
  <2>6. Acking = 0 /\ Acking' = 1 /\ Awaiting' = Awaiting /\ Awaiting \in 0..1
    BY <2>1, <2>4
  <2>7. down' = down /\ held' = held /\ abandoned' = abandoned
    BY <2>1
  <2> HIDE DEF Acking, Awaiting
  <2> QED BY <1>1, <2>2, <2>5, <2>6, <2>7
<1>9. CASE Note!ReadEnd
  BY <1>9 DEF DueInv, Note!ReadEnd, Note!receiverUnchanged, Note!senderVars
<1>10. CASE Note!Ack \/ Note!Reject
  <2>1. \E message \in {"ack", "error"} : down' = Note!Flushed(message)
    BY <1>10 DEF Note!Ack, Note!Reject
  <2>2. Len(down') = Len(down) + held + 1
    BY <2>1, FlushedAcks DEF NoteInv
  <2>3. /\ handler = "acking" /\ handler' = "working" /\ held' = 0
        /\ UNCHANGED <<sender, abandoned, up, undecodable, cut>>
    BY <1>10 DEF Note!Ack, Note!Reject, Note!receiverUnchanged, Note!senderVars
  <2>4. Len(down) + held + 1 + Len(up) = abandoned + Awaiting
    BY <1>1, <2>3 DEF DueInv
  <2> QED BY <1>1, <2>2, <2>3, <2>4
<1>11. CASE Note!AckFails
  BY <1>11 DEF Note!AckFails, Note!receiverUnchanged, Note!senderVars
<1>12. CASE Note!HandlerReturns
  BY <1>12 DEF Note!HandlerReturns
<1>13. CASE Note!AbandonNext
  <2>1. Len(down') + held' = Len(down) + held + 1
    BY <1>1, <1>13, DropItemAcks DEF NoteInv
  <2>2. /\ handler = "acking" /\ handler' = "working"
        /\ UNCHANGED <<sender, abandoned, up, undecodable, cut>>
    BY <1>13 DEF Note!AbandonNext, Note!receiverUnchanged, Note!senderVars
  <2>3. Len(down) + held + 1 + Len(up) = abandoned + Awaiting
    BY <1>1, <2>2 DEF DueInv
  <2>4. Len(down') \in Nat /\ held' \in Nat
    BY <1>1, <1>13, DropItemAcks DEF NoteInv
  <2> QED BY <1>1, <2>1, <2>2, <2>3, <2>4
<1> QED BY <1>2, <1>3, <1>4, <1>5, <1>6, <1>7, <1>8, <1>9, <1>10, <1>11, <1>12, <1>13
        DEF Note!Next, Note!SenderStep, Note!HandlerStep, Note!ReceiverStep

LEMMA DueKeepsInv == NoteInv /\ DueInv /\ [Next]_vars => DueInv'
<1> SUFFICES ASSUME NoteInv, DueInv, [Next]_vars PROVE DueInv'
  OBVIOUS
<1>1. ASSUME UNCHANGED noteVars, cut' = cut \/ cut' PROVE DueInv'
  BY <1>1 DEF DueInv, noteVars, Acking, Awaiting
<1>2. CASE UNCHANGED vars
  BY <1>1, <1>2 DEF vars
<1>3. CASE Next
  BY <1>1, <1>3, CutStays, StepDue DEF Next, LoseConnection
<1> QED BY <1>2, <1>3

(***************************************************************************)
(* A send() that waits on an open stream whose items all decode waits for  *)
(* something: an answer is on the way, or held in the sink, or about to be *)
(* written, or an item is there for next() to read.  The two ends never    *)
(* wait for each other, and what keeps a send() waiting is the callback or *)
(* the acknowledgement that an abandoned next() left in the buffer: this   *)
(* is what SendReturns needs of the states.                                *)
(***************************************************************************)
AnswerIsDue ==
  sender = "awaiting" /\ ~cut /\ handler # "over" /\ undecodable = {} =>
    down # << >> \/ held > 0 \/ handler = "acking" \/ up # << >>

\* No send() waits on an open stream with nothing left to answer it.
THEOREM NobodyWaitsForNothing == Spec => []AnswerIsDue
<1>1. Init => DueInv
  BY InitDue DEF Init
<1>2. ASSUME NoteInv, DueInv PROVE AnswerIsDue
  <2>1. /\ Len(down) \in Nat /\ Len(up) \in Nat /\ held \in Nat /\ abandoned \in Nat
        /\ (Len(down) > 0 => down # << >>) /\ (Len(up) > 0 => up # << >>)
    BY <1>2 DEF NoteInv, NoteTypes
  <2> QED BY <1>2, <2>1 DEF DueInv, AnswerIsDue, Acking, Awaiting
<1> QED BY <1>1, <1>2, NoteHolds, DueKeepsInv, SpecIsSafe, PTL DEF SafeSpec

\* On an open connection there is an acknowledgement more than the one that is
\* waited for only for every send() that was abandoned.
THEOREM AcksNeverOutrunSends == Spec => []AcksAreCounted
<1>1. ASSUME NoteInv, ~cut
      PROVE  Len(down) + held <= abandoned + (IF sender = "awaiting" THEN 1 ELSE 0)
  <2>1. PICK k \in 0..sent : AcksInv(k)
    BY <1>1 DEF NoteInv
  <2>2. sent \in Nat /\ held \in Nat /\ abandoned \in Nat /\ Len(down) \in Nat
    BY <1>1 DEF NoteInv, NoteTypes
  <2> QED BY <1>1, <2>1, <2>2 DEF AcksInv, Acking, Awaiting
<1>2. NoteInv => AcksAreCounted
  BY <1>1 DEF AcksAreCounted, Note!AcksAreCounted
<1> QED BY <1>2, NoteHolds, PTL

\* A callback whose next() ended with None has seen every item that was sent,
\* in order.
THEOREM NoneIsTheEnd == Spec => []NoneMeansAllRead
<1>1. ASSUME NoteInv, ending \in {"completed", "closed"}
      PROVE  /\ Note!Range(handed) \cup refused \cup dropped = 1..sent
             /\ \A i, j \in DOMAIN handed : i < j => handed[i] < handed[j]
  <2>1. PICK k \in 0..sent : TakenInv(k) /\ UpInv(k) /\ AcksInv(k)
    BY <1>1 DEF NoteInv
  <2>2. k = sent
    BY <1>1, <2>1 DEF UpInv
  <2>3. handler # "acking"
    BY <1>1, <2>1 DEF UpInv
  <2>4. DOMAIN handed = 1..Len(handed)
    BY <1>1 DEF NoteInv, NoteTypes
  <2> QED BY <1>1, <2>1, <2>2, <2>3, <2>4, RangeIsElements DEF NoteInv, TakenInv, InHandSet
<1>2. NoteInv => NoneMeansAllRead
  BY <1>1 DEF NoneMeansAllRead, Note!NoneMeansAllRead
<1> QED BY <1>2, NoteHolds, PTL
-----------------------------------------------------------------------------
(* Types *)

FlagTypes ==
  /\ upEnded \in BOOLEAN /\ cut \in BOOLEAN
  /\ withHandle \in BOOLEAN /\ timedOut \in BOOLEAN

LEMMA NoteFlags ==
  ASSUME Note!Next, FlagTypes PROVE upEnded' \in BOOLEAN
<1>1. upEnded' = upEnded \/ upEnded' = TRUE
  BY DEF Note!Next, Note!SenderStep, Note!HandlerStep, Note!ReceiverStep, Note!SendItem,
     Note!AbandonSend, Note!Complete, Note!DropSender, Note!AckArrives, Note!NoAckArrives,
     Note!CallNext, Note!Read, Note!ReadEnd, Note!Ack, Note!AckFails, Note!HandlerReturns,
     Note!Reject, Note!AbandonNext, Note!receiverUnchanged
<1> QED BY <1>1 DEF FlagTypes

LEMMA BundleFlags ==
  ASSUME Bundle!Next, FlagTypes PROVE withHandle' \in BOOLEAN /\ timedOut' \in BOOLEAN
<1>1. /\ withHandle' = withHandle
      /\ timedOut' = timedOut \/ timedOut' = TRUE
  BY DEF Bundle!Next, Bundle!BundleStep, Bundle!Begin, Bundle!RpcShutdown,
     Bundle!NotifyNext, Bundle!JoinReplies, Bundle!RepliesIn, Bundle!TimeoutElapses,
     Bundle!RouterShutdown, Bundle!DropListener, Bundle!Reply, Bundle!bundleUnchanged
<1> QED BY <1>1 DEF FlagTypes

LEMMA FlagsHold == Spec => []FlagTypes
<1>1. Init => FlagTypes
  <2> SUFFICES ASSUME Init PROVE FlagTypes
    OBVIOUS
  <2>1. upEnded = FALSE /\ cut = FALSE /\ timedOut = FALSE /\ withHandle \in BOOLEAN
    BY DEF Init, Note!Init, Bundle!Init
  <2> QED BY <2>1 DEF FlagTypes
<1>2. FlagTypes /\ [Next]_vars => FlagTypes'
  <2> SUFFICES ASSUME FlagTypes, [Next]_vars PROVE FlagTypes'
    OBVIOUS
  <2>1. CASE UNCHANGED vars
    BY <2>1 DEF FlagTypes, vars, noteVars, bundleVars
  <2>2. CASE Next
    <3>1. cut' \in BOOLEAN
      BY <2>2, CutStays DEF FlagTypes
    <3>2. upEnded' \in BOOLEAN
      BY <2>2, NoteFlags DEF Next, LoseConnection, noteVars, FlagTypes
    <3>3. withHandle' \in BOOLEAN /\ timedOut' \in BOOLEAN
      BY <2>2, BundleFlags DEF Next, LoseConnection, bundleVars, FlagTypes
    <3> QED BY <3>1, <3>2, <3>3 DEF FlagTypes
  <2> QED BY <2>1, <2>2
<1> QED BY <1>1, <1>2, SpecIsSafe, PTL DEF SafeSpec

LEMMA NoteTyped == ASSUME NoteInv, FlagTypes PROVE Note!TypeOK
<1>1. PICK k \in 0..sent : TakenInv(k) /\ UpInv(k) /\ AcksInv(k)
  BY DEF NoteInv
<1>2. sent \in 0..Items /\ held \in Nat /\ abandoned \in Nat
  BY DEF NoteInv, NoteTypes
<1>3. held \in 0..Items /\ abandoned \in 0..Items
  <2>1. held + Acking <= k /\ abandoned + Awaiting <= sent
    BY <1>1 DEF AcksInv
  <2>2. Acking \in {0, 1} /\ Awaiting \in {0, 1}
    BY DEF Acking, Awaiting
  <2>3. held <= k /\ abandoned <= sent
    BY <1>2, <2>1, <2>2
  <2> QED BY <1>2, <2>3
<1>4. Note!IsInjective(handed)
  <2>1. DOMAIN handed = 1..Len(handed) /\ \A i \in 1..Len(handed) : handed[i] \in Nat
    BY <1>2 DEF NoteInv, NoteTypes
  <2>2. ASSUME NEW i \in 1..Len(handed), NEW j \in 1..Len(handed), handed[i] = handed[j]
        PROVE  i = j
    <3>1. ~(i < j) /\ ~(j < i)
      BY <1>1, <2>1, <2>2 DEF TakenInv
    <3> QED BY <3>1
  <2> QED BY <2>1, <2>2 DEF Note!IsInjective
<1>5. Note!Range(handed) \cap (refused \cup dropped) = {}
  BY <1>1, RangeIsElements DEF NoteInv, TakenInv
<1>6. upEnded \in BOOLEAN
  BY DEF FlagTypes
<1>7. cut \in BOOLEAN
  BY DEF FlagTypes
<1>8. /\ sender \in {"none", "idle", "awaiting", "gone"}
      /\ up \in Seq(0..Items)
      /\ handler \in {"none", "working", "reading", "acking", "over"}
      /\ inHand \in 0..Items /\ (inHand # 0 <=> handler = "acking")
      /\ ending \in {"none", "completed", "closed", "error"}
      /\ down \in Seq({"ack", "error"})
      /\ undecodable \subseteq 1..Items
      /\ oks \subseteq 1..sent /\ refused \subseteq 1..sent /\ dropped \subseteq 1..sent
      /\ handed \in Seq(1..sent)
  BY DEF NoteInv, NoteTypes
<1> QED BY <1>2, <1>3, <1>4, <1>5, <1>6, <1>7, <1>8 DEF Note!TypeOK, Note!NoItem

LEMMA SubsTyped == ASSUME SubsInv, FlagTypes PROVE Subs!TypeOK
<1>1. cut \in BOOLEAN
  BY DEF FlagTypes
<1>2. SubsTypes
  BY DEF SubsInv
<1> QED BY <1>1, <1>2 DEF SubsTypes, Subs!TypeOK, Subs!Torn

LEMMA BundleTyped == ASSUME BundleInv, FlagTypes PROVE Bundle!TypeOK
<1>1. withHandle \in BOOLEAN
  BY DEF FlagTypes
<1>2. timedOut \in BOOLEAN
  BY DEF FlagTypes
<1>3. cut \in BOOLEAN
  BY DEF FlagTypes
<1>4. /\ phase \in {"running", "rpc", "notifying", "waiting", "router", "ok", "err"}
      /\ notified \in 0..Listeners
      /\ listener \in [1..Listeners -> {"listening", "deaf", "cleanup", "replied", "told nothing"}]
      /\ reply \in [1..Listeners -> {"none", "awaited", "over"}]
      /\ rpc \in {"none", "ok", "timeout"}
  BY DEF BundleInv, PhaseInv, ListenerStates, ReplyStates
<1> QED BY <1>1, <1>2, <1>3, <1>4 DEF Bundle!TypeOK, Bundle!Subscribers

\* Every variable keeps its type; no item is handed to the callback twice, nor
\* both handed over and refused or dropped.
THEOREM SessionTyping == Spec => []TypeOK
<1>1. NoteInv /\ SubsInv /\ BundleInv /\ FlagTypes => TypeOK
  BY NoteTyped, SubsTyped, BundleTyped DEF TypeOK
<1>2. Init => SubsInv /\ BundleInv
  BY InitSubs, InitBundle DEF Init
<1> QED BY <1>1, <1>2, NoteHolds, FlagsHold, SubsKeepsInv, BundleKeepsInv, SpecIsSafe, PTL
        DEF SafeSpec
=============================================================================
