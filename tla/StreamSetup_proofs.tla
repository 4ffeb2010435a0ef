------------------------- MODULE StreamSetup_proofs -------------------------
(***************************************************************************)
(* Theorems about StreamSetup, for any requests, any resources with any    *)
(* callbacks, and whatever the requests ask.                               *)
(***************************************************************************)
EXTENDS StreamSetup, FiniteSetTheorems, TLAPS

\* An answer is there exactly when the handler is done, first bytes once it has
\* written them; a client waits for a stream, or has one, only after its answer.
Progress ==
  \A r \in Requests :
    /\ answer[r] # "none" <=> server[r] = "done"
    /\ server[r] \in {"none", "queued", "opened"} => r \notin written
    /\ server[r] = "written" => r \in written
    /\ pc[r] \in {"accept", "established"} => server[r] = "done" /\ TheOp(r) # "call"
    /\ pc[r] = "idle" => server[r] = "none"

LEMMA WantTyped ==
  ASSUME TypeOK, NEW r \in Requests
  PROVE  TheOp(r) \in Op /\ TheKind(r) \in Kind /\ want[r].resource \in Resources
  BY WantsAssumption, KindsAssumption DEF TypeOK, TheOp, TheKind

LEMMA OpensTyped == \A kind : OpensOn(kind) \in Direction
  BY DEF OpensOn, Direction

LEMMA KindsOfOps ==
  ASSUME NEW op \in Op
  PROVE  /\ OpensOn(Serves(op)) = AcceptsFrom(op) \/ op = "call"
         /\ Serves(op) \in Streaming <=> op # "call"
         /\ "missing" \notin Streaming
  BY DEF Op, Serves, OpensOn, AcceptsFrom, Streaming

LEMMA InitProgress == Init => TypeOK /\ Progress
<1> SUFFICES ASSUME Init PROVE TypeOK /\ Progress
  OBVIOUS
<1>1. opened \in [Direction -> Seq(Requests)] /\ \A d \in Direction : accepted[d] \in 0..Len(opened[d])
  BY DEF Init
<1>3. TypeOK
  BY <1>1 DEF Init, TypeOK, ClientState, ServerState, Answer
<1>2. Progress
  BY DEF Init, Progress
<1> QED BY <1>2, <1>3

\* What the client's steps change, and what they leave alone.
LEMMA ClientKeepsProgress ==
  ASSUME TypeOK, Progress, NEW r \in Requests,
         \/ Call(r) \/ Subscribe(r) \/ Notify(r) \/ OpenStream(r)
         \/ Cancel(r) \/ ClientStep(r)
  PROVE  TypeOK' /\ Progress'
<1> USE DEF TypeOK, Progress, TheOp, Goto, clientUnchanged, serverVars, clientVars
<1>1. ASSUME NEW op, Begin(r, op) PROVE TypeOK' /\ Progress'
  <2>1. CASE lost
    BY <1>1, <2>1 DEF Begin, ClientState
  <2>2. CASE ~lost
    <3>1. /\ pc[r] = "idle" /\ pc' = [pc EXCEPT ![r] = "response"]
          /\ server' = [server EXCEPT ![r] = "queued"]
          /\ UNCHANGED <<want, got, accepted, answer, opened, written, serving, lost>>
          /\ quiet' \in BOOLEAN
      BY <1>1, <2>2 DEF Begin
    <3>2. TypeOK'
      BY <3>1 DEF ClientState, ServerState
    <3> QED BY <3>1, <3>2
  <2> QED BY <2>1, <2>2
<1>2. CASE Cancel(r) \/ ConnectionFails(r)
  BY <1>2 DEF Cancel, ConnectionFails, Pending, ClientState
<1>3. CASE ReadResponse(r)
  BY <1>3 DEF ReadResponse, ClientState
<1>4. ASSUME NEW d, Accept(r, d) PROVE TypeOK' /\ Progress'
  <2>1. d \in Direction
    BY <1>4 DEF Accept, AcceptsFrom, Direction
  <2>2. accepted[d] + 1 \in 1..Len(opened[d]) /\ accepted[d] \in Nat
    BY <1>4, <2>1 DEF Accept, Available
  <2>3. opened[d][accepted[d] + 1] \in Requests
    BY <2>1, <2>2
  <2>4. accepted' \in [Direction -> Nat] /\ UNCHANGED opened
    BY <1>4, <2>1 DEF Accept
  <2>5. \A e \in Direction : accepted'[e] \in 0..Len(opened'[e])
    BY <1>4, <2>1, <2>2, <2>4 DEF Accept
  <2> QED BY <1>4, <2>3, <2>4, <2>5 DEF Accept, ClientState
<1>5. CASE ReadEstablished(r)
  <2>1. Verdict(r) \in {"ready", "failed"}
    <3>1. TheOp(r) \in {"subscribe", "notify", "open_stream"}
      BY <1>5, WantTyped DEF ReadEstablished, Op
    <3> QED BY <3>1 DEF Verdict, SubscribeVerdict, NotifyVerdict, OpenStreamVerdict
  <2> QED BY <1>5, <2>1 DEF ReadEstablished, ClientState
<1> QED BY <1>1, <1>2, <1>3, <1>4, <1>5 DEF Call, Subscribe, Notify, OpenStream, ClientStep,
        AcceptUni, AcceptBi

LEMMA ServerKeepsProgress ==
  ASSUME TypeOK, Progress, NEW r \in Requests,
         DropRequest(r) \/ HandleRpc(r) \/ HandlerStep(r)
  PROVE  TypeOK' /\ Progress'
<1> USE DEF TypeOK, Progress, TheOp, ServerGoto, serverUnchanged, clientVars, Written,
        SendError, ServerState, Answer
<1>1. CASE DropRequest(r) \/ HandleRpc(r) \/ RouteFails(r)
  <2>1. CASE DropRequest(r)
    BY <2>1 DEF DropRequest
  <2>2. CASE HandleRpc(r)
    BY <2>2 DEF HandleRpc
  <2>3. CASE RouteFails(r)
    BY <2>3 DEF RouteFails
  <2> QED BY <1>1, <2>1, <2>2, <2>3
<1>2. ASSUME NEW kind, OpenServerStream(r, kind) PROVE TypeOK' /\ Progress'
  <2>1. CASE ServerGoto(r, "queued", "done") /\ SendError(r) /\ UNCHANGED opened
    BY <1>2, <2>1 DEF OpenServerStream
  <2>2. CASE opened' = [opened EXCEPT ![OpensOn(kind)] = Append(@, r)]
    <3>1. opened' \in [Direction -> Seq(Requests)]
      BY <2>2, OpensTyped
    <3>2. \A d \in Direction : Len(opened'[d]) \in {Len(opened[d]), Len(opened[d]) + 1}
      BY <2>2, OpensTyped
    <3>3. UNCHANGED accepted
      BY <1>2 DEF OpenServerStream
    <3>4. \A d \in Direction : accepted'[d] \in 0..Len(opened'[d])
      <4>1. ASSUME NEW d \in Direction PROVE accepted'[d] \in 0..Len(opened'[d])
        <5>1. Len(opened[d]) \in Nat /\ accepted[d] \in 0..Len(opened[d])
          OBVIOUS
        <5>2. Len(opened'[d]) \in {Len(opened[d]), Len(opened[d]) + 1}
          BY <3>2
        <5> HIDE DEF TypeOK, Progress
        <5> QED BY <3>3, <5>1, <5>2
      <4> QED BY <4>1
    <3> QED BY <1>2, <3>1, <3>4 DEF OpenServerStream
  <2> QED BY <1>2, <2>1, <2>2 DEF OpenServerStream
<1>3. ASSUME NEW kind, WriteFirst(r, kind) PROVE TypeOK' /\ Progress'
  <2>1. CASE ServerGoto(r, "opened", "done") /\ SendError(r) /\ UNCHANGED written
    BY <1>3, <2>1 DEF WriteFirst
  <2>2. CASE /\ ServerGoto(r, "opened", "written")
             /\ written' = written \cup {r} /\ UNCHANGED answer
    BY <1>3, <2>2 DEF WriteFirst
  <2> QED BY <1>3, <2>1, <2>2 DEF WriteFirst
<1>4. ASSUME NEW kind, RespondAndSpawn(r, kind) PROVE TypeOK' /\ Progress'
  BY <1>4 DEF RespondAndSpawn
<1> QED BY <1>1, <1>2, <1>3, <1>4 DEF HandlerStep, HandleSubscription, HandleNotification,
        HandleStreamHandler, SendSubscriptionAck, SendNotificationAck, WriteStreamAck,
        SpawnSubscriptionTask, SpawnNotificationTask, SpawnStreamHandlerTask

LEMMA StepProgress == TypeOK /\ Progress /\ [Next]_vars => TypeOK' /\ Progress'
<1> SUFFICES ASSUME TypeOK, Progress, [Next]_vars PROVE TypeOK' /\ Progress'
  OBVIOUS
<1>1. CASE UNCHANGED vars
  BY <1>1 DEF vars, clientVars, serverVars, TypeOK, Progress, TheOp
<1>2. CASE LoseConnection
  BY <1>2 DEF LoseConnection, clientVars, serverVars, TypeOK, Progress, TheOp
<1> QED BY <1>1, <1>2, ClientKeepsProgress, ServerKeepsProgress DEF Next

\* All variables keep their types; only streams with first bytes are served.
THEOREM SetupTyping == Spec => []TypeOK
  BY InitProgress, StepProgress, PTL DEF Spec
-----------------------------------------------------------------------------
(* Whose streams they are *)

\* Each queue holds streams of the kinds that are opened on it, and so does the
\* hand of a client; what it was handed in the end has passed its check.
KindsKept ==
  /\ \A d \in Direction : \A i \in 1..Len(opened[d]) :
       TheKind(opened[d][i]) \in Streaming /\ OpensOn(TheKind(opened[d][i])) = d
  /\ \A r \in Requests :
       pc[r] \in {"established", "ready"} /\ TheOp(r) # "call" =>
         /\ got[r] \in Requests
         /\ TheKind(got[r]) \in Streaming
         /\ OpensOn(TheKind(got[r])) = AcceptsFrom(TheOp(r))
         /\ pc[r] = "ready" => got[r] \in written /\ Verdict(r) = "ready"

LEMMA InitKinds == Init => KindsKept
  BY DEF Init, KindsKept

\* What is asked does not change, nor what the operators say of it.
LEMMA WantKept == [Next]_vars => UNCHANGED want
  BY DEF Next, vars, LoseConnection, Call, Subscribe, Notify, OpenStream, Begin, Cancel,
     ClientStep, ConnectionFails, ReadResponse, AcceptUni, AcceptBi, Accept, ReadEstablished,
     clientUnchanged, DropRequest, HandleRpc, HandlerStep, RouteFails, HandleSubscription,
     HandleNotification, HandleStreamHandler, OpenServerStream, SendSubscriptionAck,
     SendNotificationAck, WriteStreamAck, WriteFirst, SpawnSubscriptionTask,
     SpawnNotificationTask, SpawnStreamHandlerTask, RespondAndSpawn, serverUnchanged

LEMMA VerdictKept ==
  ASSUME UNCHANGED want, NEW r \in Requests, got'[r] = got[r]
  PROVE  Verdict(r)' = Verdict(r)
  BY DEF Verdict, SubscribeVerdict, NotifyVerdict, OpenStreamVerdict, TheOp, TheKind

LEMMA StepKinds == TypeOK /\ Progress /\ KindsKept /\ [Next]_vars => KindsKept'
<1> SUFFICES ASSUME TypeOK, Progress, KindsKept, [Next]_vars PROVE KindsKept'
  OBVIOUS
<1>0. UNCHANGED want
  BY WantKept
<1> DEFINE Queues == \A d \in Direction : \A i \in 1..Len(opened'[d]) :
                       /\ TheKind(opened'[d][i]) \in Streaming
                       /\ OpensOn(TheKind(opened'[d][i])) = d
           Hand(r) == pc'[r] \in {"established", "ready"} /\ TheOp(r) # "call" =>
                        /\ got'[r] \in Requests
                        /\ TheKind(got'[r]) \in Streaming
                        /\ OpensOn(TheKind(got'[r])) = AcceptsFrom(TheOp(r))
                        /\ pc'[r] = "ready" => got'[r] \in written' /\ Verdict(r)' = "ready"
<1>1. Queues /\ (\A r \in Requests : Hand(r)) => KindsKept'
  BY <1>0 DEF KindsKept, TheKind, TheOp
<1>2. ASSUME UNCHANGED <<opened, pc, got>>, written \subseteq written' PROVE KindsKept'
  BY <1>0, <1>1, <1>2, VerdictKept DEF KindsKept
<1>3. CASE LoseConnection \/ UNCHANGED vars
  BY <1>2, <1>3 DEF LoseConnection, vars, clientVars, serverVars
<1>4. ASSUME NEW r \in Requests,
             \/ Call(r) \/ Subscribe(r) \/ Notify(r) \/ OpenStream(r)
             \/ Cancel(r) \/ ConnectionFails(r) \/ ReadResponse(r)
      PROVE  KindsKept'
  <2>1. /\ UNCHANGED <<opened, got, written>>
        /\ \A s \in Requests : pc'[s] \in {"established", "ready"} =>
             pc[s] = pc'[s] \/ TheOp(s) = "call"
    BY <1>4 DEF Call, Subscribe, Notify, OpenStream, Begin, Cancel, ConnectionFails,
       ReadResponse, Goto, clientUnchanged, clientVars, serverVars, TypeOK
  <2> QED BY <1>0, <1>1, <2>1, VerdictKept DEF KindsKept
<1>5. ASSUME NEW r \in Requests, NEW d, Accept(r, d) PROVE KindsKept'
  <2>1. d \in Direction /\ d = AcceptsFrom(TheOp(r))
    BY <1>5 DEF Accept, AcceptsFrom, Direction
  <2>2. accepted[d] + 1 \in 1..Len(opened[d])
    BY <1>5, <2>1 DEF Accept, Available, TypeOK
  <2>3. /\ UNCHANGED <<opened, written>>
        /\ pc' = [pc EXCEPT ![r] = "established"]
        /\ got' = [got EXCEPT ![r] = opened[d][accepted[d] + 1]]
    BY <1>5 DEF Accept, Goto, serverVars
  <2>4. Hand(r)
    BY <2>1, <2>2, <2>3 DEF KindsKept, TypeOK
  <2>5. \A s \in Requests \ {r} : pc'[s] = pc[s] /\ got'[s] = got[s]
    BY <2>3 DEF TypeOK
  <2> QED BY <1>0, <1>1, <2>3, <2>4, <2>5, VerdictKept DEF KindsKept
<1>6. ASSUME NEW r \in Requests, ReadEstablished(r) PROVE KindsKept'
  <2>1. /\ UNCHANGED <<opened, got, written>> /\ got[r] \in written
        /\ pc[r] = "established" /\ pc' = [pc EXCEPT ![r] = Verdict(r)]
    BY <1>6 DEF ReadEstablished, Readable, Goto, clientUnchanged, serverVars
  <2>2. \A s \in Requests \ {r} : pc'[s] = pc[s]
    BY <2>1 DEF TypeOK
  <2>3. pc'[r] = Verdict(r) /\ Verdict(r)' = Verdict(r)
    BY <1>0, <2>1, VerdictKept DEF TypeOK
  <2> QED BY <1>0, <1>1, <2>1, <2>2, <2>3, VerdictKept DEF KindsKept
<1>7. ASSUME NEW r \in Requests, NEW kind \in Streaming, OpenServerStream(r, kind)
      PROVE  KindsKept'
  <2>1. UNCHANGED <<pc, got, written>> /\ TheKind(r) = kind
    BY <1>7 DEF OpenServerStream, serverUnchanged, clientVars
  <2>2. CASE UNCHANGED opened
    BY <1>2, <2>1, <2>2
  <2>3. CASE opened' = [opened EXCEPT ![OpensOn(kind)] = Append(@, r)]
    <3>1. \A d \in Direction : \A i \in 1..Len(opened'[d]) :
            \/ i \in 1..Len(opened[d]) /\ opened'[d][i] = opened[d][i]
            \/ d = OpensOn(kind) /\ opened'[d][i] = r
      BY <2>3, OpensTyped DEF TypeOK
    <3>2. Queues
      BY <2>1, <3>1 DEF KindsKept
    <3> QED BY <1>0, <1>1, <2>1, <3>2, VerdictKept DEF KindsKept
  <2> QED BY <1>7, <2>2, <2>3 DEF OpenServerStream
<1>8. ASSUME NEW r \in Requests,
             \/ DropRequest(r) \/ HandleRpc(r) \/ RouteFails(r)
             \/ \E kind \in Streaming : WriteFirst(r, kind) \/ RespondAndSpawn(r, kind)
      PROVE  KindsKept'
  BY <1>2, <1>8 DEF DropRequest, HandleRpc, RouteFails, WriteFirst, RespondAndSpawn,
     serverUnchanged, clientVars
<1> QED BY <1>3, <1>4, <1>5, <1>6, <1>7, <1>8
        DEF Next, ClientStep, AcceptUni, AcceptBi, HandlerStep, Streaming,
        HandleSubscription, HandleNotification, HandleStreamHandler, SendSubscriptionAck,
        SendNotificationAck, WriteStreamAck, SpawnSubscriptionTask, SpawnNotificationTask,
        SpawnStreamHandlerTask

\* Whatever else runs on the connection, a client is never handed a stream of
\* another protocol or, where Established is read, of another resource.
THEOREM ProtocolsApart == Spec => []NeverAnotherProtocol
<1>1. TypeOK /\ KindsKept => NeverAnotherProtocol
  <2> SUFFICES ASSUME TypeOK, KindsKept, NEW r \in Requests, pc[r] = "ready", TheOp(r) # "call"
               PROVE  /\ TheKind(got[r]) = Serves(TheOp(r))
                      /\ TheOp(r) # "open_stream" => want[got[r]].resource = want[r].resource
    BY DEF NeverAnotherProtocol
  <2>1. /\ TheKind(got[r]) \in Streaming /\ Verdict(r) = "ready"
        /\ OpensOn(TheKind(got[r])) = AcceptsFrom(TheOp(r))
    BY DEF KindsKept
  <2>2. CASE TheOp(r) = "subscribe"
    BY <2>1, <2>2 DEF Verdict, SubscribeVerdict, OpensOn, AcceptsFrom, Streaming, Serves
  <2>3. CASE TheOp(r) = "notify"
    BY <2>1, <2>3 DEF Verdict, NotifyVerdict, Serves
  <2>4. CASE TheOp(r) = "open_stream"
    BY <2>1, <2>4 DEF Verdict, OpenStreamVerdict, Serves
  <2> QED BY <2>2, <2>3, <2>4, WantTyped DEF Op
<1> QED BY <1>1, InitProgress, StepProgress, InitKinds, StepKinds, PTL DEF Spec
-----------------------------------------------------------------------------
(* Whether they are served *)

\* A stream with first bytes is served, or about to be, unless the answer to the
\* request that had it opened could not be written.
Covered ==
  \A s \in written :
    s \in serving \/ server[s] = "written" \/ lost \/ pc[s] \in {"cancelled", "failed"}

LEMMA StepCovered == TypeOK /\ Progress /\ Covered /\ [Next]_vars => Covered'
<1> SUFFICES ASSUME TypeOK, Progress, Covered, [Next]_vars PROVE Covered'
  OBVIOUS
<1> USE DEF TypeOK, Covered
<1>1. CASE LoseConnection \/ UNCHANGED vars
  BY <1>1 DEF LoseConnection, vars, clientVars, serverVars
<1>2. ASSUME NEW r \in Requests,
             Call(r) \/ Subscribe(r) \/ Notify(r) \/ OpenStream(r) \/ Cancel(r) \/ ClientStep(r)
      PROVE  Covered'
  <2>1. /\ UNCHANGED <<written, serving, lost>>
        /\ \A s \in written : server'[s] = server[s]
        /\ \A s \in Requests : pc[s] \in {"cancelled", "failed"} => pc'[s] = pc[s]
    BY <1>2 DEF Call, Subscribe, Notify, OpenStream, Begin, Cancel, ClientStep,
       ConnectionFails, ReadResponse, AcceptUni, AcceptBi, Accept, ReadEstablished, Goto,
       clientUnchanged, clientVars, serverVars, Pending, Progress
  <2> QED BY <2>1
<1>3. ASSUME NEW r \in Requests, DropRequest(r) \/ HandleRpc(r) \/ RouteFails(r) PROVE Covered'
  BY <1>3 DEF DropRequest, HandleRpc, RouteFails, ServerGoto, serverUnchanged, clientVars
<1>4. ASSUME NEW r \in Requests, NEW kind,
             OpenServerStream(r, kind) \/ WriteFirst(r, kind)
      PROVE  Covered'
  BY <1>4 DEF OpenServerStream, WriteFirst, ServerGoto, serverUnchanged, clientVars
<1>5. ASSUME NEW r \in Requests, NEW kind, RespondAndSpawn(r, kind) PROVE Covered'
  BY <1>5 DEF RespondAndSpawn, Written, ServerGoto, serverUnchanged, clientVars
<1> QED BY <1>1, <1>2, <1>3, <1>4, <1>5
        DEF Next, HandlerStep, HandleSubscription, HandleNotification, HandleStreamHandler,
        SendSubscriptionAck, SendNotificationAck, WriteStreamAck, SpawnSubscriptionTask,
        SpawnNotificationTask, SpawnStreamHandlerTask

\* A client that has been handed a stream is served, whoever had it opened,
\* unless the connection is lost or that other request was given up.
THEOREM StreamsAreServed == Spec => []AcceptedIsServed
<1>1. Init => Covered
  BY DEF Init, Covered
<1>2. KindsKept /\ Covered => AcceptedIsServed
  BY DEF KindsKept, Covered, AcceptedIsServed
<1> QED BY <1>1, <1>2, InitProgress, StepProgress, InitKinds, StepKinds, StepCovered, PTL
        DEF Spec
-----------------------------------------------------------------------------
(* Whether they wait in vain *)

\* What the server did for a request: the stream it opened is in the queue of
\* its kind, once, and whoever is told Ok has first bytes there.
QueueOf(r) == OpensOn(TheKind(r))
ToldOk(r) == answer[r] = "ok" /\ TheKind(r) # "rpc"

QueueInv ==
  /\ \A d \in Direction : \A i \in 1..Len(opened[d]) :
       /\ server[opened[d][i]] \notin {"none", "queued"}
       /\ \A j \in 1..Len(opened[d]) : opened[d][i] = opened[d][j] => i = j
  /\ \A r \in Requests :
       /\ server[r] \in {"opened", "written"} \/ ToldOk(r) =>
            \E i \in 1..Len(opened[QueueOf(r)]) : opened[QueueOf(r)][i] = r
       /\ ToldOk(r) => r \in written

\* What the clients took of it: each stream once, as many as were told Ok and
\* are past it, and none whose first bytes were given up before it was taken.
Taken(d) == {opened[d][i] : i \in 1..accepted[d]}
Takers(d) == {r \in Requests : got[r] # NoStream /\ AcceptsFrom(TheOp(r)) = d}

InTurn(r) ==
  /\ Pending(r) => server[r] # "none"
  /\ pc[r] \in {"idle", "response", "accept"} => got[r] = NoStream
  /\ pc[r] = "established" => got[r] # NoStream
  /\ pc[r] = "accept" \/ got[r] # NoStream => answer[r] = "ok" /\ TheOp(r) # "call"
  /\ got[r] # NoStream => got[r] \in Taken(AcceptsFrom(TheOp(r)))
  /\ pc[r] = "established" => got[r] \in written \/ server[got[r]] = "opened" \/ lost

TakeInv ==
  /\ \A r \in Requests : InTurn(r)
  /\ \A r, s \in Requests : got[r] = got[s] /\ got[r] # NoStream => r = s
  /\ \A d \in Direction : \A i \in 1..Len(opened[d]) :
       LET s == opened[d][i] IN
       server[s] = "opened" \/ s \in written \/ lost \/ \E r \in Requests : got[r] = s
  /\ \A d \in Direction : IsFiniteSet(Takers(d)) /\ Cardinality(Takers(d)) = accepted[d]

LEMMA InitQueues == Init => QueueInv /\ TakeInv
<1> SUFFICES ASSUME Init PROVE QueueInv /\ TakeInv
  OBVIOUS
<1>1. QueueInv
  BY DEF Init, QueueInv, ToldOk
<1>2. \A d \in Direction : Takers(d) = {}
  BY DEF Init, Takers
<1>3. \A d \in Direction : IsFiniteSet(Takers(d)) /\ Cardinality(Takers(d)) = accepted[d]
  BY <1>2, FS_EmptySet DEF Init
<1> QED BY <1>1, <1>3 DEF Init, TakeInv, InTurn, Pending

LEMMA ClientKeepsQueues ==
  ASSUME TypeOK, Progress, QueueInv, NEW r \in Requests,
         \/ Call(r) \/ Subscribe(r) \/ Notify(r) \/ OpenStream(r)
         \/ Cancel(r) \/ ClientStep(r)
  PROVE  QueueInv'
<1>1. /\ UNCHANGED <<want, answer, opened, written>>
      /\ \/ server' = server
         \/ server' = [server EXCEPT ![r] = "queued"] /\ server[r] = "none"
  BY DEF Call, Subscribe, Notify, OpenStream, Begin, Cancel, ClientStep, ConnectionFails,
     ReadResponse, AcceptUni, AcceptBi, Accept, ReadEstablished, Goto, clientUnchanged,
     serverVars, Progress
<1>2. \A s \in Requests : ToldOk(s)' = ToldOk(s) /\ QueueOf(s)' = QueueOf(s)
  BY <1>1 DEF ToldOk, QueueOf, TheKind
<1>3. \A d \in Direction : \A i \in 1..Len(opened[d]) :
        opened[d][i] \in Requests /\ server'[opened[d][i]] = server[opened[d][i]]
  BY <1>1 DEF QueueInv, TypeOK
<1>4. \A s \in Requests : server'[s] \in {"opened", "written"} => server'[s] = server[s]
  BY <1>1 DEF TypeOK
<1> QED BY <1>1, <1>2, <1>3, <1>4 DEF QueueInv

LEMMA ServerKeepsQueues ==
  ASSUME TypeOK, Progress, QueueInv, NEW r \in Requests,
         DropRequest(r) \/ HandleRpc(r) \/ HandlerStep(r)
  PROVE  QueueInv'
<1> USE DEF ServerGoto, serverUnchanged, clientVars
<1>1. ASSUME UNCHANGED <<want, opened>>, written \subseteq written',
             server' = [server EXCEPT ![r] = server'[r]], server'[r] \notin {"none", "queued"},
             \A s \in Requests \ {r} : answer'[s] = answer[s],
             server'[r] \in {"opened", "written"} => server[r] \in {"opened", "written"},
             ToldOk(r)' => server[r] \in {"opened", "written"} /\ r \in written'
      PROVE  QueueInv'
  <2>1. \A s \in Requests : QueueOf(s)' = QueueOf(s) /\ (s # r => ToldOk(s)' = ToldOk(s))
    BY <1>1 DEF ToldOk, QueueOf, TheKind
  <2>2. \A s \in Requests \ {r} : server'[s] = server[s]
    BY <1>1 DEF TypeOK
  <2>3. \A d \in Direction : \A i \in 1..Len(opened[d]) : opened[d][i] \in Requests
    BY DEF TypeOK
  <2>4. \A d \in Direction : \A i \in 1..Len(opened'[d]) :
          /\ server'[opened'[d][i]] \notin {"none", "queued"}
          /\ \A j \in 1..Len(opened'[d]) : opened'[d][i] = opened'[d][j] => i = j
    BY <1>1, <2>2, <2>3 DEF QueueInv
  <2>5. \A s \in Requests :
          /\ server'[s] \in {"opened", "written"} \/ ToldOk(s)' =>
               server[s] \in {"opened", "written"} \/ ToldOk(s)
          /\ ToldOk(s)' => s \in written'
    BY <1>1, <2>1, <2>2 DEF QueueInv
  <2>6. \A s \in Requests :
          server'[s] \in {"opened", "written"} \/ ToldOk(s)' =>
            \E i \in 1..Len(opened'[QueueOf(s)']) : opened'[QueueOf(s)'][i] = s
    BY <1>1, <2>1, <2>5 DEF QueueInv
  <2> QED BY <2>4, <2>5, <2>6 DEF QueueInv
<1>2. CASE DropRequest(r) \/ HandleRpc(r) \/ RouteFails(r)
  <2>1. UNCHANGED <<want, opened, written>> /\ server' = [server EXCEPT ![r] = "done"]
    BY <1>2 DEF DropRequest, HandleRpc, RouteFails
  <2>2. /\ \A s \in Requests \ {r} : answer'[s] = answer[s]
        /\ answer'[r] # "ok" \/ TheKind(r) = "rpc"
    BY <1>2 DEF DropRequest, HandleRpc, RouteFails, SendError, Written, TypeOK
  <2> QED BY <1>1, <2>1, <2>2 DEF TypeOK, ToldOk, TheKind
<1>3. ASSUME NEW kind \in Streaming, OpenServerStream(r, kind) PROVE QueueInv'
  <2>1. UNCHANGED <<want, written>> /\ server[r] = "queued" /\ TheKind(r) = kind
    BY <1>3 DEF OpenServerStream
  <2>2. CASE UNCHANGED opened /\ server' = [server EXCEPT ![r] = "done"] /\ SendError(r)
    <3>1. /\ \A s \in Requests \ {r} : answer'[s] = answer[s]
          /\ answer'[r] # "ok"
      BY <2>2 DEF SendError, Written, TypeOK
    <3> QED BY <1>1, <2>1, <2>2, <3>1 DEF TypeOK, ToldOk
  <2>3. CASE /\ UNCHANGED answer /\ server' = [server EXCEPT ![r] = "opened"]
             /\ opened' = [opened EXCEPT ![OpensOn(kind)] = Append(@, r)]
    <3>0. DEFINE e == OpensOn(kind)
    <3>1. e \in Direction /\ opened[e] \in Seq(Requests) /\ opened'[e] = Append(opened[e], r)
      BY <2>3, OpensTyped DEF TypeOK
    <3>2. \A d \in Direction \ {e} : opened'[d] = opened[d]
      BY <2>3 DEF TypeOK
    <3>3. /\ Len(opened'[e]) = Len(opened[e]) + 1 /\ Len(opened[e]) \in Nat
          /\ \A i \in 1..Len(opened[e]) : opened'[e][i] = opened[e][i]
          /\ opened'[e][Len(opened[e]) + 1] = r
      BY <3>1
    <3>4. \A s \in Requests : QueueOf(s)' = QueueOf(s) /\ ToldOk(s)' = ToldOk(s)
      BY <2>1, <2>3 DEF ToldOk, QueueOf, TheKind
    <3>5. server'[r] = "opened" /\ \A s \in Requests \ {r} : server'[s] = server[s]
      BY <2>3 DEF TypeOK
    <3>6. \A d \in Direction : \A i \in 1..Len(opened[d]) :
            opened[d][i] \in Requests \ {r}
      BY <2>1 DEF TypeOK, QueueInv
    <3> HIDE DEF e
    <3>7. ASSUME NEW d \in Direction, NEW i \in 1..Len(opened'[d])
          PROVE  /\ server'[opened'[d][i]] \notin {"none", "queued"}
                 /\ \A j \in 1..Len(opened'[d]) : opened'[d][i] = opened'[d][j] => i = j
      <4>1. CASE d # e
        BY <3>2, <3>5, <3>6, <3>7, <4>1 DEF QueueInv
      <4>2. CASE d = e
        <5>1. \A j \in 1..Len(opened'[e]) : j \in 1..Len(opened[e]) \/ j = Len(opened[e]) + 1
          BY <3>3
        <5>2. \A j \in 1..Len(opened[e]) :
                /\ opened'[e][j] \in Requests \ {r}
                /\ server'[opened'[e][j]] \notin {"none", "queued"}
          <6>1. ASSUME NEW j \in 1..Len(opened[e])
                PROVE  /\ opened'[e][j] \in Requests \ {r}
                       /\ server'[opened'[e][j]] \notin {"none", "queued"}
            <7>1. opened'[e][j] = opened[e][j] /\ opened[e][j] \in Requests \ {r}
              BY <3>1, <3>3, <3>6
            <7>2. server[opened[e][j]] \notin {"none", "queued"}
              BY <3>1 DEF QueueInv
            <7> QED BY <3>5, <7>1, <7>2
          <6> QED BY <6>1
        <5>3. \A j, k \in 1..Len(opened[e]) : opened'[e][j] = opened'[e][k] => j = k
          BY <3>1, <3>3 DEF QueueInv
        <5>4. server'[opened'[e][i]] \notin {"none", "queued"}
          BY <3>3, <3>5, <3>7, <4>2, <5>1, <5>2
        <5>5. ASSUME NEW j \in 1..Len(opened'[e]), opened'[e][i] = opened'[e][j] PROVE i = j
          <6>1. i \in 1..Len(opened'[e])
            BY <3>7, <4>2
          <6>2. \A k \in 1..Len(opened[e]) : opened'[e][k] # r
            BY <5>2
          <6>3. i \in 1..Len(opened[e]) \/ (opened'[e][i] = r /\ i = Len(opened[e]) + 1)
            BY <3>3, <5>1, <6>1
          <6>4. j \in 1..Len(opened[e]) \/ (opened'[e][j] = r /\ j = Len(opened[e]) + 1)
            BY <3>3, <5>1
          <6> QED BY <5>3, <5>5, <6>2, <6>3, <6>4
        <5> QED BY <4>2, <5>4, <5>5
      <4> QED BY <4>1, <4>2
    <3>8. ASSUME NEW s \in Requests, server'[s] \in {"opened", "written"} \/ ToldOk(s)'
          PROVE  \E i \in 1..Len(opened'[QueueOf(s)]) : opened'[QueueOf(s)][i] = s
      <4>1. CASE s = r
        <5>1. QueueOf(s) = e /\ Len(opened[e]) + 1 \in 1..Len(opened'[e])
          BY <2>1, <3>3, <4>1 DEF QueueOf, e
        <5> QED BY <3>3, <4>1, <5>1
      <4>2. CASE s # r
        <5>1. PICK i \in 1..Len(opened[QueueOf(s)]) : opened[QueueOf(s)][i] = s
          BY <3>4, <3>5, <3>8, <4>2 DEF QueueInv
        <5>2. i \in 1..Len(opened'[QueueOf(s)]) /\ opened'[QueueOf(s)][i] = s
          <6>1. CASE QueueOf(s) = e
            BY <3>3, <5>1, <6>1
          <6>2. CASE QueueOf(s) # e
            BY <3>2, <5>1, <6>2, OpensTyped DEF QueueOf
          <6> QED BY <6>1, <6>2
        <5> QED BY <5>2
      <4> QED BY <4>1, <4>2
    <3> QED BY <2>1, <3>4, <3>7, <3>8 DEF QueueInv
  <2> QED BY <1>3, <2>2, <2>3 DEF OpenServerStream
<1>4. ASSUME NEW kind \in Streaming, WriteFirst(r, kind) PROVE QueueInv'
  <2>1. /\ UNCHANGED <<want, opened>> /\ server[r] = "opened" /\ written \subseteq written'
        /\ \A s \in Requests \ {r} : answer'[s] = answer[s]
        /\ \/ server' = [server EXCEPT ![r] = "done"]
           \/ server' = [server EXCEPT ![r] = "written"]
    BY <1>4 DEF WriteFirst, SendError, TypeOK
  <2>2. answer[r] = "none" /\ answer'[r] # "ok"
    BY <1>4, <2>1 DEF WriteFirst, SendError, Written, TypeOK, Progress
  <2> QED BY <1>1, <2>1, <2>2 DEF TypeOK, ToldOk
<1>5. ASSUME NEW kind \in Streaming, RespondAndSpawn(r, kind) PROVE QueueInv'
  <2>1. /\ UNCHANGED <<want, opened, written>> /\ server[r] = "written" /\ r \in written
        /\ \A s \in Requests \ {r} : answer'[s] = answer[s]
        /\ server' = [server EXCEPT ![r] = "done"]
    BY <1>5 DEF RespondAndSpawn, TypeOK, Progress
  <2> QED BY <1>1, <2>1 DEF TypeOK
<1> QED BY <1>2, <1>3, <1>4, <1>5 DEF HandlerStep, HandleSubscription, HandleNotification,
        HandleStreamHandler, SendSubscriptionAck, SendNotificationAck, WriteStreamAck,
        SpawnSubscriptionTask, SpawnNotificationTask, SpawnStreamHandlerTask, Streaming

LEMMA StepQueues == TypeOK /\ Progress /\ QueueInv /\ [Next]_vars => QueueInv'
<1> SUFFICES ASSUME TypeOK, Progress, QueueInv, [Next]_vars PROVE QueueInv'
  OBVIOUS
<1>1. CASE UNCHANGED vars \/ LoseConnection
  BY <1>1 DEF LoseConnection, vars, clientVars, serverVars, QueueInv, ToldOk, QueueOf, TheKind
<1> QED BY <1>1, ClientKeepsQueues, ServerKeepsQueues DEF Next

\* What depends only on what was asked and on what was taken.
LEMMA SameTakers ==
  ASSUME UNCHANGED <<want, got>>
  PROVE  /\ \A d \in Direction : Takers(d)' = Takers(d)
         /\ \A r \in Requests : TheOp(r)' = TheOp(r)
  BY DEF Takers, TheOp

\* The stream at the head of a queue is nobody's yet.
LEMMA HeadIsFree ==
  ASSUME TypeOK, KindsKept, QueueInv, TakeInv, NEW d \in Direction,
         accepted[d] + 1 \in 1..Len(opened[d]), NEW r \in Requests
  PROVE  got[r] # opened[d][accepted[d] + 1]
<1> DEFINE s == opened[d][accepted[d] + 1]
<1> SUFFICES ASSUME got[r] = s PROVE FALSE
  OBVIOUS
<1>1. accepted[d] \in Nat /\ s \in Requests /\ s # NoStream
  BY NoStreamAssumption DEF TypeOK
<1>2. got[r] \in Taken(AcceptsFrom(TheOp(r)))
  BY <1>1 DEF TakeInv, InTurn
<1>3. AcceptsFrom(TheOp(r)) \in Direction
  BY DEF AcceptsFrom, Direction
<1>4. PICK e \in Direction : e = AcceptsFrom(TheOp(r))
  BY <1>3
<1>5. PICK i \in 1..accepted[e] : got[r] = opened[e][i]
  BY <1>2, <1>4 DEF Taken
<1>6. i \in 1..Len(opened[e])
  BY <1>5 DEF TypeOK
<1>7. e = OpensOn(TheKind(s)) /\ d = OpensOn(TheKind(s))
  BY <1>5, <1>6 DEF KindsKept
<1>8. i \in 1..Len(opened[d]) /\ opened[d][i] = opened[d][accepted[d] + 1] /\ i \in 1..accepted[d]
  BY <1>5, <1>6, <1>7
<1>9. i = accepted[d] + 1
  BY <1>8 DEF QueueInv
<1> QED BY <1>1, <1>8, <1>9

LEMMA AcceptKeepsTaking ==
  ASSUME TypeOK, Progress, KindsKept, QueueInv, TakeInv,
         NEW r \in Requests, NEW d, Accept(r, d)
  PROVE  TakeInv'
<1> DEFINE s == opened[d][accepted[d] + 1]
<1>1. /\ d = AcceptsFrom(TheOp(r)) /\ d \in Direction /\ pc[r] = "accept"
      /\ pc' = [pc EXCEPT ![r] = "established"] /\ got' = [got EXCEPT ![r] = s]
      /\ accepted' = [accepted EXCEPT ![d] = @ + 1]
      /\ UNCHANGED <<want, server, answer, opened, written, serving, lost>>
  BY DEF Accept, Goto, serverVars, AcceptsFrom, Direction
<1>2. accepted[d] + 1 \in 1..Len(opened[d]) /\ accepted[d] \in Nat
  BY <1>1 DEF Accept, Available, TypeOK
<1>3. s \in Requests /\ s # NoStream
  BY <1>1, <1>2, NoStreamAssumption DEF TypeOK
<1>4. \A q \in Requests : got[q] # s
  BY <1>1, <1>2, HeadIsFree
<1>5. got[r] = NoStream /\ answer[r] = "ok" /\ TheOp(r) # "call" /\ server[r] # "none"
  BY <1>1 DEF TakeInv, InTurn, Pending
<1>6. /\ got'[r] = s /\ pc'[r] = "established"
      /\ \A q \in Requests \ {r} : got'[q] = got[q] /\ pc'[q] = pc[q]
      /\ accepted'[d] = accepted[d] + 1
      /\ \A e \in Direction \ {d} : accepted'[e] = accepted[e]
  BY <1>1 DEF TypeOK
<1>7. \A e \in Direction : Taken(e) \subseteq Taken(e)'
  BY <1>1, <1>2, <1>6 DEF Taken, TypeOK
<1>8. s \in Taken(d)'
  <2>1. accepted[d] + 1 \in 1..accepted'[d]
    BY <1>2, <1>6
  <2> QED BY <1>1, <2>1 DEF Taken
<1>9. s \in written \/ server[s] = "opened" \/ lost
  BY <1>1, <1>2, <1>4 DEF TakeInv
<1> HIDE DEF s
<1>10. \A q \in Requests : TheOp(q)' = TheOp(q)
  BY <1>1 DEF TheOp
<1>11. ASSUME NEW q \in Requests
       PROVE  InTurn(q)'
  <2>1. CASE q = r
    BY <1>1, <1>3, <1>5, <1>6, <1>8, <1>9, <1>10, <2>1 DEF InTurn
  <2>2. CASE q # r
    <3>1. Pending(q)' = Pending(q)
      BY <1>6, <2>2 DEF Pending
    <3>2. AcceptsFrom(TheOp(q)) \in Direction
      BY DEF AcceptsFrom, Direction
    <3>3. got'[q] # NoStream => got'[q] \in Taken(AcceptsFrom(TheOp(q)))'
      BY <1>6, <1>7, <1>10, <2>2, <3>2 DEF TakeInv, InTurn
    <3> QED BY <1>1, <1>6, <1>10, <2>2, <3>1, <3>3 DEF TakeInv, InTurn
  <2> QED BY <2>1, <2>2
<1>12. \A p, q \in Requests : got'[p] = got'[q] /\ got'[p] # NoStream => p = q
  BY <1>4, <1>6 DEF TakeInv
<1>13. \A e \in Direction : \A i \in 1..Len(opened'[e]) :
         LET t == opened'[e][i] IN
         server'[t] = "opened" \/ t \in written' \/ lost' \/ \E q \in Requests : got'[q] = t
  <2>1. \A t \in Requests : (\E q \in Requests : got[q] = t) => (\E q \in Requests : got'[q] = t)
    BY <1>5, <1>6, NoStreamAssumption
  <2>2. \A e \in Direction : \A i \in 1..Len(opened[e]) : opened[e][i] \in Requests
    BY DEF TypeOK
  <2> QED BY <1>1, <2>1, <2>2 DEF TakeInv
<1>14. ASSUME NEW e \in Direction
       PROVE  IsFiniteSet(Takers(e)') /\ Cardinality(Takers(e)') = accepted'[e]
  <2>1. IsFiniteSet(Takers(e)) /\ Cardinality(Takers(e)) = accepted[e]
    BY DEF TakeInv
  <2>2. CASE e = d
    <3>1. Takers(d)' = Takers(d) \cup {r} /\ r \notin Takers(d)
      BY <1>1, <1>3, <1>5, <1>6, <1>10 DEF Takers
    <3> QED BY <1>6, <2>1, <2>2, <3>1, FS_AddElement
  <2>3. CASE e # d
    <3>1. Takers(e)' = Takers(e)
      BY <1>1, <1>5, <1>6, <1>10, <2>3 DEF Takers
    <3> QED BY <1>6, <2>1, <2>3, <3>1
  <2> QED BY <2>2, <2>3
<1> QED BY <1>11, <1>12, <1>13, <1>14 DEF TakeInv

\* The other steps of the clients take nothing.
LEMMA ClientKeepsTaking ==
  ASSUME TypeOK, Progress, TakeInv, NEW r \in Requests,
         \/ Call(r) \/ Subscribe(r) \/ Notify(r) \/ OpenStream(r)
         \/ Cancel(r) \/ ConnectionFails(r) \/ ReadResponse(r) \/ ReadEstablished(r)
  PROVE  TakeInv'
<1>1. /\ UNCHANGED <<want, got, accepted, answer, opened, written, lost>>
      /\ \/ server' = server
         \/ server' = [server EXCEPT ![r] = "queued"] /\ server[r] = "none"
  BY DEF Call, Subscribe, Notify, OpenStream, Begin, Cancel, ConnectionFails, ReadResponse,
     ReadEstablished, Goto, clientUnchanged, serverVars, Progress
<1>2. \A q \in Requests : /\ server[q] # "none" => server'[q] = server[q]
                          /\ server'[q] # server[q] => q = r /\ server'[q] = "queued"
  BY <1>1 DEF TypeOK
<1>3. \A q \in Requests \ {r} : pc'[q] = pc[q]
  BY DEF Call, Subscribe, Notify, OpenStream, Begin, Cancel, ConnectionFails, ReadResponse,
     ReadEstablished, Goto, TypeOK
<1> DEFINE Fits(p) ==
             /\ p \in {"response", "accept", "established"} => server'[r] # "none"
             /\ p \in {"idle", "response", "accept"} => got[r] = NoStream
             /\ p # "established"
             /\ p = "accept" => answer[r] = "ok" /\ TheOp(r) # "call"
<1>4. Fits(pc'[r])
  <2>1. ASSUME NEW op, Begin(r, op) PROVE Fits(pc'[r])
    BY <2>1 DEF Begin, Goto, TypeOK, TakeInv, InTurn
  <2>2. CASE Cancel(r) \/ ConnectionFails(r)
    BY <2>2 DEF Cancel, ConnectionFails, Pending, TypeOK
  <2>3. CASE ReadResponse(r)
    BY <2>3, <1>2 DEF ReadResponse, Goto, Pending, TypeOK, TakeInv, InTurn
  <2>4. CASE ReadEstablished(r)
    <3>1. Verdict(r) \in {"ready", "failed"}
      <4>1. TheOp(r) \in {"subscribe", "notify", "open_stream"}
        BY <2>4, WantTyped DEF ReadEstablished, Progress, Op
      <4> QED BY <4>1 DEF Verdict, SubscribeVerdict, NotifyVerdict, OpenStreamVerdict
    <3> QED BY <2>4, <3>1 DEF ReadEstablished, Goto, Pending, TypeOK
  <2> QED BY <2>1, <2>2, <2>3, <2>4 DEF Call, Subscribe, Notify, OpenStream
<1>5. /\ \A d \in Direction : Takers(d)' = Takers(d)
      /\ \A q \in Requests : TheOp(q)' = TheOp(q)
      /\ \A d \in Direction : Taken(d)' = Taken(d)
  BY <1>1, SameTakers DEF Taken
<1>6. \A q \in Requests : AcceptsFrom(TheOp(q)) \in Direction
  BY DEF AcceptsFrom, Direction
<1>7. \A q \in Requests \ {r} : Pending(q)' = Pending(q)
  BY <1>3 DEF Pending
<1>8. ASSUME NEW q \in Requests
      PROVE  InTurn(q)'
  <2>1. got'[q] # NoStream => got'[q] \in Taken(AcceptsFrom(TheOp(q)))'
    BY <1>1, <1>5, <1>6 DEF TakeInv, InTurn
  <2>2. CASE q = r
    BY <1>1, <1>4, <1>5, <2>1, <2>2 DEF TakeInv, InTurn, Pending
  <2>3. CASE q # r
    <3>1. got[q] # NoStream => got[q] \in Requests
      BY DEF TypeOK
    <3> QED BY <1>1, <1>2, <1>3, <1>5, <1>7, <2>1, <2>3, <3>1 DEF TakeInv, InTurn
  <2> QED BY <2>2, <2>3
<1>9. \A e \in Direction : \A i \in 1..Len(opened'[e]) :
        LET t == opened'[e][i] IN
        server'[t] = "opened" \/ t \in written' \/ lost' \/ \E q \in Requests : got'[q] = t
  <2>1. \A e \in Direction : \A i \in 1..Len(opened[e]) : opened[e][i] \in Requests
    BY DEF TypeOK
  <2> QED BY <1>1, <1>2, <2>1 DEF TakeInv
<1> QED BY <1>1, <1>5, <1>8, <1>9 DEF TakeInv

\* The server's steps leave what was taken, and what was answered, as it is;
\* first bytes can only be given up on a stream that was dropped after it was
\* taken, or with the connection.
LEMMA ServerKeepsTaking ==
  ASSUME TypeOK, Progress, TakeInv, NEW r \in Requests,
         DropRequest(r) \/ HandleRpc(r) \/ HandlerStep(r)
  PROVE  TakeInv'
<1> USE DEF ServerGoto, serverUnchanged, clientVars
<1>1. /\ UNCHANGED <<want, pc, got, accepted, lost>> /\ written \subseteq written'
      /\ server[r] # "none" /\ server' = [server EXCEPT ![r] = server'[r]] /\ server'[r] # "none"
      /\ server[r] # "done" /\ \A q \in Requests \ {r} : answer'[q] = answer[q]
  BY DEF DropRequest, HandleRpc, RouteFails, OpenServerStream, WriteFirst, RespondAndSpawn,
     SendError, TypeOK, HandlerStep, HandleSubscription, HandleNotification,
     HandleStreamHandler, SendSubscriptionAck, SendNotificationAck, WriteStreamAck,
     SpawnSubscriptionTask, SpawnNotificationTask, SpawnStreamHandlerTask
<1>2. \A q \in Requests \ {r} : server'[q] = server[q]
  BY <1>1 DEF TypeOK
<1>3. \A q \in Requests : answer[q] = "ok" => answer'[q] = "ok"
  BY <1>1 DEF Progress
<1>4. server[r] = "opened" =>
        r \in written' \/ lost \/ \E q \in Requests : got[q] = r /\ pc[q] \in {"failed", "cancelled"}
  BY DEF DropRequest, HandleRpc, RouteFails, OpenServerStream, WriteFirst, RespondAndSpawn,
     HandlerStep, HandleSubscription, HandleNotification, HandleStreamHandler, Dropped,
     SendSubscriptionAck, SendNotificationAck, WriteStreamAck, SpawnSubscriptionTask,
     SpawnNotificationTask, SpawnStreamHandlerTask
<1>5. \A e \in Direction : \/ opened'[e] = opened[e]
                           \/ server'[r] = "opened" /\ opened'[e] = Append(opened[e], r)
  BY OpensTyped DEF DropRequest, HandleRpc, RouteFails, OpenServerStream, WriteFirst,
     RespondAndSpawn, TypeOK, HandlerStep, HandleSubscription, HandleNotification,
     HandleStreamHandler, SendSubscriptionAck, SendNotificationAck, WriteStreamAck,
     SpawnSubscriptionTask, SpawnNotificationTask, SpawnStreamHandlerTask
<1>6. ASSUME NEW e \in Direction, NEW i \in 1..Len(opened'[e])
      PROVE  \/ i \in 1..Len(opened[e]) /\ opened'[e][i] = opened[e][i]
             \/ opened'[e][i] = r /\ server'[r] = "opened"
  <2>1. opened[e] \in Seq(Requests)
    BY DEF TypeOK
  <2> QED BY <1>5, <1>6, <2>1
<1>7. \A e \in Direction : Taken(e)' = Taken(e)
  <2>1. ASSUME NEW e \in Direction PROVE \A i \in 1..accepted[e] : opened'[e][i] = opened[e][i]
    <3>1. opened[e] \in Seq(Requests) /\ accepted[e] \in 0..Len(opened[e])
      BY DEF TypeOK
    <3> QED BY <1>5, <3>1
  <2> QED BY <1>1, <2>1 DEF Taken
<1>8. /\ \A e \in Direction : Takers(e)' = Takers(e)
      /\ \A q \in Requests : TheOp(q)' = TheOp(q) /\ Pending(q)' = Pending(q)
                             /\ AcceptsFrom(TheOp(q)) \in Direction
  BY <1>1, SameTakers DEF Pending, AcceptsFrom, Direction
<1>9. ASSUME NEW q \in Requests PROVE InTurn(q)'
  <2>1. got[q] # NoStream => got[q] \in Taken(AcceptsFrom(TheOp(q)))'
    BY <1>7, <1>8 DEF TakeInv, InTurn
  <2>2. Pending(q) => server'[q] # "none"
    BY <1>1, <1>2 DEF TakeInv, InTurn
  <2>3. ASSUME pc[q] = "established"
        PROVE  got[q] \in written' \/ server'[got[q]] = "opened" \/ lost
    <3>1. got[q] \in Requests
      BY <2>3 DEF TakeInv, InTurn, TypeOK
    <3>2. CASE got[q] = r /\ server[r] = "opened"
      <4>1. ASSUME NEW p \in Requests, got[p] = r PROVE p = q
        BY <3>1, <3>2, <4>1, NoStreamAssumption DEF TakeInv
      <4> QED BY <1>4, <2>3, <3>2, <4>1
    <3>3. CASE got[q] # r \/ server[r] # "opened"
      BY <1>1, <1>2, <2>3, <3>1, <3>3 DEF TakeInv, InTurn
    <3> QED BY <3>2, <3>3
  <2> QED BY <1>1, <1>3, <1>8, <2>1, <2>2, <2>3 DEF TakeInv, InTurn
<1>10. \A e \in Direction : \A i \in 1..Len(opened'[e]) :
         LET t == opened'[e][i] IN
         server'[t] = "opened" \/ t \in written' \/ lost' \/ \E q \in Requests : got'[q] = t
  <2>1. ASSUME NEW e \in Direction, NEW i \in 1..Len(opened[e])
        PROVE  LET t == opened[e][i] IN
               server'[t] = "opened" \/ t \in written' \/ lost \/ \E q \in Requests : got[q] = t
    <3>1. PICK t \in Requests : t = opened[e][i]
      BY DEF TypeOK
    <3>2. server[t] = "opened" \/ t \in written \/ lost \/ \E q \in Requests : got[q] = t
      BY <3>1 DEF TakeInv
    <3> QED BY <1>1, <1>2, <1>4, <3>1, <3>2
  <2> QED BY <1>1, <1>6, <2>1
<1> QED BY <1>1, <1>8, <1>9, <1>10 DEF TakeInv

LEMMA StepTaking ==
  TypeOK /\ Progress /\ KindsKept /\ QueueInv /\ TakeInv /\ [Next]_vars => TakeInv'
<1> SUFFICES ASSUME TypeOK, Progress, KindsKept, QueueInv, TakeInv, [Next]_vars PROVE TakeInv'
  OBVIOUS
<1>1. ASSUME UNCHANGED <<want, clientVars, serverVars>>, lost => lost' PROVE TakeInv'
  <2>1. /\ \A d \in Direction : Takers(d)' = Takers(d) /\ Taken(d)' = Taken(d)
        /\ \A q \in Requests : TheOp(q)' = TheOp(q) /\ Pending(q)' = Pending(q)
                               /\ AcceptsFrom(TheOp(q)) \in Direction
    BY <1>1, SameTakers DEF clientVars, serverVars, Taken, Pending, AcceptsFrom, Direction
  <2>2. \A q \in Requests : InTurn(q)'
    BY <1>1, <2>1 DEF clientVars, serverVars, TakeInv, InTurn
  <2> QED BY <1>1, <2>1, <2>2 DEF clientVars, serverVars, TakeInv
<1>2. CASE UNCHANGED vars \/ LoseConnection
  BY <1>1, <1>2 DEF vars, LoseConnection
<1>3. ASSUME NEW r \in Requests, ClientStep(r) PROVE TakeInv'
  BY <1>3, AcceptKeepsTaking, ClientKeepsTaking DEF ClientStep, AcceptUni, AcceptBi
<1> QED BY <1>2, <1>3, ClientKeepsTaking, ServerKeepsTaking DEF Next

(***************************************************************************)
(* A set-up that is under way waits for something that will happen: its    *)
(* handler still has a step to make, or what it waits for is there.  The   *)
(* streams in the queues are no one's in particular, and others come and   *)
(* take them, are abandoned with them in hand, or leave theirs behind; yet *)
(* they always go round.  This is what SetupsEnd needs of the states.      *)
(***************************************************************************)
StepIsDue ==
  WellDirected /\ OneProtocolPerQueue /\ ~lost =>
    \A r \in Requests :
      /\ pc[r] = "response" => answer[r] # "none" \/ server[r] \in {"queued", "opened", "written"}
      /\ pc[r] = "accept" => Available(AcceptsFrom(TheOp(r)))
      /\ pc[r] = "established" => Readable(r) \/ server[got[r]] = "opened"

\* Whoever was told Ok has a stream with first bytes in the queue it goes to.
LEMMA ToldHasStream ==
  ASSUME TypeOK, KindsKept, QueueInv, WellDirected,
         NEW r \in Requests, answer[r] = "ok", TheOp(r) # "call"
  PROVE  LET d == AcceptsFrom(TheOp(r)) IN
         r \in written /\ \E i \in 1..Len(opened[d]) : opened[d][i] = r
<1>1. TheOp(r) \in Op /\ TheKind(r) \in {Serves(TheOp(r)), "missing"}
  BY WantTyped DEF WellDirected
<1>2. ToldOk(r)
  BY <1>1, KindsOfOps DEF ToldOk, Serves, Op
<1>3. PICK i \in 1..Len(opened[QueueOf(r)]) : opened[QueueOf(r)][i] = r
  BY <1>2 DEF QueueInv
<1>4. TheKind(r) \in Streaming
  BY <1>3, OpensTyped DEF KindsKept, QueueOf
<1>5. QueueOf(r) = AcceptsFrom(TheOp(r))
  BY <1>1, <1>4, KindsOfOps DEF QueueOf
<1> QED BY <1>2, <1>3, <1>5 DEF QueueInv

\* More are told Ok than have taken a stream, so one they were told of is left.
LEMMA OneIsLeft ==
  ASSUME TypeOK, KindsKept, QueueInv, TakeInv, WellDirected,
         NEW r \in Requests, pc[r] = "accept"
  PROVE  Available(AcceptsFrom(TheOp(r)))
<1> DEFINE d == AcceptsFrom(TheOp(r))
           W == Takers(d) \cup {r}
           f == [i \in 1..accepted[d] |-> opened[d][i]]
<1> SUFFICES ASSUME \A i \in (accepted[d] + 1)..Len(opened[d]) : opened[d][i] \notin written
             PROVE  FALSE
  BY DEF Available
<1>1. d \in Direction /\ accepted[d] \in Nat /\ Len(opened[d]) \in Nat
  BY DEF AcceptsFrom, Direction, TypeOK
<1>2. ASSUME NEW q \in W PROVE q \in Taken(d)
  <2>1. q \in Requests /\ answer[q] = "ok" /\ TheOp(q) # "call" /\ AcceptsFrom(TheOp(q)) = d
    BY DEF TakeInv, InTurn, Takers
  <2>2. q \in written
    BY <2>1, ToldHasStream
  <2>3. PICK i \in 1..Len(opened[d]) : opened[d][i] = q
    BY <2>1, ToldHasStream
  <2>4. i \in 1..accepted[d]
    BY <1>1, <2>2, <2>3
  <2> QED BY <2>3, <2>4 DEF Taken
<1>3. /\ IsFiniteSet(Takers(d)) /\ Cardinality(Takers(d)) = accepted[d]
      /\ r \notin Takers(d)
  BY <1>1 DEF TakeInv, InTurn, Takers
<1> HIDE DEF d
<1>4. Cardinality(W) = accepted[d] + 1
  BY <1>3, FS_AddElement
<1>5. IsFiniteSet(1..accepted[d]) /\ Cardinality(1..accepted[d]) = accepted[d]
  BY <1>1, FS_Interval
<1>6. f \in Surjection(1..accepted[d], Taken(d))
  BY DEF Taken, Surjection
<1>7. IsFiniteSet(Taken(d)) /\ Cardinality(Taken(d)) <= accepted[d]
  BY <1>5, <1>6, FS_Surjection
<1>8. W \in SUBSET Taken(d)
  BY <1>2
<1>9. Cardinality(W) <= Cardinality(Taken(d)) /\ Cardinality(Taken(d)) \in Nat
  BY <1>7, <1>8, FS_Subset, FS_CardinalityType
<1> QED BY <1>1, <1>4, <1>7, <1>9

\* On an open connection no set-up of its resource's kind waits for what
\* nobody will do, whatever the others did with the streams of the queues.
THEOREM NoSetupWaitsInVain == Spec => []StepIsDue
<1>1. ASSUME TypeOK, Progress, KindsKept, QueueInv, TakeInv PROVE StepIsDue
  <2> SUFFICES ASSUME WellDirected, OneProtocolPerQueue, ~lost, NEW r \in Requests
               PROVE  /\ pc[r] = "response" =>
                           answer[r] # "none" \/ server[r] \in {"queued", "opened", "written"}
                      /\ pc[r] = "accept" => Available(AcceptsFrom(TheOp(r)))
                      /\ pc[r] = "established" => Readable(r) \/ server[got[r]] = "opened"
    BY DEF StepIsDue
  <2>1. pc[r] = "response" => answer[r] # "none" \/ server[r] \in {"queued", "opened", "written"}
    BY <1>1 DEF TakeInv, InTurn, Pending, Progress, TypeOK, ServerState
  <2>2. pc[r] = "accept" => Available(AcceptsFrom(TheOp(r)))
    BY <1>1, OneIsLeft
  <2>3. ASSUME pc[r] = "established", got[r] \in written PROVE Readable(r)
    <3>1. got[r] \in Requests /\ TheKind(got[r]) \in Streaming
      BY <1>1, <2>3 DEF KindsKept, Progress
    <3>2. ASSUME TheOp(r) = "notify", TheKind(got[r]) = "stream" PROVE FALSE
      <4>1. TheOp(got[r]) \in Op /\ TheKind(got[r]) \in {Serves(TheOp(got[r])), "missing"}
        BY <1>1, <3>1, WantTyped DEF WellDirected
      <4>2. TheOp(got[r]) = "open_stream"
        BY <3>2, <4>1 DEF Op, Serves
      <4> QED BY <3>1, <3>2, <4>2 DEF OneProtocolPerQueue
    <3> QED BY <2>3, <3>2 DEF Readable
  <2>4. pc[r] = "established" => Readable(r) \/ server[got[r]] = "opened"
    BY <1>1, <2>3 DEF TakeInv, InTurn
  <2> QED BY <2>1, <2>2, <2>4
<1> QED BY <1>1, InitProgress, StepProgress, InitKinds, StepKinds, InitQueues, StepQueues,
        StepTaking, PTL DEF Spec
-----------------------------------------------------------------------------
(* Set-ups one at a time *)

NothingLeft(d) == accepted[d] = Len(opened[d])

\* All that is left in a queue is the stream of a set-up that has not come to
\* it yet, and that will: its answer cannot be a refusal.
OnlyOwnLeft(r, d) ==
  /\ pc[r] \in {"response", "accept"}
  /\ server[r] \notin {"none", "queued"}
  /\ TheKind(r) \in Streaming /\ d = OpensOn(TheKind(r))
  /\ Len(opened[d]) = accepted[d] + 1 /\ opened[d][accepted[d] + 1] = r
  /\ answer[r] \in {"none", "ok"} \/ lost

ServerRests(r) == server[r] \in {"none", "done"}

\* While set-ups follow one another: at most one is under way, nothing else
\* runs on the server, and between them nothing is left in the queues.
QuietInv ==
  quiet =>
    /\ \A r \in Requests : pc[r] # "idle" => TheKind(r) \in {Serves(TheOp(r)), "missing"}
    /\ \A r \in Requests : got[r] \in {NoStream, r}
    /\ \A r \in Requests : pc[r] \in {"idle", "response", "accept"} => got[r] = NoStream
    /\ \A r \in Requests : Pending(r) =>
         /\ \A s \in Requests \ {r} : ~Pending(s) /\ ServerRests(s)
         /\ \A d \in Direction : NothingLeft(d) \/ OnlyOwnLeft(r, d)
    /\ ~lost /\ (\A r \in Requests : ~Pending(r)) =>
         /\ \A r \in Requests : ServerRests(r)
         /\ \A d \in Direction : NothingLeft(d)

LEMMA InitQuiet == Init => QuietInv
  BY DEF Init, QuietInv, Pending, ServerRests, NothingLeft

LEMMA BeginKeepsQuiet ==
  ASSUME TypeOK, Progress, QuietInv, NEW r \in Requests, NEW op, Begin(r, op), quiet'
  PROVE  QuietInv'
<1> USE DEF TypeOK, QuietInv, ServerRests, NothingLeft, Goto
<1>1. /\ quiet /\ \A s \in Requests : ~Pending(s)
      /\ TheKind(r) \in {Serves(TheOp(r)), "missing"} /\ got[r] = NoStream
      /\ UNCHANGED <<want, got, accepted, opened, answer, lost>>
      /\ \A s \in Requests : TheKind(s)' = TheKind(s) /\ TheOp(s)' = TheOp(s)
  BY DEF Begin, TheKind, TheOp
<1>2. CASE lost
  <2>1. pc' = [pc EXCEPT ![r] = "failed"] /\ UNCHANGED server
    BY <1>2 DEF Begin
  <2>2. \A s \in Requests : ~Pending(s)'
    BY <1>1, <2>1 DEF Pending
  <2> QED BY <1>1, <1>2, <2>1, <2>2
<1>3. CASE ~lost
  <2>1. pc' = [pc EXCEPT ![r] = "response"] /\ server' = [server EXCEPT ![r] = "queued"]
    BY <1>3 DEF Begin
  <2>2. Pending(r)' /\ \A s \in Requests \ {r} : ~Pending(s)'
    BY <1>1, <2>1 DEF Pending
  <2> QED BY <1>1, <1>3, <2>1, <2>2
<1> QED BY <1>2, <1>3

LEMMA ClientKeepsQuiet ==
  ASSUME TypeOK, Progress, QuietInv, NEW r \in Requests,
         Cancel(r) \/ ClientStep(r), quiet'
  PROVE  QuietInv'
<1> USE DEF TypeOK, ServerRests, NothingLeft, Goto, clientUnchanged, serverVars
<1>0. ASSUME UNCHANGED <<want>>
      PROVE  \A s \in Requests : TheKind(s)' = TheKind(s) /\ TheOp(s)' = TheOp(s)
  BY <1>0 DEF TheKind, TheOp
<1>1. CASE Cancel(r)
  BY <1>1 DEF Cancel
<1>2. ASSUME UNCHANGED <<want, got, accepted, serverVars, lost, quiet>>,
             Pending(r), NEW to \in {"ready", "failed"}, pc' = [pc EXCEPT ![r] = to],
             ~lost => ServerRests(r) /\ \A d \in Direction : NothingLeft(d)
      PROVE  QuietInv'
  <2>1. \A s \in Requests : ~Pending(s)'
    BY <1>2 DEF Pending, QuietInv
  <2> QED BY <1>0, <1>2, <2>1 DEF QuietInv, Pending
<1>3. CASE ConnectionFails(r)
  BY <1>2, <1>3 DEF ConnectionFails
<1>4. CASE ReadEstablished(r)
  <2>1. Verdict(r) \in {"ready", "failed"}
    <3>1. TheOp(r) \in {"subscribe", "notify", "open_stream"}
      BY <1>4, WantTyped DEF ReadEstablished, Op, Progress
    <3> QED BY <3>1 DEF Verdict, SubscribeVerdict, NotifyVerdict, OpenStreamVerdict
  <2>2. Pending(r) /\ pc[r] = "established" /\ quiet
    BY <1>4 DEF ReadEstablished, Pending
  <2>3. ServerRests(r) /\ \A d \in Direction : NothingLeft(d)
    BY <2>2 DEF QuietInv, OnlyOwnLeft, Progress
  <2> QED BY <1>2, <1>4, <2>1, <2>2, <2>3 DEF ReadEstablished
<1>5. CASE ReadResponse(r)
  <2>1. /\ Pending(r) /\ quiet /\ pc[r] = "response" /\ server[r] = "done"
        /\ TheKind(r) \in {Serves(TheOp(r)), "missing"} /\ TheOp(r) \in Op
    BY <1>5, WantTyped DEF ReadResponse, Pending, Progress, QuietInv
  <2>2. CASE answer[r] # "ok"
    <3>1. ~lost => \A d \in Direction : NothingLeft(d)
      BY <1>5, <2>1, <2>2 DEF ReadResponse, QuietInv, OnlyOwnLeft
    <3>2. /\ pc' = [pc EXCEPT ![r] = "failed"]
          /\ UNCHANGED <<want, got, accepted, serverVars, lost, quiet>>
      BY <1>5, <2>2 DEF ReadResponse
    <3>3. ServerRests(r)
      BY <2>1
    <3> QED BY <1>2, <2>1, <3>1, <3>2, <3>3
  <2>3. CASE answer[r] = "ok" /\ TheOp(r) = "call"
    <3>1. \A d \in Direction : NothingLeft(d)
      BY <2>1, <2>3, KindsOfOps DEF QuietInv, OnlyOwnLeft
    <3> QED BY <1>2, <1>5, <2>1, <2>3, <3>1 DEF ReadResponse
  <2>4. CASE answer[r] = "ok" /\ TheOp(r) # "call"
    <3>1. /\ pc' = [pc EXCEPT ![r] = "accept"]
          /\ UNCHANGED <<want, got, accepted, serverVars, lost, quiet>>
      BY <1>5, <2>4 DEF ReadResponse
    <3>2. \A s \in Requests : Pending(s)' = Pending(s)
      BY <2>1, <3>1 DEF Pending
    <3> QED BY <1>0, <2>1, <3>1, <3>2 DEF QuietInv, OnlyOwnLeft
  <2> QED BY <2>2, <2>3, <2>4
<1>6. ASSUME NEW d, Accept(r, d) PROVE QuietInv'
  <2>1. /\ Pending(r) /\ quiet /\ pc[r] = "accept" /\ TheOp(r) \in Op
        /\ d \in Direction /\ d = AcceptsFrom(TheOp(r))
        /\ ServerRests(r)
    BY <1>6, WantTyped DEF Accept, Pending, Direction, AcceptsFrom, Progress
  <2>2. OnlyOwnLeft(r, d)
    BY <1>6, <2>1 DEF Accept, Available, QuietInv
  <2>3. \A e \in Direction \ {d} : NothingLeft(e)
    BY <2>1, <2>2 DEF QuietInv, OnlyOwnLeft
  <2>4. /\ pc' = [pc EXCEPT ![r] = "established"]
        /\ got' = [got EXCEPT ![r] = r]
        /\ accepted' = [accepted EXCEPT ![d] = @ + 1]
        /\ UNCHANGED <<want, serverVars, lost, quiet>>
    BY <1>6, <2>2 DEF Accept, OnlyOwnLeft
  <2>5. \A e \in Direction : NothingLeft(e)'
    <3>1. NothingLeft(d)'
      BY <2>1, <2>2, <2>4 DEF OnlyOwnLeft
    <3>2. ASSUME NEW e \in Direction \ {d} PROVE NothingLeft(e)'
      BY <2>1, <2>3, <2>4
    <3> QED BY <3>1, <3>2
  <2>6. \A s \in Requests : Pending(s)' = Pending(s)
    BY <2>1, <2>4 DEF Pending
  <2> QED BY <1>0, <2>1, <2>4, <2>5, <2>6 DEF QuietInv
<1> QED BY <1>1, <1>3, <1>4, <1>5, <1>6 DEF ClientStep, AcceptUni, AcceptBi

\* A handler that is at work belongs to the set-up that is under way, unless
\* the connection is lost and there is none.
LEMMA AtWork ==
  ASSUME Progress, QuietInv, quiet, NEW r \in Requests, server[r] \notin {"none", "done"}
  PROVE  \/ pc[r] = "response" /\ Pending(r)
         \/ lost /\ \A s \in Requests : ~Pending(s)
  BY DEF QuietInv, Progress, ServerRests, Pending

LEMMA ServerKeepsQuiet ==
  ASSUME TypeOK, Progress, QuietInv, NEW r \in Requests,
         DropRequest(r) \/ HandleRpc(r) \/ HandlerStep(r), quiet'
  PROVE  QuietInv'
<1> USE DEF TypeOK, ServerRests, NothingLeft, ServerGoto, serverUnchanged, clientVars
<1>0. /\ UNCHANGED serverUnchanged /\ server[r] \notin {"none", "done"}
      /\ \A s \in Requests \ {r} : server'[s] = server[s] /\ answer'[s] = answer[s]
      /\ \A s \in Requests : Pending(s)' = Pending(s)
      /\ \A s \in Requests : TheKind(s)' = TheKind(s) /\ TheOp(s)' = TheOp(s)
  BY DEF DropRequest, HandleRpc, HandlerStep, RouteFails, HandleSubscription,
     HandleNotification, HandleStreamHandler, OpenServerStream, SendSubscriptionAck,
     SendNotificationAck, WriteStreamAck, WriteFirst, SpawnSubscriptionTask,
     SpawnNotificationTask, SpawnStreamHandlerTask, RespondAndSpawn, SendError,
     Pending, TheKind, TheOp
<1>1. \/ pc[r] = "response" /\ Pending(r)
      \/ lost /\ \A s \in Requests : ~Pending(s)
  BY <1>0, AtWork
<1>2. CASE lost /\ \A s \in Requests : ~Pending(s)
  BY <1>0, <1>2 DEF QuietInv
<1>3. ASSUME pc[r] = "response", Pending(r),
             \A d \in Direction : NothingLeft(d)' \/ OnlyOwnLeft(r, d)'
      PROVE  QuietInv'
  BY <1>0, <1>3 DEF QuietInv
<1>4. ASSUME pc[r] = "response", Pending(r), server[r] = "queued"
      PROVE  \A d \in Direction : NothingLeft(d)
  BY <1>0, <1>4 DEF QuietInv, OnlyOwnLeft
<1>5. CASE DropRequest(r) \/ HandleRpc(r) \/ RouteFails(r)
  <2>1. server[r] = "queued" /\ UNCHANGED opened
    BY <1>5 DEF DropRequest, HandleRpc, RouteFails
  <2> QED BY <1>0, <1>1, <1>2, <1>3, <1>4, <2>1
<1>6. ASSUME NEW kind \in Streaming, OpenServerStream(r, kind) PROVE QuietInv'
  <2>1. server[r] = "queued" /\ TheKind(r) = kind
    BY <1>6 DEF OpenServerStream
  <2>2. CASE UNCHANGED opened
    BY <1>0, <1>1, <1>2, <1>3, <1>4, <2>1, <2>2
  <2>3. CASE /\ opened' = [opened EXCEPT ![OpensOn(kind)] = Append(@, r)]
             /\ server' = [server EXCEPT ![r] = "opened"] /\ UNCHANGED answer
    <3>1. ASSUME pc[r] = "response", Pending(r)
          PROVE  \A d \in Direction : NothingLeft(d)' \/ OnlyOwnLeft(r, d)'
      <4>1. answer[r] = "none"
        BY <2>1 DEF Progress
      <4>2. \A d \in Direction \ {OpensOn(kind)} : NothingLeft(d)'
        BY <1>0, <1>4, <2>1, <2>3, <3>1
      <4>3. OnlyOwnLeft(r, OpensOn(kind))'
        <5>1. OpensOn(kind) \in Direction /\ NothingLeft(OpensOn(kind))
          BY <1>4, <2>1, <3>1, OpensTyped
        <5>2. /\ opened'[OpensOn(kind)] = Append(opened[OpensOn(kind)], r)
              /\ opened[OpensOn(kind)] \in Seq(Requests)
              /\ accepted'[OpensOn(kind)] = Len(opened[OpensOn(kind)])
          BY <1>0, <2>3, <5>1
        <5>3. TheKind(r)' = kind /\ OpensOn(kind)' = OpensOn(kind)
          BY <1>0, <2>1 DEF OpensOn
        <5> QED BY <1>0, <2>3, <3>1, <4>1, <5>2, <5>3 DEF OnlyOwnLeft
      <4> QED BY <4>2, <4>3
    <3> QED BY <1>1, <1>2, <1>3, <3>1
  <2> QED BY <1>6, <2>2, <2>3 DEF OpenServerStream
<1>7. ASSUME NEW kind, WriteFirst(r, kind) \/ RespondAndSpawn(r, kind) PROVE QuietInv'
  <2>1. /\ UNCHANGED opened /\ server[r] \in {"opened", "written"}
        /\ server'[r] \in {"written", "done"}
    BY <1>7 DEF WriteFirst, RespondAndSpawn
  <2>2. ASSUME pc[r] = "response", Pending(r) PROVE answer'[r] \in {"none", "ok"} \/ lost
    <3>1. ~Dropped(r) /\ answer[r] = "none"
      BY <1>0, <2>1, <2>2, NoStreamAssumption DEF Dropped, QuietInv, Progress
    <3> QED BY <1>7, <2>2, <3>1 DEF WriteFirst, RespondAndSpawn, Written
  <2>3. ASSUME pc[r] = "response", Pending(r)
        PROVE  \A d \in Direction : NothingLeft(d)' \/ OnlyOwnLeft(r, d)'
    BY <1>0, <2>1, <2>2, <2>3 DEF QuietInv, OnlyOwnLeft
  <2> QED BY <1>1, <1>2, <1>3, <2>3
<1> QED BY <1>5, <1>6, <1>7
        DEF HandlerStep, Streaming, HandleSubscription, HandleNotification,
        HandleStreamHandler, SendSubscriptionAck, SendNotificationAck, WriteStreamAck,
        SpawnSubscriptionTask, SpawnNotificationTask, SpawnStreamHandlerTask

LEMMA StepQuiet == TypeOK /\ Progress /\ QuietInv /\ [Next]_vars => QuietInv'
<1> SUFFICES ASSUME TypeOK, Progress, QuietInv, [Next]_vars, quiet' PROVE QuietInv'
  BY DEF QuietInv
<1>1. CASE LoseConnection \/ UNCHANGED vars
  <2>1. UNCHANGED <<want, clientVars, serverVars, quiet>> /\ (lost => lost')
    BY <1>1 DEF LoseConnection, vars, TypeOK
  <2>2. \A r \in Requests : /\ Pending(r)' = Pending(r) /\ ServerRests(r)' = ServerRests(r)
                            /\ TheKind(r)' = TheKind(r) /\ TheOp(r)' = TheOp(r)
                            /\ pc'[r] = pc[r] /\ got'[r] = got[r]
    BY <2>1 DEF Pending, ServerRests, TheKind, TheOp, clientVars, serverVars
  <2>3. \A d \in Direction : /\ NothingLeft(d)' = NothingLeft(d)
                             /\ \A r \in Requests : OnlyOwnLeft(r, d) => OnlyOwnLeft(r, d)'
    BY <2>1 DEF NothingLeft, OnlyOwnLeft, TheKind, OpensOn, clientVars, serverVars
  <2>4. quiet
    BY <2>1
  <2> QED BY <2>1, <2>2, <2>3, <2>4 DEF QuietInv
<1> QED BY <1>1, BeginKeepsQuiet, ClientKeepsQuiet, ServerKeepsQuiet
        DEF Next, Call, Subscribe, Notify, OpenStream

\* Set-ups that follow one another take their own streams, however many there
\* are and whatever refusals and failures come between.
THEOREM QuietSetupsMatch == Spec => []QuietSetupsGetTheirOwn
<1>1. QuietInv => QuietSetupsGetTheirOwn
  BY DEF QuietInv, QuietSetupsGetTheirOwn
<1> QED BY <1>1, InitProgress, StepProgress, InitQuiet, StepQuiet, PTL DEF Spec
=============================================================================
