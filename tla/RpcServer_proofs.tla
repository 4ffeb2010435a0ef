--------------------------- MODULE RpcServer_proofs ---------------------------
(***************************************************************************)
(* The server keeps the contract of graceful shutdown, for any connections *)
(* and shutdown callers and any finite set of streams.  The argument: its  *)
(* steps are steps of TaskTracker, so the count is exact                   *)
(* (TaskTracker_proofs); a caller is in wait_for_completion only after it  *)
(* has stored the flag; hence an Ok is a step of the contract, and so is   *)
(* every step of an acceptor, because the gate is the flag check.          *)
(***************************************************************************)
EXTENDS RpcServer, TaskTracker_proofs

\* The definitions of the server's steps, by the part of the state they leave alone.
LEMMA InitIsTrackerInit == Init => TrackerInit
  BY DEF Init

LEMMA NextIsTrackerNext == [Next]_vars => [TrackerNext]_trackerVars
<1> SUFFICES ASSUME [Next]_vars PROVE [TrackerNext]_trackerVars
  OBVIOUS
<1> USE DEF TrackerNext, Streams, Callers
<1>1. ASSUME NEW c \in Conns,
             \/ CloseConnection(c) \/ Accept(c) \/ HookReturns(c)
             \/ EnterSelect(c) \/ StopAccepting(c) \/ AcceptFails(c)
      PROVE  UNCHANGED trackerVars
  BY <1>1 DEF CloseConnection, Accept, HookReturns, EnterSelect, StopAccepting,
     AcceptFails
<1>2. ASSUME NEW c \in Conns, NEW s \in Streams,
             OpenStream(c, s) \/ AcceptStream(c, s) \/ CheckFlag(c, s)
      PROVE  UNCHANGED trackerVars
  BY <1>2 DEF OpenStream, AcceptStream, CheckFlag
<1>3. ASSUME NEW c \in Conns, NEW s \in Streams, SpawnStreamTask(c, s)
      PROVE  TrackerNext
  BY <1>3 DEF SpawnStreamTask
<1>4. ASSUME NEW s \in Streams, TaskStep(s)
      PROVE  [TrackerNext]_trackerVars
  BY <1>4 DEF TaskStep, RejectRequest, StartRpc, AnswerRpc, PanicRpc, DetachHandler,
     EndTask, NotifyLast, taskUnchanged
<1>5. ASSUME NEW s \in Streams, HandlerStep(s) \/ HandlerReturns(s)
      PROVE  UNCHANGED trackerVars
  BY <1>5 DEF HandlerStep, HandlerReturns, AwaitShutdown, ResumeWork, HearShutdown,
     handlerUnchanged
<1>6. ASSUME NEW k \in Callers, StoreFlag(k) \/ CallerStep(k) \/ TimeoutElapses(k)
      PROVE  [TrackerNext]_trackerVars
  BY <1>6 DEF StoreFlag, CallerStep, SignalShutdown, AwaitTasks, TimeoutElapses, WaitStep
<1>7. CASE UNCHANGED vars
  BY <1>7 DEF vars
<1> QED BY <1>1, <1>2, <1>3, <1>4, <1>5, <1>6, <1>7 DEF Next, ConnStep

\* The composed system implements the tracker: what is proved of the tracker
\* holds in the server.
THEOREM ServerImplementsTracker == Spec => KeepsTracker
  BY InitIsTrackerInit, NextIsTrackerNext, PTL DEF Spec, KeepsTracker, TrackerSpec

\* In the server too, a shutdown call that has parked while tasks were tracked
\* is not left to its deadline, whatever the acceptors and the streams do.
THEOREM ParkedShutdownsAreNotLeft == Spec => OnlyParkingStrands
  BY ServerImplementsTracker, ParkedCallersAreNotLeft DEF KeepsTracker

\* Nor does a shutdown call that waits go round its loop for ever, without its
\* deadline too: the streams there are bound the rounds, and no acceptor adds to
\* them.
THEOREM ShutdownWaitsComeToAnEnd == Spec => WaitsRunDown /\ []WaitsBounded
  BY ServerImplementsTracker, WaitsComeToAnEnd DEF KeepsTracker

-----------------------------------------------------------------------------
\* The part of the typing that is the server's own.
ServerTypeOK ==
  /\ isShuttingDown \in BOOLEAN
  /\ signalWaiters \subseteq Conns \cup Streams
  /\ shut \in [Callers -> {"idle", "stored", "signalled"}]
  /\ conn \in [Conns -> ConnState]
  /\ closed \subseteq Conns
  /\ owner \in [Streams -> Conns \cup {NoConn}]
  /\ stage \in [Streams -> StreamStage]
  /\ handler \in [Streams -> HandlerState]

\* A caller waits, and has returned, only after it stored the flag.
WaitsAfterFlag ==
  \A k \in Callers : shut[k] # "idle" \/ wait[k] # "idle" => isShuttingDown

ServerInv == TrackerInv /\ ServerTypeOK /\ WaitsAfterFlag /\ GuardSpansTask

LEMMA ServerInitHasInv == Init => ServerInv
<1> SUFFICES ASSUME Init PROVE ServerInv
  OBVIOUS
<1> USE DEF Init, Streams, Callers
<1>1. TrackerInv
  BY InitHasInv
<1>2. ServerTypeOK
  BY DEF ServerTypeOK, ConnState, StreamStage, HandlerState
<1>3. WaitsAfterFlag /\ GuardSpansTask
  BY DEF WaitsAfterFlag, GuardSpansTask, InTask, TrackerInit
<1> QED BY <1>1, <1>2, <1>3 DEF ServerInv

\* Acceptor and peer steps.
LEMMA ConnKeepsInv ==
  ASSUME ServerInv, TrackerInv', NEW c \in Conns,
         \/ CloseConnection(c) \/ Accept(c) \/ HookReturns(c) \/ ConnStep(c)
         \/ \E s \in Streams : OpenStream(c, s)
  PROVE  ServerInv'
<1> USE DEF ServerInv, ServerTypeOK, ConnGoto, StageGoto, ConnState, StreamStage, Streams,
        Callers, TrackerInv, TrackerTypeOK
<1>1. CASE CloseConnection(c) \/ Accept(c) \/ HookReturns(c) \/ EnterSelect(c)
           \/ StopAccepting(c) \/ AcceptFails(c)
  <2>1. ServerTypeOK'
    BY <1>1 DEF CloseConnection, Accept, HookReturns, EnterSelect, StopAccepting,
       AcceptFails
  <2>2. UNCHANGED <<isShuttingDown, shut, wait, stage, task>>
    BY <1>1 DEF CloseConnection, Accept, HookReturns, EnterSelect, StopAccepting,
       AcceptFails, trackerVars
  <2> QED BY <2>1, <2>2 DEF WaitsAfterFlag, GuardSpansTask
<1>2. ASSUME NEW s \in Streams,
             OpenStream(c, s) \/ AcceptStream(c, s) \/ CheckFlag(c, s)
      PROVE  ServerInv'
  <2>1. ServerTypeOK'
    BY <1>2 DEF OpenStream, AcceptStream, CheckFlag
  <2>2. UNCHANGED <<isShuttingDown, shut, wait, task>>
    BY <1>2 DEF OpenStream, AcceptStream, CheckFlag, trackerVars
  <2>3. \A r \in Streams : stage'[r] \in InTask <=> stage[r] \in InTask
    BY <1>2 DEF OpenStream, AcceptStream, CheckFlag, InTask
  <2> QED BY <2>1, <2>2, <2>3 DEF WaitsAfterFlag, GuardSpansTask
<1>3. ASSUME NEW s \in Streams, SpawnStreamTask(c, s)
      PROVE  ServerInv'
  <2>1. ServerTypeOK'
    BY <1>3 DEF SpawnStreamTask, InTask
  <2>2. WaitsAfterFlag'
    BY <1>3 DEF SpawnStreamTask, Increment, WaitsAfterFlag
  <2>3. GuardSpansTask'
    BY <1>3 DEF SpawnStreamTask, Increment, GuardSpansTask, InTask, TaskState
  <2> QED BY <2>1, <2>2, <2>3
<1> QED BY <1>1, <1>2, <1>3 DEF ConnStep

\* Steps of a stream's task.
LEMMA TaskKeepsInv ==
  ASSUME ServerInv, TrackerInv', NEW s \in Streams, TaskStep(s)
  PROVE  ServerInv'
<1> USE DEF ServerInv, ServerTypeOK, StageGoto, StreamStage, InTask, HandlerState,
        Streams, Callers, TrackerInv, TrackerTypeOK
<1>1. CASE RejectRequest(s) \/ StartRpc(s) \/ AnswerRpc(s) \/ PanicRpc(s)
           \/ DetachHandler(s)
  <2>1. ServerTypeOK'
    BY <1>1 DEF RejectRequest, StartRpc, AnswerRpc, PanicRpc, DetachHandler,
       taskUnchanged
  <2>2. UNCHANGED <<isShuttingDown, shut, wait, task>>
    BY <1>1 DEF RejectRequest, StartRpc, AnswerRpc, PanicRpc, DetachHandler,
       taskUnchanged, trackerVars
  <2>3. \A r \in Streams : stage'[r] \in InTask <=> stage[r] \in InTask
    BY <1>1 DEF RejectRequest, StartRpc, AnswerRpc, PanicRpc, DetachHandler
  <2> QED BY <2>1, <2>2, <2>3 DEF WaitsAfterFlag, GuardSpansTask
<1>2. CASE EndTask(s)
  <2>1. ServerTypeOK'
    BY <1>2 DEF EndTask
  <2>2. WaitsAfterFlag'
    BY <1>2 DEF EndTask, DropGuard, WaitsAfterFlag
  <2>3. GuardSpansTask'
    BY <1>2 DEF EndTask, DropGuard, GuardSpansTask, TaskState
  <2> QED BY <2>1, <2>2, <2>3
<1>3. CASE NotifyLast(s)
  BY <1>3 DEF NotifyLast, NotifyCompletion, serverVars, WaitsAfterFlag, GuardSpansTask,
     TaskState
<1> QED BY <1>1, <1>2, <1>3 DEF TaskStep

\* Steps of a service callback and of a shutdown caller.
LEMMA HandlerKeepsInv ==
  ASSUME ServerInv, TrackerInv', NEW s \in Streams, HandlerStep(s) \/ HandlerReturns(s)
  PROVE  ServerInv'
<1> USE DEF ServerInv, ServerTypeOK, HandlerGoto, HandlerState, Streams, Callers,
        handlerUnchanged
<1>1. ServerTypeOK'
  BY DEF HandlerStep, HandlerReturns, AwaitShutdown, ResumeWork, HearShutdown
<1>2. UNCHANGED <<isShuttingDown, shut, wait, task, stage>>
  BY DEF HandlerStep, HandlerReturns, AwaitShutdown, ResumeWork, HearShutdown,
     trackerVars
<1> QED BY <1>1, <1>2 DEF WaitsAfterFlag, GuardSpansTask

LEMMA CallerKeepsInv ==
  ASSUME ServerInv, TrackerInv', NEW k \in Callers,
         StoreFlag(k) \/ CallerStep(k) \/ TimeoutElapses(k)
  PROVE  ServerInv'
<1> USE DEF ServerInv, ServerTypeOK, Streams, Callers, TrackerInv, TrackerTypeOK
<1>1. CASE StoreFlag(k)
  BY <1>1 DEF StoreFlag, trackerVars, WaitsAfterFlag, GuardSpansTask
<1>2. CASE SignalShutdown(k)
  BY <1>2 DEF SignalShutdown, CallWait, Goto, WaitsAfterFlag, GuardSpansTask
<1>3. CASE AwaitTasks(k) \/ TimeoutElapses(k)
  <2>1. UNCHANGED <<isShuttingDown, signalWaiters, shut, conn, closed, owner, stage,
                    handler, task>>
    BY <1>3 DEF AwaitTasks, TimeoutElapses, serverVars, WaitStep, FirstCheck, LoopCheck,
       Arm, Wake, Deadline
  <2>2. \A j \in Callers : wait'[j] # "idle" => wait[j] # "idle"
    BY <1>3 DEF AwaitTasks, TimeoutElapses, WaitStep, FirstCheck, LoopCheck, Arm, Wake,
       Deadline, Goto, WaitState
  <2> QED BY <2>1, <2>2 DEF WaitsAfterFlag, GuardSpansTask
<1> QED BY <1>1, <1>2, <1>3 DEF CallerStep

LEMMA ServerStepKeepsInv == ServerInv /\ [Next]_vars => ServerInv'
<1> SUFFICES ASSUME ServerInv, [Next]_vars PROVE ServerInv'
  OBVIOUS
<1>1. TrackerInv'
  BY NextIsTrackerNext, StepKeepsInv DEF ServerInv
<1>2. CASE UNCHANGED vars
  BY <1>1, <1>2 DEF vars, serverVars, trackerVars, ServerInv, ServerTypeOK,
     WaitsAfterFlag, GuardSpansTask
<1> QED BY <1>1, <1>2, ConnKeepsInv, TaskKeepsInv, HandlerKeepsInv, CallerKeepsInv DEF Next

LEMMA ServerInvariant == Spec => []ServerInv
  BY ServerInitHasInv, ServerStepKeepsInv, PTL DEF Spec

\* All variables keep their types.
THEOREM ServerTyping == Spec => []TypeOK
<1>1. ServerInv => TypeOK
  BY DEF ServerInv, ServerTypeOK, TrackerInv, TypeOK
<1> QED BY ServerInvariant, <1>1, PTL

\* The guards counted by shutdown are those of the requests in handle_stream.
THEOREM GuardsSpanTasks == Spec => []GuardSpansTask
<1>1. ServerInv => GuardSpansTask
  BY DEF ServerInv
<1> QED BY ServerInvariant, <1>1, PTL

-----------------------------------------------------------------------------
(* The refinement of DrainContract *)

Through == {c \in Conns : conn[c] = "spawn"}
Verdict == [k \in Callers |->
              CASE wait[k] = "ok" -> "ok"
                [] wait[k] = "err" -> "timeout"
                [] OTHER -> "none"]

LEMMA InitIsContractInit == Init => Contract!Init
  BY DEF Init, TrackerInit, Contract!Init, Guards, Streams, Callers

\* A step that moves no acceptor past the gate, no guard, no flag and no
\* verdict is invisible to the contract.
LEMMA Invisible ==
  ASSUME Through' = Through, Guards' = Guards, isShuttingDown' = isShuttingDown,
         Verdict' = Verdict
  PROVE  UNCHANGED Contract!contractVars
  BY DEF Contract!contractVars, Through, Verdict

\* What each part of the state leaves of the mapped variables.
LEMMA SameVerdict == wait' = wait => Verdict' = Verdict
  BY DEF Verdict
LEMMA SameGuards == task' = task => Guards' = Guards
  BY DEF Guards

\* Acceptors: CheckFlag admits, SpawnStreamTask starts, the others are invisible.
LEMMA ConnRefines ==
  ASSUME ServerInv, NEW c \in Conns,
         \/ CloseConnection(c) \/ Accept(c) \/ HookReturns(c) \/ ConnStep(c)
         \/ \E s \in Streams : OpenStream(c, s)
  PROVE  [Contract!Next]_(Contract!contractVars)
<1> USE DEF ServerInv, ServerTypeOK, ConnGoto, ConnState, TrackerInv, TrackerTypeOK
<1>1. CASE CloseConnection(c) \/ Accept(c) \/ HookReturns(c) \/ EnterSelect(c)
           \/ StopAccepting(c) \/ AcceptFails(c)
  <2>1. UNCHANGED <<isShuttingDown, wait, task>> /\ Through' = Through
    BY <1>1 DEF CloseConnection, Accept, HookReturns, EnterSelect, StopAccepting,
       AcceptFails, trackerVars, Through
  <2> QED BY <2>1, Invisible, SameVerdict, SameGuards
<1>2. ASSUME NEW s \in Streams, OpenStream(c, s) \/ AcceptStream(c, s)
      PROVE  UNCHANGED Contract!contractVars
  <2>1. UNCHANGED <<isShuttingDown, wait, task>> /\ Through' = Through
    BY <1>2 DEF OpenStream, AcceptStream, trackerVars, Through
  <2> QED BY <2>1, Invisible, SameVerdict, SameGuards
<1>3. ASSUME NEW s \in Streams, CheckFlag(c, s)
      PROVE  [Contract!Next]_(Contract!contractVars)
  <2>1. UNCHANGED <<isShuttingDown, wait, task>>
    BY <1>3 DEF CheckFlag, trackerVars
  <2>2. CASE isShuttingDown
    <3>1. Through' = Through
      BY <1>3, <2>2 DEF CheckFlag, Through
    <3> QED BY <2>1, <3>1, Invisible, SameVerdict, SameGuards
  <2>3. CASE ~isShuttingDown
    <3>1. c \notin Through /\ Through' = Through \cup {c}
      BY <1>3, <2>3 DEF CheckFlag, Through
    <3>2. Contract!Admit(c)
      BY <2>1, <2>3, <3>1, SameVerdict, SameGuards DEF Contract!Admit, Through, Verdict
    <3> QED BY <3>2 DEF Contract!Next
  <2> QED BY <2>2, <2>3
<1>4. ASSUME NEW s \in Streams, SpawnStreamTask(c, s)
      PROVE  Contract!Next
  <2>1. c \in Through /\ Through' = Through \ {c}
    BY <1>4 DEF SpawnStreamTask, Through
  <2>2. s \notin Guards /\ Guards' = Guards \cup {s}
    BY <1>4, IncrementKeepsInv DEF SpawnStreamTask, Increment, Guards, Streams
  <2>3. isShuttingDown' = isShuttingDown /\ wait' = wait
    BY <1>4 DEF SpawnStreamTask, Increment
  <2>4. Contract!Start(c, s)
    BY <2>1, <2>2, <2>3, SameVerdict DEF Contract!Start, Through, Verdict
  <2> QED BY <2>4 DEF Contract!Next
<1> QED BY <1>1, <1>2, <1>3, <1>4 DEF ConnStep

\* Tasks: EndTask finishes the operation, the others are invisible.
LEMMA TaskRefines ==
  ASSUME ServerInv, NEW s \in Streams, TaskStep(s)
  PROVE  [Contract!Next]_(Contract!contractVars)
<1>1. CASE RejectRequest(s) \/ StartRpc(s) \/ AnswerRpc(s) \/ PanicRpc(s)
           \/ DetachHandler(s)
  <2>1. UNCHANGED <<isShuttingDown, wait, task, conn>>
    BY <1>1 DEF RejectRequest, StartRpc, AnswerRpc, PanicRpc, DetachHandler,
       taskUnchanged, trackerVars
  <2> QED BY <2>1, Invisible, SameVerdict, SameGuards DEF Through
<1>2. CASE EndTask(s)
  <2>1. s \in Guards /\ Guards' = Guards \ {s}
    BY <1>2, DropKeepsInv DEF EndTask, ServerInv, Streams
  <2>2. UNCHANGED <<isShuttingDown, wait, conn>>
    BY <1>2 DEF EndTask, DropGuard
  <2>3. Contract!Finish(s)
    BY <2>1, <2>2 DEF Contract!Finish
  <2> QED BY <2>3 DEF Contract!Next
<1>3. CASE NotifyLast(s)
  <2>1. Guards' = Guards
    BY <1>3, NotifyKeepsInv DEF NotifyLast, ServerInv, Streams
  <2>2. UNCHANGED <<isShuttingDown, wait, conn>>
    BY <1>3 DEF NotifyLast, NotifyCompletion, serverVars
  <2> QED BY <2>1, <2>2, Invisible, SameVerdict DEF Through
<1> QED BY <1>1, <1>2, <1>3 DEF TaskStep

LEMMA HandlerRefines ==
  ASSUME NEW s \in Streams, HandlerStep(s) \/ HandlerReturns(s)
  PROVE  UNCHANGED Contract!contractVars
<1>1. UNCHANGED <<isShuttingDown, wait, task, conn>>
  BY DEF HandlerStep, HandlerReturns, AwaitShutdown, ResumeWork, HearShutdown,
     handlerUnchanged, trackerVars
<1> QED BY <1>1, Invisible, SameVerdict, SameGuards DEF Through

\* Callers: a count of 0 succeeds, a passed deadline gives up.
LEMMA CallerRefines ==
  ASSUME ServerInv, NEW k \in Callers,
         StoreFlag(k) \/ CallerStep(k) \/ TimeoutElapses(k)
  PROVE  [Contract!Next]_(Contract!contractVars)
<1> USE DEF ServerInv, TrackerInv, TrackerTypeOK, Callers
<1>1. CASE StoreFlag(k)
  <2>1. UNCHANGED <<wait, task, conn>> /\ isShuttingDown' = TRUE
    BY <1>1 DEF StoreFlag, trackerVars
  <2>2. Contract!Stop
    BY <2>1, SameVerdict, SameGuards DEF Contract!Stop, Verdict
  <2> QED BY <2>2 DEF Contract!Next
<1>2. CASE SignalShutdown(k)
  <2>1. UNCHANGED <<isShuttingDown, task, conn>>
    BY <1>2 DEF SignalShutdown, CallWait
  <2>2. Verdict' = Verdict
    BY <1>2 DEF SignalShutdown, CallWait, Goto, Verdict, WaitState
  <2> QED BY <2>1, <2>2, Invisible, SameGuards DEF Through
<1>3. CASE AwaitTasks(k) \/ TimeoutElapses(k)
  <2>1. UNCHANGED <<isShuttingDown, task, conn>>
    BY <1>3 DEF AwaitTasks, TimeoutElapses, serverVars, WaitStep, FirstCheck, LoopCheck,
       Arm, Wake, Deadline
  <2>2. isShuttingDown
    BY <1>3 DEF AwaitTasks, TimeoutElapses, WaitStep, FirstCheck, LoopCheck, Arm, Wake,
       Deadline, Goto, WaitsAfterFlag
  <2>3. /\ wait[k] \notin {"ok", "err"}
        /\ \A j \in Callers : j # k => wait'[j] = wait[j]
        /\ wait' \in [Callers -> WaitState]
    BY <1>3 DEF AwaitTasks, TimeoutElapses, WaitStep, FirstCheck, LoopCheck, Arm, Wake,
       Deadline, Goto, WaitState
  <2>4. CASE wait'[k] = "ok"
    <3>1. activeTasks = 0
      BY <1>3, <2>3, <2>4 DEF AwaitTasks, TimeoutElapses, WaitStep, FirstCheck,
         LoopCheck, Arm, Wake, Deadline, Goto
    <3>2. Guards = {}
      BY <3>1, GuardsFinite, FS_EmptySet DEF CounterCountsGuards
    <3>3. Verdict[k] = "none" /\ Verdict' = [Verdict EXCEPT ![k] = "ok"]
      BY <2>3, <2>4 DEF Verdict
    <3>4. Contract!Succeed(k)
      BY <2>1, <2>2, <3>2, <3>3, SameGuards DEF Contract!Succeed, Verdict
    <3> QED BY <3>4 DEF Contract!Next
  <2>5. CASE wait'[k] = "err"
    <3>1. Verdict[k] = "none" /\ Verdict' = [Verdict EXCEPT ![k] = "timeout"]
      BY <2>3, <2>5 DEF Verdict
    <3>2. Contract!GiveUp(k)
      BY <2>1, <2>2, <3>1, SameGuards DEF Contract!GiveUp, Verdict
    <3> QED BY <3>2 DEF Contract!Next
  <2>6. CASE wait'[k] \notin {"ok", "err"}
    <3>1. Verdict' = Verdict
      BY <2>3, <2>6 DEF Verdict
    <3> QED BY <2>1, <3>1, Invisible, SameGuards DEF Through
  <2> QED BY <2>4, <2>5, <2>6
<1> QED BY <1>1, <1>2, <1>3 DEF CallerStep

\* Every step of the server is a step of the contract or a stutter: after
\* shutdown has begun an acceptor starts at most the one task it had already let
\* through, and Ok is returned only when no tracked task is alive.
THEOREM ServerKeepsContract == Spec => KeepsContract
<1>1. ServerInv /\ [Next]_vars => [Contract!Next]_(Contract!contractVars)
  <2> SUFFICES ASSUME ServerInv, [Next]_vars
               PROVE  [Contract!Next]_(Contract!contractVars)
    OBVIOUS
  <2>1. CASE UNCHANGED vars
    <3>1. UNCHANGED <<isShuttingDown, wait, task, conn>>
      BY <2>1 DEF vars, serverVars, trackerVars
    <3> QED BY <3>1, Invisible, SameVerdict, SameGuards DEF Through
  <2> QED BY <2>1, ConnRefines, TaskRefines, HandlerRefines, CallerRefines DEF Next
<1> QED BY InitIsContractInit, ServerInvariant, <1>1, PTL
        DEF Spec, KeepsContract, Contract!Spec
-----------------------------------------------------------------------------
(* Who may miss the signal *)

\* An acceptor or a callback that waits for the signal of a shutdown that has
\* begun, when no shutdown call has its notify_waiters() still to do.
Unheard(p) ==
  /\ p \in signalWaiters
  /\ isShuttingDown
  /\ \A k \in Callers : shut[k] # "stored"

(***************************************************************************)
(* Notify keeps no signal for later, so an acceptor or a callback that     *)
(* comes to its select! after the last signal waits for one that was given.*)
(* Those are the only ones: the flag is stored before the signal goes out, *)
(* and so whoever waits already when shutdown begins is woken by it.       *)
(***************************************************************************)
OnlyLatecomersMissIt ==
  [][\A p \in Conns \cup Streams : p \in signalWaiters /\ Unheard(p)' => Unheard(p)]_vars

\* Nobody who waits is passed over by the two steps of shutdown.
THEOREM WaitingPartiesHear == Spec => OnlyLatecomersMissIt
<1>1. ASSUME ServerInv, [Next]_vars, NEW p \in Conns \cup Streams,
             p \in signalWaiters, Unheard(p)'
      PROVE  Unheard(p)
  <2> USE DEF Unheard
  <2>1. ASSUME UNCHANGED <<isShuttingDown, shut>> PROVE Unheard(p)
    BY <1>1, <2>1
  <2>2. CASE UNCHANGED vars
    BY <2>1, <2>2 DEF vars, serverVars
  <2>3. ASSUME NEW c \in Conns, NEW s \in Streams,
               OpenStream(c, s) \/ AcceptStream(c, s) \/ CheckFlag(c, s) \/ SpawnStreamTask(c, s)
        PROVE  Unheard(p)
    BY <2>1, <2>3 DEF OpenStream, AcceptStream, CheckFlag, SpawnStreamTask
  <2>4. ASSUME NEW c \in Conns,
               \/ CloseConnection(c) \/ Accept(c) \/ HookReturns(c) \/ EnterSelect(c)
               \/ StopAccepting(c) \/ AcceptFails(c)
        PROVE  Unheard(p)
    BY <2>1, <2>4 DEF CloseConnection, Accept, HookReturns, EnterSelect, StopAccepting,
       AcceptFails
  <2>5. ASSUME NEW s \in Streams, TaskStep(s) \/ HandlerStep(s) \/ HandlerReturns(s)
        PROVE  Unheard(p)
    BY <2>1, <2>5 DEF TaskStep, RejectRequest, StartRpc, AnswerRpc, PanicRpc, DetachHandler,
       EndTask, NotifyLast, HandlerStep, AwaitShutdown, ResumeWork, HearShutdown,
       HandlerReturns, taskUnchanged, handlerUnchanged, serverVars
  <2>6. ASSUME NEW k \in Callers, StoreFlag(k) PROVE FALSE
    <3>1. shut'[k] = "stored"
      BY <1>1, <2>6 DEF StoreFlag, ServerInv, ServerTypeOK
    <3> QED BY <1>1, <3>1
  <2>7. ASSUME NEW k \in Callers, SignalShutdown(k) PROVE FALSE
    BY <1>1, <2>7 DEF SignalShutdown
  <2>8. ASSUME NEW k \in Callers, AwaitTasks(k) \/ TimeoutElapses(k) PROVE Unheard(p)
    BY <2>1, <2>8 DEF AwaitTasks, TimeoutElapses, serverVars
  <2> QED BY <1>1, <2>2, <2>3, <2>4, <2>5, <2>6, <2>7, <2>8 DEF Next, ConnStep, CallerStep
<1>2. ServerInv /\ [Next]_vars
      => [\A p \in Conns \cup Streams : p \in signalWaiters /\ Unheard(p)' => Unheard(p)]_vars
  BY <1>1
<1> QED BY ServerInvariant, <1>2, PTL DEF Spec, OnlyLatecomersMissIt
-----------------------------------------------------------------------------
(* What becomes of the acceptors and of the streams they have not taken    *)

\* The steps a connection_handler has left once it can no longer pass the gate;
\* one that has passed it comes round its loop once more.
AcceptorLeft(p) ==
  CASE p = "idle" -> 5
    [] p \in {"hook", "spawn"} -> 4
    [] p = "arming" -> 3
    [] p = "select" -> 2
    [] p = "check" -> 1
    [] p = "done" -> 0

(***************************************************************************)
(* From the store of is_shutting_down on, every step of an acceptor brings *)
(* it nearer its end: the loop cannot be gone round again, so an acceptor  *)
(* takes at most five more steps and spawns at most the one task it was    *)
(* about to, however many streams its peer opens.  MissedSignalIsCaught-   *)
(* Later adds that the runtime takes those steps.                          *)
(***************************************************************************)
AcceptorsWindDown ==
  [][isShuttingDown =>
       \A c \in Conns :
         conn'[c] # conn[c] => AcceptorLeft(conn'[c]) < AcceptorLeft(conn[c])]_vars

\* The steps that move acceptors, and those that do not.
LEMMA OthersLeaveAcceptors ==
  ASSUME \/ \E c \in Conns : CloseConnection(c)
         \/ \E c \in Conns, s \in Streams : OpenStream(c, s)
         \/ \E s \in Streams : TaskStep(s) \/ HandlerStep(s) \/ HandlerReturns(s)
         \/ \E k \in Callers : StoreFlag(k) \/ CallerStep(k) \/ TimeoutElapses(k)
         \/ UNCHANGED vars
  PROVE  UNCHANGED conn
<1>1. CASE \/ \E c \in Conns : CloseConnection(c)
           \/ \E c \in Conns, s \in Streams : OpenStream(c, s)
           \/ UNCHANGED vars
  BY <1>1 DEF CloseConnection, OpenStream, vars, serverVars
<1>2. ASSUME NEW s \in Streams, TaskStep(s) PROVE UNCHANGED conn
  BY <1>2 DEF TaskStep, RejectRequest, StartRpc, AnswerRpc, PanicRpc, DetachHandler,
     EndTask, NotifyLast, taskUnchanged, serverVars
<1>3. ASSUME NEW s \in Streams, HandlerStep(s) \/ HandlerReturns(s) PROVE UNCHANGED conn
  BY <1>3 DEF HandlerStep, AwaitShutdown, ResumeWork, HearShutdown, HandlerReturns,
     handlerUnchanged
<1>4. ASSUME NEW k \in Callers, StoreFlag(k) \/ CallerStep(k) \/ TimeoutElapses(k)
      PROVE  UNCHANGED conn
  BY <1>4 DEF StoreFlag, CallerStep, SignalShutdown, AwaitTasks, TimeoutElapses, serverVars
<1> QED BY <1>1, <1>2, <1>3, <1>4

\* Once the flag is set no acceptor starts its loop over.
THEOREM AcceptorsRunDown == Spec => AcceptorsWindDown
<1>1. ASSUME ServerInv, [Next]_vars, isShuttingDown, NEW c \in Conns, conn'[c] # conn[c]
      PROVE  AcceptorLeft(conn'[c]) < AcceptorLeft(conn[c])
  <2> USE DEF ConnGoto
  <2>1. conn \in [Conns -> ConnState]
    BY <1>1 DEF ServerInv, ServerTypeOK
  <2>2. ASSUME NEW d \in Conns,
               \/ Accept(d) \/ HookReturns(d) \/ EnterSelect(d) \/ StopAccepting(d)
               \/ AcceptFails(d)
        PROVE  /\ d = c
               /\ <<conn[c], conn'[c]>> \in {<<"idle", "hook">>, <<"hook", "arming">>,
                     <<"arming", "select">>, <<"select", "done">>}
    <3>1. d = c
      BY <1>1, <2>1, <2>2 DEF Accept, HookReturns, EnterSelect, StopAccepting, AcceptFails
    <3> QED BY <2>1, <2>2, <3>1 DEF Accept, HookReturns, EnterSelect, StopAccepting,
            AcceptFails
  <2>3. ASSUME NEW d \in Conns, NEW s \in Streams, AcceptStream(d, s)
        PROVE  conn[c] = "select" /\ conn'[c] = "check"
    BY <1>1, <2>1, <2>3 DEF AcceptStream
  <2>4. ASSUME NEW d \in Conns, NEW s \in Streams, CheckFlag(d, s)
        PROVE  conn[c] = "check" /\ conn'[c] = "done"
    BY <1>1, <2>1, <2>4 DEF CheckFlag
  <2>5. ASSUME NEW d \in Conns, NEW s \in Streams, SpawnStreamTask(d, s)
        PROVE  conn[c] = "spawn" /\ conn'[c] = "arming"
    BY <1>1, <2>1, <2>5 DEF SpawnStreamTask
  <2>6. <<conn[c], conn'[c]>> \in
          {<<"idle", "hook">>, <<"hook", "arming">>, <<"arming", "select">>,
           <<"select", "done">>, <<"select", "check">>, <<"check", "done">>,
           <<"spawn", "arming">>}
    BY <1>1, <2>2, <2>3, <2>4, <2>5, OthersLeaveAcceptors DEF Next, ConnStep
  <2> QED BY <2>6 DEF AcceptorLeft
<1>2. ServerInv /\ [Next]_vars
      => [isShuttingDown =>
            \A c \in Conns :
              conn'[c] # conn[c] => AcceptorLeft(conn'[c]) < AcceptorLeft(conn[c])]_vars
  BY <1>1
<1> QED BY ServerInvariant, <1>2, PTL DEF Spec, AcceptorsWindDown

(***************************************************************************)
(* A stream that no acceptor had taken when is_shutting_down was stored is *)
(* never handled: whichever acceptor takes it, and whatever else that      *)
(* acceptor had let through before, the stream gets no task and no service *)
(* callback.                                                               *)
(***************************************************************************)
LateStreamsAreRefused ==
  \A s \in Streams :
    [](isShuttingDown /\ stage[s] \in {"unopened", "queued"}
       => [](stage[s] \notin InTask /\ handler[s] = "none"))

BeforeTask == {"unopened", "queued", "taken", "refused"}

\* Only a task calls a service.
NoTaskNoHandler == \A s \in Streams : stage[s] \in BeforeTask => handler[s] = "none"

\* The stream can only be refused: if it is taken, its acceptor is not one
\* that has passed the gate.
Late(s) ==
  /\ isShuttingDown /\ handler[s] = "none"
  /\ \/ stage[s] \in {"unopened", "queued", "refused"}
     \/ stage[s] = "taken" /\ owner[s] \in Conns /\ conn[owner[s]] # "spawn"

LEMMA StepNoTaskNoHandler == ServerInv /\ NoTaskNoHandler /\ [Next]_vars => NoTaskNoHandler'
<1> SUFFICES ASSUME ServerInv, NoTaskNoHandler, [Next]_vars,
                    NEW r \in Streams, stage'[r] \in BeforeTask
             PROVE  handler'[r] = "none"
  BY DEF NoTaskNoHandler
<1> USE DEF NoTaskNoHandler, BeforeTask, StageGoto, HandlerGoto
<1>1. stage \in [Streams -> StreamStage] /\ handler \in [Streams -> HandlerState]
  BY DEF ServerInv, ServerTypeOK
<1>2. CASE \/ UNCHANGED vars
           \/ \E c \in Conns :
                \/ CloseConnection(c) \/ Accept(c) \/ HookReturns(c) \/ EnterSelect(c)
                \/ StopAccepting(c) \/ AcceptFails(c)
           \/ \E k \in Callers : StoreFlag(k) \/ CallerStep(k) \/ TimeoutElapses(k)
           \/ \E s \in Streams : NotifyLast(s)
  <2>1. UNCHANGED <<stage, handler>>
    BY <1>2 DEF vars, serverVars, CloseConnection, Accept, HookReturns, EnterSelect,
       StopAccepting, AcceptFails, StoreFlag, CallerStep, SignalShutdown, AwaitTasks,
       TimeoutElapses, NotifyLast
  <2> QED BY <2>1
<1>3. ASSUME NEW c \in Conns, NEW s \in Streams,
             \/ OpenStream(c, s) \/ AcceptStream(c, s) \/ CheckFlag(c, s)
             \/ SpawnStreamTask(c, s)
      PROVE  handler'[r] = "none"
  <2>1. stage[r] \in BeforeTask
    BY <1>1, <1>3 DEF OpenStream, AcceptStream, CheckFlag, SpawnStreamTask
  <2> QED BY <1>3, <2>1 DEF OpenStream, AcceptStream, CheckFlag, SpawnStreamTask
<1>4. ASSUME NEW s \in Streams,
             \/ RejectRequest(s) \/ StartRpc(s) \/ AnswerRpc(s) \/ PanicRpc(s)
             \/ DetachHandler(s) \/ EndTask(s)
      PROVE  handler'[r] = "none"
  <2>1. r # s /\ stage[r] \in BeforeTask
    BY <1>1, <1>4 DEF RejectRequest, StartRpc, AnswerRpc, PanicRpc, DetachHandler, EndTask
  <2> QED BY <1>1, <1>4, <2>1 DEF RejectRequest, StartRpc, AnswerRpc, PanicRpc,
          DetachHandler, EndTask
<1>5. ASSUME NEW s \in Streams, HandlerStep(s) \/ HandlerReturns(s)
      PROVE  handler'[r] = "none"
  <2>1. stage' = stage /\ handler[s] # "none"
    BY <1>5 DEF HandlerStep, AwaitShutdown, ResumeWork, HearShutdown, HandlerReturns,
       handlerUnchanged
  <2>2. r # s
    BY <2>1
  <2> QED BY <1>1, <1>5, <2>1, <2>2 DEF HandlerStep, AwaitShutdown, ResumeWork,
          HearShutdown, HandlerReturns
<1> QED BY <1>2, <1>3, <1>4, <1>5 DEF Next, ConnStep, TaskStep

LEMMA StepLate ==
  ASSUME NEW s \in Streams
  PROVE  ServerInv /\ Late(s) /\ [Next]_vars => Late(s)'
<1> SUFFICES ASSUME ServerInv, Late(s), [Next]_vars PROVE Late(s)'
  OBVIOUS
<1> USE DEF Late, StageGoto, ConnGoto, HandlerGoto
<1>1. /\ stage \in [Streams -> StreamStage] /\ handler \in [Streams -> HandlerState]
      /\ conn \in [Conns -> ConnState] /\ owner \in [Streams -> Conns \cup {NoConn}]
  BY DEF ServerInv, ServerTypeOK
<1>2. CASE \/ UNCHANGED vars
           \/ \E c \in Conns : CloseConnection(c)
           \/ \E r \in Streams : NotifyLast(r)
           \/ \E k \in Callers : StoreFlag(k) \/ CallerStep(k) \/ TimeoutElapses(k)
  <2>1. UNCHANGED <<stage, handler, conn, owner>>
    BY <1>2 DEF vars, serverVars, CloseConnection, StoreFlag, CallerStep, SignalShutdown,
       AwaitTasks, TimeoutElapses, NotifyLast
  <2>2. isShuttingDown'
    BY <1>2 DEF vars, serverVars, CloseConnection, StoreFlag, CallerStep, SignalShutdown,
       AwaitTasks, TimeoutElapses, NotifyLast
  <2> QED BY <2>1, <2>2
<1>3. ASSUME NEW c \in Conns,
             \/ Accept(c) \/ HookReturns(c) \/ EnterSelect(c) \/ StopAccepting(c)
             \/ AcceptFails(c)
      PROVE  Late(s)'
  <2>1. UNCHANGED <<isShuttingDown, stage, handler, owner>>
    BY <1>3 DEF Accept, HookReturns, EnterSelect, StopAccepting, AcceptFails
  <2>2. \A d \in Conns : conn'[d] = "spawn" => conn[d] = "spawn"
    BY <1>1, <1>3 DEF Accept, HookReturns, EnterSelect, StopAccepting,
       AcceptFails
  <2> QED BY <1>1, <2>1, <2>2
<1>4. ASSUME NEW c \in Conns, NEW r \in Streams, OpenStream(c, r)
      PROVE  Late(s)'
  BY <1>1, <1>4 DEF OpenStream
<1>5. ASSUME NEW c \in Conns, NEW r \in Streams, AcceptStream(c, r)
      PROVE  Late(s)'
  <2>1. CASE r = s
    BY <1>1, <1>5, <2>1 DEF AcceptStream
  <2>2. CASE r # s
    BY <1>1, <1>5, <2>2 DEF AcceptStream
  <2> QED BY <2>1, <2>2
<1>6. ASSUME NEW c \in Conns, NEW r \in Streams, CheckFlag(c, r)
      PROVE  Late(s)'
  <2>1. CASE r = s
    BY <1>1, <1>6, <2>1 DEF CheckFlag
  <2>2. CASE r # s
    BY <1>1, <1>6, <2>2 DEF CheckFlag
  <2> QED BY <2>1, <2>2
<1>7. ASSUME NEW c \in Conns, NEW r \in Streams, SpawnStreamTask(c, r)
      PROVE  Late(s)'
  <2>1. r # s
    BY <1>7 DEF SpawnStreamTask
  <2> QED BY <1>1, <1>7, <2>1 DEF SpawnStreamTask
<1>8. ASSUME NEW r \in Streams,
             \/ RejectRequest(r) \/ StartRpc(r) \/ AnswerRpc(r) \/ PanicRpc(r)
             \/ DetachHandler(r) \/ EndTask(r)
      PROVE  Late(s)'
  <2>1. r # s
    BY <1>8 DEF RejectRequest, StartRpc, AnswerRpc, PanicRpc, DetachHandler, EndTask
  <2>2. UNCHANGED <<isShuttingDown, conn, owner>>
    BY <1>8 DEF RejectRequest, StartRpc, AnswerRpc, PanicRpc, DetachHandler, EndTask,
       taskUnchanged
  <2>3. stage'[s] = stage[s] /\ handler'[s] = handler[s]
    BY <1>1, <1>8, <2>1 DEF RejectRequest, StartRpc, AnswerRpc, PanicRpc, DetachHandler,
       EndTask
  <2> QED BY <2>2, <2>3
<1>9. ASSUME NEW r \in Streams, HandlerStep(r) \/ HandlerReturns(r)
      PROVE  Late(s)'
  <2>1. handler[r] # "none" /\ UNCHANGED <<isShuttingDown, conn, owner, stage>>
    BY <1>9 DEF HandlerStep, AwaitShutdown, ResumeWork, HearShutdown, HandlerReturns,
       handlerUnchanged
  <2>2. handler'[s] = handler[s]
    BY <1>1, <1>9, <2>1 DEF HandlerStep, AwaitShutdown, ResumeWork, HearShutdown,
       HandlerReturns
  <2> QED BY <2>1, <2>2
<1> QED BY <1>2, <1>3, <1>4, <1>5, <1>6, <1>7, <1>8, <1>9 DEF Next, ConnStep, TaskStep

\* What comes after the flag is not served.
THEOREM LateStreamsGetNoService == Spec => LateStreamsAreRefused
<1>1. Init => NoTaskNoHandler
  BY DEF Init, NoTaskNoHandler
<1>2. ASSUME NEW s \in Streams
      PROVE  Spec => [](isShuttingDown /\ stage[s] \in {"unopened", "queued"}
                          => [](stage[s] \notin InTask /\ handler[s] = "none"))
  <2>1. NoTaskNoHandler /\ isShuttingDown /\ stage[s] \in {"unopened", "queued"} => Late(s)
    BY DEF NoTaskNoHandler, BeforeTask, Late
  <2>2. Late(s) => stage[s] \notin InTask /\ handler[s] = "none"
    BY DEF Late, InTask
  <2>3. ServerInv /\ Late(s) /\ [Next]_vars => Late(s)'
    BY StepLate
  <2> QED BY <1>1, <2>1, <2>2, <2>3, StepNoTaskNoHandler, ServerInvariant, PTL DEF Spec
<1>3. Spec => \A s \in Streams :
                [](isShuttingDown /\ stage[s] \in {"unopened", "queued"}
                     => [](stage[s] \notin InTask /\ handler[s] = "none"))
  BY <1>2
<1> QED BY <1>3 DEF LateStreamsAreRefused
=============================================================================
