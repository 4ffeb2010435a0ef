------------------------------ MODULE RpcServer ------------------------------
(***************************************************************************)
(* The server side of zel_core: one connection_handler per connection      *)
(* (server.rs), one task per accepted request stream, the streaming        *)
(* handlers those tasks detach (handlers/*.rs), and graceful shutdown      *)
(* (mod.rs and ShutdownHandle in builder.rs), which meet at three shared   *)
(* objects: the flag is_shutting_down, the Notify shutdown_signal and the  *)
(* TaskTracker.  A tracked task is a request stream.                       *)
(*                                                                         *)
(* As in TaskTracker, a Notify is the set of parties that hold a Notified  *)
(* created since its last notify_waiters(): acceptors in their select! and *)
(* handlers waiting in RequestContext::shutdown_notified.                  *)
(***************************************************************************)
EXTENDS TaskTracker

CONSTANTS Conns,      \* connections the router may hand to accept()
          NoConn      \* the connection of a stream nobody has opened

ASSUME PartiesDisjoint == NoConn \notin Conns /\ Conns \cap Tasks = {}

Streams == Tasks
Callers == Waiters

VARIABLES
  isShuttingDown,  \* AtomicBool
  signalWaiters,   \* Notifieds on shutdown_signal not yet woken
  shut,            \* each shutdown call, up to its wait_for_completion
  conn,            \* where each connection_handler is
  closed,          \* connections the peer or the transport has closed
  owner,           \* the connection a stream was opened on
  stage,           \* where each request stream is
  handler          \* the service callback of each stream

serverVars == <<isShuttingDown, signalWaiters, shut, conn, closed, owner, stage,
                handler>>
vars == <<serverVars, trackerVars>>

ConnState == {"idle", "hook", "arming", "select", "check", "spawn", "done"}

\* "taken": returned by accept_bi; "refused": dropped by the flag check;
\* "reading" to "returning": inside handle_stream; "over": its guard dropped.
InTask == {"reading", "rpc", "returning"}
StreamStage == {"unopened", "queued", "taken", "refused", "over"} \cup InTask

\* "waiting": in the handler's own select! on shutdown_notified().
HandlerState == {"none", "busy", "waiting", "exited"}

TypeOK ==
  /\ TrackerTypeOK
  /\ isShuttingDown \in BOOLEAN
  /\ signalWaiters \subseteq Conns \cup Streams
  /\ shut \in [Callers -> {"idle", "stored", "signalled"}]
  /\ conn \in [Conns -> ConnState]
  /\ closed \subseteq Conns
  /\ owner \in [Streams -> Conns \cup {NoConn}]
  /\ stage \in [Streams -> StreamStage]
  /\ handler \in [Streams -> HandlerState]

Init ==
  /\ TrackerInit
  /\ isShuttingDown = FALSE
  /\ signalWaiters = {}
  /\ shut = [k \in Callers |-> "idle"]
  /\ conn = [c \in Conns |-> "idle"]
  /\ closed = {}
  /\ owner = [s \in Streams |-> NoConn]
  /\ stage = [s \in Streams |-> "unopened"]
  /\ handler = [s \in Streams |-> "none"]

ConnGoto(c, from, to) ==
  /\ conn[c] = from
  /\ conn' = [conn EXCEPT ![c] = to]

StageGoto(s, from, to) ==
  /\ stage[s] = from
  /\ stage' = [stage EXCEPT ![s] = to]
-----------------------------------------------------------------------------
(* The peer: opens request streams, and may close the connection. *)

OpenStream(c, s) ==
  /\ conn[c] # "idle" /\ c \notin closed
  /\ StageGoto(s, "unopened", "queued")
  /\ owner' = [owner EXCEPT ![s] = c]
  /\ UNCHANGED <<trackerVars, isShuttingDown, signalWaiters, shut, conn, closed,
                 handler>>

CloseConnection(c) ==
  /\ conn[c] # "idle" /\ c \notin closed
  /\ closed' = closed \cup {c}
  /\ UNCHANGED <<trackerVars, isShuttingDown, signalWaiters, shut, conn, owner,
                 stage, handler>>
-----------------------------------------------------------------------------
(* connection_handler *)

\* accept() spawns connection_handler whatever the flag says.
Accept(c) ==
  /\ ConnGoto(c, "idle", "hook")
  /\ UNCHANGED <<trackerVars, isShuttingDown, signalWaiters, shut, closed, owner,
                 stage, handler>>

\* The connection hook returned, with extensions or with an error: both go on.
HookReturns(c) ==
  /\ ConnGoto(c, "hook", "arming")
  /\ UNCHANGED <<trackerVars, isShuttingDown, signalWaiters, shut, closed, owner,
                 stage, handler>>

\* A round of the loop: select! creates a fresh Notified, then polls.
EnterSelect(c) ==
  /\ ConnGoto(c, "arming", "select")
  /\ signalWaiters' = signalWaiters \cup {c}
  /\ UNCHANGED <<trackerVars, isShuttingDown, shut, closed, owner, stage, handler>>

\* The shutdown branch: the Notified was woken.
StopAccepting(c) ==
  /\ ConnGoto(c, "select", "done")
  /\ c \notin signalWaiters
  /\ UNCHANGED <<trackerVars, isShuttingDown, signalWaiters, shut, closed, owner,
                 stage, handler>>

\* The accept_bi branch with a stream; select! drops the other branch's Notified.
AcceptStream(c, s) ==
  /\ ConnGoto(c, "select", "check")
  /\ owner[s] = c
  /\ StageGoto(s, "queued", "taken")
  /\ signalWaiters' = signalWaiters \ {c}
  /\ UNCHANGED <<trackerVars, isShuttingDown, shut, closed, owner, handler>>

\* The accept_bi branch with an error: the loop breaks whatever the flag says.
AcceptFails(c) ==
  /\ ConnGoto(c, "select", "done")
  /\ c \in closed
  /\ signalWaiters' = signalWaiters \ {c}
  /\ UNCHANGED <<trackerVars, isShuttingDown, shut, closed, owner, stage, handler>>

\* Variant: the flag is not looked at again after accept_bi.
CheckFlag_Skipped(c, s) ==
  /\ owner[s] = c /\ stage[s] = "taken"
  /\ ConnGoto(c, "check", "spawn")
  /\ UNCHANGED <<trackerVars, isShuttingDown, signalWaiters, shut, closed, owner,
                 stage, handler>>

\* is_shutting_down.load(): set, the stream is dropped unanswered and the loop ends.
CheckFlag(c, s) ==
  /\ owner[s] = c /\ stage[s] = "taken"
  /\ IF isShuttingDown
     THEN ConnGoto(c, "check", "done") /\ StageGoto(s, "taken", "refused")
     ELSE ConnGoto(c, "check", "spawn") /\ UNCHANGED stage
  /\ UNCHANGED <<trackerVars, isShuttingDown, signalWaiters, shut, closed, owner,
                 handler>>

\* task_tracker.increment(), then the task that owns the guard is spawned.
SpawnStreamTask(c, s) ==
  /\ owner[s] = c
  /\ ConnGoto(c, "spawn", "arming")
  /\ StageGoto(s, "taken", "reading")
  /\ Increment(s)
  /\ UNCHANGED <<isShuttingDown, signalWaiters, shut, closed, owner, handler>>

ConnStep(c) ==
  \/ EnterSelect(c) \/ StopAccepting(c) \/ AcceptFails(c)
  \/ \E s \in Streams : \/ AcceptStream(c, s) \/ CheckFlag(c, s)
                        \/ SpawnStreamTask(c, s)
-----------------------------------------------------------------------------
(* handle_stream, inside the tracked task.  What it writes to the peer is   *)
(* left to the modules of the client side.                                  *)

taskUnchanged == <<trackerVars, isShuttingDown, signalWaiters, shut, conn, closed,
                   owner>>

\* No request came, or it names no service or no resource, or the stream of a
\* subscription, notification or raw stream could not be set up or announced:
\* every one of these returns from handle_stream without calling a service.
RejectRequest(s) ==
  /\ StageGoto(s, "reading", "returning")
  /\ UNCHANGED <<taskUnchanged, handler>>

\* An RPC resource: its callback runs inside the task.
StartRpc(s) ==
  /\ StageGoto(s, "reading", "rpc")
  /\ handler' = [handler EXCEPT ![s] = "busy"]
  /\ UNCHANGED taskUnchanged

\* The RPC callback has returned and its result is written.
AnswerRpc(s) ==
  /\ handler[s] = "exited"
  /\ StageGoto(s, "rpc", "returning")
  /\ UNCHANGED <<taskUnchanged, handler>>

\* Variant: a panic in the callback loses the guard of the task.
PanicRpc_LeaksGuard(s) ==
  /\ handler[s] = "busy"
  /\ StageGoto(s, "rpc", "over")
  /\ handler' = [handler EXCEPT ![s] = "exited"]
  /\ UNCHANGED taskUnchanged

\* The RPC callback panics: the task unwinds, and its guard is dropped with it.
PanicRpc(s) ==
  /\ handler[s] = "busy"
  /\ StageGoto(s, "rpc", "returning")
  /\ handler' = [handler EXCEPT ![s] = "exited"]
  /\ UNCHANGED taskUnchanged

\* A streaming resource: the peer has its answer, and tokio::spawn starts the
\* handler as a task that takes no guard with it.
DetachHandler(s) ==
  /\ StageGoto(s, "reading", "returning")
  /\ handler' = [handler EXCEPT ![s] = "busy"]
  /\ UNCHANGED taskUnchanged

\* The task ends and its guard is dropped.
EndTask(s) ==
  /\ StageGoto(s, "returning", "over")
  /\ DropGuard(s)
  /\ UNCHANGED <<isShuttingDown, signalWaiters, shut, conn, closed, owner, handler>>

NotifyLast(s) == NotifyCompletion(s) /\ UNCHANGED serverVars

TaskStep(s) ==
  \/ RejectRequest(s) \/ StartRpc(s) \/ AnswerRpc(s) \/ PanicRpc(s)
  \/ DetachHandler(s) \/ EndTask(s) \/ NotifyLast(s)
-----------------------------------------------------------------------------
(* A service callback, as context.rs recommends it: rounds of work and of a *)
(* select! on shutdown_notified().                                          *)

handlerUnchanged == <<trackerVars, isShuttingDown, shut, conn, closed, owner, stage>>

HandlerGoto(s, from, to) ==
  /\ handler[s] = from
  /\ handler' = [handler EXCEPT ![s] = to]

AwaitShutdown(s) ==
  /\ HandlerGoto(s, "busy", "waiting")
  /\ signalWaiters' = signalWaiters \cup {s}
  /\ UNCHANGED handlerUnchanged

\* Another branch of the handler's select! is taken; its Notified is dropped,
\* woken or not.
ResumeWork(s) ==
  /\ HandlerGoto(s, "waiting", "busy")
  /\ signalWaiters' = signalWaiters \ {s}
  /\ UNCHANGED handlerUnchanged

HearShutdown(s) ==
  /\ HandlerGoto(s, "waiting", "exited")
  /\ s \notin signalWaiters
  /\ UNCHANGED <<handlerUnchanged, signalWaiters>>

\* The handler has nothing left to do, or its stream failed.
HandlerReturns(s) ==
  /\ HandlerGoto(s, "busy", "exited")
  /\ UNCHANGED <<handlerUnchanged, signalWaiters>>

HandlerStep(s) == AwaitShutdown(s) \/ ResumeWork(s) \/ HearShutdown(s)
-----------------------------------------------------------------------------
(* shutdown(timeout), on the server or on a clone of its handle *)

StoreFlag(k) ==
  /\ shut[k] = "idle"
  /\ shut' = [shut EXCEPT ![k] = "stored"]
  /\ isShuttingDown' = TRUE
  /\ UNCHANGED <<trackerVars, signalWaiters, conn, closed, owner, stage, handler>>

\* shutdown_signal.notify_waiters(), then wait_for_completion is called.
SignalShutdown(k) ==
  /\ shut[k] = "stored"
  /\ shut' = [shut EXCEPT ![k] = "signalled"]
  /\ signalWaiters' = {}
  /\ CallWait(k)
  /\ UNCHANGED <<isShuttingDown, conn, closed, owner, stage, handler>>

AwaitTasks(k) == WaitStep(k) /\ UNCHANGED serverVars

TimeoutElapses(k) == Deadline(k) /\ UNCHANGED serverVars

CallerStep(k) == SignalShutdown(k) \/ AwaitTasks(k)
-----------------------------------------------------------------------------
Next ==
  \/ \E c \in Conns :
       \/ CloseConnection(c) \/ Accept(c) \/ HookReturns(c) \/ ConnStep(c)
       \/ \E s \in Streams : OpenStream(c, s)
  \/ \E s \in Streams : TaskStep(s) \/ HandlerStep(s) \/ HandlerReturns(s)
  \/ \E k \in Callers : StoreFlag(k) \/ CallerStep(k) \/ TimeoutElapses(k)

Spec == Init /\ [][Next]_vars

(***************************************************************************)
(* The runtime polls what is ready, and the shutdown deadline is a timer.  *)
(* Nothing is assumed of the peer, of the connection hook, of when a       *)
(* callback returns, or of when a request arrives.                         *)
(***************************************************************************)
Fairness ==
  /\ \A c \in Conns : WF_vars(ConnStep(c))
  /\ \A s \in Streams : WF_vars(HandlerStep(s)) /\ WF_vars(EndTask(s) \/ NotifyLast(s))
  /\ \A k \in Callers : WF_vars(CallerStep(k)) /\ WF_vars(TimeoutElapses(k))

FairSpec == Spec /\ Fairness
-----------------------------------------------------------------------------
(* Properties *)

\* A stream between spawn and the end of its task holds its guard and no other
\* does: the count seen by shutdown covers every request still being handled.
GuardSpansTask == \A s \in Streams : stage[s] \in InTask <=> task[s] = "live"

\* Seen from outside, the server keeps the contract of graceful shutdown.
Contract ==
  INSTANCE DrainContract WITH
    Acceptors <- Conns,
    Operations <- Streams,
    stopping <- isShuttingDown,
    through <- {c \in Conns : conn[c] = "spawn"},
    running <- Guards,
    verdict <- [k \in Callers |->
                  CASE wait[k] = "ok" -> "ok"
                    [] wait[k] = "err" -> "timeout"
                    [] OTHER -> "none"]

\* Once shutdown has begun no stream passes the gate; each acceptor that had
\* passed it starts at most the one task it was about to; Ok is returned only
\* with no tracked task alive.
KeepsContract == Contract!Spec

\* Composed with the server, the tracker's steps are still the tracker's.
KeepsTracker == TrackerSpec

\* Every shutdown call returns.
ShutdownReturns ==
  \A k \in Callers : (shut[k] = "stored") ~> (wait[k] \in {"ok", "err"})

\* An acceptor that missed the signal still ends at the next thing its peer
\* does: a queued stream or a closed connection makes it look at the flag.
MissedSignalIsCaughtLater ==
  \A c \in Conns :
    (/\ isShuttingDown /\ conn[c] \in {"arming", "select"}
     /\ (c \in closed \/ \E s \in Streams : stage[s] = "queued" /\ owner[s] = c))
    ~> (conn[c] = "done")

\* "Wait for active operations to complete": a shutdown that returned Ok leaves
\* no service callback running.
OkMeansIdle ==
  \A k \in Callers : wait[k] = "ok" =>
    \A s \in Streams : handler[s] \notin {"busy", "waiting"}

\* "Use this in select! to react to graceful shutdown": a callback that keeps
\* returning to shutdown_notified() hears of a shutdown that has been signalled.
EveryHandlerHears ==
  \A k \in Callers, s \in Streams :
    (shut[k] = "signalled" /\ handler[s] \in {"busy", "waiting"})
    ~> (handler[s] = "exited")
=============================================================================
