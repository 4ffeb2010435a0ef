----------------------------- MODULE IrohBundle -----------------------------
(***************************************************************************)
(* The end of an IrohBundle: shutdown(), which tells the shutdown          *)
(* subscribers, waits for their replies up to a timeout and shuts the      *)
(* router down, and shutdown_with_handle(), which shuts the RPC server     *)
(* down first.  Both consume the bundle: exactly one of them runs, once.   *)
(*                                                                         *)
(* The RPC server's part is ShutdownHandle::shutdown: Ok, or Err when its  *)
(* timeout elapses (RpcServer).                                            *)
(***************************************************************************)
EXTENDS Naturals, Sequences

CONSTANT Listeners     \* how many subscribe_shutdown() calls were made

VARIABLES
  phase,       \* where the shutdown is
  withHandle,  \* shutdown_with_handle() was called
  notified,    \* how many senders the loop has gone through
  listener,    \* the task behind each ShutdownListener
  reply,       \* what shutdown() has to wait for, per subscriber
  rpc,         \* what the RPC server's shutdown returned
  timedOut,    \* the subscribers' timeout elapsed
  cut          \* the connections of the endpoint are closed

vars == <<phase, withHandle, notified, listener, reply, rpc, timedOut, cut>>

Subscribers == 1..Listeners

TypeOK ==
  /\ phase \in {"running", "rpc", "notifying", "waiting", "router", "ok", "err"}
  /\ withHandle \in BOOLEAN
  /\ notified \in 0..Listeners
  /\ listener \in [Subscribers -> {"listening", "deaf", "cleanup", "replied", "told nothing"}]
  /\ reply \in [Subscribers -> {"none", "awaited", "over"}]
  /\ rpc \in {"none", "ok", "timeout"}
  /\ timedOut \in BOOLEAN /\ cut \in BOOLEAN

\* finish(): the router is spawned; a listener may already have been dropped.
Init ==
  /\ phase = "running" /\ withHandle \in BOOLEAN
  /\ notified = 0
  /\ listener = [s \in Subscribers |-> "listening"]
  /\ reply = [s \in Subscribers |-> "none"]
  /\ rpc = "none" /\ timedOut = FALSE /\ cut = FALSE
-----------------------------------------------------------------------------
(* The subscribers *)

bundleUnchanged == <<phase, withHandle, notified, rpc, timedOut, cut>>

\* A listener is dropped without having heard.
DropListener(s) ==
  /\ listener[s] = "listening"
  /\ listener' = [listener EXCEPT ![s] = "deaf"]
  /\ UNCHANGED <<bundleUnchanged, reply>>

\* complete(), after the clean-up, or the replier is dropped without it: the
\* one resolves the receiver as well as the other.
Reply(s) ==
  /\ listener[s] = "cleanup"
  /\ listener' = [listener EXCEPT ![s] = "replied"]
  /\ reply' = [reply EXCEPT ![s] = "over"]
  /\ UNCHANGED bundleUnchanged
-----------------------------------------------------------------------------
(* The shutdown *)

Begin ==
  /\ phase = "running"
  /\ phase' = IF withHandle THEN "rpc" ELSE "notifying"
  /\ UNCHANGED <<withHandle, notified, listener, reply, rpc, timedOut, cut>>

\* shutdown_handle.shutdown(rpc_timeout).await?: on Err the bundle is dropped
\* there and then, senders and router with it.  What a dropped router does to
\* the endpoint is iroh's affair.
RpcShutdown ==
  /\ phase = "rpc"
  /\ \/ /\ rpc' = "ok" /\ phase' = "notifying"
        /\ UNCHANGED listener
     \/ /\ rpc' = "timeout" /\ phase' = "err"
        /\ listener' = [s \in Subscribers |->
                          IF listener[s] = "listening" THEN "told nothing" ELSE listener[s]]
  /\ UNCHANGED <<withHandle, notified, reply, timedOut, cut>>

\* Variant: the loop stops at the first listener that is gone.
NotifyNext_StopsAtDeaf ==
  /\ phase = "notifying" /\ notified < Listeners
  /\ LET s == notified + 1 IN
     IF listener[s] = "deaf"
     THEN notified' = Listeners /\ UNCHANGED <<listener, reply>>
     ELSE /\ notified' = s
          /\ listener' = [listener EXCEPT ![s] = "cleanup"]
          /\ reply' = [reply EXCEPT ![s] = "awaited"]
  /\ UNCHANGED <<phase, withHandle, rpc, timedOut, cut>>

\* The loop over the subscribers: those whose listener is gone are skipped.
NotifyNext ==
  /\ phase = "notifying" /\ notified < Listeners
  /\ LET s == notified + 1 IN
     /\ notified' = s
     /\ IF listener[s] = "deaf"
        THEN UNCHANGED <<listener, reply>>
        ELSE /\ listener' = [listener EXCEPT ![s] = "cleanup"]
             /\ reply' = [reply EXCEPT ![s] = "awaited"]
  /\ UNCHANGED <<phase, withHandle, rpc, timedOut, cut>>

JoinReplies ==
  /\ phase = "notifying" /\ notified = Listeners
  /\ phase' = "waiting"
  /\ UNCHANGED <<withHandle, notified, listener, reply, rpc, timedOut, cut>>

\* join_all: every replier was completed or dropped.
RepliesIn ==
  /\ phase = "waiting"
  /\ \A s \in Subscribers : reply[s] # "awaited"
  /\ phase' = "router"
  /\ UNCHANGED <<withHandle, notified, listener, reply, rpc, timedOut, cut>>

\* Variant: there is no limit to the wait.
TimeoutElapses_Never == FALSE /\ UNCHANGED vars

TimeoutElapses ==
  /\ phase = "waiting"
  /\ timedOut' = TRUE
  /\ phase' = "router"
  /\ UNCHANGED <<withHandle, notified, listener, reply, rpc, cut>>

\* Router::shutdown closes the endpoint and every connection with it.
RouterShutdown ==
  /\ phase = "router"
  /\ cut' = TRUE
  /\ phase' = "ok"
  /\ UNCHANGED <<withHandle, notified, listener, reply, rpc, timedOut>>

BundleStep ==
  \/ RpcShutdown \/ NotifyNext \/ JoinReplies
  \/ RepliesIn \/ TimeoutElapses \/ RouterShutdown
-----------------------------------------------------------------------------
Next == Begin \/ BundleStep \/ \E s \in Subscribers : DropListener(s) \/ Reply(s)

\* The shutdown is polled and its timers fire; a subscriber may never reply.
Fairness == WF_vars(BundleStep)
-----------------------------------------------------------------------------
(* Properties *)

\* Nobody's clean-up is cut short but by the timeout: once the router is shut
\* down, every subscriber that still listened has been told and has let go of
\* its replier, and the RPC server has drained if it was asked to.  When it did
\* not drain in time, shutdown_with_handle() stops there: no subscriber is told,
\* and the router is not shut down.
ShutdownInOrder ==
  /\ phase = "ok" =>
       /\ \A s \in Subscribers : listener[s] \in {"replied", "deaf"} \/ timedOut
       /\ \A s \in Subscribers : listener[s] # "listening"
       /\ withHandle => rpc = "ok"
  /\ rpc = "timeout" =>
       /\ phase = "err"
       /\ \A s \in Subscribers : listener[s] \in {"told nothing", "deaf"}

\* A shutdown that was begun ends, whatever the subscribers do.
ShutdownEnds == phase # "running" ~> phase \in {"ok", "err"}
=============================================================================
