---------------------------- MODULE StreamSetup -----------------------------
(***************************************************************************)
(* How a client gets its stream: call(), subscribe(), notify() and         *)
(* open_stream() of one connection, and the server's routing and handlers. *)
(*                                                                         *)
(* Each request travels on a bidirectional stream of its own, but the      *)
(* stream that carries the data is one the SERVER opens, and the client    *)
(* takes it from the connection's queue of incoming streams: one queue for *)
(* subscriptions and one shared by notifications and raw streams.  Nothing *)
(* but the first bytes says whose stream it is.  A server stream has the   *)
(* name of the request that had it opened.                                 *)
(***************************************************************************)
EXTENDS Naturals, Sequences

CONSTANTS Requests,    \* the operations begun by the tasks that share a client
          Resources,   \* what a request can name, "service/resource"
          KindOf,      \* the callback registered under a name, or "missing"
          Wants,       \* what the requests may ask: functions from Requests
          NoStream

Op == {"call", "subscribe", "notify", "open_stream"}
Kind == {"rpc", "subscription", "notification", "stream", "missing"}

ASSUME KindsAssumption == KindOf \in [Resources -> Kind]
ASSUME WantsAssumption == Wants \subseteq [Requests -> [op : Op, resource : Resources]]
ASSUME NoStreamAssumption == NoStream \notin Requests

VARIABLES
  want,      \* what each request asks (fixed)
  pc,        \* where each client task is
  got,       \* the server stream each client task has accepted
  server,    \* where each request is on the server
  answer,    \* what the server wrote on each request's own stream
  opened,    \* the streams the server opened, in order, per direction
  accepted,  \* how many of them the client has taken, per direction
  written,   \* the server streams whose first bytes are on the way
  serving,   \* the server streams a callback has been spawned for
  lost,      \* the client's end of the connection is closed; the server's may follow
  quiet      \* history: set-ups followed one another and none was abandoned

clientVars == <<pc, got, accepted>>
serverVars == <<server, answer, opened, written, serving>>
vars == <<want, clientVars, serverVars, lost, quiet>>

TheOp(r) == want[r].op
TheKind(r) == KindOf[want[r].resource]

Direction == {"uni", "bi"}
AcceptsFrom(op) == IF op = "subscribe" THEN "uni" ELSE "bi"
OpensOn(kind) == IF kind = "subscription" THEN "uni" ELSE "bi"
Streaming == {"subscription", "notification", "stream"}
Serves(op) == CASE op = "call" -> "rpc" [] op = "subscribe" -> "subscription"
                [] op = "notify" -> "notification" [] op = "open_stream" -> "stream"
-----------------------------------------------------------------------------
ClientState == {"idle", "response", "accept", "established",
                "ready", "failed", "cancelled"}
ServerState == {"none", "queued", "opened", "written", "done"}
Answer == {"none", "ok", "error", "ended"}

TypeOK ==
  /\ want \in Wants
  /\ pc \in [Requests -> ClientState]
  /\ got \in [Requests -> Requests \cup {NoStream}]
  /\ server \in [Requests -> ServerState]
  /\ answer \in [Requests -> Answer]
  /\ opened \in [Direction -> Seq(Requests)]
  /\ accepted \in [Direction -> Nat]
  /\ \A d \in Direction : accepted[d] \in 0..Len(opened[d])
  /\ written \subseteq Requests
  /\ serving \subseteq written
  /\ lost \in BOOLEAN /\ quiet \in BOOLEAN

Init ==
  /\ want \in Wants
  /\ pc = [r \in Requests |-> "idle"]
  /\ got = [r \in Requests |-> NoStream]
  /\ server = [r \in Requests |-> "none"]
  /\ answer = [r \in Requests |-> "none"]
  /\ opened = [d \in Direction |-> << >>]
  /\ accepted = [d \in Direction |-> 0]
  /\ written = {} /\ serving = {}
  /\ lost = FALSE
  /\ quiet = TRUE

Pending(r) == pc[r] \in {"response", "accept", "established"}

Goto(r, from, to) ==
  /\ pc[r] = from
  /\ pc' = [pc EXCEPT ![r] = to]

\* The client no longer holds what it accepted: its end of the stream is dropped.
Dropped(s) == \E r \in Requests : got[r] = s /\ pc[r] \in {"failed", "cancelled"}
-----------------------------------------------------------------------------
(* The client: opening a request *)

\* open_bi() and tx.send(): the request is on its way, unless the connection
\* is lost.  A request of which only a part leaves is one the server drops.
Begin(r, op) ==
  /\ TheOp(r) = op
  /\ IF lost
     THEN Goto(r, "idle", "failed") /\ UNCHANGED server
     ELSE /\ Goto(r, "idle", "response")
          /\ server' = [server EXCEPT ![r] = "queued"]
  /\ quiet' = (quiet /\ \A o \in Requests : ~Pending(o)
                     /\ TheKind(r) \in {Serves(op), "missing"})
  /\ UNCHANGED <<want, got, accepted, answer, opened, written, serving, lost>>

Call(r) == Begin(r, "call")
Subscribe(r) == Begin(r, "subscribe")
Notify(r) == Begin(r, "notify")
OpenStream(r) == Begin(r, "open_stream")

clientUnchanged == <<want, got, accepted, lost, quiet>>

\* An await of the set-up returns the connection's error.
ConnectionFails(r) ==
  /\ lost /\ Pending(r)
  /\ pc' = [pc EXCEPT ![r] = "failed"]
  /\ UNCHANGED <<clientUnchanged, serverVars>>

\* The caller drops the future of the operation, at whichever await it is.
Cancel(r) ==
  /\ Pending(r)
  /\ pc' = [pc EXCEPT ![r] = "cancelled"]
  /\ quiet' = FALSE
  /\ UNCHANGED <<want, got, accepted, serverVars, lost>>

\* The answer on the request's stream; an Err or the stream's end is an error.
ReadResponse(r) ==
  /\ answer[r] # "none"
  /\ Goto(r, "response", IF answer[r] # "ok" THEN "failed"
                         ELSE IF TheOp(r) = "call" THEN "ready" ELSE "accept")
  /\ UNCHANGED <<clientUnchanged, serverVars>>
-----------------------------------------------------------------------------
(* The client: taking a stream from the connection's queue *)

\* Streams come in the order they were opened; the first bytes of one make
\* those opened before it available too.
Available(d) ==
  \E i \in (accepted[d] + 1)..Len(opened[d]) : opened[d][i] \in written

Accept(r, d) ==
  /\ AcceptsFrom(TheOp(r)) = d
  /\ Goto(r, "accept", "established")
  /\ Available(d)
  /\ got' = [got EXCEPT ![r] = opened[d][accepted[d] + 1]]
  /\ accepted' = [accepted EXCEPT ![d] = @ + 1]
  /\ UNCHANGED <<want, serverVars, lost, quiet>>

AcceptUni(r) == Accept(r, "uni")
AcceptBi(r) == Accept(r, "bi")

\* Variant: the service and resource of Established are not compared.
SubscribeVerdict_Unchecked(r) == "ready"

\* Established names a service and a resource, not a request.
SubscribeVerdict(r) == IF want[got[r]].resource = want[r].resource THEN "ready" ELSE "failed"

\* A raw stream has no frames to read: what its callback sends is taken for a
\* length that is too large, or the stream ends inside a frame.
NotifyVerdict(r) ==
  IF TheKind(got[r]) = "notification" /\ want[got[r]].resource = want[r].resource
  THEN "ready" ELSE "failed"

\* b"OK" names nothing; a length prefix is not b"OK".
OpenStreamVerdict(r) == IF TheKind(got[r]) = "stream" THEN "ready" ELSE "failed"

Verdict(r) ==
  CASE TheOp(r) = "subscribe" -> SubscribeVerdict(r)
    [] TheOp(r) = "notify" -> NotifyVerdict(r)
    [] TheOp(r) = "open_stream" -> OpenStreamVerdict(r)

\* The first bytes are there to read, as far as the operation can tell.
Readable(r) ==
  /\ got[r] \in written
  /\ TheOp(r) = "notify" /\ TheKind(got[r]) = "stream" => got[r] \in serving

ReadEstablished(r) ==
  /\ pc[r] = "established" /\ Readable(r)
  /\ Goto(r, "established", Verdict(r))
  /\ UNCHANGED <<clientUnchanged, serverVars>>
-----------------------------------------------------------------------------
(* The server *)

serverUnchanged == <<want, clientVars, lost, quiet>>

ServerGoto(r, from, to) ==
  /\ server[r] = from
  /\ server' = [server EXCEPT ![r] = to]

\* What comes of a write on r's own stream: once the reader is gone or the
\* connection lost it may fail, or be buffered as if nothing had happened.
Written(r, a) == IF lost \/ pc[r] \in {"cancelled", "failed"} THEN {a, "ended"} ELSE {a}

\* send_error_response: the outcome of the write is ignored.
SendError(r) == \E a \in Written(r, "error") : answer' = [answer EXCEPT ![r] = a]

\* Shutting down, or the request cannot be read: the stream is dropped.
DropRequest(r) ==
  /\ ServerGoto(r, "queued", "done")
  /\ answer' = [answer EXCEPT ![r] = "ended"]
  /\ UNCHANGED <<serverUnchanged, opened, written, serving>>

\* Variant: the stream is opened before the request is routed.
RouteFails_StreamFirst(r) ==
  /\ TheKind(r) = "missing"
  /\ ServerGoto(r, "queued", "done")
  /\ SendError(r)
  /\ opened' = [opened EXCEPT !["uni"] = Append(@, r)]
  /\ written' = written \cup {r}
  /\ UNCHANGED <<serverUnchanged, serving>>

\* ServiceNotFound, ResourceNotFound.
RouteFails(r) ==
  /\ TheKind(r) = "missing"
  /\ ServerGoto(r, "queued", "done")
  /\ SendError(r)
  /\ UNCHANGED <<serverUnchanged, opened, written, serving>>

\* The callback's answer, or none when it panicked or could not be sent.
\* The body says which operation the client called, but nobody looks.
HandleRpc(r) ==
  /\ TheKind(r) = "rpc"
  /\ ServerGoto(r, "queued", "done")
  /\ \E a \in {"ok", "error", "ended"} : answer' = [answer EXCEPT ![r] = a]
  /\ UNCHANGED <<serverUnchanged, opened, written, serving>>

\* open_uni() or open_bi(), the first thing a streaming handler does.
OpenServerStream(r, kind) ==
  /\ TheKind(r) = kind
  /\ \/ /\ lost
        /\ ServerGoto(r, "queued", "done") /\ SendError(r) /\ UNCHANGED opened
     \/ /\ ServerGoto(r, "queued", "opened")
        /\ opened' = [opened EXCEPT ![OpensOn(kind)] = Append(@, r)]
        /\ UNCHANGED answer
  /\ UNCHANGED <<serverUnchanged, written, serving>>

HandleSubscription(r) == OpenServerStream(r, "subscription")
HandleNotification(r) == OpenServerStream(r, "notification")
HandleStreamHandler(r) == OpenServerStream(r, "stream")

\* The first bytes; they may fail on a stream that the client took and dropped.
WriteFirst(r, kind) ==
  /\ TheKind(r) = kind
  /\ \/ /\ lost \/ Dropped(r)
        /\ ServerGoto(r, "opened", "done") /\ SendError(r) /\ UNCHANGED written
     \/ /\ ServerGoto(r, "opened", "written")
        /\ written' = written \cup {r}
        /\ UNCHANGED answer
  /\ UNCHANGED <<serverUnchanged, opened, serving>>

SendSubscriptionAck(r) == WriteFirst(r, "subscription")
SendNotificationAck(r) == WriteFirst(r, "notification")

\* Variant: the handler leaves the first write to the callback.
WriteStreamAck_Skipped(r) ==
  /\ TheKind(r) = "stream"
  /\ ServerGoto(r, "opened", "written")
  /\ UNCHANGED <<serverUnchanged, answer, opened, written, serving>>

WriteStreamAck(r) == WriteFirst(r, "stream")

\* Variant: the test of the write is the wrong way round.
RespondAndSpawn_Inverted(r, kind) ==
  /\ TheKind(r) = kind
  /\ ServerGoto(r, "written", "done")
  /\ \E a \in Written(r, "ok") :
       /\ answer' = [answer EXCEPT ![r] = a]
       /\ serving' = IF a = "ok" THEN serving ELSE serving \cup {r}
  /\ UNCHANGED <<serverUnchanged, opened, written>>

\* Ok on the request's stream, then the callback in a task of its own; when
\* the write fails the handler returns, and the stream it opened ends.
RespondAndSpawn(r, kind) ==
  /\ TheKind(r) = kind
  /\ ServerGoto(r, "written", "done")
  /\ \E a \in Written(r, "ok") :
       /\ answer' = [answer EXCEPT ![r] = a]
       /\ serving' = IF a = "ok" THEN serving \cup {r} ELSE serving
  /\ UNCHANGED <<serverUnchanged, opened, written>>

SpawnSubscriptionTask(r) == RespondAndSpawn(r, "subscription")
SpawnNotificationTask(r) == RespondAndSpawn(r, "notification")
SpawnStreamHandlerTask(r) == RespondAndSpawn(r, "stream")

LoseConnection ==
  /\ ~lost
  /\ lost' = TRUE
  /\ UNCHANGED <<want, clientVars, serverVars, quiet>>

ClientStep(r) ==
  \/ ConnectionFails(r) \/ ReadResponse(r)
  \/ AcceptUni(r) \/ AcceptBi(r) \/ ReadEstablished(r)

HandlerStep(r) ==
  \/ RouteFails(r) \/ HandleSubscription(r) \/ HandleNotification(r)
  \/ HandleStreamHandler(r) \/ SendSubscriptionAck(r) \/ SendNotificationAck(r)
  \/ WriteStreamAck(r) \/ SpawnSubscriptionTask(r) \/ SpawnNotificationTask(r)
  \/ SpawnStreamHandlerTask(r)
-----------------------------------------------------------------------------
Next ==
  \/ LoseConnection
  \/ \E r \in Requests :
       \/ Call(r) \/ Subscribe(r) \/ Notify(r) \/ OpenStream(r)
       \/ Cancel(r) \/ ClientStep(r)
       \/ DropRequest(r) \/ HandleRpc(r) \/ HandlerStep(r)

Spec == Init /\ [][Next]_vars

\* Both ends are polled and what is sent arrives; an RPC callback may take for
\* ever, and nobody has to begin or cancel anything.
Fairness == \A r \in Requests : WF_vars(ClientStep(r)) /\ WF_vars(HandlerStep(r))
FairSpec == Spec /\ Fairness
-----------------------------------------------------------------------------
(* Properties *)

\* The checks of the first bytes do not tell requests apart, but they keep
\* kinds and, where Established is read, resources apart: nobody is handed a
\* stream that speaks another protocol, nor a subscription to something else.
NeverAnotherProtocol ==
  \A r \in Requests :
    pc[r] = "ready" /\ TheOp(r) # "call" =>
      /\ TheKind(got[r]) = Serves(TheOp(r))
      /\ TheOp(r) # "open_stream" => want[got[r]].resource = want[r].resource

\* Set-ups that follow one another on a connection, none of them abandoned and
\* each asking for what the resource is, take the streams opened for them and no
\* other: no refusal or failure leaves a stream in the queue.
QuietSetupsGetTheirOwn ==
  quiet => \A r \in Requests : got[r] \in {NoStream, r}

\* A stream that was accepted is served, or will be by a handler that is about
\* to answer, unless the request that had it opened has been given up.
AcceptedIsServed ==
  \A r \in Requests :
    pc[r] = "ready" /\ TheOp(r) # "call" =>
      LET s == got[r] IN
      \/ s \in serving
      \/ server[s] = "written"
      \/ lost \/ pc[s] \in {"cancelled", "failed"}

\* Every operation asks for a resource of its kind.
WellDirected == \A r \in Requests : TheKind(r) \in {Serves(TheOp(r)), "missing"}

\* notify() and open_stream() are not both used.
OneProtocolPerQueue ==
  \A r, s \in Requests : {TheOp(r), TheOp(s)} # {"notify", "open_stream"}

\* A set-up comes to an end, one way or the other, however many run at once
\* and whatever is abandoned or lost: whoever is told Ok finds a stream to
\* take, for first bytes are written before Ok, and abandoned set-ups only add
\* to the queue.
SetupsEnd ==
  WellDirected /\ OneProtocolPerQueue =>
    \A r \in Requests :
      (Pending(r) /\ TheOp(r) # "call") ~> ~Pending(r)
=============================================================================
