# TLA+ models of zel

zel (`zel_core`, `zel_types`, `zel_macros`) is an RPC framework on iroh: a server
that accepts QUIC connections and serves request streams, a client that calls it
and opens streams in both directions, per-peer circuit breakers, client retries,
graceful shutdown, and a macro that generates typed services. This directory
holds TLA+ models of its concurrent parts and of its macro, the TLC configurations
that check them on small instances, and TLAPS proofs of what holds for every value
of the constants. Paths below are relative to `zel_core/src/protocol/` unless they say
otherwise.

## 1. Inventory

| part | state | operations | talks to | correct when |
|---|---|---|---|---|
| Task tracker (`shutdown.rs`) | an atomic counter, a `Notify` | `increment`, `TaskGuard::drop`, `wait_for_completion` | stream tasks, shutdown | the counter is the number of live guards; a wait ends when the last goes, and says Ok only then |
| Connection handling (`server.rs`) | per connection a `select!` loop; shared `is_shutting_down` and `shutdown_signal` | `accept`, the loop of `connection_handler`, `handle_stream` | the router, tracker, handlers | after shutdown begins no acceptor admits a new stream; each request is counted while it is handled |
| Handlers (`handlers/*.rs`) | the stream task; a detached task per streaming handler | RPC, subscription, notification, raw stream | client streams, breakers, service callbacks | a streaming client gets exactly the stream it asked for; a callback can hear of shutdown |
| Graceful shutdown (`mod.rs`, `builder.rs`, `context.rs`) | the flag, the signal, the tracker, shared by handle clones | store flag, notify, wait, time out; `shutdown_notified` | acceptors, tasks, handlers | Ok means drained; every call returns |
| Circuit breakers (`circuit_breaker.rs`) | a map from peer to a `circuitbreaker-rs` breaker, behind a lock | `call_async`, `get_stats` | the RPC handler, callbacks | a peer is cut off on its own severe failures and on nothing else, and let back once healthy |
| Error classification (`error_classification.rs`, `zel_types/src/lib.rs`) | none | `classify`, `as_*`, `severity` | RPC handler, breakers | the severity a callback gave reaches the breaker and the caller |
| Breaker statistics (`circuit_breaker_stats.rs`) | none | reads | `get_stats` | what a handler finds observes the breakers that admit its calls |
| Client calls and retries (`client.rs`, `retry.rs`) | per call an attempt counter; the policy | `call_internal`, `call_with_retry` | the server | a call ends after a bounded number of attempts, and a retry does not run a callback twice unless it was asked to |
| Retry metrics (`retry_metrics.rs`) | three atomic counters | record, read, `reset` | concurrent calls | the counters say what the calls did |
| Client stream set-up (`client.rs`) | the connection's two accept queues | `subscribe`, `notify`, `open_stream` | streaming handlers | each request is matched with its own stream, or with one that speaks its protocol, and ends |
| Subscription and notification streams (`streaming.rs`, `client.rs`, `zel_macros/src/render/types.rs`) | the framed stream, its acknowledgements | `send`, `close`, `complete`, `ack`, `next` | callbacks | Ok means that the item was taken; the end of a stream means that all was received |
| Builders (`builder.rs`) | maps of services and resources | `service`, `rpc_resource`, ..., `build` | everything | a stub reaches the method it was generated with |
| Context and extensions (`context.rs`, `extensions.rs`) | immutable maps behind an `Arc` | `with`, `get`, `shutdown_notified` | callbacks | a tier never changes another |
| `IrohBundle` (`../iroh_helpers.rs`) | shutdown subscribers | `subscribe_shutdown`, `shutdown`, `shutdown_with_handle` | router, server shutdown | subscribers are told before the endpoint closes |
| Service macro (`zel_macros`) | none at run time | attribute parsing, generated client, server and stream types | builders, client | the two generated halves agree on names, bodies and parameters |
| Wire types (`zel_types`) | none | serialisation | everything | what is written is read |

What is hard here is concurrency between tasks. The flag, the signal and the
counter are three objects read and written in separate steps by acceptors, stream
tasks, handlers and any number of shutdown calls; tokio's `Notify` forgets those
who are not waiting; a breaker gets results in an order unrelated to admission;
client streams are matched by arrival and not by identity; and retries repeat
calls that may have run. Every such place is a hazard in `PROJECT.json`, at its
line, with the properties that watch it.

## 2. Modules

| module | models | role |
|---|---|---|
| `TaskTracker` | `shutdown.rs` | component |
| `DrainContract` | what shutdown promises of tracked operations | abstract specification |
| `RpcServer` (extends `TaskTracker`) | `server.rs`, `handlers/`, shutdown in `mod.rs` and `builder.rs`, `shutdown_notified` | composition, implements `DrainContract` |
| `CircuitBreaker` | `circuit_breaker.rs`, `handlers/rpc.rs`, `error_classification.rs` | component |
| `RetryClient` | `RpcClient::call` (`client.rs`), `retry.rs`, `retry_metrics.rs` | component |
| `StreamSetup` | `subscribe`, `notify`, `open_stream` (`client.rs`), `handlers/` | component: client and server side |
| `Notification` | `NotificationSender` (`client.rs`), `NotificationSink` (`streaming.rs`), the generated receiver | component |
| `Subscription` | `SubscriptionSink` (`streaming.rs`), the client's stream and its typed form | component |
| `StreamContract`, `NotificationContract` | what a subscription and a notification stream promise | abstract specifications |
| `IrohBundle` | `shutdown` and `shutdown_with_handle` of `iroh_helpers.rs` | component |
| `Session` (instances of `Notification`, `Subscription`, `IrohBundle`) | a server and a client's stream up to the end of the bundle | composition, implements `StreamContract` and `NotificationContract` |
| `ServiceMacro` | `zel_macros`: attributes, descriptions, encodings | pure operators |
| `Service` (extends `ServiceMacro`) | `builder.rs`, `extensions.rs`, middleware and routing, generated stubs | composition |
| `MCTaskTracker`, `MCRpcServer`, `MCCircuitBreaker`, `MCRetryClient`, `MCStreamSetup`, `MCSession`, `MCService` | - | values and symmetry for TLC |
| `TaskTracker_proofs`, `RpcServer_proofs`, `CircuitBreaker_proofs`, `RetryClient_proofs`, `StreamSetup_proofs`, `Session_proofs`, `SessionContract_proofs`, `Service_proofs` | - | theorems |

### Task tracker

`activeTasks` is the counter and `task` the life of each guard. `TaskGuard::drop`
is two actions, `DropGuard` (the `fetch_sub`) and `NotifyCompletion` (the
`notify_waiters` of the guard that saw 1), because other threads run in between.
`wait_for_completion` is one action per step between which another thread can
run: `FirstCheck`, `LoopCheck`, `Arm` (where the `Notified` comes to exist),
`Wake` and `Deadline`. A `Notify` is the set of callers that hold a `Notified` not
yet woken: `notify_waiters` empties it and stores nothing, as tokio documents.
`timeout` polls its future before its timer, so `Deadline` cuts off only a parked
caller.

### Server and shutdown

A tracked task is a request stream. `conn` is where each `connection_handler`
stands (in its hook, creating the `Notified` of a new `select!` round, in
`select!`, before the flag check, between the check and the `increment`, ended),
`stage` where each stream is, `handler` the service callback of a stream, `shut`
the part of a shutdown call before its wait, which is the tracker's `wait`.
`signalWaiters` is the `Notify` of the shutdown signal, held by acceptors in
`select!` and by handlers in `shutdown_notified`. The four steps of `shutdown` are
`StoreFlag`, `SignalShutdown`, the tracker's steps and `TimeoutElapses`;
`RpcServer::shutdown` and `ShutdownHandle::shutdown` are the same code. Every
early return of `handle_stream` that runs no callback is `RejectRequest`; an RPC
callback runs inside the tracked task (`StartRpc`, `AnswerRpc`, `PanicRpc`); the
three streaming handlers answer, spawn and return (`DetachHandler`). A callback
alternates work and a `select!` on `shutdown_notified()`, or returns.

`DrainContract` is the abstract view: acceptors pass a gate, stopping shuts the
gate for good, one that is through may start the single operation it was admitted
with, a call succeeds only when nothing runs. The refinement maps the gate to the
flag check: `through` is the set of acceptors between the check and `increment`,
`running` the set of live guards.

### Circuit breakers

A call of a peer takes the peer's breaker from the map, or inserts one, under the
write lock (`CallBreaker`), is admitted (`Admit`, `Probe`) or rejected (`Reject`),
runs its callback, and hands the result back (`Record`). Between admission and
`Record` any other call may be recorded, and the breaker may have changed state.
The error's way is kept in full, as operators: `ResourceError` severity, message,
marker (`AsAnyhow`), classifier, double `Result` (`Severe`), `ServiceError`,
`CallbackError`. `classifier` is fixed by how the server is built: default, all
errors, any custom function of the kind of error, or no breakers at all.

`circuitbreaker-rs` is not in the repository. `Failed`, `Succeeded`, `Probe` and
`CooldownElapses` assume what the module documentation and the tests state: a
number of failures in a row opens, a success resets the row, any failure reopens
a half-open breaker, a number of successes closes it. How many test requests
half-open lets through at once is left open: it may admit or reject any call.
When a closed breaker opens is left open too. "State is updated on the rejection"
(`circuit_breaker.rs:615`): after a full run of failures (`FullRun`) nobody is admitted,
but the state is still Closed until the next call is rejected (`Reject`), and a
call that was under way may report a success first and clear the run. A test
(`tests/circuit_breaker_tests.rs:469-487`) takes the cooldown to run from the failures
on, with no rejection in between, so `Trips` may also open the breaker before any. A
failure in half-open reopens at once, and the last success closes at once: the tests
read the state right after it (`tests/circuit_breaker_tests.rs:455-467`).
The failure rate is not modelled, since `consecutive_failures` always has a value
(the builder cannot unset it) and overrides it (`circuit_breaker.rs:453`).
`severeRun` is a history variable: the severe results each peer has had in a row.
`SevereRunCutsOff` is therefore about admission and not about the state: while that
run is full, a call reaches a callback only as a test request of the half-open
breaker, whichever of the two ways it opened.

### Client calls and retries

`pc` is where each call is: the three awaits of `call_internal` (`OpenBi`, `Send`,
`Receive`), the bookkeeping of `call_with_retry` (`Decide`, which includes
`RecordResult`), the backoff. Every attempt opens a stream on the one connection
of the client, which `LoseConnection` may take away at any point and nothing
replaces. `stream` is the server's side of the current attempt: it may drop the
request, refuse it, run the callback, answer, or end with nothing written.
`attempt` is the call's `AtomicU64`, `config` whatever `RetryConfigBuilder::build`
let through (`Build`), or none. The predicate is the set of errors it accepts.
`executed` and `resumed` are history variables. Backoffs have no length here: only
their order with other steps matters.

### Stream set-up

A streaming request travels on a stream of its own, but the data comes on a stream
the server opens, and the client takes the next one of the connection's queue:
`opened` and `accepted` are the two queues (`uni` for subscriptions, `bi` shared by
notifications and raw streams). `pc` is where each client task is, with `Cancel` at
every await; `server` is where each handler is, in the order of the code: open,
write the first bytes, answer, spawn. A stream carries the name of the request that
had it opened, which the program cannot see; what it can see are the first bytes,
and `SubscribeVerdict`, `NotifyVerdict` and `OpenStreamVerdict` are what each
operation makes of the stream it finds. `Available` is quinn's rule that a stream
is visible once bytes were written to it, in the order of stream numbers. `quiet`
is a history variable: so far the set-ups followed one another and none was
abandoned or asked a resource for what it is not.

### Sessions

`Notification` and `Subscription` start where set-up ends. `sender`, `up`, `down`
and `handler` are the two ends of a notification stream and the frames between
them: `send` waits for an acknowledgement that carries no number, and the generated
`next()` acknowledges an item before it returns it (`Read`, `Ack`), so that a
`select!` that drops it in between (`AbandonNext`) keeps the item, and leaves its
acknowledgement in the sink's buffer (`held`), which the next write flushes. The
abandoned write may have flushed some of those held before it. An item may fail to
decode. `Subscription` has the sink's buffer (`frames`), the wire, and
a client that reads to the end. A `FramedWrite` flushes piece by piece, so that a `send`
that fails or is abandoned (`SinkSendFails`) may have put out any first part of the
buffer and keeps the rest, and a sink that is dropped without `close` may have put out
some frames whole and end the stream inside the next (`Torn`). `written` and `confirmed`
are history variables: what went out whole, and what an Ok of `send` or `close` told of.
The first may hold more than the second: a client may read items no Ok told of.

`IrohBundle` is the `shutdown` of the whole: the loop that tells each subscriber
(`NotifyNext`), which may have dropped its listener, the join of their repliers
under a timeout (`JoinReplies`, `RepliesIn`, `TimeoutElapses`), the router.
`shutdown_with_handle` first waits for the server (`RpcShutdown`). `Session` joins
the three by one variable, `cut`: the connection is closed, by the end of the
router or by the network.

Two contracts say what a stream promises without saying how. `StreamContract` has a
publisher whose items get out, each later one with a greater number, an Ok that is
only said of items that are out, a reader that takes what is out in order, and an end
that comes after all of it, and so after all that was confirmed.
`NotificationContract` has a client that waits for a verdict on each item and a
receiver that decides on the items in their turn; acknowledgements, buffers and the
connection are gone, and an Ok is said of an item that was taken, as far behind the
one that was sent as sends were abandoned, at most. The refinements map what the sink
has written and confirmed, or what was handed over, refused and dropped; frames,
acknowledgements under way and the closing of the connection are stutters.

### Services

`ServiceMacro` says what `#[zel_service]` makes of a trait: how an attribute is
parsed, which traits are accepted (`Describable`) and which expansions compile
(`Compiles`), the order of registration (by kind), and what client and server do
with parameters: `Serialize` and `SerializeOptional` of the stub, `UnwrapOrDefault`
of `notify` and `open_stream`, `BodyOf` each kind, `Deserialize` of the handler. A
trait is a record of its items and a name a list of words, as `CamelCase` joins
them. `Service` puts servers together from calls of the builder in any order (`AddService` puts
the `Resources` of an expanded trait in the place of an earlier service of its name),
and follows requests from the stub (`CallStub`, which sends `NewRequest`) through the
look-up of names (`Route`), the middleware and the decoding to a method (`RunCallback`). `maps` is a heap of
extension maps and an `Extensions` a position in it, so that a `with()` that wrote
to a shared map would show. A connection hook may return any extensions
(`HookResults`): the server's as they are or with a value added, or new ones, as
`examples/context_extensions_demo.rs` does; `connection_handler` takes what it returns,
and no tier is merged into the next, whatever `doc_more/EXTENSIONS.MD` says (a
finding). `hooked` is a history variable: what a connection's extensions held when its
hook had returned, which is what they must hold ever after.

## 3. Runs

| run | instance | shows |
|---|---|---|
| `tracker` | `TaskTracker.cfg` | `CounterCountsGuards`, `OkOnlyWhenDrained`, `ParkedBehindTasksWakes`: a caller parked while guards live is woken, its deadline not needed |
| `tracker_stranded` | `TaskTracker_stranded.cfg` | a violation: the wake-up lost between `count()` and `notified()` |
| `server_safety` | 2 connections, 2 streams, 2 shutdown calls | `GuardSpansTask`; the server implements `DrainContract` |
| `server_liveness` | 1 connection, 2 streams, 1 shutdown call | `ShutdownReturns`, `MissedSignalIsCaughtLater` |
| `server_ok_idle` | | a violation: Ok while callbacks run |
| `server_hears` | 1 stream | a violation: a handler that never hears |
| `breaker` | 2 peers, 3 calls at once, thresholds 2 and 2, 3 classifiers and none | `SevereRunCutsOff`, `OpensOnOwnSevereRun`, `SeverityReachesCaller`, `HealthyPeerRecovers` |
| `breaker_bypass` | the same | a violation: application errors move the breaker |
| `retries` | 2 calls; 1 or 2 as `max_attempts`, 3 predicates, no configuration; settings `build` must refuse | `NetworkRetriesRunOnce`, `GivesUpOnlyWhenSpent`, `MetricsMeaning`, `LossIsFinal`, `LossEndsCalls` |
| `setup` | 3 operations in 5 mixes of kinds and resources | `NeverAnotherProtocol`, `AcceptedIsServed`, `QuietSetupsGetTheirOwn`, `SetupsEnd` |
| `session` | 2 items or 2 updates, 2 subscribers | `NotesKeepContract` and `StreamsKeepContract` (the two refinements), `AcksAreCounted`, `NoneMeansAllRead`, `ShutdownInOrder`, `SendReturns`, `ShutdownReachesClient` |
| `service` | 3 builder calls, 9 traits of which 3 expand, 2 connections, 2 requests | `StubReachesItsMethod`, `ExtensionsKeepTheirTier`, `StatsAreOfTheBreakers` |

Bounds. A lost wake-up, an early Ok or a missed signal needs one waiter, one guard
and one acceptor that are each between two steps; a second of each lets one be
caught in its window while the other makes progress, and lets guards overlap.
Streams are single-use and there is one more than any scenario uses. For breakers,
two calls of one peer are enough for results out of order with admissions, a
second peer for isolation, and thresholds of 2 for a first failure or success that
does not decide. Two calls with up to three attempts each let one record its
result while the other is in every other step; three set-ups are one that leaves a
stream, one that takes it, and one that finds what those left, and the mixes are
one for each pair of protocols that can meet in a queue. Two items are one whose
acknowledgement is late and one that finds it, two updates one that may go out whole
while the other stays in the buffer, two subscribers one told and one not yet. Three builder calls are the longest order that matters
(`with_circuit_breaker`, `with_extensions` and a registration); the traits have
each kind of method, no, one and two parameters, a second version under the same
name, and two methods of one name. Symmetry is used only in runs without temporal
leads-to properties. Deadlock checking is off where a system may stop: all streams used,
all shutdown calls returned, all peers silent, all requests answered.

Properties worth a word. `NetworkRetriesRunOnce` shows that the default predicate
is safe because a connection error means that the request was not taken, or that no
connection is left for a second attempt, and `LossIsFinal` is the other side of it:
retries do not ride out the loss of the connection. `MetricsMeaning`
says what the counters count, which is not what their documentation says.
`NeverAnotherProtocol` is as far as the checks of the first bytes go: set-ups of one
resource may be crossed, the `OK` of a raw stream names no resource at all, and a
`notify` that finds a raw stream waits for a frame its callback may never send, so
that `SetupsEnd` needs the premise `OneProtocolPerQueue`.
`NotesKeepContract` and `SendReturns` leave room for the cases in which the
protocol really fails: with every abandoned `send` an Ok may be about an item one
further back, and an item that does not decode is answered by nobody. `StubReachesItsMethod` needs
distinct names, which nothing checks.

The four violations are disagreements between the code and its documentation, and
each is quoted under `findings`. What still holds beside each one is a property of
a passing run: the strand needs the window (`ParkedBehindTasksWakes`), Ok does
mean that no tracked task is alive (`OkOnlyWhenDrained`, `KeepsContract`), an
acceptor that misses the signal meets the flag (`MissedSignalIsCaughtLater`), and
application errors alone never cut a peer off (`OpensOnOwnSevereRun`).

Four more findings need no run, because the text contradicts the code it speaks of. `failed_after_max_retries` does not count calls that exhausted their
retries (`retry_metrics.rs:42`, `client.rs:244`). The metrics of
`with_retry_metrics` have no accessor (`client.rs:781`). The example of
`CircuitBreakerStats` observes breakers that no call goes through
(`circuit_breaker_stats.rs:25`, `builder.rs:290`). `doc_more/EXTENSIONS.MD:42-83` has
the tiers of extensions merged, which `server.rs:69-90` and `context.rs:62` do not do;
`ExtensionsKeepTheirTier` says what they do.

Mutants. Every property of a passing run is shown to fail on a changed module: the
operators commented "Variant" (a counter stored instead of added to, a skipped
flag check, a guard lost in a panic, a breaker inserted for every call, an error
passed on unmarked, an end of stream taken for a lost connection, a reconnecting
retry, a subscription that does not check Established, an acknowledgement sent
before the item is decoded, a replier loop that stops at the first deaf subscriber,
extensions written in place, ...).

## 4. Fairness

The tokio runtime polls what is ready: weak fairness on the steps of tasks,
acceptors and callers. Timers fire: weak fairness on the shutdown deadline (in
`RpcServer`, not in `TaskTracker`, whose liveness must not rest on it) and on a
breaker's cooldown. Nothing is assumed of peers, of requests arriving, of
connection hooks, or of when callbacks return. Strong fairness is used once: a
half-open breaker lets through, some time, a caller that keeps asking, which is
what its documentation promises of test requests. `HealthyPeerRecovers` has the
peer's behaviour as its premise.

* `RetryClient`: a client's tasks are polled and its backoffs elapse. Nothing is
  assumed of the server or of the network: `LossEndsCalls` holds of a server that
  hangs.
* `StreamSetup`: both ends are polled (`ClientStep`, `HandlerStep`, which leaves out
  RPC callbacks). Nobody has to begin a set-up or to abandon one.
* `Notification`: both ends are polled, and the callback does not go to sleep: it
  asks for the next item or returns. It is not assumed that it returns.
* `Subscription`: only the client polls. A callback may publish for ever or stop.
* `IrohBundle`: `shutdown` is polled and its timers fire; subscribers may never
  reply, and nobody has to begin a shutdown.

## 5. Proofs

Eight modules hold the theorems; `tlapm` checks every leaf.

* `TaskTracker_proofs` assumes only that the set of tasks is finite. The inductive
  invariant is typing with `CounterCountsGuards`: neither is inductive alone, for
  the counter stays in `Nat` only because each guard is counted once, and the
  cardinality argument needs the types. `OkIsDrained` follows at each step that
  returns Ok, where the counter is read as 0. `ParkedCallersAreNotLeft` bounds the
  stranding that `tracker_stranded` shows: since a guard that drops without seeing 1
  leaves another alive, the only step that strands a caller is its own parking.
  `WaitsComeToAnEnd` bounds the rounds of the loop by the tasks that end: its measure
  pays for each wake-up with the guard that gave it.
* `RpcServer_proofs` first shows that each server step is a tracker step or leaves
  the tracker alone (`ServerImplementsTracker`), so that the tracker's theorems
  carry over. `ServerKeepsContract` is then a step-by-step simulation: its
  invariant adds that a stream inside its task holds a guard, that an acceptor
  between check and `increment` has a taken stream without a guard, and that a
  caller past `StoreFlag` implies the flag. `WaitingPartiesHear` is about the order of
  flag and signal: an acceptor or a callback that waits already when shutdown begins
  is woken, so that only those that come to their `select!` after the last signal can
  miss it (`server_hears` shows one that does). Two more are about what follows the
  flag. `AcceptorsRunDown`: from then on an acceptor cannot begin its loop again, so
  that a measure of five steps at most goes down with each it takes.
  `LateStreamsGetNoService`: a stream that no acceptor had taken by then gets no task
  and no callback; its invariant (`Late`) says of a stream that is taken that its
  acceptor is not one past the gate, for that one would spawn whatever it holds.
* `CircuitBreaker_proofs` assumes positive thresholds and classifiers that return
  severities. Its invariant says that a closed breaker has counted exactly the
  current run of its peer's severe results; that calls past the map have a breaker;
  that a half-open breaker is below its success threshold. From it follow the two
  directions of cutting off: a peer with a full run finds its breaker open, half-open, or
  closed and full, and in the last a call is rejected (`RunCutsOff`); and only a
  full run opens it, at a rejection or before (`OpensOnlyOnOwnRun`). That severity reaches the caller needs a second
  invariant about replies. `PeersAreIsolated` is a refinement: the server
  seen through one peer, its calls and its breaker, is the same specification with that
  peer alone, each step of another peer being a stutter (`Alone(p)`, by `OwnCallAlone`
  and `OthersCallAlone`); so a safety property of one peer needs no more peers to be
  checked. `RecoveryOnlyAdvances` gives each breaker a distance from closed: while
  callbacks do not fail severely and no severe result is still on its way to the
  breaker, no step makes it greater, and a probe let through or a result in half-open
  makes it less.

* `RetryClient_proofs` assumes that the set of calls is finite and that settings are
  configurations. Six theorems, each on the typing: the bound on attempts needs that
  a call in backoff has an attempt left; `RunOnceInv` ties `executed` to the stream of
  the current attempt and to the loss of the connection, for a connection error alone
  does not say whether the callback ran; `Doomed` is what a call keeps once the
  connection is lost; the sums of `MetricsMeaning` go by one lemma on cardinalities
  (`JoinCounts`), each recorded result moving one call from one counted set to
  another. `CallsComeToAnEnd` bounds the steps of a call, retries included, by five for
  each attempt its configuration allows and one more; it needs that a configuration
  never changes and that without one there is a single attempt.
* `StreamSetup_proofs` assumes nothing but the types of the constants. `Progress` says
  where each handler is given what it wrote, `KindsKept` that a queue holds streams of
  its own kinds, `Covered` that first bytes are followed by a spawn unless the answer
  could not be written. `QuietInv` is the one for set-ups that follow one another:
  at most one is under way, no other handler runs, and all that is left in the queues
  is the stream of a set-up that will still come to take it. `NoSetupWaitsInVain` is
  the part of `SetupsEnd` that is about states: `QueueInv` says that whoever is told Ok
  has a stream with first bytes in its queue, once, and `TakeInv` that those who have
  taken a stream are as many as the streams taken, no stream twice. A set-up told Ok
  that has taken none is one more than those, so by counting a stream is left.
* `Session_proofs` assumes that the three counts are naturals, and first that the
  parts leave each other's variables alone but for `cut`. `BundleInv` says which
  subscribers the loop has told, and with it goes a bound on the steps of a shutdown
  (`ShutdownsComeToAnEnd`). `SubsInv` says that what is on the wire, after what
  was received, is what is left of what was written, and then at most `Stopped` or a
  torn frame, and that what was confirmed was written: a regular end is only found when
  nothing is left. `NoteInv` says that for some k the receiver has taken the items 1
  to k, and that the rest is on its way in order; and it counts acknowledgements written, held and still to come
  against the send that waits and those that were abandoned. The counts alone give
  `AcksAreCounted`; that they leave no acknowledgement under way when an item is sent
  is what makes an Ok that of its own item. `NobodyWaitsForNothing` is the part of
  `SendReturns` that is about states: on an open stream whose items all decode, items
  on the way, acknowledgements on the way, held back or about to be written are exactly
  as many as the send that waits and those that were abandoned (`DueInv`).
* `SessionContract_proofs` proves the two refinements, by steps, on the invariants of
  `Session_proofs`. A subscription needs `IncInv` besides: what was written and
  what is in the sink's buffer are in the order of publication, so that a read is of the
  next item, and an end leaves none. With it goes `StreamsEndWhole`: a stream that ended
  without an error gave the client, in order and once, all that an Ok told of. A notification stream needs
  `AnswersInv`: the n-th acknowledgement on the way tells of an item taken that is at least the n-th
  after those already answered, for abandoned sends only ever let one lag behind. Ok,
  which carries no number, is then about an item close enough to be the contract's.
* `Service_proofs` assumes that traits and their parameters are sequences
  (`TraitsAssumption`), and shows three invariants for every number and order of builder
  calls, any traits, connections and requests. `StatsInv`: the heap of maps only grows,
  and a map is not written to once it is made; so the statistics in the server's
  extensions are those of its breakers. `TierInv` adds where each map comes from: the
  server's from the builder, a connection's from its hook, whatever that returned, a request's from the
  middleware run so far, the last of a type winning (`ChainNext`). `StubInv`: a service
  has the resources of the last trait registered under its name (`RegisterStub`), and a
  request is still what its stub has sent. Two of its lemmas are about registration:
  of the functions of one name, one is registered last (`OneIsLast`), by rank of kind and
  place in the trait. `EncodingsAgree` is about `ServiceMacro` alone: what a stub of any
  kind with any number of parameters encodes, the handler decodes. Where an induction
  would be natural (the last of a chain, the greatest position) the proofs take the
  least element of a set of naturals (`LeastNumber`).

Only model-checked: everything under fairness (`ParkedBehindTasksWakes`,
`ShutdownReturns`, `MissedSignalIsCaughtLater`, `HealthyPeerRecovers`,
`LossEndsCalls`, `SetupsEnd`, `SendReturns`, `ShutdownReachesClient`), since liveness
under fairness and ENABLED are out of the prover's reach; and the violations.
What these need of states and steps is proved, for every value of the constants, in one
of two forms. Nobody is left to wait for what no step will bring:
`ParkedCallersAreNotLeft` and `ParkedShutdownsAreNotLeft` for the first,
`NoSetupWaitsInVain` for `SetupsEnd`, `NobodyWaitsForNothing` for `SendReturns`. Or
a measure goes down with every step, so that it cannot go on for ever:
`WaitsComeToAnEnd` and `ShutdownWaitsComeToAnEnd` for the first two,
`AcceptorsRunDown` for `MissedSignalIsCaughtLater`, `RecoveryOnlyAdvances` for
`HealthyPeerRecovers`, `CallsComeToAnEnd` for `LossEndsCalls`,
`ShutdownsComeToAnEnd` for the first part of `ShutdownReachesClient`. What remains to
TLC is that the steps are enabled and that fairness takes them.

## 6. Assumptions and what is left out

* Atomics are `Relaxed` in the code. The counter is one location, whose
  modification order is total. That the flag, the signal and the counter are seen
  in one order by all threads is an assumption of the model; weaker orders would
  only add to the behaviours in which Ok comes too early.
* A task is not cancelled from outside: the server keeps no handle to abort one.
* Data is reduced to what control depends on: no payloads, names or messages.
* `Notification`: an acknowledgement is the only frame that flow control holds up;
  items and errors are handed to the transport whole. What is said of a `send` that is
  abandoned is therefore said from the moment on at which its item is written.
* `CircuitBreaker`: `circuitbreaker-rs` counts as the module's documentation and tests
  say, with the moment of opening left open.
* `Service`: middleware adds to the context it is given (`with_extension`). One that
  returns a context built anew with the public `RequestContext::new`, which could put
  any extensions in any tier, is not modelled.
* `StreamSetup`: quinn's limits on concurrent streams are not reached. A stream that
  a client drops unread is gone; what the server's callback does then is not followed.
* `ServiceMacro`: the types of parameters, generics and spans are the compiler's to
  check, and serde's derived encodings are taken to be faithful.

Not modelled: the snapshots of breaker statistics (reads); `RetryMetrics::reset`
and the getters, for nothing hands out the metrics of a client; the address and
metrics watchers and the protocol registration of `IrohBundle`, which forward to
iroh; the chains of causes that a direct user of `call_async` could build; the
examples and tests.

## 7. Plan

Done: every component of the inventory has its module or modules, a passing run and
theorems; every invariant and action property of a passing run, and every
refinement, is proved, and of each liveness property the part about states or steps.
What is left:

1. Liveness itself as theorems, should the provers come to handle ENABLED and
   fairness: the measures and the states it would rest on are there.
2. A reconnecting client, should the code come to have one: `LossIsFinal` and
   `NetworkRetriesRunOnce` would have to be stated anew.
3. Error chains, as operators checked over bounded inputs.
