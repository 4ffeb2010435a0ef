---------------------------- MODULE RetryClient -----------------------------
(***************************************************************************)
(* RpcClient::call: one request and one answer on a stream of its own      *)
(* (call_internal), repeated as a RetryConfig says (call_with_retry), by   *)
(* any number of tasks that share one client, one connection and one set   *)
(* of RetryMetrics.  Every attempt opens its stream on the same            *)
(* connection: nothing in the client replaces a connection that is lost.   *)
(*                                                                         *)
(* The server is what a client can see of it: it takes a request or drops  *)
(* it, runs the callback or refuses, and answers or ends its stream with   *)
(* nothing written (a panic, an answer over the frame limit).              *)
(***************************************************************************)
EXTENDS Naturals, FiniteSets

CONSTANTS Calls,       \* the calls made through the clones of a client
          Settings,    \* what a RetryConfigBuilder may hold at build()
          NoConfig     \* no RetryConfig: RpcClient::new(), or build() failed

VARIABLES
  config,        \* the client's retry_config
  pc,            \* where each call is
  attempt,       \* the AtomicU64 of each call: attempts begun
  result,        \* what the last attempt of a call returned
  stream,        \* the server's side of the current attempt's stream
  lost,          \* the connection is gone
  totalRetries, successfulAfterRetry, failedAfterMaxRetries,  \* RetryMetrics
  executed,      \* history: how often the callback was run for a call
  resumed        \* history: how many backoffs ended in another attempt

metrics == <<totalRetries, successfulAfterRetry, failedAfterMaxRetries>>
vars == <<config, pc, attempt, result, stream, lost, metrics, executed, resumed>>
-----------------------------------------------------------------------------
(* RetryConfig *)

ClientError == {"io", "serialization", "resource", "connection", "protocol"}

NetworkOnly == {"connection", "io"}
NetworkAndTimeout == NetworkOnly \cup {"protocol"}

\* Durations in units of the default initial backoff, the factor in tenths.
DefaultConfig ==
  [maxAttempts |-> 3, initialBackoff |-> 1, maxBackoff |-> 300, multiplier |-> 20,
   retryable |-> NetworkOnly]

RetryConfig == [maxAttempts : Nat, initialBackoff : Nat, maxBackoff : Nat,
                multiplier : Nat, retryable : SUBSET ClientError]

\* What build() lets through: in particular max_attempts - 1 cannot underflow.
ValidConfig == {s \in RetryConfig : s.maxAttempts # 0 /\ s.initialBackoff < s.maxBackoff}

ASSUME CallsFinite == IsFiniteSet(Calls)
ASSUME SettingsAreConfigs == Settings \subseteq RetryConfig
ASSUME NoConfigIsNone == NoConfig \notin RetryConfig

\* Variant: the check of max_attempts is forgotten.
Build_AnyAttempts(s) ==
  IF s.initialBackoff < s.maxBackoff /\ s.multiplier > 10 THEN s ELSE NoConfig

\* RetryConfigBuilder::build: a configuration, or none and an error.
Build(s) ==
  IF /\ s.maxAttempts # 0
     /\ s.initialBackoff < s.maxBackoff
     /\ s.multiplier > 10
  THEN s ELSE NoConfig

IsRetryable(e) == e \in config.retryable
-----------------------------------------------------------------------------
CallState == {"idle", "opening", "sending", "waiting", "settling", "backoff", "done"}
Result == ClientError \cup {"none", "ok"}

\* "ended": finished with nothing written; "ok" to "serialization": finished
\* after an answer, the last being bytes the client cannot decode.
Answer == {"ok", "resource", "serialization"}
StreamState == {"none", "open", "queued", "running", "ended"} \cup Answer

TypeOK ==
  /\ config \in ValidConfig \cup {NoConfig}
  /\ pc \in [Calls -> CallState]
  /\ attempt \in [Calls -> Nat]
  /\ result \in [Calls -> Result]
  /\ stream \in [Calls -> StreamState]
  /\ lost \in BOOLEAN
  /\ totalRetries \in Nat /\ successfulAfterRetry \in Nat
  /\ failedAfterMaxRetries \in Nat
  /\ executed \in [Calls -> Nat]
  /\ resumed \in Nat

Init ==
  /\ config \in {Build(s) : s \in Settings} \cup {NoConfig}
  /\ pc = [c \in Calls |-> "idle"]
  /\ attempt = [c \in Calls |-> 0]
  /\ result = [c \in Calls |-> "none"]
  /\ stream = [c \in Calls |-> "none"]
  /\ lost = FALSE
  /\ totalRetries = 0 /\ successfulAfterRetry = 0 /\ failedAfterMaxRetries = 0
  /\ executed = [c \in Calls |-> 0]
  /\ resumed = 0

Goto(c, from, to) ==
  /\ pc[c] = from
  /\ pc' = [pc EXCEPT ![c] = to]

StreamGoto(c, from, to) ==
  /\ stream[c] = from
  /\ stream' = [stream EXCEPT ![c] = to]
-----------------------------------------------------------------------------
(* An attempt *)

\* The first attempt of a call; without a retry_config it is the only one.
Call(c) ==
  /\ Goto(c, "idle", "opening")
  /\ attempt' = [attempt EXCEPT ![c] = @ + 1]
  /\ UNCHANGED <<config, result, stream, lost, metrics, executed, resumed>>

\* The attempt is over: with a retry_config its result is looked at.
Settle(c, r) ==
  /\ result' = [result EXCEPT ![c] = r]
  /\ pc' = [pc EXCEPT ![c] = IF config = NoConfig THEN "done" ELSE "settling"]
  /\ UNCHANGED <<config, attempt, lost, metrics, executed, resumed>>

\* open_bi(): a stream of its own, unless the connection is gone.
OpenBi(c) ==
  /\ pc[c] = "opening"
  /\ IF lost
     THEN Settle(c, "connection") /\ UNCHANGED stream
     ELSE /\ Goto(c, "opening", "sending")
          /\ stream' = [stream EXCEPT ![c] = "open"]
          /\ UNCHANGED <<config, attempt, result, lost, metrics, executed, resumed>>

\* tx.send(): the whole request is handed to the transport.
Send(c) ==
  /\ Goto(c, "sending", "waiting")
  /\ ~lost
  /\ StreamGoto(c, "open", "queued")
  /\ UNCHANGED <<config, attempt, result, lost, metrics, executed, resumed>>

\* tx.send() fails: connection lost, stream stopped by a server that dropped
\* it, or a request over the frame limit.  The server never has it whole.
SendFails(c) ==
  /\ pc[c] = "sending"
  /\ stream' = [stream EXCEPT ![c] = "ended"]
  /\ Settle(c, "connection")

\* Variant: the end of the stream is taken for a broken connection.
Receive_EndIsConnection(c) ==
  /\ pc[c] = "waiting"
  /\ \/ stream[c] \in Answer /\ Settle(c, stream[c])
     \/ stream[c] = "ended" /\ Settle(c, "connection")
     \/ lost /\ Settle(c, "connection")
  /\ UNCHANGED stream

\* Variant: only the stream is waited for.
Receive_IgnoresLoss(c) ==
  /\ pc[c] = "waiting"
  /\ \/ stream[c] \in Answer /\ Settle(c, stream[c])
     \/ stream[c] = "ended" /\ Settle(c, "protocol")
  /\ UNCHANGED stream

\* rx.next() has the answer, the end of the stream, or the connection's error;
\* an answer that arrived before the loss may still be read, or not.
Receive(c) ==
  /\ pc[c] = "waiting"
  /\ \/ stream[c] \in Answer /\ Settle(c, stream[c])
     \/ stream[c] = "ended" /\ Settle(c, "protocol")
     \/ lost /\ Settle(c, "connection")
  /\ UNCHANGED stream
-----------------------------------------------------------------------------
(* Between attempts *)

\* fetch_add on a counter, in the branches that record.
Recorded(counter, recording) == counter + (IF recording THEN 1 ELSE 0)

\* Variant: an exhausted call is not told from one that will be retried.
RecordResult_OnlyRetries(c) ==
  LET retry == IsRetryable(result[c]) /\ attempt[c] <= config.maxAttempts IN
  /\ totalRetries' = Recorded(totalRetries, retry)
  /\ successfulAfterRetry' =
       Recorded(successfulAfterRetry, result[c] = "ok" /\ attempt[c] > 1)
  /\ UNCHANGED failedAfterMaxRetries

\* What the closure records in the metrics; current_attempt is attempt[c] - 1.
RecordResult(c) ==
  LET ok == result[c] = "ok"
      retryable == ~ok /\ IsRetryable(result[c])
      late == attempt[c] >= config.maxAttempts
  IN
  /\ successfulAfterRetry' = Recorded(successfulAfterRetry, ok /\ attempt[c] > 1)
  /\ totalRetries' = Recorded(totalRetries, retryable)
  /\ failedAfterMaxRetries' = Recorded(failedAfterMaxRetries, ~ok /\ ~retryable /\ late)

\* Variant: max_times counts the first attempt too.
MayRetry_CountsFirst(c) ==
  result[c] # "ok" /\ IsRetryable(result[c]) /\ attempt[c] < config.maxAttempts

\* backon makes max_times retries, after the first attempt, of errors when() likes.
MayRetry(c) ==
  result[c] # "ok" /\ IsRetryable(result[c]) /\ attempt[c] <= config.maxAttempts

Decide(c) ==
  /\ Goto(c, "settling", IF MayRetry(c) THEN "backoff" ELSE "done")
  /\ RecordResult(c)
  /\ UNCHANGED <<config, attempt, result, stream, lost, executed, resumed>>

\* Variant: a retry starts on a new connection.
RetryCall_Reconnects(c) ==
  /\ Goto(c, "backoff", "opening")
  /\ attempt' = [attempt EXCEPT ![c] = @ + 1]
  /\ stream' = [stream EXCEPT ![c] = "none"]
  /\ resumed' = resumed + 1
  /\ lost' = FALSE
  /\ UNCHANGED <<config, result, metrics, executed>>

\* The backoff elapses and the closure runs again, on a new stream.
RetryCall(c) ==
  /\ Goto(c, "backoff", "opening")
  /\ attempt' = [attempt EXCEPT ![c] = @ + 1]
  /\ stream' = [stream EXCEPT ![c] = "none"]
  /\ resumed' = resumed + 1
  /\ UNCHANGED <<config, result, lost, metrics, executed>>

ClientStep(c) ==
  \/ OpenBi(c) \/ Send(c) \/ (lost /\ SendFails(c)) \/ Receive(c)
  \/ Decide(c) \/ RetryCall(c)
-----------------------------------------------------------------------------
(* The server and the network *)

serverUnchanged == <<config, pc, attempt, result, lost, metrics, resumed>>

\* Dropped unread: shutting down, or the request could not be read.
DropStream(c) == StreamGoto(c, "queued", "ended") /\ UNCHANGED <<serverUnchanged, executed>>

\* No such service or resource, or the peer's breaker is open: no callback runs.
RefuseRequest(c) ==
  StreamGoto(c, "queued", "resource") /\ UNCHANGED <<serverUnchanged, executed>>

Execute(c) ==
  /\ StreamGoto(c, "queued", "running")
  /\ executed' = [executed EXCEPT ![c] = @ + 1]
  /\ UNCHANGED serverUnchanged

\* The callback returned, and its answer is written.
Respond(c) ==
  /\ \E a \in Answer : StreamGoto(c, "running", a)
  /\ UNCHANGED <<serverUnchanged, executed>>

\* The callback panicked, or send_response could not send what it returned.
EndUnanswered(c) ==
  StreamGoto(c, "running", "ended") /\ UNCHANGED <<serverUnchanged, executed>>

LoseConnection ==
  /\ ~lost
  /\ lost' = TRUE
  /\ UNCHANGED <<config, pc, attempt, result, stream, metrics, executed, resumed>>

ServerStep(c) ==
  DropStream(c) \/ RefuseRequest(c) \/ Execute(c) \/ Respond(c) \/ EndUnanswered(c)
-----------------------------------------------------------------------------
Next ==
  \/ LoseConnection
  \/ \E c \in Calls : Call(c) \/ ClientStep(c) \/ SendFails(c) \/ ServerStep(c)

Spec == Init /\ [][Next]_vars

\* The client's task is polled and its timer fires; nothing is assumed of the
\* server, whose callbacks may run for ever, nor of the network.
Fairness == \A c \in Calls : WF_vars(ClientStep(c))
FairSpec == Spec /\ Fairness
-----------------------------------------------------------------------------
(* Properties *)

Spent(c) == pc[c] = "done" /\ result[c] # "ok" /\ IsRetryable(result[c])

\* With the default predicate a call never runs its callback twice: a
\* connection error means the request was not taken, or that the connection
\* the next attempt would need is gone.
NetworkRetriesRunOnce ==
  config = NoConfig \/ config.retryable \subseteq NetworkOnly =>
    \A c \in Calls : executed[c] <= 1

\* A call is attempted at most max_attempts + 1 times, and one that gives up
\* on an error worth retrying has been attempted exactly that often.
GivesUpOnlyWhenSpent ==
  config # NoConfig =>
    \A c \in Calls :
      /\ attempt[c] <= config.maxAttempts + 1
      /\ Spent(c) => attempt[c] = config.maxAttempts + 1

\* What the counters count.  total_retries: retries made, retries about to be
\* made, and the last failure of each exhausted call.  failed_after_max_retries:
\* never an exhausted call, only those whose late attempt failed for good.
MetricsMeaning ==
  config # NoConfig =>
    /\ totalRetries = resumed + Cardinality({c \in Calls : pc[c] = "backoff"})
                              + Cardinality({c \in Calls : Spent(c)})
    /\ successfulAfterRetry =
         Cardinality({c \in Calls : pc[c] = "done" /\ result[c] = "ok" /\ attempt[c] > 1})
    /\ failedAfterMaxRetries =
         Cardinality({c \in Calls : /\ pc[c] = "done" /\ result[c] # "ok" /\ ~Spent(c)
                                    /\ attempt[c] >= config.maxAttempts})

\* Retries do not ride out the loss of the connection: a call that is between
\* attempts, or begins, once it is lost can only end in a connection error.
LossIsFinal ==
  \A c \in Calls :
    [](lost /\ pc[c] \in {"idle", "backoff"} =>
         [](pc[c] = "done" => result[c] = "connection"))

\* However its server hangs, a call ends once the connection is lost.
LossEndsCalls ==
  \A c \in Calls : (lost /\ pc[c] # "idle") ~> (pc[c] = "done")
=============================================================================
