------------------------- MODULE RetryClient_proofs -------------------------
(***************************************************************************)
(* Theorems about RetryClient, for any finite set of calls and any set of  *)
(* settings.                                                               *)
(***************************************************************************)
EXTENDS RetryClient, FiniteSetTheorems, TLAPS

\* A configuration that build() returned is one that RetryConfig allows.
LEMMA BuiltIsValid ==
  ASSUME NEW s \in Settings
  PROVE  Build(s) \in ValidConfig \cup {NoConfig}
  BY SettingsAreConfigs DEF Build, ValidConfig

LEMMA ConfigFacts ==
  ASSUME NEW k \in ValidConfig
  PROVE  /\ k.maxAttempts \in Nat /\ k.maxAttempts > 0
         /\ k.retryable \subseteq ClientError
         /\ k # NoConfig
  BY NoConfigIsNone DEF ValidConfig, RetryConfig

LEMMA InitTyped == Init => TypeOK
<1> SUFFICES ASSUME Init PROVE TypeOK
  OBVIOUS
<1>1. config \in ValidConfig \cup {NoConfig}
  BY BuiltIsValid DEF Init
<1> QED BY <1>1 DEF Init, TypeOK, CallState, Result, StreamState

LEMMA StepTyped == TypeOK /\ [Next]_vars => TypeOK'
<1> SUFFICES ASSUME TypeOK, [Next]_vars PROVE TypeOK'
  OBVIOUS
<1> USE DEF TypeOK, Goto, StreamGoto
<1>1. CASE UNCHANGED vars
  BY <1>1 DEF vars, metrics
<1>2. CASE LoseConnection
  BY <1>2 DEF LoseConnection, metrics
<1>3. ASSUME NEW c \in Calls, Call(c) \/ OpenBi(c) \/ Send(c) \/ RetryCall(c) PROVE TypeOK'
  BY <1>3 DEF Call, OpenBi, Send, RetryCall, Settle, metrics, CallState, Result,
     StreamState, ClientError
<1>4. ASSUME NEW c \in Calls, SendFails(c) \/ Receive(c) PROVE TypeOK'
  BY <1>4 DEF SendFails, Receive, Settle, metrics, CallState, Result, StreamState,
     ClientError, Answer
<1>5. ASSUME NEW c \in Calls, Decide(c) PROVE TypeOK'
  <2>1. /\ totalRetries' \in Nat /\ successfulAfterRetry' \in Nat
        /\ failedAfterMaxRetries' \in Nat
    BY <1>5 DEF Decide, RecordResult, Recorded
  <2>2. pc' \in [Calls -> CallState]
    BY <1>5 DEF Decide, CallState
  <2> QED BY <1>5, <2>1, <2>2 DEF Decide
<1>6. ASSUME NEW c \in Calls, ServerStep(c) PROVE TypeOK'
  BY <1>6 DEF ServerStep, DropStream, RefuseRequest, Execute, Respond, EndUnanswered,
     serverUnchanged, metrics, StreamState, Answer
<1> QED BY <1>1, <1>2, <1>3, <1>4, <1>5, <1>6 DEF Next, ClientStep

\* All variables keep their types; a configuration in use has passed build(),
\* so that max_attempts - 1 does not underflow.
THEOREM RetryTyping == Spec => []TypeOK
  BY InitTyped, StepTyped, PTL DEF Spec
-----------------------------------------------------------------------------
(* The bound on attempts *)

\* A call has made no attempt while it is idle, has one left in its backoff, and
\* ends on an error worth retrying only after the last.
AttemptsInv ==
  config # NoConfig =>
    \A c \in Calls :
      /\ attempt[c] <= config.maxAttempts + 1
      /\ pc[c] = "idle" => attempt[c] = 0
      /\ pc[c] = "backoff" => attempt[c] <= config.maxAttempts
      /\ pc[c] = "done" => ~MayRetry(c)

LEMMA InitAttempts == Init => AttemptsInv
<1> SUFFICES ASSUME Init, config # NoConfig, NEW c \in Calls
             PROVE  attempt[c] = 0 /\ pc[c] = "idle" /\ config.maxAttempts \in Nat
  BY DEF AttemptsInv
<1> QED BY InitTyped, ConfigFacts DEF Init, TypeOK

LEMMA StepAttempts == TypeOK /\ AttemptsInv /\ [Next]_vars => AttemptsInv'
<1> SUFFICES ASSUME TypeOK, AttemptsInv, [Next]_vars, config' # NoConfig, NEW c \in Calls
             PROVE  (/\ attempt[c] <= config.maxAttempts + 1
                     /\ pc[c] = "idle" => attempt[c] = 0
                     /\ pc[c] = "backoff" => attempt[c] <= config.maxAttempts
                     /\ pc[c] = "done" => ~MayRetry(c))'
  BY DEF AttemptsInv
<1>0. config' = config /\ config.maxAttempts \in Nat /\ config.maxAttempts > 0
  BY ConfigFacts DEF TypeOK, vars, metrics, Next, LoseConnection, Call, ClientStep, OpenBi,
     Send, SendFails, Receive, Decide, RetryCall, Settle, ServerStep, DropStream,
     RefuseRequest, Execute, Respond, EndUnanswered, serverUnchanged
<1> USE <1>0 DEF TypeOK, AttemptsInv, Goto, StreamGoto, MayRetry, IsRetryable
<1>1. CASE UNCHANGED vars
  BY <1>1 DEF vars, metrics
<1>2. CASE LoseConnection
  BY <1>2 DEF LoseConnection, metrics
<1>3. ASSUME NEW d \in Calls, Call(d) \/ RetryCall(d)
      PROVE  /\ attempt' = [attempt EXCEPT ![d] = @ + 1]
             /\ attempt[d] <= config.maxAttempts
             /\ pc' = [pc EXCEPT ![d] = "opening"] /\ UNCHANGED result
  BY <1>3 DEF Call, RetryCall, metrics
<1>4. ASSUME NEW d \in Calls, OpenBi(d) \/ Send(d) \/ SendFails(d) \/ Receive(d)
      PROVE  /\ UNCHANGED attempt
             /\ pc[d] \notin {"idle", "backoff", "done"}
             /\ \E p \in {"sending", "waiting", "settling"} : pc' = [pc EXCEPT ![d] = p]
             /\ \A e \in Calls \ {d} : result'[e] = result[e]
  BY <1>4 DEF OpenBi, Send, SendFails, Receive, Settle, metrics
<1>5. ASSUME NEW d \in Calls, Decide(d)
      PROVE  /\ UNCHANGED <<attempt, result>>
             /\ pc[d] = "settling"
             /\ pc' = [pc EXCEPT ![d] = IF MayRetry(d) THEN "backoff" ELSE "done"]
  BY <1>5 DEF Decide
<1>6. ASSUME NEW d \in Calls, ServerStep(d) PROVE UNCHANGED <<attempt, result, pc>>
  BY <1>6 DEF ServerStep, DropStream, RefuseRequest, Execute, Respond, EndUnanswered,
     serverUnchanged
<1> QED BY <1>1, <1>2, <1>3, <1>4, <1>5, <1>6 DEF Next, ClientStep

\* For any max_attempts: no call is attempted more than max_attempts + 1 times,
\* and none gives up on an error worth retrying before that.
THEOREM AttemptsBounded == Spec => []GivesUpOnlyWhenSpent
<1>1. TypeOK /\ AttemptsInv => GivesUpOnlyWhenSpent
  <2> SUFFICES ASSUME TypeOK, AttemptsInv, config # NoConfig, NEW c \in Calls
               PROVE  /\ attempt[c] <= config.maxAttempts + 1
                      /\ Spent(c) => attempt[c] = config.maxAttempts + 1
    BY DEF GivesUpOnlyWhenSpent
  <2>1. config.maxAttempts \in Nat /\ attempt[c] \in Nat
    BY ConfigFacts DEF TypeOK
  <2> QED BY <2>1 DEF AttemptsInv, Spent, MayRetry
<1> QED BY <1>1, InitTyped, StepTyped, InitAttempts, StepAttempts, PTL DEF Spec
-----------------------------------------------------------------------------
(* Retries and the callback *)

RetriesNetworkErrors == config = NoConfig \/ config.retryable \subseteq NetworkOnly

\* Until a request is taken from its stream the callback has not run for the
\* call; and where another attempt follows, it has not run, or the connection is
\* gone.
RunOnceInv ==
  RetriesNetworkErrors =>
    \A c \in Calls :
      /\ executed[c] <= 1
      /\ stream[c] \in {"open", "queued"} => executed[c] = 0
      /\ pc[c] = "idle" => executed[c] = 0 /\ stream[c] = "none"
      /\ pc[c] = "opening" => stream[c] = "none"
      /\ pc[c] = "sending" => stream[c] = "open"
      /\ pc[c] = "settling" => config # NoConfig
      /\ \/ pc[c] \in {"opening", "backoff"}
         \/ pc[c] = "settling" /\ result[c] \in NetworkOnly
         => executed[c] = 0 \/ lost
      /\ pc[c] \in {"backoff", "settling"} /\ stream[c] = "queued" => lost

LEMMA InitRunOnce == Init => RunOnceInv
  BY DEF Init, RunOnceInv

LEMMA StepRunOnce == TypeOK /\ RunOnceInv /\ [Next]_vars => RunOnceInv'
<1> SUFFICES ASSUME TypeOK, RunOnceInv, [Next]_vars PROVE RunOnceInv'
  OBVIOUS
<1> USE DEF TypeOK, RunOnceInv, RetriesNetworkErrors, Goto, StreamGoto, NetworkOnly
<1>1. CASE UNCHANGED vars
  BY <1>1 DEF vars, metrics
<1>2. CASE LoseConnection
  BY <1>2 DEF LoseConnection, metrics
<1>3. ASSUME NEW d \in Calls, Call(d) \/ RetryCall(d) PROVE RunOnceInv'
  BY <1>3 DEF Call, RetryCall, metrics
<1>4. ASSUME NEW d \in Calls, OpenBi(d) \/ Send(d) PROVE RunOnceInv'
  BY <1>4 DEF OpenBi, Send, Settle, metrics
<1>5. ASSUME NEW d \in Calls, SendFails(d) PROVE RunOnceInv'
  BY <1>5 DEF SendFails, Settle, metrics
<1>6. ASSUME NEW d \in Calls, Receive(d) PROVE RunOnceInv'
  BY <1>6 DEF Receive, Settle, metrics, Answer
<1>7. ASSUME NEW d \in Calls, Decide(d) PROVE RunOnceInv'
  <2>1. /\ UNCHANGED <<config, executed, stream, lost, result>> /\ pc[d] = "settling"
        /\ pc' = [pc EXCEPT ![d] = IF MayRetry(d) THEN "backoff" ELSE "done"]
    BY <1>7 DEF Decide
  <2>2. RetriesNetworkErrors /\ MayRetry(d) => result[d] \in NetworkOnly
    BY <2>1 DEF MayRetry, IsRetryable
  <2> QED BY <2>1, <2>2
<1>8. ASSUME NEW d \in Calls, ServerStep(d) PROVE RunOnceInv'
  BY <1>8 DEF ServerStep, DropStream, RefuseRequest, Execute, Respond, EndUnanswered,
     serverUnchanged, Answer
<1> QED BY <1>1, <1>2, <1>3, <1>4, <1>5, <1>6, <1>7, <1>8 DEF Next, ClientStep

\* With a predicate that retries network errors only, no call runs its callback
\* twice, however answers are lost.
THEOREM NetworkRetriesAreSafe == Spec => []NetworkRetriesRunOnce
<1>1. RunOnceInv => NetworkRetriesRunOnce
  BY DEF RunOnceInv, RetriesNetworkErrors, NetworkRetriesRunOnce
<1> QED BY <1>1, InitTyped, StepTyped, InitRunOnce, StepRunOnce, PTL DEF Spec

\* Once the connection is lost a call that is to make another attempt can only
\* come to a connection error.
Doomed(c) ==
  /\ lost
  /\ \/ pc[c] \in {"idle", "backoff", "opening"}
     \/ pc[c] \in {"settling", "done"} /\ result[c] = "connection"

LEMMA StepDoomed ==
  ASSUME NEW c \in Calls
  PROVE  TypeOK /\ Doomed(c) /\ [Next]_vars => Doomed(c)'
<1> SUFFICES ASSUME TypeOK, Doomed(c), [Next]_vars PROVE Doomed(c)'
  OBVIOUS
<1> USE DEF TypeOK, Doomed, Goto
<1>1. CASE UNCHANGED vars
  BY <1>1 DEF vars, metrics
<1>2. CASE LoseConnection
  BY <1>2 DEF LoseConnection
<1>3. ASSUME NEW d \in Calls, Call(d) \/ OpenBi(d) \/ Send(d) \/ RetryCall(d) PROVE Doomed(c)'
  BY <1>3 DEF Call, OpenBi, Send, RetryCall, Settle
<1>4. ASSUME NEW d \in Calls, SendFails(d) \/ Receive(d) \/ Decide(d) PROVE Doomed(c)'
  BY <1>4 DEF SendFails, Receive, Settle, Decide
<1>5. ASSUME NEW d \in Calls, ServerStep(d) PROVE Doomed(c)'
  BY <1>5 DEF ServerStep, DropStream, RefuseRequest, Execute, Respond, EndUnanswered,
     serverUnchanged
<1> QED BY <1>1, <1>2, <1>3, <1>4, <1>5 DEF Next, ClientStep

\* Retries do not ride out the loss of the connection.
THEOREM LossStaysFinal == Spec => LossIsFinal
<1>1. ASSUME NEW c \in Calls
      PROVE  Spec => [](lost /\ pc[c] \in {"idle", "backoff"} =>
                          [](pc[c] = "done" => result[c] = "connection"))
  <2>1. lost /\ pc[c] \in {"idle", "backoff"} => Doomed(c)
    BY DEF Doomed
  <2>2. Doomed(c) => (pc[c] = "done" => result[c] = "connection")
    BY DEF Doomed
  <2>3. TypeOK /\ Doomed(c) /\ [Next]_vars => Doomed(c)'
    BY StepDoomed
  <2> QED BY <2>1, <2>2, <2>3, InitTyped, StepTyped, PTL DEF Spec
<1>2. Spec => \A c \in Calls : [](lost /\ pc[c] \in {"idle", "backoff"} =>
                                  [](pc[c] = "done" => result[c] = "connection"))
  BY <1>1
<1> QED BY <1>2 DEF LossIsFinal
-----------------------------------------------------------------------------
(* What the counters count *)

BackingOff == {c \in Calls : pc[c] = "backoff"}
Exhausted == {c \in Calls : Spent(c)}
LateSuccesses == {c \in Calls : pc[c] = "done" /\ result[c] = "ok" /\ attempt[c] > 1}
LateFailures == {c \in Calls : /\ pc[c] = "done" /\ result[c] # "ok" /\ ~Spent(c)
                               /\ attempt[c] >= config.maxAttempts}

Counted == <<BackingOff, Exhausted, LateSuccesses, LateFailures>>

LEMMA CountedFinite ==
  /\ IsFiniteSet(BackingOff) /\ IsFiniteSet(Exhausted)
  /\ IsFiniteSet(LateSuccesses) /\ IsFiniteSet(LateFailures)
<1>1. /\ BackingOff \subseteq Calls /\ Exhausted \subseteq Calls
      /\ LateSuccesses \subseteq Calls /\ LateFailures \subseteq Calls
  BY DEF BackingOff, Exhausted, LateSuccesses, LateFailures
<1> QED BY <1>1, CallsFinite, FS_Subset

\* A call joins a set of calls, or it does not: the set's size follows.
LEMMA JoinCounts ==
  ASSUME NEW S, IsFiniteSet(S), NEW c, c \notin S, NEW joins \in BOOLEAN
  PROVE  LET T == IF joins THEN S \cup {c} ELSE S IN
         /\ Cardinality(S) \in Nat
         /\ Cardinality(T) = Cardinality(S) + (IF joins THEN 1 ELSE 0)
<1>1. Cardinality(S) \in Nat
  BY FS_CardinalityType
<1>2. Cardinality(S \cup {c}) = Cardinality(S) + 1
  BY FS_AddElement
<1> QED BY <1>1, <1>2

LEMMA InitMetrics == Init => MetricsMeaning
<1> SUFFICES ASSUME Init PROVE MetricsMeaning
  OBVIOUS
<1>1. BackingOff = {} /\ Exhausted = {} /\ LateSuccesses = {} /\ LateFailures = {}
  BY DEF Init, BackingOff, Exhausted, LateSuccesses, LateFailures, Spent
<1>2. Cardinality({}) = 0
  BY FS_EmptySet
<1> QED BY <1>1, <1>2 DEF Init, MetricsMeaning, BackingOff, Exhausted, LateSuccesses, LateFailures

\* A step that moves no call into or out of these sets and records nothing.
LEMMA UncountedKeepsMetrics ==
  ASSUME MetricsMeaning, UNCHANGED <<config, metrics, resumed>>, UNCHANGED Counted
  PROVE  MetricsMeaning'
  BY DEF MetricsMeaning, Counted, metrics, BackingOff, Exhausted, LateSuccesses, LateFailures

\* The counter a call is added to in each branch is the one that counts the set
\* it joins; a retryable failure counts in total_retries on either way out.
LEMMA DecideKeepsMetrics ==
  ASSUME TypeOK, MetricsMeaning, config # NoConfig, NEW c \in Calls, Decide(c)
  PROVE  MetricsMeaning'
<1> DEFINE ok == result[c] = "ok"
           retryable == ~ok /\ IsRetryable(result[c])
           spent == retryable /\ ~MayRetry(c)
           lateOk == ok /\ attempt[c] > 1
           lateFail == ~ok /\ ~retryable /\ attempt[c] >= config.maxAttempts
<1>1. /\ UNCHANGED <<config, attempt, result, resumed>> /\ pc[c] = "settling"
      /\ pc' = [pc EXCEPT ![c] = IF MayRetry(c) THEN "backoff" ELSE "done"]
  BY DEF Decide, Goto
<1>2. /\ config.maxAttempts \in Nat /\ attempt[c] \in Nat /\ pc \in [Calls -> CallState]
  BY ConfigFacts DEF TypeOK
<1>3. /\ BackingOff' = IF MayRetry(c) THEN BackingOff \cup {c} ELSE BackingOff
      /\ c \notin BackingOff
  BY <1>1, <1>2 DEF BackingOff
<1>4. /\ Exhausted' = IF spent THEN Exhausted \cup {c} ELSE Exhausted
      /\ c \notin Exhausted
  BY <1>1, <1>2 DEF Exhausted, Spent, MayRetry, IsRetryable
<1>5. /\ LateSuccesses' = IF lateOk THEN LateSuccesses \cup {c} ELSE LateSuccesses
      /\ c \notin LateSuccesses
  BY <1>1, <1>2 DEF LateSuccesses, MayRetry
<1>6. /\ LateFailures' = IF lateFail THEN LateFailures \cup {c} ELSE LateFailures
      /\ c \notin LateFailures
  BY <1>1, <1>2 DEF LateFailures, Spent, MayRetry, IsRetryable
<1>7. /\ successfulAfterRetry' = successfulAfterRetry + (IF lateOk THEN 1 ELSE 0)
      /\ totalRetries' = totalRetries + (IF retryable THEN 1 ELSE 0)
      /\ failedAfterMaxRetries' = failedAfterMaxRetries + (IF lateFail THEN 1 ELSE 0)
  BY DEF Decide, RecordResult, Recorded
<1>8. /\ totalRetries = resumed + Cardinality(BackingOff) + Cardinality(Exhausted)
      /\ successfulAfterRetry = Cardinality(LateSuccesses)
      /\ failedAfterMaxRetries = Cardinality(LateFailures)
  BY DEF MetricsMeaning, BackingOff, Exhausted, LateSuccesses, LateFailures
<1>9. MayRetry(c) \in BOOLEAN /\ (retryable <=> MayRetry(c) \/ spent) /\ ~(MayRetry(c) /\ spent)
  BY DEF MayRetry
<1>10. /\ Cardinality(BackingOff') = Cardinality(BackingOff) + (IF MayRetry(c) THEN 1 ELSE 0)
       /\ Cardinality(BackingOff) \in Nat
  BY <1>3, <1>9, CountedFinite, JoinCounts
<1>11. /\ Cardinality(Exhausted') = Cardinality(Exhausted) + (IF spent THEN 1 ELSE 0)
       /\ Cardinality(Exhausted) \in Nat
  BY <1>4, CountedFinite, JoinCounts
<1>12. Cardinality(LateSuccesses') = Cardinality(LateSuccesses) + (IF lateOk THEN 1 ELSE 0)
  BY <1>5, CountedFinite, JoinCounts
<1>13. Cardinality(LateFailures') = Cardinality(LateFailures) + (IF lateFail THEN 1 ELSE 0)
  BY <1>6, CountedFinite, JoinCounts
<1> HIDE DEF retryable, spent, lateOk, lateFail
<1>14. /\ totalRetries' = resumed' + Cardinality(BackingOff') + Cardinality(Exhausted')
       /\ successfulAfterRetry' = Cardinality(LateSuccesses')
       /\ failedAfterMaxRetries' = Cardinality(LateFailures')
  BY <1>1, <1>7, <1>8, <1>9, <1>10, <1>11, <1>12, <1>13 DEF TypeOK
<1> QED BY <1>14 DEF MetricsMeaning, BackingOff, Exhausted, LateSuccesses, LateFailures

\* A retry that was to be made is made: one call fewer in its backoff.
LEMMA RetryKeepsMetrics ==
  ASSUME TypeOK, MetricsMeaning, config # NoConfig, NEW c \in Calls, RetryCall(c)
  PROVE  MetricsMeaning'
<1>1. /\ UNCHANGED <<config, result, metrics>> /\ resumed' = resumed + 1
      /\ pc[c] = "backoff" /\ pc' = [pc EXCEPT ![c] = "opening"]
      /\ attempt' = [attempt EXCEPT ![c] = @ + 1]
  BY DEF RetryCall, Goto
<1>2. BackingOff' = BackingOff \ {c} /\ c \in BackingOff
  BY <1>1 DEF BackingOff, TypeOK
<1>3. UNCHANGED <<Exhausted, LateSuccesses, LateFailures>>
  BY <1>1 DEF Exhausted, LateSuccesses, LateFailures, Spent, IsRetryable, TypeOK
<1>4. /\ Cardinality(BackingOff') = Cardinality(BackingOff) - 1
      /\ Cardinality(BackingOff) \in Nat /\ Cardinality(Exhausted) \in Nat
  BY <1>2, CountedFinite, FS_RemoveElement, FS_CardinalityType
<1>5. totalRetries = resumed + Cardinality(BackingOff) + Cardinality(Exhausted)
  BY DEF MetricsMeaning, BackingOff, Exhausted
<1>6. totalRetries' = resumed' + Cardinality(BackingOff') + Cardinality(Exhausted')
  BY <1>1, <1>3, <1>4, <1>5 DEF metrics, TypeOK
<1> QED BY <1>1, <1>3, <1>6
        DEF MetricsMeaning, metrics, BackingOff, Exhausted, LateSuccesses, LateFailures

LEMMA StepMetrics == TypeOK /\ MetricsMeaning /\ [Next]_vars => MetricsMeaning'
<1> SUFFICES ASSUME TypeOK, MetricsMeaning, [Next]_vars, config' # NoConfig
             PROVE  MetricsMeaning'
  BY DEF MetricsMeaning
<1>0. config' = config
  BY DEF vars, metrics, Next, LoseConnection, Call, ClientStep, OpenBi, Send, SendFails,
     Receive, Decide, RetryCall, Settle, ServerStep, DropStream, RefuseRequest, Execute,
     Respond, EndUnanswered, serverUnchanged
<1> USE DEF Counted, BackingOff, Exhausted, LateSuccesses, LateFailures, Spent, IsRetryable
<1>1. CASE UNCHANGED vars
  <2>1. UNCHANGED <<config, metrics, resumed>> /\ UNCHANGED Counted
    BY <1>1 DEF vars
  <2> QED BY <2>1, UncountedKeepsMetrics
<1>2. CASE LoseConnection \/ \E c \in Calls : ServerStep(c)
  <2>1. UNCHANGED <<config, pc, attempt, result, metrics, resumed>>
    BY <1>2 DEF LoseConnection, ServerStep, DropStream, RefuseRequest, Execute, Respond,
       EndUnanswered, serverUnchanged
  <2>2. UNCHANGED Counted
    BY <2>1
  <2> QED BY <2>1, <2>2, UncountedKeepsMetrics
<1>3. ASSUME NEW c \in Calls, Call(c) \/ OpenBi(c) \/ Send(c) \/ SendFails(c) \/ Receive(c)
      PROVE  MetricsMeaning'
  <2>1. /\ UNCHANGED <<config, metrics, resumed>>
        /\ pc[c] \notin {"backoff", "done"}
        /\ \E p \in {"opening", "sending", "waiting", "settling"} : pc' = [pc EXCEPT ![c] = p]
        /\ \A d \in Calls \ {c} : attempt'[d] = attempt[d] /\ result'[d] = result[d]
    BY <1>0, <1>3 DEF Call, OpenBi, Send, SendFails, Receive, Settle, Goto, TypeOK
  <2>2. \A d \in Calls : pc'[d] \in {"backoff", "done"} \/ pc[d] \in {"backoff", "done"} =>
          d # c /\ pc'[d] = pc[d] /\ attempt'[d] = attempt[d] /\ result'[d] = result[d]
    BY <2>1 DEF TypeOK
  <2>3. UNCHANGED Counted
    BY <2>1, <2>2
  <2> QED BY <2>1, <2>3, UncountedKeepsMetrics
<1>4. ASSUME NEW c \in Calls, Decide(c) PROVE MetricsMeaning'
  BY <1>0, <1>4, DecideKeepsMetrics
<1>5. ASSUME NEW c \in Calls, RetryCall(c) PROVE MetricsMeaning'
  BY <1>0, <1>5, RetryKeepsMetrics
<1> QED BY <1>1, <1>2, <1>3, <1>4, <1>5 DEF Next, ClientStep

\* For any number of calls and attempts, the three counters are the sums that
\* MetricsMeaning gives.
THEOREM MetricsAddUp == Spec => []MetricsMeaning
  BY InitTyped, StepTyped, InitMetrics, StepMetrics, PTL DEF Spec
-----------------------------------------------------------------------------
(* Calls run down *)

AttemptsAllowed == IF config = NoConfig THEN 1 ELSE config.maxAttempts + 1

\* The steps of one attempt that are still to come, the backoff after it being
\* the last.
Phase(p) ==
  CASE p = "opening" -> 5 [] p = "sending" -> 4 [] p = "waiting" -> 3
    [] p = "settling" -> 2 [] p \in {"backoff", "idle"} -> 1

\* A bound on the steps a call has left.
StepsLeft(c) ==
  IF pc[c] = "done" THEN 0
  ELSE 5 * (AttemptsAllowed - attempt[c]) + Phase(pc[c])

\* Every step of a call uses up one of the steps it has left, and no step of
\* the server, the network or another call gives it more.
CallsRunDown ==
  [][\A c \in Calls : /\ StepsLeft(c)' <= StepsLeft(c)
                      /\ pc'[c] # pc[c] => StepsLeft(c)' < StepsLeft(c)]_vars

\* A call that has not begun has so many steps before it.
StepsBounded ==
  \A c \in Calls : /\ StepsLeft(c) \in Nat
                   /\ pc[c] = "idle" => StepsLeft(c) = 5 * AttemptsAllowed + 1

\* Without a RetryConfig there is one attempt and nothing after it.
OneAttempt ==
  config = NoConfig =>
    \A c \in Calls :
      /\ attempt[c] = IF pc[c] = "idle" THEN 0 ELSE 1
      /\ pc[c] \notin {"settling", "backoff"}

\* The configuration of a client never changes.
LEMMA ConfigFixed == [Next]_vars => config' = config
<1>1. ASSUME NEW c \in Calls, Call(c) \/ ClientStep(c) \/ SendFails(c) \/ ServerStep(c)
      PROVE  config' = config
  BY <1>1 DEF Call, ClientStep, OpenBi, Send, SendFails, Receive, Decide, RetryCall, Settle,
     ServerStep, DropStream, RefuseRequest, Execute, Respond, EndUnanswered, serverUnchanged
<1> QED BY <1>1 DEF Next, LoseConnection, vars

\* What a step does to the control and the attempts of the calls.
LEMMA StepsOfCalls ==
  ASSUME TypeOK, [Next]_vars
  PROVE  \/ UNCHANGED <<pc, attempt>>
         \/ \E d \in Calls :
              \/ /\ pc[d] \in {"idle", "backoff"}
                 /\ pc' = [pc EXCEPT ![d] = "opening"]
                 /\ attempt' = [attempt EXCEPT ![d] = @ + 1]
              \/ /\ UNCHANGED attempt
                 /\ \/ pc[d] = "opening" /\ pc' = [pc EXCEPT ![d] = "sending"]
                    \/ pc[d] = "sending" /\ pc' = [pc EXCEPT ![d] = "waiting"]
                    \/ /\ pc[d] \in {"opening", "sending", "waiting"}
                       /\ pc' = [pc EXCEPT ![d] = IF config = NoConfig THEN "done" ELSE "settling"]
                    \/ pc[d] = "settling" /\ pc' = [pc EXCEPT ![d] = "done"]
                    \/ pc[d] = "settling" /\ MayRetry(d) /\ pc' = [pc EXCEPT ![d] = "backoff"]
<1>1. ASSUME NEW d \in Calls, Call(d) \/ RetryCall(d)
      PROVE  /\ pc[d] \in {"idle", "backoff"}
             /\ pc' = [pc EXCEPT ![d] = "opening"]
             /\ attempt' = [attempt EXCEPT ![d] = @ + 1]
  BY <1>1 DEF Call, RetryCall, Goto
<1>2. ASSUME NEW d \in Calls, OpenBi(d) \/ Send(d)
      PROVE  /\ UNCHANGED attempt
             /\ \/ pc[d] = "opening" /\ pc' = [pc EXCEPT ![d] = "sending"]
                \/ pc[d] = "sending" /\ pc' = [pc EXCEPT ![d] = "waiting"]
                \/ /\ pc[d] = "opening"
                   /\ pc' = [pc EXCEPT ![d] = IF config = NoConfig THEN "done" ELSE "settling"]
  BY <1>2 DEF OpenBi, Send, Goto, Settle
<1>3. ASSUME NEW d \in Calls, SendFails(d) \/ Receive(d)
      PROVE  /\ UNCHANGED attempt
             /\ pc[d] \in {"sending", "waiting"}
             /\ pc' = [pc EXCEPT ![d] = IF config = NoConfig THEN "done" ELSE "settling"]
  BY <1>3 DEF SendFails, Receive, Settle
<1>4. ASSUME NEW d \in Calls, Decide(d)
      PROVE  /\ UNCHANGED attempt /\ pc[d] = "settling"
             /\ \/ pc' = [pc EXCEPT ![d] = "done"]
                \/ MayRetry(d) /\ pc' = [pc EXCEPT ![d] = "backoff"]
  BY <1>4 DEF Decide, Goto
<1>5. ASSUME NEW d \in Calls, ServerStep(d) PROVE UNCHANGED <<pc, attempt>>
  BY <1>5 DEF ServerStep, DropStream, RefuseRequest, Execute, Respond, EndUnanswered,
     serverUnchanged
<1>6. CASE LoseConnection \/ UNCHANGED vars
  BY <1>6 DEF LoseConnection, vars
<1> QED BY <1>1, <1>2, <1>3, <1>4, <1>5, <1>6 DEF Next, ClientStep

LEMMA InitOneAttempt == Init => OneAttempt
  BY DEF Init, OneAttempt

LEMMA StepOneAttempt == TypeOK /\ OneAttempt /\ [Next]_vars => OneAttempt'
<1> SUFFICES ASSUME TypeOK, OneAttempt, [Next]_vars, config = NoConfig, NEW c \in Calls
             PROVE  /\ attempt'[c] = IF pc'[c] = "idle" THEN 0 ELSE 1
                    /\ pc'[c] \notin {"settling", "backoff"}
  BY ConfigFixed DEF OneAttempt
<1>1. \A d \in Calls : /\ attempt[d] = IF pc[d] = "idle" THEN 0 ELSE 1
                       /\ pc[d] \notin {"settling", "backoff"}
  BY DEF OneAttempt
<1> QED BY <1>1, StepsOfCalls DEF TypeOK

\* The attempts of a call, with a configuration and without.
LEMMA AttemptsOf ==
  ASSUME TypeOK, AttemptsInv, OneAttempt, NEW c \in Calls
  PROVE  /\ AttemptsAllowed \in Nat /\ attempt[c] \in 0..AttemptsAllowed
         /\ pc[c] = "idle" => attempt[c] = 0
         /\ pc[c] = "backoff" => attempt[c] < AttemptsAllowed
         /\ AttemptsAllowed >= 1
<1>1. CASE config = NoConfig
  BY <1>1 DEF AttemptsAllowed, OneAttempt
<1>2. CASE config # NoConfig
  <2>1. config.maxAttempts \in Nat /\ attempt[c] \in Nat
    BY <1>2, ConfigFacts DEF TypeOK
  <2> QED BY <1>2, <2>1 DEF AttemptsAllowed, AttemptsInv
<1> QED BY <1>1, <1>2

LEMMA StepRunsDown ==
  ASSUME TypeOK, AttemptsInv, OneAttempt, [Next]_vars, NEW c \in Calls
  PROVE  /\ StepsLeft(c)' <= StepsLeft(c)
         /\ pc'[c] # pc[c] => StepsLeft(c)' < StepsLeft(c)
<1> DEFINE m == AttemptsAllowed
           a == attempt[c]
<1>1. m' = m /\ m \in Nat /\ a \in 0..m /\ m >= 1
      /\ (pc[c] = "idle" => a = 0) /\ (pc[c] = "backoff" => a < m) /\ pc[c] \in CallState
  BY ConfigFixed, AttemptsOf DEF AttemptsAllowed, TypeOK
<1>2. /\ StepsLeft(c) = IF pc[c] = "done" THEN 0 ELSE 5 * (m - a) + Phase(pc[c])
      /\ StepsLeft(c)' = IF pc'[c] = "done" THEN 0 ELSE 5 * (m - attempt'[c]) + Phase(pc'[c])
  BY <1>1 DEF StepsLeft
<1>3. /\ Phase("opening") = 5 /\ Phase("sending") = 4 /\ Phase("waiting") = 3
      /\ Phase("settling") = 2 /\ Phase("backoff") = 1 /\ Phase("idle") = 1
  BY DEF Phase
<1>4. StepsLeft(c) \in Nat
  <2>1. pc[c] # "done" => Phase(pc[c]) \in 1..5
    BY <1>1, <1>3 DEF CallState
  <2> HIDE DEF m, a
  <2> QED BY <1>1, <1>2, <2>1
<1>5. CASE pc'[c] = pc[c] /\ attempt'[c] = attempt[c]
  BY <1>2, <1>4, <1>5
<1>6. CASE /\ pc[c] \in {"idle", "backoff"} /\ pc'[c] = "opening" /\ attempt'[c] = a + 1
  <2>1. StepsLeft(c) = 5 * (m - a) + 1 /\ StepsLeft(c)' = 5 * (m - (a + 1)) + 5
    BY <1>2, <1>3, <1>6
  <2> HIDE DEF m, a
  <2>2. 5 * (m - (a + 1)) + 5 = 5 * (m - a)
    BY <1>1
  <2> QED BY <1>1, <2>1, <2>2
<1>7. CASE /\ attempt'[c] = a
           /\ \/ pc[c] = "opening" /\ pc'[c] \in {"sending", "settling", "done"}
              \/ pc[c] = "sending" /\ pc'[c] \in {"waiting", "settling", "done"}
              \/ pc[c] = "waiting" /\ pc'[c] \in {"settling", "done"}
              \/ pc[c] = "settling" /\ pc'[c] \in {"backoff", "done"}
  <2>1. 5 * (m - a) \in Nat
    BY <1>1
  <2>2. pc[c] # "done" /\ StepsLeft(c) = 5 * (m - a) + Phase(pc[c])
    BY <1>2, <1>7
  <2>3. pc'[c] # "done" => StepsLeft(c)' = 5 * (m - a) + Phase(pc'[c])
    BY <1>2, <1>7
  <2>4. pc'[c] = "done" => StepsLeft(c)' = 0
    BY <1>2
  <2>5. /\ Phase(pc[c]) \in 1..5
        /\ pc'[c] # "done" => Phase(pc'[c]) \in 1..5 /\ Phase(pc'[c]) < Phase(pc[c])
    BY <1>3, <1>7
  <2> HIDE DEF m, a
  <2> QED BY <2>1, <2>2, <2>3, <2>4, <2>5
<1>8. \/ pc'[c] = pc[c] /\ attempt'[c] = attempt[c]
      \/ pc[c] \in {"idle", "backoff"} /\ pc'[c] = "opening" /\ attempt'[c] = a + 1
      \/ /\ attempt'[c] = a
         /\ \/ pc[c] = "opening" /\ pc'[c] \in {"sending", "settling", "done"}
            \/ pc[c] = "sending" /\ pc'[c] \in {"waiting", "settling", "done"}
            \/ pc[c] = "waiting" /\ pc'[c] \in {"settling", "done"}
            \/ pc[c] = "settling" /\ pc'[c] \in {"backoff", "done"}
  BY StepsOfCalls DEF TypeOK
<1> QED BY <1>5, <1>6, <1>7, <1>8

\* call_with_retry comes to an end: with a configuration of any max_attempts, or
\* with none, a call takes a bounded number of steps, whatever the server and the
\* other calls do.  It is the step part of LossEndsCalls; what is left to fairness
\* is that the steps are taken, the one a lost connection makes possible included.
THEOREM CallsComeToAnEnd == Spec => CallsRunDown /\ []StepsBounded
<1>1. TypeOK /\ AttemptsInv /\ OneAttempt /\ [Next]_vars =>
        [\A c \in Calls : /\ StepsLeft(c)' <= StepsLeft(c)
                          /\ pc'[c] # pc[c] => StepsLeft(c)' < StepsLeft(c)]_vars
  BY StepRunsDown
<1>2. TypeOK /\ AttemptsInv /\ OneAttempt => StepsBounded
  <2> SUFFICES ASSUME TypeOK, AttemptsInv, OneAttempt, NEW c \in Calls
               PROVE  /\ StepsLeft(c) \in Nat
                      /\ pc[c] = "idle" => StepsLeft(c) = 5 * AttemptsAllowed + 1
    BY DEF StepsBounded
  <2> DEFINE left == AttemptsAllowed - attempt[c]
  <2>1. /\ AttemptsAllowed \in Nat /\ left \in Nat
        /\ pc[c] = "idle" => left = AttemptsAllowed
    BY AttemptsOf
  <2>2. pc[c] # "done" => Phase(pc[c]) \in Nat
    BY DEF Phase, TypeOK, CallState
  <2>3. pc[c] = "idle" => Phase(pc[c]) = 1
    BY DEF Phase
  <2>4. StepsLeft(c) = IF pc[c] = "done" THEN 0 ELSE 5 * left + Phase(pc[c])
    BY DEF StepsLeft
  <2> HIDE DEF left
  <2> QED BY <2>1, <2>2, <2>3, <2>4
<1> QED BY <1>1, <1>2, InitTyped, StepTyped, InitAttempts, StepAttempts, InitOneAttempt,
       StepOneAttempt, PTL DEF Spec, CallsRunDown
=============================================================================
