--------------------------- MODULE CircuitBreaker ----------------------------
(***************************************************************************)
(* RPC calls behind the per-peer circuit breakers: the RPC handler of      *)
(* handlers/rpc.rs, PeerCircuitBreakers::call_async of circuit_breaker.rs, *)
(* and the conversions a callback's error goes through between the two     *)
(* (error_classification.rs).                                              *)
(*                                                                         *)
(* The breaker of one peer is circuitbreaker-rs, which is not part of the  *)
(* repository; it is modelled by what the module documentation of          *)
(* circuit_breaker.rs and its tests rely on.  Closed admits calls until it *)
(* has counted FailureThreshold failures in a row.  "State is updated on   *)
(* the rejection": the breaker may still be Closed after that run, the     *)
(* next call is rejected and leaves it Open, and a success of a call that  *)
(* was under way clears the run if it comes first.  Open rejects until the *)
(* cooldown has elapsed, and the next call then makes it HalfOpen;         *)
(* HalfOpen admits some calls and rejects others, any failure reopens it   *)
(* and SuccessThreshold successes in a row close it.  A result carries no  *)
(* trace of the state its call was admitted in, so it counts in the state  *)
(* the breaker is in when it arrives.                                      *)
(***************************************************************************)
EXTENDS Integers

CONSTANTS
  Peers,
  Slots,             \* names for the calls a peer may have in progress at once
  Calls,             \* the calls of each peer: pairs of a peer and a slot
  FailureThreshold,  \* CircuitBreakerConfig.consecutive_failures
  SuccessThreshold,  \* CircuitBreakerConfig.consecutive_successes
  Classifiers,       \* the ErrorClassifiers a server may be built with
  NoBreakers         \* a server built without circuit breakers

\* ErrorSeverity; and what a classifier can tell of an anyhow::Error: a plain
\* message, one with an io::Error in its chain, one in a SystemFailureMarker.
Severity == {"application", "infrastructure", "systemFailure"}
ErrorKind == {"message", "ioError", "marker"}

ASSUME ThresholdsPositive ==
  FailureThreshold \in Nat \ {0} /\ SuccessThreshold \in Nat \ {0}
ASSUME ClassifiersClassify ==
  Classifiers \subseteq [ErrorKind -> Severity] /\ NoBreakers \notin Classifiers

ASSUME CallsOfPeers == Calls \subseteq Peers \X Slots

VARIABLES
  classifier,  \* how the server was built: a classifier, or NoBreakers
  breaker,     \* each peer's circuit breaker
  pc,          \* where each call is
  outcome,     \* what the callback of each call returned
  reply,       \* what each call was answered
  healthy,     \* do callbacks, for now, succeed or fail mildly?
  severeRun    \* history: severe results of each peer in a row, up to the threshold

vars == <<classifier, breaker, pc, outcome, reply, healthy, severeRun>>

PeerOf(c) == c[1]

Outcome == {"none", "ok"} \cup Severity
Reply == {"none", "ok", "circuitOpen"} \cup Severity
CallState == {"idle", "admission", "running", "returned", "answered"}
Breaker == [state : {"absent", "closed", "open", "halfOpen"},
            failures : 0..FailureThreshold,
            successes : 0..SuccessThreshold,
            cooled : BOOLEAN]

Fresh(s) == [state |-> s, failures |-> 0, successes |-> 0, cooled |-> FALSE]

TypeOK ==
  /\ classifier \in Classifiers \cup {NoBreakers}
  /\ breaker \in [Peers -> Breaker]
  /\ pc \in [Calls -> CallState]
  /\ outcome \in [Calls -> Outcome]
  /\ reply \in [Calls -> Reply]
  /\ healthy \in BOOLEAN
  /\ severeRun \in [Peers -> 0..FailureThreshold]

Init ==
  /\ classifier \in Classifiers \cup {NoBreakers}
  /\ breaker = [p \in Peers |-> Fresh("absent")]
  /\ pc = [c \in Calls |-> "idle"]
  /\ outcome = [c \in Calls |-> "none"]
  /\ reply = [c \in Calls |-> "none"]
  /\ healthy = TRUE
  /\ severeRun = [p \in Peers |-> 0]

Goto(c, from, to) ==
  /\ pc[c] = from
  /\ pc' = [pc EXCEPT ![c] = to]
-----------------------------------------------------------------------------
(* Errors on their way from the callback to the caller *)

\* Variant: infrastructure errors are passed on as the message they print.
AsAnyhow_Unwrapped(s) == IF s = "systemFailure" THEN "marker" ELSE "message"

\* The handler turns a ResourceError into a message and marks it by severity.
AsAnyhow(s) ==
  IF s = "systemFailure" THEN "marker"
  ELSE IF s = "infrastructure" THEN "ioError" ELSE "message"

DefaultClassifier ==
  [k \in ErrorKind |-> IF k = "marker" THEN "systemFailure"
                       ELSE IF k = "ioError" THEN "infrastructure" ELSE "application"]

AllErrors == [k \in ErrorKind |-> "systemFailure"]

Classify(s) == IF classifier = NoBreakers THEN s ELSE classifier[AsAnyhow(s)]

\* Does the breaker see this outcome as a failure?  An application error is
\* handed to it as Ok(Err(_)), a success.
Severe(o) == o \in Severity /\ Classify(o) # "application"
-----------------------------------------------------------------------------
(* The circuit breaker of one peer *)

Failed(b) ==
  IF b.state = "halfOpen" THEN Fresh("open")
  ELSE IF b.state = "closed" /\ b.failures < FailureThreshold
  THEN [b EXCEPT !.failures = @ + 1] ELSE b

\* A closed breaker that lets nobody through any more.
FullRun(b) == b.state = "closed" /\ b.failures = FailureThreshold

\* Variant: consecutive_successes is not handed to the library's builder.
Succeeded_NeverCloses(b) ==
  IF b.state = "closed" THEN [b EXCEPT !.failures = 0]
  ELSE IF b.state = "halfOpen" THEN [b EXCEPT !.successes = @ + 1] ELSE b

Succeeded(b) ==
  IF b.state = "closed" THEN [b EXCEPT !.failures = 0]
  ELSE IF b.state # "halfOpen" THEN b
  ELSE IF b.successes + 1 = SuccessThreshold THEN Fresh("closed")
  ELSE [b EXCEPT !.successes = @ + 1]

\* A full run may also open the breaker before any call is rejected by it: the
\* tests see the state only after a rejection, and test 7, the second time it opens
\* the breaker, takes the cooldown to run from the failures on.
Trips(p) ==
  /\ FullRun(breaker[p])
  /\ breaker' = [breaker EXCEPT ![p] = Fresh("open")]
  /\ UNCHANGED <<classifier, pc, outcome, reply, healthy, severeRun>>

CooldownElapses(p) ==
  /\ breaker[p].state = "open" /\ ~breaker[p].cooled
  /\ breaker' = [breaker EXCEPT ![p].cooled = TRUE]
  /\ UNCHANGED <<classifier, pc, outcome, reply, healthy, severeRun>>
-----------------------------------------------------------------------------
(* A call *)

\* A request for an RPC resource of this peer, the call before it answered.
Request(c, next) ==
  /\ pc[c] \in {"idle", "answered"}
  /\ pc' = [pc EXCEPT ![c] = next]
  /\ outcome' = [outcome EXCEPT ![c] = "none"]
  /\ reply' = [reply EXCEPT ![c] = "none"]
  /\ UNCHANGED <<classifier, healthy, severeRun>>

\* No circuit breakers: the callback is run as it is.
CallUnprotected(c) ==
  /\ classifier = NoBreakers
  /\ Request(c, "running")
  /\ UNCHANGED breaker

\* Variant: a breaker is inserted for every call.
CallBreaker_Inserts(c) ==
  /\ classifier # NoBreakers
  /\ Request(c, "admission")
  /\ breaker' = [breaker EXCEPT ![PeerOf(c)] = Fresh("closed")]

\* entry().or_insert_with() under the write lock, and a clone of the breaker,
\* which shares its state with every other clone.
CallBreaker(c) ==
  /\ classifier # NoBreakers
  /\ Request(c, "admission")
  /\ breaker' = [breaker EXCEPT ![PeerOf(c)] =
                   IF @.state = "absent" THEN Fresh("closed") ELSE @]

Admit(c) ==
  /\ breaker[PeerOf(c)].state = "closed" /\ ~FullRun(breaker[PeerOf(c)])
  /\ Goto(c, "admission", "running")
  /\ UNCHANGED <<classifier, breaker, outcome, reply, healthy, severeRun>>

\* A test request: the first after the cooldown, or another while HalfOpen.
Probe(c) ==
  LET b == breaker[PeerOf(c)] IN
  /\ Goto(c, "admission", "running")
  /\ \/ b.state = "halfOpen" /\ UNCHANGED breaker
     \/ /\ b.state = "open" /\ b.cooled
        /\ breaker' = [breaker EXCEPT ![PeerOf(c)] = Fresh("halfOpen")]
  /\ UNCHANGED <<classifier, outcome, reply, healthy, severeRun>>

\* BreakerError::Open becomes ResourceError::CircuitBreakerOpen.  The first call
\* rejected for a full run leaves the breaker open.
Reject(c) ==
  LET b == breaker[PeerOf(c)] IN
  /\ Goto(c, "admission", "answered")
  /\ reply' = [reply EXCEPT ![c] = "circuitOpen"]
  /\ \/ /\ \/ b.state = "open" /\ ~b.cooled
           \/ b.state = "halfOpen"
        /\ UNCHANGED breaker
     \/ /\ FullRun(b)
        /\ breaker' = [breaker EXCEPT ![PeerOf(c)] = Fresh("open")]
  /\ UNCHANGED <<classifier, outcome, healthy, severeRun>>

CallbackReturns(c) ==
  \E o \in {"ok"} \cup Severity :
    /\ healthy => ~Severe(o)
    /\ Goto(c, "running", "returned")
    /\ outcome' = [outcome EXCEPT ![c] = o]
    /\ UNCHANGED <<classifier, breaker, reply, healthy, severeRun>>

\* The callback panics: its task dies, nothing is recorded and nobody answers.
CallbackPanics(c) ==
  /\ ~healthy
  /\ Goto(c, "running", "idle")
  /\ UNCHANGED <<classifier, breaker, outcome, reply, healthy, severeRun>>

\* Variant: an application error is returned to the breaker as an error.
Record_ErrIsErr(c) ==
  LET p == PeerOf(c)
      o == outcome[c] IN
  /\ classifier # NoBreakers
  /\ Goto(c, "returned", "answered")
  /\ breaker' = [breaker EXCEPT ![p] = IF o = "ok" THEN Succeeded(@) ELSE Failed(@)]
  /\ severeRun' = [severeRun EXCEPT ![p] =
                     IF ~Severe(o) THEN 0
                     ELSE IF @ < FailureThreshold THEN @ + 1 ELSE @]
  /\ reply' = [reply EXCEPT ![c] = IF o = "ok" THEN "ok" ELSE Classify(o)]
  /\ UNCHANGED <<classifier, outcome, healthy>>

\* The breaker takes the result, and the handler answers with it: a
\* CallbackError that carries the severity the classifier gave.
Record(c) ==
  LET p == PeerOf(c)
      o == outcome[c] IN
  /\ classifier # NoBreakers
  /\ Goto(c, "returned", "answered")
  /\ breaker' = [breaker EXCEPT ![p] = IF Severe(o) THEN Failed(@) ELSE Succeeded(@)]
  /\ severeRun' = [severeRun EXCEPT ![p] =
                     IF ~Severe(o) THEN 0
                     ELSE IF @ < FailureThreshold THEN @ + 1 ELSE @]
  /\ reply' = [reply EXCEPT ![c] = IF o = "ok" THEN "ok" ELSE Classify(o)]
  /\ UNCHANGED <<classifier, outcome, healthy>>

\* Without a breaker the callback's result is the answer.
AnswerUnprotected(c) ==
  /\ classifier = NoBreakers
  /\ Goto(c, "returned", "answered")
  /\ reply' = [reply EXCEPT ![c] = outcome[c]]
  /\ UNCHANGED <<classifier, breaker, outcome, healthy, severeRun>>

\* What the callbacks depend on breaks, or is repaired.
HealthChanges ==
  /\ healthy' = ~healthy
  /\ UNCHANGED <<classifier, breaker, pc, outcome, reply, severeRun>>

Proceed(c) ==
  \/ Admit(c) \/ Probe(c) \/ Reject(c) \/ Record(c) \/ AnswerUnprotected(c)

Next ==
  \/ \E c \in Calls : \/ CallUnprotected(c) \/ CallBreaker(c) \/ Proceed(c)
                      \/ CallbackReturns(c) \/ CallbackPanics(c)
  \/ \E p \in Peers : Trips(p) \/ CooldownElapses(p)
  \/ HealthChanges

Spec == Init /\ [][Next]_vars

(***************************************************************************)
(* Handlers run, cooldowns elapse, and HalfOpen does not turn away for     *)
(* ever a caller that keeps asking.  Nothing is assumed of when peers call *)
(* or when callbacks return.                                               *)
(***************************************************************************)
Fairness ==
  /\ \A c \in Calls : WF_vars(Proceed(c)) /\ SF_vars(Probe(c))
  /\ \A p \in Peers : WF_vars(CooldownElapses(p))

FairSpec == Spec /\ Fairness
-----------------------------------------------------------------------------
(* Properties *)

\* "failures from one peer don't affect others", and mild errors none: a closed
\* breaker opens only on FailureThreshold severe results in a row of its own peer.
OpensOnOwnSevereRun ==
  [][\A p \in Peers :
       breaker[p].state = "closed" /\ breaker'[p].state = "open"
         => severeRun'[p] = FailureThreshold]_vars

\* "Number of consecutive failures before opening the circuit": while the latest
\* results of a peer are a full run of severe ones, none of its calls reaches a
\* callback but as a test request of the half-open breaker, however its calls and
\* those of others cross.
SevereRunCutsOff ==
  [][\A c \in Calls :
       /\ pc[c] = "admission" /\ pc'[c] = "running"
       /\ severeRun[PeerOf(c)] = FailureThreshold
       => breaker'[PeerOf(c)].state = "halfOpen"]_vars

\* "Preserve severity": with the default classifier, or with no breaker, the
\* caller is told the severity the callback gave its error.
SeverityReachesCaller ==
  classifier \in {DefaultClassifier, NoBreakers} =>
    \A c \in Calls : reply[c] \notin {"none", "circuitOpen"} => reply[c] = outcome[c]

\* A peer whose callbacks stop failing severely and that keeps calling is in
\* the end let through again for good.
HealthyPeerRecovers ==
  \A p \in Peers :
    (<>[]healthy /\ []<>(\E c \in Calls : PeerOf(c) = p /\ pc[c] = "admission"))
    => <>[](breaker[p].state = "closed")

\* "Application errors bypass circuit breaker tracking": answering a call with
\* an application error leaves the breaker as it was.
ApplicationErrorsBypass ==
  [][\A c \in Calls :
       pc[c] = "returned" /\ pc'[c] = "answered" /\ reply'[c] = "application"
         => breaker' = breaker]_vars
=============================================================================
