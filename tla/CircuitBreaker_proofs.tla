----------------------- MODULE CircuitBreaker_proofs -------------------------
(***************************************************************************)
(* Theorems about CircuitBreaker, for every set of peers and calls, every  *)
(* pair of thresholds and every set of classifiers.                        *)
(***************************************************************************)
EXTENDS CircuitBreaker, TLAPS

\* A call that goes through a breaker has its peer's breaker in the map.
CallsHaveBreakers ==
  \A c \in Calls :
    classifier # NoBreakers /\ pc[c] \in {"admission", "running", "returned"}
      => breaker[PeerOf(c)].state # "absent"

\* A closed breaker has counted exactly its peer's current run of severe
\* results, up to the threshold, and a peer without a breaker has had none.
ClosedCountsRun ==
  \A p \in Peers :
    /\ breaker[p].state = "closed" => breaker[p].failures = severeRun[p]
    /\ breaker[p].state = "absent" => severeRun[p] = 0

\* HalfOpen closes the moment it has seen enough successes.
ProbesBelowThreshold ==
  \A p \in Peers :
    breaker[p].state = "halfOpen" => breaker[p].successes < SuccessThreshold

\* Only an answered call has a reply, and it is what the classifier made of the
\* outcome of its callback.
ReplyFollowsOutcome ==
  \A c \in Calls :
    /\ pc[c] # "answered" => reply[c] = "none"
    /\ pc[c] = "returned" => outcome[c] # "none"
    /\ reply[c] \notin {"none", "circuitOpen"} =>
         outcome[c] # "none" /\ reply[c] = IF outcome[c] = "ok" THEN "ok" ELSE Classify(outcome[c])

BreakerInv == TypeOK /\ CallsHaveBreakers /\ ClosedCountsRun /\ ProbesBelowThreshold

LEMMA PeerOfCall == ASSUME NEW c \in Calls PROVE PeerOf(c) \in Peers
  BY CallsOfPeers DEF PeerOf

LEMMA FreshBreaker ==
  ASSUME NEW s \in {"absent", "closed", "open", "halfOpen"}
  PROVE  /\ Fresh(s) \in Breaker
         /\ Fresh(s).state = s /\ Fresh(s).failures = 0 /\ Fresh(s).successes = 0
  BY ThresholdsPositive DEF Fresh, Breaker

\* What a recorded failure and a recorded success do to one breaker.
LEMMA FailedBreaker ==
  ASSUME NEW b \in Breaker
  PROVE  /\ Failed(b) \in Breaker
         /\ b.state # "absent" => Failed(b).state # "absent"
         /\ b.state = "absent" => Failed(b) = b
         /\ Failed(b).state # "halfOpen"
         /\ b.state = "closed" => Failed(b).state = "closed"
         /\ Failed(b).state = "closed" =>
              /\ b.state = "closed"
              /\ Failed(b).failures = IF b.failures < FailureThreshold
                                      THEN b.failures + 1 ELSE b.failures
<1>1. CASE b.state = "closed"
  BY <1>1, ThresholdsPositive DEF Failed, Breaker
<1>2. CASE b.state = "halfOpen"
  BY <1>2, FreshBreaker DEF Failed, Breaker
<1>3. CASE b.state \in {"absent", "open"}
  BY <1>3 DEF Failed, Breaker
<1>. QED  BY <1>1, <1>2, <1>3 DEF Breaker

LEMMA SucceededBreaker ==
  ASSUME NEW b \in Breaker, b.state = "halfOpen" => b.successes < SuccessThreshold
  PROVE  /\ Succeeded(b) \in Breaker
         /\ b.state # "absent" => Succeeded(b).state # "absent"
         /\ b.state = "absent" => Succeeded(b) = b
         /\ Succeeded(b).state = "closed" => Succeeded(b).failures = 0
         /\ b.state = "closed" => Succeeded(b).state = "closed"
         /\ Succeeded(b).state = "halfOpen" =>
              Succeeded(b).successes < SuccessThreshold
<1>1. CASE b.state = "closed"
  BY <1>1, ThresholdsPositive DEF Succeeded, Breaker
<1>2. CASE b.state = "halfOpen" /\ b.successes + 1 = SuccessThreshold
  BY <1>2, FreshBreaker DEF Succeeded, Breaker
<1>3. CASE b.state = "halfOpen" /\ b.successes + 1 # SuccessThreshold
  BY <1>3, ThresholdsPositive DEF Succeeded, Breaker
<1>4. CASE b.state \in {"absent", "open"}
  BY <1>4 DEF Succeeded, Breaker
<1>. QED  BY <1>1, <1>2, <1>3, <1>4 DEF Breaker
-----------------------------------------------------------------------------
(* Initial states and steps *)

LEMMA InitInv == Init => BreakerInv /\ ReplyFollowsOutcome
<1> SUFFICES ASSUME Init PROVE BreakerInv /\ ReplyFollowsOutcome
  OBVIOUS
<1>1. \A p \in Peers : breaker[p] \in Breaker /\ breaker[p].state = "absent"
  BY FreshBreaker DEF Init
<1>2. TypeOK
  BY <1>1, ThresholdsPositive
  DEF Init, TypeOK, CallState, Outcome, Reply
<1>3. CallsHaveBreakers /\ ClosedCountsRun /\ ProbesBelowThreshold
  BY <1>1 DEF Init, CallsHaveBreakers, ClosedCountsRun, ProbesBelowThreshold
<1>. QED  BY <1>2, <1>3 DEF Init, BreakerInv, ReplyFollowsOutcome

\* A step that gives one call's peer a new breaker, and touches no history.
LEMMA CallKeepsInv ==
  ASSUME BreakerInv, NEW c \in Calls, CallUnprotected(c) \/ CallBreaker(c)
  PROVE  BreakerInv'
<1> DEFINE p == PeerOf(c)
<1> USE DEF BreakerInv
<1>1. p \in Peers
  BY PeerOfCall
<1>2. CASE CallUnprotected(c)
  BY <1>2, PeerOfCall DEF CallUnprotected, Request, TypeOK, CallState, Outcome, Reply,
     CallsHaveBreakers, ClosedCountsRun, ProbesBelowThreshold
<1>3. CASE CallBreaker(c)
  <2>1. /\ breaker'[p] \in Breaker /\ breaker'[p].state # "absent"
        /\ breaker[p].state = "absent" =>
             breaker'[p].state = "closed" /\ breaker'[p].failures = 0
        /\ breaker[p].state # "absent" => breaker'[p] = breaker[p]
        /\ \A q \in Peers : q # p => breaker'[q] = breaker[q]
        /\ breaker' \in [Peers -> Breaker]
    BY <1>1, <1>3, FreshBreaker DEF CallBreaker, TypeOK
  <2>2. TypeOK'
    BY <2>1, <1>3 DEF CallBreaker, Request, TypeOK, CallState, Outcome, Reply
  <2>3. CallsHaveBreakers'
    BY <2>1, <1>3, PeerOfCall DEF CallBreaker, Request, TypeOK, CallsHaveBreakers
  <2>4. ClosedCountsRun' /\ ProbesBelowThreshold'
    BY <2>1, <1>3, ThresholdsPositive
    DEF CallBreaker, Request, TypeOK, ClosedCountsRun, ProbesBelowThreshold
  <2>. QED  BY <2>2, <2>3, <2>4
<1>. QED  BY <1>2, <1>3

LEMMA ProbeKeepsInv ==
  ASSUME BreakerInv, NEW c \in Calls, Probe(c)
  PROVE  BreakerInv'
<1> DEFINE p == PeerOf(c)
<1> USE DEF BreakerInv
<1>1. /\ breaker'[p] \in Breaker /\ breaker'[p].state = "halfOpen"
      /\ breaker'[p].successes < SuccessThreshold
      /\ breaker' \in [Peers -> Breaker]
      /\ \A q \in Peers : q # p => breaker'[q] = breaker[q]
  BY PeerOfCall, FreshBreaker, ThresholdsPositive
  DEF Probe, TypeOK, Breaker, ProbesBelowThreshold
<1>2. TypeOK'
  BY <1>1 DEF Probe, Goto, TypeOK, CallState
<1>3. CallsHaveBreakers'
  BY <1>1, PeerOfCall DEF Probe, Goto, TypeOK, CallsHaveBreakers
<1>4. ClosedCountsRun' /\ ProbesBelowThreshold'
  BY <1>1 DEF Probe, ClosedCountsRun, ProbesBelowThreshold
<1>. QED  BY <1>2, <1>3, <1>4

\* A breaker that opens: the history stays, and holds a full run.
LEMMA OpeningKeepsInv ==
  ASSUME BreakerInv, NEW p \in Peers, FullRun(breaker[p]),
         breaker' = [breaker EXCEPT ![p] = Fresh("open")],
         UNCHANGED <<classifier, severeRun>>
  PROVE  /\ breaker' \in [Peers -> Breaker]
         /\ ClosedCountsRun' /\ ProbesBelowThreshold'
         /\ \A q \in Peers :
              /\ breaker[q].state # "absent" => breaker'[q].state # "absent"
              /\ breaker[q].state = "closed" /\ breaker'[q].state = "open"
                   => severeRun'[q] = FailureThreshold
<1> USE DEF BreakerInv
<1>1. /\ breaker'[p] \in Breaker /\ breaker'[p].state = "open"
      /\ breaker' \in [Peers -> Breaker]
      /\ \A q \in Peers : q # p => breaker'[q] = breaker[q]
  BY FreshBreaker DEF TypeOK
<1>2. severeRun'[p] = FailureThreshold
  BY DEF FullRun, ClosedCountsRun
<1>3. ClosedCountsRun' /\ ProbesBelowThreshold'
  BY <1>1 DEF ClosedCountsRun, ProbesBelowThreshold
<1>. QED  BY <1>1, <1>2, <1>3

LEMMA TripsKeepsInv ==
  ASSUME BreakerInv, NEW p \in Peers, Trips(p)
  PROVE  /\ BreakerInv'
         /\ \A q \in Peers :
              breaker[q].state = "closed" /\ breaker'[q].state = "open"
                => severeRun'[q] = FailureThreshold
<1> USE DEF BreakerInv
<1>1. /\ FullRun(breaker[p]) /\ breaker' = [breaker EXCEPT ![p] = Fresh("open")]
      /\ UNCHANGED <<classifier, pc, outcome, reply, healthy, severeRun>>
  BY DEF Trips
<1>2. TypeOK' /\ CallsHaveBreakers'
  BY <1>1, OpeningKeepsInv, PeerOfCall DEF TypeOK, CallsHaveBreakers
<1>. QED  BY <1>1, <1>2, OpeningKeepsInv

LEMMA RejectKeepsInv ==
  ASSUME BreakerInv, NEW c \in Calls, Reject(c)
  PROVE  /\ BreakerInv'
         /\ \A q \in Peers :
              breaker[q].state = "closed" /\ breaker'[q].state = "open"
                => severeRun'[q] = FailureThreshold
<1> DEFINE p == PeerOf(c)
<1> USE DEF BreakerInv
<1>1. p \in Peers
  BY PeerOfCall
<1>2. /\ UNCHANGED <<classifier, outcome, healthy, severeRun>>
      /\ pc[c] = "admission" /\ pc' = [pc EXCEPT ![c] = "answered"]
      /\ pc' \in [Calls -> CallState] /\ reply' \in [Calls -> Reply]
  BY DEF Reject, Goto, TypeOK, CallState, Reply
<1>3. CASE FullRun(breaker[p]) /\ breaker' = [breaker EXCEPT ![p] = Fresh("open")]
  <2>1. TypeOK' /\ CallsHaveBreakers'
    BY <1>1, <1>2, <1>3, OpeningKeepsInv, PeerOfCall DEF TypeOK, CallsHaveBreakers
  <2>. QED  BY <1>1, <1>2, <1>3, <2>1, OpeningKeepsInv
<1>4. CASE UNCHANGED breaker
  <2>1. TypeOK' /\ CallsHaveBreakers'
    BY <1>2, <1>4, PeerOfCall DEF TypeOK, CallsHaveBreakers
  <2>. QED  BY <1>2, <1>4, <2>1 DEF ClosedCountsRun, ProbesBelowThreshold
<1>. QED  BY <1>3, <1>4 DEF Reject

\* A result is recorded: the run of the peer and its breaker move together.
LEMMA RecordKeepsInv ==
  ASSUME BreakerInv, NEW c \in Calls, Record(c)
  PROVE  /\ BreakerInv'
         /\ \A p \in Peers :
              breaker[p].state = "closed" => breaker'[p].state = "closed"
<1> DEFINE p == PeerOf(c)
           o == outcome[c]
<1> USE DEF BreakerInv
<1>1. /\ p \in Peers /\ breaker[p] \in Breaker /\ breaker[p].state # "absent"
      /\ severeRun[p] \in 0..FailureThreshold /\ FailureThreshold \in Nat
      /\ o \in Outcome
  BY PeerOfCall, ThresholdsPositive
  DEF Record, Goto, TypeOK, CallsHaveBreakers, ClosedCountsRun
<1>2. \A q \in Peers : q # p =>
        breaker'[q] = breaker[q] /\ severeRun'[q] = severeRun[q]
  BY <1>1 DEF Record, TypeOK
<1>3. reply' \in [Calls -> Reply]
  BY ClassifiersClassify DEF Record, TypeOK, Reply, Classify, Outcome, Severity,
     AsAnyhow, ErrorKind, Goto
<1>4. CASE Severe(o)
  <2>1. breaker'[p] = Failed(breaker[p]) /\ breaker' \in [Peers -> Breaker]
    BY <1>1, <1>4, FailedBreaker DEF Record, TypeOK
  <2>2. /\ severeRun'[p] = IF severeRun[p] < FailureThreshold
                           THEN severeRun[p] + 1 ELSE severeRun[p]
        /\ severeRun' \in [Peers -> 0..FailureThreshold]
    BY <1>1, <1>4 DEF Record, TypeOK
  <2>3. /\ breaker'[p].state = "closed" => breaker'[p].failures = severeRun'[p]
        /\ breaker'[p].state # "absent"
        /\ breaker[p].state = "closed" => breaker'[p].state = "closed"
    BY <1>1, <2>1, <2>2, FailedBreaker DEF ClosedCountsRun
  <2>4. breaker'[p].state # "halfOpen"
    BY <1>1, <2>1, FailedBreaker
  <2>5. TypeOK'
    BY <1>3, <2>1, <2>2 DEF Record, Goto, TypeOK, CallState
  <2>6. CallsHaveBreakers'
    BY <1>2, <2>3, PeerOfCall DEF Record, Goto, TypeOK, CallsHaveBreakers
  <2>. QED  BY <1>2, <2>3, <2>4, <2>5, <2>6 DEF ClosedCountsRun, ProbesBelowThreshold
<1>5. CASE ~Severe(o)
  <2>1. breaker'[p] = Succeeded(breaker[p]) /\ breaker' \in [Peers -> Breaker]
    BY <1>1, <1>5, SucceededBreaker DEF Record, TypeOK, ProbesBelowThreshold
  <2>2. severeRun'[p] = 0 /\ severeRun' \in [Peers -> 0..FailureThreshold]
    BY <1>1, <1>5 DEF Record, TypeOK
  <2>3. /\ breaker'[p].state = "closed" => breaker'[p].failures = 0
        /\ breaker'[p].state # "absent"
        /\ breaker[p].state = "closed" => breaker'[p].state = "closed"
        /\ breaker'[p].state = "halfOpen" => breaker'[p].successes < SuccessThreshold
    BY <1>1, <2>1, SucceededBreaker DEF ProbesBelowThreshold
  <2>4. TypeOK'
    BY <1>3, <2>1, <2>2 DEF Record, Goto, TypeOK, CallState
  <2>5. CallsHaveBreakers'
    BY <1>2, <2>3, PeerOfCall DEF Record, Goto, TypeOK, CallsHaveBreakers
  <2>. QED  BY <1>2, <2>2, <2>3, <2>4, <2>5, ThresholdsPositive
            DEF ClosedCountsRun, ProbesBelowThreshold
<1>. QED  BY <1>4, <1>5

LEMMA CooldownKeepsInv ==
  ASSUME BreakerInv, NEW p \in Peers, CooldownElapses(p)
  PROVE  BreakerInv'
<1> USE DEF BreakerInv
<1>1. /\ breaker'[p] \in Breaker /\ breaker'[p].state = "open"
      /\ breaker' \in [Peers -> Breaker]
      /\ \A q \in Peers : q # p => breaker'[q] = breaker[q]
  BY DEF CooldownElapses, TypeOK, Breaker
<1>2. TypeOK'
  BY <1>1 DEF CooldownElapses, TypeOK
<1>3. CallsHaveBreakers'
  BY <1>1, PeerOfCall DEF CooldownElapses, TypeOK, CallsHaveBreakers
<1>4. ClosedCountsRun' /\ ProbesBelowThreshold'
  BY <1>1 DEF CooldownElapses, ClosedCountsRun, ProbesBelowThreshold
<1>. QED  BY <1>2, <1>3, <1>4

\* The steps that leave every breaker and the history alone.
LEMMA OtherStepsKeepInv ==
  ASSUME BreakerInv,
         \/ \E c \in Calls : \/ Admit(c) \/ AnswerUnprotected(c)
                             \/ CallbackReturns(c) \/ CallbackPanics(c)
         \/ HealthChanges
         \/ UNCHANGED vars
  PROVE  BreakerInv' /\ breaker' = breaker
<1> USE DEF BreakerInv
<1>1. UNCHANGED <<breaker, severeRun, classifier>>
  BY DEF Admit, AnswerUnprotected, CallbackReturns, CallbackPanics,
     HealthChanges, vars
<1> DEFINE CallsTyped == /\ pc \in [Calls -> CallState] /\ reply \in [Calls -> Reply]
                         /\ outcome \in [Calls -> Outcome] /\ healthy \in BOOLEAN
<1>2. CallsTyped'
  <2>1. ASSUME NEW c \in Calls, Admit(c) \/ CallbackPanics(c)
        PROVE  CallsTyped'
    BY <2>1 DEF Admit, CallbackPanics, Goto, TypeOK, CallState, Reply
  <2>2. ASSUME NEW c \in Calls, AnswerUnprotected(c)  PROVE CallsTyped'
    BY <2>2 DEF AnswerUnprotected, Goto, TypeOK, CallState, Outcome, Reply
  <2>3. ASSUME NEW c \in Calls, CallbackReturns(c)  PROVE CallsTyped'
    BY <2>3 DEF CallbackReturns, Goto, TypeOK, CallState, Outcome
  <2>4. CASE HealthChanges \/ UNCHANGED vars
    BY <2>4 DEF HealthChanges, vars, TypeOK
  <2>. QED  BY <2>1, <2>2, <2>3, <2>4
<1>3. CallsHaveBreakers'
  BY <1>1 DEF Admit, AnswerUnprotected, CallbackReturns, CallbackPanics,
     HealthChanges, vars, Goto, TypeOK, CallsHaveBreakers
<1>. QED  BY <1>1, <1>2, <1>3 DEF TypeOK, ClosedCountsRun, ProbesBelowThreshold
-----------------------------------------------------------------------------
(* Theorems *)

\* Every step keeps the inductive invariant, and opens a closed breaker only at
\* the end of a run of severe results of its own peer.
LEMMA NextInv ==
  ASSUME BreakerInv, [Next]_vars
  PROVE  /\ BreakerInv'
         /\ \A p \in Peers :
              breaker[p].state = "closed" /\ breaker'[p].state = "open"
                => severeRun'[p] = FailureThreshold
<1>1. ASSUME NEW c \in Calls, CallUnprotected(c) \/ CallBreaker(c)
      PROVE  BreakerInv' /\ \A p \in Peers :
               breaker[p].state = "closed" => breaker'[p].state = "closed"
  BY <1>1, CallKeepsInv, PeerOfCall
  DEF CallUnprotected, CallBreaker, BreakerInv, TypeOK
<1>2. ASSUME NEW c \in Calls, Probe(c)
      PROVE  BreakerInv' /\ \A p \in Peers :
               breaker[p].state = "closed" => breaker'[p].state = "closed"
  <2>1. \A p \in Peers :
          breaker[p].state = "closed" => breaker'[p].state = "closed"
    BY <1>2, PeerOfCall DEF Probe, BreakerInv, TypeOK
  <2>. QED  BY <1>2, <2>1, ProbeKeepsInv
<1>3. ASSUME NEW p \in Peers, CooldownElapses(p)
      PROVE  BreakerInv' /\ \A q \in Peers :
               breaker[q].state = "closed" => breaker'[q].state = "closed"
  <2>1. \A q \in Peers :
          breaker[q].state = "closed" => breaker'[q].state = "closed"
    BY <1>3 DEF CooldownElapses, BreakerInv, TypeOK
  <2>. QED  BY <1>3, <2>1, CooldownKeepsInv
<1>4. CASE \E c \in Calls : Record(c)
  BY <1>4, RecordKeepsInv
<1>6. CASE \E c \in Calls : Reject(c)
  BY <1>6, RejectKeepsInv
<1>7. CASE \E p \in Peers : Trips(p)
  BY <1>7, TripsKeepsInv
<1>5. CASE \/ \E c \in Calls : \/ Admit(c) \/ AnswerUnprotected(c)
                               \/ CallbackReturns(c) \/ CallbackPanics(c)
           \/ HealthChanges
           \/ UNCHANGED vars
  BY <1>5, OtherStepsKeepInv
<1>. QED  BY <1>1, <1>2, <1>3, <1>4, <1>5, <1>6, <1>7 DEF Next, Proceed

\* Each reply follows the outcome of its call through every step.
LEMMA NextReply ==
  ASSUME TypeOK, ReplyFollowsOutcome, [Next]_vars
  PROVE  ReplyFollowsOutcome'
<1> USE DEF TypeOK, ReplyFollowsOutcome
<1>0. classifier' = classifier
  BY DEF Next, Proceed, CallUnprotected, CallBreaker, Request, Admit, Probe, Reject,
     Record, AnswerUnprotected, CallbackReturns, CallbackPanics, Trips,
     CooldownElapses, HealthChanges, vars
<1>1. ASSUME NEW c \in Calls, CallUnprotected(c) \/ CallBreaker(c)
      PROVE  ReplyFollowsOutcome'
  BY <1>0, <1>1 DEF CallUnprotected, CallBreaker, Request, Classify
<1>2. ASSUME NEW c \in Calls,
             Admit(c) \/ Probe(c) \/ CallbackReturns(c) \/ CallbackPanics(c)
      PROVE  ReplyFollowsOutcome'
  BY <1>0, <1>2 DEF Admit, Probe, CallbackReturns, CallbackPanics, Goto, Classify,
     Severity
<1>3. ASSUME NEW c \in Calls, Reject(c)  PROVE ReplyFollowsOutcome'
  BY <1>0, <1>3 DEF Reject, Goto, Classify
<1>4. ASSUME NEW c \in Calls, Record(c) \/ AnswerUnprotected(c)
      PROVE  ReplyFollowsOutcome'
  BY <1>0, <1>4 DEF Record, AnswerUnprotected, Goto, Classify
<1>5. CASE \/ \E p \in Peers : Trips(p) \/ CooldownElapses(p)
           \/ HealthChanges
           \/ UNCHANGED vars
  BY <1>0, <1>5 DEF Trips, CooldownElapses, HealthChanges, vars, Classify
<1>. QED  BY <1>1, <1>2, <1>3, <1>4, <1>5 DEF Next, Proceed

LEMMA InvariantsHold == Spec => [](BreakerInv /\ ReplyFollowsOutcome)
<1>1. BreakerInv /\ ReplyFollowsOutcome /\ [Next]_vars
        => (BreakerInv /\ ReplyFollowsOutcome)'
  BY NextInv, NextReply DEF BreakerInv
<1>. QED  BY InitInv, <1>1, PTL DEF Spec

\* All variables keep their types; the library's counters stay within the
\* configured thresholds.
THEOREM BreakerTyping == Spec => []TypeOK
  BY InvariantsHold, PTL DEF BreakerInv

\* call_async opens a closed breaker only at the end of FailureThreshold severe
\* results in a row of that peer's own calls, whatever other calls run.
THEOREM OpensOnlyOnOwnRun == Spec => OpensOnOwnSevereRun
<1>1. BreakerInv /\ [Next]_vars =>
        [\A p \in Peers :
           breaker[p].state = "closed" /\ breaker'[p].state = "open"
             => severeRun'[p] = FailureThreshold]_vars
  BY NextInv
<1>. QED  BY InvariantsHold, <1>1, PTL DEF Spec, OpensOnOwnSevereRun

\* A call that reaches its callback goes through a closed breaker that has not
\* counted a full run, or through the half-open one.
LEMMA AdmittedBelowThreshold ==
  ASSUME BreakerInv, Next, NEW c \in Calls, pc[c] = "admission", pc'[c] = "running",
         severeRun[PeerOf(c)] = FailureThreshold
  PROVE  breaker'[PeerOf(c)].state = "halfOpen"
<1> USE DEF BreakerInv, TypeOK
<1>1. ASSUME NEW d \in Calls, Admit(d) PROVE FALSE
  <2>1. d = c
    BY <1>1 DEF Admit, Goto
  <2>. QED  BY <1>1, <2>1, PeerOfCall DEF Admit, FullRun, ClosedCountsRun
<1>2. ASSUME NEW d \in Calls, Probe(d) PROVE breaker'[PeerOf(c)].state = "halfOpen"
  <2>1. d = c
    BY <1>2 DEF Probe, Goto
  <2>. QED  BY <1>2, <2>1, PeerOfCall, FreshBreaker DEF Probe
<1>3. ASSUME NEW d \in Calls,
             \/ CallUnprotected(d) \/ CallBreaker(d) \/ Reject(d) \/ Record(d)
             \/ AnswerUnprotected(d) \/ CallbackReturns(d) \/ CallbackPanics(d)
      PROVE  FALSE
  BY <1>3 DEF CallUnprotected, CallBreaker, Request, Reject, Record,
     AnswerUnprotected, CallbackReturns, CallbackPanics, Goto
<1>4. CASE HealthChanges \/ \E p \in Peers : Trips(p) \/ CooldownElapses(p)
  BY <1>4 DEF HealthChanges, Trips, CooldownElapses
<1>. QED  BY <1>1, <1>2, <1>3, <1>4 DEF Next, Proceed

\* While the latest results of a peer are a full run of severe ones, its calls
\* are rejected or are test requests: also before the breaker is seen to be open.
THEOREM RunCutsOff == Spec => SevereRunCutsOff
<1>1. BreakerInv /\ [Next]_vars =>
        [\A c \in Calls :
           /\ pc[c] = "admission" /\ pc'[c] = "running"
           /\ severeRun[PeerOf(c)] = FailureThreshold
           => breaker'[PeerOf(c)].state = "halfOpen"]_vars
  BY AdmittedBelowThreshold
<1>. QED  BY InvariantsHold, <1>1, PTL DEF Spec, SevereRunCutsOff

\* execute_rpc_with_circuit_breaker tells the caller the severity the callback
\* gave, when errors are classified by default or not at all.
THEOREM SeverityPreserved == Spec => []SeverityReachesCaller
<1>1. ASSUME TypeOK, classifier \in {DefaultClassifier, NoBreakers},
             NEW s \in Severity
      PROVE  Classify(s) = s
  BY <1>1, ClassifiersClassify
  DEF Classify, DefaultClassifier, AsAnyhow, ErrorKind, Severity
<1>2. ASSUME TypeOK, ReplyFollowsOutcome PROVE SeverityReachesCaller
  <2> SUFFICES ASSUME classifier \in {DefaultClassifier, NoBreakers},
                      NEW c \in Calls, reply[c] \notin {"none", "circuitOpen"}
               PROVE  reply[c] = outcome[c]
    BY DEF SeverityReachesCaller
  <2>. QED  BY <1>1, <1>2 DEF TypeOK, ReplyFollowsOutcome, Outcome
<1>. QED  BY InvariantsHold, <1>2, PTL DEF BreakerInv
-----------------------------------------------------------------------------
(* Isolation: what a peer sees is the same server with that peer alone *)

CallsOf(p) == {c \in Calls : PeerOf(c) = p}

\* The server that only peer p calls.
Alone(p) == INSTANCE CircuitBreaker WITH
  Peers <- {p}, Calls <- CallsOf(p),
  breaker <- [q \in {p} |-> breaker[q]],
  pc <- [c \in CallsOf(p) |-> pc[c]],
  outcome <- [c \in CallsOf(p) |-> outcome[c]],
  reply <- [c \in CallsOf(p) |-> reply[c]],
  severeRun <- [q \in {p} |-> severeRun[q]]

\* An update at x shows in every part of the domain that has x, and in no other.
LEMMA PartOfUpdate ==
  ASSUME NEW S, NEW T, T \subseteq S, NEW f, NEW g, DOMAIN f = S, NEW x \in S, NEW v,
         g = [f EXCEPT ![x] = v]
  PROVE  /\ x \in T => [y \in T |-> g[y]] = [[y \in T |-> f[y]] EXCEPT ![x] = v]
         /\ x \notin T => [y \in T |-> g[y]] = [y \in T |-> f[y]]
  OBVIOUS

\* What a classifier makes of an error, and a result of a breaker, is the same
\* in both.
LEMMA SameOperators ==
  ASSUME NEW p \in Peers
  PROVE  /\ \A s : Alone(p)!Classify(s) = Classify(s)
         /\ \A o : Alone(p)!Severe(o) <=> Severe(o)
         /\ \A b : Alone(p)!Failed(b) = Failed(b)
         /\ \A b : Alone(p)!Succeeded(b) = Succeeded(b)
         /\ Alone(p)!Severity = Severity
<1>1. \A s : Alone(p)!Fresh(s) = Fresh(s)
  BY DEF Fresh, Alone!Fresh
<1>2. Alone(p)!Severity = Severity
  BY DEF Severity, Alone!Severity
<1>3. \A s : Alone(p)!Classify(s) = Classify(s)
  BY DEF Classify, AsAnyhow, Alone!Classify, Alone!AsAnyhow
<1>4. \A o : Alone(p)!Severe(o) <=> Severe(o)
  BY <1>2, <1>3 DEF Severe, Alone!Severe
<1>5. \A b : Alone(p)!Failed(b) = Failed(b)
  BY <1>1 DEF Failed, Alone!Failed
<1>6. \A b : Alone(p)!Succeeded(b) = Succeeded(b)
  BY <1>1 DEF Succeeded, Alone!Succeeded
<1> QED BY <1>2, <1>3, <1>4, <1>5, <1>6

\* A step of a call of p is that step of the server p has for itself; a step of
\* another peer's call is none there.
LEMMA OwnCallAlone ==
  ASSUME TypeOK, NEW p \in Peers, NEW c \in Calls, PeerOf(c) = p,
         \/ CallUnprotected(c) \/ CallBreaker(c) \/ Proceed(c)
         \/ CallbackReturns(c) \/ CallbackPanics(c)
  PROVE  Alone(p)!Next
<1> DEFINE own == CallsOf(p)
<1>1. c \in own /\ own \subseteq Calls
  BY DEF CallsOf
<1>2. /\ DOMAIN pc = Calls /\ DOMAIN outcome = Calls /\ DOMAIN reply = Calls
      /\ DOMAIN breaker = Peers /\ DOMAIN severeRun = Peers
  BY DEF TypeOK
<1>3. ASSUME CallUnprotected(c) PROVE Alone(p)!CallUnprotected(c)
  BY <1>1, <1>2, <1>3, PartOfUpdate
  DEF CallUnprotected, Request, Alone!CallUnprotected, Alone!Request
<1>4. ASSUME CallBreaker(c) PROVE Alone(p)!CallBreaker(c)
  BY <1>1, <1>2, <1>4, PartOfUpdate
  DEF CallBreaker, Request, Alone!CallBreaker, Alone!Request, Alone!PeerOf,
    Alone!Fresh, Fresh, PeerOf
<1>5. ASSUME Admit(c) PROVE Alone(p)!Admit(c)
  BY <1>1, <1>2, <1>5, PartOfUpdate
  DEF Admit, Goto, Alone!Admit, Alone!Goto, Alone!PeerOf, PeerOf, FullRun,
    Alone!FullRun
<1>6. ASSUME Probe(c) PROVE Alone(p)!Probe(c)
  BY <1>1, <1>2, <1>6, PartOfUpdate
  DEF Probe, Goto, Alone!Probe, Alone!Goto, Alone!PeerOf, PeerOf, Fresh, Alone!Fresh
<1>7. ASSUME Reject(c) PROVE Alone(p)!Reject(c)
  BY <1>1, <1>2, <1>7, PartOfUpdate
  DEF Reject, Goto, Alone!Reject, Alone!Goto, Alone!PeerOf, PeerOf, FullRun,
    Alone!FullRun, Fresh, Alone!Fresh
<1>8. ASSUME Record(c) PROVE Alone(p)!Record(c)
  BY <1>1, <1>2, <1>8, PartOfUpdate, SameOperators
  DEF Record, Goto, Alone!Record, Alone!Goto, Alone!PeerOf, PeerOf
<1>9. ASSUME AnswerUnprotected(c) PROVE Alone(p)!AnswerUnprotected(c)
  BY <1>1, <1>2, <1>9, PartOfUpdate
  DEF AnswerUnprotected, Goto, Alone!AnswerUnprotected, Alone!Goto
<1>10. ASSUME CallbackReturns(c) PROVE Alone(p)!CallbackReturns(c)
  BY <1>1, <1>2, <1>10, PartOfUpdate, SameOperators
  DEF CallbackReturns, Goto, Alone!CallbackReturns, Alone!Goto
<1>11. ASSUME CallbackPanics(c) PROVE Alone(p)!CallbackPanics(c)
  BY <1>1, <1>2, <1>11, PartOfUpdate
  DEF CallbackPanics, Goto, Alone!CallbackPanics, Alone!Goto
<1> QED BY <1>1, <1>3, <1>4, <1>5, <1>6, <1>7, <1>8, <1>9, <1>10, <1>11
    DEF Proceed, Alone!Proceed, Alone!Next

LEMMA OthersCallAlone ==
  ASSUME TypeOK, NEW p \in Peers, NEW c \in Calls, PeerOf(c) # p,
         \/ CallUnprotected(c) \/ CallBreaker(c) \/ Proceed(c)
         \/ CallbackReturns(c) \/ CallbackPanics(c)
  PROVE  UNCHANGED Alone(p)!vars
<1>1. c \notin CallsOf(p) /\ CallsOf(p) \subseteq Calls
  BY DEF CallsOf
<1>2. /\ DOMAIN pc = Calls /\ DOMAIN outcome = Calls /\ DOMAIN reply = Calls
      /\ DOMAIN breaker = Peers /\ DOMAIN severeRun = Peers
  BY DEF TypeOK
<1>3. /\ UNCHANGED <<classifier, healthy>>
      /\ breaker'[p] = breaker[p] /\ severeRun'[p] = severeRun[p]
      /\ \A d \in CallsOf(p) :
           pc'[d] = pc[d] /\ outcome'[d] = outcome[d] /\ reply'[d] = reply[d]
  BY <1>1, <1>2
  DEF CallUnprotected, CallBreaker, Request, Proceed, Admit, Probe, Reject, Record,
     AnswerUnprotected, CallbackReturns, CallbackPanics, Goto
<1> QED BY <1>3 DEF Alone!vars

LEMMA StepAlone ==
  ASSUME TypeOK, NEW p \in Peers, [Next]_vars
  PROVE  [Alone(p)!Next]_(Alone(p)!vars)
<1>1. ASSUME NEW c \in Calls,
             \/ CallUnprotected(c) \/ CallBreaker(c) \/ Proceed(c)
             \/ CallbackReturns(c) \/ CallbackPanics(c)
      PROVE  [Alone(p)!Next]_(Alone(p)!vars)
  BY <1>1, OwnCallAlone, OthersCallAlone
<1>2. ASSUME NEW q \in Peers, CooldownElapses(q)
      PROVE  [Alone(p)!Next]_(Alone(p)!vars)
  <2>1. CASE q = p
    <3>1. Alone(p)!CooldownElapses(p)
      BY <1>2, <2>1 DEF CooldownElapses, Alone!CooldownElapses, TypeOK
    <3> QED BY <3>1 DEF Alone!Next
  <2>2. CASE q # p
    BY <1>2, <2>2 DEF CooldownElapses, Alone!vars, TypeOK
  <2> QED BY <2>1, <2>2
<1>5. ASSUME NEW q \in Peers, Trips(q)
      PROVE  [Alone(p)!Next]_(Alone(p)!vars)
  <2>1. CASE q = p
    <3>1. Alone(p)!Trips(p)
      BY <1>5, <2>1
      DEF Trips, Alone!Trips, FullRun, Alone!FullRun, Fresh, Alone!Fresh, TypeOK
    <3> QED BY <3>1 DEF Alone!Next
  <2>2. CASE q # p
    BY <1>5, <2>2 DEF Trips, Alone!vars, TypeOK
  <2> QED BY <2>1, <2>2
<1>3. ASSUME HealthChanges PROVE Alone(p)!Next
  BY <1>3 DEF HealthChanges, Alone!HealthChanges, Alone!Next
<1>4. ASSUME UNCHANGED vars PROVE UNCHANGED Alone(p)!vars
  BY <1>4 DEF vars, Alone!vars
<1> QED BY <1>1, <1>2, <1>3, <1>4, <1>5 DEF Next

\* PeerCircuitBreakers isolates peers: whatever the others call and however their
\* callbacks fail, a peer meets the server it would have for itself.  So what
\* holds of a server with one peer holds of every peer of any server.
THEOREM PeersAreIsolated ==
  ASSUME NEW p \in Peers PROVE Spec => Alone(p)!Spec
<1>1. Init => Alone(p)!Init
  BY DEF Init, Alone!Init, Fresh, Alone!Fresh, CallsOf
<1>2. BreakerInv /\ [Next]_vars => [Alone(p)!Next]_(Alone(p)!vars)
  BY StepAlone DEF BreakerInv
<1> QED BY InvariantsHold, <1>1, <1>2, PTL DEF Spec, Alone!Spec

-----------------------------------------------------------------------------
(* Recovery *)

\* A severe result is on its way to the breaker.
SevereUnrecorded(p) ==
  \E c \in Calls : PeerOf(c) = p /\ pc[c] = "returned" /\ Severe(outcome[c])

\* The probes and successes a breaker is away from letting its peer through for
\* good: a full run is furthest, for it is still to open the breaker.
Distance(b) ==
  CASE b.state = "closed" -> IF FullRun(b) THEN SuccessThreshold + 3 ELSE 0
    [] b.state = "halfOpen" -> SuccessThreshold - b.successes
    [] b.state = "open" -> SuccessThreshold + (IF b.cooled THEN 1 ELSE 2)
    [] b.state = "absent" -> SuccessThreshold + 4

\* The steps recovery is made of: an open breaker lets a test request through,
\* and a HalfOpen one has a result.
Helps(c) ==
  LET state == breaker[PeerOf(c)].state IN
  \/ state = "open" /\ pc[c] = "admission" /\ pc'[c] = "running"
  \/ state = "halfOpen" /\ pc[c] = "returned" /\ pc'[c] = "answered"

\* While callbacks do not fail severely and no severe result is still to come, a
\* breaker never moves away from letting its peer through, whatever calls cross:
\* a closed one opens only on a run that was full before.  Each step of its
\* recovery takes it closer.
RecoveryAdvances ==
  [][\A p \in Peers :
       healthy /\ ~SevereUnrecorded(p) =>
         /\ ~SevereUnrecorded(p)'
         /\ Distance(breaker[p])' <= Distance(breaker[p])
         /\ (\E c \in Calls : PeerOf(c) = p /\ Helps(c)) =>
              Distance(breaker[p])' < Distance(breaker[p])]_vars

LEMMA DistanceOf ==
  ASSUME NEW b \in Breaker, b.state = "halfOpen" => b.successes < SuccessThreshold
  PROVE  /\ Distance(b) \in Nat
         /\ b.state = "closed" /\ ~FullRun(b) => Distance(b) = 0
         /\ FullRun(b) => Distance(b) = SuccessThreshold + 3
         /\ b.state = "halfOpen" => Distance(b) = SuccessThreshold - b.successes
         /\ b.state = "open" => Distance(b) = SuccessThreshold + (IF b.cooled THEN 1 ELSE 2)
         /\ b.state = "absent" => Distance(b) = SuccessThreshold + 4
<1>1. SuccessThreshold \in Nat \ {0} /\ b.successes \in Nat
      /\ b.state \in {"absent", "closed", "open", "halfOpen"}
  BY ThresholdsPositive DEF Breaker
<1> QED BY <1>1 DEF Distance, FullRun

\* A mild result never takes a breaker away from closing.
LEMMA SucceededCloser ==
  ASSUME NEW b \in Breaker, b.state = "halfOpen" => b.successes < SuccessThreshold
  PROVE  /\ Distance(Succeeded(b)) <= Distance(b)
         /\ b.state = "halfOpen" => Distance(Succeeded(b)) < Distance(b)
<1> DEFINE s == Succeeded(b)
<1>1. /\ s \in Breaker /\ (s.state = "halfOpen" => s.successes < SuccessThreshold)
      /\ Distance(b) \in Nat /\ SuccessThreshold \in Nat \ {0}
  BY SucceededBreaker, DistanceOf, ThresholdsPositive
<1>2. CASE b.state = "closed"
  <2>1. s.state = "closed" /\ ~FullRun(s)
    BY <1>2, SucceededBreaker, ThresholdsPositive DEF FullRun
  <2> HIDE DEF s
  <2>2. Distance(s) = 0
    BY <1>1, <2>1, DistanceOf
  <2> QED BY <1>1, <1>2, <2>2 DEF s
<1>3. CASE b.state = "halfOpen" /\ b.successes + 1 = SuccessThreshold
  <2>1. s.state = "closed" /\ ~FullRun(s)
    BY <1>3, ThresholdsPositive DEF Succeeded, Fresh, FullRun
  <2>2. Distance(b) = 1
    BY <1>1, <1>3, DistanceOf DEF Breaker
  <2> HIDE DEF s
  <2>3. Distance(s) = 0
    BY <1>1, <2>1, DistanceOf
  <2> QED BY <2>2, <2>3 DEF s
<1>4. CASE b.state = "halfOpen" /\ b.successes + 1 # SuccessThreshold
  <2>1. s.state = "halfOpen" /\ s.successes = b.successes + 1 /\ b.successes \in Nat
    BY <1>4 DEF Succeeded, Breaker
  <2>2. Distance(b) = SuccessThreshold - b.successes
    BY <1>4, DistanceOf
  <2> HIDE DEF s
  <2>3. Distance(s) = SuccessThreshold - s.successes
    BY <1>1, <2>1, DistanceOf
  <2> QED BY <1>1, <2>1, <2>2, <2>3 DEF s
<1>5. CASE b.state \in {"absent", "open"}
  <2>1. s = b
    BY <1>5 DEF Succeeded
  <2> QED BY <1>1, <1>5, <2>1
<1> QED BY <1>2, <1>3, <1>4, <1>5 DEF Breaker

\* A server without circuit breakers has none.
UnprotectedHaveNone ==
  classifier = NoBreakers => \A p \in Peers : breaker[p].state = "absent"

LEMMA ClassifierFixed == [Next]_vars => classifier' = classifier
<1>1. ASSUME NEW c \in Calls,
             \/ CallUnprotected(c) \/ CallBreaker(c) \/ Proceed(c)
             \/ CallbackReturns(c) \/ CallbackPanics(c)
      PROVE  classifier' = classifier
  BY <1>1
  DEF CallUnprotected, CallBreaker, Request, Proceed, Admit, Probe, Reject, Record,
     AnswerUnprotected, CallbackReturns, CallbackPanics
<1> QED BY <1>1 DEF Next, Trips, CooldownElapses, HealthChanges, vars

LEMMA InitUnprotected == Init => UnprotectedHaveNone
  BY FreshBreaker DEF Init, UnprotectedHaveNone

LEMMA NextUnprotected ==
  BreakerInv /\ UnprotectedHaveNone /\ [Next]_vars => UnprotectedHaveNone'
<1> SUFFICES ASSUME BreakerInv, UnprotectedHaveNone, [Next]_vars, classifier = NoBreakers
             PROVE  UnprotectedHaveNone'
  BY ClassifierFixed DEF UnprotectedHaveNone
<1>1. \A p \in Peers : breaker[p].state = "absent"
  BY DEF UnprotectedHaveNone
<1>2. breaker' = breaker
  <2>1. ASSUME NEW c \in Calls,
               \/ CallUnprotected(c) \/ CallBreaker(c) \/ Proceed(c)
               \/ CallbackReturns(c) \/ CallbackPanics(c)
        PROVE  breaker' = breaker
    BY <1>1, <2>1, PeerOfCall
    DEF CallUnprotected, CallBreaker, Request, Proceed, Admit, Probe, FullRun,
       Reject, Record, AnswerUnprotected, CallbackReturns, CallbackPanics
  <2> QED BY <1>1, <2>1 DEF Next, Trips, FullRun, CooldownElapses, HealthChanges, vars
<1> QED BY <1>1, <1>2 DEF UnprotectedHaveNone

LEMMA SevereStaysRecorded ==
  ASSUME BreakerInv, [Next]_vars, NEW p \in Peers, healthy, ~SevereUnrecorded(p)
  PROVE  ~SevereUnrecorded(p)'
<1> SUFFICES ASSUME NEW c \in Calls, PeerOf(c) = p, pc'[c] = "returned", Severe(outcome[c])'
             PROVE  FALSE
  BY DEF SevereUnrecorded
<1> USE DEF BreakerInv, TypeOK
<1>1. classifier' = classifier
  BY ClassifierFixed
<1>2. Severe(outcome'[c])
  BY <1>1 DEF Severe, Classify
<1>3. CASE pc[c] = "returned" /\ outcome'[c] = outcome[c]
  BY <1>2, <1>3 DEF SevereUnrecorded
<1>4. ASSUME NEW d \in Calls, CallUnprotected(d) \/ CallBreaker(d)
      PROVE  pc[c] = "returned" /\ outcome'[c] = outcome[c]
  BY <1>4 DEF CallUnprotected, CallBreaker, Request
<1>5. ASSUME NEW d \in Calls, Proceed(d) \/ CallbackPanics(d)
      PROVE  pc[c] = "returned" /\ outcome'[c] = outcome[c]
  BY <1>5
  DEF Proceed, CallbackPanics, Admit, Probe, Reject, Record, AnswerUnprotected, Goto
<1>6. ASSUME NEW d \in Calls, CallbackReturns(d)
      PROVE  pc[c] = "returned" /\ outcome'[c] = outcome[c]
  <2>1. PICK o \in {"ok"} \cup Severity :
          /\ ~Severe(o) /\ pc[d] = "running" /\ pc' = [pc EXCEPT ![d] = "returned"]
          /\ outcome' = [outcome EXCEPT ![d] = o]
    BY <1>6 DEF CallbackReturns, Goto
  <2>2. c # d
    BY <1>2, <2>1
  <2> QED BY <2>1, <2>2
<1>7. CASE \/ \E q \in Peers : Trips(q) \/ CooldownElapses(q)
           \/ HealthChanges \/ UNCHANGED vars
  BY <1>3, <1>7 DEF Trips, CooldownElapses, HealthChanges, vars
<1> QED BY <1>3, <1>4, <1>5, <1>6, <1>7 DEF Next

LEMMA StepAdvances ==
  ASSUME BreakerInv, UnprotectedHaveNone, [Next]_vars, NEW p \in Peers,
         healthy, ~SevereUnrecorded(p)
  PROVE  /\ Distance(breaker'[p]) <= Distance(breaker[p])
         /\ (\E c \in Calls : PeerOf(c) = p /\ Helps(c)) =>
              Distance(breaker'[p]) < Distance(breaker[p])
<1> DEFINE Helped == \E c \in Calls : PeerOf(c) = p /\ Helps(c)
           Advances == /\ Distance(breaker'[p]) <= Distance(breaker[p])
                       /\ Helped => Distance(breaker'[p]) < Distance(breaker[p])
<1>1. /\ breaker[p] \in Breaker /\ SuccessThreshold \in Nat \ {0}
      /\ breaker[p].state = "halfOpen" => breaker[p].successes < SuccessThreshold
      /\ DOMAIN pc = Calls /\ DOMAIN breaker = Peers
  BY ThresholdsPositive DEF BreakerInv, TypeOK, ProbesBelowThreshold
<1>2. Distance(breaker[p]) \in Nat
  BY <1>1, DistanceOf
<1>3. ASSUME breaker'[p] = breaker[p], ~Helped PROVE Advances
  BY <1>2, <1>3
<1>11. ASSUME FullRun(breaker[p]), breaker' = [breaker EXCEPT ![p] = Fresh("open")], ~Helped
       PROVE  Advances
  <2>1. Distance(breaker[p]) = SuccessThreshold + 3
    BY <1>1, <1>11, DistanceOf DEF FullRun
  <2>2. Distance(Fresh("open")) = SuccessThreshold + 2
    <3>1. /\ Fresh("open") \in Breaker /\ Fresh("open").state = "open"
          /\ ~Fresh("open").cooled
      BY FreshBreaker DEF Fresh
    <3>2. Distance(Fresh("open"))
            = SuccessThreshold + (IF Fresh("open").cooled THEN 1 ELSE 2)
      BY <3>1, DistanceOf
    <3> QED BY <3>1, <3>2
  <2>3. breaker'[p] = Fresh("open")
    BY <1>1, <1>11
  <2> QED BY <1>1, <1>11, <2>1, <2>2, <2>3
<1>4. ASSUME NEW c \in Calls, CallUnprotected(c) \/ Admit(c)
                              \/ CallbackReturns(c) \/ CallbackPanics(c)
      PROVE  Advances
  <2>1. breaker' = breaker
    BY <1>4 DEF CallUnprotected, Request, Admit, CallbackReturns, CallbackPanics
  <2>2. ~Helped
    BY <1>1, <1>4
    DEF Helps, CallUnprotected, Request, Admit, CallbackReturns, CallbackPanics, Goto
  <2> QED BY <1>3, <2>1, <2>2
<1>5. ASSUME NEW c \in Calls, AnswerUnprotected(c) PROVE Advances
  <2>1. breaker' = breaker /\ breaker[p].state = "absent"
    BY <1>5 DEF AnswerUnprotected, UnprotectedHaveNone
  <2>2. ~Helped
    BY <2>1 DEF Helps
  <2> QED BY <1>3, <2>1, <2>2
<1>6. ASSUME NEW c \in Calls, CallBreaker(c) PROVE Advances
  <2>1. ~Helped
    BY <1>1, <1>6 DEF Helps, CallBreaker, Request
  <2>2. CASE breaker'[p] = breaker[p]
    BY <1>3, <2>1, <2>2
  <2>3. CASE breaker'[p] = Fresh("closed")
    <3>1. Distance(Fresh("closed")) = 0
      BY FreshBreaker, DistanceOf, ThresholdsPositive DEF FullRun
    <3> QED BY <1>2, <2>1, <2>3, <3>1
  <2> QED BY <1>1, <1>6, <2>2, <2>3 DEF CallBreaker
<1>7. ASSUME NEW c \in Calls, Probe(c) PROVE Advances
  <2>1. CASE PeerOf(c) # p
    <3>1. breaker'[p] = breaker[p]
      BY <1>1, <1>7, <2>1 DEF Probe
    <3>2. ~Helped
      BY <1>1, <1>7, <2>1 DEF Helps, Probe, Goto
    <3> QED BY <1>3, <3>1, <3>2
  <2>2. CASE PeerOf(c) = p /\ breaker[p].state = "halfOpen"
    <3>1. breaker'[p] = breaker[p]
      BY <1>1, <1>7, <2>2 DEF Probe
    <3>2. ~Helped
      BY <1>1, <1>7, <2>2 DEF Helps, Probe, Goto
    <3> QED BY <1>3, <3>1, <3>2
  <2>3. CASE PeerOf(c) = p /\ breaker[p].state = "open"
    <3>1. breaker'[p] = Fresh("halfOpen") /\ breaker[p].cooled
      BY <1>1, <1>7, <2>3 DEF Probe
    <3>2. Distance(breaker[p]) = SuccessThreshold + 1
      BY <1>1, <2>3, <3>1, DistanceOf
    <3>3. Distance(Fresh("halfOpen")) = SuccessThreshold
      <4>1. /\ Fresh("halfOpen") \in Breaker /\ Fresh("halfOpen").state = "halfOpen"
            /\ Fresh("halfOpen").successes = 0
        BY FreshBreaker
      <4>2. Distance(Fresh("halfOpen")) = SuccessThreshold - 0
        BY <1>1, <4>1, DistanceOf
      <4> QED BY <1>1, <4>2
    <3> QED BY <1>1, <3>1, <3>2, <3>3
  <2> QED BY <1>7, <2>1, <2>2, <2>3 DEF Probe
<1>8. ASSUME NEW c \in Calls, Record(c) PROVE Advances
  <2>1. CASE PeerOf(c) # p
    <3>1. breaker'[p] = breaker[p]
      BY <1>1, <1>8, <2>1 DEF Record
    <3>2. ~Helped
      BY <1>1, <1>8, <2>1 DEF Helps, Record, Goto
    <3> QED BY <1>3, <3>1, <3>2
  <2>2. CASE PeerOf(c) = p
    <3>1. ~Severe(outcome[c])
      BY <1>8, <2>2 DEF Record, Goto, SevereUnrecorded
    <3>2. breaker'[p] = Succeeded(breaker[p])
      BY <1>1, <1>8, <2>2, <3>1 DEF Record
    <3>3. Helped => breaker[p].state = "halfOpen"
      BY <1>1, <1>8, <2>2 DEF Helps, Record, Goto
    <3> QED BY <1>1, <3>2, <3>3, SucceededCloser
  <2> QED BY <2>1, <2>2
<1>12. ASSUME NEW c \in Calls, Reject(c) PROVE Advances
  <2>1. ~Helped
    BY <1>1, <1>12 DEF Helps, Reject, Goto
  <2>2. CASE breaker'[p] = breaker[p]
    BY <1>3, <2>1, <2>2
  <2>3. CASE FullRun(breaker[p]) /\ breaker' = [breaker EXCEPT ![p] = Fresh("open")]
    BY <1>11, <2>1, <2>3
  <2> QED BY <1>1, <1>12, <2>2, <2>3 DEF Reject
<1>13. ASSUME NEW q \in Peers, Trips(q) PROVE Advances
  <2>1. ~Helped
    BY <1>13 DEF Helps, Trips
  <2>2. CASE q # p
    BY <1>1, <1>3, <1>13, <2>1, <2>2 DEF Trips
  <2>3. CASE q = p
    BY <1>11, <1>13, <2>1, <2>3 DEF Trips
  <2> QED BY <2>2, <2>3
<1>9. ASSUME NEW q \in Peers, CooldownElapses(q) PROVE Advances
  <2>1. ~Helped
    BY <1>9 DEF Helps, CooldownElapses
  <2>2. CASE q # p
    BY <1>1, <1>3, <1>9, <2>1, <2>2 DEF CooldownElapses
  <2>3. CASE q = p
    <3>1. /\ breaker[p].state = "open" /\ ~breaker[p].cooled
          /\ breaker'[p] = [breaker[p] EXCEPT !.cooled = TRUE]
      BY <1>1, <1>9, <2>3 DEF CooldownElapses
    <3>2. breaker'[p] \in Breaker /\ breaker'[p].state = "open" /\ breaker'[p].cooled
      BY <1>1, <3>1 DEF Breaker
    <3>3. Distance(breaker[p]) = SuccessThreshold + 2 /\ Distance(breaker'[p]) = SuccessThreshold + 1
      BY <1>1, <3>1, <3>2, DistanceOf
    <3> QED BY <1>1, <2>1, <3>3
  <2> QED BY <2>2, <2>3
<1>10. CASE HealthChanges \/ UNCHANGED vars
  BY <1>3, <1>10 DEF Helps, HealthChanges, vars
<1> QED BY <1>4, <1>5, <1>6, <1>7, <1>8, <1>9, <1>10, <1>12, <1>13 DEF Next, Proceed

\* The step part of HealthyPeerRecovers: what is left to fairness is that the
\* steps of the recovery are taken.
THEOREM RecoveryOnlyAdvances == Spec => RecoveryAdvances
<1>1. BreakerInv /\ UnprotectedHaveNone /\ [Next]_vars =>
        [\A p \in Peers :
           healthy /\ ~SevereUnrecorded(p) =>
             /\ ~SevereUnrecorded(p)'
             /\ Distance(breaker[p])' <= Distance(breaker[p])
             /\ (\E c \in Calls : PeerOf(c) = p /\ Helps(c)) =>
                  Distance(breaker[p])' < Distance(breaker[p])]_vars
  BY SevereStaysRecorded, StepAdvances
<1>2. Spec => []UnprotectedHaveNone
  BY InvariantsHold, InitUnprotected, NextUnprotected, PTL DEF Spec
<1> QED BY InvariantsHold, <1>1, <1>2, PTL DEF Spec, RecoveryAdvances
=============================================================================
