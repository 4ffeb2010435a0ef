-------------------------- MODULE TaskTracker_proofs --------------------------
(***************************************************************************)
(* The counter of a TaskTracker is exact for any finite set of tasks and   *)
(* any callers, and wait_for_completion returns Ok only when it is truly   *)
(* drained.  The counter is a Nat only because a guard is counted once, so *)
(* typing and counting are proved together.                                *)
(***************************************************************************)
EXTENDS TaskTracker, FiniteSetTheorems, TLAPS

TrackerInv == TrackerTypeOK /\ CounterCountsGuards

LEMMA GuardsFinite == IsFiniteSet(Guards)
  BY TasksFinite, FS_Subset DEF Guards

\* The steps of wait_for_completion touch neither the counter nor the guards.
LEMMA WaitingKeepsInv ==
  ASSUME TrackerInv, NEW w \in Waiters,
         CallWait(w) \/ WaitStep(w) \/ Deadline(w)
  PROVE  TrackerInv' /\ Guards' = Guards
<1> USE DEF TrackerInv, TrackerTypeOK, CounterCountsGuards, Guards, Goto, WaitState
<1>1. UNCHANGED <<activeTasks, task>>
  BY DEF CallWait, WaitStep, FirstCheck, LoopCheck, Arm, Wake, Deadline
<1>2. completionWaiters' \subseteq Waiters /\ wait' \in [Waiters -> WaitState]
  BY DEF CallWait, WaitStep, FirstCheck, LoopCheck, Arm, Wake, Deadline
<1> QED BY <1>1, <1>2

\* A new guard adds one to both sides of the count.
LEMMA IncrementKeepsInv ==
  ASSUME TrackerInv, NEW t \in Tasks, Increment(t)
  PROVE  TrackerInv' /\ Guards' = Guards \cup {t}
<1> USE DEF TrackerInv, TrackerTypeOK
<1>1. Guards' = Guards \cup {t} /\ t \notin Guards
  BY DEF Increment, Guards, TaskState
<1>2. Cardinality(Guards') = Cardinality(Guards) + 1
  BY <1>1, GuardsFinite, FS_AddElement
<1>3. TrackerTypeOK'
  BY DEF Increment, TaskState
<1> QED BY <1>1, <1>2, <1>3 DEF Increment, CounterCountsGuards

\* A dropped guard takes one from both, so the count was not 0.
LEMMA DropKeepsInv ==
  ASSUME TrackerInv, NEW t \in Tasks, DropGuard(t)
  PROVE  TrackerInv' /\ Guards' = Guards \ {t} /\ t \in Guards
<1> USE DEF TrackerInv, TrackerTypeOK
<1>1. Guards' = Guards \ {t} /\ t \in Guards
  BY DEF DropGuard, Guards, TaskState
<1>2. /\ Cardinality(Guards') = Cardinality(Guards) - 1
      /\ Cardinality(Guards') \in Nat
  BY <1>1, GuardsFinite, FS_RemoveElement, FS_CardinalityType
<1>3. activeTasks' = Cardinality(Guards')
  BY <1>2 DEF DropGuard, CounterCountsGuards
<1>4. TrackerTypeOK'
  BY <1>2, <1>3 DEF DropGuard, TaskState
<1> QED BY <1>1, <1>3, <1>4 DEF CounterCountsGuards

LEMMA NotifyKeepsInv ==
  ASSUME TrackerInv, NEW t \in Tasks, NotifyCompletion(t)
  PROVE  TrackerInv' /\ Guards' = Guards
<1> USE DEF TrackerInv, TrackerTypeOK, NotifyCompletion
<1>1. Guards' = Guards
  BY DEF Guards, TaskState
<1>2. TrackerTypeOK'
  BY DEF TaskState
<1> QED BY <1>1, <1>2 DEF CounterCountsGuards

LEMMA InitHasInv == TrackerInit => TrackerInv
<1> SUFFICES ASSUME TrackerInit PROVE TrackerInv
  OBVIOUS
<1>1. Guards = {}
  BY DEF TrackerInit, Guards
<1>2. CounterCountsGuards
  BY <1>1, FS_EmptySet DEF TrackerInit, CounterCountsGuards
<1> QED BY <1>2 DEF TrackerInit, TrackerInv, TrackerTypeOK, TaskState, WaitState

LEMMA StepKeepsInv == TrackerInv /\ [TrackerNext]_trackerVars => TrackerInv'
<1> SUFFICES ASSUME TrackerInv, [TrackerNext]_trackerVars PROVE TrackerInv'
  OBVIOUS
<1>1. ASSUME NEW t \in Tasks, Increment(t) PROVE TrackerInv'
  BY <1>1, IncrementKeepsInv
<1>2. ASSUME NEW t \in Tasks, DropGuard(t) PROVE TrackerInv'
  BY <1>2, DropKeepsInv
<1>3. ASSUME NEW t \in Tasks, NotifyCompletion(t) PROVE TrackerInv'
  BY <1>3, NotifyKeepsInv
<1>4. ASSUME NEW w \in Waiters, CallWait(w) \/ WaitStep(w) \/ Deadline(w)
      PROVE TrackerInv'
  BY <1>4, WaitingKeepsInv
<1>5. CASE UNCHANGED trackerVars
  BY <1>5 DEF trackerVars, TrackerInv, TrackerTypeOK, CounterCountsGuards, Guards
<1> QED BY <1>1, <1>2, <1>3, <1>4, <1>5 DEF TrackerNext, WaitStep

\* The variables keep their types; the counter never goes below zero.
THEOREM TrackerTyping == TrackerSpec => []TrackerTypeOK
<1>1. TrackerInv => TrackerTypeOK
  BY DEF TrackerInv
<1> QED BY InitHasInv, StepKeepsInv, <1>1, PTL DEF TrackerSpec

\* The counter read by shutdown is the number of guards alive, always.
THEOREM TrackerCounts == TrackerSpec => []CounterCountsGuards
<1>1. TrackerInv => CounterCountsGuards
  BY DEF TrackerInv
<1> QED BY InitHasInv, StepKeepsInv, <1>1, PTL DEF TrackerSpec

\* Only the two count() reads return Ok, and a count of 0 means no guard.
THEOREM OkIsDrained == TrackerSpec => OkOnlyWhenDrained
<1>1. ASSUME TrackerInv, [TrackerNext]_trackerVars, NEW w \in Waiters,
             wait[w] # "ok", wait'[w] = "ok"
      PROVE  Guards = {}
  <2>1. activeTasks = 0 \/ Guards = {}
    BY <1>1 DEF TrackerInv, TrackerTypeOK, trackerVars, TrackerNext, Increment,
       DropGuard, NotifyCompletion, CallWait, FirstCheck, LoopCheck, Arm, Wake,
       Deadline, Goto, WaitState
  <2>2. activeTasks = 0 => Guards = {}
    BY <1>1, GuardsFinite, FS_EmptySet DEF TrackerInv, CounterCountsGuards
  <2> QED BY <2>1, <2>2
<1>2. TrackerInv /\ [TrackerNext]_trackerVars
      => [\A w \in Waiters : wait[w] # "ok" /\ wait'[w] = "ok" => Guards = {}]_trackerVars
  BY <1>1
<1> QED BY InitHasInv, StepKeepsInv, <1>2, PTL DEF TrackerSpec, OkOnlyWhenDrained

(***************************************************************************)
(* What is known of the stranding that TaskTracker_stranded shows: the one *)
(* step that can strand a caller is its own parking, when the last guard   *)
(* went between count() and notified().  A caller that has parked in time  *)
(* is never left behind by what the guards do, whatever their number:      *)
(* this is what ParkedBehindTasksWakes needs of the states.                *)
(***************************************************************************)
OnlyParkingStrands ==
  [][\A w \in Waiters : Stranded(w)' => Stranded(w) \/ wait[w] = "arming"]_trackerVars

\* A guard that drops without seeing 1 leaves another one alive.
LEMMA LastDropNotifies ==
  ASSUME TrackerInv, NEW t \in Tasks, DropGuard(t), task'[t] = "done"
  PROVE  \E u \in Tasks : task'[u] = "live"
<1> USE DEF TrackerInv, TrackerTypeOK
<1>1. t \in Guards /\ activeTasks # 1
  BY DEF DropGuard, Guards
<1>2. Guards # {t}
  BY <1>1, FS_Singleton DEF CounterCountsGuards
<1>3. PICK u \in Guards : u # t
  BY <1>1, <1>2
<1> QED BY <1>3 DEF DropGuard, Guards

\* A caller holds its Notified until a notify_waiters(), which comes after the
\* drop that saw the count go to 0: only one that parks too late is stranded.
THEOREM ParkedCallersAreNotLeft == TrackerSpec => OnlyParkingStrands
<1>1. ASSUME TrackerInv, [TrackerNext]_trackerVars, NEW w \in Waiters, Stranded(w)',
             wait[w] # "arming"
      PROVE  Stranded(w)
  <2> USE DEF TrackerInv, TrackerTypeOK
  <2>1. wait'[w] = "parked" /\ w \in completionWaiters'
        /\ \A t \in Tasks : task'[t] \in {"new", "done"}
    BY <1>1 DEF Stranded
  <2>2. CASE UNCHANGED trackerVars
    BY <1>1, <2>2 DEF trackerVars, Stranded
  <2>3. ASSUME NEW t \in Tasks, Increment(t) PROVE FALSE
    BY <1>1, <2>1, <2>3 DEF Increment
  <2>4. ASSUME NEW t \in Tasks, DropGuard(t) PROVE FALSE
    <3>1. task'[t] = "done"
      BY <1>1, <2>1, <2>4 DEF DropGuard
    <3> QED BY <1>1, <2>1, <2>4, <3>1, LastDropNotifies
  <2>5. ASSUME NEW t \in Tasks, NotifyCompletion(t) PROVE FALSE
    BY <2>1, <2>5 DEF NotifyCompletion
  <2>6. ASSUME NEW v \in Waiters, CallWait(v) \/ WaitStep(v) \/ Deadline(v)
        PROVE  Stranded(w)
    <3>1. wait[w] = "parked"
      BY <1>1, <2>1, <2>6 DEF CallWait, WaitStep, FirstCheck, LoopCheck, Arm, Wake, Deadline,
         Goto, WaitState
    <3>2. w \in completionWaiters
      BY <1>1, <2>1, <2>6, <3>1 DEF CallWait, WaitStep, FirstCheck, LoopCheck, Arm, Wake,
         Deadline, Goto
    <3>3. task' = task
      BY <2>6 DEF CallWait, WaitStep, FirstCheck, LoopCheck, Arm, Wake, Deadline
    <3> QED BY <2>1, <3>1, <3>2, <3>3 DEF Stranded
  <2> QED BY <1>1, <2>2, <2>3, <2>4, <2>5, <2>6 DEF TrackerNext, WaitStep
<1>2. TrackerInv /\ [TrackerNext]_trackerVars
      => [\A w \in Waiters : Stranded(w)' => Stranded(w) \/ wait[w] = "arming"]_trackerVars
  BY <1>1
<1> QED BY InitHasInv, StepKeepsInv, <1>2, PTL DEF TrackerSpec, OnlyParkingStrands

\* The tasks that may still end.
Unended == {t \in Tasks : task[t] # "done"}

\* Where a caller is on its way round the loop; one that was woken has a whole
\* round before it.
Place(w) ==
  CASE wait[w] = "idle" -> 5
    [] wait[w] = "called" -> 4
    [] wait[w] = "parked" -> IF w \in completionWaiters THEN 1 ELSE 4
    [] wait[w] = "loop" -> 3
    [] wait[w] = "arming" -> 2
    [] wait[w] \in {"ok", "err"} -> 0

WaitLeft(w) ==
  IF wait[w] \in {"ok", "err"} THEN 0 ELSE 4 * Cardinality(Unended) + Place(w)

(***************************************************************************)
(* wait_for_completion does not spin: each round of its loop is paid for   *)
(* by a task that ended, since a caller is woken only by a guard that saw  *)
(* the count go to 0.  So with finitely many tasks a call takes a bounded  *)
(* number of steps even if its deadline never comes, and no step of a task *)
(* or of another caller gives it more.                                     *)
(***************************************************************************)
WaitsRunDown ==
  [][\A w \in Waiters :
       /\ WaitLeft(w)' <= WaitLeft(w)
       /\ wait'[w] # wait[w] => WaitLeft(w)' < WaitLeft(w)]_trackerVars

WaitsBounded == \A w \in Waiters : WaitLeft(w) \in 0..(4 * Cardinality(Tasks) + 5)

LEMMA UnendedFinite == Cardinality(Unended) \in 0..Cardinality(Tasks)
<1>1. IsFiniteSet(Unended) /\ Cardinality(Unended) <= Cardinality(Tasks)
  BY TasksFinite, FS_Subset DEF Unended
<1>2. Cardinality(Unended) \in Nat /\ Cardinality(Tasks) \in Nat
  BY <1>1, TasksFinite, FS_CardinalityType
<1> QED BY <1>1, <1>2

\* What a step does to the tasks that may still end.
LEMMA StepUnended ==
  ASSUME TrackerTypeOK, [TrackerNext]_trackerVars
  PROVE  /\ Cardinality(Unended') <= Cardinality(Unended)
         /\ Cardinality(Unended') \in Nat
         /\ (\E t \in Tasks : NotifyCompletion(t)) =>
              Cardinality(Unended') = Cardinality(Unended) - 1
<1>1. IsFiniteSet(Unended)
  BY TasksFinite, FS_Subset DEF Unended
<1>2. ASSUME NEW t \in Tasks, NotifyCompletion(t)
      PROVE  Unended' = Unended \ {t} /\ t \in Unended
  BY <1>2 DEF NotifyCompletion, TrackerTypeOK, Unended
<1>3. Unended' \subseteq Unended
  <2>1. CASE UNCHANGED task
    BY <2>1 DEF Unended
  <2>2. ASSUME NEW t \in Tasks, Increment(t) \/ DropGuard(t) PROVE Unended' \subseteq Unended
    BY <2>2 DEF Increment, DropGuard, TrackerTypeOK, Unended
  <2>3. ASSUME NEW w \in Waiters,
               \/ CallWait(w) \/ FirstCheck(w) \/ LoopCheck(w) \/ Arm(w) \/ Wake(w)
               \/ Deadline(w)
        PROVE  UNCHANGED task
    BY <2>3 DEF CallWait, FirstCheck, LoopCheck, Arm, Wake, Deadline
  <2> QED BY <1>2, <2>1, <2>2, <2>3 DEF TrackerNext, trackerVars
<1>4. Cardinality(Unended') <= Cardinality(Unended) /\ Cardinality(Unended') \in Nat
  BY <1>1, <1>3, FS_Subset, FS_CardinalityType
<1>5. ASSUME NEW t \in Tasks, NotifyCompletion(t)
      PROVE  Cardinality(Unended') = Cardinality(Unended) - 1
  BY <1>1, <1>2, <1>5, FS_RemoveElement
<1> QED BY <1>4, <1>5

LEMMA PlaceOf ==
  ASSUME NEW w \in Waiters, wait[w] \in WaitState
  PROVE  Place(w) \in 0..5
  BY DEF Place, WaitState

LEMMA StepRunsDown ==
  ASSUME TrackerTypeOK, [TrackerNext]_trackerVars, NEW w \in Waiters
  PROVE  /\ WaitLeft(w)' <= WaitLeft(w)
         /\ wait'[w] # wait[w] => WaitLeft(w)' < WaitLeft(w)
<1> DEFINE n == Cardinality(Unended)
           m == Cardinality(Unended')
<1>1. n \in Nat /\ m \in Nat /\ m <= n
  BY UnendedFinite, StepUnended
<1>2. /\ WaitLeft(w) = IF wait[w] \in {"ok", "err"} THEN 0 ELSE 4 * n + Place(w)
      /\ WaitLeft(w)' = IF wait'[w] \in {"ok", "err"} THEN 0 ELSE 4 * m + Place(w)'
  BY DEF WaitLeft
<1>3. wait \in [Waiters -> WaitState]
  BY DEF TrackerTypeOK
<1>4. Place(w) \in 0..5
  BY <1>3, PlaceOf
<1> HIDE DEF n, m
<1>5. CASE wait'[w] = wait[w] /\ Place(w)' = Place(w)
  BY <1>1, <1>2, <1>4, <1>5
<1>6. CASE wait[w] \notin {"ok", "err"} /\ Place(w)' \in 0..5 /\ Place(w)' < Place(w)
  BY <1>1, <1>2, <1>4, <1>6
<1>7. CASE wait'[w] = wait[w] /\ m = n - 1 /\ Place(w) = 1 /\ Place(w)' = 4
  BY <1>1, <1>2, <1>7
<1>8. ASSUME NEW t \in Tasks, Increment(t) \/ DropGuard(t)
      PROVE  wait'[w] = wait[w] /\ Place(w)' = Place(w)
  BY <1>8 DEF Increment, DropGuard, Place
<1>9. ASSUME NEW t \in Tasks, NotifyCompletion(t)
      PROVE  \/ wait'[w] = wait[w] /\ Place(w)' = Place(w)
             \/ wait'[w] = wait[w] /\ m = n - 1 /\ Place(w) = 1 /\ Place(w)' = 4
  <2>1. m = n - 1
    BY <1>9, StepUnended DEF n, m
  <2>2. wait' = wait /\ completionWaiters' = {}
    BY <1>9 DEF NotifyCompletion
  <2>3. CASE wait[w] = "parked" /\ w \in completionWaiters
    BY <2>1, <2>2, <2>3 DEF Place
  <2>4. CASE ~(wait[w] = "parked" /\ w \in completionWaiters)
    BY <2>2, <2>4 DEF Place
  <2> QED BY <2>3, <2>4
<1>10. ASSUME NEW v \in Waiters,
              \/ CallWait(v) \/ FirstCheck(v) \/ LoopCheck(v) \/ Arm(v) \/ Wake(v)
              \/ Deadline(v)
       PROVE  \/ wait'[w] = wait[w] /\ Place(w)' = Place(w)
              \/ /\ wait[w] \notin {"ok", "err"}
                 /\ Place(w)' \in 0..5 /\ Place(w)' < Place(w)
  <2>1. CASE v # w
    <3>1. wait'[w] = wait[w] /\ (w \in completionWaiters' <=> w \in completionWaiters)
      BY <1>3, <1>10, <2>1 DEF CallWait, FirstCheck, LoopCheck, Arm, Wake, Deadline, Goto
    <3> QED BY <3>1 DEF Place
  <2>2. CASE v = w
    <3>1. \/ wait[w] = "idle" /\ wait'[w] = "called"
          \/ wait[w] = "called" /\ wait'[w] \in {"ok", "loop"}
          \/ wait[w] = "loop" /\ wait'[w] \in {"ok", "arming"}
          \/ wait[w] = "arming" /\ wait'[w] = "parked" /\ w \in completionWaiters'
          \/ wait[w] = "parked" /\ wait'[w] = "loop" /\ w \notin completionWaiters
          \/ wait[w] = "parked" /\ wait'[w] = "err"
      BY <1>3, <1>10, <2>2 DEF CallWait, FirstCheck, LoopCheck, Arm, Wake, Deadline, Goto
    <3> QED BY <3>1 DEF Place
  <2> QED BY <2>1, <2>2
<1>11. CASE UNCHANGED trackerVars
  BY <1>5, <1>11 DEF trackerVars, Place
<1> QED BY <1>5, <1>6, <1>7, <1>8, <1>9, <1>10, <1>11 DEF TrackerNext

\* A call of wait_for_completion takes at most five steps, and four for each task.
THEOREM WaitsComeToAnEnd == TrackerSpec => WaitsRunDown /\ []WaitsBounded
<1>1. TrackerInv /\ [TrackerNext]_trackerVars =>
        [\A w \in Waiters :
           /\ WaitLeft(w)' <= WaitLeft(w)
           /\ wait'[w] # wait[w] => WaitLeft(w)' < WaitLeft(w)]_trackerVars
  BY StepRunsDown DEF TrackerInv
<1>2. ASSUME TrackerInv, NEW w \in Waiters
      PROVE  WaitLeft(w) \in 0..(4 * Cardinality(Tasks) + 5)
  <2>1. Place(w) \in 0..5
    BY <1>2, PlaceOf DEF TrackerInv, TrackerTypeOK
  <2>2. Cardinality(Tasks) \in Nat
    BY TasksFinite, FS_CardinalityType
  <2>3. WaitLeft(w) \in {0, 4 * Cardinality(Unended) + Place(w)}
    BY DEF WaitLeft
  <2> QED BY <2>1, <2>2, <2>3, UnendedFinite
<1>3. TrackerInv => WaitsBounded
  BY <1>2 DEF WaitsBounded
<1> QED BY InitHasInv, StepKeepsInv, <1>1, <1>3, PTL DEF TrackerSpec, WaitsRunDown
=============================================================================
