----------------------------- MODULE TaskTracker -----------------------------
(***************************************************************************)
(* The TaskTracker of zel_core/src/protocol/shutdown.rs: an atomic counter *)
(* of the tasks in flight, a guard per task that decrements the counter    *)
(* when it is dropped, and a tokio Notify on which wait_for_completion     *)
(* parks until the counter reads zero or its deadline passes.              *)
(*                                                                         *)
(* tokio's Notify is not part of the repository.  notify_waiters() wakes   *)
(* the Notified futures that exist at that moment and stores no permit, so *)
(* its state here is the set of callers that hold such a future and have   *)
(* not been woken: notify_waiters() empties the set.                       *)
(*                                                                         *)
(* The counter uses Relaxed atomics; every access is a step on the one     *)
(* modification order of that counter.                                     *)
(***************************************************************************)
EXTENDS Integers, FiniteSets

CONSTANTS Tasks,    \* the tasks that may ever be tracked
          Waiters   \* the callers of wait_for_completion

ASSUME TasksFinite == IsFiniteSet(Tasks)

VARIABLES
  activeTasks,        \* AtomicUsize
  task,               \* where the guard of each task is in its life
  completionWaiters,  \* callers with a Notified on completion_notify not yet woken
  wait                \* where each caller is in wait_for_completion

trackerVars == <<activeTasks, task, completionWaiters, wait>>

\* "notifying": the guard's fetch_sub returned 1, notify_waiters() comes next.
TaskState == {"new", "live", "notifying", "done"}

\* "called": before the first count(); "loop": before count() in the loop;
\* "arming": count() was not 0, notified() comes next; "parked": pending.
WaitState == {"idle", "called", "loop", "arming", "parked", "ok", "err"}

TrackerTypeOK ==
  /\ activeTasks \in Nat
  /\ task \in [Tasks -> TaskState]
  /\ completionWaiters \subseteq Waiters
  /\ wait \in [Waiters -> WaitState]

TrackerInit ==
  /\ activeTasks = 0
  /\ task = [t \in Tasks |-> "new"]
  /\ completionWaiters = {}
  /\ wait = [w \in Waiters |-> "idle"]

Guards == {t \in Tasks : task[t] = "live"}
-----------------------------------------------------------------------------
(* Tasks and their guards *)

\* Variant: the counter is stored, not added to.
Increment_Stores(t) ==
  /\ task[t] = "new"
  /\ activeTasks' = 1
  /\ task' = [task EXCEPT ![t] = "live"]
  /\ UNCHANGED <<completionWaiters, wait>>

Increment(t) ==
  /\ task[t] = "new"
  /\ activeTasks' = activeTasks + 1
  /\ task' = [task EXCEPT ![t] = "live"]
  /\ UNCHANGED <<completionWaiters, wait>>

\* Variant: tests the new count against 1 instead of the previous one.
DropGuard_TestsNewCount(t) ==
  /\ task[t] = "live"
  /\ activeTasks' = activeTasks - 1
  /\ task' = [task EXCEPT ![t] = IF activeTasks' = 1 THEN "notifying" ELSE "done"]
  /\ UNCHANGED <<completionWaiters, wait>>

\* TaskGuard::drop up to its fetch_sub, which returns the previous count.
DropGuard(t) ==
  /\ task[t] = "live"
  /\ activeTasks' = activeTasks - 1
  /\ task' = [task EXCEPT ![t] = IF activeTasks = 1 THEN "notifying" ELSE "done"]
  /\ UNCHANGED <<completionWaiters, wait>>

\* Variant: the last guard decrements once more when it notifies.
NotifyCompletion_Decrements(t) ==
  /\ task[t] = "notifying"
  /\ completionWaiters' = {}
  /\ task' = [task EXCEPT ![t] = "done"]
  /\ activeTasks' = activeTasks - 1
  /\ UNCHANGED wait

\* completion_notify.notify_waiters(), by the guard that saw the count go to 0.
NotifyCompletion(t) ==
  /\ task[t] = "notifying"
  /\ completionWaiters' = {}
  /\ task' = [task EXCEPT ![t] = "done"]
  /\ UNCHANGED <<activeTasks, wait>>
-----------------------------------------------------------------------------
(* wait_for_completion *)

Goto(w, from, to) ==
  /\ wait[w] = from
  /\ wait' = [wait EXCEPT ![w] = to]

CallWait(w) ==
  /\ Goto(w, "idle", "called")
  /\ UNCHANGED <<activeTasks, task, completionWaiters>>

\* The count before the timeout is set up.
FirstCheck(w) ==
  /\ Goto(w, "called", IF activeTasks = 0 THEN "ok" ELSE "loop")
  /\ UNCHANGED <<activeTasks, task, completionWaiters>>

\* The count at the head of the loop.
LoopCheck(w) ==
  /\ Goto(w, "loop", IF activeTasks = 0 THEN "ok" ELSE "arming")
  /\ UNCHANGED <<activeTasks, task, completionWaiters>>

\* completion_notify.notified(): only now does the caller hold a Notified.
Arm(w) ==
  /\ Goto(w, "arming", "parked")
  /\ completionWaiters' = completionWaiters \cup {w}
  /\ UNCHANGED <<activeTasks, task>>

\* Variant: a wake-up is taken for completion, without another count().
Wake_WithoutRecheck(w) ==
  /\ Goto(w, "parked", "ok")
  /\ w \notin completionWaiters
  /\ UNCHANGED <<activeTasks, task, completionWaiters>>

\* The Notified was woken: go round the loop.
Wake(w) ==
  /\ Goto(w, "parked", "loop")
  /\ w \notin completionWaiters
  /\ UNCHANGED <<activeTasks, task, completionWaiters>>

\* Variant: the timeout is put around the notified() alone, and its result dropped.
Deadline_GoesRound(w) ==
  /\ Goto(w, "parked", "loop")
  /\ completionWaiters' = completionWaiters \ {w}
  /\ UNCHANGED <<activeTasks, task>>

\* tokio's timeout polls the loop before the timer, so only a pending loop is
\* cut off; the future is dropped and with it the caller's Notified.
Deadline(w) ==
  /\ Goto(w, "parked", "err")
  /\ completionWaiters' = completionWaiters \ {w}
  /\ UNCHANGED <<activeTasks, task>>

WaitStep(w) == FirstCheck(w) \/ LoopCheck(w) \/ Arm(w) \/ Wake(w)
GuardStep(t) == DropGuard(t) \/ NotifyCompletion(t)

TrackerNext ==
  \/ \E t \in Tasks : Increment(t) \/ DropGuard(t) \/ NotifyCompletion(t)
  \/ \E w \in Waiters : \/ CallWait(w) \/ FirstCheck(w) \/ LoopCheck(w)
                        \/ Arm(w) \/ Wake(w) \/ Deadline(w)

TrackerSpec == TrackerInit /\ [][TrackerNext]_trackerVars

(***************************************************************************)
(* The runtime polls ready futures and tracked tasks end.  Nothing makes   *)
(* the deadline pass: what follows must not rest on it.                    *)
(***************************************************************************)
TrackerFairness ==
  /\ \A t \in Tasks : WF_trackerVars(GuardStep(t))
  /\ \A w \in Waiters : WF_trackerVars(WaitStep(w))

FairTrackerSpec == TrackerSpec /\ TrackerFairness
-----------------------------------------------------------------------------
(* Properties *)

\* The counter is the number of guards alive: no drop, however it interleaves
\* with increments and with other drops, is lost or counted twice.
CounterCountsGuards == activeTasks = Cardinality(Guards)

\* wait_for_completion returns Ok only at a moment when no guard is alive.
OkOnlyWhenDrained ==
  [][\A w \in Waiters : wait[w] # "ok" /\ wait'[w] = "ok" => Guards = {}]_trackerVars

\* While guards are alive no wake-up is due, and once they are gone every
\* caller that parked before the last one went is woken without the deadline.
ParkedBehindTasksWakes ==
  \A w \in Waiters :
    (w \in completionWaiters /\ Guards # {}) ~> (wait[w] # "parked")

\* The caller holds a Notified that nothing will wake: no guard is alive, and
\* none that saw the count go to 0 has its notify_waiters() still to do.
Stranded(w) ==
  /\ wait[w] = "parked"
  /\ w \in completionWaiters
  /\ \A t \in Tasks : task[t] \in {"new", "done"}

\* "Ok(()) if all tasks completed within the timeout, Err(()) if the timeout was
\* reached with tasks still active": a caller is never left parked, with only
\* its deadline to end the wait, when no task is active.
NeverStranded == \A w \in Waiters : ~Stranded(w)
=============================================================================
