----------------------------- MODULE Scheduler -----------------------------
(***************************************************************************)
(* TaskDAGScheduler on its SQLite table dag_tasks: threads that call step   *)
(* (run_all calls it in a loop), the runner that step calls with the lock   *)
(* released, retries and resolved suspensions, and a process that dies and  *)
(* is replaced by one whose constructor recovers what it finds.             *)
(*                                                                          *)
(* The lock of the scheduler makes each locked section a step; only the     *)
(* write of a result and the unlocking of the tasks behind it are two, as a *)
(* process may die between them.  One scheduler is alive at a time.         *)
(***************************************************************************)
EXTENDS Integers

CONSTANTS
  Tasks,         \* tasks callers may add
  Dependencies,  \* the dependencies each is added with
  Priority,      \* and its priority
  Threads,       \* threads that call step or run_all
  Schedulers,    \* scheduler objects, one after the other (bound on crashes)
  None,          \* Python's None
  Outcomes,      \* what a runner may end in
  MaxRevivals    \* bound: suspensions resolved and failures retried

DAGTaskStates ==
  {"READY", "BLOCKED_BY_DEPENDENCY", "RUNNING", "COMPLETE", "FAILED",
   "DECISION_REQUIRED", "ACCOUNT_SWITCH_REQUIRED", "CANCELLED", "SKIPPED"}

\* A result, or an exception, whose text the credential filter rejects.
LeakedResult == "leaked_result"
LeakedException == "leaked_exception"

ASSUME ConstantsAssumption ==
  /\ None \notin Tasks \cup Schedulers \cup DAGTaskStates
  /\ \A t \in Tasks : t \notin Dependencies[t]
  /\ Priority \in [Tasks -> Int]
  /\ Outcomes \subseteq DAGTaskStates \cup {LeakedResult, LeakedException}
  /\ MaxRevivals \in Nat

VARIABLES
  state,     \* the state column of dag_tasks, or None for a task not added
  alive,     \* the scheduler that is alive, or None
  unused,    \* the schedulers not created yet
  running,   \* its _running_task_id
  pc,        \* where each thread stands in step
  held,      \* task_to_run of each thread
  outcome,   \* the target state of the result a thread brings back
  revivals,  \* history: the calls that made a task READY again
  lost       \* history: tasks whose result the living scheduler did not take

vars == <<state, alive, unused, running, pc, held, outcome, revivals, lost>>

\* DAG_ALLOWED_TRANSITIONS
AllowedTransitions(s) ==
  CASE s = "BLOCKED_BY_DEPENDENCY" -> {"READY", "CANCELLED", "SKIPPED", "FAILED"}
    [] s = "READY" -> {"RUNNING", "BLOCKED_BY_DEPENDENCY", "CANCELLED", "SKIPPED"}
    [] s = "RUNNING" -> {"COMPLETE", "FAILED", "DECISION_REQUIRED",
                         "ACCOUNT_SWITCH_REQUIRED", "CANCELLED", "READY"}
    [] s \in {"DECISION_REQUIRED", "ACCOUNT_SWITCH_REQUIRED"} ->
         {"READY", "RUNNING", "CANCELLED", "FAILED"}
    [] s = "FAILED" -> {"READY", "BLOCKED_BY_DEPENDENCY"}
    [] s \in {"CANCELLED", "SKIPPED"} -> {"READY"}
    [] OTHER -> {}

\* DAGTaskRecord.transition_to also accepts the state the task is in.
CanTransition(from, to) == to = from \/ to \in AllowedTransitions(from)

Init ==
  /\ state = [t \in Tasks |-> None]
  /\ alive = None
  /\ unused = Schedulers
  /\ running = None
  /\ pc = [th \in Threads |-> "idle"]
  /\ held = [th \in Threads |-> None]
  /\ outcome = [th \in Threads |-> None]
  /\ revivals = 0
  /\ lost = {}

-----------------------------------------------------------------------------
\* Mutant: one complete dependency is enough.
AnyDependencyComplete(of, t) ==
  Dependencies[t] = {} \/ \E d \in Dependencies[t] : d \in Tasks /\ of[d] = "COMPLETE"

\* Tasks whose dependencies are all there and COMPLETE.
DependenciesComplete(of, t) ==
  \A d \in Dependencies[t] : d \in Tasks /\ of[d] = "COMPLETE"

\* _reconcile_ready_states
Reconciled(of) ==
  [t \in Tasks |-> IF of[t] = "BLOCKED_BY_DEPENDENCY" /\ DependenciesComplete(of, t)
                   THEN "READY" ELSE of[t]]

\* The lock is free: nobody is between the write of a result and the unlocking.
Free == alive # None /\ \A th \in Threads : pc[th] # "unlock"

\* Mutant: what an earlier scheduler left RUNNING is not reset.
RecoveredNothing(of) == Reconciled(of)

\* recover: every RUNNING task counts as orphaned.
Recovered(of) == Reconciled([t \in Tasks |-> IF of[t] = "RUNNING" THEN "READY" ELSE of[t]])

\* The constructor.
Create(s) ==
  /\ alive = None
  /\ s \in unused
  /\ alive' = s
  /\ unused' = unused \ {s}
  /\ state' = Recovered(state)
  /\ running' = None
  /\ lost' = {}
  /\ UNCHANGED <<pc, held, outcome, revivals>>

\* The process dies with its threads.
Crash ==
  /\ alive # None
  /\ unused # {}
  /\ alive' = None
  /\ running' = None
  /\ pc' = [th \in Threads |-> "idle"]
  /\ held' = [th \in Threads |-> None]
  /\ outcome' = [th \in Threads |-> None]
  /\ UNCHANGED <<state, unused, revivals, lost>>

\* add_task: the dependencies need not exist yet, a task that does is a duplicate.
AddTask(t) ==
  /\ Free
  /\ state[t] = None
  /\ state' = Reconciled([state EXCEPT ![t] =
                 IF Dependencies[t] = {} THEN "READY" ELSE "BLOCKED_BY_DEPENDENCY"])
  /\ UNCHANGED <<alive, unused, running, pc, held, outcome, revivals, lost>>

-----------------------------------------------------------------------------
(* step                                                                      *)

\* get_ready_tasks, after its reconciliation, in the order of priority; the order
\* of creation breaks ties.
FirstReady(of) ==
  {t \in Tasks : /\ of[t] = "READY"
                 /\ \A u \in Tasks : of[u] = "READY" => Priority[u] <= Priority[t]}

\* Mutant: the marker is not compared with anything.
NeverBusy == FALSE

\* A task of this scheduler is being run: step returns it and does nothing.
Busy == running # None /\ state[running] = "RUNNING"

\* The task is RUNNING in the table before its runner is called.
Claim(th) ==
  /\ Free
  /\ pc[th] = "idle"
  /\ ~ Busy
  /\ \E t \in FirstReady(Reconciled(state)) :
       /\ state' = [Reconciled(state) EXCEPT ![t] = "RUNNING"]
       /\ running' = t
       /\ held' = [held EXCEPT ![th] = t]
  /\ pc' = [pc EXCEPT ![th] = "run"]
  /\ UNCHANGED <<alive, unused, outcome, revivals, lost>>

\* Nothing is ready, or somebody only looks (snapshot, get_ready_tasks).
ClaimNothing ==
  /\ Free
  /\ ~ Busy
  /\ FirstReady(Reconciled(state)) = {}
  /\ running' = None
  /\ UNCHANGED <<state, alive, unused, pc, held, outcome, revivals, lost>>

\* step is over for this thread.
Leave(th) ==
  /\ pc' = [pc EXCEPT ![th] = "idle"]
  /\ held' = [held EXCEPT ![th] = None]
  /\ outcome' = [outcome EXCEPT ![th] = None]

\* step raises: the task it claimed stays RUNNING in the table.
Lose(th) ==
  /\ Leave(th)
  /\ lost' = lost \cup {held[th]}

\* Mutant: nothing is filtered.
RunnerReturnsAnything(th) ==
  /\ pc[th] = "run"
  /\ \E o \in Outcomes : outcome' = [outcome EXCEPT ![th] = o]
  /\ pc' = [pc EXCEPT ![th] = "record"]
  /\ UNCHANGED <<state, alive, unused, running, held, revivals, lost>>

\* The runner returns a result, or raises, which counts as a failed one.
RunnerReturns(th) ==
  /\ pc[th] = "run"
  /\ \E o \in Outcomes \ {LeakedResult, LeakedException} :
       outcome' = [outcome EXCEPT ![th] = o]
  /\ pc' = [pc EXCEPT ![th] = "record"]
  /\ UNCHANGED <<state, alive, unused, running, held, revivals, lost>>

\* Its result is rejected by the credential filter: the marker goes.
RunnerLeaks(th) ==
  /\ pc[th] = "run"
  /\ LeakedResult \in Outcomes
  /\ running' = None
  /\ Lose(th)
  /\ UNCHANGED <<state, alive, unused, revivals>>

\* The text of its exception is rejected: the handler itself raises, and the
\* marker stays.
RunnerRaisesLeak(th) ==
  /\ pc[th] = "run"
  /\ LeakedException \in Outcomes
  /\ Lose(th)
  /\ UNCHANGED <<state, alive, unused, running, revivals>>

\* The result is written, on the record that was read before the run.
RecordResult(th) ==
  /\ Free
  /\ pc[th] = "record"
  /\ CanTransition("RUNNING", outcome[th])
  /\ state' = [state EXCEPT ![held[th]] = outcome[th]]
  /\ running' = None
  /\ IF outcome[th] = "COMPLETE"
     THEN pc' = [pc EXCEPT ![th] = "unlock"] /\ UNCHANGED <<held, outcome>>
     ELSE Leave(th)
  /\ UNCHANGED <<alive, unused, revivals, lost>>

\* A target state a RUNNING task cannot go to: InvalidDAGStateTransitionError.
RefuseResult(th) ==
  /\ Free
  /\ pc[th] = "record"
  /\ ~ CanTransition("RUNNING", outcome[th])
  /\ Lose(th)
  /\ UNCHANGED <<state, alive, unused, running, revivals>>

\* The tasks behind it become READY.
Unlock(th) ==
  /\ pc[th] = "unlock"
  /\ state' = Reconciled(state)
  /\ Leave(th)
  /\ UNCHANGED <<alive, unused, running, revivals, lost>>

-----------------------------------------------------------------------------
(* Operations on a task that waits or has ended.                             *)

\* What the revived task and the table become.
Revive(revived) ==
  /\ Free
  /\ revivals < MaxRevivals
  /\ revivals' = revivals + 1
  /\ state' = revived
  /\ UNCHANGED <<alive, unused, running, pc, held, outcome, lost>>

ResolveDecision(t) ==
  state[t] = "DECISION_REQUIRED" /\ Revive([state EXCEPT ![t] = "READY"])

ResolveAccountSwitch(t) ==
  state[t] = "ACCOUNT_SWITCH_REQUIRED" /\ Revive([state EXCEPT ![t] = "READY"])

\* Mutant: the transition graph is not asked.
RetryAnything(t) ==
  state[t] # None /\ Revive(Reconciled([state EXCEPT ![t] = "BLOCKED_BY_DEPENDENCY"]))

\* retry_task, by way of BLOCKED_BY_DEPENDENCY; any other state raises.
RetryTask(t) ==
  /\ state[t] # None
  /\ CanTransition(state[t], "BLOCKED_BY_DEPENDENCY")
  /\ Revive(Reconciled([state EXCEPT ![t] = "BLOCKED_BY_DEPENDENCY"]))

-----------------------------------------------------------------------------
StepOf(th) == Claim(th) \/ RecordResult(th) \/ RefuseResult(th) \/ Unlock(th)
RunnerOf(th) == RunnerReturns(th) \/ RunnerLeaks(th) \/ RunnerRaisesLeak(th)

Next ==
  \/ \E s \in Schedulers : Create(s)
  \/ Crash \/ ClaimNothing
  \/ \E th \in Threads : StepOf(th) \/ RunnerOf(th)
  \/ \E t \in Tasks : AddTask(t) \/ ResolveDecision(t) \/ ResolveAccountSwitch(t) \/ RetryTask(t)

Spec == Init /\ [][Next]_vars

\* A crashed scheduler is created anew, the threads stay in run_all, and every
\* runner comes back.
Fairness ==
  /\ WF_vars(\E s \in Schedulers : Create(s))
  /\ WF_vars(\E th \in Threads : Claim(th))
  /\ \A th \in Threads : WF_vars(RunnerOf(th)) /\ WF_vars(StepOf(th))

LiveSpec == Spec /\ Fairness

-----------------------------------------------------------------------------
\* Every variable has its type.
TypeOK ==
  /\ state \in [Tasks -> DAGTaskStates \cup {None}]
  /\ alive \in Schedulers \cup {None}
  /\ unused \subseteq Schedulers
  /\ running \in Tasks \cup {None}
  /\ pc \in [Threads -> {"idle", "run", "record", "unlock"}]
  /\ held \in [Threads -> Tasks \cup {None}]
  /\ outcome \in [Threads -> DAGTaskStates \cup {None}]
  /\ revivals \in Nat
  /\ lost \subseteq Tasks

\* However tasks are retried, resolved, recovered and unlocked, no task is READY, is
\* run or has an outcome unless everything it depends on is COMPLETE.
DependenciesFirst ==
  \A t \in Tasks :
    state[t] \notin {None, "BLOCKED_BY_DEPENDENCY"} =>
      \A d \in Dependencies[t] : d \in Tasks /\ state[d] = "COMPLETE"

InRunner(th) == pc[th] \in {"run", "record"}

\* max_parallelism is 1: two runners never work at the same time, although the lock
\* is released while they do, and a task whose result was lost is not run beside the
\* next one.
OneRunner == \A th, other \in Threads : InRunner(th) /\ InRunner(other) => th = other

\* A task that is COMPLETE stays so: no late result, retry or recovery runs it again.
CompleteIsFinal ==
  [][\A t \in Tasks : state[t] = "COMPLETE" => state'[t] = "COMPLETE"]_vars

\* The scheduler as an executor of its graph.
Dag == INSTANCE SerialDag WITH
  needs <- Dependencies,
  done <- {t \in Tasks : state[t] = "COMPLETE"},
  at <- {held[th] : th \in {other \in Threads : InRunner(other)}}

\* The scheduler runs the graph one task at a time, each after those it depends on,
\* and a task becomes COMPLETE only as the outcome of a run of its own: no late
\* result, recovery or loss of a process gives it another.
ImplementsSerialDag == Dag!Spec

\* A task can be run, now or once somebody reconciles.
Runnable(t) ==
  \/ state[t] \in {"READY", "RUNNING"}
  \/ state[t] = "BLOCKED_BY_DEPENDENCY" /\ DependenciesComplete(state, t)

\* Whatever crashes, a task that can be run gets an outcome, unless its own result was
\* lost or the marker of a task whose result was lost bars the scheduler.
RunnableSettles ==
  \A t \in Tasks : Runnable(t) ~> (~ Runnable(t) \/ t \in lost \/ running \in lost)

\* run_all runs tasks until no more are ready.
ReadyRuns == \A t \in Tasks : state[t] = "READY" ~> state[t] # "READY"
=============================================================================
