# Codex-Antigravity bridge: a TLA+ verification project

The bridge (`mcp-antigravity-bridge/src/codex_agy_bridge/`) is an MCP server that lets
a supervising model hand coding tasks to Antigravity (AGY) workers. Its promise is
durability: a *run* survives crashes of the server, of the worker and of the
supervisor, is never executed twice in its worktree, never reported COMPLETE on
unverified work, and can be interrupted, recovered and resumed. That promise rests on
one SQLite row per run, written by threads of several processes that share no lock.
Around it stand a task scheduler, a plan executor that drives one child run at a time, a
journal of asynchronous jobs shared by the servers, the supervision of the worker
processes, and the gates that verify, repair and commit. These modules state what each
of them promises, check it with TLC on small instances, and prove a large part of the
safety for every instance with TLAPS.

Paths below without a directory are in `mcp-antigravity-bridge/src/codex_agy_bridge/`.

## 1. Inventory

| Component (file) | State it keeps | Operations | Hard behaviour | Module |
|---|---|---|---|---|
| Run contract (`contracts.py`) | one `RunRecord` | `transition_to`, `ALLOWED_TRANSITIONS`, COMPLETE guard | the guard looks at keys a rejected acceptance payload does not have | `RunContracts`, `RunLifecycle` |
| Durable run store (`run_control.py`, `DurableRunStore`) | tables `runs`, `run_events` | `insert_run`, `get_run`, `transition_run`, `increment_attempt`, heartbeat and pid updates | SELECT, UPDATE and INSERT are autocommitted statements; the lock belongs to one store object, and every request builds its own | `RunStore` |
| Run manager, admission (`run_control.py`, `run_start`) | the look-ups it acts on | key look-up, active-run look-up, insert, spawn | four transactions with nothing that spans them | `RunAdmission` |
| Run manager, execution (`run_control.py`, `DurableRunManager`) | registry of active executions, cancel events | `_spawn_worker`, `run_observe`, `run_cancel`, harvest, `_mark_interrupted` | each actor writes from a record it read earlier; registry is per process and lost in a crash | `RunControl` |
| Recovery (`recovery.py`) | none of its own | `diagnose_run`, `mark_interrupted_if_orphaned`, `check_recovery_readiness`, `handle_inconsistent_evidence`, `resume_same_run` | read-then-write on the same row, while the run may execute | `RunControl` |
| Detached worker host (`worker_host.py`, `worker_binding.py`) | its process, its heartbeat | reservation, claim, execution, give-up | launcher and host race on the row; either may die | `RunControl`, `AgyRunner` |
| Acceptance (`acceptance.py`) | none | `evaluate_candidate` | decides what a harvest writes | `EvaluateCandidate` in `RunContracts` |
| MCP server (`server.py`) | a per-process resume lock | tools that call the above | the lock does not reach another server | the calls of the other modules |
| Task DAG scheduler (`scheduler.py`) | tables `dag_tasks`, `dag_runs`; `_running_task_id` | `add_task(s)`, `step`, `run_all`, `recover`, `retry_task`, `resolve_*` | the runner works outside the lock; a process dies with a task RUNNING | `Scheduler` |
| Plan executor (`plan_executor.py`) | one JSON record per execution, a Git worktree | `start`, `resume`, `cancel`, `_orchestrate` | unversioned whole-record saves by several threads; a lock that is process memory; Git timeouts | `PlanExecutor` |
| Asynchronous jobs (`agy_jobs.py`, `durable_jobs.py`) | registry of jobs, `durable_jobs` table, sessions | `start`, `status`, `cleanup`, `close`, watchdog, reconcile | memory and journal written apart; jobs of other sessions, dead or not | `AgyJobs` |
| Collaboration (`agy_collaboration.py`) | sessions, owned paths, worktrees | `start`, `status` | half-started sessions; an answer put together while workers go on | `Collaboration` |
| AGY runner (`agy_runner.py`) | subprocesses | `run_agy`, `run_agy_visible` | deadline against exit, extensions, a second launch on a terminal | `AgyRunner` |
| Verification and repair (`verification.py`) | worktree, the run's row | scope gate, `run_verification`, `execute_repair_loop`, auto-commit gate | writes that swallow their failure; a worktree that changes between two gates | `RepairLoop` |
| Task shaping (`task_shaping.py`) | a plan and its digest | `shape_task`, `validate_task_plan`, `freeze`, `assert_immutable` | a validation that must be exact; a frozen plan passes through the caller's hands | `TaskShaping` |
| Policy and timeout diagnostics (`policy.py`, `timeout_diagnostics.py`) | none | `evaluate_decision_policy`, `diagnose_timeout` | many inputs, several of them unknown | `Advice` |
| Telemetry (`telemetry.py`, `telemetry_hooks.py`) | a ledger | hooks that swallow their errors | idempotent recording | not modelled |
| Reports, doctor, setup, shadow, skills, scripts | none | rendering, diagnostics, installation | none that a model would show | not modelled |

How they interact: a supervisor calls MCP tools (`server.py`). `run_start` inserts the row
and either starts a worker thread in the server or launches `worker_host.py`, which claims
the row and runs the same `_spawn_worker`. The worker is a callback of `worker_binding.py` around
`run_agy`, possibly inside the repair loop. Status tools call `run_observe`, which may
harvest the worktree or mark the run interrupted. `run_resume` goes through
`RecoveryOrchestrator.resume_same_run`, which counts an attempt and spawns a new worker.
All of them meet only in the row: `get_run` to read, `transition_run(expected_version)` to
write. A plan is shaped and frozen (`task_shaping.py`), handed to the caller, and taken back by
`plan_start`; its orchestrator thread calls `run_start` and `run_observe` for one child after the
other and commits each accepted child's work. `agy_start` and collaborations use a separate journal of jobs,
and the scheduler a third database with a runner it is given.

What makes each correct, in words. The row moves along the contract's graph only; COMPLETE
implies good evidence and a quiet worktree; a cancellation wins over a late result; an
interrupted run is moved by nobody's late write; no two executions at once; no executing run
is taken for an orphan; no run stays active for good; a retried `run_start` starts nothing. A
scheduler task never starts before its
dependencies and never twice at once. A plan starts no child twice, has one at work at a time, builds on
accepted and committed work only, and comes to rest. One worker works on a task key; a job's verdict is not taken back, and
every accepted job gets one. A call of a worker answers what happened, leaves no worker behind, and ends. Nothing is
committed that the last gate did not see clean. The executor gets exactly the executable plans, as
frozen. Advice to retry never rests on an empty diff, nor on a worker nobody said is gone.

The hazards that these properties are for, each at its line, are the `hazards` list of
`PROJECT.json`.

## 2. Modules

| Module | Extends or uses | Models |
|---|---|---|
| `RunContracts` | - | states, transition graph, COMPLETE guard, the verdict of `evaluate_candidate`, as operators |
| `RunLifecycle` | `RunContracts` | abstract: one record, one action (`transition_to`) |
| `RunStore` | `RunContracts`; instance of `RunLifecycle` | `transition_run` by statement, state events, unversioned updates, any number of clients on any number of store objects |
| `RunControl` | `RunContracts`; instance of `RunLifecycle` | all actors on one row |
| `RunAdmission` | - | overlapping `run_start` calls on the `runs` table |
| `PlanExecutor` | `RunAdmission`; instance of `SerialDag` | orchestrator threads, `plan_cancel`, the record, the integration worktree; children are admitted by `RunAdmission` |
| `SerialDag` | - | abstract: a graph of tasks worked through one at a time |
| `Scheduler` | instance of `SerialDag` | `TaskDAGScheduler` |
| `AgyJobs` | - | the registries of several servers on one job journal |
| `Collaboration` | `AgyJobs` | a collaboration's `start` and `status` on top of a registry |
| `AgyRunner` | - | one call of `run_agy` and the workers it launches |
| `RepairLoop` | `RunContracts` | `execute_repair_loop` and the gates it asks |
| `TaskShaping` | - | shaping, validation, freezing and reloading of a plan |
| `Advice` | - | two decision tables |
| `RunLifecycleProofs`, `RunStoreProofs`, `RunControlProofs`, `SchedulerProofs` | the module named, `TLAPS` | theorems about it |
| `CollaborationProofs` | `Collaboration`, `TLAPS` | theorems about `AgyJobs` and `Collaboration` |
| `RunSafetyProofs` | `RunControlProofs` | theorems about executions, cancellations and observers in `RunControl` |
| `PlanExecutorProofs` | `PlanExecutor`, `TLAPS` | theorems about `RunAdmission` and `PlanExecutor` |
| `SupervisionProofs` | `AgyRunner`, `RepairLoop`, `Advice`, `TaskShaping`, `TLAPS` | theorems about the four |
| `MC*` | the module named | instances for TLC; `MCSupervision` holds five machines |

### RunContracts and RunLifecycle

A verification payload is abstracted to what the COMPLETE guard and the acceptance can tell
apart: `none`, `passed`, `failed`, `accepted`, `rejected`. `CanTransition` is the test of
`transition_to`, with its refusal of COMPLETE for a payload that *reports* failure. A rejected
`CandidateAcceptance` reports nothing under the keys the guard reads, so the guard lets it
pass; that is in the model, and `CompleteIsVerified` shows that no writer ever offers one.
`RunLifecycle` is the abstract specification both `RunStore` and `RunControl` implement.

### RunStore

`transition_run` is SELECT (`Select`), the guarded UPDATE (`Update`) and the event's INSERT
(`Log`), and a client may be interrupted between them (`Interrupted`). `increment_attempt`,
heartbeat and pid updates carry no version. `storeOf` says which store object, hence which
`RLock`, a client uses. Each behaviour fixes it in the initial state, so one run covers one store
with two threads and two stores.

What it shows: the `WHERE version = ?` alone keeps the row on the lifecycle; the lock adds, within
one store, that events come in the order of their versions and that an unversioned
update is never taken back. Between two stores the second fails: UPDATE writes back the whole
snapshot, so an attempt counted in between is lost.

### RunControl

One row, as `[state, version, verification, pid]`. An *actor* is a worker execution or a caller's
thread; `pc` names where it stands, `seen` is the record it holds, `at` its process. Every
`get_run` and every `transition_run` is a step, so any other actor may come in between; a
step's guard is the code's condition on `seen`, its write is judged on `row`. Labels follow the
code:

| Labels | Code |
|---|---|
| `s_*`, `p_start` | `run_start` from its insert on: in-process spawn, host launch, reservation, late pid update, failures |
| `h_*`, `born` | `worker_host.main`: waiting for the reservation, claim, give-up |
| `w_*` | `_worker_runner` in `_spawn_worker`, from the first cancel check to `finally` |
| `x_*` | `_harvest_existing_candidate` |
| `m_*` | `_mark_interrupted` |
| `c_*` | `run_cancel`, with its single retry |
| `o_*` | `run_observe` |
| `r_*` | the tool `run_resume` and `resume_same_run` |
| `k_*`, `e_*`, `f_*` | `mark_interrupted_if_orphaned`, `check_recovery_readiness`, `handle_inconsistent_evidence` |

`Crash(p)` kills a process with all its actors and its registry; the row stays. A restarted server
is a further member of `Servers`.

Abstractions: a heartbeat is not stored; an observer may see an old one whenever no worker
renews it, and, with `StaleBeats`, also when one does. `is_pid_alive` sees a death at once. What an audit of the worktree finds
is nondeterministic (`SelectedPids` over-approximates the evidence a harvest gets). SQLite errors
are modelled where the code handles them (the spawn) and in `RunStore`. Telemetry is left out. A
run's contract is always there. The `INCONSISTENT_EVIDENCE` branch of
`mark_interrupted_if_orphaned` is left to `handle_inconsistent_evidence`, which is called directly.

### Scheduler

`dag_tasks` is `state`, a function from tasks to `DAGTaskState` or `None` for a task not added;
`running` is `_running_task_id`. The scheduler's `RLock` makes a locked section one step, except
that the write of a result (`RecordResult`) and the unlocking behind it (`Unlock`) are two,
between which the process may die. `step` is `Claim`, then one of `RunnerReturns`, `RunnerLeaks`
(a result the credential filter rejects: the marker is cleared) and `RunnerRaisesLeak` (an
exception it rejects: the marker stays), then `RecordResult` or `RefuseResult` (a target state
a RUNNING task cannot take). `run_all` is threads that step again. `Crash` and `Create` replace
the process; `Create` runs `recover`. `lost` and `revivals` are history. Attempt counters,
evidence and the write-only `dag_runs` journal are left out. Dependencies that nobody adds are allowed, as in the
code, where only `validate_dag` complains. One scheduler is alive at a time: two on one file would
reset each other's RUNNING tasks, and nothing in the module promises otherwise.

### SerialDag

What `Scheduler` and `PlanExecutor` both promise of a graph of tasks: `Begin` a task that is not done, when everything it needs is and nothing else is at work;
`Finish` or `Drop` it. For the scheduler, done is COMPLETE and at work is what a thread has between `Claim` and the write of its result, so a result that comes
back late, to a task somebody else has moved, would be no step of `SerialDag`. For a plan, done is a task whose child was accepted and at work one whose child is active; the
record does not occur in it, since a plan's saves overwrite each other and the children have to be in order all the same.

### RunAdmission

A `run_start` call is the credential check, the look-up of the idempotency key, the look-up of an active run of the same task,
the INSERT and the spawn, each a step; calls of any number of threads and servers interleave. A run is "active", STOPPED (interrupted,
suspended: without a worker) or over, since what happens in between is `RunControl`'s matter. `before` is history: the runs that bore the key when
the call began. `PlanExecutor` calls the same actions for its children.

### PlanExecutor

The record of a plan execution is `row`. Every `store.save` writes the whole of it, every orchestrator works on the copy in
`orch[p].rec`, and `plan_cancel` on its own in `cancel[p].rec`. One action per save, read, tool call and Git command of
`_orchestrate`, `_run_task`, `_checkpoint` and the exception handler; `NextTask` is `_next_task`, its loop a recursive function of how far it has come. A head is
the set of tasks whose work it holds, so "the base of a child" and "the work is committed" are statements about sets. `GitTimesOut` leaves it open whether
the commit happened. `waiting` are threads that have not tried the lock yet: a thread that finds it taken gives up, also
when the one that holds it is about to leave. The dependency graph is chosen in the initial state, over all acyclic ones, so one run covers all graphs.
`state_version` is counted and never compared, and therefore left out. `Finish` is a child's run coming to rest; that it does is `RunSettles` of `RunControl`.

### AgyJobs and Collaboration

`table` is the journal, `mem` the memory of the registry that owns a job; every transaction of `DurableJobStore` is one step,
and every write of `mem` under the registry's lock another. The start of a job (`starter`), its pool thread (`runner`), the watchdog (`watched`) and
`close` (`swept`) are separate actors. `Open` reconciles: it interrupts the active rows of every other session, as it cannot tell a dead one from a live one. Retention is a
choice: `Prune` may delete any terminal row and `Forget` any completed record, once the thread of the job is past its journal write: retention is 15 minutes by default, and `_prune_locked` counts it from the completion the write follows. A journal write may fail once (`WriteFails`), which the code swallows. `ghosts` are
workers that outlived their bridge, which dies in `Crash`.

`Collaboration` adds one session: the owned paths, a worktree per task (the set of paths changed in it), the session's registration and a
`status` that asks for a job's answer first and looks at its worktree later. A look may fail, as `inspect` does when the directory is gone or Git refuses: the task then has no changed files,
and `blind` stands for the `scope_status` "unknown" of the answer. Crashes and closes are left to `AgyJobs`, since sessions of a collaboration die with their process.

### AgyRunner

Time is one event, `DeadlinePasses`, which comes at any place where the call waits for the worker: at the watch, at the bare `wait` after a closed terminal, and before the answer is judged. An answer may therefore be late. A call launches a worker on pipes (or on a visible console), watches it until it has ended *and* its output is closed, grants extensions past the
deadline while the liveness probe says so, kills it and drains its output; after a silent success it launches a second time, on a terminal (pty or
winpty). `WorkerSteps` is the external program: it prints, ends with any code, leaves descendants that hold its output. `Bound` is what `worker_binding.py` makes of the answer. What the host offers (platform, terminal
library, binary, probe) is fixed in the initial state, over all combinations. `PrintTimeout` is `derive_agy_print_timeout` in tenths of a second.

### RepairLoop

The worktree is the set of what is wrong with it, of the faults that the verification commands, the scope gate and the migration check
can tell apart; `Drift` changes it between any two steps. The loop's reads and writes of the row are steps, the heartbeat after a verification may raise out of it, and `Disturb` lets others cancel or interrupt the run in between. Writes that
the code wraps in `try/except` go on when the row refuses them (`TryMove`), the others raise. Which commands run, and how their output is parsed, is left out.

### TaskShaping and Advice

`Shaped` builds the plan that `shape_task` builds; `DagValid` is the depth-first walk of `validate_task_plan`, with the calls of `visit` under way as a stack: a step
(`WalkStep`) makes a call or returns from one, and as each id is entered and left once, `WalkLength` steps are all it takes. `EditPlan` is the caller, between
`run_shape` and `plan_start`; `LoadPlan` rebuilds, validates and compares digests. A digest is the plan it was made of (SHA-256 is taken to be injective). The reference
for the walk is `Serializable`: some order serves every dependency.

`Advice` puts one question and gets one answer. The arguments are what the regular expressions and dictionaries amount to: for the
timeout, its kind, what is said and known of the worker, and what a look at the worktree found; for the decision, the set of rules that match.

## 3. Runs

| Run | Instance | What it shows |
|---|---|---|
| `hosted` | external run, two servers, launcher and one other caller, host and one server may die | types; no observer interrupts or completes an executing run |
| `hosted_live` | one caller, heartbeats that look stale, crashes of host and server | the run leaves the active states; interrupted stays so under late results; nothing in use is completed while the servers live |
| `in_process` | worker thread in the server, every kind of callback result | cancellation wins and takes effect; refinement of `RunLifecycle`; the run settles |
| `resume` | quota exhaustion and `run_resume` on one server, two executions, crashes | one execution at a time; the row names its process; the old execution does not fail the new one |
| `recovery` | recovery operations called directly in any order, a run whose risk is not LOW | nothing unverified is completed |
| `stores` | two clients on one store or two | refinement, event order, unversioned updates |
| `scheduler` | three tasks, two threads, three scheduler objects, all outcomes, two revivals | one runner, dependencies first, refinement of `SerialDag` (with it, that COMPLETE is final), runnable tasks settle |
| `plan` | two tasks under every acyclic dependency, two processes, two launches, one disturbance (death, cancel, second process, revived child, dirty worktree) | no child twice, one at a time, work on accepted and committed work, honest outcomes, refinement of `SerialDag`, the plan rests |
| `jobs` | two servers and two jobs on one key with one fault (close, crash or failed write), or a collaboration of two tasks | one worker per key, verdicts stand, jobs settle, sessions are tracked, reviews are earned or say that a worktree was not seen |
| `supervision` | five machines, one at a time (`focus`): two extensions and eight budgets around one second, the rounding and the usual minutes; repair limits 0 to 2; two `run_start` callers; three tasks and three criteria; every question of `Advice` | answers are true though they may be late, no worker is left, commits are earned, success is fresh, the row says what the loop answers, plans are exact, advice is cautious, retries start nothing, calls and loops end |
| `plan_cancel`, `wedge` | | found violated, see section 6 |

Bounds. One worker execution is enough where no operation starts a second; `resume` and `recovery` have
two, as the interesting case is the old execution against the new. Two callers give every
pair of concurrent operations, and each may be called again after it returned. `MaxVersion` only
stops a new resume, so every run ends by itself below it; the longest chain of writes of one execution is
shorter. In `stores` `MaxVersion` 3 allows two successive transitions, enough for a lost update and
for a reordered event, and the sets of clients and stores are symmetric. In `scheduler` two independent tasks and one that needs both is the least graph where
two tasks compete, unlocking needs more than one result, and priority matters; three schedulers are two crashes. In `plan` two tasks are the least
with a dependency, in either order of listing, and two launches the least for a resume or a second orchestrator; `MaxFaults` 1 lets every single disturbance fall
between any two steps (two at once exceed what five minutes explore). In `jobs` two jobs on one key and a pool of one thread let a job wait, be cancelled in the queue, and meet
a start on its own key; the second session reconciles the first. In `supervision` `MaxExtensions` 2 reaches "granted, granted, refused"; `MaxDrift` 1 is one
change between any two gates; `MaxLimit` 2 is a first and a second repair round; three task ids give every graph of at most three nodes, cycles and self-loops included.
The five machines share no state, so a behaviour moves one and the others rest.

Several runs say `CHECK_DEADLOCK FALSE`: a finished or suspended run nobody calls for is a legal end, and so are a
graph of tasks with nothing to do, a plan at rest, a call that has returned and a question that is answered.

The runs check one type invariant, `RunControl`'s: those of the other modules are proved (section 5), and so is `CompleteIsFinal`, which `ImplementsSerialDag` implies.

Every property has a mutant, an operator marked `Mutant` in the module, that changes one definition as a plausible bug
would (a dropped guard, a registry in place of a pid, a lock released early) and makes TLC find
the property violated.

Four more configurations, `MCRunControl_quota`, `_mark_live_run`, `_stale_observer` and `_stale`, are kept for use by hand: the first three
reproduce the disagreements of section 6, the fourth is one server with stale heartbeats (140,439 states, no error).

## 4. Fairness

`RunControl!LiveSpec`: threads of live processes run, a callback returns or raises because AGY has a hard
timeout, calls finish (weak fairness per actor). `Polling`: the supervisor polls
`run_observe`, as the documented status loop does; this is strong fairness of starting the call, and of
two outcomes that come up again and again: a heartbeat nobody renews is eventually old when looked at,
and an audit of the worktree does not raise for ever. No fairness is assumed of crashes, cancellations, resumes or recovery.

`Scheduler!LiveSpec`: a dead scheduler is replaced, the threads go on calling `step`, runners come
back. `RunnableSettles` excuses a task whose result was lost and everything while the
marker names such a task: that is what the code does, and `wedge` shows it.

`PlanExecutor!Fairness`: an orchestrator thread is scheduled (weak fairness of contending for the lock and of its steps), and a child comes to rest,
which is what `RunSettles` shows of a polled run; `_supervise_child` is the poller. Nothing makes anybody call `plan_resume`. `PlanSettles` excuses a plan whose process died, and what section 6 says of cancels and of two orchestrators.

`AgyJobs!JobsFairness`: threads of calls and of the pool, the watchdog and a `close` under way are scheduled, and `run_agy` has a deadline (`SupervisionEnds` says
how far that goes). Reconciliation by another server, pruning and closing are under no fairness.

`MCSupervision`: the thread that supervises a worker is scheduled, time passes (`DeadlinePasses`), and the thread of the repair loop is scheduled.
The worker owes nothing: `RunnerEnds` holds for one that never prints or exits, except at the two waits without a deadline named in section 6.

## 5. Proofs

TLAPS checks, for every value of the constants allowed by the modules' assumptions:

- `RunLifecycleProofs`: the type, `CompleteGuarded` (a COMPLETE record does not report failure),
  `TerminalForGood`, `CompletedAfterVerifying`.
- `RunStoreProofs`: `TypeCorrect` and `StoreImplementsLifecycle`. The strengthening is `Pending`: the record
  a client is about to write is at most one version ahead of what it selected, and if the row still has the
  selected version, it is a legal successor of the row. Without it the UPDATE, which writes a whole
  record, is not a transition. `EventsOrdered` (`EventsInOrder`) and `UpdatesSurvive` (`UpdatesSurviveInOneStore`) are about clients
  of one store, any number of them. Their invariant `Serial` says what the lock is for: whoever is inside `transition_run` holds it, so what
  that client selected is still the row (`Fresh`), and no event is ahead of the row (`Followed`).
- `RunControlProofs`: `TypeCorrect`, `CompleteBacked` (`CompleteIsVerified`) and `ControlImplementsLifecycle`. The
  inductive invariant is `IInv == TypeOK /\ (every actor Fits its label) /\ CompleteIsVerified`. `Fits`
  says what an actor at a label that completes a run has in its hands: a good payload, or a record that already carries
  one. It is needed because the COMPLETE guard would let a rejected acceptance pass.
- `RunSafetyProofs`: the other safety properties of `RunControl`, for any number of servers, workers, callers, calls and crashes. One lemma (`Shape`) says once for
  all actions who moves, along which edge of the control flow (`Follows`), and what becomes of the row; a second (`Digest`) what the
  few steps do that are not of this form (a registration, a spawn, a death). Every proof after that looks at a dozen kinds of step.
  - Without a hypothesis: `CancelledDrops` (`CancelledNeverApplies`; an execution at a place where it applies a result passed the cancel check after
    its callback) and `InterruptedStands` (`InterruptedIsKept`; a record read before the interruption has an older version, one read after it says so: `Memory`).
  - `OneResumer`, the constants of `resume` (one server resumes, and the recovery operations are not called past its lock): `ExecutionsExclude` (`OneExecution`) and `ExceptionsStayHome`
    (`ExceptionFailsOwnRun`). `Exclusive` says that a resume that found the run suspended and the registry empty is alone until it has
    spawned: the lock keeps other resumes away, and the suspension everybody else. `PidNamesExecutor` (`RunningPidIsExecutor`) needs also that callers wait for `run_start`
    (`~ EarlyCalls`): an early resume could overtake the late pid update of the launcher.
  - `NoResumption` (callers cancel, observe, check readiness, report inconsistent evidence): `ExternalObservers` and `InProcessObservers` (`ObserversAreRight`) and
    `CompletionIsQuiet` (`QuietWhileServersLive`). An observer may judge only when the one execution (`Lone`) is over. For an external run that follows from a fresh
    heartbeat (`Hosted`, `Orphan`), for one in the server from the registry of that server (`Owned`, `OwnOrphan`), and with stale heartbeats from the owner still being alive
    (`Judged`, `Guarded`: the observer read the row after the host's claim, or the execution has not begun to change the worktree).
  - The hypotheses are those of the runs, and not there for the prover's sake: without them section 6 says how each property fails.
- `PlanExecutorProofs`: of `RunAdmission`, `AdmissionTypeCorrect` and `RetriesStartNothing` (`RetryStartsNothing`); the strengthening relates a call's history
  to the table: the runs it remembers are still there under its key, so a call that remembers one never gets past the key look-up.
  Of `PlanExecutor`, all its invariants: `PlanTypeCorrect` (`TypeOK`), `WorkersAreNotReplayed` (`NoReplay`), `OneChildWorks` (`SingleActiveChild`), `WorkKeepsItsOrder` (`OrderIsKept`) and
  `OutcomesAreEarned` (`OutcomeIsEarned`), for any plan, any number of processes, orchestrators and cancels, and any number of disturbances, of which TLC explores one at a time.
  Nothing keeps the copies of the record together: a stale one may be saved over a newer one, and an acceptance be undone. What saves the plan is that `_next_task` is a function
  of the accepted tasks alone. So the sets of accepted tasks form a `Chain`, each one task ahead of the last (`ChainOrdered`, by `ChainInduction`), every copy tells a set of that chain (`Sound`), and
  a task gets a child only when its turn in the chain has come (`Rooted`). Two tasks on their way are then the same task (`OneOnItsWay`), and when a task's turn comes without a child, only accepted tasks have one (`NothingAhead`), so that
  nobody moves the head it is given. `Fits` says what a thread knows at its place: the one between commit and save knows that its child was accepted and its work is no longer dirty.
  That the loop of `_next_task` picks the first task of the plan that waits for nothing (`NextTaskScans`) is an induction over the plan, done with an induction principle for sets
  (`SetInduction`, here and for the walk of `TaskShaping`, from the well-foundedness of strict inclusion) as the library's has an operator parameter. That two tasks have different children, which `PlanAssumption` says, is the f-string of `plan_executor.py:513`.
  `PlanImplementsDag` (`ImplementsSerialDag`): what `SerialDag` sees of a task is the row of its one child (`InvSeesByTask`), a step moves one row at most (`StepMovesOne`), and a move of one row between two states in which
  at most one task is `AtWork`, with all it needs accepted, is a step of `SerialDag` (`OneTaskMoves`).
- `SchedulerProofs`: `TypeCorrect`, `RunnersExclude` (`OneRunner`), `OrderKept` (`DependenciesFirst`),
  `CompleteForGood` (`CompleteIsFinal`). The strengthening is `Marked`: while a thread has a runner at work, the
  marker names its task and the table has it RUNNING. All writes are then `Orderly`: nothing leaves COMPLETE, and a task starts to
  count only when its dependencies are COMPLETE. `SchedulerImplementsDag` (`ImplementsSerialDag`) follows step by step (`StepImplementsDag`): by `Marked` the thread that comes back
  from its runner is the one at work, and what reconciling, recovering, resolving and retrying write is never COMPLETE.
- `CollaborationProofs`, of `AgyJobs`: `JobsTypeCorrect` and `KeysExclude` (`OneWorkerPerKey`), for any number of servers, jobs, pool threads, closes, crashes and
  failed writes. A key is guarded by one row only, so the row has to hold it for as long as its job has or can still get a worker: `Claims` says
  which jobs those are, `Held` that their rows block the key, `Exclusive` that no two of them share one. `Placed` says what that needs
  of threads, records and sessions: a registry past `shutdown(wait=True)` has no thread left, and a worker that outlived its server belongs to a job whose row nobody of that server touches any more.
  `VerdictsHold` (`VerdictsStand`): the memory of the owner and the journal are written one after the other, by threads that may lose to `close`. `ToldOf` ties the two and the thread of a
  job together: the record is completed when the thread has passed its lock, the row is ended after the record and with the same answer, and while the registry is up nobody but the thread completes a
  record (a cancelled future exists only under a close). Every step then either leaves the answer of a job alone (`Aside`) or is the one that gives it.
  All this holds for callers with a task key and without one (`AnyJobsNext`), so that it carries over to `Collaboration` (`JobsHoldInCollaboration`).
  Of `Collaboration`, for any team, paths and edits: `CollaborationTypeCorrect`, `SessionsHold` (`SessionsAreSound`) and `ReviewsAreEarned` (`ReviewIsEarned`). `Prepared` says what exists before the session
  is registered, `Tracked` that every job belongs to a task except the one that is being started or was refused, `Viewed` that what a `status()` under way has gathered stays true: a job that
  answers completed has a thread that is through with its work (`CompletedIsThrough`, from `ToldOf`), so nobody edits its worktree after the look. `Rested` is the same of the report.
  What the theorem says of a report without progress it says only when every worktree was seen (`Accounts`); a look that fails speaks for no worktree.
  `TeamAssumption` is what `start` and `_validate_task_contract` check (tasks, distinct ids) and that paths nest like prefixes; without the latter two disjoint scopes could share a path.
- `SupervisionProofs`, of `AgyRunner`: `RunnerTypeCorrect`, `AnswersAreTrue` (`AnswerIsTrue`), `WorkersExclude` (`OneWorkerAtATime`), for any number of
  extensions and any budgets, and `PrintTimeoutBelowBudget`, arithmetic over all budgets above one second. The strengthening `Route` says at each place of the call which
  launch it watches, and what is known of its worker; it says nothing of the clock, as an answer may come after the deadline. What `AnswersAreTrue` says of success is that
  the launch ended with code 0 and printed something (or was a visible one), or that it was the one on a terminal, printed, and was hung up.
  Of `RepairLoop`: `LoopTypeCorrect`, `RoundsBounded` (`RepairsAreBounded`), `CommitsEarned` (`CommitIsEarned`), `SuccessIsFresh` (`SuccessFollowsLastRepair`), `AnswersRecorded` (`ReturnedIsRecorded`), for every contract, fault set and
  bound. The invariant is the type with `Rounds` (the calls of the repair callback against the round counter), `Earned` (what passed evidence and an opened gate mean at each
  place) and `Undisturbed` (while nobody else moved the row, it is where the place of the loop says, so that the writes that swallow a failure do not fail).
  Of `Advice`: `AdviceCautious` (`AdviceIsCautious`), by cases on the rules: a retry is advised only when the worker is said to be gone and the worktree is taken for unchanged, which
  is the caller's NO, even over a look that found changes, or a connection that failed with no changes seen, even when nobody looked (section 6).
  Of `TaskShaping`: `ExactlyExecutable` (`ShapingIsExact`), for any number of objectives and any dependencies among them. A walk that finds no cycle sorts the ids: `WalkInv` keeps, besides the stack, a sequence of the visited
  ids in which each comes after those it depends on (`Sorted`), and counts what was entered and left (`Advanced`), so that the walk has ended when it is over (`ExhaustedIsEnded`) and the sequence is an order of the tasks (`AcyclicIsSerializable`).
  The other way, an order gives the ids ranks, and the ranks fall along the stack (`Descending`), so that no call meets an id that is being visited (`SerializableIsAcyclic`). `Kept` says what each stage means
  for the plan and its digest. `ShapingAssumption` is that the ids given to the objectives differ; that a caller gives all tasks one id is a parent of its own (`alike`).

Only model-checked: all liveness, which is out of the prover's reach (`RunSettles`, `ExecutionsSettle`, `RunnableSettles`, `PlanSettles`,
`AcceptedJobsSettle`, `SupervisionEnds`). Every other property of a passing run is stated by a theorem.

## 6. Where code and documents disagree

Checked, each by a run that TLC must find violated:

- `wedge`: a runner's exception whose text the credential filter rejects makes the `except Exception` handler of
  `scheduler.py:986` raise itself. The marker stays set, every later `step` returns the RUNNING
  record, and `run_all` loops while READY tasks wait.
- `plan_cancel`: a plan that `plan_cancel` reported CANCELLED is overwritten by the orchestrator's next save and runs on.

By hand, with the configurations kept for them:

- `MCRunControl_quota`: the repository's `README.md:104` promises that quota exhaustion preserves progress; a failed result is harvested first, and a rejected candidate fails the run.
- `MCRunControl_mark_live_run`: `mark_interrupted_if_orphaned` computes the report's HEALTHY status (`recovery.py:721`), does not look at it (`recovery.py:764`), and interrupts a run that is executing.
- `MCRunControl_stale_observer`: an observer overtaken by `run_resume` asks about the old pid (`run_control.py:1383`), then completes the run on a fresh read (`run_control.py:1428`) while the resumed execution works. The same
  happens to an observer that read the row before the host's claim, when the launcher's server has died and a heartbeat looks stale: this is why `QuietWhileServersLive` has its condition.

Seen while modelling, reachable with other constants, without a run of their own:

- Runs. `resume_same_run` called directly on an interrupted run whose worker still lives spawns a second execution (`recovery.py:931`).
  `run_observe` before the worker's thread is registered, or on another server's in-process run, finds no thread (`run_control.py:1549`).
  Two servers may resume one suspended run, as the resume lock is per process (`server.py:710`). The launcher stores the host's pid when the host may already be RUNNING (`run_control.py:1032`).
  Between two stores a transition takes back an attempt counted in between (`run_control.py:694`). Overlapping `run_start` calls create two runs of one
  idempotency key or one task (`OneRunPerKey`, stated in `RunAdmission` and not checked; `tests/test_run_control.py:379` and `docs/audit/phase-3-durable-runs.md:21` say otherwise of calls in sequence).
- Scheduler. `add_tasks` has inserted its tasks when `validate_dag` raises for a cycle or a missing dependency (`scheduler.py:833`): they stay BLOCKED. `retry_task` is documented for cancelled tasks and refuses them (`scheduler.py:1124`).
- Plans. The exception handler may make a CANCELLED plan INTERRUPTED, and a resume then leaves it RUNNING with nobody at it. Two orchestrators
  can undo each other's saves for ever. A `plan_resume` while the old thread is about to release the lock is lost. The BLOCKED marking of `_next_task` is reached in no run of a serial plan, as the plan stops first.
- Jobs. `status` and `_prune_locked` complete a cancelled record without journalling it. When the journal write of a completion fails, the row stays active and its key locked. A key whose job was
  interrupted for good answers RECOVERY_REQUIRED for ever. A start that loses against `close` may leave an active row (`NoOrphanActiveJob`, stated and not
  checked; `mcp-antigravity-bridge/tests/test_async_jobs.py:1172`). The watchdog refreshes the heartbeat it is judged by, so the liveness probe is always true.
- Collaboration. A failing worktree command leaves the worktrees made before it and no session that names them. A session may be reported failed while others of its workers go on.
  When a worktree is missing or a Git call of the look fails (`agy_collaboration.py:145`), `status` counts the completed task as one without changes (`agy_collaboration.py:404`) and reports the session
  no_progress although its worktree may hold in-scope work; only the scope status, unknown, tells.
- Runner. On POSIX a worker killed by a hangup (-1) after printing counts as success. `communicate` after a kill, and `wait` after a closed terminal, have no deadline: a worker that closes
  its terminal and works on past the deadline is answered as a result when it ends (`agy_runner.py:902`). A worker killed on a Windows terminal that broke is answered as a failed launch, not as a timeout. A timeout ends as FAILED in `worker_binding.py`. A budget of a second or less
  gets a print timeout that is not below it.
- Repair. The loop may answer COMPLETE for a run somebody has cancelled. QUEUED is listed among the states it starts from, and the graph refuses every move it makes there. The scope gate
  passes when Git itself fails (`verification.py:533`). The policy ALWAYS behaves as VERIFIED_ONLY.
- Advice. `run_status` passes no look at the worktree, so a FAILED run with a connection error is advised to be retried unseen. Evidence given as "NO" overrides a diff that shows progress (`AdviceIsCautious` allows both).
- Shaping. `dependency_order_required` is not enforced. Ownership compares paths for equality only. Without explicit criteria, a plan of fewer objectives than parent criteria is rejected.

## 7. Not modelled

- Telemetry and its hooks: they observe, swallow every error, and never feed back into a run. Usage reports, `doctor`, setup: read-only rendering and diagnosis, and a one-shot installer.
  The shadow harness drives the other components with synthetic workers and adds no protocol. Skills, scripts and examples are texts and demonstrations.
- Within modelled components: contract field validation, path normalisation and the credential filter's patterns; the rules of the scope gate and of the provenance attestation
  one by one; Git and log evidence of `recovery.py`; `run_wait`, `wait` and `recent`, which poll; proxy discovery and output cleaning of the runner; the `dag_runs` journal, `recover` called on a live scheduler (the source calls it in the constructor only, `scheduler.py:745`) and a second scheduler
  alive on one file; a `status` of a collaboration that raises; `dry_run` and the prompts of a collaboration; argument validation and JSON of the MCP tools.
- Outside the bounds of the properties that are nearest to them: an observer on another server's in-process run or before the worker's thread is registered (`ObserversAreRight` is checked with one server and
  callers that wait for `run_start`); two servers that resume one run (`OneExecution`, `ExceptionFailsOwnRun` have one that resumes); overlapping `run_start` calls (`RetryStartsNothing`); a start that loses against `close`
  (`OneWorkerPerKey` leaves it out). In each of them the code does not keep the promise, as section 6 says. A caller's edit of a frozen plan changes dependencies or drops the digest; one with a recomputed digest is another plan.
- What remains worth doing: the plan under two disturbances at once in TLC, for which the instance would have
  to be cut differently (the theorems cover any number of them).
