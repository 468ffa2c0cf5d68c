---------------------------- MODULE PlanExecutor ----------------------------
(***************************************************************************)
(* plan_executor.PlanExecutor: a frozen TaskPlan executed one child run at  *)
(* a time.  The whole PlanExecutionRecord is one row, which every save      *)
(* overwrites unconditionally (state_version counts saves and is never      *)
(* compared, so it is left out); the orchestrator thread works on a copy it *)
(* read at the head of its loop, and plan_cancel on a copy of its own.  The *)
(* lock that keeps two orchestrators of one execution apart is process      *)
(* memory: another server that is asked to resume starts a second one.      *)
(*                                                                          *)
(* A child is admitted through RunAdmission's run_start and is then an      *)
(* active run that comes to rest some time (what RunControl's RunSettles    *)
(* shows of it).  A commit of the integration worktree is the set of tasks  *)
(* whose work it holds.                                                     *)
(***************************************************************************)
EXTENDS RunAdmission, Sequences

CONSTANTS
  Processes,    \* the server processes that may run an orchestrator
  Order,        \* plan.tasks: the sequence of task ids
  ChildId(_,_), \* the run id of a task's child, by task and attempt
  Foreign,      \* an uncommitted change no task of the plan made
  MaxLaunches,  \* bound: orchestrator threads started, over all processes
  First,        \* the one that plan_start is called on first (any will do)
  MaxFaults     \* bound: deaths, cancels, runs taken up again, a second
                \* process at work, a worktree that is dirty to begin with

ASSUME PlanAssumption ==
  /\ First \in Processes /\ Processes \subseteq Starters
  /\ Order \in Seq(Tasks) /\ Tasks = {Order[i] : i \in 1 .. Len(Order)}
  /\ \A t \in Tasks : ChildId(t, 0) \in RunIds
  /\ \A t, u \in Tasks : ChildId(t, 0) = ChildId(u, 0) => t = u
  /\ None \notin Processes /\ Foreign \notin Tasks
  /\ {MaxLaunches, MaxFaults} \subseteq Nat

VARIABLES
  deps,     \* plan.tasks[..].dependencies: part of the frozen snapshot
  row,      \* the plan_executions row, None before plan_start
  tree,     \* the integration worktree: its HEAD and its uncommitted changes
  orch,     \* the orchestrator thread that holds the lock of each process
  waiting,  \* orchestrator threads of a process that have not tried the lock
  cancel,   \* the plan_cancel call in each process
  born,     \* history: the base and the worktree a child was started on
  tally,    \* launches, cancels and other disturbances so far (the bounds)
  killed    \* history: a process died since the last launch

planVars == <<deps, row, tree, orch, waiting, cancel, born, tally, killed>>
vars == <<admissionVars, planVars>>

TerminalPlanStates == {"COMPLETE", "BLOCKED", "FAILED", "CANCELLED"}
PlanStates == TerminalPlanStates \cup {"CREATED", "RUNNING", "FINAL_VERIFYING", "INTERRUPTED"}
DeadTaskStates == {"FAILED", "BLOCKED", "CANCELLED"}
TaskStates == DeadTaskStates \cup {"PENDING", "READY", "RUNNING", "ACCEPTED"}

Heads == SUBSET Tasks
TaskEntries == [state : TaskStates, base : Heads \cup {None}, child : RunIds \cup {None},
                childState : AdmittedStates \cup {None}, attempt : Nat]
Records == [state : PlanStates, head : Heads, active : Tasks \cup {None},
            tasks : [Tasks -> TaskEntries], verified : BOOLEAN]

Labels == {"idle", "announce", "loop", "choose", "lookup", "starting",
           "supervise", "judge", "checkpoint", "commit", "reread", "accept",
           "verify", "raise", "report", "release"}
Threads == [pc : Labels, rec : Records \cup {None}, task : Tasks \cup {None},
            child : Runs \cup {None}, sha : Heads \cup {None}, timeout : BOOLEAN]
Idle == [pc |-> "idle", rec |-> None, task |-> None, child |-> None, sha |-> None,
         timeout |-> FALSE]
NoCancel == [pc |-> "idle", rec |-> None]

\* PlanExecutor.start's record, with the plan's tasks all PENDING.
NewRecord ==
  [state |-> "CREATED", head |-> {}, active |-> None, verified |-> FALSE,
   tasks |-> [t \in Tasks |-> [state |-> "PENDING", base |-> None, child |-> None,
                               childState |-> None, attempt |-> 0]]]

\* What validate_task_plan guarantees of the dependencies: known tasks, no cycle.
\* A dependency may be listed after the task that needs it.
Acyclic(d) == \E rank \in [Tasks -> 1 .. Len(Order)] :
                 \A t \in Tasks : \A u \in d[t] : rank[u] < rank[t]

Init ==
  /\ AdmissionInit
  /\ deps \in {d \in [Tasks -> SUBSET Tasks] : Acyclic(d)}
  /\ row = None
  /\ tree \in [head : {{}}, dirty : {{}, {Foreign}}]
  /\ orch = [p \in Processes |-> Idle]
  /\ waiting = [p \in Processes |-> 0]
  /\ cancel = [p \in Processes |-> NoCancel]
  /\ born = [t \in Tasks |-> None]
  /\ tally = [launches |-> 0, cancels |-> 0,
              others |-> IF tree.dirty = {} THEN 0 ELSE 1]
  /\ killed = FALSE

Disturbed == tally.cancels + tally.others
Disturb(how) == Disturbed < MaxFaults /\ tally' = [tally EXCEPT ![how] = @ + 1]

-----------------------------------------------------------------------------
(* plan_start, plan_resume and the lock.                                     *)

\* _launch: a new thread.  Each tool call makes an executor of its own, so that
\* only the lock keeps the thread from running beside another; a second process
\* at work on the plan counts among the disturbances.
Launch(p) ==
  /\ tally.launches < MaxLaunches
  /\ LET elsewhere == \E q \in Processes \ {p} : orch[q] # Idle \/ waiting[q] > 0 IN
       /\ elsewhere => Disturbed < MaxFaults
       /\ tally' = [tally EXCEPT !.launches = @ + 1,
                                 !.others = IF elsewhere THEN @ + 1 ELSE @]
  /\ killed' = FALSE
  /\ waiting' = [waiting EXCEPT ![p] = @ + 1]

\* plan_start: the record is stored, or found by its idempotency key, and
\* launched in either case.
Start(p) ==
  /\ Launch(p)
  /\ row = None => p = First
  /\ row' = IF row = None THEN NewRecord ELSE row
  /\ UNCHANGED <<admissionVars, deps, tree, orch, cancel, born>>

\* plan_resume.
Resume(p) ==
  /\ row # None /\ row.state \notin TerminalPlanStates
  /\ Launch(p)
  /\ UNCHANGED <<admissionVars, deps, row, tree, orch, cancel, born>>

\* A thread that finds the lock taken gives up; one that gets it reads the record
\* and finds nothing to do for an execution that is over.
Contend(p) ==
  /\ waiting[p] > 0
  /\ waiting' = [waiting EXCEPT ![p] = @ - 1]
  /\ orch' = IF orch[p].pc # "idle" THEN orch
             ELSE [orch EXCEPT ![p] =
                     IF row.state \in TerminalPlanStates THEN [Idle EXCEPT !.pc = "release"]
                     ELSE [Idle EXCEPT !.pc = "announce", !.rec = row]]
  /\ UNCHANGED <<admissionVars, deps, row, tree, cancel, born, tally, killed>>

-----------------------------------------------------------------------------
(* _orchestrate.                                                             *)

Here(p, label) == orch[p].pc = label

\* The thread of p goes on at the label with what it knows; at the head of its
\* loop, and where it leaves, it knows nothing.
Goto(p, label, known) ==
  orch' = [orch EXCEPT ![p] =
             IF label \in {"idle", "loop", "release", "raise"}
             THEN [Idle EXCEPT !.pc = label, !.timeout = known.timeout]
             ELSE [known EXCEPT !.pc = label]]

\* What the steps of the thread leave alone.
Aside == <<deps, waiting, cancel, tally, killed>>

\* store.save(record), and the thread goes on with that record.
SaveAs(p, record, label) ==
  /\ row' = record
  /\ Goto(p, label, [orch[p] EXCEPT !.rec = record])
  /\ UNCHANGED <<admissionVars, tree, born, Aside>>

Stay == <<admissionVars, row, tree, born, Aside>>

Announce(p) ==
  Here(p, "announce") /\ SaveAs(p, [orch[p].rec EXCEPT !.state = "RUNNING"], "loop")

Loop(p) ==
  /\ Here(p, "loop")
  /\ IF row.state \in TerminalPlanStates THEN Goto(p, "release", Idle)
     ELSE Goto(p, "choose", [Idle EXCEPT !.rec = row])
  /\ UNCHANGED Stay

\* Mutant: a task whose dependencies are still on their way is returned too.
ScanEager(scan, t) ==
  IF scan.over \/ scan.rec.tasks[t].state = "ACCEPTED" THEN scan
  ELSE [scan EXCEPT !.over = TRUE, !.task = t]

\* One task of the scan of _next_task.
Scan(scan, t) ==
  LET state == scan.rec.tasks[t].state
      needs == {scan.rec.tasks[d].state : d \in deps[t]}
  IN  IF scan.over \/ state = "ACCEPTED" THEN scan
      ELSE IF state \in DeadTaskStates THEN [scan EXCEPT !.over = TRUE]
      ELSE IF needs \subseteq {"ACCEPTED"} THEN [scan EXCEPT !.over = TRUE, !.task = t]
      ELSE IF needs \cap DeadTaskStates # {}
           THEN [scan EXCEPT !.rec.tasks[t].state = "BLOCKED"]
      ELSE scan

\* The loop over the plan's tasks: what is known after each of them.
NextTask(record) ==
  LET scan[n \in 0 .. Len(Order)] ==
        IF n = 0 THEN [rec |-> record, task |-> None, over |-> FALSE]
        ELSE Scan(scan[n - 1], Order[n])
  IN scan[Len(Order)]

\* Mutant: nothing failed.
NoneFailed(record) == \A t \in Tasks : record.tasks[t].state # "FAILED"

AllAccepted(record) == \A t \in Tasks : record.tasks[t].state = "ACCEPTED"

\* Mutant: a task that is entered again gets a fresh child.
FreshChild(record, t) == ChildId(t, IF record.tasks[t].child = None THEN 0 ELSE 1)

Child(record, t) == ChildId(t, record.tasks[t].attempt)

\* _run_task's first save: the task, the base it gets and the child it will be.
Entered(record, t) ==
  [record EXCEPT !.tasks[t].state = "RUNNING", !.tasks[t].base = record.head,
                 !.tasks[t].child = Child(record, t), !.active = t]

\* A task is found; or the plan goes to its final verification; or nothing is
\* left for this thread (a task that the scan has blocked is saved with it).
ChooseTask(p) ==
  LET scan == NextTask(orch[p].rec) IN
  /\ Here(p, "choose") /\ scan.task # None
  /\ row' = Entered(scan.rec, scan.task)
  /\ Goto(p, "lookup", [orch[p] EXCEPT !.rec = row', !.task = scan.task])
  /\ UNCHANGED <<admissionVars, tree, born, Aside>>

ChooseNone(p) ==
  LET scan == NextTask(orch[p].rec) IN
  /\ Here(p, "choose") /\ scan.task = None
  /\ IF AllAccepted(scan.rec)
     THEN SaveAs(p, [scan.rec EXCEPT !.state = "FINAL_VERIFYING"], "verify")
     ELSE IF scan.rec # orch[p].rec THEN SaveAs(p, scan.rec, "release")
     ELSE Goto(p, "release", Idle) /\ UNCHANGED Stay

-----------------------------------------------------------------------------
(* _run_task.                                                                *)

\* Everything of _run_task is about this child.
Mine(p) == orch[p].rec.tasks[orch[p].task].child

\* manager.run_status(child_id): a run that exists is supervised, not replayed.
LookUp(p) ==
  /\ Here(p, "lookup")
  /\ IF runs[Mine(p)] # None
     THEN Goto(p, "supervise", orch[p]) /\ UNCHANGED <<admissionVars, born>>
     ELSE /\ RunStart(p, orch[p].task, None, Mine(p))
          /\ born' = [born EXCEPT ![orch[p].task] =
                        [base |-> orch[p].rec.tasks[orch[p].task].base, tree |-> tree]]
          /\ Goto(p, "starting", orch[p])
  /\ UNCHANGED <<row, tree, Aside>>

\* run_start returned, or raised DuplicateRunError or IntegrityError.
Started(p) ==
  /\ Here(p, "starting")
  /\ Return(p)
  /\ Goto(p, IF call[p].stage = "answered" THEN "supervise" ELSE "raise", orch[p])
  /\ UNCHANGED <<row, tree, born, Aside>>

\* The record of the journal with what was observed of the child.
Observed(p, child) ==
  [orch[p].rec EXCEPT !.tasks[orch[p].task].childState = child.state]

\* Mutant: only a terminal child is looked at.
SuperviseToTheEnd(p) ==
  LET child == runs[Mine(p)] IN
  /\ Here(p, "supervise") /\ child.state \in OverStates
  /\ row' = Observed(p, child)
  /\ Goto(p, "judge", [orch[p] EXCEPT !.child = child, !.rec = row'])
  /\ UNCHANGED <<admissionVars, tree, born, Aside>>

\* _supervise_child: run_observe until the child is over or without a worker;
\* what it is then is saved.
Supervise(p) ==
  LET child == runs[Mine(p)] IN
  /\ Here(p, "supervise") /\ child.state # "active"
  /\ row' = Observed(p, child)
  /\ Goto(p, "judge", [orch[p] EXCEPT !.child = child, !.rec = row'])
  /\ UNCHANGED <<admissionVars, tree, born, Aside>>

\* Mutant: completion is taken for acceptance.
PassedIfComplete(child) == child.state = "COMPLETE"

\* Mutant: only FAILED and CANCELLED are failures.
PassedUnlessFailed(child) == child.state \notin {"FAILED", "CANCELLED"}

Passed(child) == child.state = "COMPLETE" /\ child.accepted

\* Mutant: the failed task is passed over.
JudgeGoesOn(p) ==
  /\ Here(p, "judge")
  /\ IF Passed(orch[p].child)
     THEN Goto(p, "checkpoint", orch[p]) /\ UNCHANGED Stay
     ELSE SaveAs(p, [orch[p].rec EXCEPT !.tasks[orch[p].task].state = "FAILED",
                                        !.active = None], "loop")

Judge(p) ==
  /\ Here(p, "judge")
  /\ IF Passed(orch[p].child)
     THEN Goto(p, "checkpoint", orch[p]) /\ UNCHANGED Stay
     ELSE SaveAs(p, [orch[p].rec EXCEPT !.tasks[orch[p].task].state = "FAILED",
                                        !.state = "BLOCKED", !.active = None], "loop")

\* git rev-parse HEAD and git status --porcelain.
Checkpoint(p) ==
  /\ Here(p, "checkpoint")
  /\ Goto(p, IF tree.dirty = {} THEN "accept" ELSE "commit",
          [orch[p] EXCEPT !.sha = tree.head])
  /\ UNCHANGED Stay

\* git add of the task's paths and git commit, which fails without a change in
\* them.
Commit(p) ==
  /\ Here(p, "commit")
  /\ IF orch[p].task \in tree.dirty
     THEN /\ tree' = [head |-> tree.head \cup {orch[p].task},
                      dirty |-> tree.dirty \ {orch[p].task}]
          /\ Goto(p, "reread", orch[p])
     ELSE Goto(p, "raise", orch[p]) /\ UNCHANGED tree
  /\ UNCHANGED <<admissionVars, row, born, Aside>>

Reread(p) ==
  /\ Here(p, "reread")
  /\ Goto(p, "accept", [orch[p] EXCEPT !.sha = tree.head])
  /\ UNCHANGED Stay

Accept(p) ==
  /\ Here(p, "accept")
  /\ SaveAs(p, [orch[p].rec EXCEPT !.tasks[orch[p].task].state = "ACCEPTED",
                                   !.head = orch[p].sha, !.active = None], "loop")

\* A git command of the checkpoint times out (a read after its one retry): the
\* commit may have happened or not.
GitTimesOut(p) ==
  /\ orch[p].pc \in {"checkpoint", "commit", "reread"}
  /\ \/ UNCHANGED tree
     \/ /\ Here(p, "commit") /\ orch[p].task \in tree.dirty
        /\ tree' = [head |-> tree.head \cup {orch[p].task},
                    dirty |-> tree.dirty \ {orch[p].task}]
  /\ Goto(p, "raise", [orch[p] EXCEPT !.timeout = TRUE])
  /\ UNCHANGED <<admissionVars, row, born, Aside>>

-----------------------------------------------------------------------------
(* _final_verify, the exception handler and the way out.                     *)

\* The commands of plan.final_verification pass, or one fails.
FinalVerify(p) ==
  /\ Here(p, "verify")
  /\ \/ SaveAs(p, [orch[p].rec EXCEPT !.state = "COMPLETE", !.verified = TRUE], "release")
     \/ SaveAs(p, [orch[p].rec EXCEPT !.state = "BLOCKED"], "release")

\* One of them runs longer than 120 seconds.
VerifyTimesOut(p) ==
  Here(p, "verify") /\ Goto(p, "raise", [orch[p] EXCEPT !.timeout = TRUE]) /\ UNCHANGED Stay

\* except: a fresh copy of the record.
Raise(p) ==
  /\ Here(p, "raise")
  /\ Goto(p, "report", [Idle EXCEPT !.rec = row, !.timeout = orch[p].timeout])
  /\ UNCHANGED Stay

\* A timeout after the child completed can be resumed.
CheckpointTimeout(p) ==
  LET record == orch[p].rec IN
  /\ orch[p].timeout /\ record.active # None
  /\ record.tasks[record.active].childState = "COMPLETE"

Report(p) ==
  /\ Here(p, "report")
  /\ SaveAs(p, [orch[p].rec EXCEPT !.state = IF CheckpointTimeout(p)
                                             THEN "INTERRUPTED" ELSE "FAILED"], "release")

\* finally: the lock is free.
Release(p) == Here(p, "release") /\ Goto(p, "idle", Idle) /\ UNCHANGED Stay

-----------------------------------------------------------------------------
(* plan_cancel.                                                              *)

CancelReads(p) ==
  /\ row # None /\ cancel[p] = NoCancel /\ Disturb("cancels")
  /\ cancel' = [cancel EXCEPT ![p] = [pc |-> "child", rec |-> row]]
  /\ UNCHANGED <<admissionVars, deps, row, tree, orch, waiting, born, killed>>

\* run_cancel of the active child: it raises for a run that does not exist yet;
\* a committing child goes on.
CancelChild(p) ==
  LET record == cancel[p].rec
      child == Child(record, record.active)
  IN
  /\ cancel[p].pc = "child"
  /\ IF record.active = None
     THEN cancel' = [cancel EXCEPT ![p].pc = "save"] /\ UNCHANGED runs
     ELSE IF runs[child] = None
     THEN cancel' = [cancel EXCEPT ![p] = NoCancel] /\ UNCHANGED runs
     ELSE /\ cancel' = [cancel EXCEPT ![p].pc = "save"]
          /\ \/ UNCHANGED runs
             \/ /\ runs[child].state \notin OverStates
                /\ runs' = [runs EXCEPT ![child].state = "CANCELLED"]
  /\ UNCHANGED <<call, deps, row, tree, orch, waiting, born, tally, killed>>

CancelSaves(p) ==
  LET record == cancel[p].rec IN
  /\ cancel[p].pc = "save"
  /\ cancel' = [cancel EXCEPT ![p] = NoCancel]
  /\ row' = IF record.state \in TerminalPlanStates THEN row
            ELSE [record EXCEPT !.state = "CANCELLED",
                    !.tasks = [t \in Tasks |->
                       IF @[t].state \in {"PENDING", "READY"}
                       THEN [@[t] EXCEPT !.state = "CANCELLED"] ELSE @[t]]]
  /\ UNCHANGED <<admissionVars, deps, tree, orch, waiting, born, tally, killed>>

-----------------------------------------------------------------------------
(* The child runs, and process death.                                        *)

Children == {i \in Present : \E t \in Tasks, n \in {0, 1} : i = ChildId(t, n)}

\* A child's worker changes a file of its task.
Edit(i) ==
  /\ i \in Children /\ runs[i].state = "active"
  /\ runs[i].task \notin tree.dirty \cup tree.head
  /\ tree' = [tree EXCEPT !.dirty = @ \cup {runs[i].task}]
  /\ UNCHANGED <<admissionVars, deps, row, orch, waiting, cancel, born, tally, killed>>

\* A run is over, or rests without a worker.
Finish(i) ==
  /\ i \in Present /\ runs[i].state = "active"
  /\ \E s \in {"COMPLETE", "FAILED", "STOPPED"}, ok \in BOOLEAN :
       /\ ok => s = "COMPLETE"
       /\ runs' = [runs EXCEPT ![i].state = s, ![i].accepted = ok]
  /\ UNCHANGED <<call, planVars>>

\* run_resume takes a child up again.
Revive(i) ==
  /\ i \in Present /\ runs[i].state = "STOPPED" /\ Disturb("others")
  /\ runs' = [runs EXCEPT ![i].state = "active"]
  /\ UNCHANGED <<call, deps, row, tree, orch, waiting, cancel, born, killed>>

\* A server dies and is started again; its children live on in their hosts.
Crash(p) ==
  /\ orch[p] # Idle \/ waiting[p] > 0 \/ cancel[p] # NoCancel
  /\ Disturb("others")
  /\ killed' = TRUE
  /\ orch' = [orch EXCEPT ![p] = Idle]
  /\ waiting' = [waiting EXCEPT ![p] = 0]
  /\ cancel' = [cancel EXCEPT ![p] = NoCancel]
  /\ call' = [call EXCEPT ![p] = NoCall]
  /\ UNCHANGED <<runs, deps, row, tree, born>>

\* The steps of the thread that holds the lock of process p.
Orchestrate(p) ==
  \/ Announce(p) \/ Loop(p) \/ ChooseTask(p) \/ ChooseNone(p)
  \/ LookUp(p) \/ (Admit(p) /\ UNCHANGED planVars) \/ Started(p) \/ Supervise(p)
  \/ Judge(p) \/ Checkpoint(p) \/ Commit(p) \/ Reread(p) \/ Accept(p)
  \/ GitTimesOut(p) \/ FinalVerify(p) \/ VerifyTimesOut(p) \/ Raise(p) \/ Report(p)
  \/ Release(p)

Next ==
  \/ \E p \in Processes :
       \/ Start(p) \/ Resume(p) \/ Contend(p) \/ Orchestrate(p) \/ Crash(p)
       \/ CancelReads(p) \/ CancelChild(p) \/ CancelSaves(p)
  \/ \E i \in RunIds : Edit(i) \/ Finish(i) \/ Revive(i)

\* Threads are scheduled; a run comes to rest (RunControl's RunSettles).
Fairness ==
  /\ \A p \in Processes : WF_vars(Contend(p)) /\ WF_vars(Orchestrate(p))
  /\ \A i \in RunIds : WF_vars(Finish(i))

Spec == Init /\ [][Next]_vars /\ Fairness
-----------------------------------------------------------------------------
(* Properties.                                                               *)

\* Every variable has its type.
TypeOK ==
  /\ AdmissionTypeOK
  /\ row \in Records \cup {None}
  /\ tree \in [head : Heads, dirty : SUBSET (Tasks \cup {Foreign})]
  /\ \A p \in Processes :
       /\ orch[p] \in Threads
       /\ waiting[p] \in Nat
       /\ cancel[p].pc \in {"idle", "child", "save"} /\ cancel[p].rec \in Records \cup {None}

\* A task's worker is never started a second time: not after a crash, a resume, a
\* lost save or by a second orchestrator (_run_task derives the child's run id).
NoReplay == \A t \in Tasks : Cardinality({i \in Children : runs[i].task = t}) <= 1

RunAccepted(t) ==
  \E i \in Children : runs[i].task = t /\ runs[i].state = "COMPLETE" /\ runs[i].accepted

\* A child starts on the head its dependencies left: their children completed and
\* were accepted, their work is committed, and its base is that head.
ChildBuildsOnDependencies ==
  \A t \in Tasks : born[t] # None =>
    /\ born[t].base = born[t].tree.head
    /\ \A d \in deps[t] : /\ RunAccepted(d)
                          /\ d \notin born[t].tree.dirty

\* "Single-active-child": at most one child of the plan works at a time.
SingleActiveChild == Cardinality({i \in Children : runs[i].state = "active"}) <= 1

\* A task the journal calls accepted is accepted by its run, and its work is
\* committed.
AcceptedIsCommitted ==
  row # None => \A t \in Tasks : row.tasks[t].state = "ACCEPTED" =>
    RunAccepted(t) /\ t \notin tree.dirty

\* A plan that is COMPLETE passed its final verification with every task accepted.
CompleteIsWhole ==
  row # None /\ row.state = "COMPLETE" =>
    row.verified /\ \A t \in Tasks : row.tasks[t].state = "ACCEPTED" /\ RunAccepted(t)

\* A failed task stops the plan, so that nothing is built on it (_run_task's two
\* failure exits; a cancelled task does not: see TerminalPlanIsFinal).
FailedTaskStopsPlan ==
  row # None /\ (\E t \in Tasks : row.tasks[t].state = "FAILED")
    => row.state \in TerminalPlanStates

\* Work is built on accepted work alone.
OrderIsKept == ChildBuildsOnDependencies /\ FailedTaskStopsPlan

\* What the journal promises about a task or the plan, the runs and the head keep.
OutcomeIsEarned == AcceptedIsCommitted /\ CompleteIsWhole

\* The children of a plan as the work on its graph.
Dag == INSTANCE SerialDag WITH
  needs <- deps,
  done <- {t \in Tasks : RunAccepted(t)},
  at <- {runs[i].task : i \in {child \in Children : runs[child].state = "active"}}

\* The children of a plan work through its graph one at a time, each after those it
\* depends on, and an accepted task is never worked on again, although each thread
\* goes by a copy of the record that may be stale.
ImplementsSerialDag == Dag!Spec

Orchestrated == \E p \in Processes : orch[p].pc \notin {"idle", "release"}

Resting == row # None /\ row.state \in TerminalPlanStates \cup {"INTERRUPTED"}

TwoAtWork == \E p, q \in Processes : p # q /\ orch[p] # Idle /\ orch[q] # Idle

\* A plan that one process orchestrates comes to rest, unless that process dies.
\* A cancel can leave the plan RUNNING with nobody at it, and two orchestrators
\* can undo each other's acceptance for ever: see TerminalPlanIsFinal.
PlanSettles ==
  Orchestrated ~> (Resting \/ killed \/ tally.cancels > 0 \/ TwoAtWork)

\* A terminal plan keeps its state (TERMINAL_PLAN_STATES, which plan_wait and
\* plan_result take for the end).
TerminalPlanIsFinal ==
  [][row # None /\ row.state \in TerminalPlanStates => row'.state = row.state]_row
=============================================================================
