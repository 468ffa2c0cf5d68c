-------------------------- MODULE SchedulerProofs --------------------------
(***************************************************************************)
(* Proofs about Scheduler for any graph of tasks, any number of threads,    *)
(* schedulers and outcomes: its types, OneRunner, DependenciesFirst,        *)
(* CompleteIsFinal, and that it implements SerialDag.                       *)
(*                                                                          *)
(* What ties them together is the marker _running_task_id: while a runner   *)
(* works, the marker names its task and the table has that task RUNNING.    *)
(***************************************************************************)
EXTENDS Scheduler, TLAPS

\* A thread that runs a task or brings its result back is the one the marker stands
\* for, in a process that is alive, and the table has its task RUNNING.
Marked ==
  \A th \in Threads :
    /\ InRunner(th) => /\ held[th] \in Tasks
                       /\ running = held[th]
                       /\ state[held[th]] = "RUNNING"
    /\ pc[th] # "idle" => alive # None

IInv == TypeOK /\ Marked /\ OneRunner /\ DependenciesFirst

-----------------------------------------------------------------------------
\* _reconcile_ready_states makes waiting tasks READY whose dependencies are COMPLETE,
\* and touches no other.
LEMMA ReconciledIs ==
  ASSUME NEW of \in [Tasks -> DAGTaskStates \cup {None}]
  PROVE  /\ Reconciled(of) \in [Tasks -> DAGTaskStates \cup {None}]
         /\ \A t \in Tasks :
              \/ Reconciled(of)[t] = of[t]
              \/ /\ of[t] = "BLOCKED_BY_DEPENDENCY"
                 /\ Reconciled(of)[t] = "READY"
                 /\ \A d \in Dependencies[t] : d \in Tasks /\ of[d] = "COMPLETE"
  BY DEF Reconciled, DependenciesComplete, DAGTaskStates

\* What a step may do to the table without disturbing the order of the tasks: nothing
\* leaves COMPLETE, and a task starts to count as READY, run or ended only when what
\* it depends on is COMPLETE.
Orderly(old, new) ==
  \A t \in Tasks :
    /\ old[t] = "COMPLETE" => new[t] = "COMPLETE"
    /\ new[t] \notin {None, "BLOCKED_BY_DEPENDENCY"} =>
         \/ old[t] \notin {None, "BLOCKED_BY_DEPENDENCY"}
         \/ \A d \in Dependencies[t] : d \in Tasks /\ old[d] = "COMPLETE"

\* An orderly step that changes one task and then reconciles.
LEMMA ReconciledIsOrderly ==
  ASSUME NEW old \in [Tasks -> DAGTaskStates \cup {None}],
         NEW of \in [Tasks -> DAGTaskStates \cup {None}],
         \A t \in Tasks : old[t] = "COMPLETE" <=> of[t] = "COMPLETE",
         Orderly(old, of)
  PROVE  Orderly(old, Reconciled(of))
<1> SUFFICES ASSUME NEW t \in Tasks
             PROVE  /\ old[t] = "COMPLETE" => Reconciled(of)[t] = "COMPLETE"
                    /\ Reconciled(of)[t] \notin {None, "BLOCKED_BY_DEPENDENCY"} =>
                         \/ old[t] \notin {None, "BLOCKED_BY_DEPENDENCY"}
                         \/ \A d \in Dependencies[t] : d \in Tasks /\ old[d] = "COMPLETE"
  BY DEF Orderly
<1>1. CASE Reconciled(of)[t] = of[t]
  BY <1>1 DEF Orderly
<1>2. CASE /\ of[t] = "BLOCKED_BY_DEPENDENCY"
           /\ \A d \in Dependencies[t] : d \in Tasks /\ of[d] = "COMPLETE"
  <2>1. old[t] # "COMPLETE"
    BY <1>2
  <2>2. \A d \in Dependencies[t] : d \in Tasks /\ old[d] = "COMPLETE"
    BY <1>2
  <2> QED
    BY <2>1, <2>2
<1> QED
  BY <1>1, <1>2, ReconciledIs

\* Such a step keeps the order of the tasks.
LEMMA OrderlyKeepsOrder ==
  ASSUME DependenciesFirst, Orderly(state, state')
  PROVE  DependenciesFirst'
  BY DEF DependenciesFirst, Orderly

-----------------------------------------------------------------------------
LEMMA InitIInv == ASSUME Init PROVE IInv
  BY ConstantsAssumption
  DEF Init, IInv, TypeOK, Marked, OneRunner, InRunner, DependenciesFirst

\* Every step of a state of IInv is orderly: the guards of retry_task and of the
\* suspensions, and the marker, keep every writer off the tasks that are COMPLETE.
LEMMA StepIsOrderly ==
  ASSUME IInv, [Next]_vars
  PROVE  Orderly(state, state')
<1> USE ConstantsAssumption
<1> state \in [Tasks -> DAGTaskStates \cup {None}]
  BY DEF IInv, TypeOK
<1>0. \A old : Orderly(old, old)
  BY DEF Orderly
<1>1. CASE \E s \in Schedulers : Create(s)
  <2> DEFINE reset == [t \in Tasks |-> IF state[t] = "RUNNING" THEN "READY" ELSE state[t]]
  <2>1. state' = Reconciled(reset)
    BY <1>1 DEF Create, Recovered
  <2>2. reset \in [Tasks -> DAGTaskStates \cup {None}]
    BY DEF DAGTaskStates
  <2>3. Orderly(state, reset) /\ \A t \in Tasks : state[t] = "COMPLETE" <=> reset[t] = "COMPLETE"
    BY DEF Orderly, DAGTaskStates
  <2> QED
    BY <2>1, <2>2, <2>3, ReconciledIsOrderly
<1>2. ASSUME NEW t \in Tasks, AddTask(t) PROVE Orderly(state, state')
  <2> DEFINE added == [state EXCEPT ![t] =
                 IF Dependencies[t] = {} THEN "READY" ELSE "BLOCKED_BY_DEPENDENCY"]
  <2>1. state' = Reconciled(added) /\ state[t] = None
    BY <1>2 DEF AddTask
  <2>2. added \in [Tasks -> DAGTaskStates \cup {None}]
    BY DEF DAGTaskStates
  <2>3. Orderly(state, added) /\ \A u \in Tasks : state[u] = "COMPLETE" <=> added[u] = "COMPLETE"
    BY <2>1 DEF Orderly, DAGTaskStates
  <2> QED
    BY <2>1, <2>2, <2>3, ReconciledIsOrderly
<1>3. ASSUME NEW th \in Threads, Claim(th) PROVE Orderly(state, state')
  <2>1. PICK t \in Tasks : /\ Reconciled(state)[t] = "READY"
                           /\ state' = [Reconciled(state) EXCEPT ![t] = "RUNNING"]
    BY <1>3 DEF Claim, FirstReady
  <2>2. Orderly(state, Reconciled(state))
    BY <1>0, ReconciledIsOrderly
  <2> QED
    BY <2>1, <2>2, ReconciledIs DEF Orderly, DAGTaskStates
<1>4. ASSUME NEW th \in Threads, RecordResult(th) PROVE Orderly(state, state')
  <2>1. held[th] \in Tasks /\ state[held[th]] = "RUNNING"
    BY <1>4 DEF RecordResult, IInv, Marked, InRunner
  <2>2. state' = [state EXCEPT ![held[th]] = outcome[th]]
    BY <1>4 DEF RecordResult
  <2> QED
    BY <2>1, <2>2 DEF Orderly, DAGTaskStates
<1>5. ASSUME NEW th \in Threads, Unlock(th) PROVE Orderly(state, state')
  BY <1>5, <1>0, ReconciledIsOrderly DEF Unlock
<1>6. ASSUME NEW t \in Tasks, ResolveDecision(t) \/ ResolveAccountSwitch(t)
      PROVE  Orderly(state, state')
  BY <1>6 DEF ResolveDecision, ResolveAccountSwitch, Revive, Orderly, DAGTaskStates
<1>7. ASSUME NEW t \in Tasks, RetryTask(t) PROVE Orderly(state, state')
  <2> DEFINE waiting == [state EXCEPT ![t] = "BLOCKED_BY_DEPENDENCY"]
  <2>1. state' = Reconciled(waiting) /\ state[t] # "COMPLETE"
    BY <1>7 DEF RetryTask, Revive, CanTransition, AllowedTransitions
  <2>2. waiting \in [Tasks -> DAGTaskStates \cup {None}]
    BY DEF DAGTaskStates
  <2>3. Orderly(state, waiting) /\ \A u \in Tasks : state[u] = "COMPLETE" <=> waiting[u] = "COMPLETE"
    BY <2>1 DEF Orderly
  <2> QED
    BY <2>1, <2>2, <2>3, ReconciledIsOrderly
<1>8. CASE UNCHANGED state
  BY <1>8, <1>0
<1> QED
  BY <1>1, <1>2, <1>3, <1>4, <1>5, <1>6, <1>7, <1>8
  DEF Next, StepOf, RunnerOf, Crash, ClaimNothing, RunnerReturns, RunnerLeaks,
      RunnerRaisesLeak, RefuseResult, vars

-----------------------------------------------------------------------------
(* The types, one lemma for the steps of a thread and one for the others.    *)

LEMMA StateTyped ==
  ASSUME IInv, Next
  PROVE  state' \in [Tasks -> DAGTaskStates \cup {None}]
<1> USE ConstantsAssumption
<1> state \in [Tasks -> DAGTaskStates \cup {None}]
  BY DEF IInv, TypeOK
<1> DEFINE Table == [Tasks -> DAGTaskStates \cup {None}]
<1>0. \A of \in Table : Reconciled(of) \in Table
  BY ReconciledIs
<1>1. ASSUME NEW s \in Schedulers, Create(s) PROVE state' \in Table
  <2> DEFINE reset == [t \in Tasks |-> IF state[t] = "RUNNING" THEN "READY" ELSE state[t]]
  <2>1. reset \in Table
    BY DEF DAGTaskStates
  <2> QED
    BY <1>0, <1>1, <2>1 DEF Create, Recovered
<1>2. ASSUME NEW t \in Tasks, AddTask(t) PROVE state' \in Table
  <2>1. [state EXCEPT ![t] = IF Dependencies[t] = {} THEN "READY" ELSE "BLOCKED_BY_DEPENDENCY"]
          \in Table
    BY DEF DAGTaskStates
  <2> QED
    BY <1>0, <1>2, <2>1 DEF AddTask
<1>3. ASSUME NEW th \in Threads, StepOf(th) PROVE state' \in Table
  <2>1. CASE Claim(th)
    BY <1>0, <2>1 DEF Claim, DAGTaskStates
  <2>2. CASE RecordResult(th)
    <3>1. outcome[th] \in DAGTaskStates \cup {None}
      BY DEF IInv, TypeOK
    <3> QED
      BY <2>2, <3>1 DEF RecordResult
  <2>3. CASE RefuseResult(th)
    BY <2>3 DEF RefuseResult
  <2>4. CASE Unlock(th)
    BY <1>0, <2>4 DEF Unlock
  <2> QED
    BY <1>3, <2>1, <2>2, <2>3, <2>4 DEF StepOf
<1>4. ASSUME NEW t \in Tasks, RetryTask(t) PROVE state' \in Table
  <2>1. [state EXCEPT ![t] = "BLOCKED_BY_DEPENDENCY"] \in Table
    BY DEF DAGTaskStates
  <2> QED
    BY <1>0, <1>4, <2>1 DEF RetryTask, Revive
<1>5. ASSUME NEW t \in Tasks, ResolveDecision(t) \/ ResolveAccountSwitch(t)
      PROVE  state' \in Table
  BY <1>5 DEF ResolveDecision, ResolveAccountSwitch, Revive, DAGTaskStates
<1>6. CASE UNCHANGED state
  BY <1>6
<1> QED
  BY <1>1, <1>2, <1>3, <1>4, <1>5, <1>6
  DEF Next, RunnerOf, Crash, ClaimNothing, RunnerReturns, RunnerLeaks, RunnerRaisesLeak

LEMMA StepTyped ==
  ASSUME IInv, [Next]_vars
  PROVE  TypeOK'
<1> USE ConstantsAssumption
<1> TypeOK
  BY DEF IInv
<1>1. ASSUME NEW s \in Schedulers, Create(s) PROVE TypeOK'
  BY <1>1, StateTyped DEF Next, Create, TypeOK
<1>2. CASE Crash
  BY <1>2 DEF Crash, TypeOK
<1>3. CASE ClaimNothing
  BY <1>3 DEF ClaimNothing, TypeOK
<1>4. ASSUME NEW th \in Threads, StepOf(th) PROVE TypeOK'
  <2>0. state' \in [Tasks -> DAGTaskStates \cup {None}]
    BY <1>4, StateTyped DEF Next
  <2>1. CASE Claim(th)
    BY <2>0, <2>1 DEF Claim, FirstReady, TypeOK
  <2>2. CASE RecordResult(th)
    BY <2>0, <2>2 DEF RecordResult, Leave, TypeOK
  <2>3. CASE RefuseResult(th)
    <3>1. held[th] \in Tasks
      BY <2>3 DEF RefuseResult, IInv, Marked, InRunner
    <3> QED
      BY <2>3, <3>1 DEF RefuseResult, Lose, Leave, TypeOK
  <2>4. CASE Unlock(th)
    BY <2>0, <2>4 DEF Unlock, Leave, TypeOK
  <2> QED
    BY <1>4, <2>1, <2>2, <2>3, <2>4 DEF StepOf
<1>5. ASSUME NEW th \in Threads, RunnerOf(th) PROVE TypeOK'
  <2>0. pc[th] = "run" /\ held[th] \in Tasks
    BY <1>5 DEF RunnerOf, RunnerReturns, RunnerLeaks, RunnerRaisesLeak, IInv, Marked, InRunner
  <2>1. CASE RunnerReturns(th)
    BY <2>1 DEF RunnerReturns, TypeOK
  <2>2. CASE RunnerLeaks(th) \/ RunnerRaisesLeak(th)
    BY <2>0, <2>2 DEF RunnerLeaks, RunnerRaisesLeak, Lose, Leave, TypeOK
  <2> QED
    BY <1>5, <2>1, <2>2 DEF RunnerOf
<1>6. ASSUME NEW t \in Tasks, AddTask(t) PROVE TypeOK'
  BY <1>6, StateTyped DEF Next, AddTask, TypeOK
<1>7. ASSUME NEW t \in Tasks,
             ResolveDecision(t) \/ ResolveAccountSwitch(t) \/ RetryTask(t)
      PROVE  TypeOK'
  <2>1. state' \in [Tasks -> DAGTaskStates \cup {None}]
    BY <1>7, StateTyped DEF Next
  <2> QED
    BY <1>7, <2>1 DEF ResolveDecision, ResolveAccountSwitch, RetryTask, Revive, TypeOK
<1>8. CASE UNCHANGED vars
  BY <1>8 DEF vars, TypeOK
<1> QED
  BY <1>1, <1>2, <1>3, <1>4, <1>5, <1>6, <1>7, <1>8 DEF Next

-----------------------------------------------------------------------------
(* The marker.                                                               *)

\* A task that is RUNNING is moved by nobody but the thread that brings its result
\* and a new scheduler.
LEMMA RunningStays ==
  ASSUME IInv, NEW t \in Tasks, state[t] = "RUNNING",
         \/ \E th \in Threads : Claim(th) \/ RefuseResult(th) \/ Unlock(th) \/ RunnerOf(th)
         \/ ClaimNothing
         \/ \E u \in Tasks : AddTask(u) \/ ResolveDecision(u) \/ ResolveAccountSwitch(u)
                              \/ RetryTask(u)
         \/ UNCHANGED state
  PROVE  state'[t] = "RUNNING"
<1> USE ConstantsAssumption
<1> state \in [Tasks -> DAGTaskStates \cup {None}]
  BY DEF IInv, TypeOK
<1>0. ASSUME NEW of \in [Tasks -> DAGTaskStates \cup {None}], of[t] = "RUNNING"
      PROVE  Reconciled(of)[t] = "RUNNING"
  BY <1>0, ReconciledIs
<1>1. ASSUME NEW th \in Threads, Claim(th) PROVE state'[t] = "RUNNING"
  <2>1. PICK u \in Tasks : state' = [Reconciled(state) EXCEPT ![u] = "RUNNING"]
    BY <1>1 DEF Claim, FirstReady
  <2> QED
    BY <2>1, ReconciledIs
<1>2. ASSUME NEW th \in Threads, Unlock(th) PROVE state'[t] = "RUNNING"
  BY <1>2, ReconciledIs DEF Unlock
<1>3. ASSUME NEW u \in Tasks, AddTask(u) PROVE state'[t] = "RUNNING"
  <2> DEFINE added == [state EXCEPT ![u] =
                 IF Dependencies[u] = {} THEN "READY" ELSE "BLOCKED_BY_DEPENDENCY"]
  <2>1. state' = Reconciled(added) /\ u # t
    BY <1>3 DEF AddTask, DAGTaskStates
  <2>2. added \in [Tasks -> DAGTaskStates \cup {None}] /\ added[t] = "RUNNING"
    BY <2>1 DEF DAGTaskStates
  <2> HIDE DEF added
  <2> QED
    BY <1>0, <2>1, <2>2
<1>4. ASSUME NEW u \in Tasks, ResolveDecision(u) \/ ResolveAccountSwitch(u)
      PROVE  state'[t] = "RUNNING"
  BY <1>4 DEF ResolveDecision, ResolveAccountSwitch, Revive
<1>5. ASSUME NEW u \in Tasks, RetryTask(u) PROVE state'[t] = "RUNNING"
  <2> DEFINE waiting == [state EXCEPT ![u] = "BLOCKED_BY_DEPENDENCY"]
  <2>1. state' = Reconciled(waiting) /\ u # t
    BY <1>5 DEF RetryTask, Revive, CanTransition, AllowedTransitions
  <2>2. waiting \in [Tasks -> DAGTaskStates \cup {None}] /\ waiting[t] = "RUNNING"
    BY <2>1 DEF DAGTaskStates
  <2> HIDE DEF waiting
  <2> QED
    BY <1>0, <2>1, <2>2
<1> QED
  BY <1>1, <1>2, <1>3, <1>4, <1>5
  DEF RefuseResult, RunnerOf, RunnerReturns, RunnerLeaks, RunnerRaisesLeak, ClaimNothing

\* Nobody claims a task while a runner works.
LEMMA ClaimedAlone ==
  ASSUME IInv, NEW th \in Threads, Claim(th) \/ ClaimNothing, NEW other \in Threads
  PROVE  ~ InRunner(other)
  BY ConstantsAssumption DEF Claim, ClaimNothing, Busy, IInv, Marked

\* A thread that leaves step, or that does nothing, breaks neither part.
LEMMA LeavingKeepsMarks ==
  ASSUME IInv, NEW th \in Threads, Leave(th), UNCHANGED <<running, alive>>,
         \A t \in Tasks : state[t] = "RUNNING" => state'[t] = "RUNNING"
  PROVE  Marked' /\ OneRunner'
<1>1. /\ pc \in [Threads -> {"idle", "run", "record", "unlock"}]
      /\ held \in [Threads -> Tasks \cup {None}]
  BY DEF IInv, TypeOK
<1>2. pc'[th] = "idle"
  BY <1>1 DEF Leave
<1>3. ASSUME NEW other \in Threads, other # th
      PROVE  pc'[other] = pc[other] /\ held'[other] = held[other]
  BY <1>1, <1>3 DEF Leave
<1>4. Marked'
  BY <1>2, <1>3 DEF IInv, Marked, InRunner
<1>5. OneRunner'
  BY <1>2, <1>3 DEF IInv, OneRunner, InRunner
<1> QED
  BY <1>4, <1>5

\* The thread whose task the marker names may clear it, since no other thread is in a
\* runner.
LEMMA ClearingKeepsMarks ==
  ASSUME IInv, NEW th \in Threads, InRunner(th), UNCHANGED alive,
         \A other \in Threads \ {th} : pc'[other] = pc[other] /\ held'[other] = held[other],
         pc'[th] \in {"idle", "unlock"}
  PROVE  Marked' /\ OneRunner'
<1>1. \A other \in Threads : ~ InRunner(other)'
  BY DEF IInv, OneRunner, InRunner
<1>2. alive # None
  BY DEF IInv, Marked, InRunner
<1> QED
  BY <1>1, <1>2 DEF Marked, OneRunner

\* The table and the threads keep to the marker.
LEMMA StepMarked ==
  ASSUME IInv, [Next]_vars
  PROVE  Marked' /\ OneRunner'
<1> USE ConstantsAssumption
<1>0. /\ state \in [Tasks -> DAGTaskStates \cup {None}]
      /\ pc \in [Threads -> {"idle", "run", "record", "unlock"}]
      /\ held \in [Threads -> Tasks \cup {None}]
  BY DEF IInv, TypeOK
<1>1. ASSUME NEW s \in Schedulers, Create(s) PROVE Marked' /\ OneRunner'
  <2>1. \A th \in Threads : pc'[th] = "idle"
    BY <1>1 DEF Create, IInv, Marked
  <2> QED
    BY <2>1 DEF Marked, OneRunner, InRunner
<1>2. CASE Crash
  BY <1>2 DEF Crash, Marked, OneRunner, InRunner
<1>3. CASE ClaimNothing
  <2>1. \A th \in Threads : ~ InRunner(th)
    BY <1>3, ClaimedAlone
  <2> QED
    BY <1>3, <2>1 DEF ClaimNothing, IInv, Marked, OneRunner, InRunner
<1>4. ASSUME NEW th \in Threads, Claim(th) PROVE Marked' /\ OneRunner'
  <2>1. \A other \in Threads : ~ InRunner(other)
    BY <1>4, ClaimedAlone
  <2>2. PICK t \in Tasks : /\ state' = [Reconciled(state) EXCEPT ![t] = "RUNNING"]
                           /\ running' = t
                           /\ held' = [held EXCEPT ![th] = t]
    BY <1>4 DEF Claim, FirstReady
  <2>3. \A other \in Threads : InRunner(other)' => other = th
    BY <1>0, <1>4, <2>1 DEF Claim, InRunner
  <2>4. held'[th] = t /\ state'[t] = "RUNNING"
    BY <1>0, <2>2, ReconciledIs
  <2>5. alive' # None
    BY <1>4 DEF Claim, Free
  <2> QED
    BY <2>2, <2>3, <2>4, <2>5 DEF Marked, OneRunner
<1>5. ASSUME NEW th \in Threads, RunnerReturns(th) PROVE Marked' /\ OneRunner'
  <2>1. /\ InRunner(th)
        /\ \A other \in Threads : InRunner(other)' <=> InRunner(other)
        /\ \A other \in Threads : pc'[other] # "idle" => pc[other] # "idle"
        /\ UNCHANGED <<state, running, held, alive>>
    BY <1>0, <1>5 DEF RunnerReturns, InRunner
  <2> QED
    BY <2>1 DEF IInv, Marked, OneRunner
<1>6. ASSUME NEW th \in Threads, RunnerLeaks(th) PROVE Marked' /\ OneRunner'
  BY <1>0, <1>6, ClearingKeepsMarks DEF RunnerLeaks, Lose, Leave, InRunner
<1>7. ASSUME NEW th \in Threads, RecordResult(th) PROVE Marked' /\ OneRunner'
  <2>1. InRunner(th) /\ UNCHANGED alive
    BY <1>7 DEF RecordResult, InRunner
  <2>2. /\ pc'[th] \in {"idle", "unlock"}
        /\ \A other \in Threads \ {th} : pc'[other] = pc[other] /\ held'[other] = held[other]
    BY <1>0, <1>7 DEF RecordResult, Leave
  <2> QED
    BY <2>1, <2>2, ClearingKeepsMarks
<1>8. ASSUME NEW th \in Threads, RunnerRaisesLeak(th) \/ RefuseResult(th) \/ Unlock(th)
      PROVE  Marked' /\ OneRunner'
  <2>1. Leave(th) /\ UNCHANGED <<running, alive>>
    BY <1>8 DEF RunnerRaisesLeak, RefuseResult, Unlock, Lose
  <2>2. \A t \in Tasks : state[t] = "RUNNING" => state'[t] = "RUNNING"
    BY <1>8, RunningStays DEF RunnerOf
  <2> QED
    BY <2>1, <2>2, LeavingKeepsMarks
<1>9. ASSUME NEW t \in Tasks,
             AddTask(t) \/ ResolveDecision(t) \/ ResolveAccountSwitch(t) \/ RetryTask(t)
      PROVE  Marked' /\ OneRunner'
  <2>1. UNCHANGED <<running, alive, pc, held>>
    BY <1>9 DEF AddTask, ResolveDecision, ResolveAccountSwitch, RetryTask, Revive
  <2>2. \A u \in Tasks : state[u] = "RUNNING" => state'[u] = "RUNNING"
    BY <1>9, RunningStays
  <2> QED
    BY <2>1, <2>2 DEF IInv, Marked, OneRunner, InRunner
<1>10. CASE UNCHANGED vars
  BY <1>10 DEF vars, IInv, Marked, OneRunner, InRunner
<1> QED
  BY <1>1, <1>2, <1>3, <1>4, <1>5, <1>6, <1>7, <1>8, <1>9, <1>10 DEF Next, StepOf, RunnerOf

-----------------------------------------------------------------------------
\* IInv is inductive.
LEMMA Inductive == ASSUME IInv, [Next]_vars PROVE IInv'
<1>1. TypeOK'
  BY StepTyped
<1>2. Marked' /\ OneRunner'
  BY StepMarked
<1>3. DependenciesFirst'
  BY StepIsOrderly, OrderlyKeepsOrder DEF IInv
<1> QED
  BY <1>1, <1>2, <1>3 DEF IInv

LEMMA AlwaysIInv == Spec => []IInv
<1>1. Init => IInv
  BY InitIInv
<1>2. IInv /\ [Next]_vars => IInv'
  BY Inductive
<1> QED
  BY <1>1, <1>2, PTL DEF Spec

\* Every variable of the scheduler's model has its type.
THEOREM TypeCorrect == Spec => []TypeOK
<1>1. IInv => TypeOK
  BY DEF IInv
<1> QED
  BY <1>1, AlwaysIInv, PTL

\* max_parallelism is 1: whatever the threads that call step do while the lock is
\* released, two runners never work at the same time.
THEOREM RunnersExclude == Spec => []OneRunner
<1>1. IInv => OneRunner
  BY DEF IInv
<1> QED
  BY <1>1, AlwaysIInv, PTL

\* No task is READY, run or ended before everything it depends on is COMPLETE,
\* whatever graph callers add and in whatever order.
THEOREM OrderKept == Spec => []DependenciesFirst
<1>1. IInv => DependenciesFirst
  BY DEF IInv
<1> QED
  BY <1>1, AlwaysIInv, PTL

\* No late result, retry, resolved suspension or recovery takes a task out of COMPLETE.
THEOREM CompleteForGood == Spec => CompleteIsFinal
<1>1. IInv /\ [Next]_vars
        => [\A t \in Tasks : state[t] = "COMPLETE" => state'[t] = "COMPLETE"]_vars
  BY StepIsOrderly DEF Orderly
<1> QED
  BY <1>1, AlwaysIInv, PTL DEF Spec, CompleteIsFinal
-----------------------------------------------------------------------------
(* The scheduler implements SerialDag.                                       *)

DoneNow == {t \in Tasks : state[t] = "COMPLETE"}
AtNow == {held[th] : th \in {other \in Threads : InRunner(other)}}

\* The steps of SerialDag, said of the scheduler.
LEMMA DagSteps ==
  \/ AtNow' = AtNow /\ DoneNow' = DoneNow
  \/ \E t \in Tasks : /\ AtNow = {} /\ t \notin DoneNow /\ Dependencies[t] \subseteq DoneNow
                      /\ AtNow' = {t} /\ DoneNow' = DoneNow
  \/ \E t \in Tasks : AtNow = {t} /\ AtNow' = {} /\ DoneNow' = DoneNow \cup {t}
  \/ \E t \in Tasks : AtNow = {t} /\ AtNow' = {} /\ DoneNow' = DoneNow
  => [Dag!Next]_(Dag!vars)
  BY DEF Dag!Next, Dag!Begin, Dag!Finish, Dag!Drop, Dag!vars, AtNow, DoneNow

\* A step that neither completes a task nor moves a runner.
LEMMA NothingDone ==
  ASSUME IInv, [Next]_vars, \A t \in Tasks : state'[t] = "COMPLETE" => state[t] = "COMPLETE"
  PROVE  DoneNow' = DoneNow
  BY StepIsOrderly DEF DoneNow, Orderly

\* The thread that is in a runner works on the only task at work.
LEMMA OneAtWork ==
  ASSUME IInv, NEW th \in Threads, InRunner(th)
  PROVE  AtNow = {held[th]} /\ held[th] \in Tasks /\ state[held[th]] = "RUNNING"
  BY DEF IInv, Marked, OneRunner, AtNow

\* It leaves step, or hands its result in.
LEMMA WorkEnds ==
  ASSUME IInv, NEW th \in Threads, InRunner(th), ~ InRunner(th)',
         \A other \in Threads \ {th} : pc'[other] = pc[other]
  PROVE  AtNow' = {}
<1>1. \A other \in Threads : ~ InRunner(other)'
  BY DEF IInv, OneRunner, InRunner
<1> QED
  BY <1>1 DEF AtNow

LEMMA StepImplementsDag == ASSUME IInv, [Next]_vars PROVE [Dag!Next]_(Dag!vars)
<1> USE ConstantsAssumption
<1>0. /\ state \in [Tasks -> DAGTaskStates \cup {None}]
      /\ pc \in [Threads -> {"idle", "run", "record", "unlock"}]
      /\ held \in [Threads -> Tasks \cup {None}]
  BY DEF IInv, TypeOK
<1>1. ASSUME NEW s \in Schedulers, Create(s) PROVE AtNow' = AtNow /\ DoneNow' = DoneNow
  <2>1. \A th \in Threads : pc[th] = "idle" /\ pc'[th] = "idle"
    BY <1>1 DEF Create, IInv, Marked
  <2>2. AtNow = {} /\ AtNow' = {}
    BY <2>1 DEF AtNow, InRunner
  <2> DEFINE reset == [t \in Tasks |-> IF state[t] = "RUNNING" THEN "READY" ELSE state[t]]
  <2>3. state' = Reconciled(reset)
    BY <1>1 DEF Create, Recovered
  <2>4. reset \in [Tasks -> DAGTaskStates \cup {None}]
    BY <1>0 DEF DAGTaskStates
  <2>5. \A t \in Tasks : reset[t] = "COMPLETE" => state[t] = "COMPLETE"
    OBVIOUS
  <2> HIDE DEF reset
  <2> QED
    BY <2>2, <2>3, <2>4, <2>5, ReconciledIs, NothingDone
<1>2. CASE Crash
  <2>1. AtNow' = {} /\ DoneNow' = DoneNow
    BY <1>2 DEF Crash, AtNow, InRunner, DoneNow
  <2>2. CASE \E th \in Threads : InRunner(th)
    BY <2>1, <2>2, OneAtWork, DagSteps
  <2>3. CASE \A th \in Threads : ~ InRunner(th)
    <3>1. AtNow = {}
      BY <2>3 DEF AtNow
    <3> QED
      BY <2>1, <3>1, DagSteps
  <2> QED
    BY <2>2, <2>3
<1>3. ASSUME NEW th \in Threads, Claim(th) PROVE [Dag!Next]_(Dag!vars)
  <2>1. \A other \in Threads : ~ InRunner(other)
    BY <1>3, ClaimedAlone
  <2>2. PICK t \in Tasks : /\ Reconciled(state)[t] = "READY"
                           /\ state' = [Reconciled(state) EXCEPT ![t] = "RUNNING"]
                           /\ held' = [held EXCEPT ![th] = t]
    BY <1>3 DEF Claim, FirstReady
  <2>3. AtNow = {}
    BY <2>1 DEF AtNow
  <2>4. \A other \in Threads : InRunner(other)' <=> other = th
    BY <1>0, <1>3, <2>1 DEF Claim, InRunner
  <2>5. AtNow' = {t}
    BY <1>0, <2>2, <2>4 DEF AtNow
  <2>6. DoneNow' = DoneNow
    BY <1>0, <2>2, ReconciledIs, NothingDone
  <2>7. t \notin DoneNow /\ Dependencies[t] \subseteq DoneNow
    <3>1. \/ state[t] = "READY"
          \/ /\ state[t] = "BLOCKED_BY_DEPENDENCY"
             /\ \A d \in Dependencies[t] : d \in Tasks /\ state[d] = "COMPLETE"
      BY <1>0, <2>2, ReconciledIs
    <3>2. \A d \in Dependencies[t] : d \in Tasks /\ state[d] = "COMPLETE"
      BY <3>1 DEF DAGTaskStates, IInv, DependenciesFirst
    <3> QED
      BY <3>1, <3>2 DEF DoneNow
  <2> QED
    BY <2>3, <2>5, <2>6, <2>7, DagSteps
<1>4. ASSUME NEW th \in Threads, RecordResult(th) PROVE [Dag!Next]_(Dag!vars)
  <2>1. InRunner(th) /\ ~ InRunner(th)' /\ \A other \in Threads \ {th} : pc'[other] = pc[other]
    BY <1>0, <1>4 DEF RecordResult, Leave, InRunner
  <2>2. AtNow = {held[th]} /\ AtNow' = {} /\ held[th] \in Tasks /\ state[held[th]] = "RUNNING"
    BY <2>1, OneAtWork, WorkEnds
  <2>3. state' = [state EXCEPT ![held[th]] = outcome[th]]
    BY <1>4 DEF RecordResult
  <2>4. DoneNow' = DoneNow \/ DoneNow' = DoneNow \cup {held[th]}
    BY <1>0, <2>2, <2>3 DEF DoneNow
  <2> QED
    BY <2>2, <2>4, DagSteps
<1>5. ASSUME NEW th \in Threads, RunnerLeaks(th) \/ RunnerRaisesLeak(th) \/ RefuseResult(th)
      PROVE  [Dag!Next]_(Dag!vars)
  <2>1. InRunner(th) /\ Leave(th) /\ state' = state
    BY <1>5 DEF RunnerLeaks, RunnerRaisesLeak, RefuseResult, Lose, InRunner
  <2>2. ~ InRunner(th)' /\ \A other \in Threads \ {th} : pc'[other] = pc[other]
    BY <1>0, <2>1 DEF Leave, InRunner
  <2>3. AtNow = {held[th]} /\ AtNow' = {} /\ held[th] \in Tasks
    BY <2>1, <2>2, OneAtWork, WorkEnds
  <2>4. DoneNow' = DoneNow
    BY <2>1 DEF DoneNow
  <2> QED
    BY <2>3, <2>4, DagSteps
<1>6. ASSUME NEW th \in Threads, RunnerReturns(th) PROVE AtNow' = AtNow /\ DoneNow' = DoneNow
  BY <1>0, <1>6 DEF RunnerReturns, InRunner, AtNow, DoneNow
<1>7. ASSUME NEW th \in Threads, Unlock(th) PROVE AtNow' = AtNow /\ DoneNow' = DoneNow
  <2>1. /\ ~ InRunner(th) /\ ~ InRunner(th)'
        /\ \A other \in Threads \ {th} : pc'[other] = pc[other] /\ held'[other] = held[other]
    BY <1>0, <1>7 DEF Unlock, Leave, InRunner
  <2>2. AtNow' = AtNow
    BY <2>1 DEF AtNow, InRunner
  <2>3. DoneNow' = DoneNow
    BY <1>0, <1>7, ReconciledIs, NothingDone DEF Unlock
  <2> QED
    BY <2>2, <2>3
<1>8. ASSUME NEW t \in Tasks, NEW to \in {"READY", "BLOCKED_BY_DEPENDENCY"},
             NEW of, of = [state EXCEPT ![t] = to], state' = of \/ state' = Reconciled(of)
      PROVE  DoneNow' = DoneNow
  <2>1. /\ of \in [Tasks -> DAGTaskStates \cup {None}]
        /\ \A u \in Tasks : of[u] = "COMPLETE" => state[u] = "COMPLETE"
    BY <1>0, <1>8 DEF DAGTaskStates
  <2> QED
    <3>1. \A u \in Tasks : Reconciled(of)[u] = "COMPLETE" => of[u] = "COMPLETE"
      BY <2>1, ReconciledIs
    <3> QED
      BY <1>8, <2>1, <3>1, NothingDone
<1>9. ASSUME NEW t \in Tasks,
             AddTask(t) \/ ResolveDecision(t) \/ ResolveAccountSwitch(t) \/ RetryTask(t)
      PROVE  AtNow' = AtNow /\ DoneNow' = DoneNow
  <2>1. AtNow' = AtNow
    BY <1>9 DEF AddTask, ResolveDecision, ResolveAccountSwitch, RetryTask, Revive, AtNow, InRunner
  <2>2. DoneNow' = DoneNow
    BY <1>8, <1>9 DEF AddTask, ResolveDecision, ResolveAccountSwitch, RetryTask, Revive
  <2> QED
    BY <2>1, <2>2
<1>10. CASE ClaimNothing \/ UNCHANGED vars
  BY <1>10, DagSteps DEF ClaimNothing, vars, AtNow, DoneNow, InRunner
<1> QED
  BY <1>1, <1>2, <1>3, <1>4, <1>5, <1>6, <1>7, <1>9, <1>10, DagSteps DEF Next, StepOf, RunnerOf

\* Whatever graph callers add, the scheduler runs it one task at a time and in order,
\* and a task is COMPLETE only by a run of its own (step, recover, retry_task).
THEOREM SchedulerImplementsDag == Spec => ImplementsSerialDag
<1>1. Init => Dag!Init
  BY ConstantsAssumption DEF Init, Dag!Init, InRunner, DAGTaskStates
<1>2. IInv /\ [Next]_vars => [Dag!Next]_(Dag!vars)
  BY StepImplementsDag
<1> QED
  BY <1>1, <1>2, AlwaysIInv, PTL DEF Spec, ImplementsSerialDag, Dag!Spec
=============================================================================
