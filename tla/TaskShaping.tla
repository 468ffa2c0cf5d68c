---------------------------- MODULE TaskShaping ----------------------------
(***************************************************************************)
(* task_shaping.py and plan_executor._plan_from_dict: a parent goal becomes *)
(* a plan of tasks, the plan is validated and frozen under a digest, leaves *)
(* the process as a dictionary, and is taken back by plan_start.  Between   *)
(* the two it is in the caller's hands.  Objectives, criteria and commands  *)
(* are what the checks tell apart: there or not, and covering what.         *)
(***************************************************************************)
EXTENDS Naturals, Sequences, FiniteSets

CONSTANTS
  TaskIds,       \* a sequence: the task id of each objective
  SharedPath,    \* a path several tasks may own
  MaxAcceptance  \* bound: acceptance criteria of the parent

VARIABLES
  stage,   \* where the plan is
  parent,  \* the parent goal
  plan,    \* the TaskPlan, or the dictionary made of it
  digest   \* its plan_digest: the plan that was hashed

shapingVars == <<stage, parent, plan, digest>>

Ids == {TaskIds[i] : i \in 1..Len(TaskIds)}

\* Ids that several objectives have in common come from parent.alike alone.
ASSUME ShapingAssumption ==
  /\ TaskIds \in Seq(Ids) /\ TaskIds # <<>>
  /\ \A i, j \in 1..Len(TaskIds) : i # j => TaskIds[i] # TaskIds[j]
  /\ MaxAcceptance \in Nat

Ownerships == {"none", "own", "shared"}

\* deps: what each objective depends on; alike: the caller gave all tasks one id;
\* bare: the objectives bring no criteria of their own; commands: there are
\* verification commands; asks: how many criteria the parent has.
ParentsOf(n) ==
  [deps : [1..n -> SUBSET Ids], alike : BOOLEAN, owns : Ownerships, bare : BOOLEAN,
   commands : BOOLEAN, asks : 1..MaxAcceptance]
Parents == UNION {ParentsOf(n) : n \in 1..Len(TaskIds)}

NoPlan == [tasks |-> <<>>, asks |-> {}, final |-> FALSE]

ShapingInit ==
  /\ parent \in Parents
  /\ stage = "given" /\ plan = NoPlan /\ digest = NoPlan

-----------------------------------------------------------------------------
(* shape_task.                                                               *)

Count == Len(parent.deps)
Lesser(a, b) == IF a < b THEN a ELSE b

\* By default the criteria are dealt out one per task, the last to all the rest.
Covers(i) == IF Count = 1 THEN 1..parent.asks ELSE {Lesser(i, parent.asks)}

Paths(i) ==
  CASE parent.owns = "none" -> {}
    [] parent.owns = "own" -> {TaskIds[i]}
    [] parent.owns = "shared" -> {SharedPath}

Overlaps(i) == \E j \in 1..Count \ {i} : Paths(i) \cap Paths(j) # {}

Shaped ==
  [tasks |-> [i \in 1..Count |->
     [id |-> TaskIds[IF parent.alike THEN 1 ELSE i], deps |-> parent.deps[i],
      paths |-> Paths(i), shared |-> Overlaps(i), covers |-> Covers(i),
      commands |-> parent.commands]],
   asks |-> 1..parent.asks,
   final |-> parent.commands]

-----------------------------------------------------------------------------
(* validate_task_plan.  The walk over the dependencies: the calls of visit    *)
(* under way, what is being visited, what has been, and whether the graph has *)
(* been acyclic so far.                                                       *)

\* Mutant: a task counts as visited when its visit begins.
EnteredAsVisited(walk, id) ==
  [walk EXCEPT !.calls = Append(@, id), !.visited = @ \cup {id}]

Entered(walk, id) == [walk EXCEPT !.calls = Append(@, id), !.visiting = @ \cup {id}]

Left(walk) ==
  LET last == Len(walk.calls)
      id == walk.calls[last]
  IN [walk EXCEPT !.calls = SubSeq(@, 1, last - 1),
                  !.visiting = @ \ {id}, !.visited = @ \cup {id}]

IdsOf(tasks) == {tasks[i].id : i \in 1..Len(tasks)}

\* Of the first task of the id, if there is one.
DepsOf(tasks, id) ==
  LET named == {i \in 1..Len(tasks) : tasks[i].id = id}
  IN UNION {tasks[i].deps : i \in {k \in named : \A j \in named : k <= j}}

\* What the loop under way has left to visit: that of the last call over its
\* dependencies, or the one over all the tasks.
Pending(tasks, walk) ==
  (IF walk.calls = <<>> THEN IdsOf(tasks) ELSE DepsOf(tasks, walk.calls[Len(walk.calls)]))
    \ walk.visited

\* A visit is called or returns.  The graph never counts as acyclic again.
WalkStep(tasks, walk) ==
  LET pending == Pending(tasks, walk)
      id == CHOOSE d \in pending : TRUE
  IN CASE ~walk.dag \/ (walk.calls = <<>> /\ pending = {}) -> walk
       [] walk.dag /\ walk.calls # <<>> /\ pending = {} -> Left(walk)
       [] walk.dag /\ pending # {} /\ id \in walk.visiting -> [walk EXCEPT !.dag = FALSE]
       [] walk.dag /\ pending # {} /\ id \notin walk.visiting -> Entered(walk, id)

NotBegun == [calls |-> <<>>, visiting |-> {}, visited |-> {}, dag |-> TRUE]

\* Each id is entered once and left once.
WalkLength == 2 * Cardinality(Ids)

DagValid(tasks) ==
  LET walk[n \in 0..WalkLength] ==
        IF n = 0 THEN NotBegun ELSE WalkStep(tasks, walk[n - 1])
  IN walk[WalkLength].dag

\* Two tasks that own a path say so, or depend on one another.
Declared(a, b) == a.shared \/ b.shared \/ b.id \in a.deps \/ a.id \in b.deps

\* Mutant: uncovered acceptance criteria are only reported.
CoveredInPart(p) == \E i \in 1..Len(p.tasks) : p.tasks[i].covers \cap p.asks # {}

Covered(p) == p.asks \subseteq UNION {p.tasks[i].covers : i \in 1..Len(p.tasks)}

\* validate_task_plan(p, allow_unfrozen = True) has nothing to object to.
Valid(p) ==
  LET tasks == p.tasks
      own == 1..Len(tasks)
  IN /\ tasks # <<>>
     /\ \A i, j \in own : i # j => tasks[i].id # tasks[j].id
     /\ \A i \in own : tasks[i].deps \subseteq IdsOf(tasks)
     /\ \A i \in own : tasks[i].commands => tasks[i].paths # {}
     /\ DagValid(tasks)
     /\ Covered(p)
     /\ \A i, j \in own : i # j /\ tasks[i].paths \cap tasks[j].paths # {}
                            => Declared(tasks[i], tasks[j])
     /\ Len(tasks) > 1 => p.final

-----------------------------------------------------------------------------
\* shape_task up to freeze: several objectives have to bring their criteria.
Shape ==
  /\ stage = "given"
  /\ IF parent.bare /\ Count > 1 THEN stage' = "rejected" /\ UNCHANGED plan
     ELSE stage' = "shaped" /\ plan' = Shaped
  /\ UNCHANGED <<parent, digest>>

\* TaskPlan.freeze.
Freeze ==
  /\ stage = "shaped"
  /\ IF Valid(plan) THEN stage' = "frozen" /\ digest' = plan
     ELSE stage' = "rejected" /\ UNCHANGED digest
  /\ UNCHANGED <<parent, plan>>

\* The caller passes on a dictionary with another dependency, or without the
\* digest.
EditPlan ==
  /\ stage = "frozen"
  /\ \/ \E i \in 1..Len(plan.tasks), ids \in SUBSET Ids :
          plan' = [plan EXCEPT !.tasks[i].deps = ids] /\ UNCHANGED digest
     \/ digest' = NoPlan /\ UNCHANGED plan
  /\ stage' = "edited"
  /\ UNCHANGED parent

\* Mutant: whatever is valid is taken for the plan that was frozen.
IntactIfValid == TRUE

\* assert_immutable, and is_frozen.
Intact == digest # NoPlan /\ plan = digest

\* _plan_from_dict and the first checks of PlanExecutor.start.
LoadPlan ==
  /\ stage \in {"frozen", "edited"}
  /\ stage' = IF Valid(plan) /\ Intact THEN "loaded" ELSE "refused"
  /\ UNCHANGED <<parent, plan, digest>>

ShapingNext == Shape \/ Freeze \/ EditPlan \/ LoadPlan

ShapingSpec == ShapingInit /\ [][ShapingNext]_shapingVars

-----------------------------------------------------------------------------
\* The tasks can be run one after another, each after those it depends on: the
\* reference for the depth-first walk of validate_task_plan.
Orders == UNION {{o \in [1..n -> 1..n] : \A i, j \in 1..n : i # j => o[i] # o[j]} :
                   n \in 1..Len(TaskIds)}
Serializable(tasks) ==
  \E order \in Orders :
    /\ DOMAIN order = 1..Len(tasks)
    /\ \A i \in 1..Len(tasks) : tasks[order[i]].deps \subseteq {tasks[order[j]].id : j \in 1..(i - 1)}

\* A plan that is frozen can be executed to its end by the serial executor and
\* covers what the parent asks for; one that could be, and breaks no other rule
\* of the validation, is not turned away (the depth-first walk and coverage of
\* validate_task_plan against an order that serves all dependencies).
ValidationIsExact ==
  /\ stage \in {"frozen", "loaded"} =>
       /\ Serializable(plan.tasks)
       /\ \A a \in 1..parent.asks : \E i \in 1..Len(plan.tasks) : a \in plan.tasks[i].covers
  /\ stage = "rejected" /\ plan # NoPlan /\ ~parent.alike /\ parent.asks <= Count
       /\ parent.commands /\ parent.owns # "none"
       => ~Serializable(plan.tasks)

\* What plan_start takes is the plan that shape_task froze, although it has been
\* through the caller's hands (assert_immutable on the rebuilt plan).
LoadedIsFrozen == stage = "loaded" => plan = Shaped

\* The executor gets exactly the executable plans, as they were frozen.
ShapingIsExact == ValidationIsExact /\ LoadedIsFrozen
=============================================================================
