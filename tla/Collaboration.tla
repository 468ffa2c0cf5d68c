--------------------------- MODULE Collaboration ---------------------------
(***************************************************************************)
(* CollaborationRegistry (agy_collaboration.py): a few tasks, each in a Git *)
(* worktree of its own and run by an AgyJobs job without a task key.  start *)
(* makes the worktrees one by one, registers the session, and starts the    *)
(* jobs one by one; status() asks for the answer about one job and then     *)
(* looks at its worktree, task after task, while the workers go on.  The    *)
(* registry lives and dies with its process, so closes and crashes are left *)
(* to AgyJobs.  A worktree is the set of paths that differ from the base.   *)
(***************************************************************************)
EXTENDS AgyJobs, Sequences

CONSTANTS
  Team,      \* the sequence of the collaboration's tasks
  Mutating,  \* the tasks with expected_mutation
  Paths,     \* the paths of the repository
  Inside,    \* the pairs <<p, q>> of a path p below a directory q
  MaxEdits   \* bound: paths a worker changes

Members == {Team[i] : i \in 1 .. Len(Team)}

\* start refuses an empty list, _validate_task_contract equal ids; of two directories
\* above a path, one is above the other (prefixes).
ASSUME TeamAssumption ==
  /\ Team \in Seq(Members) /\ Team # <<>>
  /\ \A i, k \in 1 .. Len(Team) : Team[i] = Team[k] => i = k
  /\ Mutating \subseteq Members /\ Inside \subseteq Paths \X Paths /\ MaxEdits \in Nat
  /\ \A p, q, r \in Paths :
       <<p, q>> \in Inside /\ <<p, r>> \in Inside
         => q = r \/ <<q, r>> \in Inside \/ <<r, q>> \in Inside
  /\ \A paths \in SUBSET Paths : paths # None
  /\ None \notin {"no_progress", "ready_for_review"}

VARIABLES
  call,        \* the start() call: where it is, and at which task
  owned,       \* the owned_paths of each task
  worktrees,   \* the worktrees of the session, None where there is none
  registered,  \* _sessions has the session
  jobOf,       \* the job_id of each task record
  view,        \* the status() call under way
  report       \* the last answer of status(): the state of the session, and blind

collabVars == <<call, owned, worktrees, registered, jobOf, view, report>>
vars == <<jobVars, collabVars>>

\* idle: a task counts as one without progress; blind: scope_status is unknown, as a
\* worktree was not available.
NoView == [next |-> 0, states |-> <<>>, looked |-> TRUE, idle |-> FALSE, blind |-> FALSE]
NoReport == [state |-> None, blind |-> FALSE]

CollabInit ==
  /\ call \in [pc : {"off", "idle"}, next : {1}]
  /\ owned = [t \in Members |-> {}]
  /\ worktrees = [t \in Members |-> None]
  /\ registered = FALSE
  /\ jobOf = [t \in Members |-> None]
  /\ view = NoView
  /\ report = NoReport

Init == JobsInit /\ CollabInit

\* Mutant: only the same path overlaps.
SamePath(p, q) == p = q

\* _paths_overlap.
PathsOverlap(p, q) == p = q \/ <<p, q>> \in Inside \/ <<q, p>> \in Inside

\* _validate_task_contract.
ValidOwnership(paths) ==
  \A t, u \in Members : t # u => \A p \in paths[t], q \in paths[u] : ~PathsOverlap(p, q)

\* _path_in_scope.
InScope(p, paths) == \E q \in paths : p = q \/ <<p, q>> \in Inside

-----------------------------------------------------------------------------
(* start().                                                                  *)

Calling(label) == call.pc = label
NextTask == Team[call.next]
GoTo(label) == call' = [pc |-> label, next |-> 1]

\* The call for the task that is next is done: the following one, or the label.
NextOr(label) ==
  IF call.next = Len(Team) THEN GoTo(label)
  ELSE call' = [call EXCEPT !.next = @ + 1]

\* The arguments are validated; nothing exists yet.
Propose(paths) ==
  /\ Calling("idle") /\ \E s \in Sessions : session[s] = "up"
  /\ owned' = paths
  /\ GoTo(IF ValidOwnership(paths) THEN "worktrees" ELSE "refused")
  /\ UNCHANGED <<jobVars, worktrees, registered, jobOf, view, report>>

\* git worktree add: when it fails, start raises and leaves those made so far.
CreateWorktree ==
  /\ Calling("worktrees")
  /\ \/ worktrees' = [worktrees EXCEPT ![NextTask] = {}] /\ NextOr("register")
     \/ GoTo("raised") /\ UNCHANGED worktrees
  /\ UNCHANGED <<jobVars, owned, registered, jobOf, view, report>>

\* Mutant: the session is registered when all its jobs run.
RegisterLast ==
  /\ Calling("register")
  /\ GoTo("starting")
  /\ registered' = (\A t \in Members : jobOf[t] # None)
  /\ UNCHANGED <<jobVars, owned, worktrees, jobOf, view, report>>

Register ==
  /\ Calling("register")
  /\ GoTo("starting")
  /\ registered' = TRUE
  /\ UNCHANGED <<jobVars, owned, worktrees, jobOf, view, report>>

\* jobs.start for the task that is next ...
StartJob(s, j) ==
  /\ Calling("starting") /\ view.next = 0
  /\ \A i \in Jobs : At(i, "none") \/ At(i, "accepted")
  /\ \A i \in Jobs : At(i, "accepted") => \E t \in Members : jobOf[t] = i
  /\ Start(s, j, None)
  /\ UNCHANGED collabVars

\* ... returns, or raises: the tasks that follow never get a job.
JobStarted(j) ==
  /\ Calling("starting")
  /\ \A t \in Members : jobOf[t] # j
  /\ \/ /\ At(j, "accepted")
        /\ jobOf' = [jobOf EXCEPT ![NextTask] = j]
        /\ NextOr("returned")
     \/ At(j, "raised") /\ GoTo("raised") /\ UNCHANGED jobOf
  /\ UNCHANGED <<jobVars, owned, worktrees, registered, view, report>>

-----------------------------------------------------------------------------
(* status(), and what the workers do.                                        *)

Asked == IF view.next = 0 THEN Team[1] ELSE Team[view.next]

JobAnswer(t) ==
  IF jobOf[t] = None THEN "failed" ELSE Answer(Owner(jobOf[t]), jobOf[t])

\* status() begins with the first task, and goes on from one to the next.
Ask ==
  /\ call.pc \in {"returned", "raised"} /\ registered
  /\ view = NoView
  /\ view' = [view EXCEPT !.next = 1, !.looked = FALSE]
  /\ UNCHANGED <<jobVars, call, owned, worktrees, registered, jobOf, report>>

AskJob ==
  /\ view.next > 0 /\ ~view.looked /\ Len(view.states) < view.next
  /\ view' = [view EXCEPT !.states = Append(@, JobAnswer(Asked))]
  /\ UNCHANGED <<jobVars, call, owned, worktrees, registered, jobOf, report>>

\* A completed task that was to change something in its scope, and of which no such
\* change is known.
NoProgress(t, answer, changed) ==
  /\ t \in Mutating /\ answer = "completed"
  /\ ~\E p \in changed : InScope(p, owned[t])

\* Mutant: the scope status is that of the last worktree.
UnknownLast(blind, available) == ~available

\* The scope is unknown once one worktree was not available.
ScopeUnknown(blind, available) == blind \/ ~available

\* inspect: git status and git diff in the worktree.  When the directory is missing or a
\* call of git fails there are no changed_files, and the task counts as one without any.
LookAtWorktree ==
  /\ view.next > 0 /\ ~view.looked /\ Len(view.states) = view.next
  /\ \E available \in BOOLEAN :
       LET changed == IF available THEN worktrees[Asked] ELSE {} IN
       view' = [view EXCEPT !.idle = @ \/ NoProgress(Asked, view.states[view.next], changed),
                            !.blind = ScopeUnknown(@, available),
                            !.looked = view.next = Len(Team),
                            !.next = IF @ = Len(Team) THEN @ ELSE @ + 1]
  /\ UNCHANGED <<jobVars, call, owned, worktrees, registered, jobOf, report>>

\* Mutant: what has not failed and does not run is done.
AggregateRest(states, idle) ==
  IF states \cap {"failed", "unknown", "interrupted"} # {} THEN "failed"
  ELSE IF "active" \in states /\ "completed" \notin states THEN "running"
  ELSE IF idle THEN "no_progress" ELSE "ready_for_review"

\* The state of the session (an interrupted job answers unknown; queued and
\* running are one here).
Aggregate(states, idle) ==
  IF states \cap {"failed", "unknown", "interrupted"} # {} THEN "failed"
  ELSE IF states \subseteq {"completed"}
  THEN IF idle THEN "no_progress" ELSE "ready_for_review"
  ELSE "running"

Report ==
  /\ view.next > 0 /\ view.looked
  /\ report' = [state |-> Aggregate({view.states[i] : i \in 1 .. Len(view.states)}, view.idle),
                 blind |-> view.blind]
  /\ view' = NoView
  /\ UNCHANGED <<jobVars, call, owned, worktrees, registered, jobOf>>

TaskOf(j) == {t \in Members : jobOf[t] = j}

\* The worker of a task, started by now or being started, changes a file (of the
\* tasks whose changes count).
Edit(j, p) ==
  LET mine == IF TaskOf(j) = {} THEN {NextTask} ELSE TaskOf(j) IN
  /\ In(j, "working")
  /\ \E t \in mine \cap Mutating :
       /\ Cardinality(worktrees[t]) < MaxEdits
       /\ worktrees' = [worktrees EXCEPT ![t] = @ \cup {p}]
  /\ UNCHANGED <<jobVars, call, owned, registered, jobOf, view, report>>

Collaborate ==
  \/ \E paths \in [Members -> {{p} : p \in Paths}] : Propose(paths)
  \/ CreateWorktree \/ Register
  \/ \E s \in Sessions, j \in Jobs : StartJob(s, j)
  \/ \E j \in Jobs : JobStarted(j)
  \/ Ask \/ AskJob \/ LookAtWorktree \/ Report
  \/ \E j \in Jobs, p \in Paths : Edit(j, p)

\* The jobs go on meanwhile, in the one process; their rows are kept for a week.
JobsGoOn ==
  /\ \/ \E s \in Sessions : (\A t \in Sessions : session[t] = "down") /\ Open(s)
     \/ \E s \in Sessions, j \in Jobs : Forget(s, j)
     \/ \E j \in Jobs : StartCall(j) \/ PoolThread(j)
  /\ UNCHANGED collabVars

Next ==
  \/ Calling("off") /\ JobsNext /\ UNCHANGED collabVars
  \/ ~Calling("off") /\ (Collaborate \/ JobsGoOn)

Fairness ==
  /\ \A j \in Jobs : WF_vars(StartCall(j) /\ UNCHANGED collabVars)
                     /\ WF_vars(PoolThread(j) /\ UNCHANGED collabVars)
  /\ \A s \in Sessions : WF_vars(Closing(s) /\ UNCHANGED collabVars)
                         /\ WF_vars(WatchdogWrites(s) /\ UNCHANGED collabVars)

Spec == Init /\ [][Next]_vars /\ Fairness
-----------------------------------------------------------------------------
(* Properties.                                                               *)

\* Every variable has its type.
TypeOK ==
  /\ JobsTypeOK
  /\ call.next \in 1 .. Len(Team)
  /\ owned \in [Members -> SUBSET Paths]
  /\ worktrees \in [Members -> (SUBSET Paths) \cup {None}]
  /\ jobOf \in [Members -> Jobs \cup {None}]
  /\ report \in [state : {None, "failed", "running", "no_progress", "ready_for_review"},
                 blind : BOOLEAN]

AtWork == {j \in Jobs : In(j, "working")}

\* A worker works for a session that status() knows and in a worktree that exists,
\* also when start raises half way (start registers before it starts).
WorkersAreTracked ==
  ~Calling("off") /\ AtWork # {} =>
    registered /\ \A t \in Members : worktrees[t] # None

\* What one task changes in its scope is in no other task's scope, whichever way
\* the owned paths nest, so that the branches merge.
ScopesAreDisjoint ==
  registered => \A t, u \in Members, p \in Paths :
    InScope(p, owned[t]) /\ InScope(p, owned[u]) => t = u

\* What works for a session, its caller can find, and it keeps to its own scope.
SessionsAreSound == WorkersAreTracked /\ ScopesAreDisjoint

\* A session that was reported ready for review or without progress is at rest.  Ready
\* for review it holds in-scope changes of every task that was to make some; without
\* progress it has a completed task without any, if the answer saw every worktree: one of
\* an unknown scope may take work it could not look at for none (status reads the answer
\* about a job before it looks at the worktree).
ReviewIsEarned ==
  LET idle == \E t \in Mutating : ~\E p \in worktrees[t] : InScope(p, owned[t])
  IN  /\ report.state \in {"no_progress", "ready_for_review"} => AtWork = {}
      /\ report.state = "ready_for_review" => ~idle
      /\ report.state = "no_progress" /\ ~report.blind => idle
=============================================================================
