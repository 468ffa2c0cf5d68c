----------------------------- MODULE SerialDag -----------------------------
(***************************************************************************)
(* What both executors of a graph of tasks promise: one task is worked on   *)
(* at a time, only when all it needs is done and it is not; work that is    *)
(* over is done or dropped, and what is done stays done.  TaskDAGScheduler  *)
(* is shown to implement it, and PlanExecutor with its child runs, whatever *)
(* their threads, retries, crashes and stale records do.                    *)
(***************************************************************************)
CONSTANT Tasks

VARIABLES
  needs,  \* the dependencies of each task
  done,   \* the tasks whose work was taken
  at      \* the tasks at work

vars == <<needs, done, at>>

Init == done = {} /\ at = {}

Begin(t) ==
  /\ at = {}
  /\ t \notin done /\ needs[t] \subseteq done
  /\ at' = {t}
  /\ UNCHANGED <<needs, done>>

Finish(t) ==
  /\ at = {t}
  /\ at' = {} /\ done' = done \cup {t}
  /\ UNCHANGED needs

\* The work failed, was cancelled or suspended, or its result is lost.
Drop(t) ==
  /\ at = {t}
  /\ at' = {}
  /\ UNCHANGED <<needs, done>>

Next == \E t \in Tasks : Begin(t) \/ Finish(t) \/ Drop(t)

Spec == Init /\ [][Next]_vars
=============================================================================
