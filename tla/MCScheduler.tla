---------------------------- MODULE MCScheduler ----------------------------
(* Instances of Scheduler for TLC: two tasks that may run in either order,   *)
(* and a third, with the higher priority, that waits for both or for a task  *)
(* nobody adds.                                                              *)
EXTENDS Scheduler, TLC

CONSTANTS left, right, merge

Merging == left :> {} @@ right :> {} @@ merge :> {left, right}
Independent == left :> {} @@ right :> {} @@ merge :> {"never_added"}
Priorities == left :> 0 @@ right :> 0 @@ merge :> 1
=============================================================================
