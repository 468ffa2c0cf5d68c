---------------------------- MODULE RunLifecycle ----------------------------
(***************************************************************************)
(* What a durable run promises to everybody who reads it: one versioned     *)
(* record that only ever moves along the transition graph, one version at a *)
(* time.  The SQLite store and the run manager are shown to implement it.   *)
(***************************************************************************)
EXTENDS RunContracts, Naturals

VARIABLE run  \* [state, version, verification]

InitialRun == [state |-> "CREATED", version |-> 1, verification |-> "none"]

Init == run = InitialRun

\* RunRecord.transition_to on the record itself.
Transition(to, given) ==
  LET effective == Effective(given, run.verification)
  IN /\ CanTransition(run.state, to, effective)
     /\ run' = [state |-> to, version |-> run.version + 1, verification |-> effective]

Next == \E to \in RunStates, given \in Verifications : Transition(to, given)

Spec == Init /\ [][Next]_run

-----------------------------------------------------------------------------
TypeOK == run \in [state : RunStates, version : Nat \ {0}, verification : Verifications]

\* A COMPLETE run carries a verification payload that does not report failure:
\* the guard of transition_to is the only door to COMPLETE.
CompletePassedGuard == run.state = "COMPLETE" => run.verification \notin {"none", "failed"}

\* A terminal outcome is final: the record never changes again.
TerminalIsFinal == [][run.state \notin TerminalStates]_run

\* Nobody completes a run that was not being verified or committed just before.
CompleteOnlyAfterVerifying ==
  [][run'.state = "COMPLETE" => run.state \in {"VERIFYING", "COMMITTING"}]_run
=============================================================================
