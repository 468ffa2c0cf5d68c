------------------------- MODULE RunLifecycleProofs -------------------------
(***************************************************************************)
(* What the contract of a durable run guarantees by itself, to whatever     *)
(* implements it.                                                           *)
(***************************************************************************)
EXTENDS RunLifecycle, TLAPS

\* No state leads out of the terminal ones: ALLOWED_TRANSITIONS maps them to nothing.
LEMMA TerminalHasNoSuccessor ==
  \A s \in TerminalStates : AllowedTransitions(s) = {}
BY SMT DEF TerminalStates, AllowedTransitions

\* COMPLETE is entered from verification or commit only.
LEMMA CompletePredecessors ==
  ASSUME NEW s \in RunStates, NEW v \in Verifications, CanTransition(s, "COMPLETE", v)
  PROVE  s \in {"VERIFYING", "COMMITTING"} /\ v \notin {"none", "failed"}
BY SMT DEF CanTransition, AllowedTransitions, RunStates

\* What is stored is always one of the payloads.
LEMMA EffectiveType ==
  ASSUME NEW given \in Verifications, NEW stored \in Verifications
  PROVE  Effective(given, stored) \in Verifications
BY DEF Effective

LEMMA TypeOKInit == Init => TypeOK
BY DEF Init, InitialRun, TypeOK, RunStates, Verifications

LEMMA TypeOKStep == TypeOK /\ [Next]_run => TypeOK'
<1> SUFFICES ASSUME TypeOK, [Next]_run PROVE TypeOK'
  OBVIOUS
<1>1. CASE Next
  <2>1. PICK to \in RunStates, given \in Verifications : Transition(to, given)
    BY <1>1 DEF Next
  <2>2. Effective(given, run.verification) \in Verifications
    BY EffectiveType DEF TypeOK
  <2> QED
    BY <2>1, <2>2 DEF Transition, TypeOK
<1>2. CASE UNCHANGED run
  BY <1>2 DEF TypeOK
<1> QED
  BY <1>1, <1>2

\* The record of a run always has its type.
THEOREM TypeCorrect == Spec => []TypeOK
BY TypeOKInit, TypeOKStep, PTL DEF Spec

\* A COMPLETE run has a verification result that does not report failure.
THEOREM CompleteGuarded == Spec => []CompletePassedGuard
<1>1. Init => CompletePassedGuard
  BY DEF Init, InitialRun, CompletePassedGuard
<1>2. TypeOK /\ CompletePassedGuard /\ [Next]_run => CompletePassedGuard'
  <2> SUFFICES ASSUME TypeOK, CompletePassedGuard, [Next]_run, run'.state = "COMPLETE"
               PROVE  run'.verification \notin {"none", "failed"}
    BY DEF CompletePassedGuard
  <2>1. CASE Next
    <3>1. PICK to \in RunStates, given \in Verifications : Transition(to, given)
      BY <2>1 DEF Next
    <3>2. CanTransition(run.state, "COMPLETE", run'.verification)
      BY <3>1 DEF Transition
    <3> QED
      BY <3>2 DEF CanTransition
  <2>2. CASE UNCHANGED run
    BY <2>2 DEF CompletePassedGuard
  <2> QED
    BY <2>1, <2>2
<1> QED
  BY <1>1, <1>2, TypeCorrect, PTL DEF Spec

\* Once COMPLETE, FAILED or CANCELLED, the record never changes again.
THEOREM TerminalForGood == Spec => TerminalIsFinal
<1>1. [Next]_run => [run.state \notin TerminalStates]_run
  <2> SUFFICES ASSUME Next, run.state \in TerminalStates PROVE FALSE
    OBVIOUS
  <2>1. PICK to \in RunStates, given \in Verifications : Transition(to, given)
    BY DEF Next
  <2>2. to \in AllowedTransitions(run.state)
    BY <2>1 DEF Transition, CanTransition
  <2> QED
    BY <2>2, TerminalHasNoSuccessor
<1> QED
  BY <1>1, PTL DEF Spec, TerminalIsFinal

\* COMPLETE is only reached by a run that was being verified or committed.
THEOREM CompletedAfterVerifying == Spec => CompleteOnlyAfterVerifying
<1>1. TypeOK /\ [Next]_run
        => [run'.state = "COMPLETE" => run.state \in {"VERIFYING", "COMMITTING"}]_run
  <2> SUFFICES ASSUME TypeOK, Next, run'.state = "COMPLETE"
               PROVE  run.state \in {"VERIFYING", "COMMITTING"}
    OBVIOUS
  <2>1. PICK to \in RunStates, given \in Verifications : Transition(to, given)
    BY DEF Next
  <2>2. Effective(given, run.verification) \in Verifications
    BY EffectiveType DEF TypeOK
  <2>3. CanTransition(run.state, "COMPLETE", Effective(given, run.verification))
    BY <2>1 DEF Transition
  <2> QED
    BY <2>2, <2>3, CompletePredecessors DEF TypeOK
<1> QED
  BY <1>1, TypeCorrect, PTL DEF Spec, CompleteOnlyAfterVerifying
=============================================================================
