-------------------------- MODULE SupervisionProofs --------------------------
(***************************************************************************)
(* Proofs about the two machines that supervise work: the call of a worker  *)
(* process (AgyRunner), for any limit on the extensions and any budgets,    *)
(* and the repair loop (RepairLoop), for any call, any limit on the rounds  *)
(* and any interference; about what to do when they fail (Advice); and      *)
(* about the plans they are given work from, for any objectives and any     *)
(* dependencies (TaskShaping).                                              *)
(*                                                                          *)
(* The answer of a call of a worker depends on how it got to its place:     *)
(* Route says what each place tells about the launches and their workers.   *)
(*                                                                          *)
(* Rounds ties the round counter of the loop to the calls of the repair     *)
(* callback, Earned says at which places of the loop the evidence is good,  *)
(* and Undisturbed what the row is at while nobody else moves it.           *)
(*                                                                          *)
(* What a valid plan is worth, and that none that could be executed is      *)
(* turned away, rests on the walk over its dependencies, with an invariant  *)
(* of the walk for each of the two directions.                              *)
(***************************************************************************)
EXTENDS AgyRunner, RepairLoop, Advice, TaskShaping, FiniteSetTheorems, TLAPS

-----------------------------------------------------------------------------
(* The call of a worker process.                                             *)

Route ==
  /\ pc # "done" => outcome = NoOutcome
  /\ pc = "start" => attempt = "none" /\ ~worker.alive
  /\ pc = "judge" => /\ attempt = "pipes" /\ direct = worker
                     /\ ~worker.alive /\ ~worker.tty
  /\ pc = "drain" => attempt = "pipes" /\ ~worker.alive /\ clock.expired
  /\ pc = "wait" => attempt = "terminal"
  /\ pc = "watch" => attempt # "none"
  /\ pc \in {"watch", "judge", "wait"} => worker.code \in ExitCodes

RunnerInv == RunnerTypeOK /\ Route /\ AnswerIsTrue /\ OneWorkerAtATime

-----------------------------------------------------------------------------
\* The binding hands on a candidate for the exit code 0 alone.
LEMMA CandidateIsSuccess ==
  ASSUME NEW quotaText \in BOOLEAN
  PROVE  Bound(quotaText) = "candidate" <=> outcome.kind = "result" /\ outcome.exit = 0
  BY DEF Bound

\* What SuccessIsWitnessed says without the binding.
LEMMA Witness ==
  SuccessIsWitnessed <=>
    (outcome.kind = "result" /\ outcome.exit = 0 =>
       \/ attempt = "visible" /\ worker.code = 0
       \/ worker.printed /\ worker.code = 0
       \/ worker.printed /\ attempt = "terminal" /\ worker.code = Hangup)
  BY CandidateIsSuccess DEF SuccessIsWitnessed

\* The same after a step.
LEMMA WitnessAfter ==
  SuccessIsWitnessed' <=>
    (outcome'.kind = "result" /\ outcome'.exit = 0 =>
       \/ attempt' = "visible" /\ worker'.code = 0
       \/ worker'.printed /\ worker'.code = 0
       \/ worker'.printed /\ attempt' = "terminal" /\ worker'.code = Hangup)
  BY DEF SuccessIsWitnessed, Bound

\* No worker ends of itself with the code of a kill.
LEMMA KilledIsNoExit == Killed \notin ExitCodes
  BY DEF Killed, ExitCodes, Hangup

\* A kill leaves a worker that is not alive.
LEMMA KillKills ==
  ASSUME RunnerTypeOK, Kills
  PROVE  worker' \in Workers /\ ~worker'.alive /\ worker'.printed = worker.printed
  BY DEF RunnerTypeOK, Workers, Kills

-----------------------------------------------------------------------------
LEMMA InitRunnerInv == ASSUME RunnerInit PROVE RunnerInv
<1> USE RunnerAssumption DEF RunnerInit
<1>1. RunnerTypeOK
  BY DEF RunnerTypeOK, Places, Attempts, Workers, NoWorker, Clocks, Outcomes, NoOutcome, ExitCodes
<1>2. Route /\ TimeoutIsRaised /\ OneWorkerAtATime
  BY DEF Route, TimeoutIsRaised, OneWorkerAtATime, NothingLeftRunning, SecondRunAfterSilence,
         NoWorker, NoOutcome, ExitCodes
<1>3. SuccessIsWitnessed
  BY Witness DEF NoOutcome
<1> QED
  BY <1>1, <1>2, <1>3 DEF RunnerInv, AnswerIsTrue

-----------------------------------------------------------------------------
\* The parts of RunnerInv that a step of the worker, or of time, can disturb.
LEMMA WorkerStepsKeep ==
  ASSUME RunnerInv, WorkerSteps \/ DeadlinePasses
  PROVE  RunnerInv'
<1> USE RunnerAssumption DEF RunnerInv
<1>1. CASE WorkerSteps
  <2>1. /\ UNCHANGED <<host, pc, attempt, clock, direct, outcome>>
        /\ worker' \in Workers
        /\ ~worker.alive => ~worker'.alive /\ (worker'.tty => worker.tty)
        /\ ~worker.alive => worker'.printed = worker.printed /\ worker'.code = worker.code
        /\ worker.code \in ExitCodes => worker'.code \in ExitCodes
        /\ ~worker.alive /\ ~worker.tty => worker' = worker
    BY <1>1 DEF RunnerTypeOK, WorkerSteps, WorkerPrints, WorkerDetaches, WorkerExits,
                DescendantsEnd, Workers
  <2>2. RunnerTypeOK'
    BY <2>1 DEF RunnerTypeOK
  <2>3. Route'
    BY <2>1 DEF Route
  <2>4. TimeoutIsRaised' /\ OneWorkerAtATime'
    <3>1. worker.alive => pc # "done"
      BY DEF OneWorkerAtATime, NothingLeftRunning
    <3>2. worker.alive => outcome.kind = "none"
      BY <3>1 DEF Route, NoOutcome
    <3> QED
      BY <2>1, <3>2 DEF TimeoutIsRaised, AnswerIsTrue, OneWorkerAtATime, NothingLeftRunning,
                        SecondRunAfterSilence
  <2>5. SuccessIsWitnessed'
    BY <2>1, Witness, WitnessAfter DEF AnswerIsTrue, Route, NoOutcome, OneWorkerAtATime,
                                       NothingLeftRunning
  <2> QED
    BY <2>2, <2>3, <2>4, <2>5 DEF AnswerIsTrue
<1>2. CASE DeadlinePasses
  <2> USE <1>2 DEF DeadlinePasses
  <2>1. RunnerTypeOK'
    BY DEF RunnerTypeOK, Clocks
  <2>2. Route' /\ TimeoutIsRaised' /\ OneWorkerAtATime'
    BY DEF Route, NoOutcome, TimeoutIsRaised, OneWorkerAtATime, NothingLeftRunning,
           SecondRunAfterSilence
  <2>3. SuccessIsWitnessed'
    BY Witness, WitnessAfter DEF AnswerIsTrue
  <2> QED
    BY <2>1, <2>2, <2>3 DEF AnswerIsTrue
<1> QED
  BY <1>1, <1>2

\* A step of the call that does not end it.
LEMMA MovesKeep ==
  ASSUME RunnerInv, LaunchFirst \/ Extend \/ PipesEnd \/ PosixLeaves
  PROVE  RunnerInv'
<1> USE RunnerAssumption DEF RunnerInv
<1>1. outcome = NoOutcome /\ outcome' = NoOutcome /\ pc' # "done"
  BY DEF Route, LaunchFirst, Launches, Extend, PipesEnd, PosixLeaves, NoOutcome
<1>2. AnswerIsTrue'
  BY <1>1, WitnessAfter DEF AnswerIsTrue, TimeoutIsRaised, NoOutcome
<1>3. CASE LaunchFirst
  BY <1>1, <1>2, <1>3 DEF LaunchFirst, Launches, RunnerTypeOK, Places, Attempts, Workers, FreshWorker,
                ExitCodes, Clocks, Route, OneWorkerAtATime, NothingLeftRunning, SecondRunAfterSilence
<1>4. CASE Extend
  BY <1>1, <1>2, <1>4 DEF Extend, Extended, RunnerTypeOK, Clocks, Route, OneWorkerAtATime,
                NothingLeftRunning, SecondRunAfterSilence
<1>5. CASE PipesEnd
  BY <1>1, <1>2, <1>5 DEF PipesEnd, RunnerTypeOK, Places, Route, OneWorkerAtATime,
                NothingLeftRunning, SecondRunAfterSilence
<1>6. CASE PosixLeaves
  BY <1>1, <1>2, <1>6 DEF PosixLeaves, RunnerTypeOK, Places, Route, OneWorkerAtATime,
                NothingLeftRunning, SecondRunAfterSilence
<1> QED
  BY <1>3, <1>4, <1>5, <1>6

\* The call is told what happened to the launch on pipes, or launches the second.
LEMMA JudgeKeeps ==
  ASSUME RunnerInv, JudgePipes
  PROVE  RunnerInv'
<1> USE RunnerAssumption DEF RunnerInv
<1>0. pc = "judge" /\ direct = worker /\ ~worker.alive
      /\ worker.code \in ExitCodes /\ worker \in Workers /\ UNCHANGED <<host, direct>>
      /\ outcome = NoOutcome
  BY DEF JudgePipes, Route, RunnerTypeOK
<1>1. CASE Answered /\ Ends("result", direct.code, TRUE) /\ UNCHANGED <<attempt, worker, clock>>
  <2>1. SuccessIsWitnessed'
    BY <1>0, <1>1, WitnessAfter DEF Answered, Ends
  <2>2. RunnerTypeOK' /\ Route' /\ TimeoutIsRaised' /\ OneWorkerAtATime'
    BY <1>0, <1>1, KilledIsNoExit DEF Ends, RunnerTypeOK, Places, Outcomes, Route, TimeoutIsRaised,
       OneWorkerAtATime, NothingLeftRunning, SecondRunAfterSilence
  <2> QED
    BY <2>1, <2>2 DEF AnswerIsTrue
<1>2. CASE ~Answered /\ Launches("terminal") /\ UNCHANGED outcome
  <2>1. SuccessIsWitnessed' /\ TimeoutIsRaised'
    BY <1>0, <1>2, WitnessAfter DEF TimeoutIsRaised, NoOutcome
  <2>2. RunnerTypeOK' /\ Route'
    BY <1>0, <1>2 DEF Launches, RunnerTypeOK, Places, Attempts, Workers, FreshWorker, ExitCodes,
                      Clocks, Route, NoOutcome
  <2>3. OneWorkerAtATime'
    BY <1>0, <1>2 DEF Answered, Launches, OneWorkerAtATime, NothingLeftRunning,
                      SecondRunAfterSilence
  <2> QED
    BY <2>1, <2>2, <2>3 DEF AnswerIsTrue
<1>3. CASE Ends("result", -1, FALSE) /\ UNCHANGED <<attempt, worker, clock>>
  <2>1. SuccessIsWitnessed'
    BY <1>0, <1>3, WitnessAfter DEF Ends
  <2>2. RunnerTypeOK' /\ Route' /\ TimeoutIsRaised' /\ OneWorkerAtATime'
    BY <1>0, <1>3 DEF Ends, RunnerTypeOK, Places, Outcomes, ExitCodes, Hangup, Killed, Route,
       TimeoutIsRaised, OneWorkerAtATime, NothingLeftRunning, SecondRunAfterSilence
  <2> QED
    BY <2>1, <2>2 DEF AnswerIsTrue
<1> QED
  BY <1>1, <1>2, <1>3 DEF JudgePipes

\* The answer made of the two launches is earned.
LEMMA TerminalAnswersKeep ==
  ASSUME RunnerInv, attempt = "terminal", pc \in {"watch", "wait"}, ~worker.alive,
         TerminalAnswers, UNCHANGED <<host, attempt, worker, clock, direct>>
  PROVE  RunnerInv'
<1> USE RunnerAssumption DEF RunnerInv
<1>1. worker.code \in ExitCodes /\ direct.code = 0 /\ worker \in Workers
  BY DEF Route, RunnerTypeOK, OneWorkerAtATime, SecondRunAfterSilence
<1>2. /\ pc' = "done" /\ outcome'.kind = "result" /\ outcome' \in Outcomes
      /\ outcome'.exit = 0 => worker.printed /\ worker.code \in {0, Hangup}
  <2>1. CASE worker.printed
    <3> DEFINE exit == IF worker.code = Hangup THEN direct.code ELSE worker.code
    <3>1. exit \in ExitCodes /\ (exit = 0 => worker.code \in {0, Hangup})
      BY <1>1 DEF ExitCodes, Hangup
    <3>2. pc' = "done" /\ outcome' = [kind |-> "result", exit |-> exit, printed |-> TRUE]
      BY <2>1 DEF TerminalAnswers, Ends
    <3> QED
      BY <2>1, <3>1, <3>2 DEF Outcomes
  <2>2. CASE ~worker.printed
    <3>1. SilentExit(worker.code) \in ExitCodes /\ SilentExit(worker.code) # 0
      BY <1>1 DEF SilentExit, ExitCodes, Hangup
    <3>2. /\ pc' = "done"
          /\ outcome' = [kind |-> "result", exit |-> SilentExit(worker.code), printed |-> FALSE]
      BY <2>2 DEF TerminalAnswers, Ends
    <3> QED
      BY <3>1, <3>2 DEF Outcomes
  <2> QED
    BY <2>1, <2>2
<1>3. SuccessIsWitnessed'
  BY <1>2, WitnessAfter
<1>4. RunnerTypeOK' /\ Route' /\ TimeoutIsRaised' /\ OneWorkerAtATime'
  BY <1>1, <1>2, KilledIsNoExit DEF RunnerTypeOK, Places, Route, TimeoutIsRaised,
     OneWorkerAtATime, NothingLeftRunning, SecondRunAfterSilence
<1> QED
  BY <1>3, <1>4 DEF AnswerIsTrue

\* The steps that end a call.
LEMMA EndsKeep ==
  ASSUME RunnerInv, RefuseCall \/ TimeOut \/ Drain \/ VisibleEnds \/ PosixReaps \/ ConptyEnds
  PROVE  RunnerInv'
<1> USE RunnerAssumption DEF RunnerInv
<1>1. CASE RefuseCall
  <2>1. SuccessIsWitnessed'
    BY <1>1, WitnessAfter DEF RefuseCall, Ends
  <2>2. RunnerTypeOK' /\ Route' /\ TimeoutIsRaised' /\ OneWorkerAtATime'
    BY <1>1 DEF RefuseCall, Ends, RunnerTypeOK, Places, Outcomes, ExitCodes, Route,
                TimeoutIsRaised, OneWorkerAtATime, NothingLeftRunning, SecondRunAfterSilence
  <2> QED
    BY <2>1, <2>2 DEF AnswerIsTrue
<1>2. CASE TimeOut
  <2>1. worker' \in Workers /\ ~worker'.alive
    BY <1>2, KillKills DEF TimeOut
  <2>2. /\ pc = "watch" /\ clock.expired /\ UNCHANGED <<host, attempt, clock, direct>>
        /\ attempt \in Attempts /\ attempt # "none" /\ outcome = NoOutcome
    BY <1>2 DEF TimeOut, Route, RunnerTypeOK
  <2>3. \/ attempt = "pipes" /\ pc' = "drain" /\ outcome' = outcome
        \/ Ends("timeout", 0, FALSE)
    BY <1>2, <2>2 DEF TimeOut, RaisedOnTerminal, Attempts
  <2>4. SuccessIsWitnessed'
    BY <2>2, <2>3, WitnessAfter DEF Ends, NoOutcome
  <2>5. RunnerTypeOK'
    <3>1. [kind |-> "timeout", exit |-> 0, printed |-> FALSE] \in Outcomes
      BY DEF Outcomes, ExitCodes
    <3>2. outcome' \in Outcomes /\ pc' \in Places
      BY <2>3, <3>1 DEF Ends, Places, RunnerTypeOK
    <3> QED
      BY <2>1, <2>2, <3>2 DEF RunnerTypeOK
  <2>6. Route'
    BY <2>1, <2>2, <2>3 DEF Ends, Route
  <2>7. TimeoutIsRaised' /\ OneWorkerAtATime'
    BY <2>1, <2>2, <2>3 DEF Ends, NoOutcome, TimeoutIsRaised, OneWorkerAtATime,
                            NothingLeftRunning, SecondRunAfterSilence
  <2> QED
    BY <2>4, <2>5, <2>6, <2>7 DEF AnswerIsTrue
<1>3. CASE Drain
  <2>1. SuccessIsWitnessed'
    BY <1>3, WitnessAfter DEF Drain, Ends
  <2>2. RunnerTypeOK' /\ Route' /\ TimeoutIsRaised' /\ OneWorkerAtATime'
    BY <1>3 DEF Drain, Ends, RunnerTypeOK, Places, Outcomes, ExitCodes, Route,
                TimeoutIsRaised, OneWorkerAtATime, NothingLeftRunning, SecondRunAfterSilence
  <2> QED
    BY <2>1, <2>2 DEF AnswerIsTrue
<1>4. CASE VisibleEnds
  <2>1. SuccessIsWitnessed'
    BY <1>4, WitnessAfter DEF VisibleEnds, Ends
  <2>2. RunnerTypeOK' /\ Route' /\ TimeoutIsRaised' /\ OneWorkerAtATime'
    BY <1>4, KilledIsNoExit DEF VisibleEnds, Ends, RunnerTypeOK, Places, Workers, Outcomes, Route,
       TimeoutIsRaised, OneWorkerAtATime, NothingLeftRunning, SecondRunAfterSilence
  <2> QED
    BY <2>1, <2>2 DEF AnswerIsTrue
<1>5. CASE PosixReaps
  BY <1>5, TerminalAnswersKeep DEF PosixReaps, Route
<1>6. CASE ConptyEnds
  <2>1. CASE ~worker.alive /\ TerminalAnswers /\ UNCHANGED worker
    BY <1>6, <2>1, TerminalAnswersKeep DEF ConptyEnds
  <2>2. CASE worker.alive /\ Terminates /\ Ends("result", -1, FALSE)
    <3>1. worker' \in Workers /\ ~worker'.alive
      BY <2>2, KillKills DEF Terminates
    <3>2. SuccessIsWitnessed'
      BY <2>2, WitnessAfter DEF Ends
    <3>3. RunnerTypeOK' /\ Route' /\ TimeoutIsRaised' /\ OneWorkerAtATime'
      BY <1>6, <2>2, <3>1 DEF ConptyEnds, Ends, RunnerTypeOK, Places, Outcomes, ExitCodes, Hangup, Killed,
         Route, TimeoutIsRaised, OneWorkerAtATime, NothingLeftRunning, SecondRunAfterSilence
    <3> QED
      BY <3>2, <3>3 DEF AnswerIsTrue
  <2> QED
    BY <1>6, <2>1, <2>2 DEF ConptyEnds
<1> QED
  BY <1>1, <1>2, <1>3, <1>4, <1>5, <1>6

-----------------------------------------------------------------------------
\* RunnerInv is inductive.
LEMMA RunnerInductive == ASSUME RunnerInv, [RunnerNext]_runnerVars PROVE RunnerInv'
<1>1. CASE UNCHANGED runnerVars
  <2>1. SuccessIsWitnessed'
    BY <1>1, Witness, WitnessAfter DEF runnerVars, RunnerInv, AnswerIsTrue
  <2> QED
    BY <1>1, <2>1 DEF runnerVars, RunnerInv, RunnerTypeOK, Route, AnswerIsTrue, TimeoutIsRaised,
       OneWorkerAtATime, NothingLeftRunning, SecondRunAfterSilence
<1> QED
  BY <1>1, WorkerStepsKeep, MovesKeep, JudgeKeeps, EndsKeep DEF RunnerNext, Watch

LEMMA AlwaysRunnerInv == RunnerSpec => []RunnerInv
<1>1. RunnerInit => RunnerInv
  BY InitRunnerInv
<1>2. RunnerInv /\ [RunnerNext]_runnerVars => RunnerInv'
  BY RunnerInductive
<1> QED
  BY <1>1, <1>2, PTL DEF RunnerSpec

\* Every variable of the runner's model has its type, however many extensions it allows.
THEOREM RunnerTypeCorrect == RunnerSpec => []RunnerTypeOK
<1>1. RunnerInv => RunnerTypeOK
  BY DEF RunnerInv
<1> QED
  BY <1>1, AlwaysRunnerInv, PTL

\* Silence, a broken terminal, a timeout and a kill by the supervisor never pass for
\* success, and a deadline that killed the worker is a timeout, although answers come
\* after the deadline too (the exit codes run_agy puts together).
THEOREM AnswersAreTrue == RunnerSpec => []AnswerIsTrue
<1>1. RunnerInv => AnswerIsTrue
  BY DEF RunnerInv
<1> QED
  BY <1>1, AlwaysRunnerInv, PTL

\* The second launch begins only when the first worker has ended well and silently,
\* and no worker is left once the call is over (the kills and finally clauses).
THEOREM WorkersExclude == RunnerSpec => []OneWorkerAtATime
<1>1. RunnerInv => OneWorkerAtATime
  BY DEF RunnerInv
<1> QED
  BY <1>1, AlwaysRunnerInv, PTL

\* derive_agy_print_timeout leaves the supervisor its margin: for every budget above
\* one second agy's own timeout fires first.
THEOREM PrintTimeoutBelowBudget ==
  ASSUME NEW budget \in Nat, budget > 10
  PROVE  10 * PrintTimeout(budget) < budget
<1>1. CASE budget <= 600
  <2>1. PrintCeiling(budget) \in Nat
    BY <1>1 DEF PrintCeiling, Greatest
  <2> QED
    BY <1>1, <2>1 DEF PrintTimeout, Least, Greatest
<1>2. CASE budget > 600
  <2>1. PrintCeiling(budget) = 10 * budget - 6000 /\ PrintCeiling(budget) \in Nat
    BY <1>2 DEF PrintCeiling
  <2> QED
    BY <1>2, <2>1 DEF PrintTimeout, Least, Greatest
<1> QED
  BY <1>1, <1>2

-----------------------------------------------------------------------------
(* The repair loop.                                                          *)

Repairing == {"repairing", "repair_mark", "repair"}
Passing == {"gate", "completing", "commit", "complete"}
Ending == {"failing", "fail", "returned", "raised"}
Writing == {"cancel", "mark", "commit", "complete", "repair_mark", "fail"}
Movable == {"QUEUED", "RUNNING", "VERIFYING", "REPAIRING"}

\* Every round but the current one has called the callback once.
Rounds ==
  /\ loop.round <= setup.limit
  /\ loop.pc \notin Ending => loop.calls = loop.round
  /\ loop.pc \in Repairing => loop.round < setup.limit
  /\ loop.calls <= setup.limit

\* The evidence is that of the last verification, and good wherever a commit or a
\* completion may follow.
Earned ==
  /\ loop.pc \in Passing \cup {"scope"} => loop.evidence.after = loop.calls
  /\ loop.pc \in Passing => Passed(loop.evidence)
  /\ loop.allowed =>
       /\ setup.policy # "NEVER" /\ setup.risk \in CommitRisks
       /\ loop.pc \in {"completing", "commit", "complete", "returned", "raised"}
       /\ Passed(loop.evidence)
       /\ loop.gate \cap (ScopeFaults \cup {"migration"}) = {}
  /\ row.commit => loop.allowed
  /\ loop.result = "COMPLETE" \/ row.state = "COMPLETE" =>
       loop.pc = "returned" /\ Passed(loop.evidence) /\ loop.evidence.after = loop.calls

\* Without interference the loop writes the row it read, and the row is in a state
\* from which the write is a legal step.
Undisturbed ==
  disturbances = 0 =>
    /\ loop.pc \in Writing => loop.read = row
    /\ loop.pc \notin {"complete", "returned", "raised"} => row.state \in Movable
    /\ loop.pc = "returned" => row.state = loop.result

LoopInv == LoopTypeOK /\ Rounds /\ Earned /\ Undisturbed

-----------------------------------------------------------------------------
LEMMA CallsTyped ==
  ASSUME LoopTypeOK
  PROVE  /\ setup \in [limit : 0..MaxLimit, policy : Policies, risk : RiskClasses,
                       callback : BOOLEAN]
         /\ MaxLimit \in Nat /\ setup.limit \in Nat /\ setup.limit <= MaxLimit
  BY LoopAssumption DEF LoopTypeOK

\* What a transition of the row is.
LEMMA MovedIs ==
  ASSUME NEW target \in RunStates, NEW given \in Verifications, NEW round \in 0..MaxLimit,
         NEW commit \in BOOLEAN, row \in Rows, Moved(target, given, round, commit)
  PROVE  /\ row' \in Rows /\ row'.state = target
         /\ row'.commit => row.commit \/ commit
  BY DEF Moved, Rows, Effective

LEMMA TryMoveIs ==
  ASSUME NEW target \in RunStates, NEW given \in Verifications, NEW round \in 0..MaxLimit,
         row \in Rows, TryMove(target, given, round)
  PROVE  /\ row' \in Rows /\ row'.state \in {row.state, target}
         /\ row'.commit => row.commit
         /\ Accepted(target, given) => row'.state = target
<1>1. CASE Accepted(target, given)
  BY <1>1, MovedIs DEF TryMove
<1>2. CASE ~Accepted(target, given)
  BY <1>2 DEF TryMove
<1> QED
  BY <1>1, <1>2

LEMMA PayloadTyped == Payload \in Verifications
  BY DEF Payload, Verifications

\* What the steps of the loop do to the row: at most one of six moves, a commit mark
\* only from the commit gate and COMPLETE only at the end.
LEMMA RowSteps ==
  ASSUME LoopInv, [LoopNext]_loopVars
  PROVE  /\ row' \in Rows
         /\ row'.commit => row.commit \/ (Commit /\ loop.allowed /\ loop'.pc = "complete")
         /\ row'.state = "COMPLETE" =>
              row.state = "COMPLETE" \/ (Complete /\ loop'.pc = "returned")
<1> USE DEF LoopInv
<1>0. row \in Rows /\ loop.round \in 0..MaxLimit
  BY DEF LoopTypeOK
<1>1. CASE UNCHANGED row
  BY <1>0, <1>1
<1>2. CASE Cancel
  <2>1. CASE Moved("CANCELLED", "none", row.round, FALSE)
    <3>1. row.round \in 0..MaxLimit
      BY <1>0 DEF Rows
    <3> QED
      BY <1>0, <2>1, <3>1, MovedIs DEF RunStates, Verifications
  <2> QED
    BY <1>1, <1>2, <2>1 DEF Cancel
<1>3. CASE Mark
  BY <1>0, <1>3, TryMoveIs DEF Mark, RunStates, Verifications
<1>4. CASE Commit
  <2>1. CASE Moved("COMMITTING", "passed", row.round, TRUE)
    BY <1>0, <1>4, <2>1, MovedIs DEF Commit, RunStates, Verifications, Rows, Goes, Returns, LoopTypeOK
  <2> QED
    BY <1>1, <1>4, <2>1 DEF Commit
<1>5. CASE Complete
  <2>1. CASE Moved("COMPLETE", "passed", loop.round, FALSE) /\ Returns("COMPLETE")
    BY <1>0, <1>5, <2>1, MovedIs DEF RunStates, Verifications, Returns, LoopTypeOK
  <2> QED
    BY <1>1, <1>5, <2>1 DEF Complete
<1>6. CASE RepairMark
  <2>1. loop.round + 1 \in 0..MaxLimit
    BY <1>0, <1>6, CallsTyped DEF RepairMark, At, Rounds, Repairing
  <2>2. CASE TryMove("REPAIRING", Payload, loop.round + 1)
    BY <1>0, <2>1, <2>2, TryMoveIs, PayloadTyped DEF RunStates
  <2> QED
    BY <1>1, <1>6, <2>2 DEF RepairMark
<1>7. CASE Fail
  <2>1. FailedRound \in 0..MaxLimit
    BY <1>0 DEF FailedRound, Rows
  <2> QED
    BY <1>0, <1>1, <1>7, <2>1, TryMoveIs, PayloadTyped DEF Fail, RunStates
<1>8. CASE Disturb
  BY <1>0, <1>8, MovedIs DEF Disturb, RunStates, Verifications, Rows
<1>9. CASE ReadRow \/ Check \/ RunCommands \/ Verify \/ CommitGate \/ Repair \/ AskCancel \/ Drift
  BY <1>1, <1>9 DEF ReadRow, Check, RunCommands, Verify, CommitGate, Repair, AskCancel, Drift
<1> QED
  BY <1>1, <1>2, <1>3, <1>4, <1>5, <1>6, <1>7, <1>8, <1>9 DEF LoopNext, LoopStep, loopVars

-----------------------------------------------------------------------------
\* Types.

LEMMA InitLoopInv == ASSUME LoopInit PROVE LoopInv
<1> USE LoopAssumption DEF LoopInit
<1>1. row \in Rows
  <2>1. PICK s \in {"RUNNING", "QUEUED"} :
          row = [state |-> s, version |-> 0, verification |-> "none", round |-> 0, commit |-> FALSE]
    OBVIOUS
  <2>2. s \in RunStates /\ "none" \in Verifications
    BY DEF RunStates, Verifications
  <2> QED
    BY <2>1, <2>2 DEF Rows
<1>2. NoEvidence \in Evidences /\ setup.limit \in 0..MaxLimit
  BY DEF NoEvidence, Evidences
<1>3. LoopTypeOK
  <2>1. loop \in [pc : Steps, round : 0..MaxLimit, read : Rows, evidence : Evidences,
                  allowed : BOOLEAN, gate : SUBSET Faults, calls : 0..(MaxLimit + 1),
                  result : {"none", "COMPLETE", "FAILED", "CANCELLED"}]
    <3>1. "check" \in Steps /\ 0 \in 0..MaxLimit /\ 0 \in 0..(MaxLimit + 1)
      BY DEF Steps
    <3> QED
      BY <1>1, <1>2, <3>1
  <2>2. setup \in Calls /\ tree \in SUBSET Faults
    OBVIOUS
  <2>3. cancelled \in BOOLEAN
    OBVIOUS
  <2>4. drift \in 0..MaxDrift /\ disturbances \in 0..MaxDisturbances
    OBVIOUS
  <2> HIDE DEF LoopInit
  <2> QED
    BY <1>1, <2>1, <2>2, <2>3, <2>4 DEF LoopTypeOK
<1>4. Rounds /\ Undisturbed
  BY <1>2 DEF Rounds, Undisturbed, Repairing, Ending, Writing, Movable
<1>5. Earned
  BY DEF Earned, Passing
<1> QED
  BY <1>3, <1>4, <1>5 DEF LoopInv

LEMMA StepTyped ==
  ASSUME LoopInv, [LoopNext]_loopVars
  PROVE  LoopTypeOK'
<1> USE DEF LoopInv
<1> DEFINE Records == [pc : Steps, round : 0..MaxLimit, read : Rows, evidence : Evidences,
                       allowed : BOOLEAN, gate : SUBSET Faults, calls : 0..(MaxLimit + 1),
                       result : {"none", "COMPLETE", "FAILED", "CANCELLED"}]
           Others == UNCHANGED <<setup, tree, cancelled, drift, disturbances>>
<1>a. LoopTypeOK <=> /\ setup \in Calls /\ row \in Rows /\ loop \in Records
                     /\ tree \in SUBSET Faults /\ cancelled \in BOOLEAN
                     /\ drift \in 0..MaxDrift /\ disturbances \in 0..MaxDisturbances
  BY DEF LoopTypeOK
<1>b. LoopTypeOK' <=> /\ setup' \in Calls /\ row' \in Rows /\ loop' \in Records
                      /\ tree' \in SUBSET Faults /\ cancelled' \in BOOLEAN
                      /\ drift' \in 0..MaxDrift /\ disturbances' \in 0..MaxDisturbances
  BY DEF LoopTypeOK
<1>c. row' \in Rows
  BY RowSteps
<1>d. ASSUME loop' \in Records, Quiet PROVE LoopTypeOK'
  BY <1>a, <1>b, <1>c, <1>d DEF Quiet
<1>e. ASSUME NEW step \in Steps, Goes(step) PROVE loop' \in Records
  BY <1>a, <1>e DEF Goes
<1>f. ASSUME NEW result \in {"COMPLETE", "FAILED", "CANCELLED"}, Returns(result)
      PROVE  loop' \in Records
  BY <1>a, <1>f DEF Returns, Steps
<1> HIDE DEF Records
<1>1. CASE ReadRow
  <2>1. WriteOf(loop.pc) \in Steps
    BY <1>1 DEF ReadRow, WriteOf, Reads, Steps
  <2>2. loop' \in Records
    BY <1>1, <1>a, <2>1 DEF ReadRow, Records
  <2> QED
    BY <1>1, <1>d, <2>2 DEF ReadRow
<1>2. CASE Check
  BY <1>2, <1>d, <1>e DEF Check, Steps, Reads
<1>3. CASE Cancel
  BY <1>3, <1>d, <1>e, <1>f DEF Cancel, Steps
<1>4. CASE Mark
  BY <1>4, <1>d, <1>e DEF Mark, Steps
<1>5. CASE RunCommands
  <2>1. [commands |-> tree \cap CommandFaults = {}, scope |-> FALSE,
         migration |-> FALSE, after |-> loop.calls] \in Evidences
    BY <1>a DEF Records, Evidences
  <2>2. loop' \in Records
    BY <1>5, <1>a, <2>1 DEF RunCommands, Records, Steps
  <2> QED
    BY <1>5, <1>d, <2>2 DEF RunCommands
<1>6. CASE Verify
  <2> DEFINE evidence == [loop.evidence EXCEPT !.scope = ScopePassed,
                                               !.migration = "migration" \in tree]
             next == IF Passed(evidence) THEN "gate"
                     ELSE IF MayRepair THEN "repairing" ELSE "failing"
  <2>1. evidence \in Evidences
    <3>1. loop.evidence \in Evidences
      BY <1>a DEF Records
    <3>2. ScopePassed \in BOOLEAN /\ ("migration" \in tree) \in BOOLEAN
      BY DEF ScopePassed
    <3> HIDE DEF ScopePassed
    <3> QED
      BY <3>1, <3>2 DEF Evidences
  <2>2. next \in Steps
    BY DEF Steps, Reads
  <2>3. \/ loop' = [loop EXCEPT !.evidence = evidence, !.pc = next]
        \/ loop' = [loop EXCEPT !.pc = "raised"]
    BY <1>6 DEF Verify, Goes
  <2> HIDE DEF evidence, next
  <2>4. loop' \in Records
    BY <1>a, <2>1, <2>2, <2>3 DEF Records, Steps
  <2> QED
    BY <1>6, <1>d, <2>4 DEF Verify
<1>7. CASE CommitGate
  <2>1. Allowed \in BOOLEAN /\ tree \in SUBSET Faults
    BY <1>a DEF Allowed
  <2>2. loop' = [loop EXCEPT !.pc = "completing", !.allowed = Allowed, !.gate = tree]
    BY <1>7 DEF CommitGate
  <2> HIDE DEF Allowed
  <2>3. loop' \in Records
    BY <1>a, <2>1, <2>2 DEF Records, Steps, Reads
  <2> QED
    BY <1>7, <1>d, <2>3 DEF CommitGate
<1>8. CASE Commit
  <2>1. CASE loop' = [loop EXCEPT !.pc = "complete", !.read = row']
    <3>1. loop' \in Records
      BY <1>a, <1>c, <2>1 DEF Records, Steps
    <3> QED
      BY <1>8, <1>d, <3>1 DEF Commit
  <2> QED
    BY <1>8, <1>d, <1>e, <1>f, <2>1 DEF Commit, Steps
<1>9. CASE Complete
  BY <1>9, <1>d, <1>e, <1>f DEF Complete, Steps
<1>10. CASE RepairMark
  BY <1>10, <1>d, <1>e DEF RepairMark, Steps
<1>11. CASE Repair
  <2> DEFINE calls == IF loop.calls <= setup.limit THEN loop.calls + 1 ELSE loop.calls
  <2>1. calls \in 0..(MaxLimit + 1) /\ loop.round + 1 \in 0..MaxLimit
    BY <1>11, <1>a, CallsTyped DEF Repair, At, Records, Rounds, Repairing
  <2>2. \/ /\ tree' \in SUBSET Faults
           /\ loop' = [loop EXCEPT !.pc = "check", !.round = loop.round + 1, !.calls = calls]
        \/ tree' = tree /\ loop' = [loop EXCEPT !.pc = "failing", !.calls = calls]
    BY <1>11 DEF Repair, AfterRepair, NextRound
  <2> HIDE DEF calls
  <2>3. loop' \in Records /\ tree' \in SUBSET Faults
    BY <1>a, <2>1, <2>2 DEF Records, Steps, Reads
  <2> QED
    BY <1>11, <1>a, <1>b, <1>c, <2>3 DEF Repair
<1>12. CASE Fail
  BY <1>12, <1>d, <1>f DEF Fail
<1>13. CASE AskCancel
  BY <1>13, <1>a, <1>b DEF AskCancel
<1>14. CASE Disturb
  <2>1. disturbances' \in 0..MaxDisturbances
    BY <1>14, <1>a, LoopAssumption DEF Disturb
  <2> QED
    BY <1>14, <1>a, <1>b, <1>c, <2>1 DEF Disturb
<1>15. CASE Drift
  <2>1. drift' \in 0..MaxDrift
    BY <1>15, <1>a, LoopAssumption DEF Drift
  <2> QED
    BY <1>15, <1>a, <1>b, <2>1 DEF Drift
<1>16. CASE UNCHANGED loopVars
  BY <1>16, <1>a, <1>b DEF loopVars
<1> QED
  BY <1>1, <1>2, <1>3, <1>4, <1>5, <1>6, <1>7, <1>8, <1>9, <1>10, <1>11, <1>12, <1>13, <1>14,
     <1>15, <1>16 DEF LoopNext, LoopStep

-----------------------------------------------------------------------------
\* What a step does to the loop's own record, in the words of the invariant.
LEMMA LoopSteps ==
  ASSUME LoopInv, [LoopNext]_loopVars
  PROVE  /\ setup' = setup
         /\ loop'.round # loop.round => loop.pc = "repair" /\ loop'.round = loop.round + 1
         /\ loop'.calls # loop.calls =>
              /\ loop.pc = "repair" /\ loop'.calls = loop.calls + 1
              /\ \/ loop'.pc = "check" /\ loop'.round = loop.round + 1
                 \/ loop'.pc = "failing"
         /\ loop.pc = "repair" /\ loop'.round # loop.round => loop'.calls = loop.calls + 1
         /\ loop.pc \in Ending => loop'.pc \in Ending
         /\ loop'.pc \in Repairing =>
              loop.pc \in Repairing \/ (Verify /\ loop.round < setup.limit)
<1> USE DEF LoopInv
<1>0. /\ loop \in [pc : Steps, round : 0..MaxLimit, read : Rows, evidence : Evidences,
                   allowed : BOOLEAN, gate : SUBSET Faults, calls : 0..(MaxLimit + 1),
                   result : {"none", "COMPLETE", "FAILED", "CANCELLED"}]
      /\ MaxLimit \in Nat /\ setup.limit \in Nat
  BY CallsTyped DEF LoopTypeOK
<1>1. CASE ReadRow
  BY <1>0, <1>1 DEF ReadRow, Quiet, WriteOf, Reads, Repairing, Ending
<1>2. CASE Check
  BY <1>0, <1>2 DEF Check, At, Goes, Quiet, Repairing, Ending
<1>3. CASE Cancel
  BY <1>0, <1>3 DEF Cancel, At, Goes, Returns, Quiet, Repairing, Ending
<1>4. CASE Mark
  BY <1>0, <1>4 DEF Mark, At, Goes, Quiet, Repairing, Ending
<1>5. CASE RunCommands
  BY <1>0, <1>5 DEF RunCommands, At, Quiet, Repairing, Ending
<1>6. CASE Verify
  <2>1. /\ loop.pc = "scope" /\ setup' = setup
        /\ loop'.round = loop.round /\ loop'.calls = loop.calls
        /\ loop'.pc = "repairing" => MayRepair
        /\ loop'.pc \in {"gate", "repairing", "failing", "raised"}
    BY <1>0, <1>6 DEF Verify, At, Goes, Quiet
  <2> QED
    BY <1>6, <2>1 DEF MayRepair, Repairing, Ending
<1>7. CASE CommitGate
  BY <1>0, <1>7 DEF CommitGate, At, Quiet, Repairing, Ending
<1>8. CASE Commit
  BY <1>0, <1>8 DEF Commit, At, Goes, Returns, Quiet, Repairing, Ending
<1>9. CASE Complete
  BY <1>0, <1>9 DEF Complete, At, Goes, Returns, Quiet, Repairing, Ending
<1>10. CASE RepairMark
  BY <1>0, <1>10 DEF RepairMark, At, Goes, Quiet, Repairing, Ending
<1>11. CASE Repair
  <2>1. loop.calls <= setup.limit /\ loop.pc = "repair"
    BY <1>11 DEF Repair, At, Rounds
  <2> QED
    BY <1>0, <1>11, <2>1 DEF Repair, AfterRepair, NextRound, Repairing, Ending
<1>12. CASE Fail
  BY <1>0, <1>12 DEF Fail, At, Returns, Quiet, Repairing, Ending
<1>13. CASE AskCancel \/ Disturb \/ Drift \/ UNCHANGED loopVars
  BY <1>13 DEF AskCancel, Disturb, Drift, loopVars
<1> QED
  BY <1>1, <1>2, <1>3, <1>4, <1>5, <1>6, <1>7, <1>8, <1>9, <1>10, <1>11, <1>12, <1>13
  DEF LoopNext, LoopStep

LEMMA StepRounds ==
  ASSUME LoopInv, [LoopNext]_loopVars
  PROVE  Rounds'
<1>0. /\ loop.pc \in Steps /\ loop.round \in Nat /\ loop.calls \in Nat /\ setup.limit \in Nat
      /\ loop.pc = "repair" => loop.round < setup.limit /\ loop.calls = loop.round
  BY CallsTyped DEF LoopInv, LoopTypeOK, Rounds, Repairing, Ending
<1>1. loop'.round <= setup'.limit /\ loop'.calls <= setup'.limit
  BY <1>0, LoopSteps DEF LoopInv, Rounds
<1>2. loop'.pc \notin Ending => loop'.calls = loop'.round
  BY <1>0, LoopSteps DEF LoopInv, Rounds, Ending
<1>3. loop'.pc \in Repairing => loop'.round < setup'.limit
  <2>1. CASE Verify /\ loop.round < setup.limit
    BY <1>0, <2>1, LoopSteps DEF Verify, At
  <2>2. CASE loop.pc \in Repairing /\ loop'.pc \in Repairing
    BY <1>0, <2>2, LoopSteps DEF LoopInv, Rounds, Repairing
  <2> QED
    BY <2>1, <2>2, LoopSteps
<1> QED
  BY <1>1, <1>2, <1>3 DEF Rounds

-----------------------------------------------------------------------------
\* Evidence, gate and permission change in three steps only, and together with the
\* place they belong to.
LEMMA EvidenceSteps ==
  ASSUME LoopInv, [LoopNext]_loopVars
  PROVE  /\ loop'.evidence # loop.evidence =>
              \/ /\ loop.pc = "commands" /\ loop'.pc = "scope"
                 /\ loop'.evidence.after = loop.calls
              \/ /\ loop.pc = "scope" /\ loop'.evidence.after = loop.evidence.after
                 /\ loop'.pc = "gate" => Passed(loop'.evidence)
                 /\ loop'.pc \in {"gate", "repairing", "failing"}
         /\ loop'.allowed # loop.allowed \/ loop'.gate # loop.gate => CommitGate
         /\ CommitGate => /\ loop.pc = "gate" /\ loop'.pc = "completing"
                          /\ loop'.allowed = Allowed /\ loop'.gate = tree
         /\ loop'.result # loop.result => loop'.pc = "returned"
         /\ loop'.result = "COMPLETE" =>
              loop.result = "COMPLETE" \/ loop.pc \in {"commit", "complete"}
         /\ loop'.pc \in Passing => \/ loop.pc \in Passing
                                    \/ loop.pc = "scope" /\ Passed(loop'.evidence)
         /\ loop'.pc = "scope" => \/ loop.pc = "scope" /\ loop'.evidence = loop.evidence
                                  \/ loop'.evidence.after = loop.calls
         /\ loop.pc \in {"completing", "commit", "complete", "returned", "raised"} =>
              /\ loop'.pc \in {"completing", "commit", "complete", "returned", "raised"}
              /\ loop.pc = "returned" => loop'.pc = "returned"
<1> USE DEF LoopInv
<1>0. loop \in [pc : Steps, round : 0..MaxLimit, read : Rows, evidence : Evidences,
                allowed : BOOLEAN, gate : SUBSET Faults, calls : 0..(MaxLimit + 1),
                result : {"none", "COMPLETE", "FAILED", "CANCELLED"}]
  BY DEF LoopTypeOK
<1>1. CASE ReadRow
  BY <1>0, <1>1 DEF ReadRow, WriteOf, Reads, Passing, CommitGate, At
<1>2. CASE Check
  BY <1>0, <1>2 DEF Check, At, Goes, Passing, CommitGate
<1>3. CASE Cancel
  BY <1>0, <1>3 DEF Cancel, At, Goes, Returns, Passing, CommitGate
<1>4. CASE Mark
  BY <1>0, <1>4 DEF Mark, At, Goes, Passing, CommitGate
<1>5. CASE RunCommands
  BY <1>0, <1>5 DEF RunCommands, At, Passing, CommitGate
<1>6. CASE Verify
  <2> DEFINE evidence == [loop.evidence EXCEPT !.scope = ScopePassed,
                                               !.migration = "migration" \in tree]
             next == IF Passed(evidence) THEN "gate"
                     ELSE IF MayRepair THEN "repairing" ELSE "failing"
  <2>1. /\ loop.pc = "scope"
        /\ \/ loop' = [loop EXCEPT !.evidence = evidence, !.pc = next]
           \/ loop' = [loop EXCEPT !.pc = "raised"]
    BY <1>6 DEF Verify, At, Goes
  <2>2. /\ next \in {"gate", "repairing", "failing"}
        /\ next = "gate" => Passed(evidence)
        /\ evidence.after = loop.evidence.after
    BY <1>0 DEF Evidences
  <2> HIDE DEF evidence, next
  <2>3. ~CommitGate
    BY <2>1 DEF CommitGate, At
  <2>4. CASE loop' = [loop EXCEPT !.evidence = evidence, !.pc = next]
    <3>1. /\ loop'.evidence = evidence /\ loop'.pc = next /\ loop'.allowed = loop.allowed
          /\ loop'.gate = loop.gate /\ loop'.result = loop.result
      BY <1>0, <2>4
    <3> QED
      BY <2>1, <2>2, <2>3, <3>1 DEF Passing
  <2>5. CASE loop' = [loop EXCEPT !.pc = "raised"]
    <3>1. /\ loop'.evidence = loop.evidence /\ loop'.pc = "raised"
          /\ loop'.allowed = loop.allowed
          /\ loop'.gate = loop.gate /\ loop'.result = loop.result
      BY <1>0, <2>5
    <3> QED
      BY <2>1, <2>3, <3>1 DEF Passing
  <2> QED
    BY <2>1, <2>4, <2>5
<1>7. CASE CommitGate
  <2>1. /\ loop.pc = "gate"
        /\ loop' = [loop EXCEPT !.pc = "completing", !.allowed = Allowed, !.gate = tree]
    BY <1>7 DEF CommitGate, At
  <2> HIDE DEF Allowed
  <2> QED
    BY <1>0, <1>7, <2>1 DEF Passing
<1>8. CASE Commit
  BY <1>0, <1>8 DEF Commit, At, Goes, Returns, Passing, CommitGate
<1>9. CASE Complete
  BY <1>0, <1>9 DEF Complete, At, Goes, Returns, Passing, CommitGate
<1>10. CASE RepairMark
  BY <1>0, <1>10 DEF RepairMark, At, Goes, Passing, CommitGate
<1>11. CASE Repair
  BY <1>0, <1>11 DEF Repair, AfterRepair, At, Passing, CommitGate
<1>12. CASE Fail
  BY <1>0, <1>12 DEF Fail, At, Returns, Passing, CommitGate
<1>13. CASE (AskCancel \/ Disturb \/ Drift \/ UNCHANGED loopVars)
  <2>1. loop' = loop
    BY <1>13 DEF AskCancel, Disturb, Drift, loopVars
  <2>2. ~CommitGate
    BY <1>0, <2>1 DEF CommitGate, At
  <2> QED
    BY <2>1, <2>2
<1> QED
  BY <1>1, <1>2, <1>3, <1>4, <1>5, <1>6, <1>7, <1>8, <1>9, <1>10, <1>11, <1>12, <1>13
  DEF LoopNext, LoopStep

\* The commit gate that allows has looked at a clean worktree.
LEMMA AllowedIs ==
  ASSUME Allowed
  PROVE  /\ setup.policy # "NEVER" /\ setup.risk \in CommitRisks /\ Passed(loop.evidence)
         /\ tree \cap (ScopeFaults \cup {"migration"}) = {}
  BY DEF Allowed, ScopePassed

LEMMA StepEarned ==
  ASSUME LoopInv, [LoopNext]_loopVars
  PROVE  Earned'
<1>0. Earned /\ setup' = setup /\ loop.pc \in Steps
  BY LoopSteps DEF LoopInv, LoopTypeOK
<1>c. loop'.calls # loop.calls => loop.pc = "repair" /\ loop'.pc \in {"check", "failing"}
  BY LoopSteps
<1>1. loop'.pc \in Passing \cup {"scope"} => loop'.evidence.after = loop'.calls
  BY <1>0, <1>c, EvidenceSteps DEF Earned, Passing
<1>2. loop'.pc \in Passing => Passed(loop'.evidence)
  BY <1>0, EvidenceSteps DEF Earned, Passing
<1>3. loop'.allowed =>
        /\ setup'.policy # "NEVER" /\ setup'.risk \in CommitRisks
        /\ loop'.pc \in {"completing", "commit", "complete", "returned", "raised"}
        /\ Passed(loop'.evidence)
        /\ loop'.gate \cap (ScopeFaults \cup {"migration"}) = {}
  <2> SUFFICES ASSUME loop'.allowed
               PROVE  /\ setup'.policy # "NEVER" /\ setup'.risk \in CommitRisks
                      /\ loop'.pc \in {"completing", "commit", "complete", "returned", "raised"}
                      /\ Passed(loop'.evidence)
                      /\ loop'.gate \cap (ScopeFaults \cup {"migration"}) = {}
    OBVIOUS
  <2>1. CASE CommitGate
    <3>1. Allowed /\ loop'.gate = tree /\ loop'.evidence = loop.evidence /\ loop'.pc = "completing"
      BY <2>1, EvidenceSteps
    <3> QED
      BY <1>0, <3>1, AllowedIs
  <2>2. CASE ~CommitGate
    <3>1. loop.allowed /\ loop'.gate = loop.gate
      BY <2>2, EvidenceSteps
    <3>2. loop'.evidence = loop.evidence
      BY <3>1, <1>0, EvidenceSteps DEF Earned
    <3> QED
      BY <1>0, <3>1, <3>2, EvidenceSteps DEF Earned
  <2> QED
    BY <2>1, <2>2
<1>4. row'.commit => loop'.allowed
  <2>1. CASE row.commit
    <3>1. loop.allowed /\ loop.pc # "gate"
      BY <1>0, <2>1 DEF Earned
    <3> QED
      BY <3>1, EvidenceSteps
  <2>2. CASE Commit /\ loop.allowed /\ loop'.pc = "complete"
    <3>1. loop.pc = "commit"
      BY <2>2 DEF Commit, At
    <3> QED
      BY <2>2, <3>1, EvidenceSteps
  <2> QED
    BY <2>1, <2>2, RowSteps
<1>5. loop'.result = "COMPLETE" \/ row'.state = "COMPLETE" =>
        loop'.pc = "returned" /\ Passed(loop'.evidence) /\ loop'.evidence.after = loop'.calls
  <2>1. CASE loop.result = "COMPLETE" \/ row.state = "COMPLETE"
    BY <1>0, <1>c, <2>1, EvidenceSteps DEF Earned
  <2>2. CASE loop.pc \in {"commit", "complete"} /\ loop'.pc = "returned"
    BY <1>0, <1>c, <2>2, EvidenceSteps DEF Earned, Passing
  <2>3. Complete => loop.pc = "complete"
    BY DEF Complete, At
  <2>4. loop'.result = "COMPLETE" /\ loop.result # "COMPLETE" =>
          loop.pc \in {"commit", "complete"} /\ loop'.pc = "returned"
    BY EvidenceSteps
  <2> QED
    BY <2>1, <2>2, <2>3, <2>4, RowSteps
<1> QED
  BY <1>1, <1>2, <1>3, <1>4, <1>5 DEF Earned

-----------------------------------------------------------------------------
\* A cancellation and a failure are legal wherever the loop may find the row.
LEMMA MovableMoves ==
  ASSUME NEW s \in Movable, NEW v \in Verifications
  PROVE  /\ CanTransition(s, "CANCELLED", v) /\ CanTransition(s, "FAILED", v)
         /\ s \notin TerminalStates
  BY DEF Movable, CanTransition, AllowedTransitions, TerminalStates

LEMMA StepUndisturbed ==
  ASSUME LoopInv, [LoopNext]_loopVars
  PROVE  Undisturbed'
<1> USE DEF LoopInv
<1> SUFFICES ASSUME disturbances' = 0
             PROVE  /\ loop'.pc \in Writing => loop'.read = row'
                    /\ loop'.pc \notin {"complete", "returned", "raised"} => row'.state \in Movable
                    /\ loop'.pc = "returned" => row'.state = loop'.result
  BY DEF Undisturbed
<1>0. /\ loop \in [pc : Steps, round : 0..MaxLimit, read : Rows, evidence : Evidences,
                   allowed : BOOLEAN, gate : SUBSET Faults, calls : 0..(MaxLimit + 1),
                   result : {"none", "COMPLETE", "FAILED", "CANCELLED"}]
      /\ row \in Rows /\ disturbances \in Nat
  BY LoopAssumption DEF LoopTypeOK
<1>1. CASE Disturb
  BY <1>0, <1>1 DEF Disturb
<1>2. disturbances = 0
  <2>1. LoopStep \/ AskCancel \/ Drift \/ UNCHANGED loopVars => disturbances' = disturbances
    BY DEF LoopStep, ReadRow, Check, Cancel, Mark, RunCommands, Verify, CommitGate, Commit,
           Complete, RepairMark, Repair, Fail, AskCancel, Drift, loopVars, Quiet
  <2>2. Disturb => disturbances' = disturbances + 1
    BY DEF Disturb
  <2> QED
    BY <1>0, <2>1, <2>2 DEF LoopNext
<1>3. /\ loop.pc \in Writing => loop.read = row
      /\ loop.pc \notin {"complete", "returned", "raised"} => row.state \in Movable
      /\ loop.pc = "returned" => row.state = loop.result
  BY <1>2 DEF Undisturbed
<1>4. CASE ReadRow
  BY <1>0, <1>3, <1>4 DEF ReadRow, WriteOf, Reads
<1>5. CASE Check
  BY <1>0, <1>3, <1>5 DEF Check, At, Goes, Writing
<1>6. CASE Cancel
  <2>1. loop.read = row /\ row.state \in Movable
    BY <1>3, <1>6 DEF Cancel, At, Writing
  <2>2. CASE Moved("CANCELLED", "none", row.round, FALSE) /\ Returns("CANCELLED")
    <3>1. row.round \in 0..MaxLimit /\ FALSE \in BOOLEAN
      BY <1>0 DEF Rows
    <3>2. row'.state = "CANCELLED"
      BY <1>0, <2>2, <3>1, MovedIs DEF RunStates, Verifications
    <3> QED
      BY <1>0, <2>2, <3>2 DEF Returns, Writing
  <2>3. CASE Goes("raised") /\ UNCHANGED row
    BY <1>0, <2>3 DEF Goes, Writing
  <2> QED
    BY <1>6, <2>1, <2>2, <2>3 DEF Cancel, Movable, TerminalStates
<1>7. CASE Mark
  <2>1. row.state \in Movable
    BY <1>3, <1>7 DEF Mark, At
  <2>2. row'.state \in Movable
    BY <1>0, <1>7, <2>1, TryMoveIs DEF Mark, RunStates, Verifications, Movable
  <2> QED
    BY <1>0, <1>7, <2>2 DEF Mark, Goes, Writing
<1>8. CASE RunCommands
  BY <1>0, <1>3, <1>8 DEF RunCommands, At, Writing
<1>9. CASE Verify
  <2>1. /\ loop.pc = "scope" /\ row' = row
        /\ loop'.pc \in {"gate", "repairing", "failing", "raised"}
    BY <1>0, <1>9 DEF Verify, At, Goes
  <2> QED
    BY <1>3, <2>1 DEF Writing
<1>10. CASE CommitGate
  <2>1. loop.pc = "gate" /\ row' = row /\ loop'.pc = "completing"
    BY <1>0, <1>10 DEF CommitGate, At
  <2> QED
    BY <1>3, <2>1 DEF Writing
<1>11. CASE Commit
  <2>1. loop.read = row /\ row.state \in Movable
    BY <1>3, <1>11 DEF Commit, At, Writing
  <2>2. \/ Goes("complete") /\ row' = row
        \/ loop' = [loop EXCEPT !.pc = "complete", !.read = row']
        \/ Goes("raised")
    BY <1>11, <2>1 DEF Commit, Movable, TerminalStates
  <2> QED
    BY <1>0, <2>1, <2>2 DEF Goes, Writing
<1>12. CASE Complete
  <2>1. CASE Moved("COMPLETE", "passed", loop.round, FALSE) /\ Returns("COMPLETE")
    <3>1. row'.state = "COMPLETE"
      BY <1>0, <2>1, MovedIs DEF RunStates, Verifications
    <3> QED
      BY <1>0, <2>1, <3>1 DEF Returns, Writing
  <2>2. CASE Goes("raised")
    BY <1>0, <2>2 DEF Goes, Writing
  <2> QED
    BY <1>12, <2>1, <2>2 DEF Complete
<1>13. CASE RepairMark
  <2>1. row.state \in Movable /\ loop.round + 1 \in 0..MaxLimit
    BY <1>0, <1>3, <1>13, CallsTyped DEF RepairMark, At, Rounds, Repairing
  <2>2. row'.state \in Movable
    BY <1>0, <1>13, <2>1, TryMoveIs, PayloadTyped DEF RepairMark, RunStates, Movable
  <2> QED
    BY <1>0, <1>13, <2>2 DEF RepairMark, Goes, Writing
<1>14. CASE Repair
  BY <1>0, <1>3, <1>14 DEF Repair, AfterRepair, At, Writing
<1>15. CASE Fail
  <2>1. loop.read = row /\ row.state \in Movable
    BY <1>3, <1>15 DEF Fail, At, Writing
  <2>2. TryMove("FAILED", Payload, FailedRound)
    BY <1>15, <2>1 DEF Fail, Failable, Movable, TerminalStates
  <2>3. Effective(Payload, row.verification) \in Verifications
    BY <1>0, PayloadTyped DEF Effective, Rows
  <2>4. Accepted("FAILED", Payload)
    BY <2>1, <2>3, MovableMoves DEF Accepted
  <2>5. FailedRound \in 0..MaxLimit
    BY <1>0 DEF FailedRound, Rows
  <2>6. row'.state = "FAILED"
    BY <1>0, <2>2, <2>4, <2>5, TryMoveIs, PayloadTyped DEF RunStates
  <2> QED
    BY <1>0, <1>15, <2>6 DEF Fail, Returns, Writing
<1>16. CASE AskCancel \/ Drift \/ UNCHANGED loopVars
  BY <1>3, <1>16 DEF AskCancel, Drift, loopVars
<1> QED
  BY <1>1, <1>4, <1>5, <1>6, <1>7, <1>8, <1>9, <1>10, <1>11, <1>12, <1>13, <1>14, <1>15, <1>16
  DEF LoopNext, LoopStep

-----------------------------------------------------------------------------
LEMMA AlwaysLoopInv == LoopSpec => []LoopInv
<1>1. LoopInit => LoopInv
  BY InitLoopInv
<1>2. LoopInv /\ [LoopNext]_loopVars => LoopInv'
  BY StepTyped, StepRounds, StepEarned, StepUndisturbed DEF LoopInv
<1> QED
  BY <1>1, <1>2, PTL DEF LoopSpec

\* Every variable of the repair loop's model has its type.
THEOREM LoopTypeCorrect == LoopSpec => []LoopTypeOK
<1>1. LoopInv => LoopTypeOK
  BY DEF LoopInv
<1> QED
  BY <1>1, AlwaysLoopInv, PTL

\* However verifications and repairs come out, the callback runs at most
\* max_repair_rounds times.
THEOREM RoundsBounded == LoopSpec => []RepairsAreBounded
<1>1. LoopInv => RepairsAreBounded
  BY DEF LoopInv, Rounds, RepairsAreBounded
<1> QED
  BY <1>1, AlwaysLoopInv, PTL

\* The auto-commit mark is set only on a worktree that passed the scope rules when the
\* commit gate looked, by a contract that allows commits, on passed evidence.
THEOREM CommitsEarned == LoopSpec => []CommitIsEarned
<1>1. LoopInv => CommitIsEarned
  BY DEF LoopInv, Earned, CommitIsEarned
<1> QED
  BY <1>1, AlwaysLoopInv, PTL

\* No success without a verification that began after the last repair.
THEOREM SuccessIsFresh == LoopSpec => []SuccessFollowsLastRepair
<1>1. LoopInv => SuccessFollowsLastRepair
  BY DEF LoopInv, Earned, SuccessFollowsLastRepair
<1> QED
  BY <1>1, AlwaysLoopInv, PTL

\* Without interference no swallowed failure parts the row from the answer.
THEOREM AnswersRecorded == LoopSpec => []ReturnedIsRecorded
<1>1. LoopInv => ReturnedIsRecorded
  BY DEF LoopInv, Undisturbed, ReturnedIsRecorded
<1> QED
  BY <1>1, AlwaysLoopInv, PTL

-----------------------------------------------------------------------------
(* The advice.                                                               *)

\* What was advised is what the question, of the one kind or the other, calls for.
Advised ==
  \/ question \in TimeoutQuestions \cup DecisionQuestions /\ advice = NoAdvice
  \/ /\ question \in TimeoutQuestions
     /\ advice = Diagnosis(question.kind, Evidence(question), Alive(question))
  \/ question \in DecisionQuestions /\ advice = [tier |-> Tier(question)]

LEMMA KindsDiffer == TimeoutQuestions \cap DecisionQuestions = {}
<1> SUFFICES ASSUME NEW q \in TimeoutQuestions, q \in DecisionQuestions PROVE FALSE
  OBVIOUS
<1>1. DOMAIN q = {"kind", "alive", "contextAlive", "contextState", "evidence", "look", "diffZero"}
  BY DEF TimeoutQuestions
<1>2. DOMAIN q = {"explicit", "marks"}
  BY DEF DecisionQuestions
<1> QED
  BY <1>1, <1>2

\* A diagnosis that advises a retry.
LEMMA RetriesAreSafe ==
  ASSUME NEW q \in TimeoutQuestions,
         Diagnosis(q.kind, Evidence(q), Alive(q)).retry = "YES"
  PROVE  /\ q.kind \in {"CONNECT_TIMEOUT", "LOCAL_SUPERVISION_TIMEOUT"}
         /\ Alive(q) = "NO" /\ Evidence(q) = "NO"
         /\ Diagnosis(q.kind, Evidence(q), Alive(q)) = [retry |-> "YES", reconcile |-> "NO", risk |-> "NO"]
  BY DEF Diagnosis

LEMMA NobodyAlive ==
  ASSUME NEW q \in TimeoutQuestions, Alive(q) = "NO"
  PROVE  SaidDead(q)
  BY DEF Alive, SaidDead, TimeoutQuestions, Answers

LEMMA NothingDone ==
  ASSUME NEW q \in TimeoutQuestions, Evidence(q) = "NO"
  PROVE  TakenForIdle(q) /\ ~q.diffZero /\ q.look # "nothing"
  BY DEF Evidence, TakenForIdle, DiffZero, TimeoutQuestions, Answers

\* More marks do not take the human out.
LEMMA HumanStays ==
  ASSUME NEW q \in DecisionQuestions, NEW more \in SUBSET Marks,
         Tier(q) = "HUMAN_DECISION_REQUIRED"
  PROVE  Tier([q EXCEPT !.marks = @ \cup more]) = "HUMAN_DECISION_REQUIRED"
<1> DEFINE asked == [q EXCEPT !.marks = @ \cup more]
<1>1. asked.explicit = q.explicit /\ asked.marks = q.marks \cup more
  BY DEF DecisionQuestions
<1> HIDE DEF asked
<1>2. CASE q.explicit # "unsaid"
  BY <1>1, <1>2 DEF Tier
<1>3. CASE q.explicit = "unsaid"
  <2>1. AsksHuman(q.marks)
    BY <1>3 DEF Tier
  <2>2. AsksHuman(asked.marks)
    BY <1>1, <2>1 DEF AsksHuman
  <2> QED
    BY <1>1, <1>3, <2>2 DEF Tier
<1> QED
  BY <1>2, <1>3 DEF asked

\* A direct retry is advised only for a connection or supervision timeout of a worker
\* said to be gone, on the caller's word or a failed connection but never on an empty
\* diff (evaluate_timeout_diagnostics); further marks never take the human out of a
\* decision (evaluate_decision_policy).
THEOREM AdviceCautious == AdviceSpec => []AdviceIsCautious
<1>1. AdviceInit => Advised
  BY DEF AdviceInit, Advised
<1>2. Advised /\ [AdviceNext]_adviceVars => Advised'
  BY DEF Advised, AdviceNext, AskTimeout, AskDecision, adviceVars
<1>3. Advised => RetryIsWarranted
  <2> SUFFICES ASSUME Advised, question \in TimeoutQuestions, advice # NoAdvice, advice.retry = "YES"
               PROVE  RetryIsWarranted
    BY DEF RetryIsWarranted
  <2>1. advice = Diagnosis(question.kind, Evidence(question), Alive(question))
    BY KindsDiffer DEF Advised
  <2> QED
    BY <2>1, RetriesAreSafe, NobodyAlive, NothingDone DEF RetryIsWarranted
<1>4. Advised => HumanStaysAsked
  <2> SUFFICES ASSUME Advised, question \in DecisionQuestions,
                      advice = [tier |-> "HUMAN_DECISION_REQUIRED"], NEW more \in SUBSET Marks
               PROVE  Tier([question EXCEPT !.marks = @ \cup more]) = "HUMAN_DECISION_REQUIRED"
    BY DEF HumanStaysAsked
  <2>1. advice # NoAdvice /\ question \notin TimeoutQuestions
    BY KindsDiffer DEF NoAdvice
  <2>2. Tier(question) = "HUMAN_DECISION_REQUIRED"
    BY <2>1 DEF Advised
  <2> QED
    BY <2>2, HumanStays
<1> QED
  BY <1>1, <1>2, <1>3, <1>4, PTL DEF AdviceSpec, AdviceIsCautious

-----------------------------------------------------------------------------
(* The shaping of a plan.  First the walk of validate_task_plan: as long as   *)
(* it finds no cycle it sorts the ids (WalkInv), and it ends; where there is  *)
(* an order of the tasks, the calls under way go down in it (Descending).     *)

\* What the validation needs to know of the tasks of a plan.
TaskRecords ==
  [id : Ids, deps : SUBSET Ids, paths : SUBSET (Ids \cup {SharedPath}), shared : BOOLEAN,
   covers : SUBSET (1..MaxAcceptance), commands : BOOLEAN]
Plans == [tasks : Seq(TaskRecords), asks : SUBSET (1..MaxAcceptance), final : BOOLEAN]

\* An id was visited after the ids it depends on.
Sorted(tasks, visited) ==
  \E s \in Seq(Ids) :
    /\ visited = {s[i] : i \in 1..Len(s)}
    /\ \A i, j \in 1..Len(s) : i # j => s[i] # s[j]
    /\ \A i \in 1..Len(s) : DepsOf(tasks, s[i]) \subseteq {s[j] : j \in 1..(i - 1)}

Walks == [calls : Seq(Ids), visiting : SUBSET Ids, visited : SUBSET Ids, dag : BOOLEAN]

\* The calls under way are those of the ids being visited, and none of them has
\* been visited.
Consistent(w) ==
  /\ w \in Walks
  /\ w.visiting = {w.calls[i] : i \in 1..Len(w.calls)}
  /\ \A i, j \in 1..Len(w.calls) : i # j => w.calls[i] # w.calls[j]
  /\ w.visiting \cap w.visited = {}

Ended(tasks, w) == w.calls = <<>> /\ Pending(tasks, w) = {}

\* After n steps the walk has ended or has entered and left n times.
Advanced(tasks, w, n) ==
  w.dag => \/ Ended(tasks, w)
           \/ 2 * Cardinality(w.visited) + Cardinality(w.visiting) = n

WalkInv(tasks, w, n) ==
  Consistent(w) /\ Sorted(tasks, w.visited) /\ Advanced(tasks, w, n)

-----------------------------------------------------------------------------
LEMMA IdsAreFinite ==
  /\ IsFiniteSet(Ids)
  /\ WalkLength \in Nat
<1> DEFINE f == [i \in 1..Len(TaskIds) |-> TaskIds[i]]
<1>1. Len(TaskIds) \in Nat
  BY ShapingAssumption
<1>2. IsFiniteSet(1..Len(TaskIds))
  BY <1>1, FS_Interval
<1>3. f \in Surjection(1..Len(TaskIds), Ids)
  BY DEF Surjection, Ids
<1>4. IsFiniteSet(Ids)
  BY <1>2, <1>3, FS_Surjection
<1> QED
  BY <1>4, FS_CardinalityType DEF WalkLength

LEMMA DepsAreIds ==
  ASSUME NEW tasks \in Seq(TaskRecords), NEW id
  PROVE  DepsOf(tasks, id) \subseteq Ids /\ IdsOf(tasks) \subseteq Ids
<1>1. \A i \in 1..Len(tasks) : tasks[i] \in TaskRecords
  OBVIOUS
<1>2. \A i \in 1..Len(tasks) : tasks[i].id \in Ids /\ tasks[i].deps \subseteq Ids
  BY <1>1 DEF TaskRecords
<1> QED
  BY <1>2 DEF DepsOf, IdsOf

LEMMA BeginsRight ==
  ASSUME NEW tasks \in Seq(TaskRecords)
  PROVE  WalkInv(tasks, NotBegun, 0)
<1>1. Consistent(NotBegun)
  BY DEF Consistent, Walks, NotBegun
<1>2. Sorted(tasks, {})
  <2> DEFINE s == <<>>
  <2>1. s \in Seq(Ids) /\ Len(s) = 0 /\ 1..0 = {}
    OBVIOUS
  <2>2. {s[i] : i \in 1..Len(s)} = {}
    BY <2>1
  <2> HIDE DEF s
  <2> QED
    BY <2>1, <2>2 DEF Sorted
<1>3. Cardinality({}) = 0
  BY FS_EmptySet
<1> QED
  BY <1>1, <1>2, <1>3 DEF WalkInv, Advanced, NotBegun

\* The four things that a step can be.
LEMMA StepForms ==
  ASSUME NEW tasks, NEW w \in Walks
  PROVE  \/ ~w.dag /\ WalkStep(tasks, w) = w
         \/ w.dag /\ Ended(tasks, w) /\ WalkStep(tasks, w) = w
         \/ w.dag /\ w.calls # <<>> /\ Pending(tasks, w) = {} /\ WalkStep(tasks, w) = Left(w)
         \/ \E d \in Pending(tasks, w) :
              w.dag /\ d \in w.visiting /\ WalkStep(tasks, w) = [w EXCEPT !.dag = FALSE]
         \/ \E d \in Pending(tasks, w) :
              w.dag /\ d \notin w.visiting /\ WalkStep(tasks, w) = Entered(w, d)
<1> DEFINE P == Pending(tasks, w)
           d == CHOOSE x \in P : TRUE
<1>1. P # {} => d \in P
  OBVIOUS
<1>2. w.dag \in BOOLEAN
  BY DEF Walks
<1>3. CASE ~w.dag \/ Ended(tasks, w)
  <2>1. WalkStep(tasks, w) = w
    BY <1>3 DEF WalkStep, Ended
  <2> QED
    BY <2>1, <1>2, <1>3
<1>4. CASE w.dag /\ w.calls # <<>> /\ P = {}
  <2>1. WalkStep(tasks, w) = Left(w)
    BY <1>4 DEF WalkStep
  <2> QED
    BY <2>1, <1>4
<1>5. CASE w.dag /\ P # {} /\ d \in w.visiting
  <2>1. WalkStep(tasks, w) = [w EXCEPT !.dag = FALSE]
    BY <1>5 DEF WalkStep
  <2> QED
    BY <2>1, <1>1, <1>5
<1>6. CASE w.dag /\ P # {} /\ d \notin w.visiting
  <2>1. WalkStep(tasks, w) = Entered(w, d)
    BY <1>6 DEF WalkStep
  <2> QED
    BY <2>1, <1>1, <1>6
<1> QED
  BY <1>3, <1>4, <1>5, <1>6 DEF Ended

\* What is pending are ids that have not been visited.
LEMMA PendingIds ==
  ASSUME NEW tasks \in Seq(TaskRecords), NEW w \in Walks, NEW d \in Pending(tasks, w)
  PROVE  d \in Ids /\ d \notin w.visited
  BY DepsAreIds DEF Pending

LEMMA EnteringKeeps ==
  ASSUME NEW tasks \in Seq(TaskRecords), NEW w, NEW n \in Nat, WalkInv(tasks, w, n),
         NEW d \in Pending(tasks, w), w.dag, d \notin w.visiting
  PROVE  WalkInv(tasks, Entered(w, d), n + 1)
<1> DEFINE v == Entered(w, d)
<1>1. w \in Walks
  BY DEF WalkInv, Consistent
<1>2. d \in Ids /\ d \notin w.visited
  BY <1>1, PendingIds
<1>3. /\ v = [w EXCEPT !.calls = Append(w.calls, d), !.visiting = w.visiting \cup {d}]
      /\ w.calls \in Seq(Ids) /\ w.visiting \subseteq Ids /\ w.visited \subseteq Ids
  BY <1>1 DEF Entered, Walks
<1>4. /\ v.calls = Append(w.calls, d) /\ v.visiting = w.visiting \cup {d}
      /\ v.visited = w.visited /\ v.dag = w.dag
  BY <1>1, <1>3 DEF Walks
<1>5. v \in Walks
  <2>1. Append(w.calls, d) \in Seq(Ids) /\ w.visiting \cup {d} \subseteq Ids
    BY <1>2, <1>3
  <2> QED
    BY <1>1, <1>3, <2>1 DEF Walks
<1> HIDE DEF v
<1>6. /\ Len(w.calls) \in Nat /\ Len(v.calls) = Len(w.calls) + 1
      /\ \A i \in 1..Len(w.calls) : v.calls[i] = w.calls[i]
      /\ v.calls[Len(v.calls)] = d
  BY <1>2, <1>3, <1>4
<1>7. \A i \in 1..Len(v.calls) : i \in 1..Len(w.calls) \/ i = Len(v.calls)
  BY <1>6
<1>8. /\ w.visiting = {w.calls[i] : i \in 1..Len(w.calls)}
      /\ \A i, j \in 1..Len(w.calls) : i # j => w.calls[i] # w.calls[j]
      /\ w.visiting \cap w.visited = {}
  BY DEF WalkInv, Consistent
<1>9. v.visiting = {v.calls[i] : i \in 1..Len(v.calls)}
  <2>1. 1..Len(w.calls) \subseteq 1..Len(v.calls) /\ Len(v.calls) \in 1..Len(v.calls)
    BY <1>6
  <2> QED
    BY <1>4, <1>6, <1>7, <1>8, <2>1
<1>10. \A i, j \in 1..Len(v.calls) : i # j => v.calls[i] # v.calls[j]
  <2>1. \A i \in 1..Len(w.calls) : w.calls[i] # d
    BY <1>8
  <2> QED
    BY <1>6, <1>7, <1>8, <2>1
<1>11. v.visiting \cap v.visited = {}
  BY <1>2, <1>4, <1>8
<1>12. Consistent(v)
  BY <1>5, <1>9, <1>10, <1>11 DEF Consistent
<1>13. Advanced(tasks, v, n + 1)
  <2>1. ~Ended(tasks, w)
    BY DEF Ended
  <2>2. 2 * Cardinality(w.visited) + Cardinality(w.visiting) = n
    BY <2>1 DEF WalkInv, Advanced
  <2>3. IsFiniteSet(w.visiting) /\ IsFiniteSet(w.visited)
    BY <1>3, IdsAreFinite, FS_Subset
  <2>4. Cardinality(v.visiting) = Cardinality(w.visiting) + 1
    BY <1>4, <2>3, FS_AddElement
  <2>5. Cardinality(w.visiting) \in Nat /\ Cardinality(w.visited) \in Nat
    BY <2>3, FS_CardinalityType
  <2>6. 2 * Cardinality(v.visited) + Cardinality(v.visiting) = n + 1
    <3>1. PICK a \in Nat, b \in Nat : a = Cardinality(w.visited) /\ b = Cardinality(w.visiting)
      BY <2>5
    <3>2. 2 * a + b = n
      BY <2>2, <3>1
    <3>3. 2 * a + (b + 1) = n + 1
      BY <3>2
    <3>4. Cardinality(v.visited) = a /\ Cardinality(v.visiting) = b + 1
      BY <1>4, <2>4, <3>1
    <3> QED
      BY <3>3, <3>4
  <2> QED
    BY <2>6 DEF Advanced
<1> QED
  BY <1>4, <1>12, <1>13 DEF WalkInv, v

LEMMA SortedGrows ==
  ASSUME NEW tasks, NEW visited \in SUBSET Ids, Sorted(tasks, visited),
         NEW id \in Ids, id \notin visited, DepsOf(tasks, id) \subseteq visited
  PROVE  Sorted(tasks, visited \cup {id})
<1>1. PICK s \in Seq(Ids) :
        /\ visited = {s[i] : i \in 1..Len(s)}
        /\ \A i, j \in 1..Len(s) : i # j => s[i] # s[j]
        /\ \A i \in 1..Len(s) : DepsOf(tasks, s[i]) \subseteq {s[j] : j \in 1..(i - 1)}
  BY DEF Sorted
<1> DEFINE t == Append(s, id)
<1>2. /\ t \in Seq(Ids) /\ Len(s) \in Nat /\ Len(t) = Len(s) + 1
      /\ \A i \in 1..Len(s) : t[i] = s[i]
      /\ t[Len(t)] = id
  OBVIOUS
<1> HIDE DEF t
<1>3. /\ \A i \in 1..Len(t) : i \in 1..Len(s) \/ i = Len(t)
      /\ 1..Len(s) \subseteq 1..Len(t) /\ Len(t) \in 1..Len(t)
  BY <1>2
<1>4. visited \cup {id} = {t[i] : i \in 1..Len(t)}
  BY <1>1, <1>2, <1>3
<1>5. \A i, j \in 1..Len(t) : i # j => t[i] # t[j]
  BY <1>1, <1>2, <1>3
<1>6. ASSUME NEW i \in 1..Len(t) PROVE DepsOf(tasks, t[i]) \subseteq {t[j] : j \in 1..(i - 1)}
  <2>1. CASE i \in 1..Len(s)
    <3>1. \A j \in 1..(i - 1) : t[j] = s[j]
      BY <1>2, <2>1
    <3>2. DepsOf(tasks, t[i]) \subseteq {s[j] : j \in 1..(i - 1)}
      BY <1>1, <1>2, <2>1
    <3> QED
      BY <3>1, <3>2
  <2>2. CASE i = Len(t)
    <3>1. i - 1 = Len(s)
      BY <1>2, <2>2
    <3> QED
      BY <1>1, <1>2, <2>2, <3>1
  <2> QED
    BY <1>3, <2>1, <2>2
<1> QED
  BY <1>2, <1>4, <1>5, <1>6 DEF Sorted

LEMMA LeavingKeeps ==
  ASSUME NEW tasks \in Seq(TaskRecords), NEW w, NEW n \in Nat, WalkInv(tasks, w, n),
         w.dag, w.calls # <<>>, Pending(tasks, w) = {}
  PROVE  WalkInv(tasks, Left(w), n + 1)
<1> DEFINE v == Left(w)
           last == Len(w.calls)
           id == w.calls[last]
<1>1. w \in Walks
  BY DEF WalkInv, Consistent
<1>2. /\ v = [w EXCEPT !.calls = SubSeq(w.calls, 1, last - 1),
                       !.visiting = w.visiting \ {id}, !.visited = w.visited \cup {id}]
      /\ w.calls \in Seq(Ids) /\ w.visiting \subseteq Ids /\ w.visited \subseteq Ids
      /\ w.dag \in BOOLEAN
  BY <1>1 DEF Left, Walks
<1>3. /\ v.calls = SubSeq(w.calls, 1, last - 1) /\ v.visiting = w.visiting \ {id}
      /\ v.visited = w.visited \cup {id} /\ v.dag = w.dag
  BY <1>1, <1>2 DEF Walks
<1>4. last \in Nat \ {0} /\ id \in Ids
  BY <1>2
<1>5. v.calls \in Seq(Ids)
  BY <1>2, <1>3, <1>4
<1>6. Len(v.calls) = last - 1 /\ \A i \in 1..(last - 1) : v.calls[i] = w.calls[i]
  BY <1>2, <1>3, <1>4
<1>7. v \in Walks
  BY <1>1, <1>2, <1>3, <1>4, <1>5 DEF Walks
<1> HIDE DEF v
<1>8. /\ w.visiting = {w.calls[i] : i \in 1..last}
      /\ \A i, j \in 1..last : i # j => w.calls[i] # w.calls[j]
      /\ w.visiting \cap w.visited = {}
  BY DEF WalkInv, Consistent
<1>9. id \in w.visiting /\ id \notin w.visited
  BY <1>4, <1>8
<1>10. v.visiting = {v.calls[i] : i \in 1..Len(v.calls)}
  <2>1. \A i \in 1..last : i \in 1..(last - 1) \/ i = last
    BY <1>4
  <2>2. 1..(last - 1) \subseteq 1..last /\ last \in 1..last /\ last \notin 1..(last - 1)
    BY <1>4
  <2>3. \A i \in 1..(last - 1) : w.calls[i] # id
    BY <1>8, <2>2
  <2>4. w.visiting \ {id} = {w.calls[i] : i \in 1..(last - 1)}
    BY <1>8, <2>1, <2>2, <2>3
  <2> QED
    BY <1>3, <1>6, <2>4
<1>11. \A i, j \in 1..Len(v.calls) : i # j => v.calls[i] # v.calls[j]
  <2>1. 1..(last - 1) \subseteq 1..last
    BY <1>4
  <2> QED
    BY <1>6, <1>8, <2>1
<1>12. v.visiting \cap v.visited = {}
  BY <1>3, <1>8
<1>13. Consistent(v)
  BY <1>7, <1>10, <1>11, <1>12 DEF Consistent
<1>14. Sorted(tasks, v.visited)
  <2>1. DepsOf(tasks, id) \subseteq w.visited
    BY DEF Pending
  <2>2. Sorted(tasks, w.visited)
    BY DEF WalkInv
  <2> QED
    BY <1>2, <1>3, <1>4, <1>9, <2>1, <2>2, SortedGrows
<1>15. Advanced(tasks, v, n + 1)
  <2>1. ~Ended(tasks, w)
    BY DEF Ended
  <2>2. 2 * Cardinality(w.visited) + Cardinality(w.visiting) = n
    BY <2>1 DEF WalkInv, Advanced
  <2>3. IsFiniteSet(w.visiting) /\ IsFiniteSet(w.visited)
    BY <1>2, IdsAreFinite, FS_Subset
  <2>4. Cardinality(v.visiting) = Cardinality(w.visiting) - 1
    <3> HIDE DEF id
    <3>1. Cardinality(w.visiting \ {id}) = Cardinality(w.visiting) - 1
      BY <1>9, <2>3, FS_RemoveElement
    <3> QED
      BY <1>3, <3>1
  <2>5. Cardinality(v.visited) = Cardinality(w.visited) + 1
    BY <1>3, <1>9, <2>3, FS_AddElement
  <2>6. Cardinality(w.visiting) \in Nat /\ Cardinality(w.visited) \in Nat
    BY <2>3, FS_CardinalityType
  <2>7. 2 * Cardinality(v.visited) + Cardinality(v.visiting) = n + 1
    <3>1. PICK a \in Nat, b \in Nat : a = Cardinality(w.visited) /\ b = Cardinality(w.visiting)
      BY <2>6
    <3>2. 2 * a + b = n
      BY <2>2, <3>1
    <3>3. 2 * (a + 1) + (b - 1) = n + 1
      BY <3>2
    <3>4. Cardinality(v.visited) = a + 1 /\ Cardinality(v.visiting) = b - 1
      BY <2>4, <2>5, <3>1
    <3> QED
      BY <3>3, <3>4
  <2> QED
    BY <2>7 DEF Advanced
<1> QED
  BY <1>13, <1>14, <1>15 DEF WalkInv, v

LEMMA StepKeeps ==
  ASSUME NEW tasks \in Seq(TaskRecords), NEW w, NEW n \in Nat, WalkInv(tasks, w, n)
  PROVE  WalkInv(tasks, WalkStep(tasks, w), n + 1)
<1>1. w \in Walks
  BY DEF WalkInv, Consistent
<1>2. CASE ~w.dag /\ WalkStep(tasks, w) = w
  BY <1>2 DEF WalkInv, Advanced
<1>3. CASE w.dag /\ Ended(tasks, w) /\ WalkStep(tasks, w) = w
  BY <1>3 DEF WalkInv, Advanced
<1>4. CASE w.dag /\ w.calls # <<>> /\ Pending(tasks, w) = {} /\ WalkStep(tasks, w) = Left(w)
  BY <1>4, LeavingKeeps
<1>5. ASSUME NEW d \in Pending(tasks, w),
             w.dag /\ d \in w.visiting /\ WalkStep(tasks, w) = [w EXCEPT !.dag = FALSE]
      PROVE  WalkInv(tasks, WalkStep(tasks, w), n + 1)
  <2> DEFINE v == WalkStep(tasks, w)
  <2>1. /\ v \in Walks /\ v.calls = w.calls /\ v.visiting = w.visiting
        /\ v.visited = w.visited /\ v.dag = FALSE
    BY <1>1, <1>5 DEF Walks
  <2> HIDE DEF v
  <2>2. Consistent(v)
    BY <2>1 DEF WalkInv, Consistent
  <2> QED
    BY <2>1, <2>2 DEF WalkInv, Advanced, v
<1>6. ASSUME NEW d \in Pending(tasks, w),
             w.dag /\ d \notin w.visiting /\ WalkStep(tasks, w) = Entered(w, d)
      PROVE  WalkInv(tasks, WalkStep(tasks, w), n + 1)
  BY <1>6, EnteringKeeps
<1> QED
  BY <1>1, <1>2, <1>3, <1>4, <1>5, <1>6, StepForms

\* Induction up to n, for a set.
LEMMA SetInduction ==
  ASSUME NEW n \in Nat, NEW S, 0 \in S, \A i \in 0 .. n : i \in S /\ i < n => i + 1 \in S
  PROVE  n \in S
<1> DEFINE R == StrictSubsetOrdering(0 .. n)
           F == FiniteSubsetsOf(0 .. n)
           T == {0 .. i : i \in (0 .. n) \ S}
<1> SUFFICES ASSUME n \notin S PROVE FALSE
  OBVIOUS
<1>1. IsFiniteSet(0 .. n)
  BY FS_Interval
<1>2. IsWellFoundedOn(R, F)
  BY FS_StrictSubsetOrderingWellFounded
<1>3. T \subseteq F
  <2> SUFFICES ASSUME NEW i \in (0 .. n) PROVE 0 .. i \in F
    OBVIOUS
  <2>1. 0 .. i \subseteq 0 .. n
    OBVIOUS
  <2>2. IsFiniteSet(0 .. i)
    BY <2>1, <1>1, FS_Subset
  <2> QED
    BY <2>1, <2>2 DEF FiniteSubsetsOf
<1>4. n \in (0 .. n) \ S
  OBVIOUS
<1>5. T # {}
  BY <1>4
<1> HIDE DEF R, F, T
<1>6. PICK x \in T : \A y \in T : ~ (<<y, x>> \in R)
  BY <1>2, <1>3, <1>5, WFMin
<1>7. PICK i \in (0 .. n) \ S : x = 0 .. i
  BY DEF T
<1>8. i # 0 /\ i - 1 \in (0 .. n) \ S
  BY SMT
<1>9. 0 .. (i - 1) \subseteq 0 .. i /\ i \in 0 .. i /\ i \notin 0 .. (i - 1)
  BY <1>8
<1>10. (0 .. (i - 1)) # 0 .. i
  BY <1>9
<1>11. 0 .. i \subseteq 0 .. n
  OBVIOUS
<1>12. <<0 .. (i - 1), 0 .. i>> \in R
  BY <1>9, <1>10, <1>11 DEF R, StrictSubsetOrdering
<1>13. 0 .. (i - 1) \in T
  BY <1>8 DEF T
<1> QED
  BY <1>6, <1>7, <1>12, <1>13


\* g is the walk before and after each of its first m steps.
Walked(tasks, m, g) ==
  g = [n \in 0..m |-> IF n = 0 THEN NotBegun ELSE WalkStep(tasks, g[n - 1])]

LEMMA WalkExists ==
  ASSUME NEW tasks, NEW N \in Nat
  PROVE  \E g : Walked(tasks, N, g)
<1> DEFINE S == {m \in 0 .. N : \E g : Walked(tasks, m, g)}
<1>1. 0 \in S
  <2> DEFINE g == [n \in 0 .. 0 |-> NotBegun]
  <2>1. Walked(tasks, 0, g)
    BY DEF Walked
  <2> QED
    BY <2>1
<1>2. ASSUME NEW m \in 0 .. N, m \in S, m < N PROVE m + 1 \in S
  <2>1. PICK g : Walked(tasks, m, g)
    BY <1>2
  <2> DEFINE h == [n \in 0 .. (m + 1) |-> IF n = m + 1 THEN WalkStep(tasks, g[m]) ELSE g[n]]
  <2>2. ASSUME NEW n \in 0 .. (m + 1)
        PROVE  h[n] = IF n = 0 THEN NotBegun ELSE WalkStep(tasks, h[n - 1])
    <3>1. CASE n = m + 1
      <4>1. h[n] = WalkStep(tasks, g[m]) /\ n # 0 /\ n - 1 = m
        BY <3>1
      <4>2. h[m] = g[m]
        OBVIOUS
      <4> QED
        BY <4>1, <4>2
    <3>2. CASE n \in 0 .. m
      <4>1. h[n] = g[n] /\ g[n] = IF n = 0 THEN NotBegun ELSE WalkStep(tasks, g[n - 1])
        BY <2>1, <3>2 DEF Walked
      <4>2. n # 0 => h[n - 1] = g[n - 1]
        BY <3>2
      <4> QED
        BY <4>1, <4>2
    <3> QED
      BY <3>1, <3>2
  <2>3. Walked(tasks, m + 1, h)
    <3> HIDE DEF h
    <3>1. DOMAIN h = 0 .. (m + 1) /\ h = [n \in 0 .. (m + 1) |-> h[n]]
      BY DEF h
    <3> QED
      BY <3>1, <2>2 DEF Walked
  <2> HIDE DEF h
  <2> QED
    BY <1>2, <2>3
<1>3. N \in S
  <2> HIDE DEF S
  <2> QED
    BY <1>1, <1>2, SetInduction
<1> QED
  BY <1>3

LEMMA WalkUnrolls ==
  ASSUME NEW tasks
  PROVE  \E f : /\ f[0] = NotBegun
                /\ \A n \in 1 .. WalkLength : f[n] = WalkStep(tasks, f[n - 1])
                /\ DagValid(tasks) = f[WalkLength].dag
<1> DEFINE f == CHOOSE g : Walked(tasks, WalkLength, g)
<1>1. WalkLength \in Nat
  BY IdsAreFinite
<1>2. Walked(tasks, WalkLength, f)
  BY <1>1, WalkExists, Zenon
<1>3. DagValid(tasks) = f[WalkLength].dag
  BY Zenon DEF DagValid, Walked
<1> HIDE DEF f
<1>4. f[0] = NotBegun
  BY <1>1, <1>2 DEF Walked
<1>5. \A n \in 1 .. WalkLength : f[n] = WalkStep(tasks, f[n - 1])
  BY <1>1, <1>2 DEF Walked
<1> QED
  BY <1>3, <1>4, <1>5

-----------------------------------------------------------------------------
\* Each dependency is a task of the plan.
Closed(tasks) == \A i \in 1..Len(tasks) : tasks[i].deps \subseteq IdsOf(tasks)

Inside(tasks, w) == w.visiting \cup w.visited \subseteq IdsOf(tasks)

\* A walk over a plan that is closed does not leave it.
LEMMA StepStaysInside ==
  ASSUME NEW tasks, Closed(tasks), NEW w, Consistent(w), Inside(tasks, w)
  PROVE  Inside(tasks, WalkStep(tasks, w))
<1>1. w \in Walks /\ \A i \in 1..Len(w.calls) : w.calls[i] \in w.visiting
  BY DEF Consistent
<1>2. CASE WalkStep(tasks, w) = w
  BY <1>2
<1>3. CASE w.calls # <<>> /\ WalkStep(tasks, w) = Left(w)
  <2>1. /\ Left(w).visiting = w.visiting \ {w.calls[Len(w.calls)]}
        /\ Left(w).visited = w.visited \cup {w.calls[Len(w.calls)]}
    BY <1>1 DEF Left, Walks
  <2>2. Len(w.calls) \in 1..Len(w.calls)
    BY <1>1, <1>3 DEF Walks
  <2> QED
    BY <1>1, <1>3, <2>1, <2>2 DEF Inside
<1>4. CASE WalkStep(tasks, w) = [w EXCEPT !.dag = FALSE]
  BY <1>1, <1>4 DEF Inside, Walks
<1>5. ASSUME NEW d \in Pending(tasks, w), WalkStep(tasks, w) = Entered(w, d)
      PROVE  Inside(tasks, WalkStep(tasks, w))
  <2>1. d \in IdsOf(tasks)
    BY DEF Pending, DepsOf, Closed
  <2>2. /\ Entered(w, d).visiting = w.visiting \cup {d}
        /\ Entered(w, d).visited = w.visited
    BY <1>1 DEF Entered, Walks
  <2> QED
    BY <1>5, <2>1, <2>2 DEF Inside
<1> QED
  BY <1>1, <1>2, <1>3, <1>4, <1>5, StepForms

\* When every id has been left, the walk has ended.
LEMMA ExhaustedIsEnded ==
  ASSUME NEW tasks \in Seq(TaskRecords), NEW w, Consistent(w),
         2 * Cardinality(w.visited) + Cardinality(w.visiting) = WalkLength
  PROVE  Ended(tasks, w)
<1>1. /\ w.visiting \subseteq Ids /\ w.visited \subseteq Ids /\ w.calls \in Seq(Ids)
      /\ w.visiting \cap w.visited = {}
  BY DEF Consistent, Walks
<1>2. /\ IsFiniteSet(w.visiting) /\ IsFiniteSet(w.visited)
  BY <1>1, IdsAreFinite, FS_Subset
<1>3. /\ Cardinality(w.visiting) \in Nat /\ Cardinality(w.visited) \in Nat
      /\ Cardinality(Ids) \in Nat
  BY <1>2, IdsAreFinite, FS_CardinalityType
<1>4. Cardinality(w.visiting \cup w.visited) = Cardinality(w.visiting) + Cardinality(w.visited)
  <2>1. Cardinality(w.visiting \cap w.visited) = 0
    BY <1>1, FS_EmptySet
  <2>2. Cardinality(w.visiting \cup w.visited)
          = Cardinality(w.visiting) + Cardinality(w.visited)
              - Cardinality(w.visiting \cap w.visited)
    BY <1>2, FS_Union
  <2> QED
    BY <1>3, <2>1, <2>2
<1>5. Cardinality(w.visiting \cup w.visited) <= Cardinality(Ids)
  <2>1. w.visiting \cup w.visited \in SUBSET Ids
    BY <1>1
  <2> QED
    BY <2>1, IdsAreFinite, FS_Subset
<1>6. Cardinality(w.visited) = Cardinality(Ids) /\ Cardinality(w.visiting) = 0
  BY <1>3, <1>4, <1>5 DEF WalkLength
<1>7. w.visited = Ids /\ w.visiting = {}
  BY <1>1, <1>2, <1>6, IdsAreFinite, FS_Subset, FS_EmptySet
<1>8. w.calls = <<>>
  <2>1. \A i \in 1..Len(w.calls) : FALSE
    BY <1>7 DEF Consistent
  <2>2. Len(w.calls) = 0
    BY <1>1, <2>1
  <2> QED
    BY <1>1, <2>2
<1>9. Pending(tasks, w) = {}
  BY <1>7, <1>8, DepsAreIds DEF Pending
<1> QED
  BY <1>8, <1>9 DEF Ended

\* A walk that found the graph acyclic has sorted the ids of the plan.
LEMMA WalkSorts ==
  ASSUME NEW tasks \in Seq(TaskRecords), Closed(tasks), DagValid(tasks)
  PROVE  Sorted(tasks, IdsOf(tasks))
<1>1. PICK f : /\ f[0] = NotBegun
               /\ \A n \in 1 .. WalkLength : f[n] = WalkStep(tasks, f[n - 1])
               /\ DagValid(tasks) = f[WalkLength].dag
  BY WalkUnrolls
<1>2. WalkLength \in Nat
  BY IdsAreFinite
<1> DEFINE S == {n \in 0..WalkLength : WalkInv(tasks, f[n], n) /\ Inside(tasks, f[n])}
<1>3. 0 \in S
  BY <1>1, <1>2, BeginsRight DEF Inside, NotBegun
<1>4. ASSUME NEW n \in 0..WalkLength, n \in S, n < WalkLength PROVE n + 1 \in S
  <2>1. n + 1 \in 1..WalkLength /\ (n + 1) - 1 = n /\ n \in Nat
    BY <1>2, <1>4
  <2>2. f[n + 1] = WalkStep(tasks, f[n])
    BY <1>1, <2>1
  <2>3. WalkInv(tasks, f[n], n) /\ Inside(tasks, f[n])
    BY <1>4
  <2>4. WalkInv(tasks, f[n + 1], n + 1)
    BY <2>1, <2>2, <2>3, StepKeeps
  <2>5. Inside(tasks, f[n + 1])
    BY <2>2, <2>3, StepStaysInside DEF WalkInv
  <2> QED
    BY <1>2, <2>1, <2>4, <2>5
<1>5. WalkLength \in S
  <2> HIDE DEF S
  <2> QED
    BY <1>2, <1>3, <1>4, SetInduction
<1> DEFINE w == f[WalkLength]
<1>6. WalkInv(tasks, w, WalkLength) /\ Inside(tasks, w) /\ w.dag
  BY <1>1, <1>5
<1> HIDE DEF w, S
<1>7. Ended(tasks, w)
  BY <1>6, ExhaustedIsEnded DEF WalkInv, Advanced
<1>8. IdsOf(tasks) = w.visited
  BY <1>6, <1>7 DEF Ended, Pending, Inside
<1> QED
  BY <1>6, <1>8 DEF WalkInv

-----------------------------------------------------------------------------
Distinct(tasks) == \A i, j \in 1..Len(tasks) : i # j => tasks[i].id # tasks[j].id

LEMMA OwnDeps ==
  ASSUME NEW tasks \in Seq(TaskRecords), Distinct(tasks), NEW i \in 1..Len(tasks)
  PROVE  DepsOf(tasks, tasks[i].id) = tasks[i].deps
<1> DEFINE named == {k \in 1..Len(tasks) : tasks[k].id = tasks[i].id}
<1>1. named = {i}
  BY DEF Distinct
<1>2. {k \in named : \A j \in named : k <= j} = {i}
  BY <1>1
<1>3. {tasks[k].deps : k \in {i}} = {tasks[i].deps}
  OBVIOUS
<1> QED
  BY <1>2, <1>3 DEF DepsOf

\* A function from 1..n onto itself, or into itself without repetition, is both.
LEMMA Permutes ==
  ASSUME NEW n \in Nat, NEW o \in [1..n -> 1..n], \A i, j \in 1..n : i # j => o[i] # o[j]
  PROVE  \A k \in 1..n : \E i \in 1..n : o[i] = k
<1>1. IsFiniteSet(1..n)
  BY FS_Interval
<1>2. o \in Injection(1..n, 1..n)
  BY DEF Injection, IsInjective
<1>3. o \in Surjection(1..n, 1..n)
  BY <1>1, <1>2, FS_Injection
<1> QED
  BY <1>3 DEF Surjection

\* As many ids are sorted as there are tasks.
LEMMA SortedLength ==
  ASSUME NEW tasks \in Seq(TaskRecords), Distinct(tasks), NEW s \in Seq(Ids),
         IdsOf(tasks) = {s[i] : i \in 1..Len(s)},
         \A i, j \in 1..Len(s) : i # j => s[i] # s[j]
  PROVE  Len(s) = Len(tasks)
<1> DEFINE f == [i \in 1..Len(s) |-> s[i]]
           g == [i \in 1..Len(tasks) |-> tasks[i].id]
<1>1. Len(s) \in Nat /\ Len(tasks) \in Nat
  OBVIOUS
<1>2. /\ IsFiniteSet(1..Len(s)) /\ Cardinality(1..Len(s)) = Len(s)
      /\ IsFiniteSet(1..Len(tasks)) /\ Cardinality(1..Len(tasks)) = Len(tasks)
  <2>1. \A m \in Nat : IsFiniteSet(1..m) /\ Cardinality(1..m) = m
    <3> SUFFICES ASSUME NEW m \in Nat PROVE IsFiniteSet(1..m) /\ Cardinality(1..m) = m
      OBVIOUS
    <3>1. 1 \in Int /\ m \in Int
      OBVIOUS
    <3>2. IsFiniteSet(1..m) /\ Cardinality(1..m) = IF 1 > m THEN 0 ELSE m - 1 + 1
      BY <3>1, FS_Interval
    <3> QED
      BY <3>2
  <2> QED
    BY <1>1, <2>1
<1>3. f \in Bijection(1..Len(s), IdsOf(tasks))
  BY DEF Bijection, Injection, Surjection, IsInjective
<1>4. g \in Bijection(1..Len(tasks), IdsOf(tasks))
  BY DEF Bijection, Injection, Surjection, IsInjective, IdsOf, Distinct
<1>5. ExistsBijection(1..Len(s), IdsOf(tasks)) /\ ExistsBijection(1..Len(tasks), IdsOf(tasks))
  BY <1>3, <1>4 DEF ExistsBijection
<1>6. Cardinality(IdsOf(tasks)) = Len(s) /\ Cardinality(IdsOf(tasks)) = Len(tasks)
  BY <1>2, <1>5, FS_Bijection
<1> QED
  BY <1>6

\* What the walk calls acyclic can be run one task after another.
LEMMA AcyclicIsSerializable ==
  ASSUME NEW tasks \in Seq(TaskRecords), Len(tasks) \in 1..Len(TaskIds),
         Distinct(tasks), Closed(tasks), DagValid(tasks)
  PROVE  Serializable(tasks)
<1>1. PICK s \in Seq(Ids) :
        /\ IdsOf(tasks) = {s[i] : i \in 1..Len(s)}
        /\ \A i, j \in 1..Len(s) : i # j => s[i] # s[j]
        /\ \A i \in 1..Len(s) : DepsOf(tasks, s[i]) \subseteq {s[j] : j \in 1..(i - 1)}
  BY WalkSorts DEF Sorted
<1>2. Len(s) = Len(tasks)
  BY <1>1, SortedLength
<1> DEFINE n == Len(tasks)
           order == [k \in 1..n |-> CHOOSE i \in 1..n : tasks[i].id = s[k]]
<1>3. n \in Nat
  OBVIOUS
<1>4. \A k \in 1..n : \E i \in 1..n : tasks[i].id = s[k]
  BY <1>1, <1>2 DEF IdsOf
<1>5. \A k \in 1..n : order[k] \in 1..n /\ tasks[order[k]].id = s[k]
  BY <1>4
<1>6. DOMAIN order = 1..n /\ order \in [1..n -> 1..n]
  BY <1>5
<1> HIDE DEF order
<1>7. \A i, j \in 1..n : i # j => order[i] # order[j]
  BY <1>1, <1>2, <1>5
<1>8. order \in Orders
  <2>1. order \in {o \in [1..n -> 1..n] : \A i, j \in 1..n : i # j => o[i] # o[j]}
    BY <1>6, <1>7
  <2> QED
    BY <2>1 DEF Orders
<1>9. ASSUME NEW i \in 1..n
      PROVE  tasks[order[i]].deps \subseteq {tasks[order[j]].id : j \in 1..(i - 1)}
  <2>1. tasks[order[i]].deps = DepsOf(tasks, s[i])
    BY <1>5, OwnDeps
  <2>2. \A j \in 1..(i - 1) : j \in 1..n
    BY <1>3
  <2>3. {s[j] : j \in 1..(i - 1)} = {tasks[order[j]].id : j \in 1..(i - 1)}
    <3>1. \A j \in 1..(i - 1) : s[j] = tasks[order[j]].id
      BY <1>5, <2>2
    <3> QED
      BY <3>1, Zenon
  <2> QED
    BY <1>1, <1>2, <2>1, <2>3
<1> QED
  BY <1>6, <1>8, <1>9 DEF Serializable

-----------------------------------------------------------------------------
(* The other way: where there is an order, the walk finds no cycle.          *)

\* The ids have ranks, and what a task depends on has a lower one than itself.
Ranking(tasks, rank) ==
  /\ rank \in [Ids -> Nat]
  /\ \A id \in Ids : \A d \in DepsOf(tasks, id) : rank[d] < rank[id]

LEMMA SerializableIsRanked ==
  ASSUME NEW tasks \in Seq(TaskRecords), Distinct(tasks), Serializable(tasks)
  PROVE  Closed(tasks) /\ \E rank : Ranking(tasks, rank)
<1> DEFINE n == Len(tasks)
<1>1. PICK order \in Orders :
        /\ DOMAIN order = 1..n
        /\ \A i \in 1..n : tasks[order[i]].deps \subseteq {tasks[order[j]].id : j \in 1..(i - 1)}
  BY DEF Serializable
<1>2. n \in Nat
  OBVIOUS
<1>3. order \in [1..n -> 1..n] /\ \A i, j \in 1..n : i # j => order[i] # order[j]
  <2>1. PICK m \in 1..Len(TaskIds) :
          /\ order \in [1..m -> 1..m] /\ \A i, j \in 1..m : i # j => order[i] # order[j]
    BY DEF Orders
  <2>2. 1..m = 1..n
    BY <1>1, <2>1
  <2> QED
    BY <2>1, <2>2
<1>4. \A k \in 1..n : \E i \in 1..n : order[i] = k
  BY <1>2, <1>3, Permutes
<1>5. ASSUME NEW k \in 1..n PROVE tasks[k].deps \subseteq IdsOf(tasks)
  <2>1. PICK i \in 1..n : order[i] = k
    BY <1>4
  <2>2. \A j \in 1..(i - 1) : j \in 1..n
    BY <1>2
  <2>3. {tasks[order[j]].id : j \in 1..(i - 1)} \subseteq IdsOf(tasks)
    BY <1>3, <2>2 DEF IdsOf
  <2> QED
    BY <1>1, <2>1, <2>3
<1> DEFINE PositionsOf(id) == {i \in 1..n : tasks[order[i]].id = id}
           rank == [id \in Ids |->
                      IF PositionsOf(id) = {} THEN 0 ELSE CHOOSE i \in PositionsOf(id) : TRUE]
<1>6. ASSUME NEW i \in 1..n PROVE PositionsOf(tasks[order[i]].id) = {i}
  BY <1>3 DEF Distinct
<1>7. \A i \in 1..n : tasks[order[i]].id \in Ids
  <2>1. \A k \in 1..n : tasks[k] \in TaskRecords
    OBVIOUS
  <2> QED
    BY <1>3, <2>1 DEF TaskRecords
<1>8. \A i \in 1..n : rank[tasks[order[i]].id] = i
  <2> HIDE DEF PositionsOf
  <2>1. \A i \in 1..n : (CHOOSE k \in {i} : TRUE) = i
    OBVIOUS
  <2> QED
    BY <1>6, <1>7, <2>1
<1>9. rank \in [Ids -> Nat]
  <2>1. \A id \in Ids :
          PositionsOf(id) # {} => (CHOOSE i \in PositionsOf(id) : TRUE) \in PositionsOf(id)
    OBVIOUS
  <2>2. \A id \in Ids : PositionsOf(id) \subseteq Nat
    BY <1>2
  <2> HIDE DEF PositionsOf
  <2> QED
    BY <2>1, <2>2
<1> HIDE DEF rank
<1>10. ASSUME NEW id \in Ids, NEW d \in DepsOf(tasks, id) PROVE rank[d] < rank[id]
  <2>1. PICK k \in 1..n : tasks[k].id = id
    BY DEF DepsOf
  <2>2. PICK i \in 1..n : order[i] = k
    BY <1>4
  <2>3. d \in tasks[order[i]].deps
    BY <2>1, <2>2, OwnDeps
  <2>4. PICK j \in 1..(i - 1) : d = tasks[order[j]].id
    BY <1>1, <2>3
  <2>5. j \in 1..n /\ j < i
    BY <1>2
  <2> QED
    BY <1>8, <2>1, <2>2, <2>4, <2>5
<1>11. Ranking(tasks, rank)
  BY <1>9, <1>10 DEF Ranking
<1> QED
  BY <1>5, <1>11 DEF Closed

\* The ids being visited have lower and lower ranks.
Descending(w, rank) ==
  /\ w.dag
  /\ \A i, j \in 1..Len(w.calls) : i < j => rank[w.calls[j]] < rank[w.calls[i]]

LEMMA StepDescends ==
  ASSUME NEW tasks \in Seq(TaskRecords), NEW rank, Ranking(tasks, rank),
         NEW w, Consistent(w), Descending(w, rank)
  PROVE  Descending(WalkStep(tasks, w), rank)
<1>1. /\ w \in Walks /\ w.visiting = {w.calls[i] : i \in 1..Len(w.calls)}
      /\ w.calls \in Seq(Ids) /\ Len(w.calls) \in Nat
  BY DEF Consistent, Walks
<1>2. CASE WalkStep(tasks, w) = w
  BY <1>2
<1>3. CASE w.calls # <<>> /\ WalkStep(tasks, w) = Left(w)
  <2> DEFINE v == Left(w)
             last == Len(w.calls)
  <2>1. v.calls = SubSeq(w.calls, 1, last - 1) /\ v.dag = w.dag
    BY <1>1 DEF Left, Walks
  <2> HIDE DEF v
  <2>2. last \in Nat \ {0}
    BY <1>1, <1>3
  <2>3. Len(v.calls) = last - 1 /\ \A i \in 1..(last - 1) : v.calls[i] = w.calls[i]
    BY <1>1, <2>1, <2>2
  <2>4. 1..(last - 1) \subseteq 1..last
    BY <2>2
  <2> QED
    BY <1>3, <2>1, <2>3, <2>4 DEF Descending, v
<1>4. ASSUME NEW d \in Pending(tasks, w)
      PROVE  \A i \in 1..Len(w.calls) : rank[d] < rank[w.calls[i]]
  <2> SUFFICES ASSUME NEW i \in 1..Len(w.calls) PROVE rank[d] < rank[w.calls[i]]
    OBVIOUS
  <2> DEFINE last == Len(w.calls)
             top == w.calls[last]
  <2>1. last \in 1..last /\ w.calls # <<>>
    BY <1>1
  <2>2. d \in DepsOf(tasks, top)
    BY <2>1 DEF Pending
  <2>3. top \in Ids /\ d \in Ids /\ w.calls[i] \in Ids
    BY <1>1, <2>1, PendingIds
  <2>4. rank[d] < rank[top]
    BY <2>2, <2>3 DEF Ranking
  <2>5. i = last \/ rank[top] < rank[w.calls[i]]
    BY <1>1, <2>1 DEF Descending
  <2>6. rank[d] \in Nat /\ rank[top] \in Nat /\ rank[w.calls[i]] \in Nat
    BY <2>3 DEF Ranking
  <2> QED
    BY <2>4, <2>5, <2>6
<1>5. ASSUME NEW d \in Pending(tasks, w), d \in w.visiting
      PROVE  FALSE
  <2>1. PICK i \in 1..Len(w.calls) : d = w.calls[i]
    BY <1>1, <1>5
  <2>2. rank[d] \in Nat
    BY <1>1, PendingIds DEF Ranking
  <2> QED
    BY <1>4, <2>1, <2>2
<1>6. ASSUME NEW d \in Pending(tasks, w), WalkStep(tasks, w) = Entered(w, d)
      PROVE  Descending(WalkStep(tasks, w), rank)
  <2> DEFINE v == Entered(w, d)
  <2>1. v.calls = Append(w.calls, d) /\ v.dag = w.dag
    BY <1>1 DEF Entered, Walks
  <2> HIDE DEF v
  <2>2. d \in Ids
    BY <1>1, PendingIds
  <2>3. /\ Len(v.calls) = Len(w.calls) + 1
        /\ \A i \in 1..Len(w.calls) : v.calls[i] = w.calls[i]
        /\ v.calls[Len(v.calls)] = d
    BY <1>1, <2>1, <2>2
  <2>4. \A i, j \in 1..Len(v.calls) :
          i < j => i \in 1..Len(w.calls) /\ (j \in 1..Len(w.calls) \/ j = Len(v.calls))
    BY <1>1, <2>3
  <2> QED
    BY <1>4, <1>6, <2>1, <2>3, <2>4 DEF Descending, v
<1> QED
  BY <1>1, <1>2, <1>3, <1>5, <1>6, StepForms DEF Descending

LEMMA SerializableIsAcyclic ==
  ASSUME NEW tasks \in Seq(TaskRecords), Distinct(tasks), Serializable(tasks)
  PROVE  DagValid(tasks)
<1>1. PICK f : /\ f[0] = NotBegun
               /\ \A n \in 1 .. WalkLength : f[n] = WalkStep(tasks, f[n - 1])
               /\ DagValid(tasks) = f[WalkLength].dag
  BY WalkUnrolls
<1>2. PICK rank : Ranking(tasks, rank)
  BY SerializableIsRanked
<1>3. WalkLength \in Nat
  BY IdsAreFinite
<1> DEFINE S == {n \in 0..WalkLength : WalkInv(tasks, f[n], n) /\ Descending(f[n], rank)}
<1>4. 0 \in S
  BY <1>1, <1>3, BeginsRight DEF Descending, NotBegun
<1>5. ASSUME NEW n \in 0..WalkLength, n \in S, n < WalkLength PROVE n + 1 \in S
  <2>1. n + 1 \in 1..WalkLength /\ (n + 1) - 1 = n /\ n \in Nat
    BY <1>3, <1>5
  <2>2. f[n + 1] = WalkStep(tasks, f[n])
    BY <1>1, <2>1
  <2>3. WalkInv(tasks, f[n], n) /\ Descending(f[n], rank)
    BY <1>5
  <2>4. WalkInv(tasks, f[n + 1], n + 1)
    BY <2>1, <2>2, <2>3, StepKeeps
  <2>5. Descending(f[n + 1], rank)
    BY <1>2, <2>2, <2>3, StepDescends DEF WalkInv
  <2> QED
    BY <1>3, <2>1, <2>4, <2>5
<1>6. WalkLength \in S
  <2> HIDE DEF S
  <2> QED
    BY <1>3, <1>4, <1>5, SetInduction
<1> QED
  BY <1>1, <1>6 DEF Descending

-----------------------------------------------------------------------------
(* The plan on its way.                                                      *)

Stages == {"given", "shaped", "rejected", "frozen", "edited", "loaded", "refused"}

ShapingTypeOK ==
  /\ stage \in Stages
  /\ parent \in Parents
  /\ plan \in Plans
  /\ digest \in Plans

\* What each stage says of the plan and its digest.
Kept ==
  /\ stage = "given" => plan = NoPlan
  /\ stage \in {"shaped", "frozen", "loaded"} => plan = Shaped
  /\ stage \in {"frozen", "loaded"} => Valid(plan)
  /\ stage = "rejected" /\ plan # NoPlan => plan = Shaped /\ ~Valid(plan)
  /\ digest # NoPlan => digest = Shaped

ShapingInv == ShapingTypeOK /\ Kept

LEMMA ParentFacts ==
  ASSUME parent \in Parents
  PROVE  /\ Count \in 1..Len(TaskIds)
         /\ parent.deps \in [1..Count -> SUBSET Ids]
         /\ parent.alike \in BOOLEAN /\ parent.commands \in BOOLEAN
         /\ parent.owns \in Ownerships
         /\ parent.asks \in 1..MaxAcceptance
<1>1. PICK n \in 1..Len(TaskIds) : parent \in ParentsOf(n)
  BY DEF Parents
<1>2. /\ parent.deps \in [1..n -> SUBSET Ids]
      /\ parent.alike \in BOOLEAN /\ parent.commands \in BOOLEAN
      /\ parent.owns \in Ownerships
      /\ parent.asks \in 1..MaxAcceptance
  BY <1>1 DEF ParentsOf
<1>3. n \in Nat
  BY ShapingAssumption
<1>4. Len(parent.deps) = n
  BY <1>2, <1>3
<1> QED
  BY <1>2, <1>4 DEF Count

\* The task made of the ith objective.
TaskAt(i) ==
  [id |-> TaskIds[IF parent.alike THEN 1 ELSE i], deps |-> parent.deps[i],
   paths |-> Paths(i), shared |-> Overlaps(i), covers |-> Covers(i),
   commands |-> parent.commands]

LEMMA TaskAtType ==
  ASSUME parent \in Parents, NEW i \in 1..Count
  PROVE  TaskAt(i) \in TaskRecords
<1>1. i \in 1..Len(TaskIds) /\ 1 \in 1..Len(TaskIds) /\ i \in Nat
  BY ParentFacts, ShapingAssumption
<1>2. TaskIds[i] \in Ids /\ TaskIds[1] \in Ids
  BY <1>1 DEF Ids
<1>3. parent.deps[i] \in SUBSET Ids /\ parent.commands \in BOOLEAN
  BY ParentFacts
<1>4. Paths(i) \in SUBSET (Ids \cup {SharedPath})
  BY <1>2, ParentFacts DEF Paths, Ownerships
<1>5. Covers(i) \in SUBSET (1..MaxAcceptance)
  <2>1. parent.asks \in 1..MaxAcceptance /\ MaxAcceptance \in Nat
    BY ParentFacts, ShapingAssumption
  <2>2. Lesser(i, parent.asks) \in 1..MaxAcceptance
    BY <1>1, <2>1 DEF Lesser
  <2>3. 1..parent.asks \subseteq 1..MaxAcceptance
    BY <2>1
  <2> QED
    BY <2>2, <2>3 DEF Covers
<1>6. Overlaps(i) \in BOOLEAN
  BY DEF Overlaps
<1> HIDE DEF TaskAt
<1> QED
  BY <1>2, <1>3, <1>4, <1>5, <1>6 DEF TaskAt, TaskRecords

LEMMA ShapedFacts ==
  ASSUME parent \in Parents
  PROVE  /\ Shaped.tasks \in Seq(TaskRecords) /\ Len(Shaped.tasks) = Count
         /\ \A i \in 1..Count : Shaped.tasks[i] = TaskAt(i)
         /\ Shaped.asks = 1..parent.asks /\ Shaped.final = parent.commands
         /\ Shaped \in Plans
<1>1. Shaped = [tasks |-> [i \in 1..Count |-> TaskAt(i)], asks |-> 1..parent.asks,
                final |-> parent.commands]
  BY DEF Shaped, TaskAt
<1>2. Count \in Nat
  BY ParentFacts, ShapingAssumption
<1> DEFINE ts == [i \in 1..Count |-> TaskAt(i)]
<1>3. ts \in [1..Count -> TaskRecords]
  BY TaskAtType
<1>4. \A i \in 1..Count : ts[i] = TaskAt(i)
  OBVIOUS
<1> HIDE DEF ts
<1>5. ts \in Seq(TaskRecords) /\ Len(ts) = Count
  BY <1>2, <1>3
<1>6. 1..parent.asks \in SUBSET (1..MaxAcceptance) /\ parent.commands \in BOOLEAN
  BY ParentFacts, ShapingAssumption
<1>7. Shaped = [tasks |-> ts, asks |-> 1..parent.asks, final |-> parent.commands]
  BY <1>1 DEF ts
<1>8. Shaped.tasks = ts /\ Shaped.asks = 1..parent.asks /\ Shaped.final = parent.commands
  BY <1>7
<1>9. Shaped \in Plans
  BY <1>5, <1>6, <1>7 DEF Plans
<1> QED
  BY <1>4, <1>5, <1>8, <1>9

LEMMA NoPlanType == NoPlan \in Plans
<1>1. <<>> \in Seq(TaskRecords) /\ {} \in SUBSET (1..MaxAcceptance)
  OBVIOUS
<1> QED
  BY <1>1 DEF NoPlan, Plans

\* What a valid plan made of the parent is worth.
LEMMA ValidShapedServes ==
  ASSUME parent \in Parents, Valid(Shaped)
  PROVE  /\ Serializable(Shaped.tasks)
         /\ \A a \in 1..parent.asks : \E i \in 1..Len(Shaped.tasks) : a \in Shaped.tasks[i].covers
<1>1. Distinct(Shaped.tasks) /\ Closed(Shaped.tasks) /\ DagValid(Shaped.tasks) /\ Covered(Shaped)
  BY DEF Valid, Distinct, Closed
<1>2. Serializable(Shaped.tasks)
  BY <1>1, ShapedFacts, ParentFacts, AcyclicIsSerializable
<1>3. \A a \in 1..parent.asks : a \in UNION {Shaped.tasks[i].covers : i \in 1..Len(Shaped.tasks)}
  BY <1>1, ShapedFacts DEF Covered
<1> QED
  BY <1>2, <1>3

\* The other rules of the validation hold of what shape_task makes, if the ids
\* differ, there are tasks enough for the criteria, and commands and paths.
LEMMA ServesIsValid ==
  ASSUME parent \in Parents, ~parent.alike, parent.asks <= Count, parent.commands,
         parent.owns # "none", Serializable(Shaped.tasks)
  PROVE  Valid(Shaped)
<1> DEFINE ts == Shaped.tasks
           own == 1..Len(ts)
<1>1. /\ ts \in Seq(TaskRecords) /\ Len(ts) = Count /\ Count \in 1..Len(TaskIds)
      /\ Count \in Nat /\ parent.asks \in 1..MaxAcceptance /\ parent.asks \in Nat
  BY ShapedFacts, ParentFacts, ShapingAssumption
<1>2. \A i \in own : ts[i] = TaskAt(i)
  BY ShapedFacts
<1>3. \A i \in own : ts[i].id = TaskIds[i] /\ ts[i].shared = Overlaps(i)
                     /\ ts[i].paths = Paths(i) /\ ts[i].covers = Covers(i)
  <2> SUFFICES ASSUME NEW i \in own
               PROVE  ts[i].id = TaskIds[i] /\ ts[i].shared = Overlaps(i)
                      /\ ts[i].paths = Paths(i) /\ ts[i].covers = Covers(i)
    OBVIOUS
  <2>1. ts[i] = TaskAt(i)
    BY <1>2
  <2>2. TaskAt(i).id = TaskIds[i] /\ TaskAt(i).shared = Overlaps(i)
        /\ TaskAt(i).paths = Paths(i) /\ TaskAt(i).covers = Covers(i)
    BY DEF TaskAt
  <2> HIDE DEF ts, TaskAt
  <2> QED
    BY <2>1, <2>2
<1> HIDE DEF ts
<1>4. \A i, j \in own : i # j => ts[i].id # ts[j].id
  <2>1. own \subseteq 1..Len(TaskIds)
    BY <1>1, ShapingAssumption
  <2> QED
    BY <1>3, <2>1, ShapingAssumption
<1>5. Distinct(ts)
  BY <1>4 DEF Distinct
<1>6. Closed(ts) /\ DagValid(ts)
  BY <1>1, <1>5, SerializableIsRanked, SerializableIsAcyclic DEF ts
<1>7. ts # <<>>
  BY <1>1
<1>8. \A i \in own : ts[i].paths # {}
  BY <1>3, ParentFacts DEF Paths, Ownerships
<1>9. Covered(Shaped)
  <2> SUFFICES ASSUME NEW a \in 1..parent.asks PROVE \E i \in own : a \in Covers(i)
    <3>1. \A i \in own : ts[i].covers = Covers(i)
      BY <1>3
    <3> QED
      BY <3>1, ShapedFacts DEF Covered, ts
  <2>1. CASE Count = 1
    BY <1>1, <2>1 DEF Covers
  <2>2. CASE Count # 1
    <3>1. a \in own /\ Lesser(a, parent.asks) = a
      BY <1>1 DEF Lesser
    <3> QED
      BY <2>2, <3>1 DEF Covers
  <2> QED
    BY <2>1, <2>2
<1>10. \A i, j \in own : i # j /\ ts[i].paths \cap ts[j].paths # {} => ts[i].shared
  <2> SUFFICES ASSUME NEW i \in own, NEW j \in own, i # j, ts[i].paths \cap ts[j].paths # {}
               PROVE  ts[i].shared
    OBVIOUS
  <2>1. Paths(i) \cap Paths(j) # {}
    BY <1>3
  <2>2. j \in 1..Count \ {i}
    BY <1>1
  <2>3. Overlaps(i)
    BY <2>1, <2>2 DEF Overlaps
  <2> QED
    BY <1>3, <2>3
<1>11. Shaped.final
  BY ShapedFacts
<1> QED
  BY <1>4, <1>6, <1>7, <1>8, <1>9, <1>10, <1>11 DEF Valid, Closed, Declared, ts

\* What shape_task makes depends on the parent goal alone.
LEMMA ShapedStays ==
  ASSUME UNCHANGED parent
  PROVE  Shaped' = Shaped
  BY DEF Shaped, Count, Covers, Paths, Overlaps

LEMMA InitShapingInv == ASSUME ShapingInit PROVE ShapingInv
  BY NoPlanType DEF ShapingInit, ShapingInv, ShapingTypeOK, Kept, Stages

LEMMA ShapeKeeps == ASSUME ShapingInv, Shape PROVE ShapingInv'
<1>1. parent' = parent /\ parent \in Parents /\ digest' = digest
  BY DEF ShapingInv, ShapingTypeOK, Shape
<1>2. Shaped' = Shaped /\ Shaped \in Plans
  BY <1>1, ShapedStays, ShapedFacts
<1>3. stage = "given" /\ plan = NoPlan
  BY DEF ShapingInv, Kept, Shape
<1>4. \/ stage' = "rejected" /\ plan' = plan
      \/ stage' = "shaped" /\ plan' = Shaped
  BY DEF Shape
<1>5. ShapingTypeOK'
  BY <1>1, <1>2, <1>4 DEF ShapingInv, ShapingTypeOK, Stages
<1>6. Kept'
  BY <1>1, <1>2, <1>3, <1>4 DEF ShapingInv, Kept
<1> QED
  BY <1>5, <1>6 DEF ShapingInv

LEMMA FreezeKeeps == ASSUME ShapingInv, Freeze PROVE ShapingInv'
<1>1. parent' = parent /\ plan' = plan /\ stage = "shaped"
  BY DEF Freeze
<1>2. Shaped' = Shaped
  BY <1>1, ShapedStays
<1>3. plan = Shaped
  BY <1>1 DEF ShapingInv, Kept
<1>4. \/ Valid(plan) /\ stage' = "frozen" /\ digest' = plan
      \/ ~Valid(plan) /\ stage' = "rejected" /\ digest' = digest
  BY DEF Freeze
<1>5. ShapingTypeOK'
  BY <1>1, <1>4 DEF ShapingInv, ShapingTypeOK, Stages
<1>6. Kept'
  BY <1>1, <1>2, <1>3, <1>4 DEF ShapingInv, Kept
<1> QED
  BY <1>5, <1>6 DEF ShapingInv

\* A plan with the dependencies of a task replaced.
LEMMA EditedType ==
  ASSUME NEW p \in Plans, NEW i \in 1..Len(p.tasks), NEW ids \in SUBSET Ids
  PROVE  [p EXCEPT !.tasks[i].deps = ids] \in Plans
<1> DEFINE ts == [p.tasks EXCEPT ![i].deps = ids]
<1>1. p.tasks \in Seq(TaskRecords) /\ p.tasks[i] \in TaskRecords
  BY DEF Plans
<1>2. [p.tasks[i] EXCEPT !.deps = ids] \in TaskRecords
  BY <1>1 DEF TaskRecords
<1>3. ts = [p.tasks EXCEPT ![i] = [p.tasks[i] EXCEPT !.deps = ids]]
  OBVIOUS
<1>4. ts \in Seq(TaskRecords)
  BY <1>1, <1>2, <1>3
<1>5. [p EXCEPT !.tasks[i].deps = ids] = [p EXCEPT !.tasks = ts]
  OBVIOUS
<1> HIDE DEF ts
<1> QED
  BY <1>4, <1>5 DEF Plans

LEMMA EditPlanKeeps == ASSUME ShapingInv, EditPlan PROVE ShapingInv'
<1>1. parent' = parent /\ stage' = "edited"
  BY DEF EditPlan
<1>2. Shaped' = Shaped
  BY <1>1, ShapedStays
<1>3. plan \in Plans /\ digest \in Plans
  BY DEF ShapingInv, ShapingTypeOK
<1>4. plan' \in Plans /\ (digest' = digest \/ digest' = NoPlan)
  <2>1. CASE digest' = NoPlan /\ plan' = plan
    BY <2>1, <1>3
  <2>2. ASSUME NEW i \in 1..Len(plan.tasks), NEW ids \in SUBSET Ids,
               plan' = [plan EXCEPT !.tasks[i].deps = ids] /\ UNCHANGED digest
        PROVE  plan' \in Plans /\ digest' = digest
    BY <1>3, <2>2, EditedType
  <2> QED
    BY <2>1, <2>2 DEF EditPlan
<1>5. ShapingTypeOK'
  BY <1>1, <1>3, <1>4, NoPlanType DEF ShapingInv, ShapingTypeOK, Stages
<1>6. Kept'
  BY <1>1, <1>2, <1>4 DEF ShapingInv, Kept
<1> QED
  BY <1>5, <1>6 DEF ShapingInv

LEMMA LoadPlanKeeps == ASSUME ShapingInv, LoadPlan PROVE ShapingInv'
<1>1. parent' = parent /\ plan' = plan /\ digest' = digest
  BY DEF LoadPlan
<1>2. Shaped' = Shaped
  BY <1>1, ShapedStays
<1>3. \/ stage' = "loaded" /\ Valid(plan) /\ Intact
      \/ stage' = "refused"
  BY DEF LoadPlan
<1>4. Intact => plan = Shaped
  BY DEF Intact, ShapingInv, Kept
<1>5. ShapingTypeOK'
  BY <1>1, <1>3 DEF ShapingInv, ShapingTypeOK, Stages
<1>6. Kept'
  BY <1>1, <1>2, <1>3, <1>4 DEF ShapingInv, Kept
<1> QED
  BY <1>5, <1>6 DEF ShapingInv

LEMMA ShapingInvIsExact == ASSUME ShapingInv PROVE ShapingIsExact
<1>1. parent \in Parents
  BY DEF ShapingInv, ShapingTypeOK
<1>2. ASSUME stage \in {"frozen", "loaded"}
      PROVE  /\ Serializable(plan.tasks)
             /\ \A a \in 1..parent.asks : \E i \in 1..Len(plan.tasks) : a \in plan.tasks[i].covers
  <2>1. plan = Shaped /\ Valid(Shaped)
    BY <1>2 DEF ShapingInv, Kept
  <2> QED
    BY <1>1, <2>1, ValidShapedServes
<1>3. ASSUME stage = "rejected", plan # NoPlan, ~parent.alike, parent.asks <= Count,
             parent.commands, parent.owns # "none"
      PROVE  ~Serializable(plan.tasks)
  <2>1. plan = Shaped /\ ~Valid(Shaped)
    BY <1>3 DEF ShapingInv, Kept
  <2> QED
    BY <1>1, <1>3, <2>1, ServesIsValid
<1>4. LoadedIsFrozen
  BY DEF LoadedIsFrozen, ShapingInv, Kept
<1> QED
  BY <1>2, <1>3, <1>4 DEF ShapingIsExact, ValidationIsExact

LEMMA ShapingInvHolds == ShapingSpec => []ShapingInv
<1>1. ShapingInit => ShapingInv
  BY InitShapingInv
<1>2. ShapingInv /\ [ShapingNext]_shapingVars => ShapingInv'
  <2> SUFFICES ASSUME ShapingInv, [ShapingNext]_shapingVars PROVE ShapingInv'
    OBVIOUS
  <2>1. CASE Shape
    BY <2>1, ShapeKeeps
  <2>2. CASE Freeze
    BY <2>2, FreezeKeeps
  <2>3. CASE EditPlan
    BY <2>3, EditPlanKeeps
  <2>4. CASE LoadPlan
    BY <2>4, LoadPlanKeeps
  <2>5. CASE UNCHANGED shapingVars
    <3>1. parent' = parent /\ stage' = stage /\ plan' = plan /\ digest' = digest
      BY <2>5 DEF shapingVars
    <3> QED
      BY <3>1, ShapedStays DEF ShapingInv, ShapingTypeOK, Kept
  <2> QED
    BY <2>1, <2>2, <2>3, <2>4, <2>5 DEF ShapingNext
<1> QED
  BY <1>1, <1>2, PTL DEF ShapingSpec

\* The executor gets exactly the executable plans, as they were frozen, whatever
\* the objectives and their dependencies (validate_task_plan, TaskPlan.freeze and
\* _plan_from_dict).
THEOREM ExactlyExecutable == ShapingSpec => []ShapingIsExact
<1>1. ShapingInv => ShapingIsExact
  BY ShapingInvIsExact
<1> QED
  BY <1>1, ShapingInvHolds, PTL
=============================================================================
