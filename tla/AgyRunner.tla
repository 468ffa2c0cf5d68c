------------------------------ MODULE AgyRunner ------------------------------
(***************************************************************************)
(* agy_runner.py: one call of run_agy or run_agy_visible, the supervision   *)
(* of the worker processes it launches, and what worker_binding.py makes of *)
(* the answer.  A headless call watches a worker on pipes until it has      *)
(* ended and its output is closed, grants it a bounded number of extensions *)
(* past the deadline while the liveness probe says so, and, when the worker *)
(* ended well without a word, launches it a second time on a terminal.      *)
(* Of time one event matters to the code: the deadline of a launch passes.  *)
(***************************************************************************)
EXTENDS Naturals, Integers

CONSTANTS
  MaxExtensions,  \* max_liveness_extensions
  Budgets         \* wall-clock budgets, in tenths of a second

ASSUME RunnerAssumption == MaxExtensions \in Nat /\ Budgets \subseteq Nat \ {0}

VARIABLES
  host,     \* what the call finds, fixed when it begins
  pc,       \* where the call is
  attempt,  \* the launch it watches
  worker,   \* the worker process of that launch
  clock,    \* the deadline of that launch
  direct,   \* what the launch on pipes came to, once it has
  outcome   \* what the call returns or raises

runnerVars == <<host, pc, attempt, worker, clock, direct, outcome>>

\* Exit codes: success, a failure, killed by the hangup signal, killed by us.
Hangup == -1
Killed == -9
ExitCodes == {0, 1, Hangup}

Hosts == [windows : BOOLEAN, visible : BOOLEAN, binary : BOOLEAN, probe : BOOLEAN,
          winpty : BOOLEAN, children : BOOLEAN, budget : Budgets]
Places == {"start", "watch", "judge", "drain", "wait", "done"}
Attempts == {"none", "pipes", "terminal", "visible"}

\* tty: somebody still holds the output of the worker open.
Workers == [alive : BOOLEAN, tty : BOOLEAN, printed : BOOLEAN, code : ExitCodes \cup {Killed}]
NoWorker == [alive |-> FALSE, tty |-> FALSE, printed |-> FALSE, code |-> 0]
FreshWorker == [alive |-> TRUE, tty |-> TRUE, printed |-> FALSE, code |-> 0]
Clocks == [expired : BOOLEAN, extensions : 0..MaxExtensions]
Outcomes == [kind : {"none", "result", "timeout", "error"},
             exit : ExitCodes \cup {Killed}, printed : BOOLEAN]
NoOutcome == [kind |-> "none", exit |-> 0, printed |-> FALSE]

-----------------------------------------------------------------------------
(* The print timeout handed to agy, in seconds.                              *)

Least(a, b) == IF a < b THEN a ELSE b
Greatest(a, b) == IF a < b THEN b ELSE a

\* The outer budget less its margin, in hundredths of a second.
PrintCeiling(budget) ==
  IF budget <= 600 THEN Greatest(100, 10 * budget - Greatest(10, budget))
  ELSE 10 * budget - 6000

\* Mutant: without the margin.
UnboundedPrintTimeout(budget) == Greatest(1, Least(900, budget \div 10))

\* derive_agy_print_timeout of a finite positive budget.
PrintTimeout(budget) ==
  LET val == Least(90000, PrintCeiling(budget)) \div 100
  IN Greatest(1, IF 10 * val >= budget /\ budget > 10 THEN (budget - 10) \div 10 ELSE val)

-----------------------------------------------------------------------------
RunnerInit ==
  /\ host \in {h \in Hosts : h.winpty => h.windows}
  /\ pc = "start" /\ attempt = "none" /\ worker = NoWorker
  /\ clock = [expired |-> FALSE, extensions |-> 0]
  /\ direct = NoWorker
  /\ outcome = NoOutcome

\* The call comes to its end.
Ends(kind, exit, printed) ==
  /\ pc' = "done"
  /\ outcome' = [kind |-> kind, exit |-> exit, printed |-> printed]

\* A worker process is launched with a deadline of its own.
Launches(how) ==
  /\ attempt' = how
  /\ worker' = FreshWorker
  /\ clock' = [expired |-> FALSE, extensions |-> 0]
  /\ pc' = "watch"

\* The kill reaches the worker, not its descendants, and finds it ended or not.
Kills ==
  \E held \in IF host.children THEN {FALSE, worker.tty} ELSE {FALSE} :
    worker' = [worker EXCEPT !.alive = FALSE, !.tty = held,
                             !.code = IF worker.alive THEN Killed ELSE @]

\* No binary, or a visible terminal anywhere but on Windows.
RefuseCall ==
  /\ pc = "start"
  /\ ~host.binary \/ (host.visible /\ ~host.windows)
  /\ Ends("error", 0, FALSE)
  /\ UNCHANGED <<host, attempt, worker, clock, direct>>

LaunchFirst ==
  /\ pc = "start"
  /\ host.binary /\ (host.visible => host.windows)
  /\ Launches(IF host.visible THEN "visible" ELSE "pipes")
  /\ UNCHANGED <<host, direct, outcome>>

-----------------------------------------------------------------------------
(* The worker, and time.                                                     *)

WorkerPrints ==
  /\ worker.alive /\ worker.tty
  /\ worker' = [worker EXCEPT !.printed = TRUE]
  /\ UNCHANGED <<host, pc, attempt, clock, direct, outcome>>

\* It closes its output and goes on.
WorkerDetaches ==
  /\ worker.alive /\ worker.tty
  /\ worker' = [worker EXCEPT !.tty = FALSE]
  /\ UNCHANGED <<host, pc, attempt, clock, direct, outcome>>

\* It ends; a descendant may keep its output open.
WorkerExits ==
  /\ worker.alive
  /\ \E code \in ExitCodes, held \in IF host.children THEN {FALSE, worker.tty} ELSE {FALSE} :
       worker' = [worker EXCEPT !.alive = FALSE, !.tty = held, !.code = code]
  /\ UNCHANGED <<host, pc, attempt, clock, direct, outcome>>

DescendantsEnd ==
  /\ ~worker.alive /\ worker.tty
  /\ worker' = [worker EXCEPT !.tty = FALSE]
  /\ UNCHANGED <<host, pc, attempt, clock, direct, outcome>>

\* The deadline passes wherever the call is in a launch, also where nobody looks at
\* the clock any more.
DeadlinePasses ==
  /\ pc \in {"watch", "wait", "judge"} /\ ~clock.expired
  /\ clock' = [clock EXCEPT !.expired = TRUE]
  /\ UNCHANGED <<host, pc, attempt, worker, direct, outcome>>

-----------------------------------------------------------------------------
(* The watch.                                                                *)

\* Mutant: an extension is not counted.
ExtendedFreely == [clock EXCEPT !.expired = FALSE]

Extended == [expired |-> FALSE, extensions |-> clock.extensions + 1]

\* The probe says that the worker lives: the deadline moves by the grace.
Extend ==
  /\ pc = "watch" /\ attempt # "visible" /\ clock.expired
  /\ host.probe /\ clock.extensions < MaxExtensions
  /\ clock' = Extended
  /\ UNCHANGED <<host, pc, attempt, worker, direct, outcome>>

\* Mutant: run_agy takes a timeout on the terminal for a broken terminal.
CaughtOnTerminal == Ends("result", -1, FALSE)

\* run_agy re-raises a timeout of the launch on a terminal.
RaisedOnTerminal == Ends("timeout", 0, FALSE)

\* Past the deadline and the extensions, or a probe that says no, or none: the
\* worker is killed, also when it has just ended and nobody has looked.  On
\* pipes communicate() still waits for the end of the output.
TimeOut ==
  /\ pc = "watch" /\ clock.expired
  /\ Kills
  /\ CASE attempt = "pipes" -> pc' = "drain" /\ UNCHANGED outcome
       [] attempt = "terminal" -> RaisedOnTerminal
       [] attempt = "visible" -> Ends("timeout", 0, FALSE)
  /\ UNCHANGED <<host, attempt, clock, direct>>

Drain ==
  /\ pc = "drain" /\ ~worker.tty
  /\ Ends("timeout", 0, FALSE)
  /\ UNCHANGED <<host, attempt, worker, clock, direct>>

\* process.wait returns in time or just after it.
VisibleEnds ==
  /\ pc = "watch" /\ attempt = "visible" /\ ~worker.alive
  /\ Ends("result", worker.code, TRUE)
  /\ UNCHANGED <<host, attempt, worker, clock, direct>>

\* Ended, and both readers have met the end of its output (the clock is looked at
\* once a pass, so that this may be seen when the deadline is over).
PipesEnd ==
  /\ pc = "watch" /\ attempt = "pipes"
  /\ ~worker.alive /\ ~worker.tty
  /\ pc' = "judge" /\ direct' = worker
  /\ UNCHANGED <<host, attempt, worker, clock, outcome>>

\* Mutant: any silence is worth a second launch.
AnsweredAloud == direct.printed

\* It said something, or it failed.
Answered == direct.printed \/ direct.code # 0

JudgePipes ==
  /\ pc = "judge"
  /\ \/ /\ Answered
        /\ Ends("result", direct.code, TRUE)
        /\ UNCHANGED <<attempt, worker, clock>>
     \/ ~Answered /\ (host.windows => host.winpty) /\ Launches("terminal") /\ UNCHANGED outcome
     \/ /\ ~Answered /\ host.windows /\ ~host.winpty
        /\ Ends("result", -1, FALSE)
        /\ UNCHANGED <<attempt, worker, clock>>
  /\ UNCHANGED <<host, direct>>

\* Mutant: the exit code of a silent launch is passed on.
SilentExitAsIs(code) == code

\* A silent launch is never a success.
SilentExit(code) == IF code = 0 THEN -1 ELSE code

\* What run_agy answers once the launch on a terminal has ended; an unknown
\* exit code counts for the one of the launch on pipes.
TerminalAnswers ==
  IF worker.printed
  THEN Ends("result", IF worker.code = Hangup THEN direct.code ELSE worker.code, TRUE)
  ELSE Ends("result", SilentExit(worker.code), FALSE)

\* POSIX: the end of the output or of the worker ends the loop; the terminal is
\* closed and the worker waited for, without a deadline.
PosixLeaves ==
  /\ pc = "watch" /\ attempt = "terminal" /\ ~host.windows
  /\ ~worker.tty \/ ~worker.alive
  /\ pc' = "wait"
  /\ UNCHANGED <<host, attempt, worker, clock, direct, outcome>>

PosixReaps ==
  /\ pc = "wait" /\ ~worker.alive
  /\ TerminalAnswers
  /\ UNCHANGED <<host, attempt, worker, clock, direct>>

\* Mutant: the finally clause only closes the terminal.
TerminatesNothing == UNCHANGED worker

Terminates == Kills

\* Windows: the end of the worker, or the end of its output.
ConptyEnds ==
  /\ pc = "watch" /\ attempt = "terminal" /\ host.windows
  /\ \/ ~worker.alive /\ TerminalAnswers /\ UNCHANGED worker
     \/ worker.alive /\ ~worker.tty /\ Terminates /\ Ends("result", -1, FALSE)
  /\ UNCHANGED <<host, attempt, clock, direct>>

Watch == \/ Extend \/ TimeOut \/ Drain \/ VisibleEnds \/ PipesEnd \/ JudgePipes
         \/ PosixLeaves \/ PosixReaps \/ ConptyEnds

WorkerSteps == WorkerPrints \/ WorkerDetaches \/ WorkerExits \/ DescendantsEnd

RunnerNext == RefuseCall \/ LaunchFirst \/ Watch \/ DeadlinePasses \/ WorkerSteps

\* The supervisor runs and time passes; nothing is asked of the worker.
RunnerFairness == WF_runnerVars(RefuseCall \/ LaunchFirst \/ Watch) /\ WF_runnerVars(DeadlinePasses)

RunnerSpec == RunnerInit /\ [][RunnerNext]_runnerVars /\ RunnerFairness

-----------------------------------------------------------------------------
(* worker_binding.py: the WorkerResult the durable manager gets, a candidate *)
(* to verify, a switch of accounts, or a failure.                            *)

Bound(quotaText) ==
  CASE outcome.kind # "result" -> "FAILED"
    [] outcome.kind = "result" /\ outcome.exit = 0 -> "candidate"
    [] outcome.kind = "result" /\ outcome.exit # 0 /\ quotaText -> "ACCOUNT_SWITCH_REQUIRED"
    [] OTHER -> "FAILED"

-----------------------------------------------------------------------------
(* Every variable has its type. *)
RunnerTypeOK ==
  /\ host \in Hosts
  /\ pc \in Places
  /\ attempt \in Attempts
  /\ worker \in Workers
  /\ clock \in Clocks
  /\ direct \in Workers
  /\ outcome \in Outcomes

\* The durable manager is handed a candidate only if the launch that answered ended
\* well, and aloud when it was not the caller's own terminal: silence, a broken
\* terminal, a timeout and a kill by the supervisor never pass for success, in none
\* of the exit codes run_agy puts together from two launches.  A launch that spoke
\* and was then hung up does pass: its -1 is taken for an unknown exit code, and the
\* one of the silent launch on pipes stands in for it.
SuccessIsWitnessed ==
  \A quotaText \in BOOLEAN : Bound(quotaText) = "candidate" =>
    \/ attempt = "visible" /\ worker.code = 0
    \/ worker.printed /\ worker.code = 0
    \/ worker.printed /\ attempt = "terminal" /\ worker.code = Hangup

\* A timeout is said of a deadline that has passed; and a worker that the deadline
\* killed is reported as a timeout, not as a silent or broken launch, which callers
\* retry (run_agy's handlers around the second launch).  The one launch that is
\* killed and yet answered is on a Windows terminal that broke, and the answer is a
\* failure.  An answer may come when the deadline is over: nobody looks at the clock
\* while the worker of a closed terminal is waited for, or at the end of a pass.
TimeoutIsRaised ==
  /\ outcome.kind = "timeout" => clock.expired
  /\ outcome.kind = "result" /\ worker.code = Killed =>
       host.windows /\ attempt = "terminal" /\ ~outcome.printed /\ outcome.exit # 0

\* Once the call has returned or timed out no worker of it runs on in the
\* worktree (the kills and finally clauses of the four runners).
NothingLeftRunning == pc = "done" => ~worker.alive

\* The prompt runs a second time only after a first run that ended well and
\* silently, never after one that failed or spoke (the isatty fallback).
SecondRunAfterSilence ==
  attempt = "terminal" => ~direct.alive /\ ~direct.printed /\ direct.code = 0

\* What the call answers is what happened to the workers it launched.
AnswerIsTrue == SuccessIsWitnessed /\ TimeoutIsRaised

\* No two workers of one call work in its worktree at once, and none is left when
\* the call is over; the prompt is repeated only if the first run cannot have failed.
OneWorkerAtATime == NothingLeftRunning /\ SecondRunAfterSilence

\* agy's own timeout fires before the supervisor's for every budget above one
\* second (derive_agy_print_timeout).
InnerTimeoutFiresFirst == host.budget > 10 => 10 * PrintTimeout(host.budget) < host.budget

\* The call ends whatever the worker does, except where the code waits without a
\* deadline: for descendants that keep the pipes of a killed worker open, and
\* for a worker that has closed its terminal and lives on.
RunnerEnds ==
  <>(\/ pc = "done"
     \/ pc = "drain" /\ worker.tty
     \/ pc = "wait" /\ worker.alive)
=============================================================================
