----------------------------- MODULE RepairLoop -----------------------------
(***************************************************************************)
(* verification.py: execute_repair_loop, with the verification, the scope   *)
(* gate and the auto-commit gate it asks, on a run that others may cancel   *)
(* or declare interrupted in the meantime.  The loop reads the row and      *)
(* writes it in transactions of their own; some of its writes swallow their *)
(* failure and some raise it.  The worktree is the set of what is wrong     *)
(* with it, and it may change between the commands, the scope gate inside   *)
(* the verification and the one of the commit gate.                         *)
(***************************************************************************)
EXTENDS RunContracts, Naturals

CONSTANTS
  Faults,         \* what may be wrong with the worktree, of AllFaults
  Calls,          \* the arguments of the call: max_repair_rounds, the contract's
                  \* policy and risk class, whether there is a repair callback
  MaxLimit,       \* bound: max_repair_rounds
  MaxDrift,       \* bound: changes of the worktree by others
  MaxDisturbances \* bound: transitions of the run by others

\* What run_verification asks of the child processes, and of the scope gate.
CommandFaults == {"provenance", "tests"}
ScopeFaults == {"outside", "forbidden", "head", "markers", "size", "secret"}
AllFaults == CommandFaults \cup ScopeFaults \cup {"migration"}

RiskClasses ==
  {"LOW", "MEDIUM", "HIGH", "READ_ONLY", "CODE_CHANGES", "DESTRUCTIVE", "PRODUCTION"}
\* Without these an automated commit is out of the question.
CommitRisks == RiskClasses \ {"HIGH", "PRODUCTION", "MEDIUM", "DESTRUCTIVE"}
Policies == {"NEVER", "VERIFIED_ONLY", "ALWAYS"}

ASSUME LoopAssumption ==
  /\ Faults \subseteq AllFaults
  /\ Calls \subseteq [limit : 0..MaxLimit, policy : Policies, risk : RiskClasses, callback : BOOLEAN]
  /\ MaxLimit \in Nat /\ MaxDrift \in Nat /\ MaxDisturbances \in Nat

VARIABLES
  setup,        \* the arguments of the call
  row,          \* the runs row
  loop,         \* the program counter and locals of the loop
  tree,         \* what is wrong with the worktree
  cancelled,    \* the cooperative cancel event is set
  drift,        \* bound: how often others changed the worktree
  disturbances  \* bound: how often others moved the run

loopVars == <<setup, row, loop, tree, cancelled, drift, disturbances>>

Rows == [state : RunStates, version : Nat, verification : Verifications,
         round : 0..MaxLimit, commit : BOOLEAN]
Evidences == [commands : BOOLEAN, scope : BOOLEAN, migration : BOOLEAN, after : 0..(MaxLimit + 1)]
NoEvidence == [commands |-> FALSE, scope |-> FALSE, migration |-> FALSE, after |-> 0]
Reads == {"cancelling", "marking", "completing", "repairing", "failing"}
Steps == {"check", "cancel", "mark", "commands", "scope", "gate", "commit", "complete",
          "repair_mark", "repair", "fail", "returned", "raised"} \cup Reads

LoopInit ==
  /\ setup \in Calls
  /\ row \in [state : {"RUNNING", "QUEUED"}, version : {0}, verification : {"none"},
              round : {0}, commit : {FALSE}]
  /\ loop = [pc |-> "check", round |-> 0, read |-> row, evidence |-> NoEvidence,
             allowed |-> FALSE, gate |-> {}, calls |-> 0, result |-> "none"]
  /\ tree \in SUBSET Faults
  /\ cancelled = FALSE /\ drift = 0 /\ disturbances = 0

At(step) == loop.pc = step

Passed(evidence) == evidence.commands /\ evidence.scope

\* run_verification keeps its evidence in "passed" or "failed".
Payload == IF Passed(loop.evidence) THEN "passed" ELSE "failed"

-----------------------------------------------------------------------------
(* transition_run with the version that was read.                            *)

Accepted(target, given) ==
  /\ row.version = loop.read.version
  /\ CanTransition(row.state, target, Effective(given, row.verification))

Moved(target, given, round, commit) ==
  row' = [state |-> target, version |-> row.version + 1,
          verification |-> Effective(given, row.verification),
          round |-> round, commit |-> row.commit \/ commit]

\* Any failure of the transition is swallowed.
TryMove(target, given, round) ==
  IF Accepted(target, given) THEN Moved(target, given, round, FALSE) ELSE UNCHANGED row

Goes(step) == loop' = [loop EXCEPT !.pc = step]
Returns(result) == loop' = [loop EXCEPT !.pc = "returned", !.result = result]

Quiet == UNCHANGED <<setup, tree, cancelled, drift, disturbances>>

\* get_run, before each write.
WriteOf(step) ==
  CASE step = "cancelling" -> "cancel"
    [] step = "marking" -> "mark"
    [] step = "completing" -> "commit"
    [] step = "repairing" -> "repair_mark"
    [] step = "failing" -> "fail"

ReadRow ==
  /\ loop.pc \in Reads
  /\ loop' = [loop EXCEPT !.pc = WriteOf(loop.pc), !.read = row]
  /\ UNCHANGED row /\ Quiet

-----------------------------------------------------------------------------
\* The head of the while loop.
Check ==
  /\ At("check") /\ loop.round <= setup.limit
  /\ Goes(IF cancelled THEN "cancelling" ELSE "marking")
  /\ UNCHANGED row /\ Quiet

\* The cancellation was seen here: the row follows unless it is over, and a
\* failed transition is raised.
Cancel ==
  /\ At("cancel")
  /\ IF loop.read.state \in TerminalStates
     THEN Returns("CANCELLED") /\ UNCHANGED row
     ELSE IF Accepted("CANCELLED", "none")
     THEN Returns("CANCELLED") /\ Moved("CANCELLED", "none", row.round, FALSE)
     ELSE Goes("raised") /\ UNCHANGED row
  /\ Quiet

Mark ==
  /\ At("mark")
  /\ IF loop.read.state \in {"RUNNING", "REPAIRING", "QUEUED"}
     THEN TryMove("VERIFYING", "none", loop.round)
     ELSE UNCHANGED row
  /\ Goes("commands")
  /\ Quiet

\* The attestation and the verification commands.
RunCommands ==
  /\ At("commands")
  /\ loop' = [loop EXCEPT !.pc = "scope",
                !.evidence = [commands |-> tree \cap CommandFaults = {}, scope |-> FALSE,
                              migration |-> FALSE, after |-> loop.calls]]
  /\ UNCHANGED row /\ Quiet

\* Mutant: one round too many.
MayRepairAgain == loop.round <= setup.limit /\ setup.callback

MayRepair == loop.round < setup.limit /\ setup.callback

\* evaluate_scope_gate.
ScopePassed == tree \cap ScopeFaults = {}

\* The scope gate that ends run_verification, and what its verdict leads to, unless
\* the heartbeat in between raises.
Verify ==
  /\ At("scope")
  /\ \/ LET evidence == [loop.evidence EXCEPT !.scope = ScopePassed,
                                              !.migration = "migration" \in tree]
        IN loop' = [loop EXCEPT !.evidence = evidence,
                      !.pc = IF Passed(evidence) THEN "gate"
                             ELSE IF MayRepair THEN "repairing" ELSE "failing"]
     \/ Goes("raised")
  /\ UNCHANGED row /\ Quiet

\* Mutant: the commit gate trusts the evidence.
AllowedByEvidence ==
  /\ setup.policy # "NEVER" /\ setup.risk \in CommitRisks
  /\ Passed(loop.evidence) /\ ~loop.evidence.migration

\* evaluate_auto_commit_policy, with a scope gate of its own.
Allowed ==
  /\ setup.policy # "NEVER" /\ setup.risk \in CommitRisks
  /\ Passed(loop.evidence) /\ ScopePassed
  /\ ~loop.evidence.migration /\ "migration" \notin tree

CommitGate ==
  /\ At("gate")
  /\ loop' = [loop EXCEPT !.pc = "completing", !.allowed = Allowed, !.gate = tree]
  /\ UNCHANGED row /\ Quiet

\* COMMITTING, when the gate allows it; a failed transition is raised.
Commit ==
  /\ At("commit")
  /\ IF loop.read.state \in TerminalStates
     THEN Returns("COMPLETE") /\ UNCHANGED row
     ELSE IF ~loop.allowed THEN Goes("complete") /\ UNCHANGED row
     ELSE IF Accepted("COMMITTING", "passed")
     THEN /\ Moved("COMMITTING", "passed", row.round, TRUE)
          /\ loop' = [loop EXCEPT !.pc = "complete", !.read = row']
     ELSE Goes("raised") /\ UNCHANGED row
  /\ Quiet

Complete ==
  /\ At("complete")
  /\ IF Accepted("COMPLETE", "passed")
     THEN Moved("COMPLETE", "passed", loop.round, FALSE) /\ Returns("COMPLETE")
     ELSE Goes("raised") /\ UNCHANGED row
  /\ Quiet

RepairMark ==
  /\ At("repair_mark")
  /\ IF loop.read.state = "VERIFYING" THEN TryMove("REPAIRING", Payload, loop.round + 1)
     ELSE UNCHANGED row
  /\ Goes("repair")
  /\ Quiet

\* Mutant: what the repair callback returns is taken for verified.
AfterRepairGate == "gate"

AfterRepair == "check"

\* Mutant: the round is not counted.
NextRoundSame == loop.round

NextRound == loop.round + 1

\* The injected callback changes the worktree and says that it did its job, or
\* it does not or raises.
Repair ==
  /\ At("repair")
  /\ \/ \E after \in SUBSET Faults :
          /\ tree' = after
          /\ loop' = [loop EXCEPT !.pc = AfterRepair, !.round = NextRound,
                        !.calls = IF @ <= setup.limit THEN @ + 1 ELSE @]
     \/ loop' = [loop EXCEPT !.pc = "failing",
                   !.calls = IF @ <= setup.limit THEN @ + 1 ELSE @] /\ UNCHANGED tree
  /\ UNCHANGED <<setup, row, cancelled, drift, disturbances>>

\* Mutant: only a run still under verification is failed.
FailableVerifying == loop.read.state = "VERIFYING"

Failable == loop.read.state \notin TerminalStates

\* Only running out of rounds is recorded with the round.
FailedRound == IF MayRepair THEN row.round ELSE loop.round

\* Out of rounds, no callback, or a failed repair.
Fail ==
  /\ At("fail")
  /\ IF Failable THEN TryMove("FAILED", Payload, FailedRound) ELSE UNCHANGED row
  /\ Returns("FAILED")
  /\ Quiet

LoopStep == \/ ReadRow \/ Check \/ Cancel \/ Mark \/ RunCommands \/ Verify \/ CommitGate
            \/ Commit \/ Complete \/ RepairMark \/ Repair \/ Fail

-----------------------------------------------------------------------------
(* The others.                                                               *)

Running == loop.pc \notin {"returned", "raised"}

\* The cooperative event of a cancel that has not reached the row yet.
AskCancel ==
  /\ Running /\ ~cancelled
  /\ cancelled' = TRUE
  /\ UNCHANGED <<setup, row, loop, tree, drift, disturbances>>

\* A cancel, or an observer that takes the run for dead, through the same store.
Disturb ==
  /\ Running /\ disturbances < MaxDisturbances
  /\ \E target \in {"CANCELLED", "INTERRUPTED"} :
       /\ CanTransition(row.state, target, row.verification)
       /\ Moved(target, "none", row.round, FALSE)
  /\ disturbances' = disturbances + 1
  /\ UNCHANGED <<setup, loop, tree, cancelled, drift>>

\* The worktree changes: a test writes files, an earlier worker lives on.
Drift ==
  /\ Running /\ drift < MaxDrift
  /\ tree' \in SUBSET Faults /\ tree' # tree
  /\ drift' = drift + 1
  /\ UNCHANGED <<setup, row, loop, cancelled, disturbances>>

LoopNext == LoopStep \/ AskCancel \/ Disturb \/ Drift

\* The thread that runs the loop runs on.
LoopFairness == WF_loopVars(LoopStep)

LoopSpec == LoopInit /\ [][LoopNext]_loopVars /\ LoopFairness

-----------------------------------------------------------------------------
\* Every variable has its type.
LoopTypeOK ==
  /\ setup \in Calls
  /\ row \in Rows
  /\ loop \in [pc : Steps, round : 0..MaxLimit, read : Rows, evidence : Evidences,
               allowed : BOOLEAN, gate : SUBSET Faults, calls : 0..(MaxLimit + 1),
               result : {"none", "COMPLETE", "FAILED", "CANCELLED"}]
  /\ tree \in SUBSET Faults
  /\ cancelled \in BOOLEAN
  /\ drift \in 0..MaxDrift /\ disturbances \in 0..MaxDisturbances

\* A run carries the auto-commit mark only if the worktree passed the scope rules
\* and held no migration when the commit gate looked, whatever it looked like when
\* the evidence was taken, on passed evidence and a contract whose policy and risk allow
\* commits (evaluate_auto_commit_policy's "fresh" scope gate).
CommitIsEarned ==
  row.commit =>
    /\ setup.policy # "NEVER" /\ setup.risk \in CommitRisks
    /\ Passed(loop.evidence)
    /\ loop.gate \cap (ScopeFaults \cup {"migration"}) = {}

\* Success, returned or recorded, rests on a verification that passed and began
\* after the last repair had ended.
SuccessFollowsLastRepair ==
  loop.result = "COMPLETE" \/ row.state = "COMPLETE" =>
    Passed(loop.evidence) /\ loop.evidence.after = loop.calls

\* The repair callback runs at most max_repair_rounds times.
RepairsAreBounded == loop.calls <= setup.limit

\* When nobody else moved the run, the row ends in the state the loop returns,
\* although most of its writes swallow their failures.
ReturnedIsRecorded ==
  loop.pc = "returned" /\ disturbances = 0 => row.state = loop.result

\* The loop comes to an end, by an answer or by an exception.
LoopEnds == <>~Running
=============================================================================
