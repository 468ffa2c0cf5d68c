---------------------------- MODULE MCSupervision ----------------------------
(* Five machines that do not share state, one at a time: the call of a worker *)
(* process, the repair loop, the admission of runs, the shaping of plans and  *)
(* the advice to the caller.  focus says which one a behaviour is about; the  *)
(* others rest in a state without steps.                                      *)
EXTENDS AgyRunner, RepairLoop, RunAdmission, TaskShaping, Advice

VARIABLE focus

supervisionVars == <<focus, runnerVars, loopVars, admissionVars, shapingVars, adviceVars>>

Machines == {"runner", "loop", "admission", "shaping", "advice"}

ThreeTasks == <<"t1", "t2", "t3">>

Call(limit, policy, risk, callback) ==
  [limit |-> limit, policy |-> policy, risk |-> risk, callback |-> callback]

\* A contract that may commit, one that may not for its policy, one for its risk,
\* one without a repair callback.
SomeCalls ==
  {Call(2, "VERIFIED_ONLY", "LOW", TRUE), Call(0, "NEVER", "LOW", TRUE),
   Call(1, "ALWAYS", "PRODUCTION", TRUE), Call(1, "VERIFIED_ONLY", "CODE_CHANGES", FALSE)}

RunnerRests ==
  /\ host = [windows |-> FALSE, visible |-> FALSE, binary |-> FALSE, probe |-> FALSE,
             winpty |-> FALSE, children |-> FALSE, budget |-> 600]
  /\ pc = "done" /\ attempt = "none" /\ worker = NoWorker /\ direct = NoWorker
  /\ clock = [expired |-> FALSE, extensions |-> 0] /\ outcome = NoOutcome

LoopRests ==
  /\ setup = Call(0, "NEVER", "LOW", TRUE)
  /\ row = [state |-> "QUEUED", version |-> 0, verification |-> "none", round |-> 0,
            commit |-> FALSE]
  /\ loop = [pc |-> "raised", round |-> 0, read |-> row, evidence |-> NoEvidence,
             allowed |-> FALSE, gate |-> {}, calls |-> 0, result |-> "none"]
  /\ tree = {} /\ cancelled = FALSE /\ drift = 0 /\ disturbances = 0

ShapingRests ==
  /\ parent = [deps |-> <<{}>>, alike |-> FALSE, owns |-> "none", bare |-> FALSE,
               commands |-> FALSE, asks |-> 1]
  /\ stage = "given" /\ plan = NoPlan /\ digest = NoPlan

AdviceRests ==
  /\ question = [explicit |-> "unsaid", marks |-> {}]
  /\ advice = NoAdvice

SupervisionInit ==
  /\ focus \in Machines
  /\ IF focus = "runner" THEN RunnerInit ELSE RunnerRests
  /\ IF focus = "loop" THEN LoopInit ELSE LoopRests
  /\ AdmissionInit
  /\ IF focus = "shaping" THEN ShapingInit ELSE ShapingRests
  /\ IF focus = "advice" THEN AdviceInit ELSE AdviceRests

SupervisionNext ==
  /\ UNCHANGED focus
  /\ \/ /\ focus = "runner" /\ RunnerNext
        /\ UNCHANGED <<loopVars, admissionVars, shapingVars, adviceVars>>
     \/ /\ focus = "loop" /\ LoopNext
        /\ UNCHANGED <<runnerVars, admissionVars, shapingVars, adviceVars>>
     \/ /\ focus = "admission" /\ AdmissionNext
        /\ UNCHANGED <<runnerVars, loopVars, shapingVars, adviceVars>>
     \/ /\ focus = "shaping" /\ ShapingNext
        /\ UNCHANGED <<runnerVars, loopVars, admissionVars, adviceVars>>
     \/ /\ focus = "advice" /\ AdviceNext
        /\ UNCHANGED <<runnerVars, loopVars, admissionVars, shapingVars>>

\* The fairness of the modules, for the machine in focus.
SupervisionFairness ==
  /\ WF_supervisionVars(focus = "runner" /\ (RefuseCall \/ LaunchFirst \/ Watch)
                        /\ UNCHANGED <<focus, loopVars, admissionVars, shapingVars, adviceVars>>)
  /\ WF_supervisionVars(focus = "runner" /\ DeadlinePasses
                        /\ UNCHANGED <<focus, loopVars, admissionVars, shapingVars, adviceVars>>)
  /\ WF_supervisionVars(focus = "loop" /\ LoopStep
                        /\ UNCHANGED <<focus, runnerVars, admissionVars, shapingVars, adviceVars>>)

SupervisionSpec ==
  SupervisionInit /\ [][SupervisionNext]_supervisionVars /\ SupervisionFairness

\* The call of a worker and the repair loop come to an end (the deadline of every
\* launch, the limit on the extensions and the one on the repair rounds).
SupervisionEnds == RunnerEnds /\ LoopEnds
=============================================================================
