---------------------------- MODULE RunContracts ----------------------------
(***************************************************************************)
(* The durable run contract of contracts.py: the lifecycle states of a run, *)
(* the graph of allowed transitions, the guard on COMPLETE, and the         *)
(* acceptance decision of acceptance.py.  Everything here is constant-level *)
(* so that the state machines share one definition of a legal step.         *)
(***************************************************************************)

RunStates ==
  {"CREATED", "QUEUED", "RUNNING", "VERIFYING", "REPAIRING", "COMMITTING",
   "COMPLETE", "FAILED", "BLOCKED", "DECISION_REQUIRED",
   "ACCOUNT_SWITCH_REQUIRED", "INTERRUPTED", "RECOVERY_READY", "CANCELLED"}

TerminalStates == {"COMPLETE", "FAILED", "CANCELLED"}

\* States a supervisor may wait in: a human or an operator has to act.
SuspendedStates == {"DECISION_REQUIRED", "BLOCKED", "ACCOUNT_SWITCH_REQUIRED"}

\* States in which a late worker result or observation is dropped.
OrphanStates == {"INTERRUPTED", "RECOVERY_READY"}

\* The states allowed to follow s.
AllowedTransitions(s) ==
  CASE s = "CREATED" -> {"QUEUED", "CANCELLED", "FAILED", "BLOCKED"}
    [] s = "QUEUED" -> {"RUNNING", "CANCELLED", "BLOCKED", "FAILED", "INTERRUPTED"}
    [] s = "RUNNING" -> {"VERIFYING", "INTERRUPTED", "BLOCKED", "DECISION_REQUIRED",
                         "ACCOUNT_SWITCH_REQUIRED", "FAILED", "CANCELLED"}
    [] s = "VERIFYING" -> {"COMMITTING", "REPAIRING", "COMPLETE", "FAILED", "BLOCKED",
                           "DECISION_REQUIRED", "INTERRUPTED", "CANCELLED"}
    [] s = "REPAIRING" -> {"RUNNING", "VERIFYING", "FAILED", "BLOCKED", "INTERRUPTED",
                           "CANCELLED"}
    [] s = "COMMITTING" -> {"COMPLETE", "FAILED", "BLOCKED", "INTERRUPTED"}
    [] s = "DECISION_REQUIRED" -> {"RUNNING", "QUEUED", "REPAIRING", "CANCELLED",
                                   "FAILED", "BLOCKED"}
    [] s = "ACCOUNT_SWITCH_REQUIRED" -> {"RUNNING", "QUEUED", "CANCELLED", "FAILED",
                                         "BLOCKED"}
    [] s = "INTERRUPTED" -> {"RECOVERY_READY", "CANCELLED", "FAILED"}
    [] s = "RECOVERY_READY" -> {"QUEUED", "RUNNING", "CANCELLED", "FAILED"}
    [] s = "BLOCKED" -> {"QUEUED", "RUNNING", "CANCELLED", "FAILED"}
    [] OTHER -> {}

-----------------------------------------------------------------------------
(* Verification payloads, by what the guard on COMPLETE and a reader tell    *)
(* apart.  "passed" and "failed" carry passed/status/returncode keys;        *)
(* "accepted" and "rejected" are CandidateAcceptance payloads, which carry   *)
(* none of the keys the guard looks at; "none" is None.                      *)

Verifications == {"none", "passed", "failed", "accepted", "rejected"}

GoodVerifications == {"passed", "accepted"}

\* An omitted verification_result leaves the stored one in place.
Effective(given, stored) == IF given = "none" THEN stored ELSE given

\* RunRecord.transition_to: the graph, and the guard on COMPLETE.
CanTransition(from, to, effective) ==
  /\ to \in AllowedTransitions(from)
  /\ to = "COMPLETE" =>
       /\ from \notin {"CREATED", "QUEUED", "RUNNING"}
       /\ effective \notin {"none", "failed"}

-----------------------------------------------------------------------------
(* acceptance.evaluate_candidate, as called by the manager: worker_alive and *)
(* allow_failed_candidate_acceptance keep their False defaults.              *)

TerminalReasons == {"COMPLETED", "HARD_TIMEOUT", "INTERRUPTED", "FAILED"}

EvaluateCandidate(reason, lowRisk, scopePassed, verified) ==
  /\ scopePassed
  /\ reason # "FAILED"
  /\ reason \in {"HARD_TIMEOUT", "INTERRUPTED"} => lowRisk
  /\ verified
=============================================================================
