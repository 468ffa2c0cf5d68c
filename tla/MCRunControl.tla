---------------------------- MODULE MCRunControl ----------------------------
(* Instances of RunControl for TLC: the worker results and call kinds of the *)
(* runs.                                                                     *)
EXTENDS RunControl

Done(ok, candidate, reason, verification, target) ==
  [success |-> ok, candidate |-> candidate, reason |-> reason,
   verification |-> verification, target |-> target]

\* What worker_binding.build_worker_callback returns: a candidate, a quota
\* exhaustion and a failure.
Candidate == Done(TRUE, TRUE, "COMPLETED", "passed", "FAILED")
Quota     == Done(FALSE, FALSE, "FAILED", "failed", "ACCOUNT_SWITCH_REQUIRED")
Failure   == Done(FALSE, FALSE, "FAILED", "failed", "FAILED")
AgyResults == {Candidate, Quota, Failure}

\* What an injected callback may return as well.
Plain    == Done(TRUE, FALSE, "COMPLETED", "none", "FAILED")
Unproven == Done(TRUE, FALSE, "COMPLETED", "failed", "FAILED")
Timeout  == Done(FALSE, FALSE, "HARD_TIMEOUT", "none", "FAILED")
NeedsRepair == Done(FALSE, FALSE, "INTERRUPTED", "none", "REPAIRING")
NeedsAnswer == Done(FALSE, FALSE, "INTERRUPTED", "none", "DECISION_REQUIRED")
InjectedResults == {Candidate, Plain, Unproven, Timeout, NeedsRepair, NeedsAnswer}
QuotaOnly == {Quota}
=============================================================================
