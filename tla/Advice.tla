------------------------------- MODULE Advice -------------------------------
(***************************************************************************)
(* What the bridge advises its caller to do: timeout_diagnostics.py, which  *)
(* tells whether a timed-out execution may be retried, and policy.py, which *)
(* tells who decides.  Both are pure; a question is put once, and what is   *)
(* asked of them holds for every question.                                  *)
(***************************************************************************)

VARIABLES
  question,  \* the arguments of the call
  advice     \* what it returns, NoAdvice before

adviceVars == <<question, advice>>

Answers == {"YES", "NO", "UNKNOWN"}
Timeouts == {"CONNECT_TIMEOUT", "REMOTE_EXECUTION_TIMEOUT", "LOCAL_SUPERVISION_TIMEOUT",
             "AGY_PRINT_TIMEOUT"}

\* kind: the classification of the timeout, given or found in the texts.
\* alive, evidence: the arguments, "unsaid" for Python's None; contextAlive and
\* contextState: the context; look: what the look at the worktree found, "not" when
\* nobody looked and "partly" when only some of it was, without changes.
TimeoutQuestions ==
  [kind : Timeouts \cup {"none", "other"}, alive : Answers \cup {"unsaid"},
   contextAlive : {"YES", "NO", "unsaid"}, contextState : {"over", "active", "waiting", "unsaid"},
   evidence : Answers \cup {"unsaid"}, look : {"not", "partly", "nothing", "changes"},
   diffZero : BOOLEAN]

\* explicit_tier, and what the intent, the paths, the risk class and the attempts
\* amount to.
Tiers == {"AUTO_DECIDE", "CODEX_DECIDE", "HUMAN_DECISION_REQUIRED"}
Marks == {"exhausted", "sensitive_path", "human_pattern", "production", "destructive_word",
          "codex_pattern", "auto_pattern", "tests_only"}
DecisionQuestions == [explicit : Tiers \cup {"unsaid"}, marks : SUBSET Marks]

-----------------------------------------------------------------------------
(* evaluate_timeout_diagnostics.                                             *)

\* Whether the worker lives: the caller's word, then the context's.
Alive(q) ==
  CASE q.alive # "unsaid" -> q.alive
    [] q.alive = "unsaid" /\ q.contextAlive # "unsaid" -> q.contextAlive
    [] q.alive = "unsaid" /\ q.contextAlive = "unsaid" /\ q.contextState = "over" -> "NO"
    [] q.alive = "unsaid" /\ q.contextAlive = "unsaid" /\ q.contextState = "active" -> "YES"
    [] OTHER -> "UNKNOWN"

\* An empty diff is no proof that nothing happened.
DiffZero(q) == q.diffZero \/ q.look = "nothing"

\* Mutant: an empty diff is taken for no progress.
EvidenceByDiff(q) ==
  CASE DiffZero(q) -> "NO"
    [] ~DiffZero(q) /\ q.evidence # "unsaid" -> q.evidence
    [] ~DiffZero(q) /\ q.evidence = "unsaid" /\ q.look = "changes" -> "YES"
    [] OTHER -> "UNKNOWN"

\* Whether the remote side made progress: the caller's word, then the look, and
\* when nobody looked a failed connection stands for no.
Evidence(q) ==
  CASE q.evidence = "NO" /\ DiffZero(q) -> "UNKNOWN"
    [] q.evidence # "unsaid" /\ ~(q.evidence = "NO" /\ DiffZero(q)) -> q.evidence
    [] q.evidence = "unsaid" /\ q.look = "changes" -> "YES"
    [] q.evidence = "unsaid" /\ q.look # "changes" /\ ~DiffZero(q) /\ q.kind = "CONNECT_TIMEOUT"
         -> "NO"
    [] OTHER -> "UNKNOWN"

\* diagnose_timeout: retry_recommended, reconciliation_required and
\* quota_duplicate_risk.
Diagnosis(kind, evidence, alive) ==
  CASE kind = "none" -> [retry |-> "NO", reconcile |-> "NO", risk |-> "NO"]
    [] kind # "none" /\ alive = "YES" -> [retry |-> "NO", reconcile |-> "YES", risk |-> "YES"]
    [] kind # "none" /\ alive # "YES" /\ evidence = "YES"
         -> [retry |-> "RECONCILE_FIRST", reconcile |-> "YES", risk |-> "YES"]
    [] kind \in {"CONNECT_TIMEOUT", "LOCAL_SUPERVISION_TIMEOUT"} /\ alive = "NO" /\ evidence = "NO"
         -> [retry |-> "YES", reconcile |-> "NO", risk |-> "NO"]
    [] OTHER -> [retry |-> "RECONCILE_FIRST", reconcile |-> "YES", risk |-> "UNKNOWN"]

-----------------------------------------------------------------------------
(* evaluate_decision_policy: the first rule that matches.                    *)

\* Mutant: changes to the tests alone are nobody's concern.
AsksHumanUnlessTests(marks) ==
  /\ "tests_only" \notin marks
  /\ \/ marks \cap {"exhausted", "sensitive_path", "human_pattern"} # {}
     \/ {"production", "destructive_word"} \subseteq marks

AsksHuman(marks) ==
  \/ marks \cap {"exhausted", "sensitive_path", "human_pattern"} # {}
  \/ {"production", "destructive_word"} \subseteq marks

Tier(q) ==
  CASE q.explicit # "unsaid" -> q.explicit
    [] q.explicit = "unsaid" /\ AsksHuman(q.marks) -> "HUMAN_DECISION_REQUIRED"
    [] q.explicit = "unsaid" /\ ~AsksHuman(q.marks) /\ "codex_pattern" \notin q.marks
         /\ q.marks \cap {"auto_pattern", "tests_only"} # {} -> "AUTO_DECIDE"
    [] OTHER -> "CODEX_DECIDE"

-----------------------------------------------------------------------------
NoAdvice == [tier |-> "none"]

AdviceInit ==
  /\ question \in TimeoutQuestions \cup DecisionQuestions
  /\ advice = NoAdvice

\* diagnose_timeout and evaluate_timeout_diagnostics, as the MCP tools call them.
AskTimeout ==
  /\ advice = NoAdvice /\ question \in TimeoutQuestions
  /\ advice' = Diagnosis(question.kind, Evidence(question), Alive(question))
  /\ UNCHANGED question

AskDecision ==
  /\ advice = NoAdvice /\ question \in DecisionQuestions
  /\ advice' = [tier |-> Tier(question)]
  /\ UNCHANGED question

AdviceNext == AskTimeout \/ AskDecision

AdviceSpec == AdviceInit /\ [][AdviceNext]_adviceVars

-----------------------------------------------------------------------------
\* Somebody said that the worker is gone, or the context of the execution is one that is over.
SaidDead(q) ==
  \/ q.alive = "NO"
  \/ q.alive = "unsaid" /\ q.contextAlive = "NO"
  \/ q.alive = "unsaid" /\ q.contextAlive = "unsaid" /\ q.contextState = "over"

\* What stands for no progress: the caller's word, also over a look that found changes,
\* or a connection that failed where no look found any.
TakenForIdle(q) ==
  \/ q.evidence = "NO"
  \/ q.evidence = "unsaid" /\ q.kind = "CONNECT_TIMEOUT" /\ q.look \in {"not", "partly"}

\* A direct retry, which puts a second worker on the worktree, is advised only for
\* a timeout of the connection or the local supervision, when the worker is said to be
\* gone, when the caller or a failed connection stands for no progress and an empty diff
\* does not, and nothing has to be reconciled (the invariants stated in
\* diagnose_timeout's comments, over the raw arguments of evaluate_timeout_diagnostics).
RetryIsWarranted ==
  question \in TimeoutQuestions /\ advice # NoAdvice /\ advice.retry = "YES" =>
    /\ question.kind \in {"CONNECT_TIMEOUT", "LOCAL_SUPERVISION_TIMEOUT"}
    /\ SaidDead(question) /\ TakenForIdle(question)
    /\ ~question.diffZero /\ question.look # "nothing"
    /\ advice.risk = "NO" /\ advice.reconcile = "NO"

\* What calls for a human keeps calling for one, whatever else the same intent
\* looks like (the order of evaluate_decision_policy's rules).
HumanStaysAsked ==
  question \in DecisionQuestions /\ advice = [tier |-> "HUMAN_DECISION_REQUIRED"] =>
    \A more \in SUBSET Marks :
      Tier([question EXCEPT !.marks = @ \cup more]) = "HUMAN_DECISION_REQUIRED"

\* Neither an unknown worker nor an empty diff is a ground for a second worker, and no
\* further look of an intent is one for a decision without a human.
AdviceIsCautious == RetryIsWarranted /\ HumanStaysAsked
=============================================================================
