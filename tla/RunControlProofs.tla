-------------------------- MODULE RunControlProofs --------------------------
(***************************************************************************)
(* One inductive invariant of RunControl, for any number of servers,        *)
(* executions and callers, and what follows from it: types, that COMPLETE   *)
(* is always backed by good evidence, and that the run implements           *)
(* RunLifecycle whoever writes it from however stale a record.              *)
(***************************************************************************)
EXTENDS RunControl, TLAPS

\* Where a worker is about to use its result, and where its payload has been
\* judged good enough to take the run towards COMPLETE.
ResultLabels == {"w_ret", "w_read", "w_payload", "w_fail"}
JudgedLabels == {"w_verify", "w_commit", "w_complete"}

\* Actor a may stand at the label.
Fits(a, label) ==
  /\ label \in Labels
  /\ a \in Workers /\ label \in ResultLabels => result[a] # None
  /\ label \in JudgedLabels => payload[a] \in {"passed", "failed", "accepted"}

\* The inductive invariant.
IInv ==
  /\ TypeOK
  /\ \A a \in Actors : Fits(a, pc[a])
  /\ CompleteIsVerified

\* The columns of the lifecycle, and what a step may do to them.
Core == <<row.state, row.version, row.verification>>
CoreStep == Lifecycle!Next \/ UNCHANGED Core

-----------------------------------------------------------------------------
\* Facts about the contract.

LEMMA EffectiveType ==
  ASSUME NEW given \in Verifications, NEW stored \in Verifications
  PROVE  Effective(given, stored) \in Verifications
BY DEF Effective

\* COMPLETE has no successor, and is entered with evidence.
LEMMA CompleteContract ==
  ASSUME NEW from, NEW to, NEW effective, CanTransition(from, to, effective)
  PROVE  /\ from # "COMPLETE"
         /\ to = "COMPLETE" => effective \notin {"none", "failed"}
BY DEF CanTransition, AllowedTransitions

\* The lifecycle's contract is the one of this module.
LEMMA SameContract ==
  /\ Lifecycle!RunStates = RunStates
  /\ Lifecycle!Verifications = Verifications
  /\ \A given, stored : Lifecycle!Effective(given, stored) = Effective(given, stored)
  /\ \A from, to, effective :
       CanTransition(from, to, effective) => Lifecycle!CanTransition(from, to, effective)
<1>1. \A s : Lifecycle!AllowedTransitions(s) = AllowedTransitions(s)
  BY DEF Lifecycle!AllowedTransitions, AllowedTransitions
<1> QED
  BY <1>1 DEF Lifecycle!RunStates, RunStates, Lifecycle!Verifications, Verifications,
              Lifecycle!Effective, Effective, Lifecycle!CanTransition, CanTransition

\* A versioned write is a transition of the lifecycle, keeps the row well typed, and
\* keeps COMPLETE backed if the payload of a completion has been judged.
LEMMA WrittenStep ==
  ASSUME TypeOK, CompleteIsVerified,
         NEW known, NEW to \in RunStates, NEW given \in Verifications,
         NEW pid \in Processes \cup {None},
         to = "COMPLETE" => given \in {"passed", "failed", "accepted"},
         CanWrite(known, to, given), row' = Written(to, given, pid)
  PROVE  Written(to, given, pid) \in Rows /\ CompleteIsVerified' /\ Lifecycle!Next
<1> DEFINE effective == Effective(given, row.verification)
<1>1. row \in Rows /\ row.version \in Nat /\ row.verification \in Verifications
  BY DEF TypeOK, Rows
<1>2. effective \in Verifications /\ CanTransition(row.state, to, effective)
  BY <1>1, EffectiveType DEF CanWrite
<1>3. /\ row'.state = to
      /\ row'.version = row.version + 1
      /\ row'.verification = effective
  BY DEF Written
<1>4. Written(to, given, pid) \in Rows
  BY <1>1, <1>2 DEF Written, Rows
<1>5. CompleteIsVerified'
  <2> SUFFICES ASSUME to = "COMPLETE" PROVE effective \in GoodVerifications
    BY <1>3 DEF CompleteIsVerified
  <2> QED
    BY <1>2, CompleteContract DEF Effective, GoodVerifications
<1>6. Lifecycle!Transition(to, given)
  BY <1>2, <1>3, SameContract DEF Lifecycle!Transition
<1> QED
  BY <1>4, <1>5, <1>6, SameContract DEF Lifecycle!Next

-----------------------------------------------------------------------------
\* The shared steps: an actor that goes on at a label it fits keeps the invariant.

LEMMA GotoKeep ==
  ASSUME TypeOK, NEW a \in Actors, NEW label \in Labels, NEW record \in Rows,
         Goto(a, label), Keep(a, label, record)
  PROVE  /\ pc' \in [Actors -> Labels]
         /\ pc' = [pc EXCEPT ![a] = label]
         /\ at' \in [Actors -> Processes \cup {None}]
         /\ call' \in [Callers -> Calls]
         /\ switch' \in [Callers -> BOOLEAN]
         /\ seen' \in [Actors -> Rows]
<1>1. Created \in Rows
  BY DEF Created, Rows, RunStates, Verifications
<1> QED
  BY <1>1 DEF Goto, Keep, TypeOK, Calls

\* Nobody else moves, and results and payloads stay.
LEMMA FitsKept ==
  ASSUME IInv, NEW a \in Actors, NEW label, Fits(a, label),
         pc' = [pc EXCEPT ![a] = label], UNCHANGED <<result, payload>>
  PROVE  \A b \in Actors : Fits(b, pc[b])'
<1> SUFFICES ASSUME NEW b \in Actors PROVE Fits(b, pc[b])'
  OBVIOUS
<1>1. Fits(b, pc[b]) /\ pc'[b] = IF b = a THEN label ELSE pc[b]
  BY DEF IInv, TypeOK
<1> QED
  BY <1>1 DEF Fits

LEMMA JumpStep ==
  ASSUME IInv, NEW a \in Actors, NEW label, NEW then, Fits(a, then), Jump(a, label, then)
  PROVE  IInv' /\ CoreStep
<1>1. then \in Labels /\ seen[a] \in Rows
  BY DEF Fits, IInv, TypeOK
<1>2. TypeOK' /\ pc' = [pc EXCEPT ![a] = then]
  BY <1>1, GotoKeep DEF IInv, TypeOK, Jump, Rest
<1>3. \A b \in Actors : Fits(b, pc[b])'
  BY <1>2, FitsKept DEF Jump, Rest
<1> QED
  BY <1>2, <1>3 DEF IInv, Jump, CompleteIsVerified, CoreStep, Core

LEMMA ReadStep ==
  ASSUME IInv, NEW a \in Actors, NEW label, NEW then, Fits(a, then), Read(a, label, then)
  PROVE  IInv' /\ CoreStep
<1>1. then \in Labels /\ row \in Rows
  BY DEF Fits, IInv, TypeOK
<1>2. TypeOK' /\ pc' = [pc EXCEPT ![a] = then]
  BY <1>1, GotoKeep DEF IInv, TypeOK, Read, Rest
<1>3. \A b \in Actors : Fits(b, pc[b])'
  BY <1>2, FitsKept DEF Read, Rest
<1> QED
  BY <1>2, <1>3 DEF IInv, Read, CompleteIsVerified, CoreStep, Core

LEMMA WriteAsStep ==
  ASSUME IInv, NEW pid \in Processes \cup {None}, NEW a \in Actors, NEW label,
         NEW to \in RunStates, NEW given \in Verifications, NEW then, NEW else,
         to = "COMPLETE" => given \in {"passed", "failed", "accepted"},
         Fits(a, then), Fits(a, else),
         WriteAs(pid, a, label, to, given, then, else)
  PROVE  IInv' /\ CoreStep
<1>1. then \in Labels /\ else \in Labels /\ seen[a] \in Rows
  BY DEF Fits, IInv, TypeOK
<1>2. CASE /\ CanWrite(seen[a], to, given)
           /\ row' = Written(to, given, pid)
           /\ Keep(a, then, Written(to, given, pid))
           /\ Goto(a, then)
  <2>1. Written(to, given, pid) \in Rows /\ CompleteIsVerified' /\ Lifecycle!Next
    BY <1>2, WrittenStep DEF IInv
  <2>2. TypeOK' /\ pc' = [pc EXCEPT ![a] = then]
    BY <1>1, <1>2, <2>1, GotoKeep DEF IInv, TypeOK, WriteAs, Rest
  <2>3. \A b \in Actors : Fits(b, pc[b])'
    BY <2>2, FitsKept DEF WriteAs, Rest
  <2> QED
    BY <2>1, <2>2, <2>3 DEF IInv, CoreStep
<1>3. CASE Keep(a, else, seen[a]) /\ Goto(a, else) /\ UNCHANGED row
  <2>2. TypeOK' /\ pc' = [pc EXCEPT ![a] = else]
    BY <1>1, <1>3, GotoKeep DEF IInv, TypeOK, WriteAs, Rest
  <2>3. \A b \in Actors : Fits(b, pc[b])'
    BY <2>2, FitsKept DEF WriteAs, Rest
  <2> QED
    BY <1>3, <2>2, <2>3 DEF IInv, CompleteIsVerified, CoreStep, Core
<1> QED
  BY <1>2, <1>3 DEF WriteAs

LEMMA WriteStep ==
  ASSUME IInv, NEW a \in Actors, NEW label,
         NEW to \in RunStates, NEW given \in Verifications, NEW then, NEW else,
         to = "COMPLETE" => given \in {"passed", "failed", "accepted"},
         Fits(a, then), Fits(a, else),
         Write(a, label, to, given, then, else)
  PROVE  IInv' /\ CoreStep
<1>1. PICK pid \in SelectedPids(seen[a]) : WriteAs(pid, a, label, to, given, then, else)
  BY DEF Write
<1>2. pid \in Processes \cup {None}
  BY DEF SelectedPids, IInv, TypeOK, Rows
<1> QED
  BY <1>1, <1>2, WriteAsStep

-----------------------------------------------------------------------------
\* The worker.

\* The labels anybody may stand at.
PlainLabels == Labels \ (ResultLabels \cup JudgedLabels)

LEMMA PlainFits ==
  ASSUME NEW a \in Actors, NEW label \in PlainLabels
  PROVE  Fits(a, label)
BY DEF Fits, PlainLabels

\* _worker_runner up to the callback.
LEMMA WorkerStartStep ==
  ASSUME IInv, NEW w \in Workers,
         Check1(w) \/ CancelledFirst(w) \/ Queue(w) \/ Check2(w) \/ Run(w)
  PROVE  IInv' /\ CoreStep
<1>1. w \in Actors
  BY DEF Actors
<1>2. {"w_cancelled", "w_queue", "w_check2", "w_run", "w_exec", "w_except", "w_finally"}
        \subseteq PlainLabels
  BY DEF PlainLabels, Labels, ResultLabels, JudgedLabels
<1>3. {"CANCELLED", "QUEUED", "RUNNING"} \subseteq RunStates /\ "none" \in Verifications
  BY DEF RunStates, Verifications
<1>4. CASE Check1(w)
  BY <1>1, <1>2, <1>4, PlainFits, JumpStep DEF Check1
<1>5. CASE CancelledFirst(w)
  BY <1>1, <1>2, <1>3, <1>5, PlainFits, WriteStep DEF CancelledFirst
<1>6. CASE Queue(w)
  BY <1>1, <1>2, <1>3, <1>6, PlainFits, WriteStep DEF Queue
<1>7. CASE Check2(w)
  BY <1>1, <1>2, <1>7, PlainFits, JumpStep DEF Check2
<1>8. CASE Run(w)
  <2>1. at[w] \in Processes \cup {None}
    BY <1>1 DEF IInv, TypeOK
  <2> QED
    BY <1>1, <1>2, <1>3, <1>8, <2>1, PlainFits, WriteAsStep DEF Run
<1> QED
  BY <1>4, <1>5, <1>6, <1>7, <1>8

\* The callback.
LEMMA CallbackInv ==
  ASSUME IInv, NEW w \in Workers, CallbackStep(w)
  PROVE  IInv' /\ CoreStep
<1>1. w \in Actors
  BY DEF Actors
<1>2. CASE CallbackReturns(w)
  <2>1. PICK r \in Results : result' = [result EXCEPT ![w] = r]
    BY <1>2 DEF CallbackReturns
  <2>2. r # None
    BY ConstantsAssumption DEF ConstantsAssumption
  <2>3. /\ pc' = [pc EXCEPT ![w] = "w_ret"]
        /\ UNCHANGED <<at, call, switch, row, up, active, event, seen, peek, payload, early>>
    BY <1>2 DEF CallbackReturns, Goto
  <2>4. TypeOK'
    BY <1>1, <2>1, <2>3 DEF IInv, TypeOK, Labels
  <2>5. \A b \in Actors : Fits(b, pc[b])'
    <3> SUFFICES ASSUME NEW b \in Actors PROVE Fits(b, pc[b])'
      OBVIOUS
    <3>1. Fits(b, pc[b]) /\ pc'[b] = IF b = w THEN "w_ret" ELSE pc[b]
      BY <2>3 DEF IInv, TypeOK
    <3>2. b \in Workers => result'[b] = IF b = w THEN r ELSE result[b]
      BY <2>1 DEF IInv, TypeOK
    <3> QED
      BY <2>2, <2>3, <3>1, <3>2 DEF Fits, Labels, JudgedLabels
  <2> QED
    BY <2>3, <2>4, <2>5 DEF IInv, CompleteIsVerified, CoreStep, Core
<1>3. CASE CallbackRaises(w)
  <2>1. "w_except" \in PlainLabels
    BY DEF PlainLabels, Labels, ResultLabels, JudgedLabels
  <2> QED
    BY <1>1, <1>3, <2>1, PlainFits, JumpStep DEF CallbackRaises
<1> QED
  BY <1>2, <1>3 DEF CallbackStep

\* An actor that takes a payload along.
LEMMA PayloadStep ==
  ASSUME IInv, NEW a \in Actors, NEW label \in Labels, NEW value \in Verifications,
         payload' = [payload EXCEPT ![a] = value], Goto(a, label),
         a \in Workers /\ label \in ResultLabels => result[a] # None,
         label \in JudgedLabels => value \in {"passed", "failed", "accepted"},
         UNCHANGED <<row, up, active, event, seen, peek, result, early>>
  PROVE  IInv' /\ CoreStep
<1>1. /\ pc' = [pc EXCEPT ![a] = label]
      /\ at' \in [Actors -> Processes \cup {None}]
      /\ call' \in [Callers -> Calls]
      /\ switch' \in [Callers -> BOOLEAN]
  BY DEF IInv, TypeOK, Goto, Calls
<1>2. TypeOK'
  BY <1>1 DEF IInv, TypeOK
<1>3. \A b \in Actors : Fits(b, pc[b])'
  <2> SUFFICES ASSUME NEW b \in Actors PROVE Fits(b, pc[b])'
    OBVIOUS
  <2>1. /\ Fits(b, pc[b])
        /\ pc'[b] = IF b = a THEN label ELSE pc[b]
        /\ payload'[b] = IF b = a THEN value ELSE payload[b]
    BY <1>1 DEF IInv, TypeOK
  <2> QED
    BY <2>1 DEF Fits
<1> QED
  BY <1>2, <1>3 DEF IInv, CompleteIsVerified, CoreStep, Core

\* _worker_runner after the callback: which way the result goes.
LEMMA WorkerResultStep ==
  ASSUME IInv, NEW w \in Workers,
         \/ CheckCancelled(w) \/ CancelRead(w) \/ ReadBeforeResult(w) \/ ChoosePayload(w)
         \/ AcceptCandidate(w) \/ AcceptRaises(w)
  PROVE  IInv' /\ CoreStep
<1>1. w \in Actors /\ Fits(w, pc[w])
  BY DEF Actors, IInv
<1>2. {"w_cancelRead", "w_cancelled", "w_finally", "w_except", "w_accept", "w_reject", "x_probe"}
        \subseteq PlainLabels
  BY DEF PlainLabels, Labels, ResultLabels, JudgedLabels
<1>3. \A label \in PlainLabels : Fits(w, label)
  BY <1>1, PlainFits
<1>4. pc[w] \in ResultLabels => \A label \in ResultLabels : Fits(w, label)
  BY <1>1 DEF Fits, Labels, ResultLabels, JudgedLabels
<1>5. CASE CheckCancelled(w)
  <2>1. Fits(w, IF event[w] THEN "w_cancelRead" ELSE "w_read")
    BY <1>2, <1>3, <1>4, <1>5 DEF CheckCancelled, Jump, Here, ResultLabels
  <2> QED
    BY <1>1, <1>5, <2>1, JumpStep DEF CheckCancelled
<1>6. CASE CancelRead(w)
  BY <1>1, <1>2, <1>3, <1>6, ReadStep DEF CancelRead
<1>7. CASE ReadBeforeResult(w)
  <2>1. \A label \in ResultLabels : Fits(w, label)
    BY <1>4, <1>7 DEF ReadBeforeResult, Read, Here, ResultLabels
  <2>2. PICK then \in {"w_finally", "w_fail", "x_probe", "w_accept", "w_payload"} :
          Read(w, "w_read", then)
    BY <1>7 DEF ReadBeforeResult
  <2>3. Fits(w, then)
    BY <1>2, <1>3, <2>1 DEF ResultLabels
  <2> QED
    BY <1>1, <2>2, <2>3, ReadStep
<1>8. CASE ChoosePayload(w)
  <2>1. result[w] \in Results
    BY <1>1, <1>8 DEF ChoosePayload, Here, Fits, ResultLabels, IInv, TypeOK
  <2>2. Default(w) \in {"passed", "failed"}
    BY <2>1, ConstantsAssumption DEF Default, ConstantsAssumption
  <2> QED
    BY <1>1, <1>8, <2>2, PayloadStep
    DEF ChoosePayload, Labels, ResultLabels, Verifications
<1>9. CASE AcceptCandidate(w)
  <2>1. PICK scopePassed, verified \in BOOLEAN :
          LET accepted == EvaluateCandidate(result[w].reason, LowRisk, scopePassed, verified)
          IN /\ payload' = [payload EXCEPT ![w] = IF accepted THEN "accepted" ELSE "rejected"]
             /\ Goto(w, IF accepted THEN "w_verify" ELSE "w_reject")
    BY <1>9 DEF AcceptCandidate
  <2>2. CASE EvaluateCandidate(result[w].reason, LowRisk, scopePassed, verified)
    BY <1>1, <1>9, <2>1, <2>2, PayloadStep
    DEF AcceptCandidate, Labels, ResultLabels, Verifications
  <2>3. CASE ~ EvaluateCandidate(result[w].reason, LowRisk, scopePassed, verified)
    BY <1>1, <1>9, <2>1, <2>3, PayloadStep
    DEF AcceptCandidate, Labels, ResultLabels, JudgedLabels, Verifications
  <2> QED
    BY <2>2, <2>3
<1>10. CASE AcceptRaises(w)
  BY <1>1, <1>2, <1>3, <1>10, JumpStep DEF AcceptRaises
<1> QED
  BY <1>5, <1>6, <1>7, <1>8, <1>9, <1>10

\* _worker_runner applying the result.
LEMMA WorkerApplyStep ==
  ASSUME IInv, NEW w \in Workers,
         \/ Reject(w) \/ RejectFail(w) \/ Verify(w) \/ Commit(w) \/ Complete(w)
         \/ Suspend(w) \/ NeedRepair(w) \/ Repair(w) \/ Fail(w)
         \/ Except(w) \/ ExceptFail(w)
  PROVE  IInv' /\ CoreStep
<1>1. w \in Actors /\ Fits(w, pc[w]) /\ payload[w] \in Verifications
  BY DEF Actors, IInv, TypeOK
<1>2. {"w_rejectFail", "w_finally", "w_except", "w_exceptFail", "w_repair"} \subseteq PlainLabels
  BY DEF PlainLabels, Labels, ResultLabels, JudgedLabels
<1>3. \A label \in PlainLabels : Fits(w, label)
  BY <1>1, PlainFits
<1>4. pc[w] \in JudgedLabels =>
        /\ \A label \in JudgedLabels : Fits(w, label)
        /\ payload[w] \in {"passed", "failed", "accepted"}
  BY <1>1 DEF Fits, Labels, ResultLabels, JudgedLabels
<1>5. /\ {"VERIFYING", "COMMITTING", "REPAIRING", "COMPLETE", "FAILED"} \subseteq RunStates
      /\ {"none", "failed"} \subseteq Verifications
  BY DEF RunStates, Verifications
<1>6. CASE Reject(w)
  BY <1>1, <1>2, <1>3, <1>5, <1>6, WriteStep DEF Reject
<1>7. CASE RejectFail(w)
  BY <1>1, <1>2, <1>3, <1>5, <1>7, WriteStep DEF RejectFail
<1>8. CASE Verify(w)
  <2>1. PICK then \in {"w_commit", "w_complete"} :
          Write(w, "w_verify", "VERIFYING", payload[w], then, "w_except")
    BY <1>8 DEF Verify
  <2>2. pc[w] = "w_verify"
    BY <2>1 DEF Write, WriteAs, Here
  <2>3. Fits(w, then)
    BY <1>4, <2>2 DEF JudgedLabels
  <2> QED
    BY <1>1, <1>2, <1>3, <1>5, <2>1, <2>3, WriteStep
<1>9. CASE Commit(w)
  <2>1. Fits(w, "w_complete")
    BY <1>4, <1>9 DEF Commit, Write, WriteAs, Here, JudgedLabels
  <2> QED
    BY <1>1, <1>2, <1>3, <1>5, <1>9, <2>1, WriteStep DEF Commit
<1>10. CASE Complete(w)
  <2>1. payload[w] \in {"passed", "failed", "accepted"}
    BY <1>4, <1>10 DEF Complete, Write, WriteAs, Here, JudgedLabels
  <2> QED
    BY <1>1, <1>2, <1>3, <1>5, <1>10, <2>1, WriteStep DEF Complete
<1>11. CASE Suspend(w)
  <2>1. result[w].target \in RunStates \ {"COMPLETE"}
    BY <1>11 DEF Suspend, SuspendedStates, RunStates
  <2> QED
    BY <1>1, <1>2, <1>3, <1>5, <1>11, <2>1, WriteStep DEF Suspend
<1>12. CASE NeedRepair(w)
  BY <1>1, <1>2, <1>3, <1>5, <1>12, WriteStep DEF NeedRepair
<1>13. CASE Repair(w)
  BY <1>1, <1>2, <1>3, <1>5, <1>13, WriteStep DEF Repair
<1>14. CASE Fail(w)
  <2>1. result[w] \in Results
    BY <1>1, <1>14 DEF Fail, Here, Fits, ResultLabels, IInv, TypeOK
  <2>2. result[w].verification \in Verifications
    BY <2>1, ConstantsAssumption DEF ConstantsAssumption, Verifications
  <2> QED
    BY <1>1, <1>2, <1>3, <1>5, <1>14, <2>2, WriteStep DEF Fail
<1>15. CASE Except(w)
  BY <1>1, <1>2, <1>3, <1>15, ReadStep DEF Except
<1>16. CASE ExceptFail(w)
  BY <1>1, <1>2, <1>3, <1>5, <1>16, WriteStep DEF ExceptFail
<1> QED
  BY <1>6, <1>7, <1>8, <1>9, <1>10, <1>11, <1>12, <1>13, <1>14, <1>15, <1>16

\* The finally block.
LEMMA FinallyStep ==
  ASSUME IInv, NEW w \in Workers, Finally(w)
  PROVE  IInv' /\ CoreStep
<1>1. w \in Actors /\ "done" \in Labels /\ seen[w] \in Rows
  BY DEF Actors, Labels, IInv, TypeOK
<1>2. pc' = [pc EXCEPT ![w] = "done"] /\ TypeOK'
  BY <1>1, GotoKeep DEF Finally, IInv, TypeOK, Verifications
<1>3. \A b \in Actors : Fits(b, pc[b])'
  <2> SUFFICES ASSUME NEW b \in Actors PROVE Fits(b, pc[b])'
    OBVIOUS
  <2>1. /\ Fits(b, pc[b])
        /\ pc'[b] = IF b = w THEN "done" ELSE pc[b]
        /\ b # w => payload'[b] = payload[b]
        /\ b # w /\ b \in Workers => result'[b] = result[b]
    BY <1>2 DEF IInv, TypeOK, Finally
  <2> QED
    BY <1>1, <2>1 DEF Fits, ResultLabels, JudgedLabels
<1> QED
  BY <1>2, <1>3 DEF IInv, Finally, CompleteIsVerified, CoreStep, Core

LEMMA WorkerInv ==
  ASSUME IInv, NEW w \in Workers, WorkerStep(w)
  PROVE  IInv' /\ CoreStep
BY WorkerStartStep, WorkerResultStep, WorkerApplyStep, FinallyStep DEF WorkerStep

-----------------------------------------------------------------------------
\* Steps that move several actors, or none.

\* Results and payloads stay, and whoever moved moved to a plain label.
LEMMA PlainMoves ==
  ASSUME IInv, pc' \in [Actors -> Labels], UNCHANGED <<result, payload>>,
         \A a \in Actors : pc'[a] = pc[a] \/ pc'[a] \in PlainLabels
  PROVE  \A b \in Actors : Fits(b, pc[b])'
<1> SUFFICES ASSUME NEW b \in Actors PROVE Fits(b, pc[b])'
  OBVIOUS
<1>1. Fits(b, pc[b])
  BY DEF IInv
<1> QED
  BY <1>1 DEF Fits, PlainLabels

\* An update without a version stores a pid.
LEMMA PidStep ==
  ASSUME IInv, NEW p \in Processes, row' = [row EXCEPT !.pid = p]
  PROVE  row' \in Rows /\ CompleteIsVerified' /\ UNCHANGED Core
BY DEF IInv, TypeOK, Rows, CompleteIsVerified, Core

LEMMA HostInProcesses == Host \in Processes
BY DEF Processes

\* The host's steps.
LEMMA HostInv ==
  ASSUME IInv, NEW w \in Workers, HostStep(w)
  PROVE  IInv' /\ CoreStep
<1>1. w \in Actors /\ seen[w] \in Rows /\ row \in Rows
  BY DEF Actors, IInv, TypeOK
<1>2. {"h_spawn", "born", "w_check1", "x_probe", "done"} \subseteq PlainLabels
  BY DEF PlainLabels, Labels, ResultLabels, JudgedLabels
<1>3. CASE HostClaims(w)
  <2>1. row' \in Rows /\ CompleteIsVerified' /\ UNCHANGED Core
    BY <1>3, HostInProcesses, PidStep DEF HostClaims
  <2>2. /\ pc' = [pc EXCEPT ![w] = "h_spawn"]
        /\ UNCHANGED <<at, call, switch, seen, up, active, event, peek, payload, result, early>>
    BY <1>3 DEF HostClaims, Goto, Rest
  <2>3. TypeOK'
    BY <1>1, <2>1, <2>2 DEF IInv, TypeOK, Labels
  <2>4. \A b \in Actors : Fits(b, pc[b])'
    BY <1>1, <1>2, <2>2, FitsKept, PlainFits
  <2> QED
    BY <2>1, <2>3, <2>4 DEF IInv, CoreStep
<1>4. CASE HostGivesUp(w)
  BY <1>1, <1>2, <1>4, PlainFits, ReadStep DEF HostGivesUp
<1>5. CASE HostSpawns(w)
  <2>1. /\ pc' = [pc EXCEPT ![w] = "born"]
        /\ UNCHANGED <<at, call, switch, row, up, event, peek, payload, result, early>>
    BY <1>5 DEF HostSpawns, Goto
  <2>2. TypeOK'
    BY <1>1, <1>5, <2>1 DEF HostSpawns, IInv, TypeOK, Labels
  <2>3. \A b \in Actors : Fits(b, pc[b])'
    BY <1>1, <1>2, <2>1, FitsKept, PlainFits
  <2> QED
    BY <2>1, <2>2, <2>3 DEF IInv, CompleteIsVerified, CoreStep, Core
<1>6. CASE HostStartsThread(w)
  BY <1>1, <1>2, <1>6, PlainFits, JumpStep DEF HostStartsThread
<1>7. CASE HostExits(w)
  <2>1. TypeOK'
    BY <1>7 DEF HostExits, IInv, TypeOK
  <2> QED
    BY <1>7, <2>1 DEF HostExits, IInv, Fits, CompleteIsVerified, CoreStep, Core
<1> QED
  BY <1>3, <1>4, <1>5, <1>6, <1>7 DEF HostStep

\* A caller registers an execution.
LEMMA SpawnStep ==
  ASSUME IInv, NEW c \in Callers, NEW label, SpawnHere(c, label)
  PROVE  IInv' /\ CoreStep
<1>1. {"born", "p_start"} \subseteq PlainLabels
  BY DEF PlainLabels, Labels, ResultLabels, JudgedLabels
<1>2. PICK w \in Workers :
        /\ active' = [active EXCEPT ![at[c]] = w]
        /\ pc' = [pc EXCEPT ![w] = "born", ![c] = "p_start"]
        /\ at' = [at EXCEPT ![w] = at[c]]
        /\ seen' = [seen EXCEPT ![w] = seen[c]]
  BY DEF SpawnHere
<1>3. UNCHANGED <<row, up, event, peek, payload, result, call, switch, early>>
  BY DEF SpawnHere
<1>4. pc' \in [Actors -> Labels]
  BY <1>2 DEF IInv, TypeOK, Labels
<1>5. TypeOK'
  BY <1>2, <1>3, <1>4 DEF IInv, TypeOK, Actors
<1>6. \A a \in Actors : pc'[a] = pc[a] \/ pc'[a] \in PlainLabels
  BY <1>1, <1>2 DEF IInv, TypeOK
<1>7. \A b \in Actors : Fits(b, pc[b])'
  BY <1>3, <1>4, <1>6, PlainMoves
<1> QED
  BY <1>3, <1>5, <1>7 DEF IInv, CompleteIsVerified, CoreStep, Core

\* A process dies.
LEMMA CrashInv ==
  ASSUME IInv, NEW p \in Processes, Crash(p)
  PROVE  IInv' /\ CoreStep
<1>1. Created \in Rows
  BY DEF Created, Rows, RunStates, Verifications
<1>2. TypeOK'
  BY <1>1 DEF Crash, IInv, TypeOK, Labels, Calls, Verifications
<1>3. \A b \in Actors : Fits(b, pc[b])'
  <2> SUFFICES ASSUME NEW b \in Actors PROVE Fits(b, pc[b])'
    OBVIOUS
  <2> DEFINE Lost == at[b] = p /\ pc[b] # "done"
  <2>1. Fits(b, pc[b])
    BY DEF IInv
  <2>2. CASE Lost
    <3>1. pc'[b] \in {"dead", "idle"}
      BY <2>2 DEF Crash
    <3> QED
      BY <3>1 DEF Fits, Labels, ResultLabels, JudgedLabels
  <2>3. CASE ~ Lost
    <3>1. /\ pc'[b] = pc[b]
          /\ payload'[b] = payload[b]
          /\ b \in Workers => result'[b] = result[b]
      BY <2>3 DEF Crash, IInv, TypeOK
    <3> QED
      BY <2>1, <3>1 DEF Fits
  <2> QED
    BY <2>2, <2>3
<1> QED
  BY <1>2, <1>3 DEF IInv, Crash, CompleteIsVerified, CoreStep, Core

-----------------------------------------------------------------------------
\* Harvests.

\* Where a harvest leaves its caller.
LEMMA HarvestExits ==
  ASSUME IInv, NEW a \in Actors
  PROVE  Fits(a, NotHarvested(a)) /\ Fits(a, Harvested(a)) /\ Fits(a, Finished(a))
<1>1. {"m_queue", "m_interrupt", "w_finally", "done", "idle"} \subseteq PlainLabels
  BY DEF PlainLabels, Labels, ResultLabels, JudgedLabels
<1>2. Handling(a) => Fits(a, "w_fail")
  BY DEF Handling, Fits, Labels, ResultLabels, JudgedLabels
<1> QED
  BY <1>1, <1>2, PlainFits DEF NotHarvested, Harvested, Finished

\* A harvest that ends leaves no payload.
LEMMA HarvestEndsStep ==
  ASSUME IInv, NEW a \in Actors, NEW then, Fits(a, then), then \notin JudgedLabels,
         HarvestEnds(a, then),
         row' \in Rows, CompleteIsVerified', UNCHANGED <<up, active, event, result, early>>
  PROVE  IInv'
<1>1. Created \in Rows /\ then \in Labels /\ seen[a] \in Rows
  BY DEF Created, Rows, RunStates, Verifications, Fits, IInv, TypeOK
<1>2. TypeOK' /\ pc' = [pc EXCEPT ![a] = then]
  BY <1>1, GotoKeep DEF HarvestEnds, IInv, TypeOK, Verifications
<1>3. \A b \in Actors : Fits(b, pc[b])'
  <2> SUFFICES ASSUME NEW b \in Actors PROVE Fits(b, pc[b])'
    OBVIOUS
  <2>1. /\ Fits(b, pc[b])
        /\ pc'[b] = IF b = a THEN then ELSE pc[b]
        /\ b # a => payload'[b] = payload[b]
    BY <1>2 DEF HarvestEnds, IInv, TypeOK
  <2> QED
    BY <2>1 DEF Fits
<1> QED
  BY <1>2, <1>3 DEF IInv

\* Where it ends, nobody is about to complete the run.
LEMMA HarvestExitsUnjudged ==
  ASSUME NEW a \in Actors
  PROVE  NotHarvested(a) \notin JudgedLabels /\ Harvested(a) \notin JudgedLabels
BY DEF NotHarvested, Harvested, Finished, JudgedLabels

\* The two transitions of a harvest, from `latest`.
LEMMA HarvestWriteStep ==
  ASSUME IInv, NEW a \in Actors, NEW to \in RunStates, NEW pid \in SelectedPids(peek[a]),
         to = "COMPLETE" => payload[a] = "accepted",
         CanWrite(peek[a], to, payload[a]), row' = Written(to, payload[a], pid)
  PROVE  row' \in Rows /\ CompleteIsVerified' /\ Lifecycle!Next
<1>1. pid \in Processes \cup {None} /\ payload[a] \in Verifications
  BY DEF SelectedPids, IInv, TypeOK, Rows
<1> QED
  BY <1>1, WrittenStep DEF IInv

LEMMA HarvestInv ==
  ASSUME IInv, NEW a \in Actors, HarvestStep(a)
  PROVE  IInv' /\ CoreStep
<1>1. /\ Fits(a, NotHarvested(a)) /\ NotHarvested(a) \notin JudgedLabels
      /\ Fits(a, Harvested(a)) /\ Harvested(a) \notin JudgedLabels
      /\ Fits(a, Finished(a))
  BY HarvestExits, HarvestExitsUnjudged
<1>2. {"w_except", "x_latest", "x_verify", "x_settle"} \subseteq PlainLabels
  BY DEF PlainLabels, Labels, ResultLabels, JudgedLabels
<1>3. {"VERIFYING", "COMPLETE", "FAILED"} \subseteq RunStates
  BY DEF RunStates
<1>4. CASE HarvestNothing(a)
  BY <1>1, <1>4, JumpStep DEF HarvestNothing
<1>5. CASE HarvestRaises(a)
  BY <1>1, <1>2, <1>5, PlainFits, JumpStep DEF HarvestRaises
<1>6. CASE HarvestJudges(a)
  <2>1. PICK value \in {"accepted", "rejected"} : payload' = [payload EXCEPT ![a] = value]
    BY <1>6 DEF HarvestJudges
  <2> QED
    BY <1>6, <2>1, PayloadStep
    DEF HarvestJudges, Labels, ResultLabels, JudgedLabels, Verifications
<1>7. CASE HarvestLatest(a)
  <2>1. row' \in Rows /\ CompleteIsVerified' /\ UNCHANGED Core
    BY <1>7 DEF HarvestLatest, IInv, TypeOK, CompleteIsVerified, Core
  <2>2. CASE row.state \in TerminalStates
    <3>1. HarvestEnds(a, Harvested(a)) /\ UNCHANGED <<up, active, event, result, early>>
      BY <1>7, <2>2 DEF HarvestLatest
    <3> QED
      BY <1>1, <2>1, <3>1, HarvestEndsStep DEF CoreStep
  <2>3. CASE row.state \notin TerminalStates
    <3>1. /\ pc' = [pc EXCEPT ![a] = "x_verify"]
          /\ peek' = [peek EXCEPT ![a] = row]
          /\ UNCHANGED <<at, call, switch, seen, payload, row, up, active, event, result, early>>
      BY <1>7, <2>3 DEF HarvestLatest, Goto
    <3>2. TypeOK'
      BY <3>1 DEF IInv, TypeOK, Labels
    <3>3. \A b \in Actors : Fits(b, pc[b])'
      BY <1>2, <3>1, FitsKept, PlainFits
    <3> QED
      BY <2>1, <3>2, <3>3 DEF IInv, CoreStep
  <2> QED
    BY <2>2, <2>3
<1>8. CASE HarvestVerify(a)
  <2>1. CASE CanWrite(peek[a], "VERIFYING", payload[a])
    <3>1. PICK pid \in SelectedPids(peek[a]) :
            /\ row' = Written("VERIFYING", payload[a], pid)
            /\ peek' = [peek EXCEPT ![a] = Written("VERIFYING", payload[a], pid)]
      BY <1>8, <2>1 DEF HarvestVerify
    <3>2. row' \in Rows /\ CompleteIsVerified' /\ Lifecycle!Next
      BY <1>3, <2>1, <3>1, HarvestWriteStep
    <3>3. /\ pc' = [pc EXCEPT ![a] = "x_settle"]
          /\ UNCHANGED <<at, call, switch, seen, payload, up, active, event, result, early>>
      BY <1>8, <2>1 DEF HarvestVerify, Goto
    <3>4. TypeOK'
      BY <3>1, <3>2, <3>3 DEF IInv, TypeOK, Labels
    <3>5. \A b \in Actors : Fits(b, pc[b])'
      BY <1>2, <3>3, FitsKept, PlainFits
    <3> QED
      BY <3>2, <3>4, <3>5 DEF IInv, CoreStep
  <2>2. CASE ~ CanWrite(peek[a], "VERIFYING", payload[a])
    <3>1. /\ HarvestEnds(a, NotHarvested(a))
          /\ UNCHANGED <<row, up, active, event, result, early>>
      BY <1>8, <2>2 DEF HarvestVerify
    <3>2. row' \in Rows /\ CompleteIsVerified' /\ UNCHANGED Core
      BY <3>1 DEF IInv, TypeOK, CompleteIsVerified, Core
    <3> QED
      BY <1>1, <3>1, <3>2, HarvestEndsStep DEF CoreStep
  <2> QED
    BY <2>1, <2>2
<1>9. CASE HarvestSettle(a)
  <2>1. CASE CanWrite(peek[a], HarvestOutcome(a), payload[a])
    <3>1. PICK pid \in SelectedPids(peek[a]) :
            row' = Written(HarvestOutcome(a), payload[a], pid)
      BY <1>9, <2>1 DEF HarvestSettle
    <3>2. /\ HarvestOutcome(a) \in RunStates
          /\ HarvestOutcome(a) = "COMPLETE" => payload[a] = "accepted"
      BY <1>3 DEF HarvestOutcome
    <3>3. row' \in Rows /\ CompleteIsVerified' /\ Lifecycle!Next
      BY <2>1, <3>1, <3>2, HarvestWriteStep
    <3>4. HarvestEnds(a, Harvested(a)) /\ UNCHANGED <<up, active, event, result, early>>
      BY <1>9, <2>1 DEF HarvestSettle
    <3> QED
      BY <1>1, <3>3, <3>4, HarvestEndsStep DEF CoreStep
  <2>2. CASE ~ CanWrite(peek[a], HarvestOutcome(a), payload[a])
    <3>1. /\ HarvestEnds(a, NotHarvested(a))
          /\ UNCHANGED <<row, up, active, event, result, early>>
      BY <1>9, <2>2 DEF HarvestSettle
    <3>2. row' \in Rows /\ CompleteIsVerified' /\ UNCHANGED Core
      BY <3>1 DEF IInv, TypeOK, CompleteIsVerified, Core
    <3> QED
      BY <1>1, <3>1, <3>2, HarvestEndsStep DEF CoreStep
  <2> QED
    BY <2>1, <2>2
<1> QED
  BY <1>4, <1>5, <1>6, <1>7, <1>8, <1>9 DEF HarvestStep

\* The end of _mark_interrupted.
LEMMA MarkInv ==
  ASSUME IInv, NEW a \in Actors, MarkStep(a)
  PROVE  IInv' /\ CoreStep
<1>1. Fits(a, Finished(a))
  BY HarvestExits
<1>2. {"m_interrupt", "m_reread"} \subseteq PlainLabels
  BY DEF PlainLabels, Labels, ResultLabels, JudgedLabels
<1>3. {"QUEUED", "INTERRUPTED"} \subseteq RunStates /\ "none" \in Verifications
  BY DEF RunStates, Verifications
<1>4. CASE MarkQueue(a)
  BY <1>2, <1>3, <1>4, PlainFits, WriteStep DEF MarkQueue
<1>5. CASE MarkReread(a)
  BY <1>2, <1>5, PlainFits, ReadStep DEF MarkReread
<1>6. CASE MarkInterrupt(a)
  BY <1>1, <1>3, <1>6, WriteStep DEF MarkInterrupt
<1> QED
  BY <1>4, <1>5, <1>6 DEF MarkStep

-----------------------------------------------------------------------------
\* Calls.

CallLabels ==
  {"idle", "s_pid", "s_fail", "s_reserve", "p_start", "x_probe",
   "c_signal", "c_read", "c_try", "c_reread", "c_retry", "o_read", "o_probe",
   "r_status", "r_idle", "r_read", "r_load", "r_ready", "r_spawn",
   "k_diagnose", "k_read", "k_switch", "k_queue", "k_interrupt",
   "e_read", "e_ready", "f_read", "f_fail"}

LEMMA CallFits ==
  ASSUME NEW c \in Callers
  PROVE  c \in Actors /\ \A label \in CallLabels : Fits(c, label)
<1>1. CallLabels \subseteq PlainLabels
  BY DEF CallLabels, PlainLabels, Labels, ResultLabels, JudgedLabels
<1> QED
  BY <1>1, PlainFits DEF Actors

\* The payloads and targets of calls.
LEMMA CallTargets ==
  /\ {"QUEUED", "CANCELLED", "FAILED", "INTERRUPTED", "RECOVERY_READY",
      "ACCOUNT_SWITCH_REQUIRED"} \subseteq RunStates
  /\ "none" \in Verifications
BY DEF RunStates, Verifications

\* An operation starts.
LEMMA BeginInv ==
  ASSUME IInv, NEW c \in Callers, BeginStep(c)
  PROVE  IInv' /\ CoreStep
<1>1. PICK kind \in Calls, p \in Processes, label \in CallLabels : Begin(c, kind, p, label)
  BY ConstantsAssumption
  DEF ConstantsAssumption, BeginStep, BeginCancel, BeginObserve, BeginResume, BeginRecover,
      BeginMark, BeginReady, BeginCorrupt, Calls, CallLabels, Processes
<1>2. /\ call' = [call EXCEPT ![c] = kind]
      /\ at' = [at EXCEPT ![c] = p]
      /\ pc' = [pc EXCEPT ![c] = label]
      /\ UNCHANGED <<row, seen, switch, up, active, event, peek, payload, result, early>>
  BY <1>1 DEF Begin, Rest
<1>3. c \in Actors /\ Fits(c, label)
  BY CallFits
<1>4. TypeOK'
  BY <1>2, <1>3 DEF IInv, TypeOK, Fits
<1>5. \A b \in Actors : Fits(b, pc[b])'
  BY <1>2, <1>3, FitsKept
<1> QED
  BY <1>2, <1>4, <1>5 DEF IInv, CompleteIsVerified, CoreStep, Core

\* run_start
LEMMA StartInv ==
  ASSUME IInv, NEW c \in Callers, StartStep(c)
  PROVE  IInv' /\ CoreStep
<1>1. c \in Actors /\ \A label \in CallLabels : Fits(c, label)
  BY CallFits
<1>2. {"w_check1", "idle", "h_wait", "h_claim", "s_reserve", "s_pid"} \subseteq PlainLabels
  BY DEF PlainLabels, Labels, ResultLabels, JudgedLabels
<1>3. Created \in Rows
  BY DEF Created, Rows, RunStates, Verifications
<1>4. CASE SpawnInProcess(c)
  BY <1>4, SpawnStep DEF SpawnInProcess
<1>5. CASE StartThread(c)
  <2>1. PICK w \in Workers : pc' = [pc EXCEPT ![w] = "w_check1", ![c] = "idle"]
    BY <1>5 DEF StartThread
  <2>2. TypeOK'
    BY <1>3, <1>5, <2>1 DEF StartThread, IInv, TypeOK, Labels, Calls
  <2>3. \A a \in Actors : pc'[a] = pc[a] \/ pc'[a] \in PlainLabels
    BY <1>2, <2>1 DEF IInv, TypeOK
  <2>4. \A b \in Actors : Fits(b, pc[b])'
    BY <1>5, <2>2, <2>3, PlainMoves DEF StartThread, TypeOK
  <2> QED
    BY <1>5, <2>2, <2>4 DEF StartThread, IInv, CompleteIsVerified, CoreStep, Core
<1>6. CASE SpawnHost(c)
  <2>1. PICK w \in Workers : /\ pc' = [pc EXCEPT ![w] = "h_wait", ![c] = "s_reserve"]
                             /\ at' = [at EXCEPT ![w] = Host]
    BY <1>6 DEF SpawnHost
  <2>2. TypeOK'
    BY <1>6, <2>1, HostInProcesses DEF SpawnHost, IInv, TypeOK, Labels
  <2>3. \A a \in Actors : pc'[a] = pc[a] \/ pc'[a] \in PlainLabels
    BY <1>2, <2>1 DEF IInv, TypeOK
  <2>4. \A b \in Actors : Fits(b, pc[b])'
    BY <1>6, <2>2, <2>3, PlainMoves DEF SpawnHost, TypeOK
  <2> QED
    BY <1>6, <2>2, <2>4 DEF SpawnHost, IInv, CompleteIsVerified, CoreStep, Core
<1>7. CASE Reserve(c)
  <2>1. TypeOK'
    BY <1>7 DEF Reserve, IInv, TypeOK, Labels
  <2>2. \A a \in Actors : pc'[a] = pc[a] \/ pc'[a] \in PlainLabels
    BY <1>2, <1>7 DEF Reserve
  <2>3. \A b \in Actors : Fits(b, pc[b])'
    BY <1>7, <2>1, <2>2, PlainMoves DEF Reserve, TypeOK
  <2> QED
    BY <1>7, <2>1, <2>3 DEF Reserve, IInv, CompleteIsVerified, CoreStep, Core
<1>8. CASE RecordPid(c)
  <2>1. row' \in Rows /\ CompleteIsVerified' /\ UNCHANGED Core
    BY <1>8, HostInProcesses, PidStep DEF RecordPid
  <2>2. "idle" \in Labels /\ seen[c] \in Rows
    BY <1>1 DEF Labels, IInv, TypeOK
  <2>3. TypeOK' /\ pc' = [pc EXCEPT ![c] = "idle"]
    BY <1>1, <1>8, <2>1, <2>2, GotoKeep DEF RecordPid, IInv, TypeOK, Rest
  <2>4. \A b \in Actors : Fits(b, pc[b])'
    BY <1>1, <1>2, <1>8, <2>3, PlainFits, FitsKept DEF RecordPid, Rest
  <2> QED
    BY <2>1, <2>3, <2>4 DEF IInv, CoreStep
<1>9. CASE SpawnFails(c)
  BY <1>1, <1>9, ReadStep DEF SpawnFails, CallLabels
<1>10. CASE BaselineFails(c)
  BY <1>1, <1>10, JumpStep DEF BaselineFails, CallLabels
<1>11. CASE StartFails(c)
  BY <1>1, <1>11, CallTargets, WriteStep DEF StartFails, CallLabels
<1> QED
  BY <1>4, <1>5, <1>6, <1>7, <1>8, <1>9, <1>10, <1>11 DEF StartStep

\* run_cancel
LEMMA CancelInv ==
  ASSUME IInv, NEW c \in Callers, CancelStep(c)
  PROVE  IInv' /\ CoreStep
<1>1. c \in Actors /\ \A label \in CallLabels : Fits(c, label)
  BY CallFits
<1>2. CASE Signal(c)
  <2>1. /\ pc' = [pc EXCEPT ![c] = "c_read"]
        /\ UNCHANGED <<at, call, switch, row, up, active, seen, peek, payload, result>>
    BY <1>2 DEF Signal, Goto
  <2>2. event' \in [Workers -> BOOLEAN] /\ early' \in [Workers -> BOOLEAN]
    BY <1>2 DEF Signal, IInv, TypeOK
  <2>3. TypeOK'
    BY <1>1, <2>1, <2>2 DEF IInv, TypeOK, Labels
  <2>4. \A b \in Actors : Fits(b, pc[b])'
    BY <1>1, <2>1, FitsKept DEF CallLabels
  <2> QED
    BY <2>1, <2>3, <2>4 DEF IInv, CompleteIsVerified, CoreStep, Core
<1>3. CASE CancelFirst(c)
  BY <1>1, <1>3, ReadStep DEF CancelFirst, CallLabels
<1>4. CASE CancelTry(c)
  BY <1>1, <1>4, CallTargets, WriteStep DEF CancelTry, CallLabels
<1>5. CASE CancelReread(c)
  BY <1>1, <1>5, ReadStep DEF CancelReread, CallLabels
<1>6. CASE CancelRetry(c)
  BY <1>1, <1>6, CallTargets, WriteStep DEF CancelRetry, CallLabels
<1> QED
  BY <1>2, <1>3, <1>4, <1>5, <1>6 DEF CancelStep

\* run_observe
LEMMA ObserveInv ==
  ASSUME IInv, NEW c \in Callers, ObserveStep(c)
  PROVE  IInv' /\ CoreStep
<1>1. c \in Actors /\ \A label \in CallLabels : Fits(c, label)
  BY CallFits
<1>2. CASE ObserveRead(c)
  BY <1>1, <1>2, ReadStep DEF ObserveRead, CallLabels
<1>3. CASE ObserveStale(c)
  BY <1>1, <1>3, JumpStep DEF ObserveStale, CallLabels
<1>4. CASE ObserveOrphan(c)
  BY <1>1, <1>4, JumpStep DEF ObserveOrphan, CallLabels
<1>5. CASE ObserveHealthy(c)
  BY <1>1, <1>5, JumpStep DEF ObserveHealthy, CallLabels
<1> QED
  BY <1>2, <1>3, <1>4, <1>5 DEF ObserveStep

\* run_resume and resume_same_run
LEMMA ResumeInv ==
  ASSUME IInv, NEW c \in Callers, ResumeStep(c)
  PROVE  IInv' /\ CoreStep
<1>1. c \in Actors /\ \A label \in CallLabels : Fits(c, label)
  BY CallFits
<1>2. CASE ResumeStatus(c)
  BY <1>1, <1>2, JumpStep DEF ResumeStatus, CallLabels
<1>3. CASE ResumeIdle(c)
  BY <1>1, <1>3, JumpStep DEF ResumeIdle, CallLabels
<1>4. CASE ResumeRead(c)
  BY <1>1, <1>4, JumpStep DEF ResumeRead, CallLabels
<1>5. CASE ResumeLoad(c)
  BY <1>1, <1>5, ReadStep DEF ResumeLoad, CallLabels
<1>6. CASE ResumeReady(c)
  BY <1>1, <1>6, CallTargets, WriteStep DEF ResumeReady, CallLabels
<1>7. CASE ResumeSpawn(c)
  BY <1>7, SpawnStep DEF ResumeSpawn
<1>8. CASE ResumeQueue(c)
  BY <1>1, <1>8, CallTargets, WriteStep DEF ResumeQueue, CallLabels
<1>9. CASE ResumeNothing(c)
  BY <1>1, <1>9, JumpStep DEF ResumeNothing, CallLabels
<1> QED
  BY <1>2, <1>3, <1>4, <1>5, <1>6, <1>7, <1>8, <1>9 DEF ResumeStep

\* The other operations of RecoveryOrchestrator
LEMMA RecoveryInv ==
  ASSUME IInv, NEW c \in Callers, RecoveryStep(c)
  PROVE  IInv' /\ CoreStep
<1>1. c \in Actors /\ \A label \in CallLabels : Fits(c, label)
  BY CallFits
<1>2. Unmarked(c) \in CallLabels /\ Switched(c) \subseteq CallLabels
  BY DEF Unmarked, Switched, CallLabels
<1>3. CASE Diagnose(c)
  <2>1. /\ pc' = [pc EXCEPT ![c] = "k_read"]
        /\ switch' \in [Callers -> BOOLEAN]
        /\ UNCHANGED <<at, call, seen, row, up, active, event, peek, payload, result, early>>
    BY <1>3 DEF Diagnose, Rest, IInv, TypeOK
  <2>2. TypeOK'
    BY <1>1, <2>1 DEF IInv, TypeOK, Labels
  <2>3. \A b \in Actors : Fits(b, pc[b])'
    BY <1>1, <2>1, FitsKept DEF CallLabels
  <2> QED
    BY <2>1, <2>2, <2>3 DEF IInv, CompleteIsVerified, CoreStep, Core
<1>4. CASE MarkNothing(c)
  BY <1>1, <1>2, <1>4, JumpStep DEF MarkNothing
<1>5. CASE MarkAlready(c)
  BY <1>1, <1>5, ReadStep DEF MarkAlready, CallLabels
<1>6. CASE MarkSwitched(c)
  BY <1>1, <1>2, <1>6, ReadStep DEF MarkSwitched
<1>7. CASE MarkRead(c)
  BY <1>1, <1>7, ReadStep DEF MarkRead, CallLabels
<1>8. CASE MarkSwitch(c)
  BY <1>1, <1>2, <1>8, CallTargets, WriteStep DEF MarkSwitch, CallLabels
<1>9. CASE MarkQueued(c)
  BY <1>1, <1>9, CallTargets, WriteStep DEF MarkQueued, CallLabels
<1>10. CASE MarkInterrupted(c)
  BY <1>1, <1>10, CallTargets, WriteStep DEF MarkInterrupted, CallLabels
<1>11. CASE ReadyRead(c)
  BY <1>1, <1>11, ReadStep DEF ReadyRead, CallLabels
<1>12. CASE ReadyWrite(c)
  BY <1>1, <1>12, CallTargets, WriteStep DEF ReadyWrite, CallLabels
<1>13. CASE CorruptRead(c)
  BY <1>1, <1>13, ReadStep DEF CorruptRead, CallLabels
<1>14. CASE CorruptFail(c)
  BY <1>1, <1>14, CallTargets, WriteStep DEF CorruptFail, CallLabels
<1> QED
  BY <1>3, <1>4, <1>5, <1>6, <1>7, <1>8, <1>9, <1>10, <1>11, <1>12, <1>13, <1>14
  DEF RecoveryStep

-----------------------------------------------------------------------------
\* The theorems.

LEMMA IInvInit == Init => IInv
<1> SUFFICES ASSUME Init PROVE IInv
  OBVIOUS
<1>1. PICK p \in Servers :
        /\ row = [Created EXCEPT !.pid = IF InProcess THEN p ELSE None]
        /\ at = [a \in Actors |-> IF a = Launcher THEN p ELSE None]
  BY DEF Init
<1>2. Created \in Rows /\ row \in Rows /\ row.state = "CREATED"
  BY <1>1 DEF Created, Rows, RunStates, Verifications, Processes
<1>3. TypeOK
  BY <1>1, <1>2 DEF Init, TypeOK, Labels, Calls, Verifications, Processes
<1>4. \A a \in Actors : pc[a] \in PlainLabels
  BY DEF Init, PlainLabels, Labels, ResultLabels, JudgedLabels
<1> QED
  BY <1>2, <1>3, <1>4, PlainFits DEF IInv, CompleteIsVerified

LEMMA StepInv ==
  ASSUME IInv, [Next]_vars
  PROVE  IInv' /\ CoreStep
<1>1. ASSUME NEW w \in Workers, HostStep(w) \/ WorkerStep(w) \/ CallbackStep(w)
      PROVE  IInv' /\ CoreStep
  BY <1>1, HostInv, WorkerInv, CallbackInv
<1>2. ASSUME NEW c \in Callers, BeginStep(c) \/ CallStep(c)
      PROVE  IInv' /\ CoreStep
  BY <1>2, BeginInv, StartInv, CancelInv, ObserveInv, ResumeInv, RecoveryInv DEF CallStep
<1>3. ASSUME NEW a \in Actors, HarvestStep(a) \/ MarkStep(a)
      PROVE  IInv' /\ CoreStep
  BY <1>3, HarvestInv, MarkInv
<1>4. ASSUME NEW p \in Processes, Crash(p)
      PROVE  IInv' /\ CoreStep
  BY <1>4, CrashInv
<1>5. CASE UNCHANGED vars
  BY <1>5 DEF vars, IInv, TypeOK, Fits, CompleteIsVerified, CoreStep, Core
<1> QED
  BY <1>1, <1>2, <1>3, <1>4, <1>5 DEF Next

\* The invariant holds of every behaviour.
THEOREM Invariance == Spec => []IInv
<1>1. IInv /\ [Next]_vars => IInv'
  BY StepInv
<1> QED
  BY IInvInit, <1>1, PTL DEF Spec

\* Every variable always has its type.
THEOREM TypeCorrect == Spec => []TypeOK
<1>1. IInv => TypeOK
  BY DEF IInv
<1> QED
  BY <1>1, Invariance, PTL

\* A COMPLETE run is backed by a passed verification or an acceptance, whichever of
\* the worker, an observer and a recovery completed it.
THEOREM CompleteBacked == Spec => []CompleteIsVerified
<1>1. IInv => CompleteIsVerified
  BY DEF IInv
<1> QED
  BY <1>1, Invariance, PTL

\* Stale records and interleaved writers included, the run implements RunLifecycle.
THEOREM ControlImplementsLifecycle == Spec => ImplementsLifecycle
<1>1. Init => Lifecycle!Init
  BY DEF Init, Created, Lifecycle!Init, Lifecycle!InitialRun
<1>2. IInv /\ [Next]_vars
        => [Lifecycle!Next]_[state |-> row.state, version |-> row.version,
                             verification |-> row.verification]
  BY StepInv DEF CoreStep, Core
<1> QED
  BY <1>1, <1>2, Invariance, PTL DEF Spec, ImplementsLifecycle, Lifecycle!Spec
=============================================================================
