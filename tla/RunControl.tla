----------------------------- MODULE RunControl -----------------------------
(***************************************************************************)
(* One durable run, driven by everybody who can touch it: the worker        *)
(* threads DurableRunManager._spawn_worker starts, the detached worker      *)
(* host, and callers of run_start, run_cancel, run_observe, run_resume and  *)
(* the RecoveryOrchestrator, in several MCP server processes that share     *)
(* nothing but the SQLite row.                                              *)
(*                                                                          *)
(* Each read of the row (get_run) and each versioned write (transition_run) *)
(* is a step of its own, so that what an actor saw may be stale when it     *)
(* writes.  transition_run itself is one step: RunStore shows that its      *)
(* SELECT and its guarded UPDATE act as one on state, version and           *)
(* verification, while the pid column may fall back to what SELECT saw.  A  *)
(* process keeps its registry of active executions in memory and loses it   *)
(* when it dies; a restarted server is a further member of Servers.         *)
(***************************************************************************)
EXTENDS RunContracts, FiniteSets, Naturals

CONSTANTS
  Servers,     \* MCP server processes
  Host,        \* the detached worker host process of an external run
  Workers,     \* worker executions (bound: one _spawn_worker call each)
  Callers,     \* threads that call the manager's operations
  Launcher,    \* the caller that is inside run_start in the initial state
  None,        \* Python's None, for pids, registry entries and results
  InProcess,   \* the persisted worker identity: in_process or external_durable
  LowRisk,     \* effective_risk_class(contract.risk_class) is LOW
  Results,     \* the WorkerResults a callback may return
  CallKinds,   \* the operations callers may start
  EarlyCalls,  \* they may start before run_start returned (they chose the run_id)
  Resumers,    \* the servers on which run_resume may be called
  StaleBeats,  \* heartbeats of a live process may look older than the threshold
  Crashing,    \* the processes that may die
  MaxVersion   \* bound: no resume starts on a row beyond this version

ASSUME ConstantsAssumption ==
  /\ Launcher \in Callers
  /\ Host \notin Servers
  /\ None \notin Servers \cup {Host} \cup Workers \cup Results
  /\ Workers \cap Callers = {}
  /\ Resumers \subseteq Servers
  /\ {InProcess, LowRisk, EarlyCalls, StaleBeats} \subseteq BOOLEAN
  /\ Results \subseteq [success : BOOLEAN, candidate : BOOLEAN,
                        reason : TerminalReasons,
                        verification : {"none", "passed", "failed"},
                        target : SuspendedStates \cup {"FAILED", "REPAIRING"}]
  /\ MaxVersion \in Nat

VARIABLES
  row,      \* the runs row: state, version, verification, pid
  up,       \* which processes are alive
  active,   \* _active_executions[run_id] of each process
  event,    \* cancel_event of each execution
  pc,       \* where each actor stands in the code
  at,       \* the process each actor runs in
  seen,     \* the actor's record: the row as it last read or wrote it
  peek,     \* `latest` inside _harvest_existing_candidate
  payload,  \* the verification payload the actor is about to persist
  result,   \* what the callback of an execution returned
  call,     \* the operation a caller is in
  switch,   \* diagnose_run reported ACCOUNT_SWITCH_REQUIRED to this caller
  early     \* history: executions cancelled before their callback returned

vars == <<row, up, active, event, pc, at, seen, peek, payload, result, call, switch, early>>

Actors == Workers \cup Callers
Processes == Servers \cup {Host}

\* is_pid_alive
PidAlive(p) == p \in Processes /\ up[p]

Created == [state |-> "CREATED", version |-> 1, verification |-> "none", pid |-> None]

\* run_start has just inserted the row and is about to spawn its worker.
Init ==
  /\ \E p \in Servers :
       /\ row = [Created EXCEPT !.pid = IF InProcess THEN p ELSE None]
       /\ at = [a \in Actors |-> IF a = Launcher THEN p ELSE None]
  /\ up = [p \in Processes |-> p # Host]
  /\ active = [p \in Processes |-> None]
  /\ event = [w \in Workers |-> FALSE]
  /\ pc = [a \in Actors |-> IF a = Launcher THEN "s_spawn"
                            ELSE IF a \in Workers THEN "unborn" ELSE "idle"]
  /\ seen = [a \in Actors |-> IF a = Launcher THEN row ELSE Created]
  /\ peek = [a \in Actors |-> Created]
  /\ payload = [a \in Actors |-> "none"]
  /\ result = [w \in Workers |-> None]
  /\ call = [c \in Callers |-> IF c = Launcher THEN "start" ELSE "none"]
  /\ switch = [c \in Callers |-> FALSE]
  /\ early = [w \in Workers |-> FALSE]

-----------------------------------------------------------------------------
(* Shared steps.                                                             *)

\* Actor a stands at the label.
Here(a, label) == pc[a] = label

\* Actor a continues at the label; a call that returned leaves nothing behind.
Goto(a, label) ==
  /\ pc' = [pc EXCEPT ![a] = label]
  /\ IF label = "idle"
     THEN /\ at' = [at EXCEPT ![a] = None]
          /\ call' = [call EXCEPT ![a] = "none"]
          /\ switch' = [switch EXCEPT ![a] = FALSE]
     ELSE UNCHANGED <<at, call, switch>>

\* The actor's record from now on, if it goes on.
Keep(a, label, record) ==
  seen' = [seen EXCEPT ![a] = IF label \in {"idle", "done"} THEN Created ELSE record]

\* What most steps leave alone.
Rest == <<up, active, event, peek, payload, result, early>>

\* A step that neither reads nor writes the row.
Jump(a, label, then) ==
  Here(a, label) /\ Keep(a, then, seen[a]) /\ Goto(a, then) /\ UNCHANGED <<row, Rest>>

\* store.get_run into the actor's record.
Read(a, label, then) ==
  Here(a, label) /\ Keep(a, then, row) /\ Goto(a, then) /\ UNCHANGED <<row, Rest>>

\* Mutant: the transition is judged on the caller's record, unversioned.
CanWriteOnRecord(known, to, given) ==
  CanTransition(known.state, to, Effective(given, known.verification))

\* What transition_run(expected_version = known.version, ...) may do to the row.
CanWrite(known, to, given) ==
  /\ known.version = row.version
  /\ CanTransition(row.state, to, Effective(given, row.verification))

Written(to, given, pid) ==
  [state |-> to, version |-> row.version + 1,
   verification |-> Effective(given, row.verification), pid |-> pid]

\* transition_run on the actor's record, continuing at `then`; or its
\* InvalidStateTransition or ConcurrentModification, continuing at `else`.
WriteAs(pid, a, label, to, given, then, else) ==
  /\ Here(a, label)
  /\ \/ /\ CanWrite(seen[a], to, given)
        /\ row' = Written(to, given, pid)
        /\ Keep(a, then, Written(to, given, pid))
        /\ Goto(a, then)
     \/ /\ ~ CanWrite(seen[a], to, given)
        /\ Keep(a, else, seen[a])
        /\ Goto(a, else)
        /\ UNCHANGED row
  /\ UNCHANGED Rest

\* A transition that names no pid writes back the one its SELECT saw, which an
\* unversioned update may have replaced since the record was read.
SelectedPids(known) == {known.pid, row.pid}

Write(a, label, to, given, then, else) ==
  \E pid \in SelectedPids(seen[a]) : WriteAs(pid, a, label, to, given, then, else)

\* Where an operation that callers and hosts perform ends.
Finished(a) == IF a \in Workers THEN "done" ELSE "idle"

\* A worker is handling its result: harvest is called by it.
Handling(a) == a \in Workers /\ result[a] # None

-----------------------------------------------------------------------------
(* run_start after insert_run, and the worker host.                          *)

\* _spawn_worker: a caller registers an execution in its own process ...
SpawnHere(c, label) ==
  /\ Here(c, label)
  /\ \E w \in Workers :
       /\ pc[w] = "unborn"
       /\ active' = [active EXCEPT ![at[c]] = w]
       /\ pc' = [pc EXCEPT ![w] = "born", ![c] = "p_start"]
       /\ at' = [at EXCEPT ![w] = at[c]]
       /\ seen' = [seen EXCEPT ![w] = seen[c]]
  /\ UNCHANGED <<row, up, event, peek, payload, result, call, switch, early>>

\* ... and returns once the execution's thread has started.
StartThread(c) ==
  /\ Here(c, "p_start")
  /\ \E w \in Workers :
       /\ pc[w] = "born" /\ at[w] = at[c]
       /\ pc' = [pc EXCEPT ![w] = "w_check1", ![c] = "idle"]
  /\ seen' = [seen EXCEPT ![c] = Created]
  /\ at' = [at EXCEPT ![c] = None]
  /\ call' = [call EXCEPT ![c] = "none"]
  /\ switch' = [switch EXCEPT ![c] = FALSE]
  /\ UNCHANGED <<row, up, active, event, peek, payload, result, early>>

SpawnInProcess(c) == InProcess /\ SpawnHere(c, "s_spawn")

\* _spawn_external_worker: the host process starts, its reservation still open ...
SpawnHost(c) ==
  /\ Here(c, "s_spawn")
  /\ ~ InProcess
  /\ \E w \in Workers :
       /\ pc[w] = "unborn"
       /\ pc' = [pc EXCEPT ![w] = "h_wait", ![c] = "s_reserve"]
       /\ at' = [at EXCEPT ![w] = Host]
  /\ up' = [up EXCEPT ![Host] = TRUE]
  /\ UNCHANGED <<row, active, event, seen, peek, payload, result, call, switch, early>>

\* ... update_worker_identity makes the host's pid claimable ...
Reserve(c) ==
  /\ Here(c, "s_reserve")
  /\ pc' = [a \in Actors |-> IF a = c THEN "s_pid"
                             ELSE IF pc[a] = "h_wait" THEN "h_claim" ELSE pc[a]]
  /\ UNCHANGED <<row, up, active, event, at, seen, peek, payload, result, call, switch, early>>

\* ... and update_worker_pid stores it: unversioned, whatever happened meanwhile.
RecordPid(c) ==
  /\ Here(c, "s_pid")
  /\ row' = [row EXCEPT !.pid = Host]
  /\ Keep(c, "idle", seen[c])
  /\ Goto(c, "idle")
  /\ UNCHANGED Rest

\* The host could not be started, or one of the two updates failed.
SpawnFails(c) ==
  /\ ~ InProcess
  /\ \E label \in {"s_spawn", "s_reserve", "s_pid"} :
       Read(c, label, IF row.state \in TerminalStates THEN "idle" ELSE "s_fail")

\* Baseline preparation failed: the inserted record goes straight to FAILED.
BaselineFails(c) == Jump(c, "s_spawn", "s_fail")

StartFails(c) == Write(c, "s_fail", "FAILED", "none", "idle", "idle")

\* claim_worker_host: unversioned, whatever state the run is in by now.
HostClaims(w) ==
  /\ Here(w, "h_claim")
  /\ row' = [row EXCEPT !.pid = Host]
  /\ Goto(w, "h_spawn")
  /\ UNCHANGED <<seen, Rest>>

\* The reservation was not finalized in time: the host marks the run interrupted.
HostGivesUp(w) ==
  \E label \in {"h_wait", "h_claim"} :
    Read(w, label, IF row.state \in TerminalStates \cup OrphanStates THEN "done"
                   ELSE "x_probe")

\* The host reads the run and registers its one execution.
HostSpawns(w) ==
  /\ Here(w, "h_spawn")
  /\ active' = [active EXCEPT ![Host] = w]
  /\ seen' = [seen EXCEPT ![w] = row]
  /\ Goto(w, "born")
  /\ UNCHANGED <<row, up, event, peek, payload, result, early>>

HostStartsThread(w) == at[w] = Host /\ Jump(w, "born", "w_check1")

-----------------------------------------------------------------------------
(* _worker_runner, up to the callback's return.                              *)

Check1(w) == Jump(w, "w_check1", IF event[w] THEN "w_cancelled" ELSE "w_queue")
CancelledFirst(w) == Write(w, "w_cancelled", "CANCELLED", "none", "w_finally", "w_except")
Queue(w) == Write(w, "w_queue", "QUEUED", "none", "w_check2", "w_except")
Check2(w) == Jump(w, "w_check2", IF event[w] THEN "w_cancelled" ELSE "w_run")

\* Mutants: the pid column keeps its value, or gets the thread's identity.
RunKeepsPid(w) == WriteAs(row.pid, w, "w_run", "RUNNING", "none", "w_exec", "w_except")
RunStoresThread(w) == WriteAs(w, w, "w_run", "RUNNING", "none", "w_exec", "w_except")

\* QUEUED -> RUNNING also makes this process the run's pid.
Run(w) == WriteAs(at[w], w, "w_run", "RUNNING", "none", "w_exec", "w_except")

\* The callback returns a result ...
CallbackReturns(w) ==
  /\ Here(w, "w_exec")
  /\ \E r \in Results : result' = [result EXCEPT ![w] = r]
  /\ Goto(w, "w_ret")
  /\ UNCHANGED <<row, up, active, event, seen, peek, payload, early>>

\* ... or raises, or the contract was mutated under it.
CallbackRaises(w) == Jump(w, "w_exec", "w_except")

-----------------------------------------------------------------------------
(* _worker_runner, from the callback's return.                               *)

\* Mutants: the cancel event is not looked at after the callback, or a worker
\* that was cancelled leaves the run as it is.
CheckNothing(w) == Jump(w, "w_ret", "w_read")
CancelReadOnly(w) == Read(w, "w_cancelRead", "w_finally")

CheckCancelled(w) == Jump(w, "w_ret", IF event[w] THEN "w_cancelRead" ELSE "w_read")
CancelRead(w) ==
  Read(w, "w_cancelRead", IF row.state \in TerminalStates THEN "w_finally" ELSE "w_cancelled")

\* Mutant: an interrupted run is not given up.
DroppingTerminal == TerminalStates

\* Where a result is dropped: the run ended or was interrupted meanwhile.
Dropping == TerminalStates \cup OrphanStates

\* The fresh read before the result is applied.
ReadBeforeResult(w) ==
  Read(w, "w_read",
       IF row.state \in Dropping THEN "w_finally"
       ELSE IF ~ result[w].success THEN
           IF result[w].reason = "INTERRUPTED" THEN "w_fail" ELSE "x_probe"
       ELSE IF result[w].candidate THEN "w_accept" ELSE "w_payload")

\* A success without a payload of its own counts as passed.
Default(w) == IF result[w].verification = "none" THEN "passed" ELSE result[w].verification

ChoosePayload(w) ==
  /\ Here(w, "w_payload")
  /\ payload' = [payload EXCEPT ![w] = Default(w)]
  /\ Goto(w, "w_verify")
  /\ UNCHANGED <<row, up, active, event, seen, peek, result, early>>

\* Mutant: the worker forgets to ask whether the candidate was accepted.
AcceptAnything(w) ==
  /\ Here(w, "w_accept")
  /\ \E scopePassed, verified \in BOOLEAN :
       LET accepted == EvaluateCandidate(result[w].reason, LowRisk, scopePassed, verified)
       IN payload' = [payload EXCEPT ![w] = IF accepted THEN "accepted" ELSE "rejected"]
  /\ Goto(w, "w_verify")
  /\ UNCHANGED <<row, up, active, event, seen, peek, result, early>>

\* _accept_candidate audits the worktree and runs the contract's own verification.
AcceptCandidate(w) ==
  /\ Here(w, "w_accept")
  /\ \E scopePassed, verified \in BOOLEAN :
       LET accepted == EvaluateCandidate(result[w].reason, LowRisk, scopePassed, verified)
       IN /\ payload' = [payload EXCEPT ![w] = IF accepted THEN "accepted" ELSE "rejected"]
          /\ Goto(w, IF accepted THEN "w_verify" ELSE "w_reject")
  /\ UNCHANGED <<row, up, active, event, seen, peek, result, early>>
AcceptRaises(w) == Jump(w, "w_accept", "w_except")

Reject(w) == Write(w, "w_reject", "VERIFYING", payload[w], "w_rejectFail", "w_except")
RejectFail(w) == Write(w, "w_rejectFail", "FAILED", payload[w], "w_finally", "w_except")

\* A commit sha or AutoCommitPolicy.ALWAYS takes the run through COMMITTING.
Verify(w) ==
  \E then \in {"w_commit", "w_complete"} :
    Write(w, "w_verify", "VERIFYING", payload[w], then, "w_except")
Commit(w) == Write(w, "w_commit", "COMMITTING", "none", "w_complete", "w_except")
Complete(w) == Write(w, "w_complete", "COMPLETE", payload[w], "w_finally", "w_except")

\* A failed result that was not harvested goes where the worker asked for.
Suspend(w) ==
  /\ Here(w, "w_fail")
  /\ result[w].target \in SuspendedStates
  /\ Write(w, "w_fail", result[w].target, "none", "w_finally", "w_except")
NeedRepair(w) ==
  /\ Here(w, "w_fail")
  /\ result[w].target = "REPAIRING"
  /\ Write(w, "w_fail", "VERIFYING", "failed", "w_repair", "w_except")
Fail(w) ==
  /\ Here(w, "w_fail")
  /\ result[w].target = "FAILED"
  /\ Write(w, "w_fail", "FAILED", result[w].verification, "w_finally", "w_except")
Repair(w) == Write(w, "w_repair", "REPAIRING", "none", "w_finally", "w_except")

Except(w) == Read(w, "w_except", IF row.state \in Dropping THEN "w_finally" ELSE "w_exceptFail")
ExceptFail(w) == Write(w, "w_exceptFail", "FAILED", "none", "w_finally", "w_finally")

\* finally: the registry entry of the run is popped, whosever it is by now.
Finally(w) ==
  /\ Here(w, "w_finally")
  /\ active' = [active EXCEPT ![at[w]] = None]
  /\ event' = [event EXCEPT ![w] = FALSE]
  /\ payload' = [payload EXCEPT ![w] = "none"]
  /\ result' = [result EXCEPT ![w] = None]
  /\ early' = [early EXCEPT ![w] = FALSE]
  /\ Keep(w, "done", seen[w])
  /\ Goto(w, "done")
  /\ UNCHANGED <<row, up, peek>>

-----------------------------------------------------------------------------
(* _harvest_existing_candidate, called with a failed worker result or by     *)
(* _mark_interrupted.                                                        *)

HarvestReason(a) == IF Handling(a) THEN result[a].reason ELSE "INTERRUPTED"

\* Mutant: a run that was never queued is interrupted like any other.
NotHarvestedAtOnce(a) == IF Handling(a) THEN "w_fail" ELSE "m_interrupt"

\* It returned False: the caller goes on with the record it had.
NotHarvested(a) ==
  IF Handling(a) THEN "w_fail"
  ELSE IF seen[a].state = "CREATED" THEN "m_queue" ELSE "m_interrupt"

\* It returned True: the run has been settled.
Harvested(a) == IF Handling(a) THEN "w_finally" ELSE Finished(a)

\* Mutant: the owner of the worktree is not looked up.
ForeignOwnerIgnored(a) == FALSE

\* A foreign process that still lives owns the worktree.
ForeignOwner(a) == seen[a].pid # at[a] /\ PidAlive(seen[a].pid)

\* The worktree holds no candidate, or must not be looked at.
HarvestNothing(a) == Jump(a, "x_probe", NotHarvested(a))
HarvestRaises(a) ==
  ~ ForeignOwner(a) /\ Jump(a, "x_probe", IF Handling(a) THEN "w_except" ELSE Finished(a))

\* A candidate is found, judged by _accept_candidate and attributed, or not.
HarvestJudges(a) ==
  /\ Here(a, "x_probe")
  /\ ~ ForeignOwner(a)
  /\ \E scopePassed, verified, attributed \in BOOLEAN :
       payload' = [payload EXCEPT ![a] =
         IF attributed /\ EvaluateCandidate(HarvestReason(a), LowRisk, scopePassed, verified)
         THEN "accepted" ELSE "rejected"]
  /\ Goto(a, "x_latest")
  /\ UNCHANGED <<row, up, active, event, seen, peek, result, early>>

\* The harvest is over; its own record and payload are gone.
HarvestEnds(a, then) ==
  /\ peek' = [peek EXCEPT ![a] = Created]
  /\ payload' = [payload EXCEPT ![a] = "none"]
  /\ Keep(a, then, seen[a])
  /\ Goto(a, then)

HarvestLatest(a) ==
  /\ Here(a, "x_latest")
  /\ IF row.state \in TerminalStates
     THEN HarvestEnds(a, Harvested(a))
     ELSE /\ peek' = [peek EXCEPT ![a] = row]
          /\ Goto(a, "x_verify")
          /\ UNCHANGED <<seen, payload>>
  /\ UNCHANGED <<row, up, active, event, result, early>>

\* Both transitions are written from `latest`, the caller's record stays behind.
HarvestVerify(a) ==
  /\ Here(a, "x_verify")
  /\ IF CanWrite(peek[a], "VERIFYING", payload[a])
     THEN /\ \E pid \in SelectedPids(peek[a]) :
               /\ row' = Written("VERIFYING", payload[a], pid)
               /\ peek' = [peek EXCEPT ![a] = Written("VERIFYING", payload[a], pid)]
          /\ Goto(a, "x_settle")
          /\ UNCHANGED <<seen, payload>>
     ELSE HarvestEnds(a, NotHarvested(a)) /\ UNCHANGED row
  /\ UNCHANGED <<up, active, event, result, early>>

\* Mutant: the verdict of the acceptance is not looked at.
HarvestOutcomeByReason(a) == IF HarvestReason(a) # "FAILED" THEN "COMPLETE" ELSE "FAILED"

HarvestOutcome(a) ==
  IF payload[a] = "accepted" /\ HarvestReason(a) # "FAILED" THEN "COMPLETE" ELSE "FAILED"

HarvestSettle(a) ==
  /\ Here(a, "x_settle")
  /\ IF CanWrite(peek[a], HarvestOutcome(a), payload[a])
     THEN /\ \E pid \in SelectedPids(peek[a]) :
               row' = Written(HarvestOutcome(a), payload[a], pid)
          /\ HarvestEnds(a, Harvested(a))
     ELSE HarvestEnds(a, NotHarvested(a)) /\ UNCHANGED row
  /\ UNCHANGED <<up, active, event, result, early>>

-----------------------------------------------------------------------------
(* _mark_interrupted, after its harvest found nothing.                       *)

MarkQueue(a) == Write(a, "m_queue", "QUEUED", "none", "m_interrupt", "m_reread")
MarkReread(a) == Read(a, "m_reread", "m_interrupt")
MarkInterrupt(a) == Write(a, "m_interrupt", "INTERRUPTED", "none", Finished(a), Finished(a))

-----------------------------------------------------------------------------
(* Operations of callers.                                                    *)

Begin(c, kind, p, label) ==
  /\ Here(c, "idle")
  /\ kind \in CallKinds
  /\ EarlyCalls \/ \A d \in Callers : call[d] # "start"
  /\ up[p]
  /\ call' = [call EXCEPT ![c] = kind]
  /\ at' = [at EXCEPT ![c] = p]
  /\ pc' = [pc EXCEPT ![c] = label]
  /\ UNCHANGED <<row, seen, switch, Rest>>

\* run_cancel
BeginCancel(c) == \E p \in Servers : Begin(c, "cancel", p, "c_signal")

\* It sets the cancel event of the execution this process knows of, if any.
Signal(c) ==
  LET w == active[at[c]]
  IN /\ Here(c, "c_signal")
     /\ IF w = None THEN UNCHANGED <<event, early>>
        ELSE /\ event' = [event EXCEPT ![w] = TRUE]
             /\ early' = [early EXCEPT ![w] = @ \/ result[w] = None]
     /\ Goto(c, "c_read")
     /\ UNCHANGED <<row, up, active, seen, peek, payload, result>>

CancelFirst(c) == Read(c, "c_read", IF row.state \in TerminalStates THEN "idle" ELSE "c_try")
CancelTry(c) == Write(c, "c_try", "CANCELLED", "none", "idle", "c_reread")
CancelReread(c) ==
  Read(c, "c_reread", IF row.state \in TerminalStates THEN "idle" ELSE "c_retry")
CancelRetry(c) == Write(c, "c_retry", "CANCELLED", "none", "idle", "idle")

\* run_observe
BeginObserve(c) == \E p \in Servers : Begin(c, "observe", p, "o_read")
ObserveRead(c) == Read(c, "o_read", IF row.state \in Dropping THEN "idle" ELSE "o_probe")

\* Mutant: a cancelled execution counts as gone.
ThreadUncancelled(p) == active[p] # None /\ ~ event[active[p]]

\* The execution registered in process p has a thread that is running.
ThreadAlive(p) == active[p] # None /\ pc[active[p]] \notin {"born", "done", "dead"}

\* Mutants: only one of the two liveness rules for every kind of worker.
OrphanedByRegistry(c) == ~ ThreadAlive(at[c])
OrphanedByPid(c) == seen[c].pid # None /\ ~ PidAlive(seen[c].pid)

\* Liveness: the registry for in-process runs, the pid for external ones.
Orphaned(c) ==
  IF InProcess THEN ~ ThreadAlive(at[c])
  ELSE seen[c].pid # None /\ ~ PidAlive(seen[c].pid)

\* The heartbeat of an external run is older than the threshold.
ObserveStale(c) == StaleBeats /\ ~ InProcess /\ Jump(c, "o_probe", "x_probe")
ObserveOrphan(c) == Here(c, "o_probe") /\ Orphaned(c) /\ Jump(c, "o_probe", "x_probe")
ObserveHealthy(c) == Here(c, "o_probe") /\ ~ Orphaned(c) /\ Jump(c, "o_probe", "idle")

-----------------------------------------------------------------------------
(* server.run_resume ("resume"), and RecoveryOrchestrator's resume_same_run   *)
(* called directly ("recover"), mark_interrupted_if_orphaned ("mark"),        *)
(* check_recovery_readiness ("ready") and handle_inconsistent_evidence        *)
(* ("corrupt").                                                              *)

\* _run_resume_lock: one run_resume at a time in a process.
BeginResume(c) ==
  \E p \in Resumers :
    /\ \A d \in Callers : ~ (at[d] = p /\ call[d] = "resume")
    /\ row.version < MaxVersion
    /\ Begin(c, "resume", p, "r_status")
BeginRecover(c) ==
  \E p \in Servers : row.version < MaxVersion /\ Begin(c, "recover", p, "r_read")
BeginMark(c) == \E p \in Servers : Begin(c, "mark", p, "k_diagnose")
BeginReady(c) == \E p \in Servers : Begin(c, "ready", p, "e_read")
BeginCorrupt(c) == \E p \in Servers : Begin(c, "corrupt", p, "f_read")

\* Mutant: run_resume takes a run in any state.
ResumeAnyStatus(c) == Jump(c, "r_status", "r_idle")

\* run_status, and no execution of this process: only these let a resume through.
ResumeStatus(c) ==
  Jump(c, "r_status", IF row.state = "ACCOUNT_SWITCH_REQUIRED" THEN "r_idle" ELSE "idle")
ResumeIdle(c) == Jump(c, "r_idle", IF active[at[c]] = None THEN "r_read" ELSE "idle")

\* resume_same_run's first read: a terminal run is refused, and so is an account
\* switch that a direct caller did not confirm.
ResumeRead(c) ==
  \/ row.state \notin TerminalStates /\ Jump(c, "r_read", "r_load")
  \/ /\ \/ row.state \in TerminalStates
        \/ call[c] = "recover" /\ row.state = "ACCOUNT_SWITCH_REQUIRED"
     /\ Jump(c, "r_read", "idle")

\* The read after the attempt counter was bumped decides how to stage the run.
ResumeLoad(c) ==
  Read(c, "r_load",
       IF row.state = "INTERRUPTED" THEN "r_ready"
       ELSE IF row.state \in {"RUNNING", "VERIFYING", "REPAIRING", "COMMITTING"}
       THEN "k_diagnose" ELSE "r_spawn")

ResumeReady(c) == Write(c, "r_ready", "RECOVERY_READY", "none", "r_spawn", "idle")

\* mark_interrupted_if_orphaned asks diagnose_run first.  The report says whether
\* the run is healthy, and nobody looks.  A stored error text that names quota
\* exhaustion counts as a required switch; a resume has cleared it.
Diagnose(c) ==
  /\ Here(c, "k_diagnose")
  /\ \E quotaText \in BOOLEAN :
       /\ quotaText => call[c] = "mark" /\ row.state \in SuspendedStates \cup {"REPAIRING"}
       /\ switch' = [switch EXCEPT ![c] =
                       quotaText \/ row.state = "ACCOUNT_SWITCH_REQUIRED"]
  /\ pc' = [pc EXCEPT ![c] = "k_read"]
  /\ UNCHANGED <<row, at, seen, call, Rest>>

\* Where the operation goes on with a run that was not marked INTERRUPTED.  A
\* direct caller that did not confirm an account switch is refused one.
Unmarked(c) == IF call[c] = "mark" THEN "idle" ELSE "r_spawn"
Switched(c) == IF call[c] = "recover" THEN {"idle", "r_spawn"} ELSE {Unmarked(c)}

\* Its second read: what there is left to mark.
MarkNothing(c) ==
  row.state \in TerminalStates \cup {"RECOVERY_READY"} /\ Jump(c, "k_read", Unmarked(c))
MarkAlready(c) ==
  /\ row.state = "INTERRUPTED"
  /\ Read(c, "k_read", IF call[c] = "mark" THEN "idle" ELSE "r_ready")
MarkSwitched(c) ==
  /\ row.state = "ACCOUNT_SWITCH_REQUIRED" /\ switch[c]
  /\ \E then \in Switched(c) : Read(c, "k_read", then)
MarkRead(c) ==
  /\ row.state \notin Dropping
  /\ ~ (row.state = "ACCOUNT_SWITCH_REQUIRED" /\ switch[c])
  /\ Read(c, "k_read", IF switch[c] THEN "k_switch"
                       ELSE IF row.state = "CREATED" THEN "k_queue" ELSE "k_interrupt")

\* A switch diagnosed before the run moved on: the transition is attempted.
MarkSwitch(c) ==
  \E then \in Switched(c) :
    Write(c, "k_switch", "ACCOUNT_SWITCH_REQUIRED", "none", then, "idle")
MarkQueued(c) == Write(c, "k_queue", "QUEUED", "none", "k_interrupt", "idle")
MarkInterrupted(c) ==
  Write(c, "k_interrupt", "INTERRUPTED", "none",
        IF call[c] = "mark" THEN "idle" ELSE "r_ready", "idle")

\* _spawn_worker on the resumed record, in this server ...
ResumeSpawn(c) == SpawnHere(c, "r_spawn")

\* ... or, without a worker, only back into the queue.
Requeued == SuspendedStates \cup {"RECOVERY_READY"}
ResumeQueue(c) ==
  /\ call[c] = "recover" /\ seen[c].state \in Requeued
  /\ Write(c, "r_spawn", "QUEUED", "none", "idle", "idle")
ResumeNothing(c) ==
  call[c] = "recover" /\ seen[c].state \notin Requeued /\ Jump(c, "r_spawn", "idle")

\* check_recovery_readiness
ReadyRead(c) == Read(c, "e_read", IF row.state = "INTERRUPTED" THEN "e_ready" ELSE "idle")
ReadyWrite(c) == Write(c, "e_ready", "RECOVERY_READY", "none", "idle", "idle")

\* handle_inconsistent_evidence; every state that is not terminal may fail, so
\* its BLOCKED fallback is never needed.
CorruptRead(c) == Read(c, "f_read", IF row.state \in TerminalStates THEN "idle" ELSE "f_fail")
CorruptFail(c) == Write(c, "f_fail", "FAILED", "none", "idle", "idle")

-----------------------------------------------------------------------------
\* worker_host.main returns once its worker thread has ended.
HostExits(w) ==
  /\ pc[w] = "done" /\ at[w] = Host /\ up[Host]
  /\ up' = [up EXCEPT ![Host] = FALSE]
  /\ UNCHANGED <<row, active, event, pc, at, seen, peek, payload, result, call, switch, early>>

\* A process dies: its threads stop where they are, its registry is gone.
Crash(p) ==
  LET lost == {a \in Actors : at[a] = p /\ pc[a] # "done"}
      Reset(f, initial) == [a \in DOMAIN f |-> IF a \in lost THEN initial ELSE f[a]]
  IN /\ up[p]
     /\ p \in Crashing
     /\ up' = [up EXCEPT ![p] = FALSE]
     /\ active' = [active EXCEPT ![p] = None]
     /\ event' = Reset(event, FALSE)
     /\ pc' = [a \in Actors |-> IF a \notin lost THEN pc[a]
                                ELSE IF a \in Workers THEN "dead" ELSE "idle"]
     /\ at' = Reset(at, None)
     /\ seen' = Reset(seen, Created)
     /\ peek' = Reset(peek, Created)
     /\ payload' = Reset(payload, "none")
     /\ result' = Reset(result, None)
     /\ call' = Reset(call, "none")
     /\ switch' = Reset(switch, FALSE)
     /\ early' = Reset(early, FALSE)
     /\ UNCHANGED row

HostStep(w) ==
  HostClaims(w) \/ HostGivesUp(w) \/ HostSpawns(w) \/ HostStartsThread(w) \/ HostExits(w)

WorkerStep(w) ==
  \/ Check1(w) \/ CancelledFirst(w) \/ Queue(w) \/ Check2(w) \/ Run(w)
  \/ CheckCancelled(w) \/ CancelRead(w) \/ ReadBeforeResult(w) \/ ChoosePayload(w)
  \/ AcceptCandidate(w) \/ AcceptRaises(w) \/ Reject(w) \/ RejectFail(w)
  \/ Verify(w) \/ Commit(w) \/ Complete(w)
  \/ Suspend(w) \/ NeedRepair(w) \/ Repair(w) \/ Fail(w)
  \/ Except(w) \/ ExceptFail(w) \/ Finally(w)
CallbackStep(w) == CallbackReturns(w) \/ CallbackRaises(w)

HarvestStep(a) ==
  \/ HarvestNothing(a) \/ HarvestRaises(a) \/ HarvestJudges(a)
  \/ HarvestLatest(a) \/ HarvestVerify(a) \/ HarvestSettle(a)
MarkStep(a) == MarkQueue(a) \/ MarkReread(a) \/ MarkInterrupt(a)

StartStep(c) ==
  \/ SpawnInProcess(c) \/ StartThread(c) \/ SpawnHost(c) \/ Reserve(c) \/ RecordPid(c)
  \/ SpawnFails(c) \/ BaselineFails(c) \/ StartFails(c)
CancelStep(c) ==
  Signal(c) \/ CancelFirst(c) \/ CancelTry(c) \/ CancelReread(c) \/ CancelRetry(c)
ObserveStep(c) ==
  ObserveRead(c) \/ ObserveStale(c) \/ ObserveOrphan(c) \/ ObserveHealthy(c)
ResumeStep(c) ==
  \/ ResumeStatus(c) \/ ResumeIdle(c) \/ ResumeRead(c) \/ ResumeLoad(c) \/ ResumeReady(c)
  \/ ResumeSpawn(c) \/ ResumeQueue(c) \/ ResumeNothing(c)
RecoveryStep(c) ==
  \/ Diagnose(c) \/ MarkNothing(c) \/ MarkAlready(c) \/ MarkSwitched(c) \/ MarkRead(c)
  \/ MarkSwitch(c) \/ MarkQueued(c) \/ MarkInterrupted(c)
  \/ ReadyRead(c) \/ ReadyWrite(c) \/ CorruptRead(c) \/ CorruptFail(c)
BeginStep(c) ==
  \/ BeginCancel(c) \/ BeginObserve(c) \/ BeginResume(c) \/ BeginRecover(c)
  \/ BeginMark(c) \/ BeginReady(c) \/ BeginCorrupt(c)

CallStep(c) == StartStep(c) \/ CancelStep(c) \/ ObserveStep(c) \/ ResumeStep(c) \/ RecoveryStep(c)

Next ==
  \/ \E w \in Workers : HostStep(w) \/ WorkerStep(w) \/ CallbackStep(w)
  \/ \E c \in Callers : BeginStep(c) \/ CallStep(c)
  \/ \E a \in Actors : HarvestStep(a) \/ MarkStep(a)
  \/ \E p \in Processes : Crash(p)

Spec == Init /\ [][Next]_vars

-----------------------------------------------------------------------------
(* Fairness.  Threads of live processes run; AGY is bounded by its hard       *)
(* timeout, so a callback returns or raises; the host's and the server's      *)
(* calls finish.  Callers poll run_observe, as the documented status loop     *)
(* does, a heartbeat that no worker renews gets old, and an audit of the      *)
(* worktree does not raise for ever.                                          *)

Live(w) == pc[w] \notin {"unborn", "done", "dead"}
NoWorker == \A w \in Workers : ~ Live(w)

Fairness ==
  /\ \A w \in Workers :
       /\ WF_vars(HostStep(w) \/ WorkerStep(w))
       /\ WF_vars(CallbackStep(w))
       /\ WF_vars(HarvestStep(w) \/ MarkStep(w))
  /\ \A c \in Callers : WF_vars(CallStep(c) \/ HarvestStep(c) \/ MarkStep(c))

Polling ==
  /\ SF_vars(\E c \in Callers : BeginObserve(c))
  /\ SF_vars(NoWorker /\ \E c \in Callers : ObserveStale(c) \/ ObserveOrphan(c))
  /\ SF_vars(\E c \in Callers : HarvestNothing(c) \/ HarvestJudges(c))

LiveSpec == Spec /\ Fairness /\ Polling

-----------------------------------------------------------------------------
(* Properties.                                                               *)

Labels ==
  {"unborn", "dead", "idle", "done", "born", "h_wait", "h_claim", "h_spawn",
   "s_spawn", "s_reserve", "s_pid", "s_fail", "p_start",
   "w_check1", "w_cancelled", "w_queue", "w_check2", "w_run", "w_exec", "w_ret",
   "w_cancelRead", "w_read", "w_payload", "w_accept", "w_reject", "w_rejectFail",
   "w_verify", "w_commit", "w_complete", "w_fail", "w_repair", "w_except",
   "w_exceptFail", "w_finally",
   "x_probe", "x_latest", "x_verify", "x_settle", "m_queue", "m_reread", "m_interrupt",
   "c_signal", "c_read", "c_try", "c_reread", "c_retry", "o_read", "o_probe",
   "r_status", "r_idle", "r_read", "r_load", "r_ready", "r_spawn",
   "k_diagnose", "k_read", "k_switch", "k_queue", "k_interrupt",
   "e_read", "e_ready", "f_read", "f_fail"}

Calls == {"none", "start", "cancel", "observe", "resume", "recover", "mark", "ready", "corrupt"}

Rows == [state : RunStates, version : Nat \ {0}, verification : Verifications,
         pid : Processes \cup {None}]

\* Every variable has its type.
TypeOK ==
  /\ row \in Rows
  /\ up \in [Processes -> BOOLEAN]
  /\ active \in [Processes -> Workers \cup {None}]
  /\ event \in [Workers -> BOOLEAN]
  /\ pc \in [Actors -> Labels]
  /\ at \in [Actors -> Processes \cup {None}]
  /\ seen \in [Actors -> Rows]
  /\ peek \in [Actors -> Rows]
  /\ payload \in [Actors -> Verifications]
  /\ result \in [Workers -> Results \cup {None}]
  /\ call \in [Callers -> Calls]
  /\ switch \in [Callers -> BOOLEAN]
  /\ early \in [Workers -> BOOLEAN]

Lifecycle == INSTANCE RunLifecycle WITH
  run <- [state |-> row.state, version |-> row.version, verification |-> row.verification]

\* Whoever writes the row, from however stale a record, the row only moves along
\* the contract's graph, one version at a time, and ends for good.
ImplementsLifecycle == Lifecycle!Spec

\* A COMPLETE run carries evidence somebody judged to be good: the worker's own
\* passed verification or an acceptance, never a rejected or missing one, although
\* the guard of transition_to cannot tell a rejected acceptance payload.
CompleteIsVerified == row.state = "COMPLETE" => row.verification \in GoodVerifications

Executing(w) == pc[w] = "w_exec"

\* A run becomes COMPLETE only once nobody is executing its task any more: the
\* accepted worktree is not being changed (the pid check of
\* _harvest_existing_candidate and the order of _worker_runner).
CompleteIsQuiet == row.state = "COMPLETE" => \A w \in Workers : ~ Executing(w)

\* The same when heartbeats look old although their process lives, for calls that
\* begin once run_start has returned and as long as no server has died: otherwise
\* an observer that read the row before the host claimed it asks about the pid of
\* the launching server.
QuietWhileServersLive == (\A s \in Servers : up[s]) => CompleteIsQuiet

\* A result of an execution that was cancelled before its callback returned is
\* never applied, whatever the callback says (the check after worker(ctx)).
CancelledNeverApplies ==
  \A w \in Workers : early[w] =>
    pc[w] \notin {"w_read", "w_payload", "w_accept", "w_reject", "w_rejectFail", "w_verify",
                  "w_commit", "w_complete", "w_fail", "w_repair",
                  "x_probe", "x_latest", "x_verify", "x_settle"}

\* Nobody but a cancellation, a recovery or the failing run_start itself moves an
\* interrupted run: the late results, late observations and late failures of the
\* execution that was given up are all dropped.
InterruptedIsKept ==
  [][row.state = "INTERRUPTED" /\ row'.state \notin {"INTERRUPTED", "CANCELLED", "RECOVERY_READY"}
       => \E c \in Callers : pc[c] \in {"s_fail", "f_fail"} /\ pc'[c] = "idle"]_vars

\* Two executions never run the task at the same time in the one worktree.
OneExecution == \A v, w \in Workers : Executing(v) /\ Executing(w) => v = w

\* While an execution is running the run, the row names the process it runs in, so
\* that observers and harvests ask about the right one.
RunningPidIsExecutor ==
  \A w \in Workers : Executing(w) /\ row.state = "RUNNING" => row.pid = at[w]

\* A run that is being executed is not taken for an orphan.
ExecutingIsNotInterrupted ==
  row.state \in OrphanStates => \A w \in Workers : ~ Executing(w)

\* An execution that dies of an exception fails the run only if nobody else is
\* running it.
ExceptionFailsOwnRun ==
  [][\A v, w \in Workers :
       pc[v] = "w_exceptFail" /\ pc'[v] = "w_finally" /\ v # w /\ Executing(w)
         => row'.state = row.state]_vars

\* Quota exhaustion suspends the run, its progress kept: what the exhausted
\* execution left in the worktree is not judged as a candidate and rejected.
QuotaKeepsRun ==
  \A w \in Workers :
    pc[w] = "w_finally" /\ result[w] # None /\ result[w].target = "ACCOUNT_SWITCH_REQUIRED"
      => row.verification # "rejected"

\* A cancellation that reaches an execution before its callback returned ends the
\* run, although run_cancel itself may lose both of its writes to other actors.
CancelTakesEffect == \A w \in Workers : early[w] ~> row.state \in TerminalStates

ActiveStates == {"CREATED", "QUEUED", "RUNNING", "VERIFYING", "REPAIRING", "COMMITTING"}

\* No run stays active for good: its execution settles it, or it is found orphaned
\* by a polling observer and harvested or interrupted.
RunSettles == <>[](row.state \notin ActiveStates)

\* An observer neither interrupts a run that is being executed nor completes one
\* (run_observe's liveness rules and its harvest).
ObserversAreRight == ExecutingIsNotInterrupted /\ CompleteIsQuiet

\* Runs come to rest, and a cancelled execution does so in a terminal state.
ExecutionsSettle == RunSettles /\ CancelTakesEffect
=============================================================================
