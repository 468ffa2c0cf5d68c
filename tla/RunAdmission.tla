---------------------------- MODULE RunAdmission ----------------------------
(***************************************************************************)
(* DurableRunManager.run_start up to the insertion of the runs row and the  *)
(* spawn of its worker: the look-up of the idempotency key, the look-up of  *)
(* an active run of the same task, the INSERT and what follows it are four  *)
(* transactions of their own, with nothing that spans them, so calls of     *)
(* several threads and servers on one database interleave between them.     *)
(* What the run does once it is admitted is RunControl's matter: here it is *)
(* "active", at rest without a worker, or over.                             *)
(***************************************************************************)
EXTENDS Naturals, FiniteSets

CONSTANTS
  Starters,  \* whoever calls run_start: threads of the servers
  Tasks,     \* the task_ids of the contracts
  Keys,      \* idempotency keys
  RunIds,    \* run ids, chosen by the caller or generated
  None       \* Python's None: no key, no row, no answer

VARIABLES
  runs,  \* the runs table, by run_id
  call   \* the run_start call each starter is in

admissionVars == <<runs, call>>

OverStates == {"COMPLETE", "FAILED", "CANCELLED"}
\* STOPPED: interrupted, ready for recovery or suspended, without a worker.
AdmittedStates == OverStates \cup {"active", "STOPPED"}

Runs == [task : Tasks, key : Keys \cup {None}, state : AdmittedStates, accepted : BOOLEAN]
ASSUME AdmissionAssumption == None \notin Keys \cup RunIds \cup Tasks /\ None \notin Runs

Stages == {"idle", "keyed", "checked", "inserting", "spawning", "answered", "refused"}
CallRecords == [stage : Stages, task : Tasks \cup {None}, key : Keys \cup {None},
          id : RunIds \cup {None}, before : SUBSET RunIds]

NoCall == [stage |-> "idle", task |-> None, key |-> None, id |-> None, before |-> {}]

AdmissionInit ==
  /\ runs = [i \in RunIds |-> None]
  /\ call = [c \in Starters |-> NoCall]

Present == {i \in RunIds : runs[i] # None}
Named(k) == {i \in Present : runs[i].key = k}
ActiveOf(t) == {i \in Present : runs[i].task = t /\ runs[i].state \notin OverStates}

\* The call of c goes on at the stage.
Advance(c, stage) == call' = [call EXCEPT ![c].stage = stage]

\* run_start(contract, idempotency_key = k, run_id = i) enters; the contract is
\* validated and frozen.  History: the runs that bear the key by now.
RunStart(c, t, k, i) ==
  /\ call[c].stage = "idle"
  /\ call' = [call EXCEPT ![c] = [stage |-> "keyed", task |-> t, key |-> k, id |-> i,
                                 before |-> IF k = None THEN {} ELSE Named(k)]]
  /\ UNCHANGED runs

\* A credential in the contract, the key or the identity.
RefuseCredentials(c) ==
  call[c].stage = "keyed" /\ Advance(c, "refused") /\ UNCHANGED runs

\* Mutant: a key protects a run only while the run is active.
KnownActive(c) == {i \in Named(call[c].key) : runs[i].state \notin OverStates}

Known(c) == IF call[c].key = None THEN {} ELSE Named(call[c].key)

\* A run that already bears the idempotency key is the answer.
FindByKey(c) ==
  /\ call[c].stage = "keyed"
  /\ \/ \E i \in Known(c) : call' = [call EXCEPT ![c].stage = "answered", ![c].id = i]
     \/ Known(c) = {} /\ Advance(c, "checked")
  /\ UNCHANGED runs

\* get_active_run_by_task_id: DuplicateRunError, or go on.
CheckActive(c) ==
  /\ call[c].stage = "checked"
  /\ Advance(c, IF ActiveOf(call[c].task) # {} THEN "refused" ELSE "inserting")
  /\ UNCHANGED runs

\* The primary key is all the table enforces: the key column is only indexed.
Insertable(c) == runs[call[c].id] = None

\* insert_run: persist before spawn, or sqlite3.IntegrityError.
Insert(c) ==
  /\ call[c].stage = "inserting"
  /\ IF Insertable(c)
     THEN /\ runs' = [runs EXCEPT ![call[c].id] =
                        [task |-> call[c].task, key |-> call[c].key,
                         state |-> "active", accepted |-> FALSE]]
          /\ Advance(c, "spawning")
     ELSE Advance(c, "refused") /\ UNCHANGED runs

\* The worker is spawned and owns the run from here on.
Spawn(c) ==
  call[c].stage = "spawning" /\ Advance(c, "answered") /\ UNCHANGED runs

\* The baseline could not be captured, or the worker host not spawned: the row
\* goes to FAILED, unless it has become terminal in the meantime.
SpawnFails(c) ==
  /\ call[c].stage = "spawning"
  /\ runs' = IF runs[call[c].id].state \in OverStates THEN runs
             ELSE [runs EXCEPT ![call[c].id].state = "FAILED"]
  /\ Advance(c, "answered")

\* The caller has its answer or its exception.
Return(c) ==
  /\ call[c].stage \in {"answered", "refused"}
  /\ call' = [call EXCEPT ![c] = NoCall]
  /\ UNCHANGED runs

\* What one call does between entering and leaving.
Admit(c) == \/ RefuseCredentials(c) \/ FindByKey(c) \/ CheckActive(c) \/ Insert(c)
            \/ Spawn(c) \/ SpawnFails(c)

\* An admitted run comes to its end, or a stopped one is ended.
EndRun(i) ==
  /\ i \in Present /\ runs[i].state \notin OverStates
  /\ runs' = [runs EXCEPT ![i].state = "COMPLETE"]
  /\ UNCHANGED call

AdmissionNext ==
  \/ \E c \in Starters :
       \/ \E t \in Tasks, k \in Keys \cup {None}, i \in RunIds : RunStart(c, t, k, i)
       \/ Admit(c) \/ Return(c)
  \/ \E i \in RunIds : EndRun(i)

AdmissionSpec == AdmissionInit /\ [][AdmissionNext]_admissionVars

\* Every variable has its type.
AdmissionTypeOK ==
  /\ runs \in [RunIds -> Runs \cup {None}]
  /\ call \in [Starters -> CallRecords]

\* A retry with an idempotency key that bore a run when the retry began never
\* starts another one, whatever became of that run and however the retry
\* overlaps with other calls (run_start's key look-up comes before its insert).
RetryStartsNothing ==
  [][\A c \in Starters : call[c].before # {} =>
       ~(call[c].stage = "inserting" /\ call'[c].stage = "spawning")]_admissionVars

\* An idempotency key names one run, also when the calls that bear it overlap.
OneRunPerKey == \A k \in Keys : Cardinality(Named(k)) <= 1
=============================================================================
