------------------------------ MODULE RunStore ------------------------------
(***************************************************************************)
(* DurableRunStore, statement by statement, for one row of the runs table.  *)
(* Every connection runs in autocommit mode, so that each SQL statement is  *)
(* a step of its own; what holds the statements of one operation together   *)
(* is the RLock of the store object.  Every DurableRunManager has its own   *)
(* store object: two processes, and two requests of one server, share only  *)
(* the database.                                                            *)
(***************************************************************************)
EXTENDS RunContracts, Naturals, Sequences

CONSTANTS
  Stores,      \* DurableRunStore objects, each with its lock
  Clients,     \* threads that call them
  Pids,        \* the pids a host may claim the run with
  Payloads,    \* the verification results callers hand to transition_run
  None,        \* Python's None
  MaxVersion,  \* bound: no transition starts at this version
  MaxAttempt,  \* bound: the attempts counted
  MaxBeat      \* bound: the heartbeats written

ASSUME ConstantsAssumption ==
  /\ None \notin Clients \cup Pids
  /\ Payloads \subseteq Verifications
  /\ {MaxVersion, MaxAttempt, MaxBeat} \subseteq Nat

VARIABLES
  storeOf, \* the store each thread calls: its manager's, for good
  row,     \* the columns of the run
  events,  \* the state events of run_events, in the order of their event_id
  lock,    \* who holds each store's lock
  pc,      \* where each client stands in transition_run
  record   \* current_record of transition_run: the snapshot, transitioned

vars == <<storeOf, row, events, lock, pc, record>>

\* What insert_run has stored.  beat counts the heartbeats since.
Inserted == [state |-> "CREATED", version |-> 1, verification |-> "none",
             pid |-> None, attempt |-> 0, beat |-> 0, launch |-> "RESERVED"]

Init ==
  /\ storeOf \in [Clients -> Stores]
  /\ row = Inserted
  /\ events = <<>>
  /\ lock = [s \in Stores |-> None]
  /\ pc = [c \in Clients |-> "idle"]
  /\ record = [c \in Clients |-> Inserted]

Free(c) == pc[c] = "idle" /\ lock[storeOf[c]] = None

\* The operation is over; `with self._lock` ends.
Release(c) ==
  /\ lock' = [lock EXCEPT ![storeOf[c]] = None]
  /\ pc' = [pc EXCEPT ![c] = "idle"]
  /\ record' = [record EXCEPT ![c] = Inserted]

-----------------------------------------------------------------------------
(* transition_run                                                            *)

\* RunRecord.transition_to on the snapshot; an omitted pid keeps the snapshot's.
Transitioned(snapshot, to, given, pid) ==
  [snapshot EXCEPT !.state = to, !.version = @ + 1,
                   !.verification = Effective(given, @),
                   !.pid = IF pid = None THEN @ ELSE pid]

\* SELECT, with the version expected and a legal transition.  Any other version,
\* or an illegal transition, raises here and leaves everything as it is.
Select(c, to, given, pid) ==
  /\ Free(c)
  /\ row.version < MaxVersion
  /\ CanTransition(row.state, to, Effective(given, row.verification))
  /\ lock' = [lock EXCEPT ![storeOf[c]] = c]
  /\ record' = [record EXCEPT ![c] = Transitioned(row, to, given, pid)]
  /\ pc' = [pc EXCEPT ![c] = "update"]
  /\ UNCHANGED <<row, events>>

\* The columns UPDATE writes back from the record; the launch state is not one.
Stored(c) == [record[c] EXCEPT !.launch = row.launch]

\* Mutants: the lock is not held up to the event; the version is not compared.
UpdateReleasing(c) ==
  /\ pc[c] = "update"
  /\ row.version + 1 = record[c].version
  /\ row' = Stored(c)
  /\ lock' = [lock EXCEPT ![storeOf[c]] = None]
  /\ pc' = [pc EXCEPT ![c] = "event"]
  /\ UNCHANGED <<events, record>>
UpdateUnversioned(c) ==
  /\ pc[c] = "update"
  /\ row' = Stored(c)
  /\ pc' = [pc EXCEPT ![c] = "event"]
  /\ UNCHANGED <<events, lock, record>>

\* UPDATE ... WHERE state_version = expected_version.
Update(c) ==
  /\ pc[c] = "update"
  /\ row.version + 1 = record[c].version
  /\ row' = Stored(c)
  /\ pc' = [pc EXCEPT ![c] = "event"]
  /\ UNCHANGED <<events, lock, record>>

\* No row was updated: ConcurrentModificationError.
Conflict(c) ==
  /\ pc[c] = "update"
  /\ row.version + 1 # record[c].version
  /\ Release(c)
  /\ UNCHANGED <<row, events>>

\* INSERT INTO run_events, after the row was updated.
InsertEvent(c) ==
  /\ pc[c] = "event"
  /\ events' = Append(events, [state |-> record[c].state, version |-> record[c].version])
  /\ Release(c)
  /\ UNCHANGED row

\* A statement raises (the database stayed locked), or the process dies: an event
\* that was not inserted is missing for good, although the row has moved.
Interrupted(c) == pc[c] \in {"update", "event"} /\ Release(c) /\ UNCHANGED <<row, events>>

-----------------------------------------------------------------------------
(* The updates that know nothing of the version.                             *)

\* Mutant: the counter is written without the store's lock.
BumpUnlocked(c) ==
  /\ pc[c] = "idle"
  /\ row.attempt < MaxAttempt
  /\ row' = [row EXCEPT !.attempt = @ + 1]
  /\ UNCHANGED <<events, lock, pc, record>>

\* resume_same_run: SET attempt = attempt + 1.
BumpAttempt(c) ==
  /\ Free(c)
  /\ row.attempt < MaxAttempt
  /\ row' = [row EXCEPT !.attempt = @ + 1]
  /\ UNCHANGED <<events, lock, pc, record>>

\* update_heartbeat
UpdateHeartbeat(c) ==
  /\ Free(c)
  /\ row.beat < MaxBeat
  /\ row' = [row EXCEPT !.beat = @ + 1]
  /\ UNCHANGED <<events, lock, pc, record>>

\* update_worker_identity: the launcher opens its reservation.
OpenReservation(c) ==
  /\ Free(c)
  /\ row.launch = "RESERVED"
  /\ row' = [row EXCEPT !.launch = "SPAWNED"]
  /\ UNCHANGED <<events, lock, pc, record>>

\* Mutant: what is stored is not a pid.
UpdateWorkerThread(c, p) ==
  /\ Free(c)
  /\ row.launch # "RESERVED"
  /\ row' = [row EXCEPT !.pid = c]
  /\ UNCHANGED <<events, lock, pc, record>>

\* update_worker_pid: the launcher stores the pid of its host.
UpdateWorkerPid(c, p) ==
  /\ Free(c)
  /\ row.launch # "RESERVED"
  /\ row' = [row EXCEPT !.pid = p]
  /\ UNCHANGED <<events, lock, pc, record>>

\* claim_worker_host, one BEGIN IMMEDIATE transaction.
ClaimWorkerHost(c, p) ==
  /\ Free(c)
  /\ row.launch = "SPAWNED"
  /\ row' = [row EXCEPT !.launch = "ACTIVE", !.pid = p]
  /\ UNCHANGED <<events, lock, pc, record>>

-----------------------------------------------------------------------------
TransitionStep(c) ==
  \/ \E to \in RunStates, given \in Payloads, pid \in Pids \cup {None} :
       Select(c, to, given, pid)
  \/ Update(c) \/ Conflict(c) \/ InsertEvent(c) \/ Interrupted(c)

ColumnStep(c) ==
  \/ BumpAttempt(c) \/ UpdateHeartbeat(c) \/ OpenReservation(c)
  \/ \E p \in Pids : UpdateWorkerPid(c, p) \/ ClaimWorkerHost(c, p)

Next ==
  /\ \E c \in Clients : TransitionStep(c) \/ ColumnStep(c)
  /\ UNCHANGED storeOf

Spec == Init /\ [][Next]_vars

-----------------------------------------------------------------------------
(* Properties.                                                               *)

Rows == [state : RunStates, version : Nat \ {0}, verification : Verifications,
         pid : Pids \cup {None}, attempt : Nat, beat : Nat,
         launch : {"RESERVED", "SPAWNED", "ACTIVE"}]

\* Every variable has its type.
TypeOK ==
  /\ storeOf \in [Clients -> Stores]
  /\ row \in Rows
  /\ events \in Seq([state : RunStates, version : Nat \ {0}])
  /\ lock \in [Stores -> Clients \cup {None}]
  /\ pc \in [Clients -> {"idle", "update", "event"}]
  /\ record \in [Clients -> Rows]

Lifecycle == INSTANCE RunLifecycle WITH
  run <- [state |-> row.state, version |-> row.version, verification |-> row.verification]

\* However many stores write at once, the row moves along the contract's graph and
\* by one version at a time: a SELECT and the UPDATE it leads to act as one step on
\* state, version and verification, with no lock between the stores.
ImplementsLifecycle == Lifecycle!Spec

\* All the threads were given the same DurableRunStore object.
OneStore == \A c, d \in Clients : storeOf[c] = storeOf[d]

\* A step takes back no attempt, no heartbeat and no pid that was stored.
NothingTakenBack ==
  /\ row'.attempt >= row.attempt
  /\ row'.beat >= row.beat
  /\ row.pid # None => row'.pid # None

\* The lock of a store object guarantees, among the threads of that store, that what an
\* update without a version wrote, like the attempt that resume_same_run counts, is
\* never taken back by a transition that was selected before it ...
UpdatesSurviveInOneStore == [][OneStore => NothingTakenBack]_vars

\* ... and that a reader that follows run_events sees the states of the run in the
\* order in which the run went through them.
EventsInOrder ==
  OneStore => \A i, j \in DOMAIN events : i < j => events[i].version < events[j].version
=============================================================================
