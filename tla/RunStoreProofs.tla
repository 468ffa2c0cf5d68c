--------------------------- MODULE RunStoreProofs ---------------------------
(***************************************************************************)
(* The statement-level store implements the atomic record of RunLifecycle,  *)
(* for any number of stores and threads and without any lock between them.  *)
(* UPDATE is the step that counts: the version in its WHERE clause is what  *)
(* makes the record selected earlier a legal successor of the row.  Within  *)
(* one store the lock adds what the version does not see: the columns that  *)
(* are updated without one, and the order of the events.                    *)
(***************************************************************************)
EXTENDS RunStore, TLAPS

\* What is stored is always one of the payloads.
LEMMA EffectiveType ==
  ASSUME NEW given \in Verifications, NEW stored \in Verifications
  PROVE  Effective(given, stored) \in Verifications
BY DEF Effective

\* A transitioned snapshot is a row, one version on.
LEMMA TransitionedType ==
  ASSUME NEW snapshot \in Rows, NEW to \in RunStates, NEW given \in Verifications,
         NEW pid \in Pids \cup {None}
  PROVE  Transitioned(snapshot, to, given, pid) \in Rows
<1>1. Effective(given, snapshot.verification) \in Verifications
  BY EffectiveType DEF Rows
<1>2. snapshot.version + 1 \in Nat \ {0}
  BY DEF Rows
<1> QED
  BY <1>1, <1>2 DEF Transitioned, Rows

-----------------------------------------------------------------------------
\* Types.

LEMMA TypeOKInit == Init => TypeOK
BY DEF Init, Inserted, TypeOK, Rows, RunStates, Verifications

LEMMA ReleaseType ==
  ASSUME TypeOK, NEW c \in Clients, Release(c)
  PROVE  /\ lock' \in [Stores -> Clients \cup {None}]
         /\ pc' \in [Clients -> {"idle", "update", "event"}]
         /\ record' \in [Clients -> Rows]
<1>1. Inserted \in Rows
  BY DEF Inserted, Rows, RunStates, Verifications
<1> QED
  BY <1>1 DEF TypeOK, Release

LEMMA TransitionStepType ==
  ASSUME TypeOK, NEW c \in Clients, TransitionStep(c), UNCHANGED storeOf
  PROVE  TypeOK'
<1>1. ASSUME NEW to \in RunStates, NEW given \in Payloads, NEW pid \in Pids \cup {None},
             Select(c, to, given, pid)
      PROVE  TypeOK'
  <2>1. Transitioned(row, to, given, pid) \in Rows
    BY TransitionedType, ConstantsAssumption DEF TypeOK, ConstantsAssumption
  <2> QED
    BY <1>1, <2>1 DEF TypeOK, Select
<1>2. CASE Update(c)
  <2>1. Stored(c) \in Rows
    BY DEF Stored, TypeOK, Rows
  <2> QED
    BY <1>2, <2>1 DEF TypeOK, Update
<1>3. CASE Conflict(c)
  BY <1>3, ReleaseType DEF TypeOK, Conflict
<1>4. CASE InsertEvent(c)
  <2>1. [state |-> record[c].state, version |-> record[c].version]
          \in [state : RunStates, version : Nat \ {0}]
    BY DEF TypeOK, Rows
  <2>2. events' \in Seq([state : RunStates, version : Nat \ {0}])
    BY <1>4, <2>1 DEF TypeOK, InsertEvent
  <2> QED
    BY <1>4, <2>2, ReleaseType DEF TypeOK, InsertEvent
<1>5. CASE Interrupted(c)
  BY <1>5, ReleaseType DEF TypeOK, Interrupted
<1> QED
  BY <1>1, <1>2, <1>3, <1>4, <1>5 DEF TransitionStep

LEMMA ColumnStepType ==
  ASSUME TypeOK, NEW c \in Clients, ColumnStep(c), UNCHANGED storeOf
  PROVE  TypeOK'
<1>. /\ row \in Rows
     /\ row.attempt + 1 \in Nat
     /\ row.beat + 1 \in Nat
  BY DEF TypeOK, Rows
<1>1. CASE BumpAttempt(c)
  <2>1. [row EXCEPT !.attempt = row.attempt + 1] \in Rows
    BY DEF Rows
  <2> QED
    BY <1>1, <2>1 DEF BumpAttempt, TypeOK
<1>2. CASE UpdateHeartbeat(c)
  <2>1. [row EXCEPT !.beat = row.beat + 1] \in Rows
    BY DEF Rows
  <2> QED
    BY <1>2, <2>1 DEF UpdateHeartbeat, TypeOK
<1>3. CASE OpenReservation(c)
  BY <1>3 DEF OpenReservation, TypeOK, Rows
<1>4. ASSUME NEW p \in Pids, UpdateWorkerPid(c, p)
      PROVE  TypeOK'
  BY <1>4 DEF UpdateWorkerPid, TypeOK, Rows
<1>5. ASSUME NEW p \in Pids, ClaimWorkerHost(c, p)
      PROVE  TypeOK'
  BY <1>5 DEF ClaimWorkerHost, TypeOK, Rows
<1> QED
  BY <1>1, <1>2, <1>3, <1>4, <1>5 DEF ColumnStep

LEMMA TypeOKStep == TypeOK /\ [Next]_vars => TypeOK'
<1> SUFFICES ASSUME TypeOK, [Next]_vars PROVE TypeOK'
  OBVIOUS
<1>1. CASE Next
  BY <1>1, TransitionStepType, ColumnStepType DEF Next
<1>2. CASE UNCHANGED vars
  BY <1>2 DEF vars, TypeOK
<1> QED
  BY <1>1, <1>2

\* Every variable of the store has its type.
THEOREM TypeCorrect == Spec => []TypeOK
BY TypeOKInit, TypeOKStep, PTL DEF Spec

-----------------------------------------------------------------------------
\* The invariant behind the refinement: a record that is about to be written is at
\* most one version ahead of the row, and if it still is one ahead, it is a legal
\* successor of the row as it is now.
Successor(c) ==
  \E given \in Payloads :
    /\ CanTransition(row.state, record[c].state, Effective(given, row.verification))
    /\ record[c].verification = Effective(given, row.verification)

Pending ==
  \A c \in Clients : pc[c] = "update" =>
    /\ record[c].version <= row.version + 1
    /\ record[c].version = row.version + 1 => Successor(c)

\* The columns of the lifecycle.
Core == <<row.state, row.version, row.verification>>

LEMMA PendingInit == Init => Pending
BY DEF Init, Pending

\* Steps that leave the lifecycle columns alone, and start no update.
LEMMA PendingKept ==
  ASSUME Pending, UNCHANGED Core, NEW c \in Clients,
         pc' = pc \/ pc' = [pc EXCEPT ![c] = "idle"],
         \A d \in Clients : d # c => record'[d] = record[d],
         pc' = pc => record' = record,
         pc \in [Clients -> {"idle", "update", "event"}]
  PROVE  Pending'
<1> SUFFICES ASSUME NEW d \in Clients, pc'[d] = "update"
             PROVE  /\ record'[d].version <= row'.version + 1
                    /\ record'[d].version = row'.version + 1 => Successor(d)'
  BY DEF Pending
<1>1. pc[d] = "update" /\ record'[d] = record[d]
  OBVIOUS
<1>2. /\ record[d].version <= row.version + 1
      /\ record[d].version = row.version + 1 => Successor(d)
  BY <1>1 DEF Pending
<1>3. /\ row'.state = row.state
      /\ row'.version = row.version
      /\ row'.verification = row.verification
  BY DEF Core
<1>4. Successor(d) => Successor(d)'
  BY <1>1, <1>3 DEF Successor
<1> QED
  BY <1>1, <1>2, <1>3, <1>4

LEMMA SelectPending ==
  ASSUME TypeOK, Pending, NEW c \in Clients, NEW to \in RunStates, NEW given \in Payloads,
         NEW pid \in Pids \cup {None}, Select(c, to, given, pid)
  PROVE  Pending'
<1> SUFFICES ASSUME NEW d \in Clients, pc'[d] = "update"
             PROVE  /\ record'[d].version <= row'.version + 1
                    /\ record'[d].version = row'.version + 1 => Successor(d)'
  BY DEF Pending
<1>1. CASE d = c
  <2>1. record'[d] = Transitioned(row, to, given, pid) /\ row' = row
    BY <1>1 DEF Select, TypeOK
  <2>2. /\ record'[d].version = row.version + 1
        /\ record'[d].state = to
        /\ record'[d].verification = Effective(given, row.verification)
    BY <2>1 DEF Transitioned, TypeOK, Rows
  <2>3. CanTransition(row.state, to, Effective(given, row.verification))
    BY DEF Select
  <2>4. row.version \in Nat
    BY DEF TypeOK, Rows
  <2> QED
    BY <2>1, <2>2, <2>3, <2>4 DEF Successor
<1>2. CASE d # c
  <2>1. pc[d] = "update" /\ record'[d] = record[d] /\ row' = row
    BY <1>2 DEF Select, TypeOK
  <2> QED
    BY <2>1 DEF Pending, Successor
<1> QED
  BY <1>1, <1>2

\* After an UPDATE every other pending record is out of date.
LEMMA UpdatePending ==
  ASSUME TypeOK, Pending, NEW c \in Clients, Update(c)
  PROVE  Pending'
<1> SUFFICES ASSUME NEW d \in Clients, pc'[d] = "update"
             PROVE  /\ record'[d].version <= row'.version + 1
                    /\ record'[d].version # row'.version + 1
  BY DEF Pending
<1>1. d # c /\ pc[d] = "update" /\ record' = record
  BY DEF Update, TypeOK
<1>2. row'.version = row.version + 1
  BY DEF Update, Stored, TypeOK, Rows
<1>3. record[d].version <= row.version + 1
  BY <1>1 DEF Pending
<1>4. row.version \in Nat /\ record[d].version \in Nat
  BY DEF TypeOK, Rows
<1> QED
  BY <1>1, <1>2, <1>3, <1>4

\* An update without a version writes none of the lifecycle columns.
LEMMA ColumnStepCore ==
  ASSUME TypeOK, NEW c \in Clients, ColumnStep(c)
  PROVE  UNCHANGED <<Core, pc, record>>
BY DEF ColumnStep, BumpAttempt, UpdateHeartbeat, OpenReservation, UpdateWorkerPid,
       ClaimWorkerHost, Core, TypeOK, Rows

LEMMA PendingStep == TypeOK /\ Pending /\ [Next]_vars => Pending'
<1> SUFFICES ASSUME TypeOK, Pending, [Next]_vars PROVE Pending'
  OBVIOUS
<1>1. ASSUME NEW c \in Clients, TransitionStep(c)
      PROVE  Pending'
  <2>1. ASSUME NEW to \in RunStates, NEW given \in Payloads, NEW pid \in Pids \cup {None},
               Select(c, to, given, pid)
        PROVE  Pending'
    BY <2>1, SelectPending
  <2>2. CASE Update(c)
    BY <2>2, UpdatePending
  <2>3. CASE Conflict(c) \/ InsertEvent(c) \/ Interrupted(c)
    <3>1. row' = row /\ Release(c)
      BY <2>3 DEF Conflict, InsertEvent, Interrupted
    <3>2. pc' = [pc EXCEPT ![c] = "idle"] /\ pc'[c] = "idle" /\ pc[c] # "idle"
      BY <2>3, <3>1 DEF Release, Conflict, InsertEvent, Interrupted, TypeOK
    <3>3. \A d \in Clients : d # c => record'[d] = record[d]
      BY <3>1 DEF Release, TypeOK
    <3> QED
      BY <3>1, <3>2, <3>3, PendingKept DEF Core, TypeOK
  <2> QED
    BY <1>1, <2>1, <2>2, <2>3 DEF TransitionStep
<1>2. ASSUME NEW c \in Clients, ColumnStep(c)
      PROVE  Pending'
  BY <1>2, ColumnStepCore, PendingKept DEF TypeOK
<1>3. CASE UNCHANGED vars
  BY <1>3 DEF vars, Pending, Successor
<1> QED
  BY <1>1, <1>2, <1>3 DEF Next

\* A record that waits for its UPDATE stays a successor of the row of its version.
THEOREM PendingHolds == Spec => [](TypeOK /\ Pending)
BY TypeOKInit, TypeOKStep, PendingInit, PendingStep, PTL DEF Spec

-----------------------------------------------------------------------------
\* The refinement.

\* The lifecycle's contract is the store's contract.
LEMMA SameContract ==
  /\ Lifecycle!RunStates = RunStates
  /\ Lifecycle!Verifications = Verifications
  /\ \A given, stored : Lifecycle!Effective(given, stored) = Effective(given, stored)
  /\ \A from, to, effective :
       CanTransition(from, to, effective) => Lifecycle!CanTransition(from, to, effective)
<1>1. \A s : Lifecycle!AllowedTransitions(s) = AllowedTransitions(s)
  BY DEF Lifecycle!AllowedTransitions, AllowedTransitions
<1> QED
  BY <1>1 DEF Lifecycle!RunStates, RunStates, Lifecycle!Verifications, Verifications,
              Lifecycle!Effective, Effective, Lifecycle!CanTransition, CanTransition

LEMMA InitRefines == Init => Lifecycle!Init
BY DEF Init, Inserted, Lifecycle!Init, Lifecycle!InitialRun

LEMMA UpdateRefines ==
  ASSUME TypeOK, Pending, NEW c \in Clients, Update(c)
  PROVE  Lifecycle!Next
<1>1. pc[c] = "update" /\ record[c].version = row.version + 1 /\ row' = Stored(c)
  BY DEF Update
<1>2. PICK given \in Payloads :
        /\ CanTransition(row.state, record[c].state, Effective(given, row.verification))
        /\ record[c].verification = Effective(given, row.verification)
  BY <1>1 DEF Pending, Successor
<1>3. /\ row'.state = record[c].state
      /\ row'.version = row.version + 1
      /\ row'.verification = record[c].verification
  BY <1>1 DEF Stored, TypeOK, Rows
<1>4. record[c].state \in RunStates /\ given \in Verifications
  BY ConstantsAssumption DEF ConstantsAssumption, TypeOK, Rows
<1>5. Lifecycle!Transition(record[c].state, given)
  BY <1>2, <1>3, SameContract DEF Lifecycle!Transition
<1> QED
  BY <1>4, <1>5, SameContract DEF Lifecycle!Next

\* Every step of the store is a transition of the lifecycle or leaves it alone.
LEMMA StepRefines ==
  TypeOK /\ Pending /\ [Next]_vars
    => [Lifecycle!Next]_[state |-> row.state, version |-> row.version,
                         verification |-> row.verification]
<1> SUFFICES ASSUME TypeOK, Pending, [Next]_vars
             PROVE  Lifecycle!Next \/ UNCHANGED Core
  BY DEF Core
<1>1. ASSUME NEW c \in Clients, TransitionStep(c)
      PROVE  Lifecycle!Next \/ UNCHANGED Core
  <2>1. CASE Update(c)
    BY <2>1, UpdateRefines
  <2>2. CASE ~ Update(c)
    <3>1. row' = row
      BY <1>1, <2>2 DEF TransitionStep, Select, Conflict, InsertEvent, Interrupted
    <3> QED
      BY <3>1 DEF Core
  <2> QED
    BY <2>1, <2>2
<1>2. ASSUME NEW c \in Clients, ColumnStep(c)
      PROVE  UNCHANGED Core
  BY <1>2, ColumnStepCore
<1>3. CASE UNCHANGED vars
  BY <1>3 DEF vars, Core
<1> QED
  BY <1>1, <1>2, <1>3 DEF Next

\* DurableRunStore implements the versioned record of RunLifecycle.
THEOREM StoreImplementsLifecycle == Spec => ImplementsLifecycle
BY InitRefines, StepRefines, PendingHolds, PTL DEF Spec, ImplementsLifecycle, Lifecycle!Spec

-----------------------------------------------------------------------------
(* What the lock of one store adds.                                          *)

\* Whoever is inside transition_run holds the lock of the store it calls.
LockHeld == \A c \in Clients : pc[c] # "idle" => lock[storeOf[c]] = c

\* The record of the one client that is inside transition_run has missed nothing
\* that was written since its SELECT.
Fresh(c) ==
  /\ pc[c] = "update" =>
       /\ record[c].version = row.version + 1
       /\ record[c].attempt = row.attempt /\ record[c].beat = row.beat
       /\ row.pid # None => record[c].pid # None
  /\ pc[c] = "event" => record[c].version = row.version

\* Every event names a version the row has had, and none names the version whose
\* event is still to be inserted.
Followed ==
  \A i \in DOMAIN events :
    /\ events[i].version <= row.version
    /\ \A c \in Clients : pc[c] = "event" => events[i].version < row.version

Serial == /\ LockHeld
          /\ OneStore => (\A c \in Clients : Fresh(c)) /\ Followed /\ EventsInOrder

LEMMA SerialInit == Init => Serial
BY DEF Init, Serial, LockHeld, Fresh, Followed, EventsInOrder

\* Two clients inside transition_run of one store would both hold its lock.
LEMMA Alone ==
  ASSUME LockHeld, OneStore, NEW c \in Clients, NEW d \in Clients,
         pc[c] # "idle" \/ lock[storeOf[c]] = None, pc[d] # "idle"
  PROVE  pc[c] # "idle" /\ c = d
BY ConstantsAssumption DEF LockHeld, OneStore, ConstantsAssumption

\* The lock is taken at SELECT and given back with the way to idle.
LEMMA LockStep == TypeOK /\ LockHeld /\ [Next]_vars => LockHeld'
<1> SUFFICES ASSUME TypeOK, LockHeld, [Next]_vars PROVE LockHeld'
  OBVIOUS
<1> USE ConstantsAssumption DEF ConstantsAssumption
<1>1. ASSUME NEW c \in Clients, Release(c), UNCHANGED storeOf, pc[c] # "idle"
      PROVE  LockHeld'
  BY <1>1 DEF Release, LockHeld, TypeOK
<1>2. ASSUME NEW c \in Clients, TransitionStep(c), UNCHANGED storeOf PROVE LockHeld'
  <2>1. ASSUME NEW to \in RunStates, NEW given \in Payloads, NEW pid \in Pids \cup {None},
               Select(c, to, given, pid)
        PROVE  LockHeld'
    BY <1>2, <2>1 DEF Select, Free, LockHeld, TypeOK
  <2>2. CASE Update(c)
    BY <1>2, <2>2 DEF Update, LockHeld, TypeOK
  <2>3. CASE Conflict(c) \/ InsertEvent(c) \/ Interrupted(c)
    BY <1>1, <1>2, <2>3 DEF Conflict, InsertEvent, Interrupted
  <2> QED
    BY <1>2, <2>1, <2>2, <2>3 DEF TransitionStep
<1>3. ASSUME NEW c \in Clients, ColumnStep(c), UNCHANGED storeOf PROVE LockHeld'
  BY <1>3 DEF ColumnStep, BumpAttempt, UpdateHeartbeat, OpenReservation, UpdateWorkerPid,
              ClaimWorkerHost, LockHeld
<1>4. CASE UNCHANGED vars
  BY <1>4 DEF vars, LockHeld
<1> QED
  BY <1>2, <1>3, <1>4 DEF Next

\* A client at rest finds the lock free only if nobody is inside transition_run.
LEMMA ColumnStepSerial ==
  ASSUME TypeOK, Serial, OneStore, NEW c \in Clients, ColumnStep(c), UNCHANGED storeOf
  PROVE  (\A d \in Clients : Fresh(d))' /\ Followed' /\ EventsInOrder'
<1>1. \A d \in Clients : pc[d] = "idle"
  BY Alone DEF Serial, ColumnStep, BumpAttempt, UpdateHeartbeat, OpenReservation,
               UpdateWorkerPid, ClaimWorkerHost, Free
<1>2. UNCHANGED <<pc, events, storeOf>> /\ row'.version = row.version
  BY ColumnStepCore DEF ColumnStep, BumpAttempt, UpdateHeartbeat, OpenReservation,
                        UpdateWorkerPid, ClaimWorkerHost, Core, TypeOK, Rows
<1> QED
  BY <1>1, <1>2 DEF Fresh, Followed, EventsInOrder, Serial, OneStore


\* The versions in the events are numbers.
LEMMA EventVersions ==
  ASSUME TypeOK, NEW i \in DOMAIN events
  PROVE  events[i].version \in Nat /\ DOMAIN events = 1 .. Len(events) /\ Len(events) \in Nat
<1> DEFINE Event == [state : RunStates, version : Nat \ {0}]
<1>1. events \in Seq(Event)
  BY DEF TypeOK
<1>2. events[i] \in Event /\ DOMAIN events = 1 .. Len(events) /\ Len(events) \in Nat
  <2> HIDE DEF Event
  <2> QED
    BY <1>1
<1> QED
  BY <1>2

\* SELECT finds nobody else inside, and takes the row as it is.
LEMMA SelectSerial ==
  ASSUME TypeOK, Serial, OneStore, NEW c \in Clients, NEW to \in RunStates,
         NEW given \in Payloads, NEW pid \in Pids \cup {None}, Select(c, to, given, pid)
  PROVE  (\A d \in Clients : Fresh(d))' /\ Followed' /\ EventsInOrder'
<1>1. \A d \in Clients : pc[d] = "idle"
  BY Alone DEF Serial, Select, Free
<1>2. /\ UNCHANGED <<row, events>>
      /\ \A d \in Clients : pc'[d] = IF d = c THEN "update" ELSE "idle"
  BY <1>1 DEF Select, TypeOK
<1>3. record'[c] = Transitioned(row, to, given, pid)
  BY DEF Select, TypeOK
<1>4. /\ record'[c].version = row.version + 1
      /\ record'[c].attempt = row.attempt /\ record'[c].beat = row.beat
      /\ record'[c].pid = IF pid = None THEN row.pid ELSE pid
  BY <1>3 DEF Transitioned, TypeOK, Rows
<1>5. \A d \in Clients : Fresh(d)'
  BY <1>2, <1>4 DEF Fresh
<1>6. Followed' /\ EventsInOrder'
  BY <1>1, <1>2 DEF Serial, Followed, EventsInOrder
<1> QED
  BY <1>5, <1>6

\* UPDATE moves the row to the version of the record it writes.
LEMMA UpdateSerial ==
  ASSUME TypeOK, Serial, OneStore, NEW c \in Clients, Update(c)
  PROVE  (\A d \in Clients : Fresh(d))' /\ Followed' /\ EventsInOrder'
<1>1. \A d \in Clients : d # c => pc[d] = "idle"
  BY Alone DEF Serial, Update
<1>2. /\ UNCHANGED <<events, record>> /\ pc'[c] = "event"
      /\ \A d \in Clients : d # c => pc'[d] = "idle"
  BY <1>1 DEF Update, TypeOK
<1>3. row'.version = row.version + 1 /\ record[c].version = row.version + 1
  BY DEF Update, Stored, TypeOK, Rows
<1>4. \A d \in Clients : Fresh(d)'
  BY <1>2, <1>3 DEF Fresh
<1>5. \A i \in DOMAIN events : events[i].version \in Nat /\ events[i].version <= row.version
  BY EventVersions DEF Serial, Followed
<1>6. row.version \in Nat
  BY DEF TypeOK, Rows
<1>7. Followed'
  BY <1>2, <1>3, <1>5, <1>6 DEF Followed
<1>8. EventsInOrder'
  BY <1>2 DEF Serial, EventsInOrder
<1> QED
  BY <1>4, <1>7, <1>8

\* The event of the version that was just written comes after all the others.
LEMMA InsertEventSerial ==
  ASSUME TypeOK, Serial, OneStore, NEW c \in Clients, InsertEvent(c)
  PROVE  (\A d \in Clients : Fresh(d))' /\ Followed' /\ EventsInOrder'
<1>1. \A d \in Clients : d # c => pc[d] = "idle"
  BY Alone DEF Serial, InsertEvent
<1>2. /\ row' = row /\ \A d \in Clients : pc'[d] = "idle"
  BY <1>1 DEF InsertEvent, Release, TypeOK
<1> DEFINE new == [state |-> record[c].state, version |-> record[c].version]
<1>3. events' = Append(events, new) /\ new.version = row.version
  BY DEF InsertEvent, Serial, Fresh
<1>4. /\ Len(events) \in Nat /\ Len(events') = Len(events) + 1
      /\ DOMAIN events = 1 .. Len(events) /\ DOMAIN events' = 1 .. Len(events')
      /\ \A i \in 1 .. Len(events) : events'[i] = events[i]
      /\ events'[Len(events) + 1] = new
  <2>1. events \in Seq([state : RunStates, version : Nat \ {0}])
    BY DEF TypeOK
  <2>2. new \in [state : RunStates, version : Nat \ {0}]
    BY DEF TypeOK, Rows
  <2> HIDE DEF new
  <2> QED
    BY <1>3, <2>1, <2>2
<1> HIDE DEF new
<1>5. \A i \in 1 .. Len(events) : events[i].version < row.version
  BY <1>4 DEF Serial, Followed, InsertEvent
<1>6. \A i \in 1 .. Len(events') : events'[i].version <= row.version
  <2>1. \A i \in 1 .. Len(events) : events[i].version \in Nat
    BY <1>4, EventVersions
  <2>2. row.version \in Nat
    BY DEF TypeOK, Rows
  <2> QED
    BY <1>3, <1>4, <1>5, <2>1, <2>2
<1>7. Followed' /\ \A d \in Clients : Fresh(d)'
  BY <1>2, <1>4, <1>6 DEF Followed, Fresh
<1>8. EventsInOrder'
  <2> SUFFICES ASSUME NEW i \in 1 .. Len(events'), NEW j \in 1 .. Len(events'), i < j
               PROVE  events'[i].version < events'[j].version
    BY <1>4 DEF EventsInOrder
  <2>1. CASE j = Len(events) + 1
    BY <1>3, <1>4, <1>5, <2>1
  <2>2. CASE j # Len(events) + 1
    BY <1>4, <2>2 DEF Serial, EventsInOrder
  <2> QED
    BY <2>1, <2>2
<1> QED
  BY <1>7, <1>8

LEMMA SerialStep == TypeOK /\ Serial /\ [Next]_vars => Serial'
<1> SUFFICES ASSUME TypeOK, Serial, [Next]_vars PROVE Serial'
  OBVIOUS
<1>1. LockHeld'
  BY LockStep DEF Serial
<1>2. OneStore' => OneStore
  BY DEF Next, vars, OneStore
<1>3. ASSUME OneStore
      PROVE  (\A d \in Clients : Fresh(d))' /\ Followed' /\ EventsInOrder'
  <2>1. ASSUME NEW c \in Clients, TransitionStep(c)
        PROVE  (\A d \in Clients : Fresh(d))' /\ Followed' /\ EventsInOrder'
    <3>1. ASSUME NEW to \in RunStates, NEW given \in Payloads, NEW pid \in Pids \cup {None},
                 Select(c, to, given, pid)
          PROVE  (\A d \in Clients : Fresh(d))' /\ Followed' /\ EventsInOrder'
      BY <1>3, <3>1, SelectSerial
    <3>2. CASE Update(c)
      BY <1>3, <3>2, UpdateSerial
    <3>3. CASE InsertEvent(c)
      BY <1>3, <3>3, InsertEventSerial
    <3>4. CASE Conflict(c) \/ Interrupted(c)
      <4>1. UNCHANGED <<row, events>> /\ \A d \in Clients : pc'[d] = "idle"
        BY <1>3, <3>4, Alone DEF Conflict, Interrupted, Release, Serial, TypeOK
      <4> QED
        BY <1>3, <4>1 DEF Serial, Fresh, Followed, EventsInOrder
    <3> QED
      BY <2>1, <3>1, <3>2, <3>3, <3>4 DEF TransitionStep
  <2>2. ASSUME NEW c \in Clients, ColumnStep(c), UNCHANGED storeOf
        PROVE  (\A d \in Clients : Fresh(d))' /\ Followed' /\ EventsInOrder'
    BY <1>3, <2>2, ColumnStepSerial
  <2>3. CASE UNCHANGED vars
    BY <1>3, <2>3 DEF vars, Serial, Fresh, Followed, EventsInOrder, OneStore
  <2> QED
    BY <2>1, <2>2, <2>3 DEF Next
<1>4. ~OneStore' => EventsInOrder'
  BY DEF EventsInOrder
<1> QED
  BY <1>1, <1>2, <1>3, <1>4 DEF Serial

LEMMA SerialHolds == Spec => [](TypeOK /\ Serial)
BY TypeOKInit, TypeOKStep, SerialInit, SerialStep, PTL DEF Spec

\* A reader of run_events sees the states of a run in the order the run took them,
\* as long as its writers share one store, however many they are.
THEOREM EventsOrdered == Spec => []EventsInOrder
<1>1. Serial => EventsInOrder
  BY DEF Serial, EventsInOrder
<1> QED
  BY <1>1, SerialHolds, PTL

\* Whatever is written while a client holds the lock is what its SELECT saw, so an
\* UPDATE takes back nothing.
LEMMA StepTakesNothingBack ==
  TypeOK /\ Serial /\ [Next]_vars => [OneStore => NothingTakenBack]_vars
<1> SUFFICES ASSUME TypeOK, Serial, OneStore, [Next]_vars PROVE NothingTakenBack
  OBVIOUS
<1> USE ConstantsAssumption DEF ConstantsAssumption
<1>0. row \in Rows /\ row.attempt \in Nat /\ row.beat \in Nat
  BY DEF TypeOK, Rows
<1>1. CASE row' = row
  BY <1>0, <1>1 DEF NothingTakenBack
<1>2. ASSUME NEW c \in Clients, Update(c) PROVE NothingTakenBack
  <2>1. row' = Stored(c) /\ record[c] \in Rows
    BY <1>2 DEF Update, TypeOK
  <2>2. row'.attempt = record[c].attempt /\ row'.beat = record[c].beat
        /\ row'.pid = record[c].pid
    BY <2>1 DEF Stored, Rows
  <2> QED
    BY <1>0, <1>2, <2>2 DEF Serial, Fresh, Update, NothingTakenBack
<1>3. ASSUME NEW c \in Clients, ColumnStep(c) PROVE NothingTakenBack
  <2>1. CASE BumpAttempt(c)
    BY <1>0, <2>1 DEF BumpAttempt, NothingTakenBack, Rows
  <2>2. CASE UpdateHeartbeat(c)
    BY <1>0, <2>2 DEF UpdateHeartbeat, NothingTakenBack, Rows
  <2>3. CASE OpenReservation(c)
    BY <1>0, <2>3 DEF OpenReservation, NothingTakenBack, Rows
  <2>4. ASSUME NEW p \in Pids, UpdateWorkerPid(c, p) \/ ClaimWorkerHost(c, p)
        PROVE  NothingTakenBack
    <3>1. row'.pid = p /\ row'.attempt = row.attempt /\ row'.beat = row.beat
      BY <1>0, <2>4 DEF UpdateWorkerPid, ClaimWorkerHost, Rows
    <3> QED
      BY <1>0, <3>1 DEF NothingTakenBack
  <2> QED
    BY <1>3, <2>1, <2>2, <2>3, <2>4 DEF ColumnStep
<1>4. ASSUME NEW c \in Clients, TransitionStep(c), ~Update(c) PROVE row' = row
  BY <1>4 DEF TransitionStep, Select, Conflict, InsertEvent, Interrupted
<1> QED
  BY <1>1, <1>2, <1>3, <1>4 DEF Next, vars

\* Within one store no transition takes back an attempt, a heartbeat or a pid that
\* was stored without a version.
THEOREM UpdatesSurvive == Spec => UpdatesSurviveInOneStore
BY StepTakesNothingBack, SerialHolds, PTL DEF Spec, UpdatesSurviveInOneStore
=============================================================================
