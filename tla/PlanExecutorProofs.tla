-------------------------- MODULE PlanExecutorProofs --------------------------
(***************************************************************************)
(* Proofs about RunAdmission and PlanExecutor: the types, that a retry of   *)
(* run_start starts nothing, and the safety of a plan and that it           *)
(* implements SerialDag, for any plan, any number of processes, launches    *)
(* and disturbances.                                                        *)
(*                                                                          *)
(* Every copy of the record, however old, tells a prefix of one story: the  *)
(* sets of accepted tasks form a Chain, because _next_task is a function of *)
(* what is accepted.  A task has a child only when its turn has come        *)
(* (Rooted), which is why the copies may disagree and yet no two children   *)
(* work at a time.  Sound says what every copy has in common, Fits what a   *)
(* thread knows at its place.                                               *)
(***************************************************************************)
EXTENDS PlanExecutor, FiniteSetTheorems, WellFoundedInduction, TLAPS

-----------------------------------------------------------------------------
(* RunAdmission: a key of a stored run never changes, so a look-up that comes *)
(* after the call began finds what was there when it began.                  *)

\* A call knows its task and its run, and a run it spawns for is stored.
Provided ==
  \A c \in Starters :
    /\ call[c].stage # "idle" => call[c].task \in Tasks /\ call[c].id \in RunIds
    /\ call[c].stage = "spawning" => call[c].id \in Present

\* The runs a call's key bore when the call began still bear it, and a call that
\* went on past the look-up began without any.
Remembered ==
  \A c \in Starters :
    /\ call[c].before \subseteq Named(call[c].key)
    /\ call[c].before # {} => call[c].key # None
    /\ call[c].stage \in {"checked", "inserting"} => call[c].before = {}

AdmissionInv == AdmissionTypeOK /\ Provided /\ Remembered

LEMMA InitAdmissionInv == ASSUME AdmissionInit PROVE AdmissionInv
<1> USE DEF AdmissionInit
<1>1. NoCall \in CallRecords
  BY DEF NoCall, CallRecords, Stages
<1>2. AdmissionTypeOK
  BY <1>1 DEF AdmissionTypeOK
<1>3. Provided /\ Remembered
  BY DEF Provided, Remembered, NoCall
<1> QED
  BY <1>2, <1>3 DEF AdmissionInv

-----------------------------------------------------------------------------
\* What a step may do to the table: no run disappears, and none loses its key.
Kept ==
  /\ runs' \in [RunIds -> Runs \cup {None}]
  /\ \A i \in RunIds : runs[i] # None => runs'[i] # None /\ runs'[i].key = runs[i].key

LEMMA UnchangedKeeps == ASSUME AdmissionTypeOK, UNCHANGED runs PROVE Kept
  BY DEF AdmissionTypeOK, Kept

LEMMA StateKeeps ==
  ASSUME AdmissionTypeOK, NEW i \in RunIds, NEW s \in AdmittedStates, runs[i] # None,
         runs' = [runs EXCEPT ![i].state = s]
  PROVE  Kept
<1> DEFINE moved == [runs[i] EXCEPT !.state = s]
<1>0. runs \in [RunIds -> Runs \cup {None}]
  BY DEF AdmissionTypeOK
<1>1. moved \in Runs /\ moved.key = runs[i].key
  BY <1>0 DEF Runs
<1>2. runs' = [runs EXCEPT ![i] = moved]
  OBVIOUS
<1> HIDE DEF moved
<1> QED
  BY <1>0, <1>1, <1>2, AdmissionAssumption DEF Kept

LEMMA InsertKeeps ==
  ASSUME AdmissionInv, NEW c \in Starters, Insert(c)
  PROVE  Kept
<1> USE DEF AdmissionInv
<1>1. CASE UNCHANGED runs
  BY <1>1, UnchangedKeeps
<1>2. CASE Insertable(c)
  <2> DEFINE id == call[c].id
             new == [task |-> call[c].task, key |-> call[c].key,
                     state |-> "active", accepted |-> FALSE]
  <2>1. runs[id] = None /\ runs' = [runs EXCEPT ![id] = new]
    BY <1>2 DEF Insert, Insertable
  <2>2. id \in RunIds /\ new \in Runs
    BY DEF Insert, Provided, AdmissionTypeOK, CallRecords, Runs, AdmittedStates
  <2> HIDE DEF new, id
  <2> QED
    BY <2>1, <2>2 DEF AdmissionTypeOK, Kept
<1> QED
  BY <1>1, <1>2 DEF Insert

LEMMA RunsKept ==
  ASSUME AdmissionInv, [AdmissionNext]_admissionVars
  PROVE  Kept
<1> USE DEF AdmissionInv
<1>1. ASSUME NEW c \in Starters, NEW t \in Tasks, NEW k \in Keys \cup {None}, NEW i \in RunIds,
             RunStart(c, t, k, i)
      PROVE  Kept
  BY <1>1, UnchangedKeeps DEF RunStart
<1>2. ASSUME NEW c \in Starters,
             RefuseCredentials(c) \/ FindByKey(c) \/ CheckActive(c) \/ Spawn(c) \/ Return(c)
      PROVE  Kept
  BY <1>2, UnchangedKeeps DEF RefuseCredentials, FindByKey, CheckActive, Spawn, Return
<1>3. ASSUME NEW c \in Starters, SpawnFails(c) PROVE Kept
  <2>1. call[c].id \in RunIds /\ runs[call[c].id] # None
    BY <1>3 DEF SpawnFails, Provided, Present
  <2> QED
    BY <1>3, <2>1, StateKeeps, UnchangedKeeps DEF SpawnFails, AdmittedStates, OverStates
<1>4. ASSUME NEW i \in RunIds, EndRun(i) PROVE Kept
  BY <1>4, StateKeeps DEF EndRun, Present, AdmittedStates, OverStates
<1>5. CASE UNCHANGED admissionVars
  BY <1>5, UnchangedKeeps DEF admissionVars
<1> QED
  BY <1>1, <1>2, <1>3, <1>4, <1>5, InsertKeeps DEF AdmissionNext, Admit

-----------------------------------------------------------------------------
\* What a step does to the call of c, and to it alone.
CallGoesOn(c) ==
  /\ call' \in [Starters -> CallRecords]
  /\ \A d \in Starters \ {c} : call'[d] = call[d]
  /\ \/ call'[c] = NoCall
     \/ /\ call'[c].before = call[c].before /\ call'[c].key = call[c].key
        /\ call'[c].task = call[c].task /\ call[c].stage # "idle" /\ call'[c].id \in RunIds
        /\ call'[c].stage = "spawning" => call[c].id \in RunIds /\ runs'[call'[c].id] # None
        /\ call'[c].stage = "checked" => call[c].stage = "keyed" /\ Known(c) = {}
        /\ call'[c].stage = "inserting" => call[c].stage = "checked"

LEMMA Advancing ==
  ASSUME AdmissionInv, NEW c \in Starters, NEW stage \in Stages, Advance(c, stage)
  PROVE  /\ call' \in [Starters -> CallRecords]
         /\ \A d \in Starters \ {c} : call'[d] = call[d]
         /\ call'[c] = [call[c] EXCEPT !.stage = stage] /\ call[c] \in CallRecords
         /\ call'[c].before = call[c].before /\ call'[c].key = call[c].key
         /\ call'[c].task = call[c].task /\ call'[c].id = call[c].id /\ call'[c].stage = stage
  BY DEF AdmissionInv, AdmissionTypeOK, Advance, CallRecords

LEMMA AdmitGoesOn ==
  ASSUME AdmissionInv, NEW c \in Starters, Admit(c) \/ Return(c)
  PROVE  CallGoesOn(c)
<1> USE DEF AdmissionInv, CallGoesOn
<1>0. call \in [Starters -> CallRecords] /\ (call[c].stage # "idle" => call[c].id \in RunIds)
  BY DEF AdmissionTypeOK, Provided
<1>1. CASE RefuseCredentials(c)
  BY <1>0, <1>1, Advancing DEF RefuseCredentials, Stages
<1>2. CASE FindByKey(c)
  <2>1. ASSUME NEW i \in Known(c),
               call' = [call EXCEPT ![c].stage = "answered", ![c].id = i]
        PROVE  CallGoesOn(c)
    <3>1. i \in RunIds
      BY <2>1 DEF Known, Named, Present
    <3> QED
      BY <1>0, <1>2, <2>1, <3>1 DEF FindByKey, CallRecords, Stages
  <2>2. CASE Known(c) = {} /\ Advance(c, "checked")
    BY <1>0, <1>2, <2>2, Advancing DEF FindByKey, Stages
  <2> QED
    BY <1>2, <2>1, <2>2 DEF FindByKey
<1>3. CASE CheckActive(c)
  <2>1. CASE Advance(c, "refused")
    BY <1>0, <1>3, <2>1, Advancing DEF CheckActive, Stages
  <2>2. CASE Advance(c, "inserting")
    BY <1>0, <1>3, <2>2, Advancing DEF CheckActive, Stages
  <2> QED
    BY <1>3, <2>1, <2>2 DEF CheckActive
<1>4. CASE Insert(c)
  <2>1. CASE Advance(c, "refused")
    BY <1>0, <1>4, <2>1, Advancing DEF Insert, Stages
  <2>2. CASE Insertable(c) /\ Advance(c, "spawning")
    <3> DEFINE new == [task |-> call[c].task, key |-> call[c].key,
                       state |-> "active", accepted |-> FALSE]
    <3>1. call[c].id \in RunIds /\ new \in Runs
      BY <1>4 DEF Insert, Provided, AdmissionTypeOK, CallRecords, Runs, AdmittedStates
    <3>2. runs' = [runs EXCEPT ![call[c].id] = new]
      BY <1>4, <2>2 DEF Insert
    <3> HIDE DEF new
    <3>3. runs'[call[c].id] # None
      BY <3>1, <3>2, AdmissionAssumption DEF AdmissionTypeOK
    <3> QED
      BY <1>0, <1>4, <2>2, <3>1, <3>3, Advancing DEF Insert, Stages
  <2> QED
    BY <1>4, <2>1, <2>2 DEF Insert
<1>5. CASE Spawn(c)
  BY <1>0, <1>5, Advancing DEF Spawn, Stages
<1>6. CASE SpawnFails(c)
  BY <1>0, <1>6, Advancing DEF SpawnFails, Stages
<1>7. CASE Return(c)
  BY <1>0, <1>7 DEF Return, NoCall, CallRecords, Stages
<1> QED
  BY <1>1, <1>2, <1>3, <1>4, <1>5, <1>6, <1>7 DEF Admit

-----------------------------------------------------------------------------
\* A call that goes on keeps what the invariant says of every call.
LEMMA GoingOnKeeps ==
  ASSUME AdmissionInv, Kept, NEW c \in Starters, CallGoesOn(c)
  PROVE  AdmissionInv'
<1> USE DEF AdmissionInv
<1>1. AdmissionTypeOK'
  BY DEF AdmissionTypeOK, Kept, CallGoesOn
<1>2. Provided'
  <2> SUFFICES ASSUME NEW d \in Starters
               PROVE  /\ call'[d].stage # "idle" => call'[d].task \in Tasks /\ call'[d].id \in RunIds
                      /\ call'[d].stage = "spawning" => call'[d].id \in Present'
    BY DEF Provided
  <2>1. CASE d # c
    BY <2>1 DEF CallGoesOn, Provided, Kept, Present
  <2>2. CASE d = c
    BY <2>2 DEF CallGoesOn, Provided, Present, NoCall
  <2> QED
    BY <2>1, <2>2
<1>3. Remembered'
  <2> SUFFICES ASSUME NEW d \in Starters
               PROVE  /\ \A i \in call'[d].before :
                           i \in RunIds /\ runs'[i] # None /\ runs'[i].key = call'[d].key
                      /\ call'[d].before # {} => call'[d].key # None
                      /\ call'[d].stage \in {"checked", "inserting"} => call'[d].before = {}
    BY DEF Remembered, Named, Present
  <2>1. \A i \in call[d].before :
          i \in RunIds /\ runs'[i] # None /\ runs'[i].key = call[d].key
    BY DEF Remembered, Named, Present, Kept
  <2>2. CASE d # c
    <3>1. call'[d] = call[d]
      BY <2>2 DEF CallGoesOn
    <3> QED
      BY <2>1, <3>1 DEF Remembered
  <2>3. CASE d = c /\ call'[c] = NoCall
    BY <2>3 DEF NoCall
  <2>4. CASE d = c /\ call'[c] # NoCall
    <3>1. /\ call'[c].before = call[c].before /\ call'[c].key = call[c].key
          /\ call'[c].stage = "checked" => Known(c) = {}
          /\ call'[c].stage = "inserting" => call[c].stage = "checked"
      BY <2>4 DEF CallGoesOn
    <3>2. Known(c) = {} => call[c].before = {}
      BY DEF Remembered, Known
    <3> QED
      BY <2>1, <2>4, <3>1, <3>2 DEF Remembered
  <2> QED
    BY <2>2, <2>3, <2>4
<1> QED
  BY <1>1, <1>2, <1>3

LEMMA StartKeeps ==
  ASSUME AdmissionInv, NEW c \in Starters, NEW t \in Tasks, NEW k \in Keys \cup {None}, NEW i \in RunIds,
         RunStart(c, t, k, i)
  PROVE  AdmissionInv'
<1> USE DEF AdmissionInv
<1> DEFINE new == [stage |-> "keyed", task |-> t, key |-> k, id |-> i,
                   before |-> IF k = None THEN {} ELSE Named(k)]
<1>1. call' = [call EXCEPT ![c] = new] /\ runs' = runs
  BY DEF RunStart
<1>2. new \in CallRecords
  BY DEF CallRecords, Stages, Named, Present
<1>3. AdmissionTypeOK'
  BY <1>1, <1>2 DEF AdmissionTypeOK
<1>4. \A d \in Starters : call'[d] = IF d = c THEN new ELSE call[d]
  BY <1>1 DEF AdmissionTypeOK
<1>5. Present' = Present /\ \A key : Named(key)' = Named(key)
  BY <1>1 DEF Present, Named
<1>6. Provided'
  BY <1>4, <1>5 DEF Provided
<1>7. Remembered'
  BY <1>4, <1>5 DEF Remembered
<1> QED
  BY <1>3, <1>6, <1>7

LEMMA KeptAlone == ASSUME AdmissionInv, Kept, UNCHANGED call PROVE AdmissionInv'
<1>1. AdmissionTypeOK'
  BY DEF AdmissionInv, AdmissionTypeOK, Kept
<1>2. Present \subseteq Present' /\ \A k : Named(k) \subseteq Named(k)'
  BY DEF Present, Named, Kept
<1>3. Provided' /\ Remembered'
  BY <1>2 DEF AdmissionInv, Provided, Remembered
<1> QED
  BY <1>1, <1>3 DEF AdmissionInv

\* AdmissionInv is inductive.
LEMMA AdmissionInductive == ASSUME AdmissionInv, [AdmissionNext]_admissionVars PROVE AdmissionInv'
<1>1. Kept
  BY RunsKept
<1>2. ASSUME NEW c \in Starters, Admit(c) \/ Return(c) PROVE AdmissionInv'
  BY <1>1, <1>2, AdmitGoesOn, GoingOnKeeps
<1>3. UNCHANGED call => AdmissionInv'
  BY <1>1, KeptAlone
<1>4. ASSUME NEW i \in RunIds, EndRun(i) PROVE UNCHANGED call
  BY <1>4 DEF EndRun
<1> QED
  BY <1>2, <1>3, <1>4, StartKeeps DEF AdmissionNext, admissionVars

LEMMA AlwaysAdmissionInv == AdmissionSpec => []AdmissionInv
<1>1. AdmissionInit => AdmissionInv
  BY InitAdmissionInv
<1>2. AdmissionInv /\ [AdmissionNext]_admissionVars => AdmissionInv'
  BY AdmissionInductive
<1> QED
  BY <1>1, <1>2, PTL DEF AdmissionSpec

\* Every variable of the admission's model has its type.
THEOREM AdmissionTypeCorrect == AdmissionSpec => []AdmissionTypeOK
<1>1. AdmissionInv => AdmissionTypeOK
  BY DEF AdmissionInv
<1> QED
  BY <1>1, AlwaysAdmissionInv, PTL

\* run_start with an idempotency key that bore a run when the call began inserts
\* nothing, whatever other callers do meanwhile.
THEOREM RetriesStartNothing == AdmissionSpec => RetryStartsNothing
<1>1. AdmissionInv /\ [AdmissionNext]_admissionVars =>
        [\A c \in Starters : call[c].before # {} =>
           ~(call[c].stage = "inserting" /\ call'[c].stage = "spawning")]_admissionVars
  BY DEF AdmissionInv, Remembered
<1> QED
  BY <1>1, AlwaysAdmissionInv, PTL DEF AdmissionSpec, RetryStartsNothing

-----------------------------------------------------------------------------
(* The story of a plan: which sets of tasks can be the accepted ones.        *)

\* A task _next_task passes by when the tasks A are accepted, and the one it comes
\* to: the first of the plan that waits for nothing.
Waits(d, A, t) == t \in A \/ ~ (d[t] \subseteq A)
Picks(d, A, t) ==
  \E n \in 1 .. Len(Order) :
    /\ t = Order[n] /\ ~ Waits(d, A, t)
    /\ \A m \in 1 .. (n - 1) : Waits(d, A, Order[m])

\* The sets of accepted tasks a plan can come to, one picked task after the other.
Grows(d, G) ==
  /\ {} \in G
  /\ \A A \in G, t \in Tasks : Picks(d, A, t) => A \cup {t} \in G
Chain(d) == {A \in SUBSET Tasks : \A G \in SUBSET SUBSET Tasks : Grows(d, G) => A \in G}

\* The turn of t comes when tasks of f are accepted.
Rooted(d, f, t) == \E A \in Chain(d) : A \subseteq f /\ Picks(d, A, t)

LEMMA PicksFits ==
  ASSUME NEW d, NEW A, NEW t, Picks(d, A, t)
  PROVE  t \in Tasks /\ t \notin A /\ d[t] \subseteq A
  BY PlanAssumption DEF Picks, Waits

\* The code looks at the tasks in order, so there is one it comes to first.
LEMMA PicksOne ==
  ASSUME NEW d, NEW A, NEW t, NEW u, Picks(d, A, t), Picks(d, A, u)
  PROVE  t = u
<1>1. PICK n \in 1 .. Len(Order) :
        t = Order[n] /\ ~ Waits(d, A, t) /\ \A m \in 1 .. (n - 1) : Waits(d, A, Order[m])
  BY DEF Picks
<1>2. PICK k \in 1 .. Len(Order) :
        u = Order[k] /\ ~ Waits(d, A, u) /\ \A m \in 1 .. (k - 1) : Waits(d, A, Order[m])
  BY DEF Picks
<1>3. ~ (n < k) /\ ~ (k < n)
  BY <1>1, <1>2
<1>4. n = k
  BY <1>3
<1> QED
  BY <1>1, <1>2, <1>4

LEMMA ChainStarts == ASSUME NEW d PROVE {} \in Chain(d)
  BY DEF Chain, Grows

LEMMA ChainGrows ==
  ASSUME NEW d, NEW A \in Chain(d), NEW t, Picks(d, A, t)
  PROVE  A \cup {t} \in Chain(d)
<1>1. t \in Tasks
  BY PicksFits
<1>2. ASSUME NEW G \in SUBSET SUBSET Tasks, Grows(d, G) PROVE A \cup {t} \in G
  BY <1>1, <1>2 DEF Chain, Grows
<1> QED
  BY <1>1, <1>2 DEF Chain

LEMMA ChainInduction ==
  ASSUME NEW d, NEW G, G \subseteq Chain(d), Grows(d, G)
  PROVE  G = Chain(d)
<1>1. G \in SUBSET SUBSET Tasks
  BY DEF Chain
<1> QED
  BY <1>1 DEF Chain

\* Of two sets of the chain one comes first, and what is picked at the first belongs
\* to the second.
LEMMA ChainOrdered ==
  ASSUME NEW d, NEW A \in Chain(d), NEW B \in Chain(d), NEW t, Picks(d, A, t)
  PROVE  B \subseteq A \/ A \cup {t} \subseteq B
<1> DEFINE Beside(C) == \A D \in Chain(d) : C \subseteq D \/ D \subseteq C
           After(C, u, D) == D \subseteq C \/ C \cup {u} \subseteq D
<1>1. ASSUME NEW C \in Chain(d), Beside(C), NEW u, Picks(d, C, u)
      PROVE  \A D \in Chain(d) : After(C, u, D)
  <2> DEFINE G == {D \in Chain(d) : After(C, u, D)}
  <2>1. {} \in G
    BY ChainStarts
  <2>2. ASSUME NEW D \in G, NEW v \in Tasks, Picks(d, D, v) PROVE D \cup {v} \in G
    <3>1. D \cup {v} \in Chain(d)
      BY <2>2, ChainGrows
    <3>2. CASE C \cup {u} \subseteq D
      BY <3>1, <3>2
    <3>3. CASE D = C
      <4>1. u = v
        BY <1>1, <2>2, <3>3, PicksOne
      <4> QED
        BY <3>1, <3>3, <4>1
    <3>4. CASE D \subseteq C /\ D # C
      <4>1. C \subseteq D \cup {v} \/ D \cup {v} \subseteq C
        BY <1>1, <3>1
      <4>2. CASE D \cup {v} \subseteq C
        BY <3>1, <4>2
      <4>3. CASE C \subseteq D \cup {v}
        <5>1. D \cup {v} \subseteq C
          BY <3>4, <4>3
        <5> QED
          BY <3>1, <5>1
      <4> QED
        BY <4>1, <4>2, <4>3
    <3> QED
      BY <3>2, <3>3, <3>4, <2>2
  <2>3. Grows(d, G) /\ G \subseteq Chain(d)
    <3> HIDE DEF After
    <3> QED
      BY <2>1, <2>2 DEF Grows
  <2>4. G = Chain(d)
    <3> HIDE DEF G
    <3> QED
      BY <2>3, ChainInduction
  <2> QED
    BY <2>4
<1>2. \A C \in Chain(d) : Beside(C)
  <2> DEFINE H == {C \in Chain(d) : Beside(C)}
  <2>1. {} \in H
    BY ChainStarts
  <2>2. ASSUME NEW C \in H, NEW u \in Tasks, Picks(d, C, u) PROVE C \cup {u} \in H
    <3>1. C \cup {u} \in Chain(d)
      BY <2>2, ChainGrows
    <3>2. \A D \in Chain(d) : After(C, u, D)
      BY <1>1, <2>2
    <3>3. Beside(C \cup {u})
      BY <3>2
    <3> QED
      BY <3>1, <3>3
  <2>3. Grows(d, H) /\ H \subseteq Chain(d)
    <3> HIDE DEF Beside
    <3> QED
      BY <2>1, <2>2 DEF Grows
  <2>4. H = Chain(d)
    <3> HIDE DEF H
    <3> QED
      BY <2>3, ChainInduction
  <2> QED
    BY <2>4
<1> QED
  BY <1>1, <1>2

\* Only one task is on its way: two whose turn has come, and that are not done, are
\* the same.
LEMMA OneOnItsWay ==
  ASSUME NEW d, NEW f, NEW t, NEW u, Rooted(d, f, t), Rooted(d, f, u), t \notin f, u \notin f
  PROVE  t = u
<1>1. PICK A \in Chain(d) : A \subseteq f /\ Picks(d, A, t)
  BY DEF Rooted
<1>2. PICK B \in Chain(d) : B \subseteq f /\ Picks(d, B, u)
  BY DEF Rooted
<1>3. B \subseteq A
  BY <1>1, <1>2, ChainOrdered
<1>4. A \subseteq B
  BY <1>1, <1>2, ChainOrdered
<1>5. A = B
  BY <1>3, <1>4
<1> QED
  BY <1>1, <1>2, <1>5, PicksOne

\* When the picked task has no child, only accepted tasks have one.
LEMMA NothingAhead ==
  ASSUME NEW d, NEW f, NEW s, f \subseteq s, \A u \in s : Rooted(d, f, u),
         NEW A \in Chain(d), NEW t, Picks(d, A, t), t \notin s
  PROVE  s \subseteq A
<1> SUFFICES ASSUME NEW u \in s PROVE u \in A
  OBVIOUS
<1>1. PICK B \in Chain(d) : B \subseteq f /\ Picks(d, B, u)
  BY DEF Rooted
<1>2. B \subseteq A
  BY <1>1, ChainOrdered
<1>3. A \subseteq B \/ B \cup {u} \subseteq A
  BY <1>1, ChainOrdered
<1>4. A # B
  BY <1>1, PicksOne
<1> QED
  BY <1>2, <1>3, <1>4

-----------------------------------------------------------------------------
(* The loop of _next_task.                                                   *)

\* Induction up to n, for a set.
LEMMA SetInduction ==
  ASSUME NEW n \in Nat, NEW S, 0 \in S, \A i \in 0 .. n : i \in S /\ i < n => i + 1 \in S
  PROVE  n \in S
<1> DEFINE R == StrictSubsetOrdering(0 .. n)
           F == FiniteSubsetsOf(0 .. n)
           T == {0 .. i : i \in (0 .. n) \ S}
<1> SUFFICES ASSUME n \notin S PROVE FALSE
  OBVIOUS
<1>1. IsFiniteSet(0 .. n)
  BY FS_Interval
<1>2. IsWellFoundedOn(R, F)
  BY FS_StrictSubsetOrderingWellFounded
<1>3. T \subseteq F
  <2> SUFFICES ASSUME NEW i \in (0 .. n) PROVE 0 .. i \in F
    OBVIOUS
  <2>1. 0 .. i \subseteq 0 .. n
    OBVIOUS
  <2>2. IsFiniteSet(0 .. i)
    BY <2>1, <1>1, FS_Subset
  <2> QED
    BY <2>1, <2>2 DEF FiniteSubsetsOf
<1>4. n \in (0 .. n) \ S
  OBVIOUS
<1>5. T # {}
  BY <1>4
<1> HIDE DEF R, F, T
<1>6. PICK x \in T : \A y \in T : ~ (<<y, x>> \in R)
  BY <1>2, <1>3, <1>5, WFMin
<1>7. PICK i \in (0 .. n) \ S : x = 0 .. i
  BY DEF T
<1>8. i # 0 /\ i - 1 \in (0 .. n) \ S
  BY SMT
<1>9. 0 .. (i - 1) \subseteq 0 .. i /\ i \in 0 .. i /\ i \notin 0 .. (i - 1)
  BY <1>8
<1>10. (0 .. (i - 1)) # 0 .. i
  BY <1>9
<1>11. 0 .. i \subseteq 0 .. n
  OBVIOUS
<1>12. <<0 .. (i - 1), 0 .. i>> \in R
  BY <1>9, <1>10, <1>11 DEF R, StrictSubsetOrdering
<1>13. 0 .. (i - 1) \in T
  BY <1>8 DEF T
<1> QED
  BY <1>6, <1>7, <1>12, <1>13

\* g is what the loop knows before and after each of its first m turns.
AtFirst(r) == [rec |-> r, task |-> None, over |-> FALSE]
Unrolled(r, m, g) ==
  g = [n \in 0 .. m |-> IF n = 0 THEN AtFirst(r) ELSE Scan(g[n - 1], Order[n])]

LEMMA Unrolls ==
  ASSUME NEW r, NEW N \in Nat
  PROVE  \E g : Unrolled(r, N, g)
<1> DEFINE S == {m \in 0 .. N : \E g : Unrolled(r, m, g)}
<1>1. 0 \in S
  <2> DEFINE g == [n \in 0 .. 0 |-> AtFirst(r)]
  <2>1. Unrolled(r, 0, g)
    BY DEF Unrolled
  <2> QED
    BY <2>1
<1>2. ASSUME NEW m \in 0 .. N, m \in S, m < N PROVE m + 1 \in S
  <2>1. PICK g : Unrolled(r, m, g)
    BY <1>2
  <2> DEFINE h == [n \in 0 .. (m + 1) |-> IF n = m + 1 THEN Scan(g[m], Order[m + 1]) ELSE g[n]]
  <2>2. ASSUME NEW n \in 0 .. (m + 1)
        PROVE  h[n] = IF n = 0 THEN AtFirst(r) ELSE Scan(h[n - 1], Order[n])
    <3>1. CASE n = m + 1
      <4>1. h[n] = Scan(g[m], Order[n]) /\ n # 0 /\ n - 1 = m
        BY <3>1
      <4>2. h[m] = g[m]
        OBVIOUS
      <4> QED
        BY <4>1, <4>2
    <3>2. CASE n \in 0 .. m
      <4>1. h[n] = g[n] /\ g[n] = IF n = 0 THEN AtFirst(r) ELSE Scan(g[n - 1], Order[n])
        BY <2>1, <3>2 DEF Unrolled
      <4>2. n # 0 => h[n - 1] = g[n - 1]
        BY <3>2
      <4> QED
        BY <4>1, <4>2
    <3> QED
      BY <3>1, <3>2
  <2>3. Unrolled(r, m + 1, h)
    <3> HIDE DEF h
    <3>1. DOMAIN h = 0 .. (m + 1) /\ h = [n \in 0 .. (m + 1) |-> h[n]]
      BY DEF h
    <3> QED
      BY <3>1, <2>2 DEF Unrolled
  <2> HIDE DEF h
  <2> QED
    BY <1>2, <2>3
<1>3. N \in S
  <2> HIDE DEF S
  <2> QED
    BY <1>1, <1>2, SetInduction
<1> QED
  BY <1>3

LEMMA NextTaskUnrolls ==
  ASSUME NEW r
  PROVE  \E f : /\ f[0] = AtFirst(r)
                /\ \A n \in 1 .. Len(Order) : f[n] = Scan(f[n - 1], Order[n])
                /\ NextTask(r) = f[Len(Order)]
<1> DEFINE f == CHOOSE g : Unrolled(r, Len(Order), g)
<1>1. Len(Order) \in Nat
  BY PlanAssumption
<1>2. Unrolled(r, Len(Order), f)
  BY <1>1, Unrolls, Zenon
<1>3. NextTask(r) = f[Len(Order)]
  BY Zenon DEF NextTask, Unrolled, AtFirst
<1> HIDE DEF f
<1>4. f[0] = AtFirst(r)
  BY <1>1, <1>2 DEF Unrolled
<1>5. \A n \in 1 .. Len(Order) : f[n] = Scan(f[n - 1], Order[n])
  BY <1>1, <1>2 DEF Unrolled
<1> QED
  BY <1>3, <1>4, <1>5

\* The tasks a record calls accepted.
AcceptedOf(r) == {t \in Tasks : r.tasks[t].state = "ACCEPTED"}

\* The scan changes nothing but that it blocks tasks that are neither accepted nor
\* failed.
OnlyBlocks(r, q) ==
  /\ q.state = r.state /\ q.head = r.head /\ q.active = r.active /\ q.verified = r.verified
  /\ \A t \in Tasks : \/ q.tasks[t] = r.tasks[t]
                      \/ /\ q.tasks[t] = [r.tasks[t] EXCEPT !.state = "BLOCKED"]
                         /\ r.tasks[t].state \notin {"ACCEPTED", "FAILED"}

\* z is what the loop may know of the record r after n turns.
Scanned(r, n, z) ==
  /\ z \in [rec : Records, task : Tasks \cup {None}, over : BOOLEAN]
  /\ OnlyBlocks(r, z.rec)
  /\ z.task # None => z.over /\ Picks(deps, AcceptedOf(r), z.task)
  /\ ~ z.over => \A m \in 1 .. n : Waits(deps, AcceptedOf(r), Order[m])

LEMMA BlockingKeepsAccepted ==
  ASSUME NEW r \in Records, NEW q \in Records, OnlyBlocks(r, q)
  PROVE  AcceptedOf(q) = AcceptedOf(r)
<1>1. ASSUME NEW t \in Tasks
      PROVE  q.tasks[t].state = "ACCEPTED" <=> r.tasks[t].state = "ACCEPTED"
  BY DEF OnlyBlocks, Records, TaskEntries
<1> QED
  BY <1>1 DEF AcceptedOf

LEMMA ScanTurns ==
  ASSUME NEW r \in Records, NEW n \in 1 .. Len(Order), NEW z, Scanned(r, n - 1, z),
         deps \in [Tasks -> SUBSET Tasks]
  PROVE  Scanned(r, n, Scan(z, Order[n]))
<1> DEFINE t == Order[n]
           A == AcceptedOf(r)
           Next1 == Scan(z, t)
           state == z.rec.tasks[t].state
           needs == {z.rec.tasks[u].state : u \in deps[t]}
<1>1. t \in Tasks /\ n \in Nat /\ Len(Order) \in Nat
  BY PlanAssumption
<1>2. /\ z = [rec |-> z.rec, task |-> z.task, over |-> z.over]
      /\ z.rec \in Records /\ z.task \in Tasks \cup {None} /\ z.over \in BOOLEAN
  BY DEF Scanned
<1>3. AcceptedOf(z.rec) = A
  BY <1>2, BlockingKeepsAccepted DEF Scanned
<1>4. state = "ACCEPTED" <=> t \in A
  BY <1>1, <1>3 DEF AcceptedOf
<1>5. needs \subseteq {"ACCEPTED"} <=> deps[t] \subseteq A
  BY <1>1, <1>3 DEF AcceptedOf
<1>6. Next1 = IF z.over \/ state = "ACCEPTED" THEN z
              ELSE IF state \in DeadTaskStates THEN [z EXCEPT !.over = TRUE]
              ELSE IF needs \subseteq {"ACCEPTED"} THEN [z EXCEPT !.over = TRUE, !.task = t]
              ELSE IF needs \cap DeadTaskStates # {}
                   THEN [z EXCEPT !.rec.tasks[t].state = "BLOCKED"]
              ELSE z
  BY DEF Scan
<1>7. \A m \in 1 .. n : m \in 1 .. (n - 1) \/ m = n
  BY <1>1
<1> HIDE DEF A, Next1, state, needs, t
<1>8. CASE z.over
  BY <1>6, <1>8 DEF Scanned, Next1, t
<1>9. CASE ~ z.over /\ state = "ACCEPTED"
  <2>1. Waits(deps, A, Order[n])
    BY <1>4, <1>9 DEF Waits, t
  <2> QED
    BY <1>6, <1>7, <1>9, <2>1 DEF Scanned, Next1, t, A
<1>10. CASE ~ z.over /\ state # "ACCEPTED" /\ state \in DeadTaskStates
  BY <1>2, <1>6, <1>10 DEF Scanned, Next1, t
<1>11. CASE ~ z.over /\ state \notin {"ACCEPTED"} \cup DeadTaskStates /\ needs \subseteq {"ACCEPTED"}
  <2>1. Picks(deps, A, t)
    <3>1. ~ Waits(deps, A, t)
      BY <1>4, <1>5, <1>11 DEF Waits
    <3>2. \A m \in 1 .. (n - 1) : Waits(deps, A, Order[m])
      BY <1>11 DEF Scanned, A
    <3> QED
      BY <3>1, <3>2 DEF Picks, t
  <2>2. Next1 = [z EXCEPT !.over = TRUE, !.task = t]
    BY <1>6, <1>11
  <2> QED
    BY <1>1, <1>2, <2>1, <2>2 DEF Scanned, Next1, t, A
<1>12. CASE ~ z.over /\ state \notin {"ACCEPTED"} \cup DeadTaskStates /\ ~ (needs \subseteq {"ACCEPTED"})
  <2>1. Waits(deps, A, Order[n])
    BY <1>5, <1>12 DEF Waits, t
  <2>2. CASE Next1 = z
    BY <1>7, <1>12, <2>1, <2>2 DEF Scanned, Next1, t, A
  <2>3. CASE Next1 = [z EXCEPT !.rec.tasks[t].state = "BLOCKED"]
    <3> DEFINE q == [z.rec EXCEPT !.tasks[t].state = "BLOCKED"]
    <3>1. q \in Records /\ OnlyBlocks(r, q)
      <4>1. z.rec.tasks[t] \in TaskEntries /\ z.rec.tasks \in [Tasks -> TaskEntries]
        BY <1>1, <1>2 DEF Records
      <4>2. [z.rec.tasks[t] EXCEPT !.state = "BLOCKED"] \in TaskEntries
        BY <4>1 DEF TaskEntries, TaskStates, DeadTaskStates
      <4>3. /\ q.state = z.rec.state /\ q.head = z.rec.head /\ q.active = z.rec.active
            /\ q.verified = z.rec.verified
            /\ q.tasks = [z.rec.tasks EXCEPT ![t] = [z.rec.tasks[t] EXCEPT !.state = "BLOCKED"]]
        BY <1>2 DEF Records
      <4>4. q \in Records
        BY <1>1, <1>2, <4>1, <4>2 DEF Records
      <4>5. OnlyBlocks(r, z.rec)
        BY DEF Scanned
      <4>6. /\ q.tasks[t] = [z.rec.tasks[t] EXCEPT !.state = "BLOCKED"]
            /\ \A u \in Tasks : u # t => q.tasks[u] = z.rec.tasks[u]
        BY <1>1, <4>1, <4>3
      <4>7. state = z.rec.tasks[t].state /\ state \notin {"ACCEPTED", "FAILED"}
        BY <1>12 DEF state, DeadTaskStates
      <4> HIDE DEF q
      <4>8. r.tasks \in [Tasks -> TaskEntries]
        BY DEF Records
      <4>9. \/ q.tasks[t] = r.tasks[t]
            \/ /\ q.tasks[t] = [r.tasks[t] EXCEPT !.state = "BLOCKED"]
               /\ r.tasks[t].state \notin {"ACCEPTED", "FAILED"}
        <5>1. r.tasks[t] \in TaskEntries
          BY <1>1, <4>8
        <5> QED
          BY <1>1, <4>5, <4>6, <4>7, <5>1 DEF OnlyBlocks, TaskEntries
      <4> QED
        BY <4>3, <4>4, <4>5, <4>6, <4>9 DEF OnlyBlocks
    <3>2. Next1 = [rec |-> q, task |-> z.task, over |-> z.over]
      BY <1>2, <2>3
    <3> HIDE DEF q
    <3>3. \A m \in 1 .. n : Waits(deps, A, Order[m])
      BY <1>7, <1>12, <2>1 DEF Scanned, A
    <3> QED
      BY <1>2, <1>12, <3>1, <3>2, <3>3 DEF Scanned, Next1, t, A
  <2> QED
    BY <1>6, <1>12, <2>2, <2>3
<1> QED
  BY <1>8, <1>9, <1>10, <1>11, <1>12, <1>2

\* What _next_task does: it blocks tasks that wait for dead ones, and the task it
\* comes to is the one whose turn it is.
LEMMA NextTaskScans ==
  ASSUME NEW r \in Records, deps \in [Tasks -> SUBSET Tasks]
  PROVE  /\ NextTask(r).rec \in Records
         /\ OnlyBlocks(r, NextTask(r).rec)
         /\ NextTask(r).task \in Tasks \cup {None}
         /\ NextTask(r).task # None => Picks(deps, AcceptedOf(r), NextTask(r).task)
<1>1. PICK f : /\ f[0] = AtFirst(r)
               /\ \A n \in 1 .. Len(Order) : f[n] = Scan(f[n - 1], Order[n])
               /\ NextTask(r) = f[Len(Order)]
  BY NextTaskUnrolls
<1> DEFINE S == {n \in 0 .. Len(Order) : Scanned(r, n, f[n])}
<1>2. Len(Order) \in Nat
  BY PlanAssumption
<1>3. 0 \in S
  <2>1. OnlyBlocks(r, r)
    BY DEF OnlyBlocks
  <2>2. Scanned(r, 0, AtFirst(r))
    BY <2>1 DEF Scanned, AtFirst
  <2> QED
    BY <1>1, <1>2, <2>2
<1>4. ASSUME NEW n \in 0 .. Len(Order), n \in S, n < Len(Order) PROVE n + 1 \in S
  <2>1. n + 1 \in 1 .. Len(Order) /\ (n + 1) - 1 = n
    BY <1>2, <1>4
  <2>2. f[n + 1] = Scan(f[n], Order[n + 1])
    BY <1>1, <2>1
  <2>3. Scanned(r, n + 1, f[n + 1])
    BY <1>4, <2>1, <2>2, ScanTurns
  <2> QED
    BY <1>2, <2>1, <2>3
<1>5. Len(Order) \in S
  <2> HIDE DEF S
  <2> QED
    BY <1>2, <1>3, <1>4, SetInduction
<1>6. Scanned(r, Len(Order), NextTask(r))
  BY <1>1, <1>5
<1> QED
  BY <1>6 DEF Scanned

-----------------------------------------------------------------------------
(* The copies of the record.                                                 *)

\* What every copy of the record says, however old, when the tasks s have children,
\* those of f are done, and w is the worktree: the accepted tasks are a set of the
\* chain, they are done and none of them is dirty; and when nothing else has a child,
\* the head is the worktree's.
Sound(r, d, s, f, w) ==
  /\ r \in Records
  /\ AcceptedOf(r) \in Chain(d)
  /\ AcceptedOf(r) \subseteq f \ w.dirty
  /\ \A t \in Tasks : r.tasks[t].attempt = 0
  /\ r.state = "COMPLETE" => r.verified /\ AcceptedOf(r) = Tasks
  /\ (\E t \in Tasks : r.tasks[t].state = "FAILED")
       => r.state \in TerminalPlanStates /\ r.active = None
  /\ s \subseteq AcceptedOf(r) => r.head = w.head

\* How children and worktree go on: a child may be started or done, no done task gets
\* dirty, and the head moves when a dirty task is committed.
Onward(s, f, w, s2, f2, w2) ==
  /\ s \subseteq s2 /\ f \subseteq f2
  /\ w2.dirty \cap f \subseteq w.dirty
  /\ w2.head = w.head \/ \E u \in s : u \in w.dirty

LEMMA SoundStays ==
  ASSUME NEW r, NEW d, NEW s, NEW f, NEW w, NEW s2, NEW f2, NEW w2,
         Sound(r, d, s, f, w), Onward(s, f, w, s2, f2, w2)
  PROVE  Sound(r, d, s2, f2, w2)
<1>1. AcceptedOf(r) \subseteq f2 \ w2.dirty
  BY DEF Sound, Onward
<1>2. s2 \subseteq AcceptedOf(r) => r.head = w2.head
  BY DEF Sound, Onward
<1> QED
  BY <1>1, <1>2 DEF Sound

\* A record that differs in nothing the story is about.
LEMMA Alike ==
  ASSUME NEW r, NEW d, NEW s, NEW f, NEW w, Sound(r, d, s, f, w), NEW q \in Records,
         AcceptedOf(q) = AcceptedOf(r), q.head = r.head,
         \A t \in Tasks : q.tasks[t].attempt = r.tasks[t].attempt,
         q.state = "COMPLETE" => q.verified /\ AcceptedOf(q) = Tasks,
         (\E t \in Tasks : q.tasks[t].state = "FAILED")
            => q.state \in TerminalPlanStates /\ q.active = None
  PROVE  Sound(q, d, s, f, w)
  BY DEF Sound

\* Only the state of the plan changes, and not to COMPLETE.
LEMMA StateSound ==
  ASSUME NEW r, NEW d, NEW s, NEW f, NEW w, Sound(r, d, s, f, w),
         NEW x \in PlanStates \ {"COMPLETE"},
         x \in TerminalPlanStates \/ \A t \in Tasks : r.tasks[t].state # "FAILED"
  PROVE  Sound([r EXCEPT !.state = x], d, s, f, w)
<1> DEFINE q == [r EXCEPT !.state = x]
<1>1. r \in Records
  BY DEF Sound
<1>2. /\ q \in Records /\ q.state = x /\ q.tasks = r.tasks /\ q.head = r.head
      /\ q.active = r.active
  BY <1>1 DEF Records
<1> HIDE DEF q
<1>3. AcceptedOf(q) = AcceptedOf(r)
  BY <1>2 DEF AcceptedOf
<1>4. (\E t \in Tasks : q.tasks[t].state = "FAILED")
        => q.state \in TerminalPlanStates /\ q.active = None
  BY <1>2 DEF Sound
<1> QED
  BY <1>2, <1>3, <1>4, Alike DEF q

\* A record of a plan that is not over has no failed task.
LEMMA NoneFailedYet ==
  ASSUME NEW r, NEW d, NEW s, NEW f, NEW w, Sound(r, d, s, f, w),
         r.state \notin TerminalPlanStates
  PROVE  \A t \in Tasks : r.tasks[t].state # "FAILED"
  BY DEF Sound

LEMMA NewSound ==
  ASSUME NEW d, NEW s, NEW f, NEW w, s = {} => w.head = {}
  PROVE  Sound(NewRecord, d, s, f, w)
<1>1. NewRecord \in Records
  BY DEF NewRecord, Records, TaskEntries, TaskStates, Heads, PlanStates
<1>2. AcceptedOf(NewRecord) = {}
  BY DEF AcceptedOf, NewRecord
<1>3. \A t \in Tasks : NewRecord.tasks[t].attempt = 0 /\ NewRecord.tasks[t].state # "FAILED"
  BY DEF NewRecord
<1>4. NewRecord.state = "CREATED" /\ NewRecord.head = {}
  BY DEF NewRecord
<1> QED
  BY <1>1, <1>2, <1>3, <1>4, ChainStarts DEF Sound

LEMMA BlockedSound ==
  ASSUME NEW r, NEW d, NEW s, NEW f, NEW w, Sound(r, d, s, f, w), NEW q \in Records,
         OnlyBlocks(r, q)
  PROVE  Sound(q, d, s, f, w) /\ AcceptedOf(q) = AcceptedOf(r)
<1>1. r \in Records
  BY DEF Sound
<1>2. AcceptedOf(q) = AcceptedOf(r)
  BY <1>1, BlockingKeepsAccepted
<1>3. ASSUME NEW t \in Tasks
      PROVE  /\ q.tasks[t].attempt = r.tasks[t].attempt
             /\ q.tasks[t].state = "FAILED" => r.tasks[t].state = "FAILED"
  <2>1. r.tasks[t] \in TaskEntries
    BY <1>1 DEF Records
  <2> QED
    BY <2>1 DEF OnlyBlocks, TaskEntries
<1> QED
  BY <1>2, <1>3, Alike DEF Sound, OnlyBlocks

\* _run_task's first save.
LEMMA EnteredSound ==
  ASSUME NEW r, NEW d, NEW s, NEW f, NEW w, Sound(r, d, s, f, w),
         r.state \notin TerminalPlanStates, NEW t \in Tasks, t \notin AcceptedOf(r)
  PROVE  /\ Sound(Entered(r, t), d, s, f, w)
         /\ AcceptedOf(Entered(r, t)) = AcceptedOf(r)
         /\ Entered(r, t).state = r.state /\ Entered(r, t).head = r.head
         /\ Entered(r, t).tasks[t].child = ChildId(t, 0)
         /\ Entered(r, t).tasks[t].base = r.head
<1> DEFINE q == Entered(r, t)
           e == [r.tasks[t] EXCEPT !.state = "RUNNING", !.base = r.head, !.child = ChildId(t, 0)]
<1>1. r \in Records /\ r.tasks \in [Tasks -> TaskEntries] /\ r.tasks[t] \in TaskEntries
  BY DEF Sound, Records
<1>2. r.tasks[t].attempt = 0 /\ ChildId(t, 0) \in RunIds
  BY PlanAssumption DEF Sound
<1>3. /\ e \in TaskEntries /\ e.state = "RUNNING" /\ e.base = r.head
      /\ e.child = ChildId(t, 0) /\ e.attempt = 0
  BY <1>1, <1>2 DEF TaskEntries, Records, TaskStates, Heads
<1>4. q = [r EXCEPT !.tasks = [r.tasks EXCEPT ![t] = e], !.active = t]
  BY <1>1, <1>2 DEF Entered, Child, Records, TaskEntries
<1> HIDE DEF e, q
<1>5. /\ q \in Records /\ q.state = r.state /\ q.head = r.head /\ q.verified = r.verified
      /\ q.tasks = [r.tasks EXCEPT ![t] = e]
  BY <1>1, <1>3, <1>4 DEF Records
<1>6. q.tasks[t] = e /\ \A u \in Tasks : u # t => q.tasks[u] = r.tasks[u]
  BY <1>1, <1>5
<1>7. AcceptedOf(q) = AcceptedOf(r)
  BY <1>3, <1>6 DEF AcceptedOf
<1>8. \A u \in Tasks : q.tasks[u].attempt = r.tasks[u].attempt /\ q.tasks[u].state # "FAILED"
  BY <1>2, <1>3, <1>6, NoneFailedYet
<1>9. Sound(q, d, s, f, w)
  BY <1>5, <1>7, <1>8, Alike DEF TerminalPlanStates
<1> QED
  BY <1>3, <1>5, <1>6, <1>7, <1>9 DEF q

\* _supervise_child's save.
LEMMA ObservedSound ==
  ASSUME NEW r, NEW d, NEW s, NEW f, NEW w, Sound(r, d, s, f, w),
         r.state \notin TerminalPlanStates, NEW t \in Tasks, NEW x \in AdmittedStates,
         NEW q, q = [r EXCEPT !.tasks[t].childState = x]
  PROVE  /\ Sound(q, d, s, f, w)
         /\ AcceptedOf(q) = AcceptedOf(r) /\ q.state = r.state
         /\ q.tasks[t].child = r.tasks[t].child
<1> DEFINE e == [r.tasks[t] EXCEPT !.childState = x]
<1>1. r \in Records /\ r.tasks \in [Tasks -> TaskEntries] /\ r.tasks[t] \in TaskEntries
  BY DEF Sound, Records
<1>2. /\ e \in TaskEntries /\ e.state = r.tasks[t].state /\ e.child = r.tasks[t].child
      /\ e.attempt = r.tasks[t].attempt
  BY <1>1 DEF TaskEntries
<1>3. q = [r EXCEPT !.tasks = [r.tasks EXCEPT ![t] = e]]
  BY <1>1 DEF Records, TaskEntries
<1> HIDE DEF e
<1>4. /\ q \in Records /\ q.state = r.state /\ q.head = r.head /\ q.verified = r.verified
      /\ q.tasks = [r.tasks EXCEPT ![t] = e]
  BY <1>1, <1>2, <1>3 DEF Records
<1>5. q.tasks[t] = e /\ \A u \in Tasks : u # t => q.tasks[u] = r.tasks[u]
  BY <1>1, <1>4
<1>6. AcceptedOf(q) = AcceptedOf(r)
  BY <1>2, <1>5 DEF AcceptedOf
<1>7. \A u \in Tasks : q.tasks[u].attempt = r.tasks[u].attempt /\ q.tasks[u].state # "FAILED"
  BY <1>2, <1>5, NoneFailedYet
<1>8. Sound(q, d, s, f, w)
  BY <1>4, <1>6, <1>7, Alike DEF TerminalPlanStates
<1> QED
  BY <1>2, <1>4, <1>5, <1>6, <1>8

\* The task failed, which blocks the plan.
LEMMA FailedSound ==
  ASSUME NEW r, NEW d, NEW s, NEW f, NEW w, Sound(r, d, s, f, w),
         NEW t \in Tasks, t \notin AcceptedOf(r), NEW q,
         q = [r EXCEPT !.tasks[t].state = "FAILED", !.state = "BLOCKED", !.active = None]
  PROVE  Sound(q, d, s, f, w)
<1> DEFINE e == [r.tasks[t] EXCEPT !.state = "FAILED"]
<1>1. r \in Records /\ r.tasks \in [Tasks -> TaskEntries] /\ r.tasks[t] \in TaskEntries
  BY DEF Sound, Records
<1>2. e \in TaskEntries /\ e.state = "FAILED" /\ e.attempt = r.tasks[t].attempt
  BY <1>1 DEF TaskEntries, TaskStates, DeadTaskStates
<1>3. q = [r EXCEPT !.tasks = [r.tasks EXCEPT ![t] = e], !.state = "BLOCKED", !.active = None]
  BY <1>1 DEF Records, TaskEntries
<1> DEFINE ts == [r.tasks EXCEPT ![t] = e]
<1> HIDE DEF e
<1>4. ts \in [Tasks -> TaskEntries]
  BY <1>1, <1>2
<1> HIDE DEF ts
<1>5. /\ q \in Records /\ q.state = "BLOCKED" /\ q.head = r.head /\ q.active = None
      /\ q.tasks = ts
  <2>1. q = [r EXCEPT !.tasks = ts, !.state = "BLOCKED", !.active = None]
    BY <1>3 DEF ts
  <2> QED
    BY <1>1, <1>4, <2>1 DEF Records, PlanStates, TerminalPlanStates
<1>6. q.tasks[t] = e /\ \A u \in Tasks : u # t => q.tasks[u] = r.tasks[u]
  BY <1>1, <1>5 DEF ts
<1>7. AcceptedOf(q) = AcceptedOf(r)
  BY <1>2, <1>6 DEF AcceptedOf
<1>8. \A u \in Tasks : q.tasks[u].attempt = r.tasks[u].attempt
  BY <1>2, <1>6
<1>9. q.state # "COMPLETE" /\ q.state \in TerminalPlanStates
  BY <1>5 DEF TerminalPlanStates
<1> QED
  BY <1>5, <1>7, <1>8, <1>9, Alike

\* The task is accepted, and the head that was read becomes the plan's.
LEMMA AcceptSound ==
  ASSUME NEW r, NEW d, NEW s, NEW f, NEW w, Sound(r, d, s, f, w),
         r.state \notin TerminalPlanStates, NEW t, Picks(d, AcceptedOf(r), t),
         t \in f, t \notin w.dirty, NEW sha \in Heads,
         s \subseteq AcceptedOf(r) \cup {t} => sha = w.head, NEW q,
         q = [r EXCEPT !.tasks[t].state = "ACCEPTED", !.head = sha, !.active = None]
  PROVE  Sound(q, d, s, f, w)
<1> DEFINE e == [r.tasks[t] EXCEPT !.state = "ACCEPTED"]
<1>0. t \in Tasks
  BY PicksFits
<1>1. r \in Records /\ r.tasks \in [Tasks -> TaskEntries] /\ r.tasks[t] \in TaskEntries
  BY <1>0 DEF Sound, Records
<1>2. e \in TaskEntries /\ e.state = "ACCEPTED" /\ e.attempt = r.tasks[t].attempt
  BY <1>1 DEF TaskEntries, TaskStates, DeadTaskStates
<1>3. q = [r EXCEPT !.tasks = [r.tasks EXCEPT ![t] = e], !.head = sha, !.active = None]
  BY <1>0, <1>1 DEF Records, TaskEntries
<1> DEFINE ts == [r.tasks EXCEPT ![t] = e]
<1> HIDE DEF e
<1>4. ts \in [Tasks -> TaskEntries]
  BY <1>1, <1>2
<1> HIDE DEF ts
<1>5. q \in Records /\ q.state = r.state /\ q.head = sha /\ q.tasks = ts
  <2>1. q = [r EXCEPT !.tasks = ts, !.head = sha, !.active = None]
    BY <1>3 DEF ts
  <2> QED
    BY <1>1, <1>4, <2>1 DEF Records
<1>6. q.tasks[t] = e /\ \A u \in Tasks : u # t => q.tasks[u] = r.tasks[u]
  BY <1>0, <1>1, <1>5 DEF ts
<1>7. AcceptedOf(q) = AcceptedOf(r) \cup {t}
  BY <1>0, <1>2, <1>6 DEF AcceptedOf
<1>8. AcceptedOf(q) \in Chain(d)
  BY <1>7, ChainGrows DEF Sound
<1>9. \A u \in Tasks : q.tasks[u].attempt = 0 /\ q.tasks[u].state # "FAILED"
  BY <1>2, <1>6, NoneFailedYet DEF Sound
<1>10. AcceptedOf(q) \subseteq f \ w.dirty
  BY <1>7 DEF Sound
<1>11. q.state # "COMPLETE"
  BY <1>5 DEF TerminalPlanStates
<1> QED
  BY <1>5, <1>7, <1>8, <1>9, <1>10, <1>11 DEF Sound

\* The final verification passed.
LEMMA CompleteSound ==
  ASSUME NEW r, NEW d, NEW s, NEW f, NEW w, Sound(r, d, s, f, w), AcceptedOf(r) = Tasks, NEW q,
         q = [r EXCEPT !.state = "COMPLETE", !.verified = TRUE]
  PROVE  Sound(q, d, s, f, w)
<1>1. r \in Records
  BY DEF Sound
<1>2. /\ q \in Records /\ q.state = "COMPLETE" /\ q.verified /\ q.tasks = r.tasks
      /\ q.head = r.head
  BY <1>1 DEF Records, PlanStates, TerminalPlanStates
<1>3. AcceptedOf(q) = AcceptedOf(r)
  BY <1>2 DEF AcceptedOf
<1>4. \A t \in Tasks : q.tasks[t].state # "FAILED"
  BY <1>2, <1>3 DEF AcceptedOf
<1> QED
  BY <1>2, <1>3, <1>4, Alike

\* plan_cancel's save: what has not begun is cancelled.
LEMMA CancelledSound ==
  ASSUME NEW r, NEW d, NEW s, NEW f, NEW w, Sound(r, d, s, f, w),
         r.state \notin TerminalPlanStates, NEW q,
         q = [r EXCEPT !.state = "CANCELLED",
                !.tasks = [t \in Tasks |->
                   IF @[t].state \in {"PENDING", "READY"}
                   THEN [@[t] EXCEPT !.state = "CANCELLED"] ELSE @[t]]]
  PROVE  Sound(q, d, s, f, w)
<1> DEFINE ts == [t \in Tasks |-> IF r.tasks[t].state \in {"PENDING", "READY"}
                                  THEN [r.tasks[t] EXCEPT !.state = "CANCELLED"] ELSE r.tasks[t]]
<1>1. r \in Records /\ r.tasks \in [Tasks -> TaskEntries]
  BY DEF Sound, Records
<1>2. ASSUME NEW t \in Tasks
      PROVE  /\ ts[t] \in TaskEntries /\ ts[t].attempt = r.tasks[t].attempt
             /\ \/ ts[t].state = r.tasks[t].state
                \/ r.tasks[t].state \in {"PENDING", "READY"} /\ ts[t].state = "CANCELLED"
  <2>1. r.tasks[t] \in TaskEntries
    BY <1>1
  <2>2. CASE r.tasks[t].state \in {"PENDING", "READY"}
    <3>1. ts[t] = [r.tasks[t] EXCEPT !.state = "CANCELLED"]
      BY <2>2
    <3> HIDE DEF ts
    <3>2. /\ ts[t] \in TaskEntries /\ ts[t].attempt = r.tasks[t].attempt
          /\ ts[t].state = "CANCELLED"
      BY <2>1, <3>1 DEF TaskEntries, TaskStates, DeadTaskStates
    <3> QED
      BY <2>2, <3>2
  <2>3. CASE r.tasks[t].state \notin {"PENDING", "READY"}
    <3>1. ts[t] = r.tasks[t]
      BY <2>3
    <3> QED
      BY <2>1, <3>1
  <2> QED
    BY <2>2, <2>3
<1>3. ts \in [Tasks -> TaskEntries]
  <2>1. ts = [t \in Tasks |-> ts[t]]
    OBVIOUS
  <2> HIDE DEF ts
  <2> QED
    BY <1>2, <2>1
<1>4. q = [r EXCEPT !.state = "CANCELLED", !.tasks = ts]
  BY <1>1 DEF Records
<1> HIDE DEF ts
<1>5. /\ q \in Records /\ q.state = "CANCELLED" /\ q.tasks = ts /\ q.head = r.head
  BY <1>1, <1>3, <1>4 DEF Records, PlanStates, TerminalPlanStates
<1>6. AcceptedOf(q) = AcceptedOf(r)
  BY <1>2, <1>5 DEF AcceptedOf
<1>7. \A t \in Tasks : q.tasks[t].attempt = r.tasks[t].attempt /\ q.tasks[t].state # "FAILED"
  BY <1>2, <1>5, NoneFailedYet
<1> QED
  BY <1>5, <1>6, <1>7, Alike

-----------------------------------------------------------------------------
(* The invariant.                                                            *)

\* The tasks that have a child, by the table of runs, and those whose child was accepted.
StartedIn(table) == {t \in Tasks : table[ChildId(t, 0)] # None}
DoneIn(table) == {t \in Tasks : table[ChildId(t, 0)] # None /\ Passed(table[ChildId(t, 0)])}

Working == {"lookup", "starting", "supervise", "judge", "checkpoint", "commit", "reread",
            "accept"}
Ruling == Working \cup {"announce", "choose", "verify"}

\* What the thread o knows at its place.
Fits(o, d, s, f, w) ==
  /\ o \in Threads
  /\ o.pc \in Ruling \cup {"report"} => Sound(o.rec, d, s, f, w)
  /\ o.pc \in Ruling => o.rec.state \notin TerminalPlanStates
  /\ o.pc \in Working =>
       /\ Picks(d, AcceptedOf(o.rec), o.task)
       /\ o.rec.tasks[o.task].child = ChildId(o.task, 0)
  /\ o.pc = "lookup" => o.rec.tasks[o.task].base = o.rec.head
  /\ o.pc \in Working \ {"lookup", "starting"} => o.task \in s
  /\ o.pc = "judge" => o.child \in Runs /\ (Passed(o.child) => o.task \in f)
  /\ o.pc \in {"checkpoint", "commit", "reread", "accept"} => o.task \in f
  /\ o.pc \in {"reread", "accept"} => o.task \notin w.dirty
  /\ o.pc = "accept" => /\ o.sha \in Heads
                        /\ s \subseteq AcceptedOf(o.rec) \cup {o.task} => o.sha = w.head
  /\ o.pc = "verify" => AcceptedOf(o.rec) = Tasks

\* A call of run_start is for a child whose turn has come.
CallFits(k, d, s, f) ==
  k.stage # "idle" =>
    /\ k.task \in Tasks /\ k.key = None /\ k.id = ChildId(k.task, 0)
    /\ Rooted(d, f, k.task)
    /\ k.stage \in {"spawning", "answered"} => k.task \in s

\* Every run of the table is the one child of its task, whose turn has come.
RunsFit(table, d) ==
  \A i \in RunIds : table[i] # None =>
    /\ table[i].task \in Tasks /\ i = ChildId(table[i].task, 0)
    /\ Rooted(d, DoneIn(table), table[i].task)

\* What is in the worktree is the work of children.
TreeFits(w, s) == w.head \subseteq s /\ w.dirty \subseteq s \cup {Foreign}

\* b is what the child of t was started on.
BornFits(b, t, d, f) == b.base = b.tree.head /\ d[t] \subseteq f \ b.tree.dirty

SoundNow(r) == Sound(r, deps, StartedIn(runs), DoneIn(runs), tree)

Trees == [head : Heads, dirty : SUBSET (Tasks \cup {Foreign})]

PlanTyped ==
  /\ deps \in [Tasks -> SUBSET Tasks]
  /\ tree \in Trees
  /\ orch \in [Processes -> Threads]
  /\ waiting \in [Processes -> Nat]
  /\ cancel \in [Processes -> [pc : {"idle", "child", "save"}, rec : Records \cup {None}]]
  /\ born \in [Tasks -> [base : Heads \cup {None}, tree : Trees] \cup {None}]

WorldFits == RunsFit(runs, deps) /\ TreeFits(tree, StartedIn(runs))
CallsFit == \A c \in Starters : CallFits(call[c], deps, StartedIn(runs), DoneIn(runs))
RowFits ==
  /\ row = None \/ SoundNow(row)
  /\ \A p \in Processes : waiting[p] > 0 \/ orch[p].pc # "idle" => SoundNow(row)
ThreadsFit ==
  \A p \in Processes :
    /\ Fits(orch[p], deps, StartedIn(runs), DoneIn(runs), tree)
    /\ orch[p].pc = "starting" => call[p].task = orch[p].task
CancelsFit ==
  \A p \in Processes : cancel[p].pc \in {"child", "save"} => SoundNow(cancel[p].rec)
BirthsFit == \A t \in Tasks : born[t] # None => BornFits(born[t], t, deps, DoneIn(runs))

PlanInv ==
  /\ AdmissionInv /\ PlanTyped /\ WorldFits /\ CallsFit /\ RowFits /\ ThreadsFit
  /\ CancelsFit /\ BirthsFit

-----------------------------------------------------------------------------
(* What stays true while children and worktree go on.                        *)

LEMMA RootedStays ==
  ASSUME NEW d, NEW f, NEW f2, NEW t, Rooted(d, f, t), f \subseteq f2
  PROVE  Rooted(d, f2, t)
  BY DEF Rooted

LEMMA FitsStays ==
  ASSUME NEW o, NEW d, NEW s, NEW f, NEW w, NEW s2, NEW f2, NEW w2,
         Fits(o, d, s, f, w), Onward(s, f, w, s2, f2, w2)
  PROVE  Fits(o, d, s2, f2, w2)
<1>1. o.pc \in Ruling \cup {"report"} => Sound(o.rec, d, s2, f2, w2)
  BY SoundStays DEF Fits
<1>2. o.pc \in {"reread", "accept"} => o.task \notin w2.dirty
  BY DEF Fits, Onward
<1>3. ASSUME o.pc = "accept", s2 \subseteq AcceptedOf(o.rec) \cup {o.task}
      PROVE  o.sha = w2.head
  <2>1. /\ o.task \notin w.dirty /\ AcceptedOf(o.rec) \subseteq f \ w.dirty
        /\ s \subseteq AcceptedOf(o.rec) \cup {o.task} => o.sha = w.head
    BY <1>3 DEF Fits, Sound, Ruling, Working
  <2> QED
    BY <1>3, <2>1 DEF Onward
<1>4. o.pc \in Working \ {"lookup", "starting"} => o.task \in s2
  BY DEF Fits, Onward
<1>5. o.pc = "judge" => o.child \in Runs /\ (Passed(o.child) => o.task \in f2)
  BY DEF Fits, Onward
<1>6. o.pc \in {"checkpoint", "commit", "reread", "accept"} => o.task \in f2
  BY DEF Fits, Onward
<1> QED
  BY <1>1, <1>2, <1>3, <1>4, <1>5, <1>6 DEF Fits

LEMMA CallStays ==
  ASSUME NEW k, NEW d, NEW s, NEW f, NEW s2, NEW f2,
         CallFits(k, d, s, f), s \subseteq s2, f \subseteq f2
  PROVE  CallFits(k, d, s2, f2)
  BY RootedStays DEF CallFits

LEMMA BornStays ==
  ASSUME NEW b, NEW t, NEW d, NEW f, NEW f2, BornFits(b, t, d, f), f \subseteq f2
  PROVE  BornFits(b, t, d, f2)
  BY DEF BornFits

\* How a table of runs goes on.
TableGoesOn(table, next) ==
  \A i \in RunIds : table[i] # None =>
    /\ next[i] # None /\ next[i].task = table[i].task
    /\ Passed(table[i]) => Passed(next[i])

LEMMA TableOnward ==
  ASSUME NEW table, NEW next, TableGoesOn(table, next)
  PROVE  StartedIn(table) \subseteq StartedIn(next) /\ DoneIn(table) \subseteq DoneIn(next)
  BY PlanAssumption DEF TableGoesOn, StartedIn, DoneIn

\* The child of a task is its own, and the turn of a task that has a child has come.
LEMMA OwnChild ==
  ASSUME NEW table, NEW d, RunsFit(table, d)
  PROVE  /\ \A t \in StartedIn(table) :
              /\ table[ChildId(t, 0)].task = t
              /\ Rooted(d, DoneIn(table), t)
         /\ DoneIn(table) \subseteq StartedIn(table)
         /\ \A i \in RunIds : table[i] # None => table[i].task \in StartedIn(table)
<1>1. ASSUME NEW t \in StartedIn(table)
      PROVE  table[ChildId(t, 0)].task = t /\ Rooted(d, DoneIn(table), t)
  <2>1. t \in Tasks /\ ChildId(t, 0) \in RunIds /\ table[ChildId(t, 0)] # None
    BY PlanAssumption DEF StartedIn
  <2>2. /\ table[ChildId(t, 0)].task \in Tasks
        /\ ChildId(t, 0) = ChildId(table[ChildId(t, 0)].task, 0)
        /\ Rooted(d, DoneIn(table), table[ChildId(t, 0)].task)
    BY <2>1 DEF RunsFit
  <2>3. table[ChildId(t, 0)].task = t
    BY <2>1, <2>2, PlanAssumption
  <2> QED
    BY <2>2, <2>3
<1> QED
  BY <1>1 DEF RunsFit, StartedIn, DoneIn

LEMMA RunsFitStays ==
  ASSUME NEW table, NEW next, NEW d, RunsFit(table, d), TableGoesOn(table, next),
         \A i \in RunIds : next[i] # None /\ table[i] = None =>
            /\ next[i].task \in Tasks /\ i = ChildId(next[i].task, 0)
            /\ Rooted(d, DoneIn(table), next[i].task)
  PROVE  RunsFit(next, d)
<1>1. DoneIn(table) \subseteq DoneIn(next)
  BY TableOnward
<1> SUFFICES ASSUME NEW i \in RunIds, next[i] # None
             PROVE  /\ next[i].task \in Tasks /\ i = ChildId(next[i].task, 0)
                    /\ Rooted(d, DoneIn(next), next[i].task)
  BY DEF RunsFit
<1>2. CASE table[i] # None
  <2>1. /\ next[i].task = table[i].task /\ table[i].task \in Tasks
        /\ i = ChildId(table[i].task, 0) /\ Rooted(d, DoneIn(table), table[i].task)
    BY <1>2 DEF RunsFit, TableGoesOn
  <2> QED
    BY <1>1, <2>1, RootedStays
<1>3. CASE table[i] = None
  BY <1>1, <1>3, RootedStays
<1> QED
  BY <1>2, <1>3

\* A run that was not accepted moves.
LEMMA RunMoves ==
  ASSUME NEW table \in [RunIds -> Runs \cup {None}], NEW i \in RunIds, table[i] # None,
         ~ Passed(table[i]), NEW m \in Runs, m.task = table[i].task, NEW next,
         next = [table EXCEPT ![i] = m]
  PROVE  /\ TableGoesOn(table, next)
         /\ \A j \in RunIds : next[j] # None => table[j] # None
         /\ next \in [RunIds -> Runs \cup {None}]
  BY AdmissionAssumption DEF TableGoesOn

-----------------------------------------------------------------------------
(* How a step of the plan moves the children and the worktree.               *)

Quiet == UNCHANGED <<runs, tree, deps>>

\* The few steps that are about them.
LEMMA StepKinds ==
  ASSUME Next
  PROVE  \/ Quiet
         \/ \E p \in Processes :
              (Admit(p) /\ UNCHANGED planVars) \/ CancelChild(p) \/ Commit(p) \/ GitTimesOut(p)
         \/ \E i \in RunIds : Edit(i) \/ Finish(i) \/ Revive(i)
<1> USE DEF Quiet
<1>1. ASSUME NEW p \in Processes,
             Start(p) \/ Resume(p) \/ Contend(p) \/ CancelReads(p) \/ CancelSaves(p) \/ Crash(p)
      PROVE  Quiet
  BY <1>1 DEF Start, Resume, Contend, CancelReads, CancelSaves, Crash, admissionVars
<1>2. ASSUME NEW p \in Processes,
             Announce(p) \/ Loop(p) \/ ChooseTask(p) \/ ChooseNone(p) \/ LookUp(p) \/ Started(p)
             \/ Supervise(p)
      PROVE  Quiet
  BY <1>2 DEF Announce, Loop, ChooseTask, ChooseNone, LookUp, Started, Supervise, SaveAs, Stay,
              Aside, RunStart, Return, admissionVars
<1>3. ASSUME NEW p \in Processes,
             Judge(p) \/ Checkpoint(p) \/ Reread(p) \/ Accept(p) \/ FinalVerify(p)
             \/ VerifyTimesOut(p) \/ Raise(p) \/ Report(p) \/ Release(p)
      PROVE  Quiet
  BY <1>3 DEF Judge, Checkpoint, Reread, Accept, FinalVerify, VerifyTimesOut, Raise, Report,
              Release, SaveAs, Stay, Aside, admissionVars
<1> HIDE DEF Quiet
<1> QED
  BY <1>1, <1>2, <1>3 DEF Next, Orchestrate

Forward ==
  /\ deps' = deps /\ tree' \in Trees
  /\ TableGoesOn(runs, runs')
  /\ Onward(StartedIn(runs), DoneIn(runs), tree, StartedIn(runs'), DoneIn(runs'), tree')
  /\ RunsFit(runs', deps) /\ TreeFits(tree', StartedIn(runs'))

LEMMA QuietForward == ASSUME PlanInv, Quiet PROVE Forward
<1>1. runs' = runs /\ tree' = tree /\ deps' = deps
  BY DEF Quiet
<1>2. TableGoesOn(runs, runs')
  BY <1>1 DEF TableGoesOn
<1>3. Onward(StartedIn(runs), DoneIn(runs), tree, StartedIn(runs'), DoneIn(runs'), tree')
  BY <1>1 DEF Onward
<1> QED
  BY <1>1, <1>2, <1>3 DEF Forward, PlanInv, PlanTyped, WorldFits

\* The runs move, the worktree does not.
LEMMA TableForward ==
  ASSUME PlanInv, UNCHANGED <<tree, deps>>, TableGoesOn(runs, runs'),
         \A i \in RunIds : runs'[i] # None /\ runs[i] = None =>
            /\ runs'[i].task \in Tasks /\ i = ChildId(runs'[i].task, 0)
            /\ Rooted(deps, DoneIn(runs), runs'[i].task)
  PROVE  Forward
<1>1. StartedIn(runs) \subseteq StartedIn(runs') /\ DoneIn(runs) \subseteq DoneIn(runs')
  BY TableOnward
<1>2. RunsFit(runs', deps)
  BY RunsFitStays DEF PlanInv, WorldFits
<1>3. TreeFits(tree', StartedIn(runs'))
  BY <1>1 DEF PlanInv, WorldFits, TreeFits
<1> QED
  BY <1>1, <1>2, <1>3 DEF Forward, Onward, PlanInv, PlanTyped

\* A run that was not accepted moves, the worktree does not.
LEMMA MoveForward ==
  ASSUME PlanInv, UNCHANGED <<tree, deps>>, NEW i \in RunIds, runs[i] # None, ~ Passed(runs[i]),
         NEW m \in Runs, m.task = runs[i].task, runs' = [runs EXCEPT ![i] = m]
  PROVE  Forward
<1>1. runs \in [RunIds -> Runs \cup {None}]
  BY DEF PlanInv, AdmissionInv, AdmissionTypeOK
<1>2. TableGoesOn(runs, runs') /\ \A j \in RunIds : runs'[j] # None => runs[j] # None
  BY <1>1, RunMoves
<1> QED
  BY <1>2, TableForward

\* The worktree moves, the runs do not.
LEMMA TreeForward ==
  ASSUME PlanInv, UNCHANGED <<runs, deps>>, tree' \in Trees, TreeFits(tree', StartedIn(runs)),
         tree'.dirty \cap DoneIn(runs) \subseteq tree.dirty,
         tree'.head = tree.head \/ \E u \in StartedIn(runs) : u \in tree.dirty
  PROVE  Forward
<1>1. TableGoesOn(runs, runs')
  BY DEF TableGoesOn
<1> QED
  BY <1>1 DEF Forward, Onward, PlanInv, WorldFits

LEMMA AdmitForward ==
  ASSUME PlanInv, NEW c \in Starters, Admit(c), UNCHANGED planVars
  PROVE  Forward
<1>0. UNCHANGED <<tree, deps>> /\ runs \in [RunIds -> Runs \cup {None}]
  BY DEF planVars, PlanInv, AdmissionInv, AdmissionTypeOK
<1>1. CASE UNCHANGED runs
  BY <1>0, <1>1, QuietForward DEF Quiet
<1>2. CASE Insert(c) /\ runs' # runs
  <2> DEFINE id == call[c].id
             new == [task |-> call[c].task, key |-> call[c].key,
                     state |-> "active", accepted |-> FALSE]
  <2>1. /\ call[c].stage = "inserting" /\ runs[id] = None
        /\ runs' = [runs EXCEPT ![id] = new]
    BY <1>2 DEF Insert, Insertable
  <2>2. CallFits(call[c], deps, StartedIn(runs), DoneIn(runs))
    BY DEF PlanInv, CallsFit
  <2>3. /\ call[c].task \in Tasks /\ id = ChildId(call[c].task, 0)
        /\ Rooted(deps, DoneIn(runs), call[c].task) /\ id \in RunIds
    <3>1. call[c].stage # "idle"
      BY <2>1
    <3>2. /\ call[c].task \in Tasks /\ id = ChildId(call[c].task, 0)
          /\ Rooted(deps, DoneIn(runs), call[c].task)
      BY <2>2, <3>1 DEF CallFits
    <3>3. id \in RunIds
      BY <3>2, PlanAssumption
    <3> QED
      BY <3>2, <3>3
  <2>4. new.task = call[c].task
    OBVIOUS
  <2> HIDE DEF new, id
  <2>5. TableGoesOn(runs, runs')
    BY <1>0, <2>1, <2>3 DEF TableGoesOn
  <2>6. ASSUME NEW i \in RunIds, runs'[i] # None, runs[i] = None
        PROVE  /\ runs'[i].task \in Tasks /\ i = ChildId(runs'[i].task, 0)
               /\ Rooted(deps, DoneIn(runs), runs'[i].task)
    <3>1. i = id
      BY <1>0, <2>1, <2>3, <2>6
    <3>2. runs'[i] = new
      BY <1>0, <2>1, <2>3, <3>1
    <3> QED
      BY <2>3, <2>4, <3>1, <3>2
  <2> QED
    BY <1>0, <2>5, <2>6, TableForward
<1>3. CASE SpawnFails(c) /\ runs' # runs
  <2> DEFINE id == call[c].id
             m == [runs[id] EXCEPT !.state = "FAILED"]
  <2>1. /\ call[c].stage = "spawning" /\ runs[id].state \notin OverStates
        /\ runs' = [runs EXCEPT ![id] = m]
    BY <1>3 DEF SpawnFails
  <2>2. id \in RunIds /\ runs[id] # None
    BY <2>1 DEF PlanInv, AdmissionInv, Provided, Present
  <2>3. runs[id] \in Runs /\ ~ Passed(runs[id])
    BY <1>0, <2>1, <2>2 DEF Passed, OverStates
  <2>4. m \in Runs /\ m.task = runs[id].task
    BY <2>3 DEF Runs, AdmittedStates, OverStates
  <2> HIDE DEF m, id
  <2> QED
    BY <1>0, <2>1, <2>2, <2>3, <2>4, MoveForward
<1> QED
  BY <1>1, <1>2, <1>3
     DEF Admit, RefuseCredentials, FindByKey, CheckActive, Insert, Spawn, SpawnFails

LEMMA CommitForward ==
  ASSUME PlanInv, NEW p \in Processes, Commit(p) \/ GitTimesOut(p)
  PROVE  Forward
<1> DEFINE t == orch[p].task
<1>0. UNCHANGED <<runs, deps>>
  BY DEF Commit, GitTimesOut, admissionVars, Aside
<1>1. CASE UNCHANGED tree
  BY <1>0, <1>1, QuietForward DEF Quiet
<1>2. CASE /\ orch[p].pc = "commit" /\ t \in tree.dirty
           /\ tree' = [head |-> tree.head \cup {t}, dirty |-> tree.dirty \ {t}]
  <2>1. Fits(orch[p], deps, StartedIn(runs), DoneIn(runs), tree)
    BY DEF PlanInv, ThreadsFit
  <2>2. t \in StartedIn(runs)
    BY <1>2, <2>1 DEF Fits, Working
  <2>3. tree \in Trees /\ TreeFits(tree, StartedIn(runs))
    BY DEF PlanInv, PlanTyped, WorldFits
  <2>4. t \in Tasks
    BY <2>2 DEF StartedIn
  <2> HIDE DEF t
  <2>5. tree' \in Trees /\ TreeFits(tree', StartedIn(runs))
    BY <1>2, <2>2, <2>3, <2>4 DEF Trees, Heads, TreeFits
  <2> QED
    BY <1>0, <1>2, <2>2, <2>5, TreeForward
<1> QED
  BY <1>1, <1>2 DEF Commit, GitTimesOut, Here

LEMMA CancelChildForward ==
  ASSUME PlanInv, NEW p \in Processes, CancelChild(p)
  PROVE  Forward
<1> DEFINE child == Child(cancel[p].rec, cancel[p].rec.active)
<1>0. UNCHANGED <<tree, deps>> /\ runs \in [RunIds -> Runs \cup {None}]
  BY DEF CancelChild, PlanInv, AdmissionInv, AdmissionTypeOK
<1>1. CASE UNCHANGED runs
  BY <1>0, <1>1, QuietForward DEF Quiet
<1>2. CASE runs' # runs
  <2> DEFINE m == [runs[child] EXCEPT !.state = "CANCELLED"]
             r == cancel[p].rec
  <2>1. /\ cancel[p].pc = "child" /\ r.active # None /\ runs[child] # None
        /\ runs[child].state \notin OverStates /\ runs' = [runs EXCEPT ![child] = m]
    BY <1>2 DEF CancelChild
  <2>2. SoundNow(r)
    BY <2>1 DEF PlanInv, CancelsFit
  <2>3. r \in Records /\ r.active \in Tasks
    BY <2>1, <2>2 DEF SoundNow, Sound, Records
  <2>4. child = ChildId(r.active, 0)
    BY <2>2, <2>3 DEF SoundNow, Sound, Child
  <2>5. child \in RunIds
    BY <2>3, <2>4, PlanAssumption
  <2> HIDE DEF child, r
  <2>6. runs[child] \in Runs /\ ~ Passed(runs[child])
    BY <1>0, <2>1, <2>5 DEF Passed, OverStates
  <2>7. m \in Runs /\ m.task = runs[child].task
    BY <2>6 DEF Runs, AdmittedStates, OverStates
  <2> HIDE DEF m
  <2> QED
    BY <1>0, <2>1, <2>5, <2>6, <2>7, MoveForward
<1> QED
  BY <1>1, <1>2

LEMMA RunStepForward ==
  ASSUME PlanInv, NEW i \in RunIds, Edit(i) \/ Finish(i) \/ Revive(i)
  PROVE  Forward
<1>0. runs \in [RunIds -> Runs \cup {None}]
  BY DEF PlanInv, AdmissionInv, AdmissionTypeOK
<1>1. CASE Edit(i)
  <2> DEFINE t == runs[i].task
  <2>1. /\ runs[i] # None /\ runs[i].state = "active" /\ UNCHANGED <<runs, deps>>
        /\ tree' = [tree EXCEPT !.dirty = @ \cup {t}]
    BY <1>1 DEF Edit, Children, Present, admissionVars
  <2>2. tree \in Trees /\ TreeFits(tree, StartedIn(runs)) /\ RunsFit(runs, deps)
    BY DEF PlanInv, PlanTyped, WorldFits
  <2>3. t \in StartedIn(runs) /\ i = ChildId(t, 0) /\ t \in Tasks
    BY <2>1, <2>2, OwnChild DEF RunsFit
  <2>4. t \notin DoneIn(runs)
    BY <2>1, <2>3 DEF DoneIn, Passed
  <2> HIDE DEF t
  <2>5. /\ tree' \in Trees /\ tree'.head = tree.head
        /\ tree'.dirty = tree.dirty \cup {t}
    BY <2>1, <2>2, <2>3 DEF Trees
  <2>6. TreeFits(tree', StartedIn(runs))
    BY <2>2, <2>3, <2>5 DEF TreeFits
  <2>7. tree'.dirty \cap DoneIn(runs) \subseteq tree.dirty
    BY <2>4, <2>5
  <2> QED
    BY <2>1, <2>5, <2>6, <2>7, TreeForward
<1>2. CASE Finish(i)
  <2>1. PICK s \in {"COMPLETE", "FAILED", "STOPPED"}, ok \in BOOLEAN :
          runs' = [runs EXCEPT ![i].state = s, ![i].accepted = ok]
    BY <1>2 DEF Finish
  <2> DEFINE m == [runs[i] EXCEPT !.state = s, !.accepted = ok]
  <2>2. runs[i] # None /\ runs[i].state = "active" /\ UNCHANGED <<tree, deps>>
    BY <1>2 DEF Finish, Present, planVars
  <2>3. runs[i] \in Runs /\ ~ Passed(runs[i])
    BY <1>0, <2>2 DEF Passed
  <2>4. m \in Runs /\ m.task = runs[i].task
    BY <2>3 DEF Runs, AdmittedStates, OverStates
  <2>5. runs' = [runs EXCEPT ![i] = m]
    BY <1>0, <2>1, <2>3 DEF Runs
  <2> HIDE DEF m
  <2> QED
    BY <2>2, <2>3, <2>4, <2>5, MoveForward
<1>3. CASE Revive(i)
  <2> DEFINE m == [runs[i] EXCEPT !.state = "active"]
  <2>1. /\ runs[i] # None /\ runs[i].state = "STOPPED" /\ UNCHANGED <<tree, deps>>
        /\ runs' = [runs EXCEPT ![i] = m]
    BY <1>3 DEF Revive, Present
  <2>2. runs[i] \in Runs /\ ~ Passed(runs[i])
    BY <1>0, <2>1 DEF Passed
  <2>3. m \in Runs /\ m.task = runs[i].task
    BY <2>2 DEF Runs, AdmittedStates
  <2> HIDE DEF m
  <2> QED
    BY <2>1, <2>2, <2>3, MoveForward
<1> QED
  BY <1>1, <1>2, <1>3

LEMMA StepForward == ASSUME PlanInv, Next PROVE Forward
<1>1. \A p \in Processes : p \in Starters
  BY PlanAssumption
<1> QED
  BY <1>1, StepKinds, QuietForward, AdmitForward, CommitForward, CancelChildForward,
     RunStepForward

-----------------------------------------------------------------------------
(* PlanInv at the start, and the parts of it that a step leaves alone.       *)

LEMMA InitPlanInv == ASSUME Init PROVE PlanInv
<1> USE DEF Init
<1>1. AdmissionInv
  BY InitAdmissionInv
<1>2. runs = [i \in RunIds |-> None] /\ call = [c \in Starters |-> NoCall]
  BY DEF AdmissionInit
<1>3. StartedIn(runs) = {}
  BY <1>2, PlanAssumption DEF StartedIn
<1>4. Idle \in Threads /\ Idle.pc = "idle" /\ NoCancel.pc = "idle" /\ NoCancel.rec = None
  BY DEF Idle, Threads, Labels, NoCancel
<1>5. tree \in Trees /\ tree.head = {} /\ tree.dirty \subseteq {Foreign}
  BY DEF Trees, Heads
<1>6. PlanTyped
  <2>1. NoCancel \in [pc : {"idle", "child", "save"}, rec : Records \cup {None}]
    BY DEF NoCancel
  <2>2. deps \in [Tasks -> SUBSET Tasks]
    OBVIOUS
  <2> QED
    BY <1>4, <1>5, <2>1, <2>2 DEF PlanTyped
<1>7. WorldFits
  BY <1>2, <1>3, <1>5 DEF WorldFits, RunsFit, TreeFits
<1>8. CallsFit
  BY <1>2 DEF CallsFit, CallFits, NoCall
<1>9. RowFits
  BY <1>4 DEF RowFits
<1>10. ThreadsFit
  BY <1>4 DEF ThreadsFit, Fits, Ruling, Working
<1>11. CancelsFit
  BY <1>4 DEF CancelsFit
<1>12. BirthsFit
  BY DEF BirthsFit
<1> QED
  BY <1>1, <1>6, <1>7, <1>8, <1>9, <1>10, <1>11, <1>12 DEF PlanInv

\* The record r is sound after the step.
SoundNext(r) == Sound(r, deps', StartedIn(runs'), DoneIn(runs'), tree')
FitsNext(o) == Fits(o, deps', StartedIn(runs'), DoneIn(runs'), tree')

LEMMA SoundCarries ==
  ASSUME Forward, NEW r, SoundNow(r)
  PROVE  SoundNext(r)
  BY SoundStays DEF Forward, SoundNow, SoundNext

LEMMA FitsCarries ==
  ASSUME PlanInv, Forward, NEW p \in Processes
  PROVE  FitsNext(orch[p])
  BY FitsStays DEF Forward, PlanInv, ThreadsFit, FitsNext

LEMMA CallCarries ==
  ASSUME PlanInv, Forward, NEW c \in Starters
  PROVE  CallFits(call[c], deps', StartedIn(runs'), DoneIn(runs'))
  BY CallStays DEF Forward, Onward, PlanInv, CallsFit

LEMMA RestCarries ==
  ASSUME PlanInv, Forward
  PROVE  /\ WorldFits'
         /\ UNCHANGED call => CallsFit'
         /\ UNCHANGED cancel => CancelsFit'
         /\ UNCHANGED born => BirthsFit'
         /\ UNCHANGED <<orch, call>> => ThreadsFit'
<1>1. WorldFits'
  BY DEF Forward, WorldFits
<1>2. UNCHANGED call => CallsFit'
  BY CallCarries DEF CallsFit
<1>3. UNCHANGED cancel => CancelsFit'
  BY SoundCarries DEF PlanInv, CancelsFit, SoundNow, SoundNext
<1>4. UNCHANGED born => BirthsFit'
  <2>1. DoneIn(runs) \subseteq DoneIn(runs') /\ deps' = deps
    BY DEF Forward, Onward
  <2>2. ASSUME NEW t \in Tasks, born[t] # None PROVE BornFits(born[t], t, deps', DoneIn(runs'))
    BY <2>1, <2>2, BornStays DEF PlanInv, BirthsFit
  <2> QED
    BY <2>2 DEF BirthsFit
<1>5. UNCHANGED <<orch, call>> => ThreadsFit'
  BY FitsCarries DEF PlanInv, ThreadsFit, FitsNext
<1> QED
  BY <1>1, <1>2, <1>3, <1>4, <1>5

\* The row is saved anew, or stays and nobody comes to know it.
LEMMA RowCarries ==
  ASSUME PlanInv, Forward,
         \/ SoundNext(row')
         \/ /\ row' = row
            /\ \A p \in Processes : \/ ~ (waiting'[p] > 0) /\ orch'[p].pc = "idle"
                                    \/ waiting[p] > 0 \/ orch[p].pc # "idle"
  PROVE  RowFits'
<1>1. CASE SoundNext(row')
  BY <1>1 DEF RowFits, SoundNow, SoundNext
<1>2. CASE /\ row' = row
           /\ \A p \in Processes : \/ ~ (waiting'[p] > 0) /\ orch'[p].pc = "idle"
                                   \/ waiting[p] > 0 \/ orch[p].pc # "idle"
  <2>1. row = None \/ SoundNext(row)
    BY SoundCarries DEF PlanInv, RowFits
  <2>2. ASSUME NEW p \in Processes, waiting'[p] > 0 \/ orch'[p].pc # "idle" PROVE SoundNext(row)
    BY <1>2, <2>2, SoundCarries DEF PlanInv, RowFits
  <2> QED
    BY <1>2, <2>1, <2>2 DEF RowFits, SoundNow, SoundNext
<1> QED
  BY <1>1, <1>2

-----------------------------------------------------------------------------
(* The steps of a thread that touch neither the runs nor a call.             *)

Bare == {"idle", "loop", "release", "raise"}

\* A thread that knows nothing fits.
LEMMA RestFits ==
  ASSUME NEW d, NEW s, NEW f, NEW w, NEW o \in Threads, o.pc \in Bare
  PROVE  Fits(o, d, s, f, w)
  BY DEF Fits, Bare, Ruling, Working

LEMMA ThreadStep ==
  ASSUME PlanInv, Forward, UNCHANGED <<admissionVars, born, Aside>>,
         NEW p \in Processes, orch[p].pc # "idle",
         NEW label \in Labels \ {"starting"}, NEW known \in Threads, Goto(p, label, known),
         label \notin Bare => FitsNext([known EXCEPT !.pc = label]),
         row' = row \/ SoundNext(row')
  PROVE  PlanInv'
<1> DEFINE o == IF label \in Bare
                THEN [Idle EXCEPT !.pc = label, !.timeout = known.timeout]
                ELSE [known EXCEPT !.pc = label]
<1>1. orch' = [orch EXCEPT ![p] = o]
  BY DEF Goto, Bare
<1>2. orch \in [Processes -> Threads] /\ deps' = deps /\ tree' \in Trees
  BY DEF PlanInv, PlanTyped, Forward
<1>3. o \in Threads /\ o.pc = label
  <2>1. label \in Labels /\ known.timeout \in BOOLEAN
    BY DEF Threads
  <2>2. CASE label \in Bare
    <3>1. o = [Idle EXCEPT !.pc = label, !.timeout = known.timeout]
      BY <2>2
    <3> HIDE DEF o
    <3> QED
      BY <2>1, <3>1 DEF Idle, Threads
  <2>3. CASE label \notin Bare
    <3>1. o = [known EXCEPT !.pc = label]
      BY <2>3
    <3> HIDE DEF o
    <3> QED
      BY <2>1, <3>1 DEF Threads
  <2> QED
    BY <2>2, <2>3
<1>4. FitsNext(o)
  <2>1. CASE label \in Bare
    BY <1>3, <2>1, RestFits DEF FitsNext
  <2>2. CASE label \notin Bare
    BY <2>2
  <2> QED
    BY <2>1, <2>2
<1> HIDE DEF o
<1>5. orch' \in [Processes -> Threads]
  BY <1>1, <1>2, <1>3
<1>6. orch'[p] = o /\ \A q \in Processes : q # p => orch'[q] = orch[q]
  BY <1>1, <1>2
<1>7. UNCHANGED <<call, runs, waiting, cancel, deps>>
  BY DEF admissionVars, Aside
<1>8. PlanTyped'
  BY <1>2, <1>5, <1>7 DEF PlanInv, PlanTyped
<1>9. ThreadsFit'
  <2> SUFFICES ASSUME NEW q \in Processes
               PROVE  FitsNext(orch'[q]) /\ (orch'[q].pc = "starting" => call[q].task = orch'[q].task)
    BY <1>7 DEF ThreadsFit, FitsNext
  <2>1. CASE q = p
    BY <1>3, <1>4, <1>6, <2>1
  <2>2. CASE q # p
    BY <1>6, <2>2, FitsCarries DEF PlanInv, ThreadsFit
  <2> QED
    BY <2>1, <2>2
<1>10. RowFits'
  <2>1. \A q \in Processes : \/ ~ (waiting'[q] > 0) /\ orch'[q].pc = "idle"
                             \/ waiting[q] > 0 \/ orch[q].pc # "idle"
    BY <1>6, <1>7
  <2> QED
    BY <2>1, RowCarries
<1>11. AdmissionInv'
  BY AdmissionInductive DEF PlanInv
<1> QED
  BY <1>7, <1>8, <1>9, <1>10, <1>11, RestCarries DEF PlanInv

\* store.save and Goto; and Goto alone.
LEMMA SaveStep ==
  ASSUME PlanInv, Forward, NEW p \in Processes, orch[p].pc # "idle",
         NEW label \in Labels \ {"starting"}, NEW r, SoundNext(r), SaveAs(p, r, label),
         label \notin Bare => FitsNext([[orch[p] EXCEPT !.rec = r] EXCEPT !.pc = label])
  PROVE  PlanInv'
<1>1. r \in Records
  BY DEF SoundNext, Sound
<1>2. orch[p] \in Threads
  BY DEF PlanInv, PlanTyped
<1>3. [orch[p] EXCEPT !.rec = r] \in Threads
  BY <1>1, <1>2 DEF Threads
<1>4. /\ row' = r /\ Goto(p, label, [orch[p] EXCEPT !.rec = r])
      /\ UNCHANGED <<admissionVars, born, Aside>>
  BY DEF SaveAs
<1> QED
  BY <1>3, <1>4, ThreadStep

LEMMA StayStep ==
  ASSUME PlanInv, Forward, NEW p \in Processes, orch[p].pc # "idle",
         NEW label \in Labels \ {"starting"}, NEW known \in Threads,
         Goto(p, label, known), UNCHANGED Stay,
         label \notin Bare => FitsNext([known EXCEPT !.pc = label])
  PROVE  PlanInv'
<1>1. row' = row /\ UNCHANGED <<admissionVars, born, Aside>>
  BY DEF Stay
<1> QED
  BY <1>1, ThreadStep

\* What the thread of p knows at its place.
LEMMA Knows ==
  ASSUME PlanInv, Forward, NEW p \in Processes
  PROVE  /\ orch[p] \in Threads /\ FitsNext(orch[p])
         /\ Fits(orch[p], deps, StartedIn(runs), DoneIn(runs), tree)
         /\ orch[p].pc \in Ruling \cup {"report"} =>
              SoundNow(orch[p].rec) /\ SoundNext(orch[p].rec)
         /\ orch[p].pc # "idle" => SoundNow(row) /\ SoundNext(row)
<1>1. orch[p] \in Threads /\ Fits(orch[p], deps, StartedIn(runs), DoneIn(runs), tree)
  BY DEF PlanInv, PlanTyped, ThreadsFit
<1>2. orch[p].pc \in Ruling \cup {"report"} => SoundNow(orch[p].rec)
  BY <1>1 DEF Fits, SoundNow
<1>3. orch[p].pc # "idle" => SoundNow(row)
  BY DEF PlanInv, RowFits
<1> QED
  BY <1>1, <1>2, <1>3, SoundCarries, FitsCarries

LEMMA AnnounceInductive ==
  ASSUME PlanInv, Forward, NEW p \in Processes, Announce(p) \/ Loop(p) PROVE PlanInv'
<1>1. CASE Announce(p)
  <2> DEFINE r == orch[p].rec
             q == [r EXCEPT !.state = "RUNNING"]
  <2>1. orch[p].pc = "announce" /\ SaveAs(p, q, "loop")
    BY <1>1 DEF Announce, Here
  <2>2. SoundNext(r) /\ r.state \notin TerminalPlanStates
    BY <2>1, Knows DEF Fits, Ruling
  <2>3. SoundNext(q)
    <3>1. \A t \in Tasks : r.tasks[t].state # "FAILED"
      BY <2>2, NoneFailedYet DEF SoundNext
    <3>2. "RUNNING" \in PlanStates \ {"COMPLETE"}
      BY DEF PlanStates
    <3> HIDE DEF r
    <3> QED
      BY <2>2, <3>1, <3>2, StateSound DEF SoundNext
  <2> HIDE DEF q
  <2> QED
    BY <2>1, <2>3, SaveStep DEF Labels, Bare
<1>2. CASE Loop(p)
  <2>1. orch[p].pc = "loop" /\ UNCHANGED Stay
    BY <1>2 DEF Loop, Here
  <2>2. Idle \in Threads
    BY DEF Idle, Threads, Labels
  <2>3. CASE Goto(p, "release", Idle)
    BY <2>1, <2>2, <2>3, StayStep DEF Labels, Bare
  <2>4. CASE row.state \notin TerminalPlanStates /\ Goto(p, "choose", [Idle EXCEPT !.rec = row])
    <3> DEFINE known == [Idle EXCEPT !.rec = row]
               o == [known EXCEPT !.pc = "choose"]
    <3>1. SoundNext(row) /\ row \in Records
      BY <2>1, Knows DEF SoundNext, Sound
    <3>2. known \in Threads
      BY <2>2, <3>1 DEF Idle, Threads
    <3>3. o \in Threads /\ o.pc = "choose" /\ o.rec = row
      BY <3>1 DEF Idle, Threads, Labels
    <3> HIDE DEF o
    <3>4. FitsNext(o)
      BY <2>4, <3>1, <3>3 DEF FitsNext, Fits, SoundNext, Ruling, Working
    <3> QED
      BY <2>1, <2>4, <3>2, <3>4, StayStep DEF Labels, o
  <2> QED
    BY <1>2, <2>3, <2>4 DEF Loop
<1> QED
  BY <1>1, <1>2

LEMMA ChooseInductive ==
  ASSUME PlanInv, Forward, NEW p \in Processes, ChooseTask(p) \/ ChooseNone(p) PROVE PlanInv'
<1> DEFINE r == orch[p].rec
           scan == NextTask(r)
           q == scan.rec
           t == scan.task
<1>1. orch[p].pc = "choose"
  BY DEF ChooseTask, ChooseNone, Here
<1>2. /\ orch[p] \in Threads /\ SoundNext(r) /\ r \in Records
      /\ r.state \notin TerminalPlanStates
  BY <1>1, Knows DEF Fits, Ruling, SoundNext, Sound
<1>3. deps \in [Tasks -> SUBSET Tasks] /\ deps' = deps
  BY DEF PlanInv, PlanTyped, Forward
<1> HIDE DEF r
<1>4. /\ q \in Records /\ OnlyBlocks(r, q) /\ t \in Tasks \cup {None}
      /\ t # None => Picks(deps, AcceptedOf(r), t)
  BY <1>2, <1>3, NextTaskScans
<1> HIDE DEF scan
<1>5. SoundNext(q) /\ AcceptedOf(q) = AcceptedOf(r)
  BY <1>2, <1>4, BlockedSound DEF SoundNext
<1>6. q.state \notin TerminalPlanStates
  BY <1>2, <1>4 DEF OnlyBlocks
<1>7. CASE ChooseTask(p)
  <2> DEFINE e == Entered(q, t)
             known == [orch[p] EXCEPT !.rec = e, !.task = t]
             o == [known EXCEPT !.pc = "lookup"]
  <2>1. /\ t # None /\ row' = e /\ Goto(p, "lookup", known)
        /\ UNCHANGED <<admissionVars, born, Aside>>
    BY <1>7 DEF ChooseTask, scan, r
  <2>2. Picks(deps, AcceptedOf(q), t)
    BY <1>4, <1>5, <2>1
  <2>3. t \in Tasks /\ t \notin AcceptedOf(q)
    BY <2>2, PicksFits
  <2> HIDE DEF q, t
  <2>4. /\ SoundNext(e) /\ AcceptedOf(e) = AcceptedOf(q)
        /\ e.state = q.state /\ e.head = q.head
        /\ e.tasks[t].child = ChildId(t, 0) /\ e.tasks[t].base = q.head
    BY <1>5, <1>6, <2>3, EnteredSound DEF SoundNext
  <2> HIDE DEF e
  <2>5. e \in Records
    BY <2>4 DEF SoundNext, Sound
  <2>6. known \in Threads
    BY <1>2, <2>3, <2>5 DEF Threads
  <2>7. o \in Threads /\ o.pc = "lookup" /\ o.rec = e /\ o.task = t
    BY <1>2, <2>3, <2>5 DEF Threads, Labels
  <2> HIDE DEF o
  <2>8. FitsNext(o)
    BY <1>3, <1>6, <2>2, <2>4, <2>7 DEF FitsNext, Fits, SoundNext, Ruling, Working
  <2> QED
    BY <1>1, <2>1, <2>4, <2>6, <2>8, ThreadStep DEF Labels, o
<1>8. CASE ChooseNone(p)
  <2> DEFINE v == [q EXCEPT !.state = "FINAL_VERIFYING"]
  <2>1. CASE AllAccepted(q) /\ SaveAs(p, v, "verify")
    <3> DEFINE o == [[orch[p] EXCEPT !.rec = v] EXCEPT !.pc = "verify"]
    <3> HIDE DEF q
    <3>1. AcceptedOf(q) = Tasks
      BY <2>1 DEF AllAccepted, AcceptedOf
    <3>2. \A u \in Tasks : q.tasks[u].state # "FAILED"
      BY <1>5, <1>6, NoneFailedYet DEF SoundNext
    <3>3. SoundNext(v)
      <4>1. "FINAL_VERIFYING" \in PlanStates \ {"COMPLETE"}
        BY DEF PlanStates
      <4> QED
        BY <1>5, <3>2, <4>1, StateSound DEF SoundNext
    <3>4. v.state = "FINAL_VERIFYING" /\ v.tasks = q.tasks /\ v \in Records
      BY <1>4, <3>3 DEF SoundNext, Sound, Records, q
    <3> HIDE DEF v
    <3>5. AcceptedOf(v) = Tasks
      BY <3>1, <3>4 DEF AcceptedOf
    <3>6. o \in Threads /\ o.pc = "verify" /\ o.rec = v
      BY <1>2, <3>4 DEF Threads, Labels
    <3> HIDE DEF o
    <3>7. FitsNext(o)
      BY <3>3, <3>4, <3>5, <3>6
         DEF FitsNext, Fits, SoundNext, Ruling, Working, TerminalPlanStates
    <3> QED
      BY <1>1, <2>1, <3>3, <3>7, SaveStep DEF Labels, o
  <2>2. CASE SaveAs(p, q, "release")
    BY <1>1, <1>5, <2>2, SaveStep DEF Labels, Bare
  <2>3. CASE Goto(p, "release", Idle) /\ UNCHANGED Stay
    <3>1. Idle \in Threads
      BY DEF Idle, Threads, Labels
    <3> QED
      BY <1>1, <2>3, <3>1, StayStep DEF Labels, Bare
  <2> QED
    BY <1>8, <2>1, <2>2, <2>3 DEF ChooseNone, scan, r
<1> QED
  BY <1>7, <1>8

LEMMA SuperviseInductive ==
  ASSUME PlanInv, Forward, NEW p \in Processes, Supervise(p) PROVE PlanInv'
<1> DEFINE r == orch[p].rec
           t == orch[p].task
           child == runs[Mine(p)]
           q == Observed(p, child)
           known == [orch[p] EXCEPT !.child = child, !.rec = q]
           o == [known EXCEPT !.pc = "judge"]
<1>1. /\ orch[p].pc = "supervise" /\ row' = q /\ Goto(p, "judge", known)
      /\ UNCHANGED <<admissionVars, born, Aside>>
  BY DEF Supervise, Here
<1>2. /\ orch[p] \in Threads /\ SoundNext(r)
      /\ r.state \notin TerminalPlanStates
      /\ Picks(deps, AcceptedOf(r), t) /\ r.tasks[t].child = ChildId(t, 0)
      /\ t \in StartedIn(runs)
  BY <1>1, Knows DEF Fits, Ruling, Working
<1>3. Mine(p) = r.tasks[t].child
  BY DEF Mine
<1>4. runs \in [RunIds -> Runs \cup {None}]
  BY DEF PlanInv, AdmissionInv, AdmissionTypeOK
<1>5. t \in Tasks /\ child = runs[ChildId(t, 0)] /\ child \in Runs
  BY <1>2, <1>3, <1>4, PlanAssumption DEF StartedIn
<1>6. Passed(child) => t \in DoneIn(runs)
  BY <1>2, <1>5 DEF DoneIn, StartedIn
<1>7. q = [r EXCEPT !.tasks[t].childState = child.state]
  BY DEF Observed
<1>8. child.state \in AdmittedStates
  BY <1>5 DEF Runs
<1>9. UNCHANGED <<runs, deps>>
  BY <1>1 DEF admissionVars, Aside
<1> HIDE DEF child, q, r
<1>10. /\ SoundNext(q) /\ AcceptedOf(q) = AcceptedOf(r) /\ q.state = r.state
       /\ q.tasks[t].child = r.tasks[t].child
  BY <1>2, <1>5, <1>7, <1>8, ObservedSound DEF SoundNext
<1>11. q \in Records
  BY <1>10 DEF SoundNext, Sound
<1>12. known \in Threads
  BY <1>2, <1>5, <1>11 DEF Threads
<1>13. o \in Threads /\ o.pc = "judge" /\ o.rec = q /\ o.task = t /\ o.child = child
  BY <1>2, <1>5, <1>11 DEF Threads, Labels
<1> HIDE DEF o, t
<1>14. FitsNext(o)
  BY <1>2, <1>5, <1>6, <1>9, <1>10, <1>13 DEF FitsNext, Fits, SoundNext, Ruling, Working
<1> QED
  BY <1>1, <1>10, <1>12, <1>14, ThreadStep DEF Labels, o

LEMMA JudgeInductive ==
  ASSUME PlanInv, Forward, NEW p \in Processes, Judge(p) PROVE PlanInv'
<1> DEFINE r == orch[p].rec
           t == orch[p].task
           q == [r EXCEPT !.tasks[t].state = "FAILED", !.state = "BLOCKED", !.active = None]
           o == [orch[p] EXCEPT !.pc = "checkpoint"]
<1>1. orch[p].pc = "judge"
  BY DEF Judge, Here
<1>2. orch[p] \in Threads /\ FitsNext(orch[p]) /\ SoundNext(r) /\ Picks(deps, AcceptedOf(r), t)
  BY <1>1, Knows DEF Fits, Ruling, Working
<1>3. CASE Passed(orch[p].child) /\ Goto(p, "checkpoint", orch[p]) /\ UNCHANGED Stay
  <2>1. /\ o \in Threads /\ o.pc = "checkpoint" /\ o.rec = r /\ o.task = t
    BY <1>2 DEF Threads, Labels
  <2> HIDE DEF o, r, t
  <2>2. FitsNext(o)
    BY <1>1, <1>2, <1>3, <2>1 DEF FitsNext, Fits, Ruling, Working, r, t
  <2> QED
    BY <1>1, <1>2, <1>3, <2>2, StayStep DEF Labels, o
<1>4. CASE SaveAs(p, q, "loop")
  <2>1. t \in Tasks /\ t \notin AcceptedOf(r)
    BY <1>2, PicksFits
  <2> HIDE DEF r, t
  <2>2. SoundNext(q)
    BY <1>2, <2>1, FailedSound DEF SoundNext
  <2> HIDE DEF q
  <2> QED
    BY <1>1, <1>4, <2>2, SaveStep DEF Labels, Bare
<1> QED
  BY <1>3, <1>4 DEF Judge

LEMMA CheckpointInductive ==
  ASSUME PlanInv, Forward, NEW p \in Processes, Checkpoint(p) \/ Reread(p) PROVE PlanInv'
<1> DEFINE known == [orch[p] EXCEPT !.sha = tree.head]
<1>1. /\ orch[p].pc \in {"checkpoint", "reread"} /\ UNCHANGED Stay
      /\ \/ Goto(p, "accept", known) /\ (orch[p].pc = "reread" \/ tree.dirty = {})
         \/ Goto(p, "commit", known) /\ orch[p].pc = "checkpoint"
  BY DEF Checkpoint, Reread, Here
<1>2. orch[p] \in Threads /\ FitsNext(orch[p])
  BY Knows
<1>3. tree' = tree /\ tree.head \in Heads
  BY <1>1 DEF Stay, PlanInv, PlanTyped, Trees
<1>4. known \in Threads
  BY <1>2, <1>3 DEF Threads
<1>5. ASSUME NEW x \in {"accept", "commit"}, Goto(p, x, known),
             x = "accept" => orch[p].pc = "reread" \/ tree.dirty = {}
      PROVE  PlanInv'
  <2> DEFINE o == [known EXCEPT !.pc = x]
  <2>1. /\ o \in Threads /\ o.pc = x /\ o.rec = orch[p].rec /\ o.task = orch[p].task
        /\ o.sha = tree.head
    BY <1>2, <1>3 DEF Threads, Labels
  <2> HIDE DEF o
  <2>2. FitsNext(o)
    BY <1>1, <1>2, <1>3, <1>5, <2>1 DEF FitsNext, Fits, Ruling, Working
  <2> QED
    BY <1>1, <1>4, <1>5, <2>2, StayStep DEF Labels, o
<1> QED
  BY <1>1, <1>5

LEMMA CommitInductive ==
  ASSUME PlanInv, Forward, NEW p \in Processes, Commit(p) \/ GitTimesOut(p) PROVE PlanInv'
<1>1. orch[p].pc # "idle" /\ row' = row /\ UNCHANGED <<admissionVars, born, Aside>>
  BY DEF Commit, GitTimesOut, Here
<1>2. orch[p] \in Threads /\ FitsNext(orch[p])
  BY Knows
<1>3. ASSUME NEW known \in Threads, Goto(p, "raise", known) PROVE PlanInv'
  BY <1>1, <1>3, ThreadStep DEF Labels, Bare
<1>4. CASE /\ Commit(p) /\ Goto(p, "reread", orch[p])
           /\ tree' = [head |-> tree.head \cup {orch[p].task},
                       dirty |-> tree.dirty \ {orch[p].task}]
  <2> DEFINE o == [orch[p] EXCEPT !.pc = "reread"]
  <2>1. /\ o \in Threads /\ o.pc = "reread" /\ o.rec = orch[p].rec /\ o.task = orch[p].task
    BY <1>2 DEF Threads, Labels
  <2> HIDE DEF o
  <2>2. o.task \notin tree'.dirty
    BY <1>4, <2>1
  <2>3. FitsNext(o)
    BY <1>2, <1>4, <2>1, <2>2 DEF Commit, Here, FitsNext, Fits, Ruling, Working
  <2> QED
    BY <1>1, <1>2, <1>4, <2>3, ThreadStep DEF Labels, o
<1>5. [orch[p] EXCEPT !.timeout = TRUE] \in Threads
  BY <1>2 DEF Threads
<1> QED
  BY <1>2, <1>3, <1>4, <1>5 DEF Commit, GitTimesOut

LEMMA AcceptInductive ==
  ASSUME PlanInv, Forward, NEW p \in Processes, Accept(p) PROVE PlanInv'
<1> DEFINE r == orch[p].rec
           t == orch[p].task
           q == [r EXCEPT !.tasks[t].state = "ACCEPTED", !.head = orch[p].sha, !.active = None]
<1>1. orch[p].pc = "accept" /\ SaveAs(p, q, "loop")
  BY DEF Accept, Here
<1>2. /\ SoundNext(r) /\ r.state \notin TerminalPlanStates
      /\ Picks(deps', AcceptedOf(r), t) /\ t \in DoneIn(runs') /\ t \notin tree'.dirty
      /\ orch[p].sha \in Heads
      /\ StartedIn(runs') \subseteq AcceptedOf(r) \cup {t} => orch[p].sha = tree'.head
  BY <1>1, Knows DEF FitsNext, SoundNext, Fits, Ruling, Working
<1> HIDE DEF r, t
<1>3. SoundNext(q)
  BY <1>2, AcceptSound DEF SoundNext
<1> HIDE DEF q
<1> QED
  BY <1>1, <1>3, SaveStep DEF Labels, Bare

LEMMA VerifyInductive ==
  ASSUME PlanInv, Forward, NEW p \in Processes, FinalVerify(p) \/ VerifyTimesOut(p)
  PROVE  PlanInv'
<1> DEFINE r == orch[p].rec
           good == [r EXCEPT !.state = "COMPLETE", !.verified = TRUE]
           bad == [r EXCEPT !.state = "BLOCKED"]
<1>1. orch[p].pc = "verify"
  BY DEF FinalVerify, VerifyTimesOut, Here
<1>2. SoundNext(r) /\ AcceptedOf(r) = Tasks /\ orch[p] \in Threads
  BY <1>1, Knows DEF Fits, Ruling, Working
<1>3. CASE SaveAs(p, good, "release")
  <2> HIDE DEF r
  <2>1. SoundNext(good)
    BY <1>2, CompleteSound DEF SoundNext
  <2> HIDE DEF good
  <2> QED
    BY <1>1, <1>3, <2>1, SaveStep DEF Labels, Bare
<1>4. CASE SaveAs(p, bad, "release")
  <2> HIDE DEF r
  <2>1. "BLOCKED" \in PlanStates \ {"COMPLETE"} /\ "BLOCKED" \in TerminalPlanStates
    BY DEF PlanStates, TerminalPlanStates
  <2>2. SoundNext(bad)
    BY <1>2, <2>1, StateSound DEF SoundNext
  <2> HIDE DEF bad
  <2> QED
    BY <1>1, <1>4, <2>2, SaveStep DEF Labels, Bare
<1>5. CASE VerifyTimesOut(p)
  <2>1. [orch[p] EXCEPT !.timeout = TRUE] \in Threads
    BY <1>2 DEF Threads
  <2> QED
    BY <1>1, <1>5, <2>1, StayStep DEF VerifyTimesOut, Labels, Bare
<1> QED
  BY <1>3, <1>4, <1>5 DEF FinalVerify

LEMMA WayOutInductive ==
  ASSUME PlanInv, Forward, NEW p \in Processes, Raise(p) \/ Report(p) \/ Release(p)
  PROVE  PlanInv'
<1>1. orch[p].pc # "idle" /\ orch[p] \in Threads
  BY Knows DEF Raise, Report, Release, Here
<1>2. Idle \in Threads
  BY DEF Idle, Threads, Labels
<1>3. CASE Raise(p)
  <2> DEFINE known == [Idle EXCEPT !.rec = row, !.timeout = orch[p].timeout]
             o == [known EXCEPT !.pc = "report"]
  <2>1. SoundNext(row) /\ row \in Records
    BY <1>1, Knows DEF SoundNext, Sound
  <2>2. known \in Threads
    BY <1>1, <1>2, <2>1 DEF Idle, Threads
  <2>3. o \in Threads /\ o.pc = "report" /\ o.rec = row
    BY <1>1, <2>1 DEF Idle, Threads, Labels
  <2> HIDE DEF o
  <2>4. FitsNext(o)
    BY <2>1, <2>3 DEF FitsNext, Fits, SoundNext, Ruling, Working
  <2> QED
    BY <1>1, <1>3, <2>2, <2>4, StayStep DEF Raise, Labels, o
<1>4. CASE Report(p)
  <2> DEFINE r == orch[p].rec
             x == IF CheckpointTimeout(p) THEN "INTERRUPTED" ELSE "FAILED"
             q == [r EXCEPT !.state = x]
  <2>1. orch[p].pc = "report" /\ SaveAs(p, q, "release")
    BY <1>4 DEF Report, Here
  <2>2. SoundNext(r)
    BY <2>1, Knows
  <2>3. x \in PlanStates \ {"COMPLETE"}
    BY DEF PlanStates, TerminalPlanStates
  <2>4. x \in TerminalPlanStates \/ r.active # None
    BY DEF CheckpointTimeout, TerminalPlanStates
  <2> HIDE DEF r, x
  <2>5. SoundNext(q)
    <3>1. x \in TerminalPlanStates \/ \A t \in Tasks : r.tasks[t].state # "FAILED"
      BY <2>2, <2>4 DEF SoundNext, Sound
    <3> QED
      BY <2>2, <2>3, <3>1, StateSound DEF SoundNext
  <2> HIDE DEF q
  <2> QED
    BY <2>1, <2>5, SaveStep DEF Labels, Bare
<1>5. CASE Release(p)
  BY <1>1, <1>2, <1>5, StayStep DEF Release, Labels, Bare
<1> QED
  BY <1>3, <1>4, <1>5

-----------------------------------------------------------------------------
(* The other steps: launches, cancels, calls of run_start, runs, crashes.    *)

LEMMA LaunchInductive ==
  ASSUME PlanInv, Forward, NEW p \in Processes, Start(p) \/ Resume(p) PROVE PlanInv'
<1>1. /\ UNCHANGED <<runs, call, deps, tree, orch, cancel, born>>
      /\ waiting' = [waiting EXCEPT ![p] = @ + 1]
  BY DEF Start, Resume, Launch, admissionVars
<1>2. PlanTyped'
  BY <1>1 DEF PlanInv, PlanTyped
<1>3. SoundNext(row')
  <2>1. row # None => SoundNext(row)
    BY SoundCarries DEF PlanInv, RowFits
  <2>2. StartedIn(runs') = {} => tree'.head = {}
    BY DEF Forward, TreeFits
  <2>3. SoundNext(NewRecord)
    BY <2>2, NewSound DEF SoundNext
  <2>4. (row' = row /\ row # None) \/ row' = NewRecord
    BY DEF Start, Resume
  <2> QED
    BY <2>1, <2>3, <2>4
<1>4. RowFits'
  BY <1>3, RowCarries
<1>5. AdmissionInv'
  BY <1>1, AdmissionInductive DEF PlanInv, admissionVars
<1> QED
  BY <1>1, <1>2, <1>4, <1>5, RestCarries DEF PlanInv

LEMMA ContendInductive ==
  ASSUME PlanInv, Forward, NEW p \in Processes, Contend(p) PROVE PlanInv'
<1>1. /\ UNCHANGED <<runs, call, deps, row, tree, cancel, born>>
      /\ waiting[p] > 0 /\ waiting' = [waiting EXCEPT ![p] = @ - 1]
  BY DEF Contend, admissionVars
<1>2. orch \in [Processes -> Threads] /\ waiting \in [Processes -> Nat]
  BY DEF PlanInv, PlanTyped
<1>3. SoundNext(row) /\ row \in Records
  BY <1>1, SoundCarries DEF PlanInv, RowFits, SoundNext, Sound
<1>4. \/ orch' = orch
      \/ orch' = [orch EXCEPT ![p] = [Idle EXCEPT !.pc = "release"]]
      \/ /\ row.state \notin TerminalPlanStates
         /\ orch' = [orch EXCEPT ![p] = [Idle EXCEPT !.pc = "announce", !.rec = row]]
  BY DEF Contend
<1>5. ASSUME NEW o \in Threads, FitsNext(o), o.pc # "starting", orch' = [orch EXCEPT ![p] = o]
      PROVE  ThreadsFit' /\ orch' \in [Processes -> Threads]
  <2>1. orch' \in [Processes -> Threads] /\ orch'[p] = o
        /\ \A q \in Processes : q # p => orch'[q] = orch[q]
    BY <1>2, <1>5
  <2>2. ASSUME NEW q \in Processes
        PROVE  FitsNext(orch'[q]) /\ (orch'[q].pc = "starting" => call'[q].task = orch'[q].task)
    <3>1. CASE q = p
      BY <1>5, <2>1, <3>1
    <3>2. CASE q # p
      BY <1>1, <2>1, <3>2, FitsCarries DEF PlanInv, ThreadsFit
    <3> QED
      BY <3>1, <3>2
  <2> QED
    BY <2>1, <2>2 DEF ThreadsFit, FitsNext
<1>6. ThreadsFit' /\ orch' \in [Processes -> Threads]
  <2>1. CASE orch' = orch
    BY <1>1, <1>2, <2>1, RestCarries
  <2>2. CASE orch' = [orch EXCEPT ![p] = [Idle EXCEPT !.pc = "release"]]
    <3> DEFINE o == [Idle EXCEPT !.pc = "release"]
    <3>1. o \in Threads /\ o.pc = "release"
      BY DEF Idle, Threads, Labels
    <3> HIDE DEF o
    <3>2. FitsNext(o)
      BY <3>1, RestFits DEF FitsNext, Bare
    <3> QED
      BY <1>5, <2>2, <3>1, <3>2 DEF o
  <2>3. CASE /\ row.state \notin TerminalPlanStates
             /\ orch' = [orch EXCEPT ![p] = [Idle EXCEPT !.pc = "announce", !.rec = row]]
    <3> DEFINE o == [Idle EXCEPT !.pc = "announce", !.rec = row]
    <3>1. o \in Threads /\ o.pc = "announce" /\ o.rec = row
      BY <1>3 DEF Idle, Threads, Labels
    <3> HIDE DEF o
    <3>2. FitsNext(o)
      BY <1>3, <2>3, <3>1 DEF FitsNext, Fits, SoundNext, Ruling, Working
    <3> QED
      BY <1>5, <2>3, <3>1, <3>2 DEF o
  <2> QED
    BY <1>4, <2>1, <2>2, <2>3
<1>7. PlanTyped'
  <2>1. waiting' \in [Processes -> Nat]
    BY <1>1, <1>2
  <2> QED
    BY <1>1, <1>6, <2>1 DEF PlanInv, PlanTyped
<1>8. RowFits'
  BY <1>1, <1>3, RowCarries
<1>9. AdmissionInv'
  BY <1>1, AdmissionInductive DEF PlanInv, admissionVars
<1> QED
  BY <1>1, <1>6, <1>7, <1>8, <1>9, RestCarries DEF PlanInv

\* What the steps of plan_cancel share.
LEMMA CancelStep ==
  ASSUME PlanInv, Forward, UNCHANGED <<call, orch, waiting, born>>, NEW p \in Processes, NEW k,
         k \in [pc : {"idle", "child", "save"}, rec : Records \cup {None}],
         k.pc \in {"child", "save"} => SoundNext(k.rec),
         cancel' = [cancel EXCEPT ![p] = k], row' = row \/ SoundNext(row'),
         AdmissionInv'
  PROVE  PlanInv'
<1>1. cancel \in [Processes -> [pc : {"idle", "child", "save"}, rec : Records \cup {None}]]
  BY DEF PlanInv, PlanTyped
<1>2. /\ cancel' \in [Processes -> [pc : {"idle", "child", "save"}, rec : Records \cup {None}]]
      /\ cancel'[p] = k /\ \A q \in Processes : q # p => cancel'[q] = cancel[q]
  BY <1>1
<1>3. PlanTyped'
  BY <1>2 DEF PlanInv, PlanTyped, Forward
<1>4. CancelsFit'
  <2>1. ASSUME NEW q \in Processes, cancel'[q].pc \in {"child", "save"}
        PROVE  SoundNext(cancel'[q].rec)
    <3>1. CASE q = p
      BY <1>2, <2>1, <3>1
    <3>2. CASE q # p
      BY <1>2, <2>1, <3>2, SoundCarries DEF PlanInv, CancelsFit
    <3> QED
      BY <3>1, <3>2
  <2> QED
    BY <2>1 DEF CancelsFit, SoundNow, SoundNext
<1>5. RowFits'
  BY RowCarries
<1> QED
  BY <1>3, <1>4, <1>5, RestCarries DEF PlanInv

LEMMA CancelInductive ==
  ASSUME PlanInv, Forward, NEW p \in Processes,
         CancelReads(p) \/ CancelChild(p) \/ CancelSaves(p)
  PROVE  PlanInv'
<1> DEFINE r == cancel[p].rec
           Cancels == [pc : {"idle", "child", "save"}, rec : Records \cup {None}]
<1>1. UNCHANGED <<call, orch, waiting, born>>
  BY DEF CancelReads, CancelChild, CancelSaves, admissionVars
<1>2. cancel \in [Processes -> Cancels] /\ cancel[p] \in Cancels
  BY DEF PlanInv, PlanTyped
<1>3. NoCancel \in Cancels /\ NoCancel.pc = "idle"
  BY DEF NoCancel
<1>4. cancel[p].pc \in {"child", "save"} => SoundNext(r)
  BY SoundCarries DEF PlanInv, CancelsFit
<1>5. AdmissionInv /\ AdmissionTypeOK /\ runs \in [RunIds -> Runs \cup {None}]
  BY DEF PlanInv, AdmissionInv, AdmissionTypeOK
<1>6. UNCHANGED runs => AdmissionInv'
  BY <1>1, <1>5, UnchangedKeeps, KeptAlone
<1>7. CASE CancelReads(p)
  <2> DEFINE k == [pc |-> "child", rec |-> row]
  <2>1. row # None /\ row' = row /\ UNCHANGED runs /\ cancel' = [cancel EXCEPT ![p] = k]
    BY <1>7 DEF CancelReads, admissionVars
  <2>2. SoundNext(row) /\ row \in Records
    BY <2>1, SoundCarries DEF PlanInv, RowFits, SoundNext, Sound
  <2>3. k \in Cancels /\ k.rec = row
    BY <2>2
  <2> HIDE DEF k
  <2> QED
    BY <1>1, <1>6, <2>1, <2>2, <2>3, CancelStep
<1>8. CASE CancelChild(p)
  <2> DEFINE child == Child(r, r.active)
             k == [cancel[p] EXCEPT !.pc = "save"]
  <2>1. cancel[p].pc = "child" /\ row' = row
    BY <1>8 DEF CancelChild
  <2>2. k \in Cancels /\ k.rec = r
    BY <1>2
  <2>3. cancel' = [cancel EXCEPT ![p] = k] \/ cancel' = [cancel EXCEPT ![p] = NoCancel]
    BY <1>8 DEF CancelChild
  <2>4. AdmissionInv'
    <3>1. CASE UNCHANGED runs
      BY <1>6, <3>1
    <3>2. CASE runs' # runs
      <4>1. /\ r.active # None /\ runs[child] # None
            /\ runs' = [runs EXCEPT ![child].state = "CANCELLED"]
        BY <1>8, <3>2 DEF CancelChild
      <4>2. SoundNext(r)
        BY <1>4, <2>1
      <4> HIDE DEF child, r
      <4>3. r \in Records /\ r.active \in Tasks /\ \A t \in Tasks : r.tasks[t].attempt = 0
        BY <4>1, <4>2 DEF SoundNext, Sound, Records
      <4>4. child \in RunIds
        BY <4>3, PlanAssumption DEF child, Child
      <4>5. Kept
        BY <1>5, <4>1, <4>4, StateKeeps DEF AdmittedStates, OverStates
      <4> QED
        BY <1>1, <1>5, <4>5, KeptAlone
    <3> QED
      BY <3>1, <3>2
  <2> HIDE DEF k
  <2>5. CASE cancel' = [cancel EXCEPT ![p] = k]
    BY <1>1, <1>4, <2>1, <2>2, <2>4, <2>5, CancelStep
  <2>6. CASE cancel' = [cancel EXCEPT ![p] = NoCancel]
    BY <1>1, <1>3, <2>1, <2>4, <2>6, CancelStep
  <2> QED
    BY <2>3, <2>5, <2>6
<1>9. CASE CancelSaves(p)
  <2> DEFINE q == [r EXCEPT !.state = "CANCELLED",
                     !.tasks = [t \in Tasks |->
                        IF @[t].state \in {"PENDING", "READY"}
                        THEN [@[t] EXCEPT !.state = "CANCELLED"] ELSE @[t]]]
  <2>1. /\ cancel[p].pc = "save" /\ UNCHANGED runs /\ cancel' = [cancel EXCEPT ![p] = NoCancel]
        /\ row' = IF r.state \in TerminalPlanStates THEN row ELSE q
    BY <1>9 DEF CancelSaves, admissionVars
  <2>2. SoundNext(r)
    BY <1>4, <2>1
  <2>3. r.state \notin TerminalPlanStates => SoundNext(q)
    <3> HIDE DEF r
    <3> QED
      BY <2>2, CancelledSound DEF SoundNext
  <2> HIDE DEF q
  <2>4. row' = row \/ SoundNext(row')
    BY <2>1, <2>3
  <2> QED
    BY <1>1, <1>3, <1>6, <2>1, <2>4, CancelStep
<1> QED
  BY <1>7, <1>8, <1>9

LEMMA RunStepInductive ==
  ASSUME PlanInv, Forward, NEW i \in RunIds, Edit(i) \/ Finish(i) \/ Revive(i)
  PROVE  PlanInv'
<1>1. UNCHANGED <<call, row, orch, waiting, cancel, born>>
  BY DEF Edit, Finish, Revive, admissionVars, planVars
<1>2. PlanTyped'
  BY <1>1 DEF Forward, PlanInv, PlanTyped
<1>3. RowFits'
  BY <1>1, RowCarries
<1>4. AdmissionTypeOK /\ AdmissionInv /\ runs \in [RunIds -> Runs \cup {None}]
  BY DEF PlanInv, AdmissionInv, AdmissionTypeOK
<1>5. CASE Edit(i)
  <2>1. Kept
    BY <1>4, <1>5, UnchangedKeeps DEF Edit, admissionVars
  <2> QED
    BY <1>1, <1>2, <1>3, <1>4, <2>1, KeptAlone, RestCarries DEF PlanInv
<1>6. CASE Finish(i)
  <2>1. PICK s \in {"COMPLETE", "FAILED", "STOPPED"}, ok \in BOOLEAN :
          runs' = [runs EXCEPT ![i].state = s, ![i].accepted = ok]
    BY <1>6 DEF Finish
  <2> DEFINE m == [runs[i] EXCEPT !.state = s, !.accepted = ok]
  <2>2. runs[i] # None /\ runs[i] \in Runs
    BY <1>4, <1>6 DEF Finish, Present
  <2>3. m \in Runs /\ m.key = runs[i].key
    BY <2>2 DEF Runs, AdmittedStates, OverStates
  <2>4. runs' = [runs EXCEPT ![i] = m]
    BY <1>4, <2>1, <2>2 DEF Runs
  <2> HIDE DEF m
  <2>5. Kept
    BY <1>4, <2>2, <2>3, <2>4, AdmissionAssumption DEF Kept
  <2> QED
    BY <1>1, <1>2, <1>3, <1>4, <2>5, KeptAlone, RestCarries DEF PlanInv
<1>7. CASE Revive(i)
  <2>1. runs[i] # None /\ runs' = [runs EXCEPT ![i].state = "active"]
    BY <1>7 DEF Revive, Present
  <2>2. Kept
    BY <1>4, <2>1, StateKeeps DEF AdmittedStates
  <2> QED
    BY <1>1, <1>2, <1>3, <1>4, <2>2, KeptAlone, RestCarries DEF PlanInv
<1> QED
  BY <1>5, <1>6, <1>7

\* What the steps share that move the call and the thread of p.
LEMMA CallStep ==
  ASSUME PlanInv, Forward, NEW p \in Processes, UNCHANGED <<row, tree, Aside>>,
         orch[p].pc # "idle", AdmissionInv',
         \A c \in Starters : c # p => call'[c] = call[c],
         CallFits(call'[p], deps, StartedIn(runs'), DoneIn(runs')),
         NEW label \in Labels \ Bare, orch' = [orch EXCEPT ![p] = [@ EXCEPT !.pc = label]],
         FitsNext([orch[p] EXCEPT !.pc = label]),
         label = "starting" => call'[p].task = orch[p].task,
         born' \in [Tasks -> [base : Heads \cup {None}, tree : Trees] \cup {None}], BirthsFit'
  PROVE  PlanInv'
<1> DEFINE o == [orch[p] EXCEPT !.pc = label]
<1>1. orch \in [Processes -> Threads] /\ orch[p] \in Threads
  BY DEF PlanInv, PlanTyped
<1>2. o \in Threads /\ o.pc = label /\ o.task = orch[p].task
  BY <1>1 DEF Threads
<1>3. orch' = [orch EXCEPT ![p] = o]
  OBVIOUS
<1> HIDE DEF o
<1>4. /\ orch' \in [Processes -> Threads] /\ orch'[p] = o
      /\ \A q \in Processes : q # p => orch'[q] = orch[q]
  BY <1>1, <1>2, <1>3
<1>5. UNCHANGED <<deps, waiting, cancel>>
  BY DEF Aside
<1>6. PlanTyped'
  BY <1>4, <1>5 DEF PlanInv, PlanTyped
<1>7. CallsFit'
  <2>1. ASSUME NEW c \in Starters
        PROVE  CallFits(call'[c], deps', StartedIn(runs'), DoneIn(runs'))
    <3>1. CASE c = p
      BY <1>5, <3>1
    <3>2. CASE c # p
      BY <3>2, CallCarries
    <3> QED
      BY <3>1, <3>2
  <2> QED
    BY <2>1 DEF CallsFit
<1>8. ThreadsFit'
  <2>1. ASSUME NEW q \in Processes
        PROVE  FitsNext(orch'[q]) /\ (orch'[q].pc = "starting" => call'[q].task = orch'[q].task)
    <3>1. CASE q = p
      BY <1>2, <1>4, <3>1 DEF o
    <3>2. CASE q # p
      BY <1>4, <3>2, FitsCarries, PlanAssumption DEF PlanInv, ThreadsFit
    <3> QED
      BY <3>1, <3>2
  <2> QED
    BY <2>1 DEF ThreadsFit, FitsNext
<1>9. RowFits'
  <2>1. \A q \in Processes : \/ ~ (waiting'[q] > 0) /\ orch'[q].pc = "idle"
                             \/ waiting[q] > 0 \/ orch[q].pc # "idle"
    BY <1>4, <1>5
  <2> QED
    BY <2>1, RowCarries
<1> QED
  BY <1>5, <1>6, <1>7, <1>8, <1>9, RestCarries DEF PlanInv

LEMMA LookUpInductive ==
  ASSUME PlanInv, Forward, NEW p \in Processes, LookUp(p) PROVE PlanInv'
<1> DEFINE r == orch[p].rec
           t == orch[p].task
           A == AcceptedOf(r)
<1>1. /\ orch[p].pc = "lookup" /\ UNCHANGED <<row, tree, Aside>>
  BY DEF LookUp, Here
<1>2. /\ orch[p] \in Threads /\ FitsNext(orch[p]) /\ SoundNow(r)
      /\ Picks(deps, A, t) /\ r.tasks[t].child = ChildId(t, 0) /\ r.tasks[t].base = r.head
  BY <1>1, Knows DEF Fits, Ruling, Working
<1>3. Mine(p) = ChildId(t, 0) /\ Mine(p) \in RunIds /\ t \in Tasks
  BY <1>2, PicksFits, PlanAssumption DEF Mine
<1>4. UNCHANGED deps /\ p \in Starters
  BY <1>1, PlanAssumption DEF Aside
<1>5. CASE runs[Mine(p)] # None
  <2> DEFINE o == [orch[p] EXCEPT !.pc = "supervise"]
  <2>1. Goto(p, "supervise", orch[p]) /\ UNCHANGED <<admissionVars, born>>
    BY <1>5 DEF LookUp
  <2>2. t \in StartedIn(runs) /\ UNCHANGED runs
    BY <1>3, <1>5, <2>1 DEF StartedIn, admissionVars
  <2>3. o \in Threads /\ o.pc = "supervise" /\ o.rec = r /\ o.task = t
    BY <1>2 DEF Threads, Labels
  <2> HIDE DEF o, r, t
  <2>4. FitsNext(o)
    BY <1>1, <1>2, <2>2, <2>3 DEF FitsNext, Fits, Ruling, Working, r, t
  <2> QED
    BY <1>1, <1>2, <2>1, <2>4, ThreadStep DEF Labels, o
<1>6. CASE runs[Mine(p)] = None
  <2> DEFINE o == [orch[p] EXCEPT !.pc = "starting"]
             b == [base |-> r.tasks[t].base, tree |-> tree]
  <2>1. /\ RunStart(p, t, None, Mine(p)) /\ Goto(p, "starting", orch[p])
        /\ born' = [born EXCEPT ![t] = b]
    BY <1>6 DEF LookUp
  <2>2. UNCHANGED runs /\ t \notin StartedIn(runs)
    BY <1>3, <1>6, <2>1 DEF RunStart, StartedIn
  <2>3. AdmissionInv'
    BY <1>3, <1>4, <2>1, StartKeeps DEF PlanInv
  <2>4. r \in Records /\ A \in Chain(deps) /\ A \subseteq DoneIn(runs) \ tree.dirty
    BY <1>2 DEF SoundNow, Sound
  <2>5. StartedIn(runs) \subseteq A
    <3>1. RunsFit(runs, deps)
      BY DEF PlanInv, WorldFits
    <3>2. /\ \A u \in StartedIn(runs) : Rooted(deps, DoneIn(runs), u)
          /\ DoneIn(runs) \subseteq StartedIn(runs)
      BY <3>1, OwnChild
    <3> HIDE DEF A, t
    <3> QED
      BY <1>2, <2>2, <2>4, <3>2, NothingAhead
  <2>6. r.tasks[t].base = tree.head
    BY <1>2, <2>5 DEF SoundNow, Sound
  <2>7. BornFits(b, t, deps, DoneIn(runs))
    <3>1. deps[t] \subseteq A
      BY <1>2, PicksFits
    <3> HIDE DEF r, t, A
    <3> QED
      BY <2>4, <2>6, <3>1 DEF BornFits
  <2>8. tree \in Trees /\ tree.head \in Heads
    BY DEF PlanInv, PlanTyped, Trees
  <2>9. b \in [base : Heads \cup {None}, tree : Trees]
    BY <2>6, <2>8
  <2>10. /\ born \in [Tasks -> [base : Heads \cup {None}, tree : Trees] \cup {None}]
         /\ BirthsFit
    BY DEF PlanInv, PlanTyped
  <2> HIDE DEF b
  <2>11. born' \in [Tasks -> [base : Heads \cup {None}, tree : Trees] \cup {None}]
    BY <1>3, <2>1, <2>9, <2>10
  <2>12. BirthsFit'
    <3>1. ASSUME NEW u \in Tasks, born'[u] # None
          PROVE  BornFits(born'[u], u, deps', DoneIn(runs'))
      <4>1. CASE u = t
        <5>1. born'[u] = b
          BY <1>3, <2>1, <2>10, <4>1
        <5> QED
          BY <1>4, <2>2, <2>7, <4>1, <5>1
      <4>2. CASE u # t
        <5>1. born'[u] = born[u]
          BY <1>3, <2>1, <2>10, <4>2
        <5> QED
          BY <1>4, <2>2, <2>10, <3>1, <5>1 DEF BirthsFit
      <4> QED
        BY <4>1, <4>2
    <3> QED
      BY <3>1 DEF BirthsFit
  <2>13. /\ call'[p].task = t /\ call'[p].key = None /\ call'[p].id = ChildId(t, 0)
         /\ call'[p].stage = "keyed" /\ \A c \in Starters : c # p => call'[c] = call[c]
    <3>1. call \in [Starters -> CallRecords]
      BY DEF PlanInv, AdmissionInv, AdmissionTypeOK
    <3> QED
      BY <1>3, <1>4, <2>1, <3>1 DEF RunStart
  <2>14. Rooted(deps, DoneIn(runs), t)
    BY <1>2, <2>4 DEF Rooted
  <2>15. CallFits(call'[p], deps, StartedIn(runs'), DoneIn(runs'))
    BY <1>3, <2>2, <2>13, <2>14 DEF CallFits
  <2>16. o \in Threads /\ o.pc = "starting" /\ o.rec = r /\ o.task = t
    BY <1>2 DEF Threads, Labels
  <2>17. orch' = [orch EXCEPT ![p] = [@ EXCEPT !.pc = "starting"]]
    BY <2>1 DEF Goto
  <2> HIDE DEF o, r, t, A
  <2>18. FitsNext(o)
    BY <1>1, <1>2, <2>16 DEF FitsNext, Fits, Ruling, Working, r, t, A
  <2> QED
    BY <1>1, <2>3, <2>11, <2>12, <2>13, <2>15, <2>17, <2>18, CallStep DEF Labels, Bare, o, t
<1> QED
  BY <1>5, <1>6

LEMMA StartedInductive ==
  ASSUME PlanInv, Forward, NEW p \in Processes, Started(p) PROVE PlanInv'
<1> DEFINE t == orch[p].task
<1>1. /\ orch[p].pc = "starting" /\ UNCHANGED <<row, tree, born, Aside>> /\ Return(p)
      /\ call'= [call EXCEPT ![p] = NoCall] /\ UNCHANGED runs
  BY DEF Started, Here, Return
<1>2. p \in Starters /\ call \in [Starters -> CallRecords]
  BY PlanAssumption DEF PlanInv, AdmissionInv, AdmissionTypeOK
<1>3. AdmissionInv'
  BY <1>1, <1>2, AdmissionInductive DEF AdmissionNext, PlanInv
<1>4. call'[p] = NoCall /\ \A c \in Starters : c # p => call'[c] = call[c]
  BY <1>1, <1>2
<1>5. CallFits(call'[p], deps, StartedIn(runs'), DoneIn(runs'))
  BY <1>4 DEF CallFits, NoCall
<1>6. orch[p] \in Threads /\ FitsNext(orch[p])
  BY Knows
<1>7. CASE call[p].stage = "answered"
  <2> DEFINE o == [orch[p] EXCEPT !.pc = "supervise"]
  <2>1. orch' = [orch EXCEPT ![p] = [@ EXCEPT !.pc = "supervise"]]
    BY <1>7 DEF Started, Goto
  <2>2. t \in StartedIn(runs')
    BY <1>1, <1>2, <1>7 DEF PlanInv, CallsFit, CallFits, ThreadsFit
  <2>3. o \in Threads /\ o.pc = "supervise" /\ o.rec = orch[p].rec /\ o.task = t
    BY <1>6 DEF Threads, Labels
  <2> HIDE DEF o
  <2>4. FitsNext(o)
    BY <1>1, <1>6, <2>2, <2>3 DEF FitsNext, Fits, Ruling, Working
  <2>5. BirthsFit' /\ born' \in [Tasks -> [base : Heads \cup {None}, tree : Trees] \cup {None}]
    BY <1>1, RestCarries DEF PlanInv, PlanTyped
  <2> QED
    BY <1>1, <1>3, <1>4, <1>5, <2>1, <2>4, <2>5, CallStep DEF Labels, Bare, o
<1>8. CASE call[p].stage # "answered"
  <2> DEFINE o == [Idle EXCEPT !.pc = "raise", !.timeout = orch[p].timeout]
  <2>1. orch' = [orch EXCEPT ![p] = o]
    BY <1>8 DEF Started, Goto
  <2>2. o \in Threads /\ o.pc = "raise"
    BY <1>6 DEF Idle, Threads, Labels
  <2> HIDE DEF o
  <2>3. FitsNext(o)
    BY <2>2, RestFits DEF FitsNext, Bare
  <2>4. orch \in [Processes -> Threads]
    BY DEF PlanInv, PlanTyped
  <2>5. /\ orch' \in [Processes -> Threads] /\ orch'[p] = o
        /\ \A q \in Processes : q # p => orch'[q] = orch[q]
    BY <2>1, <2>2, <2>4
  <2>6. UNCHANGED <<deps, waiting, cancel>>
    BY <1>1 DEF Aside
  <2>7. PlanTyped'
    BY <1>1, <2>5, <2>6 DEF PlanInv, PlanTyped
  <2>8. CallsFit'
    <3>1. ASSUME NEW c \in Starters
          PROVE  CallFits(call'[c], deps', StartedIn(runs'), DoneIn(runs'))
      BY <1>4, <1>5, <2>6, CallCarries
    <3> QED
      BY <3>1 DEF CallsFit
  <2>9. ThreadsFit'
    <3>1. ASSUME NEW q \in Processes
          PROVE  FitsNext(orch'[q]) /\ (orch'[q].pc = "starting" => call'[q].task = orch'[q].task)
      <4>1. CASE q = p
        BY <2>2, <2>3, <2>5, <4>1
      <4>2. CASE q # p
        BY <1>4, <2>5, <4>2, FitsCarries, PlanAssumption DEF PlanInv, ThreadsFit
      <4> QED
        BY <4>1, <4>2
    <3> QED
      BY <3>1 DEF ThreadsFit, FitsNext
  <2>10. RowFits'
    <3>1. \A q \in Processes : \/ ~ (waiting'[q] > 0) /\ orch'[q].pc = "idle"
                               \/ waiting[q] > 0 \/ orch[q].pc # "idle"
      BY <1>1, <2>5, <2>6
    <3> QED
      BY <1>1, <3>1, RowCarries
  <2> QED
    BY <1>1, <1>3, <2>6, <2>7, <2>8, <2>9, <2>10, RestCarries DEF PlanInv
<1> QED
  BY <1>7, <1>8

\* A call without a key knows no run, so that admitting it is its stage going on.
LEMMA AdmitAdvances ==
  ASSUME PlanInv, NEW c \in Starters, Admit(c), UNCHANGED planVars
  PROVE  /\ \A x \in Starters : x # c => call'[x] = call[x]
         /\ call'[c].task = call[c].task
         /\ CallFits(call'[c], deps, StartedIn(runs'), DoneIn(runs'))
<1> DEFINE k == call[c]
<1>1. call \in [Starters -> CallRecords] /\ k \in CallRecords
  BY DEF PlanInv, AdmissionInv, AdmissionTypeOK
<1>2. Forward
  BY AdmitForward
<1>3. StartedIn(runs) \subseteq StartedIn(runs') /\ DoneIn(runs) \subseteq DoneIn(runs')
  BY <1>2 DEF Forward, Onward
<1>4. k.stage # "idle"
  BY DEF Admit, RefuseCredentials, FindByKey, CheckActive, Insert, Spawn, SpawnFails
<1>5. /\ k.task \in Tasks /\ k.key = None /\ k.id = ChildId(k.task, 0)
      /\ Rooted(deps, DoneIn(runs), k.task) /\ (k.stage = "spawning" => k.task \in StartedIn(runs))
  <2>1. CallFits(k, deps, StartedIn(runs), DoneIn(runs))
    BY DEF PlanInv, CallsFit
  <2> HIDE DEF k
  <2> QED
    BY <1>4, <2>1 DEF CallFits
<1>6. ASSUME NEW x \in Stages, Advance(c, x),
             x \in {"spawning", "answered"} => k.task \in StartedIn(runs')
      PROVE  /\ \A y \in Starters : y # c => call'[y] = call[y]
             /\ call'[c].task = call[c].task
             /\ CallFits(call'[c], deps, StartedIn(runs'), DoneIn(runs'))
  <2>1. /\ call'[c].stage = x /\ call'[c].task = k.task /\ call'[c].key = k.key
        /\ call'[c].id = k.id /\ \A y \in Starters : y # c => call'[y] = call[y]
    BY <1>1, <1>6 DEF Advance, CallRecords
  <2>2. Rooted(deps, DoneIn(runs'), k.task)
    BY <1>3, <1>5, RootedStays
  <2> HIDE DEF k
  <2>3. CallFits(call'[c], deps, StartedIn(runs'), DoneIn(runs'))
    BY <1>5, <1>6, <2>1, <2>2 DEF CallFits
  <2> QED
    BY <2>1, <2>3 DEF k
<1>7. CASE RefuseCredentials(c)
  BY <1>6, <1>7 DEF RefuseCredentials, Stages
<1>8. CASE FindByKey(c)
  <2>1. Advance(c, "checked")
    BY <1>5, <1>8 DEF FindByKey, Known
  <2> QED
    BY <1>6, <2>1 DEF Stages
<1>9. CASE CheckActive(c)
  BY <1>6, <1>9 DEF CheckActive, Stages
<1>10. CASE Insert(c)
  <2>1. CASE Advance(c, "refused")
    BY <1>6, <2>1 DEF Stages
  <2>2. CASE Insertable(c) /\ Advance(c, "spawning")
    <3> DEFINE new == [task |-> k.task, key |-> k.key, state |-> "active", accepted |-> FALSE]
    <3>1. runs' = [runs EXCEPT ![k.id] = new] /\ runs \in [RunIds -> Runs \cup {None}]
      BY <1>10, <2>2 DEF Insert, Insertable, PlanInv, AdmissionInv, AdmissionTypeOK, Advance
    <3>2. new \in Runs /\ ChildId(k.task, 0) \in RunIds
      BY <1>5, PlanAssumption DEF Runs, AdmittedStates
    <3> HIDE DEF new
    <3>3. runs'[ChildId(k.task, 0)] # None
      BY <1>5, <3>1, <3>2, AdmissionAssumption
    <3>4. k.task \in StartedIn(runs')
      BY <1>5, <3>3 DEF StartedIn
    <3> QED
      BY <1>6, <2>2, <3>4 DEF Stages
  <2> QED
    BY <1>10, <2>1, <2>2 DEF Insert
<1>11. CASE Spawn(c) \/ SpawnFails(c)
  BY <1>3, <1>5, <1>6, <1>11 DEF Spawn, SpawnFails, Stages
<1> QED
  BY <1>7, <1>8, <1>9, <1>10, <1>11 DEF Admit

LEMMA AdmitInductive ==
  ASSUME PlanInv, Forward, NEW p \in Processes, Admit(p), UNCHANGED planVars PROVE PlanInv'
<1>1. UNCHANGED <<deps, row, tree, orch, waiting, cancel, born>>
  BY DEF planVars
<1>2. p \in Starters
  BY PlanAssumption
<1>3. AdmissionInv'
  BY <1>2, AdmissionInductive DEF AdmissionNext, PlanInv
<1>4. /\ \A x \in Starters : x # p => call'[x] = call[x]
      /\ call'[p].task = call[p].task
      /\ CallFits(call'[p], deps, StartedIn(runs'), DoneIn(runs'))
  BY <1>2, AdmitAdvances
<1>5. CallsFit'
  <2>1. ASSUME NEW c \in Starters
        PROVE  CallFits(call'[c], deps', StartedIn(runs'), DoneIn(runs'))
    BY <1>1, <1>4, CallCarries
  <2> QED
    BY <2>1 DEF CallsFit
<1>6. ThreadsFit'
  <2>1. ASSUME NEW q \in Processes
        PROVE  FitsNext(orch'[q]) /\ (orch'[q].pc = "starting" => call'[q].task = orch'[q].task)
    <3>1. q \in Starters /\ call'[q].task = call[q].task
      BY <1>4, PlanAssumption
    <3> QED
      BY <1>1, <3>1, FitsCarries DEF PlanInv, ThreadsFit
  <2> QED
    BY <2>1 DEF ThreadsFit, FitsNext
<1>7. RowFits'
  BY <1>1, RowCarries
<1>8. PlanTyped'
  BY <1>1 DEF PlanInv, PlanTyped
<1> QED
  BY <1>1, <1>3, <1>5, <1>6, <1>7, <1>8, RestCarries DEF PlanInv

LEMMA CrashInductive ==
  ASSUME PlanInv, Forward, NEW p \in Processes, Crash(p) PROVE PlanInv'
<1>1. /\ UNCHANGED <<runs, deps, row, tree, born>>
      /\ orch' = [orch EXCEPT ![p] = Idle] /\ waiting' = [waiting EXCEPT ![p] = 0]
      /\ cancel' = [cancel EXCEPT ![p] = NoCancel] /\ call' = [call EXCEPT ![p] = NoCall]
  BY DEF Crash
<1>2. /\ orch \in [Processes -> Threads] /\ waiting \in [Processes -> Nat]
      /\ cancel \in [Processes -> [pc : {"idle", "child", "save"}, rec : Records \cup {None}]]
      /\ p \in Starters /\ call \in [Starters -> CallRecords]
  BY PlanAssumption DEF PlanInv, PlanTyped, AdmissionInv, AdmissionTypeOK
<1>3. Idle \in Threads /\ Idle.pc = "idle"
  BY DEF Idle, Threads, Labels
<1>4. NoCancel \in [pc : {"idle", "child", "save"}, rec : Records \cup {None}]
      /\ NoCancel.pc = "idle"
  BY DEF NoCancel
<1>5. NoCall \in CallRecords /\ NoCall.stage = "idle"
  BY DEF NoCall, CallRecords, Stages
<1>6. /\ orch' \in [Processes -> Threads] /\ orch'[p] = Idle
      /\ \A q \in Processes : q # p => orch'[q] = orch[q]
  BY <1>1, <1>2, <1>3
<1>7. /\ waiting' \in [Processes -> Nat] /\ waiting'[p] = 0
      /\ \A q \in Processes : q # p => waiting'[q] = waiting[q]
  BY <1>1, <1>2
<1>8. /\ cancel' \in [Processes -> [pc : {"idle", "child", "save"}, rec : Records \cup {None}]]
      /\ cancel'[p] = NoCancel /\ \A q \in Processes : q # p => cancel'[q] = cancel[q]
  BY <1>1, <1>2, <1>4
<1>9. /\ call' \in [Starters -> CallRecords] /\ call'[p] = NoCall
      /\ \A c \in Starters : c # p => call'[c] = call[c]
  BY <1>1, <1>2, <1>5
<1>10. PlanTyped'
  BY <1>1, <1>6, <1>7, <1>8 DEF PlanInv, PlanTyped
<1>11. AdmissionInv'
  <2>1. Kept
    BY <1>1, UnchangedKeeps DEF PlanInv, AdmissionInv
  <2>2. CallGoesOn(p)
    BY <1>9 DEF CallGoesOn
  <2> QED
    BY <1>2, <2>1, <2>2, GoingOnKeeps DEF PlanInv
<1>12. CallsFit'
  <2>1. ASSUME NEW c \in Starters
        PROVE  CallFits(call'[c], deps', StartedIn(runs'), DoneIn(runs'))
    <3>1. CASE c = p
      BY <1>5, <1>9, <3>1 DEF CallFits
    <3>2. CASE c # p
      BY <1>9, <3>2, CallCarries
    <3> QED
      BY <3>1, <3>2
  <2> QED
    BY <2>1 DEF CallsFit
<1>13. ThreadsFit'
  <2>1. ASSUME NEW q \in Processes
        PROVE  FitsNext(orch'[q]) /\ (orch'[q].pc = "starting" => call'[q].task = orch'[q].task)
    <3>1. CASE q = p
      BY <1>3, <1>6, <3>1, RestFits DEF FitsNext, Bare
    <3>2. CASE q # p
      BY <1>6, <1>9, <3>2, FitsCarries, PlanAssumption DEF PlanInv, ThreadsFit
    <3> QED
      BY <3>1, <3>2
  <2> QED
    BY <2>1 DEF ThreadsFit, FitsNext
<1>14. RowFits'
  <2>1. \A q \in Processes : \/ ~ (waiting'[q] > 0) /\ orch'[q].pc = "idle"
                             \/ waiting[q] > 0 \/ orch[q].pc # "idle"
    BY <1>3, <1>6, <1>7
  <2> QED
    BY <1>1, <2>1, RowCarries
<1>15. CancelsFit'
  <2>1. ASSUME NEW q \in Processes, cancel'[q].pc \in {"child", "save"}
        PROVE  SoundNext(cancel'[q].rec)
    BY <1>4, <1>8, <2>1, SoundCarries DEF PlanInv, CancelsFit
  <2> QED
    BY <2>1 DEF CancelsFit, SoundNow, SoundNext
<1> QED
  BY <1>1, <1>10, <1>11, <1>12, <1>13, <1>14, <1>15, RestCarries DEF PlanInv

-----------------------------------------------------------------------------
(* The invariant holds, and what it says of the plan.                        *)

LEMMA PlanInductive == ASSUME PlanInv, [Next]_vars PROVE PlanInv'
<1>1. CASE Next
  <2>1. Forward
    BY <1>1, StepForward
  <2>2. ASSUME NEW p \in Processes, Orchestrate(p) PROVE PlanInv'
    BY <2>1, <2>2, AnnounceInductive, ChooseInductive, LookUpInductive, AdmitInductive,
       StartedInductive, SuperviseInductive, JudgeInductive, CheckpointInductive,
       CommitInductive, AcceptInductive, VerifyInductive, WayOutInductive DEF Orchestrate
  <2> QED
    BY <1>1, <2>1, <2>2, LaunchInductive, ContendInductive, CrashInductive, CancelInductive,
       RunStepInductive DEF Next
<1>2. CASE UNCHANGED vars
  <2>1. Quiet /\ UNCHANGED <<admissionVars, row, orch, waiting, cancel, born>>
    BY <1>2 DEF vars, planVars, admissionVars, Quiet
  <2>2. Forward
    BY <2>1, QuietForward
  <2>3. AdmissionInv'
    BY <2>1, AdmissionInductive DEF PlanInv
  <2>4. RowFits'
    BY <2>1, <2>2, RowCarries
  <2>5. PlanTyped'
    BY <2>1 DEF PlanInv, PlanTyped, Quiet
  <2> QED
    BY <2>1, <2>2, <2>3, <2>4, <2>5, RestCarries DEF PlanInv, admissionVars
<1> QED
  BY <1>1, <1>2

LEMMA AlwaysPlanInv == Spec => []PlanInv
<1>1. Init => PlanInv
  BY InitPlanInv
<1>2. PlanInv /\ [Next]_vars => PlanInv'
  BY PlanInductive
<1> QED
  BY <1>1, <1>2, PTL DEF Spec

\* Every variable of the plan executor has its type.
THEOREM PlanTypeCorrect == Spec => []TypeOK
<1>1. PlanInv => TypeOK
  <2> SUFFICES ASSUME PlanInv PROVE TypeOK
    OBVIOUS
  <2>1. AdmissionTypeOK
    BY DEF PlanInv, AdmissionInv
  <2>2. row \in Records \cup {None}
    BY DEF PlanInv, RowFits, SoundNow, Sound
  <2>3. tree \in [head : Heads, dirty : SUBSET (Tasks \cup {Foreign})]
    BY DEF PlanInv, PlanTyped, Trees
  <2>4. ASSUME NEW p \in Processes
        PROVE  /\ orch[p] \in Threads /\ waiting[p] \in Nat
               /\ cancel[p].pc \in {"idle", "child", "save"}
               /\ cancel[p].rec \in Records \cup {None}
    BY DEF PlanInv, PlanTyped
  <2> QED
    BY <2>1, <2>2, <2>3, <2>4 DEF TypeOK
<1> QED
  BY <1>1, AlwaysPlanInv, PTL

LEMMA AtMostOne ==
  ASSUME NEW S, \A x, y \in S : x = y
  PROVE  Cardinality(S) <= 1
<1>1. CASE S = {}
  BY <1>1, FS_EmptySet
<1>2. CASE S # {}
  <2>1. PICK x : x \in S
    BY <1>2
  <2>2. S = {x}
    BY <2>1
  <2> QED
    BY <2>2, FS_Singleton
<1> QED
  BY <1>1, <1>2

\* The runs of the plan, by the invariant.
LEMMA ChildrenFit ==
  ASSUME PlanInv
  PROVE  /\ \A i \in Children : /\ runs[i].task \in Tasks /\ i = ChildId(runs[i].task, 0)
                                /\ Rooted(deps, DoneIn(runs), runs[i].task)
         /\ \A t \in DoneIn(runs) : RunAccepted(t)
<1>1. RunsFit(runs, deps)
  BY DEF PlanInv, WorldFits
<1>2. ASSUME NEW i \in Children
      PROVE  /\ runs[i].task \in Tasks /\ i = ChildId(runs[i].task, 0)
             /\ Rooted(deps, DoneIn(runs), runs[i].task)
  <2>1. i \in RunIds /\ runs[i] # None
    BY DEF Children, Present
  <2> QED
    BY <1>1, <2>1 DEF RunsFit
<1>3. ASSUME NEW t \in DoneIn(runs) PROVE RunAccepted(t)
  <2> DEFINE i == ChildId(t, 0)
  <2>1. t \in Tasks /\ runs[i] # None /\ Passed(runs[i]) /\ i \in RunIds
    BY PlanAssumption DEF DoneIn
  <2>2. i \in Children
    BY <2>1 DEF Children, Present
  <2>3. runs[i].task = t
    BY <1>1, <2>1, OwnChild DEF DoneIn, StartedIn
  <2> HIDE DEF i
  <2> QED
    BY <2>1, <2>2, <2>3 DEF RunAccepted, Passed
<1> QED
  BY <1>2, <1>3

\* A task's worker is never started a second time: not after a crash, a resume, a
\* lost save or by a second orchestrator.
THEOREM WorkersAreNotReplayed == Spec => []NoReplay
<1>1. PlanInv => NoReplay
  <2> SUFFICES ASSUME PlanInv, NEW t \in Tasks
               PROVE  Cardinality({i \in Children : runs[i].task = t}) <= 1
    BY DEF NoReplay
  <2>1. \A i, j \in {i \in Children : runs[i].task = t} : i = j
    BY ChildrenFit
  <2> QED
    BY <2>1, AtMostOne
<1> QED
  BY <1>1, AlwaysPlanInv, PTL

\* At most one child of a plan works at a time, however many orchestrators there are.
THEOREM OneChildWorks == Spec => []SingleActiveChild
<1>1. PlanInv => SingleActiveChild
  <2> SUFFICES ASSUME PlanInv
               PROVE  Cardinality({i \in Children : runs[i].state = "active"}) <= 1
    BY DEF SingleActiveChild
  <2>1. ASSUME NEW i \in Children, runs[i].state = "active"
        PROVE  /\ i = ChildId(runs[i].task, 0) /\ Rooted(deps, DoneIn(runs), runs[i].task)
               /\ runs[i].task \notin DoneIn(runs)
    <3>1. i = ChildId(runs[i].task, 0) /\ Rooted(deps, DoneIn(runs), runs[i].task)
      BY ChildrenFit
    <3>2. ~ Passed(runs[i])
      BY <2>1 DEF Passed
    <3>3. runs[i].task \notin DoneIn(runs)
      BY <3>1, <3>2 DEF DoneIn
    <3> QED
      BY <3>1, <3>3
  <2>2. \A i, j \in {i \in Children : runs[i].state = "active"} : i = j
    <3> SUFFICES ASSUME NEW i \in Children, NEW j \in Children,
                        runs[i].state = "active", runs[j].state = "active"
                 PROVE  i = j
      OBVIOUS
    <3>1. runs[i].task = runs[j].task
      BY <2>1, OneOnItsWay
    <3> QED
      BY <2>1, <3>1
  <2> QED
    BY <2>2, AtMostOne
<1> QED
  BY <1>1, AlwaysPlanInv, PTL

\* A child starts on the committed and accepted work of its dependencies, with the
\* head they left as its base; and a failed task stops the plan.
THEOREM WorkKeepsItsOrder == Spec => []OrderIsKept
<1>1. PlanInv => OrderIsKept
  <2> SUFFICES ASSUME PlanInv PROVE OrderIsKept
    OBVIOUS
  <2>1. ChildBuildsOnDependencies
    <3> SUFFICES ASSUME NEW t \in Tasks, born[t] # None
                 PROVE  /\ born[t].base = born[t].tree.head
                        /\ \A d \in deps[t] : RunAccepted(d) /\ d \notin born[t].tree.dirty
      BY DEF ChildBuildsOnDependencies
    <3>1. BornFits(born[t], t, deps, DoneIn(runs))
      BY DEF PlanInv, BirthsFit
    <3> QED
      BY <3>1, ChildrenFit DEF BornFits
  <2>2. FailedTaskStopsPlan
    BY DEF PlanInv, RowFits, SoundNow, Sound, FailedTaskStopsPlan
  <2> QED
    BY <2>1, <2>2 DEF OrderIsKept
<1> QED
  BY <1>1, AlwaysPlanInv, PTL

\* A task the journal calls accepted was accepted by its run and is committed, and a
\* plan that is COMPLETE passed its final verification with every task accepted.
THEOREM OutcomesAreEarned == Spec => []OutcomeIsEarned
<1>1. PlanInv => OutcomeIsEarned
  <2> SUFFICES ASSUME PlanInv, row # None PROVE OutcomeIsEarned
    BY DEF OutcomeIsEarned, AcceptedIsCommitted, CompleteIsWhole
  <2>1. /\ AcceptedOf(row) \subseteq DoneIn(runs) \ tree.dirty
        /\ row.state = "COMPLETE" => row.verified /\ AcceptedOf(row) = Tasks
    BY DEF PlanInv, RowFits, SoundNow, Sound
  <2>2. \A t \in Tasks : row.tasks[t].state = "ACCEPTED" <=> t \in AcceptedOf(row)
    BY DEF AcceptedOf
  <2>3. AcceptedIsCommitted
    BY <2>1, <2>2, ChildrenFit DEF AcceptedIsCommitted
  <2>4. CompleteIsWhole
    BY <2>1, <2>2, ChildrenFit DEF CompleteIsWhole
  <2> QED
    BY <2>3, <2>4 DEF OutcomeIsEarned
<1> QED
  BY <1>1, AlwaysPlanInv, PTL
-----------------------------------------------------------------------------
(* The children of a plan are the work of SerialDag.                         *)

\* The tasks whose child works, by the table of runs.
AtIn(table) ==
  {t \in Tasks : table[ChildId(t, 0)] # None /\ table[ChildId(t, 0)].state = "active"}

\* What SerialDag sees, by the invariant, is one row of the table for each task.
SeenByTask ==
  /\ {t \in Tasks : RunAccepted(t)} = DoneIn(runs)
  /\ {runs[i].task : i \in {child \in Children : runs[child].state = "active"}} = AtIn(runs)

LEMMA InvSeesByTask == ASSUME PlanInv PROVE SeenByTask
<1>1. ASSUME NEW t \in Tasks, RunAccepted(t) PROVE t \in DoneIn(runs)
  <2>1. PICK i \in Children : runs[i].task = t /\ Passed(runs[i])
    BY <1>1 DEF RunAccepted, Passed
  <2>2. i = ChildId(t, 0) /\ runs[i] # None
    BY <2>1, ChildrenFit DEF Children, Present
  <2> QED
    BY <2>1, <2>2 DEF DoneIn
<1>2. {t \in Tasks : RunAccepted(t)} = DoneIn(runs)
  <2>1. \A t \in DoneIn(runs) : t \in Tasks /\ RunAccepted(t)
    BY ChildrenFit DEF DoneIn
  <2> QED
    BY <1>1, <2>1
<1> DEFINE Active == {child \in Children : runs[child].state = "active"}
<1>3. ASSUME NEW i \in Active PROVE runs[i].task \in AtIn(runs)
  <2>1. runs[i].task \in Tasks /\ i = ChildId(runs[i].task, 0)
    BY ChildrenFit
  <2>2. runs[i] # None /\ runs[i].state = "active"
    BY DEF Children, Present
  <2> QED
    BY <2>1, <2>2 DEF AtIn
<1>4. ASSUME NEW t \in AtIn(runs) PROVE \E i \in Active : runs[i].task = t
  <2>1. /\ t \in Tasks /\ ChildId(t, 0) \in RunIds
        /\ runs[ChildId(t, 0)] # None /\ runs[ChildId(t, 0)].state = "active"
    BY PlanAssumption DEF AtIn
  <2>2. runs[ChildId(t, 0)].task = t
    BY <2>1, OwnChild DEF PlanInv, WorldFits, StartedIn
  <2>3. ChildId(t, 0) \in Active
    BY <2>1 DEF Children, Present
  <2> QED
    BY <2>2, <2>3
<1>5. {runs[i].task : i \in Active} = AtIn(runs)
  <2> HIDE DEF Active
  <2> QED
    BY <1>3, <1>4
<1> QED
  BY <1>2, <1>5 DEF SeenByTask

\* A task at work is the only one, is not accepted, and all it needs is.
AtWork ==
  /\ \A t, u \in AtIn(runs) : t = u
  /\ \A t \in AtIn(runs) : t \notin DoneIn(runs) /\ deps[t] \subseteq DoneIn(runs)

LEMMA InvAtWork == ASSUME PlanInv PROVE AtWork
<1>1. ASSUME NEW t \in AtIn(runs)
      PROVE  /\ t \in Tasks /\ t \notin DoneIn(runs) /\ Rooted(deps, DoneIn(runs), t)
             /\ deps[t] \subseteq DoneIn(runs)
  <2>1. t \in Tasks /\ t \notin DoneIn(runs) /\ t \in StartedIn(runs)
    BY DEF AtIn, DoneIn, StartedIn, Passed
  <2>2. Rooted(deps, DoneIn(runs), t)
    BY <2>1, OwnChild DEF PlanInv, WorldFits
  <2>3. deps[t] \subseteq DoneIn(runs)
    BY <2>2, PicksFits DEF Rooted
  <2> QED
    BY <2>1, <2>2, <2>3
<1>2. \A t, u \in AtIn(runs) : t = u
  BY <1>1, OneOnItsWay
<1> QED
  BY <1>1, <1>2 DEF AtWork

\* Only t, which needs n, moves from the tasks f done and a at work to f2 and a2.
AboutOne(t, n, f, f2, a, a2) ==
  /\ f \subseteq f2
  /\ \A u : u # t => (u \in f <=> u \in f2) /\ (u \in a <=> u \in a2)
  /\ t \in f2 => t \in f \/ t \in a
  /\ \A u, v \in a : u = v
  /\ \A u, v \in a2 : u = v
  /\ t \in a => t \notin f
  /\ t \in a2 => t \notin f2 /\ n \subseteq f2

\* That is a step of SerialDag.
LEMMA OneTaskMoves ==
  ASSUME NEW t, NEW n, NEW f, NEW f2, NEW a, NEW a2, AboutOne(t, n, f, f2, a, a2)
  PROVE  \/ a2 = a /\ f2 = f
         \/ a = {} /\ t \notin f /\ n \subseteq f /\ a2 = {t} /\ f2 = f
         \/ a = {t} /\ a2 = {} /\ f2 \in {f, f \cup {t}}
<1> USE DEF AboutOne
<1>1. CASE t \notin a /\ t \in a2
  <2>1. f2 = f
    BY <1>1
  <2>2. a2 = {t} /\ a = {}
    BY <1>1
  <2> QED
    BY <1>1, <2>1, <2>2
<1>2. CASE t \in a /\ t \notin a2
  <2>1. a = {t} /\ a2 = {}
    BY <1>2
  <2>2. f2 = f \/ f2 = f \cup {t}
    BY <1>2
  <2> QED
    BY <2>1, <2>2
<1>3. CASE t \in a <=> t \in a2
  <2>1. a2 = a
    BY <1>3
  <2>2. f2 = f
    BY <1>3
  <2> QED
    BY <2>1, <2>2
<1> QED
  BY <1>1, <1>2, <1>3

\* A step moves one row of the table at most, and only a child at work is accepted.
RowMoves ==
  \E i \in RunIds, m \in Runs :
    /\ runs' = [runs EXCEPT ![i] = m]
    /\ Passed(m) => runs[i] # None /\ runs[i].state = "active"

LEMMA StepMovesOne == ASSUME PlanInv, Next PROVE UNCHANGED runs \/ RowMoves
<1>0. runs \in [RunIds -> Runs \cup {None}]
  BY DEF PlanInv, AdmissionInv, AdmissionTypeOK
<1>1. ASSUME NEW i \in RunIds, runs[i] # None, NEW s \in AdmittedStates, s # "COMPLETE",
             runs' = [runs EXCEPT ![i].state = s]
      PROVE  RowMoves
  <2> DEFINE m == [runs[i] EXCEPT !.state = s]
  <2>1. runs[i] \in Runs
    BY <1>0, <1>1
  <2>2. m \in Runs /\ ~ Passed(m)
    BY <1>1, <2>1 DEF Runs, Passed
  <2>3. runs' = [runs EXCEPT ![i] = m]
    BY <1>1
  <2> HIDE DEF m
  <2> QED
    BY <2>2, <2>3 DEF RowMoves
<1>2. ASSUME NEW c \in Starters, Admit(c) PROVE UNCHANGED runs \/ RowMoves
  <2>1. CASE Insert(c) /\ runs' # runs
    <3> DEFINE m == [task |-> call[c].task, key |-> call[c].key,
                     state |-> "active", accepted |-> FALSE]
    <3>1. call[c].stage = "inserting" /\ runs' = [runs EXCEPT ![call[c].id] = m]
      BY <2>1 DEF Insert
    <3>2. CallFits(call[c], deps, StartedIn(runs), DoneIn(runs))
      BY DEF PlanInv, CallsFit
    <3>3. call[c].task \in Tasks /\ call[c].key = None /\ call[c].id = ChildId(call[c].task, 0)
      BY <3>1, <3>2 DEF CallFits
    <3>4. call[c].id \in RunIds
      BY <3>3, PlanAssumption
    <3>5. m \in Runs /\ ~ Passed(m)
      BY <3>3 DEF Runs, AdmittedStates, Passed
    <3> HIDE DEF m
    <3> QED
      BY <3>1, <3>4, <3>5 DEF RowMoves
  <2>2. CASE SpawnFails(c) /\ runs' # runs
    <3>1. /\ call[c].stage = "spawning"
          /\ runs' = [runs EXCEPT ![call[c].id].state = "FAILED"]
      BY <2>2 DEF SpawnFails
    <3>2. call[c].id \in RunIds /\ runs[call[c].id] # None
      BY <3>1 DEF PlanInv, AdmissionInv, Provided, Present
    <3> QED
      BY <1>1, <3>1, <3>2 DEF AdmittedStates, OverStates
  <2> QED
    BY <1>2, <2>1, <2>2
       DEF Admit, RefuseCredentials, FindByKey, CheckActive, Insert, Spawn, SpawnFails
<1>3. ASSUME NEW p \in Processes, CancelChild(p) PROVE UNCHANGED runs \/ RowMoves
  <2> DEFINE r == cancel[p].rec
             child == Child(r, r.active)
  <2>1. SUFFICES ASSUME runs' # runs PROVE RowMoves
    OBVIOUS
  <2>2. /\ cancel[p].pc = "child" /\ r.active # None /\ runs[child] # None
        /\ runs' = [runs EXCEPT ![child].state = "CANCELLED"]
    BY <1>3, <2>1 DEF CancelChild
  <2>3. SoundNow(r)
    BY <2>2 DEF PlanInv, CancelsFit
  <2>4. r \in Records /\ r.active \in Tasks
    BY <2>2, <2>3 DEF SoundNow, Sound, Records
  <2>5. child = ChildId(r.active, 0)
    BY <2>3, <2>4 DEF SoundNow, Sound, Child
  <2>6. child \in RunIds
    BY <2>4, <2>5, PlanAssumption
  <2> HIDE DEF child, r
  <2> QED
    BY <1>1, <2>2, <2>6 DEF AdmittedStates, OverStates
<1>4. ASSUME NEW i \in RunIds, Finish(i) PROVE RowMoves
  <2>1. PICK s \in {"COMPLETE", "FAILED", "STOPPED"}, ok \in BOOLEAN :
          runs' = [runs EXCEPT ![i].state = s, ![i].accepted = ok]
    BY <1>4 DEF Finish
  <2> DEFINE m == [runs[i] EXCEPT !.state = s, !.accepted = ok]
  <2>2. runs[i] # None /\ runs[i].state = "active" /\ runs[i] \in Runs
    BY <1>0, <1>4 DEF Finish, Present
  <2>3. m \in Runs
    BY <2>2 DEF Runs, AdmittedStates, OverStates
  <2>4. runs' = [runs EXCEPT ![i] = m]
    BY <1>0, <2>1, <2>2 DEF Runs
  <2> HIDE DEF m
  <2> QED
    BY <2>2, <2>3, <2>4 DEF RowMoves
<1>5. ASSUME NEW i \in RunIds, Revive(i) PROVE RowMoves
  BY <1>1, <1>5 DEF Revive, Present, AdmittedStates
<1>6. \A p \in Processes : p \in Starters
  BY PlanAssumption
<1> QED
  BY <1>2, <1>3, <1>4, <1>5, <1>6, StepKinds
     DEF Quiet, Edit, Commit, GitTimesOut, admissionVars

\* A move of a row, as SerialDag sees it.
LEMMA RowImplementsDag ==
  ASSUME PlanInv, Forward, RowMoves, AtWork, AtWork'
  PROVE  \/ AtIn(runs') = AtIn(runs) /\ DoneIn(runs') = DoneIn(runs)
         \/ \E t \in Tasks :
              \/ /\ AtIn(runs) = {} /\ t \notin DoneIn(runs) /\ deps[t] \subseteq DoneIn(runs)
                 /\ AtIn(runs') = {t} /\ DoneIn(runs') = DoneIn(runs)
              \/ /\ AtIn(runs) = {t} /\ AtIn(runs') = {}
                 /\ DoneIn(runs') \in {DoneIn(runs), DoneIn(runs) \cup {t}}
<1>1. PICK i \in RunIds, m \in Runs :
        /\ runs' = [runs EXCEPT ![i] = m]
        /\ Passed(m) => runs[i] # None /\ runs[i].state = "active"
  BY DEF RowMoves
<1>2. runs \in [RunIds -> Runs \cup {None}] /\ deps' = deps
  BY DEF Forward, PlanInv, AdmissionInv, AdmissionTypeOK
<1>3. ASSUME NEW u \in Tasks, ChildId(u, 0) # i
      PROVE  (u \in AtIn(runs) <=> u \in AtIn(runs')) /\ (u \in DoneIn(runs) <=> u \in DoneIn(runs'))
  <2>1. runs'[ChildId(u, 0)] = runs[ChildId(u, 0)]
    BY <1>1, <1>2, <1>3, PlanAssumption
  <2> QED
    BY <2>1 DEF AtIn, DoneIn
<1>4. DoneIn(runs) \subseteq DoneIn(runs')
  BY DEF Forward, Onward
<1>5. AtIn(runs) \cup AtIn(runs') \cup DoneIn(runs) \cup DoneIn(runs') \subseteq Tasks
  BY DEF AtIn, DoneIn
<1>6. CASE \E t \in Tasks : ChildId(t, 0) = i
  <2>1. PICK t \in Tasks : ChildId(t, 0) = i
    BY <1>6
  <2>2. \A u : u # t => /\ u \in AtIn(runs) <=> u \in AtIn(runs')
                        /\ u \in DoneIn(runs) <=> u \in DoneIn(runs')
    BY <1>3, <1>5, <2>1, PlanAssumption
  <2>3. t \in DoneIn(runs') => t \in AtIn(runs)
    <3>1. runs'[i] = m
      BY <1>1, <1>2
    <3> QED
      BY <1>1, <2>1, <3>1 DEF DoneIn, AtIn
  <2>4. /\ \A u, v \in AtIn(runs) : u = v
        /\ \A u, v \in AtIn(runs') : u = v
        /\ t \in AtIn(runs) => t \notin DoneIn(runs)
        /\ t \in AtIn(runs') => t \notin DoneIn(runs') /\ deps[t] \subseteq DoneIn(runs')
    BY <1>2 DEF AtWork
  <2>5. AboutOne(t, deps[t], DoneIn(runs), DoneIn(runs'), AtIn(runs), AtIn(runs'))
    BY <1>4, <2>2, <2>3, <2>4 DEF AboutOne
  <2> QED
    BY <2>5, OneTaskMoves
<1>7. CASE \A t \in Tasks : ChildId(t, 0) # i
  BY <1>3, <1>5, <1>7
<1> QED
  BY <1>6, <1>7

LEMMA StepImplementsDag ==
  ASSUME PlanInv, SeenByTask, AtWork, SeenByTask', AtWork', [Next]_vars
  PROVE  [Dag!Next]_(Dag!vars)
<1> DEFINE done == {t \in Tasks : RunAccepted(t)}
           at == {runs[i].task : i \in {child \in Children : runs[child].state = "active"}}
<1>1. done = DoneIn(runs) /\ at = AtIn(runs) /\ done' = DoneIn(runs') /\ at' = AtIn(runs')
  BY DEF SeenByTask
<1>2. /\ deps' = deps
      /\ \/ AtIn(runs') = AtIn(runs) /\ DoneIn(runs') = DoneIn(runs)
         \/ \E t \in Tasks :
              \/ /\ AtIn(runs) = {} /\ t \notin DoneIn(runs) /\ deps[t] \subseteq DoneIn(runs)
                 /\ AtIn(runs') = {t} /\ DoneIn(runs') = DoneIn(runs)
              \/ /\ AtIn(runs) = {t} /\ AtIn(runs') = {}
                 /\ DoneIn(runs') \in {DoneIn(runs), DoneIn(runs) \cup {t}}
  <2>1. CASE UNCHANGED <<runs, deps>>
    BY <2>1
  <2>2. CASE Next
    <3>1. Forward
      BY <2>2, StepForward
    <3>2. deps' = deps
      BY <3>1 DEF Forward
    <3>3. UNCHANGED runs \/ RowMoves
      BY <2>2, StepMovesOne
    <3> QED
      BY <3>1, <3>2, <3>3, RowImplementsDag
  <2> QED
    BY <2>1, <2>2 DEF vars, planVars, admissionVars
<1> HIDE DEF done, at
<1>3. /\ deps' = deps
      /\ \/ at' = at /\ done' = done
         \/ \E t \in Tasks :
              \/ /\ at = {} /\ t \notin done /\ deps[t] \subseteq done
                 /\ at' = {t} /\ done' = done
              \/ at = {t} /\ at' = {} /\ done' \in {done, done \cup {t}}
  BY <1>1, <1>2
<1> QED
  BY <1>3 DEF Dag!Next, Dag!Begin, Dag!Finish, Dag!Drop, Dag!vars, done, at

\* However many threads and servers orchestrate a plan, whatever their copies of the
\* record say, and whoever dies, its children work through its graph one at a time and
\* in order, and no accepted task is worked on again (_next_task, _run_task, run_start).
THEOREM PlanImplementsDag == Spec => ImplementsSerialDag
<1>1. Init => Dag!Init
  <2> SUFFICES ASSUME Init PROVE Dag!Init
    OBVIOUS
  <2>1. Children = {}
    BY DEF Init, AdmissionInit, Children, Present
  <2> QED
    BY <2>1 DEF RunAccepted, Dag!Init
<1>2. PlanInv => SeenByTask /\ AtWork
  BY InvSeesByTask, InvAtWork
<1>3. PlanInv /\ SeenByTask /\ AtWork /\ SeenByTask' /\ AtWork' /\ [Next]_vars
        => [Dag!Next]_(Dag!vars)
  BY StepImplementsDag
<1> QED
  BY <1>1, <1>2, <1>3, AlwaysPlanInv, PTL DEF Spec, ImplementsSerialDag, Dag!Spec
=============================================================================
