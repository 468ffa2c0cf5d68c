-------------------------- MODULE CollaborationProofs --------------------------
(***************************************************************************)
(* Proofs about AgyJobs for any number of sessions, jobs and task keys, and *)
(* about Collaboration for any team.                                        *)
(*                                                                          *)
(* No two workers work on one task key: the key is guarded by the row of    *)
(* the job that took it, so the row has to hold the key for as long as the  *)
(* job has, or can still get, a worker.  That is what Claims and Held say,  *)
(* and Placed is what they need to know of the threads.                     *)
(*                                                                          *)
(* No answer is taken back: Told ties what the memory, the thread and the   *)
(* row of a job say of its end.                                             *)
(*                                                                          *)
(* A collaboration keeps track of its jobs (Tracked), so that what status() *)
(* has gathered so far stays true while the workers go on (Viewed).         *)
(***************************************************************************)
EXTENDS Collaboration, FiniteSetTheorems, TLAPS

\* Where a start() stands once its record has been put into the registry, or past it.
Inserted == {"recheck", "abandon", "abandoning", "accepted", "raised", "died"}
Idle == {"none", "done", "cancelled"}

\* How the thread, the record and the worker of a job stand to its start() and to
\* its session.
Placed ==
  /\ \A j \in Jobs : starter[j].pc = "none" <=> Owner(j) = None
  /\ \A j \in Jobs :
       starter[j].pc \in {"none", "reserve", "reserved", "submit", "refusing"}
         => runner[j].pc = "none"
  /\ \A j \in Jobs :
       starter[j].pc = "insert" => runner[j].pc \in {"pooled", "gated", "cancelled"}
  /\ \A j \in Jobs : starter[j].pc = "died" => runner[j].pc \in Idle
  /\ \A j \in Jobs : mem[j] # None => starter[j].pc \in Inserted
  /\ \A j \in ghosts : /\ starter[j].pc \in {"accepted", "raised", "died"}
                       /\ runner[j].pc = "done" /\ session[Owner(j)] = "over"
  /\ \A s \in Sessions, j \in Jobs :
       j \in swept[s] => Owner(j) = s /\ starter[j].pc \in Inserted
  /\ \A s \in Sessions, j \in Jobs : Owner(j) = s =>
       /\ session[s] = "shut" => runner[j].pc # "pooled"
       /\ session[s] \in {"sweeping", "over"} => runner[j].pc \in Idle

\* A thread that has ended knows its result.
Ended == \A j \in Jobs : runner[j].pc \in {"ended", "storing"} => runner[j].result \in Terminal

\* The job has a worker, or may get one, for a start that has not been given up.
Claims(j) ==
  \/ starter[j].pc \in {"reserved", "submit", "insert"}
  \/ /\ starter[j].pc \in {"recheck", "accepted", "abandon", "abandoning"}
     /\ runner[j].pc \in {"pooled", "gated", "starting", "working"}
  \/ starter[j].pc \in {"accepted", "died"} /\ j \in ghosts

\* A row that keeps its key from others.
Blocks(r) == r.state \in Active \/ (r.state = "unknown" /\ r.interrupted)

Held ==
  \A j \in Jobs : Claims(j) => /\ Written(j) /\ table[j].key = starter[j].key
                               /\ Blocks(table[j])

Exclusive ==
  \A i, j \in Jobs : i # j /\ Claims(i) /\ Claims(j) /\ starter[i].key = starter[j].key
                     => starter[i].key = None

\* The steps of the jobs, for callers that give a task key and for those that give none
\* (a collaboration's).
AnyJobsNext ==
  \/ JobsStep
  \/ \E s \in Sessions, j \in Jobs, k \in TaskKeys \cup {None} : Start(s, j, k)

IInv == JobsTypeOK /\ Placed /\ Ended /\ Held /\ Exclusive
-----------------------------------------------------------------------------
(* What the transactions make of the table.                                  *)

Table(t) == t \in [Jobs -> Rows \cup {None}]

LEMMA ReconciledTyped ==
  ASSUME Table(table), NEW s \in Sessions
  PROVE  Table(Reconciled(s))
  BY JobsAssumption DEF Table, Written, Active, Terminal, Reconciled, Rows

LEMMA TablesTyped ==
  ASSUME Table(table), NEW j \in Jobs
  PROVE  /\ \A state \in Terminal : Table(MarkedTerminal(j, state))
         /\ Table(MarkedStarted(j)) /\ Table(Beaten(j))
<1> USE JobsAssumption DEF Table, Written, Active, Terminal
<1>1. \A i \in Jobs : table[i] # None => table[i] \in Rows
  OBVIOUS
<1>3. ASSUME NEW state \in Terminal PROVE Table(MarkedTerminal(j, state))
  <2> DEFINE ended == [table[j] EXCEPT !.state = state, !.health = Verdict[state],
                                       !.interrupted = FALSE]
  <2>1. CASE table[j] = None
    BY <2>1 DEF MarkedTerminal
  <2>2. CASE table[j] # None
    <3>0. Verdict[state] \in {"COMPLETED", "FAILED"}
      BY DEF Verdict
    <3>1. ended \in Rows
      BY <1>1, <3>0, <2>2 DEF Rows
    <3>2. MarkedTerminal(j, state) = [table EXCEPT ![j] = ended]
      BY <2>2 DEF MarkedTerminal
    <3> HIDE DEF ended
    <3> QED
      BY <3>1, <3>2
  <2> QED
    BY <2>1, <2>2
<1>4. Table(MarkedStarted(j))
  <2> DEFINE started == [table[j] EXCEPT !.state = "running", !.health = "LIVE"]
  <2>1. CASE table[j] = None
    BY <2>1 DEF MarkedStarted
  <2>2. CASE table[j] # None
    <3>1. started \in Rows
      BY <1>1, <2>2 DEF Rows
    <3>2. MarkedStarted(j) = [table EXCEPT ![j] = started]
      BY <2>2 DEF MarkedStarted
    <3> HIDE DEF started
    <3> QED
      BY <3>1, <3>2
  <2> QED
    BY <2>1, <2>2
<1>5. Table(Beaten(j))
  BY <1>1 DEF Beaten, Rows
<1> QED
  BY <1>3, <1>4, <1>5

\* The other transactions leave every key held.
LEMMA TablesHold ==
  ASSUME Table(table), NEW j \in Jobs, NEW i \in Jobs, table[i] # None
  PROVE  /\ MarkedStarted(j)[i] # None /\ MarkedStarted(j)[i].key = table[i].key
         /\ Blocks(table[i]) => Blocks(MarkedStarted(j)[i])
         /\ Beaten(j)[i] # None /\ Beaten(j)[i].key = table[i].key
         /\ Blocks(table[i]) => Blocks(Beaten(j)[i])
<1> USE JobsAssumption DEF Table, Written, Active
<1>1. table[i] \in Rows /\ (table[j] # None => table[j] \in Rows)
  OBVIOUS
<1>2. Table(MarkedStarted(j)) /\ Table(Beaten(j))
  BY TablesTyped
<1>3. /\ MarkedStarted(j)[i] # None /\ MarkedStarted(j)[i].key = table[i].key
      /\ Blocks(table[i]) => Blocks(MarkedStarted(j)[i])
  BY <1>1 DEF MarkedStarted, Rows, Blocks
<1>4. /\ Beaten(j)[i] # None /\ Beaten(j)[i].key = table[i].key
      /\ Blocks(table[i]) => Blocks(Beaten(j)[i])
  BY <1>1 DEF Beaten, Rows, Blocks
<1> QED
  BY <1>3, <1>4

LEMMA ReconciledHolds ==
  ASSUME Table(table), NEW s \in Sessions, NEW i \in Jobs, table[i] # None
  PROVE  /\ Reconciled(s)[i] # None /\ Reconciled(s)[i].key = table[i].key
         /\ Blocks(table[i]) => Blocks(Reconciled(s)[i])
  BY JobsAssumption DEF Table, Written, Active, Reconciled, Rows, Blocks

-----------------------------------------------------------------------------
(* Types.                                                                    *)

\* Nothing runs to begin with.
LEMMA InitIInv == ASSUME JobsInit PROVE IInv
<1> USE DEF JobsInit
<1>1. JobsTypeOK
  BY JobsAssumption DEF JobsTypeOK, Phases, StartLabels, RunLabels
<1>2. Placed
  BY JobsAssumption DEF Placed, Owner
<1>3. Ended /\ Held /\ Exclusive
  BY DEF Ended, Held, Exclusive, Claims
<1> QED
  BY <1>1, <1>2, <1>3 DEF IInv

\* The types of the threads and records of the jobs.
Starters == [pc : StartLabels, key : TaskKeys \cup {None}, owner : Sessions \cup {None}]
Runners == [pc : RunLabels, result : Terminal \cup {None}]

LEMMA MovesTyped ==
  ASSUME JobsTypeOK, NEW j \in Jobs
  PROVE  /\ \A label \in StartLabels : To(j, label) => starter' \in [Jobs -> Starters]
         /\ \A label \in RunLabels : On(j, label) => runner' \in [Jobs -> Runners]
         /\ \A state \in Terminal : Completed(j, state) \in [Jobs -> Records \cup {None}]
         /\ WriteFails => faults' \in 0 .. MaxFaults /\ table' = table
         /\ \A t : WriteSucceeds(t) => faults' \in 0 .. MaxFaults /\ table' = t
<1> USE JobsAssumption DEF JobsTypeOK
<1>1. ASSUME NEW label \in StartLabels, To(j, label) PROVE starter' \in [Jobs -> Starters]
  <2> DEFINE moved == [starter[j] EXCEPT !.pc = label]
  <2>1. moved \in Starters
    <3>1. starter[j] \in Starters
      BY DEF Starters
    <3> QED
      BY <3>1 DEF Starters
  <2>2. starter' = [starter EXCEPT ![j] = moved] /\ starter \in [Jobs -> Starters]
    BY <1>1 DEF To, Starters
  <2> HIDE DEF moved
  <2> QED
    BY <2>1, <2>2
<1>2. ASSUME NEW label \in RunLabels, On(j, label) PROVE runner' \in [Jobs -> Runners]
  <2> DEFINE moved == [runner[j] EXCEPT !.pc = label]
  <2>1. moved \in Runners
    BY DEF Runners
  <2>2. runner' = [runner EXCEPT ![j] = moved] /\ runner \in [Jobs -> Runners]
    BY <1>2 DEF On, Runners
  <2> HIDE DEF moved
  <2> QED
    BY <2>1, <2>2
<1>3. \A state \in Terminal : Completed(j, state) \in [Jobs -> Records \cup {None}]
  BY DEF Completed, Records
<1>4. WriteFails => faults' \in 0 .. MaxFaults /\ table' = table
  BY DEF WriteFails
<1>5. \A t : WriteSucceeds(t) => faults' \in 0 .. MaxFaults /\ table' = t
  BY DEF WriteSucceeds
<1> QED
  BY <1>1, <1>2, <1>3, <1>4, <1>5

\* The steps of start() keep the types.
LEMMA StartTyped ==
  ASSUME JobsTypeOK, Placed, NEW j \in Jobs, StartCall(j)
  PROVE  JobsTypeOK'
<1> USE DEF JobsTypeOK, Starters, Runners
<1>0. /\ Table(table) /\ starter[j] \in Starters /\ runner[j] \in Runners
      /\ (starter[j].pc # "none" => Owner(j) \in Sessions)
      /\ "failed" \in Terminal
  BY DEF Table, Placed, Owner, Terminal
<1>1. CASE Reserve(j)
  <2> DEFINE new == [key |-> starter[j].key, owner |-> Owner(j), state |-> "queued",
                     health |-> "LIVE", interrupted |-> FALSE]
  <2>1. new \in Rows
    BY <1>0, <1>1 DEF Reserve, At, Rows, Active
  <2> HIDE DEF new
  <2>2. table' \in [Jobs -> Rows \cup {None}] /\ faults' \in 0 .. MaxFaults
    <3>1. CASE WriteSucceeds([table EXCEPT ![j] = new])
      BY <2>1, <3>1 DEF WriteSucceeds
    <3>2. CASE UNCHANGED <<table, faults>> \/ WriteFails
      BY <3>2, MovesTyped
    <3> QED
      BY <1>1, <3>1, <3>2 DEF Reserve, new
  <2>3. starter' \in [Jobs -> Starters]
    BY <1>1, MovesTyped DEF Reserve, StartLabels
  <2> QED
    BY <1>1, <2>2, <2>3 DEF Reserve
<1>2. CASE CheckClosed(j)
  <2>1. starter' \in [Jobs -> Starters]
    BY <1>2, MovesTyped DEF CheckClosed, StartLabels
  <2> QED
    BY <1>2, <2>1 DEF CheckClosed
<1>3. CASE Submit(j)
  <2>1. starter' \in [Jobs -> Starters]
    BY <1>3, MovesTyped DEF Submit, StartLabels
  <2>2. UNCHANGED runner \/ On(j, "pooled")
    BY <1>3 DEF Submit, On
  <2>3. runner' \in [Jobs -> Runners]
    BY <2>2, MovesTyped DEF RunLabels
  <2> QED
    BY <1>3, <2>1, <2>3 DEF Submit
<1>4. CASE Refuse(j) \/ AbandonWrites(j)
  <2>1. starter' \in [Jobs -> Starters]
    BY <1>4, MovesTyped DEF Refuse, AbandonWrites, StartLabels
  <2>2. table' \in [Jobs -> Rows \cup {None}] /\ faults' \in 0 .. MaxFaults /\ lost' \subseteq Jobs
    BY <1>0, <1>4, MovesTyped, TablesTyped DEF Refuse, AbandonWrites, Table
  <2> QED
    BY <1>4, <2>1, <2>2 DEF Refuse, AbandonWrites
<1>5. CASE InsertRecord(j)
  <2>1. starter' \in [Jobs -> Starters]
    BY <1>5, MovesTyped DEF InsertRecord, StartLabels
  <2>2. runner' \in [Jobs -> Runners]
    <3>1. UNCHANGED runner \/ On(j, "cancelled") \/ On(j, runner[j].pc)
      BY <1>5 DEF InsertRecord, On
    <3> QED
      BY <1>0, <3>1, MovesTyped DEF RunLabels
  <2>3. [completed |-> FALSE, answer |-> None] \in Records
    BY DEF Records
  <2>4. UNCHANGED mem \/ mem' = [mem EXCEPT ![j] = [completed |-> FALSE, answer |-> None]]
    BY <1>5 DEF InsertRecord
  <2>5. mem' \in [Jobs -> Records \cup {None}]
    BY <2>3, <2>4
  <2> QED
    BY <1>5, <2>1, <2>2, <2>5 DEF InsertRecord
<1>6. CASE Recheck(j)
  <2>1. starter' \in [Jobs -> Starters]
    BY <1>6, MovesTyped DEF Recheck, StartLabels
  <2> QED
    BY <1>6, <2>1 DEF Recheck
<1>7. CASE Abandon(j)
  <2>1. starter' \in [Jobs -> Starters]
    BY <1>7, MovesTyped DEF Abandon, StartLabels
  <2>2. mem' \in [Jobs -> Records \cup {None}]
    BY <1>0, <1>7, MovesTyped DEF Abandon
  <2> QED
    BY <1>7, <2>1, <2>2 DEF Abandon
<1> QED
  BY <1>1, <1>2, <1>3, <1>4, <1>5, <1>6, <1>7 DEF StartCall

\* The pool thread of a job knows its result when it has ended.
LEMMA PoolTyped ==
  ASSUME JobsTypeOK, Ended, NEW j \in Jobs, PoolThread(j)
  PROVE  JobsTypeOK'
<1> USE DEF JobsTypeOK, Starters, Runners
<1>0. Table(table) /\ runner[j] \in Runners /\ "failed" \in Terminal
  BY DEF Table, Terminal
<1>1. CASE Take(j)
  <2>1. runner' \in [Jobs -> Runners]
    BY <1>1, MovesTyped DEF Take, RunLabels
  <2> QED
    BY <1>1, <2>1 DEF Take
<1>2. CASE Enter(j)
  <2>1. [pc |-> "ended", result |-> "failed"] \in Runners
    BY <1>0 DEF RunLabels
  <2>2. On(j, "starting") \/ runner' = [runner EXCEPT ![j] = [pc |-> "ended", result |-> "failed"]]
    BY <1>2 DEF Enter
  <2>3. runner' \in [Jobs -> Runners]
    BY <2>1, <2>2, MovesTyped DEF RunLabels
  <2> QED
    BY <1>2, <2>3 DEF Enter
<1>3. CASE StoreStarted(j)
  <2>1. runner' \in [Jobs -> Runners]
    BY <1>3, MovesTyped DEF StoreStarted, RunLabels
  <2>3. table' \in [Jobs -> Rows \cup {None}] /\ faults' \in 0 .. MaxFaults
    BY <1>0, <1>3, MovesTyped, TablesTyped DEF StoreStarted, Table
  <2> QED
    BY <1>3, <2>1, <2>3 DEF StoreStarted
<1>4. CASE Work(j)
  <2>1. runner' \in [Jobs -> Runners]
    BY <1>4 DEF Work, RunLabels
  <2> QED
    BY <1>4, <2>1 DEF Work
<1>5. CASE Complete(j)
  <2>1. runner' \in [Jobs -> Runners]
    BY <1>5, MovesTyped DEF Complete, RunLabels
  <2>2. mem' \in [Jobs -> Records \cup {None}]
    BY <1>5, MovesTyped DEF Complete, Ended, In
  <2> QED
    BY <1>5, <2>1, <2>2 DEF Complete
<1>6. CASE StoreTerminal(j)
  <2>1. runner' \in [Jobs -> Runners]
    BY <1>6, MovesTyped DEF StoreTerminal, RunLabels
  <2>2. table' \in [Jobs -> Rows \cup {None}] /\ faults' \in 0 .. MaxFaults /\ lost' \subseteq Jobs
    <3>1. runner[j].result \in Terminal
      BY <1>6 DEF StoreTerminal, In, Ended
    <3>2. Table(MarkedTerminal(j, runner[j].result))
      BY <1>0, <3>1, TablesTyped
    <3>3. WriteFails \/ WriteSucceeds(MarkedTerminal(j, runner[j].result))
      BY <1>6 DEF StoreTerminal
    <3>4. lost' \subseteq Jobs
      BY <1>6 DEF StoreTerminal
    <3> QED
      BY <3>2, <3>3, <3>4, MovesTyped DEF Table
  <2> QED
    BY <1>6, <2>1, <2>2 DEF StoreTerminal
<1> QED
  BY <1>1, <1>2, <1>3, <1>4, <1>5, <1>6 DEF PoolThread

\* The steps of a session, and of a worker that outlived its session.
LEMMA SessionTyped ==
  ASSUME JobsTypeOK, NEW s \in Sessions,
         \/ Open(s) \/ Close(s) \/ Shutdown(s) \/ ShutdownReturns(s) \/ CloseReturns(s)
         \/ Crash(s) \/ WatchdogWrites(s)
         \/ \E j \in Jobs : Sweep(s, j) \/ Prune(s, j) \/ Forget(s, j) \/ WatchdogLooks(s, j)
  PROVE  JobsTypeOK'
<1> USE JobsAssumption DEF JobsTypeOK, Phases
<1>0. Table(table) /\ "failed" \in Terminal
  BY DEF Table, Terminal
<1>1. CASE Open(s)
  <2>1. Table(table')
    BY <1>0, <1>1, ReconciledTyped DEF Open
  <2> QED
    BY <1>1, <2>1 DEF Open, Table
<1>2. CASE Close(s)
  <2>1. {j \in Of(s) : mem[j] # None /\ ~mem[j].completed} \subseteq Jobs
    BY DEF Of
  <2> QED
    BY <1>2, <2>1 DEF Close
<1>3. CASE Shutdown(s)
  <2>1. \A j \in Jobs : [runner[j] EXCEPT !.pc = "cancelled"] \in Runners /\ runner[j] \in Runners
    BY DEF RunLabels, Runners
  <2>2. runner' \in [Jobs -> Runners]
    BY <1>3, <2>1 DEF Shutdown
  <2> QED
    BY <1>3, <2>2 DEF Shutdown, Runners
<1>4. CASE ShutdownReturns(s) \/ CloseReturns(s)
  BY <1>4 DEF ShutdownReturns, CloseReturns
<1>5. CASE Crash(s)
  <2>1. mem' \in [Jobs -> Records \cup {None}]
    BY <1>5 DEF Crash
  <2>2. ASSUME NEW j \in Jobs
        PROVE  [starter[j] EXCEPT !.pc = "died"] \in Starters /\ starter[j] \in Starters
    <3>1. starter[j] \in Starters
      BY DEF Starters
    <3> QED
      BY <3>1 DEF StartLabels, Starters
  <2>3. starter' \in [Jobs -> Starters]
    BY <1>5, <2>2 DEF Crash
  <2>4. \A j \in Jobs : [runner[j] EXCEPT !.pc = "done"] \in Runners /\ runner[j] \in Runners
    BY DEF RunLabels, Runners
  <2>5. runner' \in [Jobs -> Runners]
    BY <1>5, <2>4 DEF Crash
  <2>6. ghosts' \subseteq Jobs
    BY <1>5 DEF Crash, Of
  <2>7. /\ session' \in [Sessions -> Phases] /\ watched' \in [Sessions -> Jobs \cup {None}]
        /\ faults' \in 0 .. MaxFaults /\ UNCHANGED <<table, swept, lost>>
    BY <1>5 DEF Crash
  <2> QED
    BY <2>1, <2>3, <2>5, <2>6, <2>7 DEF Runners, Starters
<1>6. CASE WatchdogWrites(s)
  <2>1. Table(table')
    BY <1>0, <1>6, TablesTyped DEF WatchdogWrites
  <2> QED
    BY <1>6, <2>1 DEF WatchdogWrites, Table
<1>7. ASSUME NEW j \in Jobs, Sweep(s, j) PROVE JobsTypeOK'
  <2>1. mem' \in [Jobs -> Records \cup {None}]
    BY <1>0, <1>7, MovesTyped DEF Sweep
  <2>2. table' \in [Jobs -> Rows \cup {None}] /\ faults' \in 0 .. MaxFaults /\ lost' \subseteq Jobs
    BY <1>0, <1>7, MovesTyped, TablesTyped DEF Sweep, Table
  <2>3. swept' \in [Sessions -> SUBSET Jobs]
    BY <1>7 DEF Sweep
  <2> QED
    BY <1>7, <2>1, <2>2, <2>3 DEF Sweep
<1>8. ASSUME NEW j \in Jobs, Prune(s, j) \/ Forget(s, j) \/ WatchdogLooks(s, j) PROVE JobsTypeOK'
  <2>1. CASE Prune(s, j)
    BY <2>1 DEF Prune
  <2>2. CASE Forget(s, j)
    BY <2>2 DEF Forget
  <2>3. CASE WatchdogLooks(s, j)
    BY <2>3 DEF WatchdogLooks
  <2> QED
    BY <1>8, <2>1, <2>2, <2>3
<1> QED
  BY <1>1, <1>2, <1>3, <1>4, <1>5, <1>6, <1>7, <1>8

\* Every step keeps the types.
LEMMA TypeStep ==
  ASSUME JobsTypeOK, Placed, Ended, [AnyJobsNext]_jobVars
  PROVE  JobsTypeOK'
<1>1. ASSUME NEW j \in Jobs, StatusCompletes(j) \/ GhostEnds(j) PROVE JobsTypeOK'
  <2>1. mem' \in [Jobs -> Records \cup {None}]
    BY <1>1, MovesTyped DEF StatusCompletes, GhostEnds, Terminal, JobsTypeOK
  <2>2. ghosts' \subseteq Jobs
    BY <1>1 DEF StatusCompletes, GhostEnds, JobsTypeOK
  <2> QED
    BY <1>1, <2>1, <2>2 DEF StatusCompletes, GhostEnds, JobsTypeOK
<1>2. ASSUME NEW s \in Sessions, NEW j \in Jobs, NEW k \in TaskKeys \cup {None}, Start(s, j, k) PROVE JobsTypeOK'
  <2>1. [pc |-> "reserve", key |-> k, owner |-> s] \in Starters
    BY DEF StartLabels, Starters
  <2>2. starter' \in [Jobs -> Starters]
    BY <1>2, <2>1 DEF Start, JobsTypeOK, Starters
  <2> QED
    BY <1>2, <2>2 DEF Start, JobsTypeOK, Starters
<1>3. CASE UNCHANGED jobVars
  BY <1>3 DEF jobVars, JobsTypeOK
<1> QED
  BY <1>1, <1>2, <1>3, StartTyped, PoolTyped, SessionTyped DEF AnyJobsNext, JobsStep, Closing

-----------------------------------------------------------------------------
(* How threads, records and workers stand to their start() and session.      *)

\* What the steps on a job are built from, as functions of all jobs.
LEMMA Shapes ==
  ASSUME JobsTypeOK, NEW j \in Jobs
  PROVE  /\ starter \in [Jobs -> Starters] /\ runner \in [Jobs -> Runners]
         /\ \A label : To(j, label) =>
              /\ starter'[j].pc = label /\ Owner(j)' = Owner(j) /\ starter'[j].key = starter[j].key
              /\ \A i \in Jobs : i # j => starter'[i] = starter[i]
         /\ \A label : On(j, label) =>
              /\ runner'[j].pc = label /\ runner'[j].result = runner[j].result
              /\ \A i \in Jobs : i # j => runner'[i] = runner[i]
         /\ \A state : /\ mem[j] = None => Completed(j, state) = mem
                       /\ \A i \in Jobs : i # j => Completed(j, state)[i] = mem[i]
  BY DEF JobsTypeOK, Starters, Runners, To, On, Owner, Completed

\* The steps of start() keep the threads where their start() allows.
LEMMA StartPlaced ==
  ASSUME JobsTypeOK, Placed, NEW j \in Jobs, StartCall(j)
  PROVE  Placed'
<1> USE JobsAssumption, Shapes DEF At, Owner, Inserted, Idle
<1>0. swept \in [Sessions -> SUBSET Jobs] /\ ghosts \subseteq Jobs /\ mem \in [Jobs -> Records \cup {None}]
  BY DEF JobsTypeOK
<1>1. CASE Reserve(j)
  BY <1>0, <1>1 DEF Reserve, Placed
<1>2. CASE CheckClosed(j)
  BY <1>0, <1>2 DEF CheckClosed, Placed
<1>3. CASE Submit(j)
  <2>1. CASE On(j, "pooled") /\ To(j, "insert") /\ session[Owner(j)] \in {"up", "closing"}
    <3>1. /\ starter'[j].pc = "insert" /\ Owner(j)' = Owner(j)
          /\ \A i \in Jobs : i # j => starter'[i] = starter[i]
      BY <2>1
    <3>2. runner'[j].pc = "pooled" /\ \A i \in Jobs : i # j => runner'[i] = runner[i]
      BY <2>1
    <3>3. starter[j].pc = "submit" /\ UNCHANGED <<session, swept, mem, ghosts>>
      BY <1>3 DEF Submit
    <3> HIDE Shapes
    <3> QED
      BY <1>0, <2>1, <3>1, <3>2, <3>3 DEF Placed
  <2>2. CASE UNCHANGED runner /\ To(j, "refusing")
    BY <1>0, <1>3, <2>2 DEF Submit, Placed
  <2> QED
    BY <1>3, <2>1, <2>2 DEF Submit, On
<1>4. CASE Refuse(j)
  BY <1>0, <1>4 DEF Refuse, Placed
<1>5. CASE InsertRecord(j)
  <2>1. CASE UNCHANGED mem /\ To(j, "abandon") /\ runner[j].pc = "pooled" /\ On(j, "cancelled")
    BY <1>0, <1>5, <2>1 DEF InsertRecord, Placed
  <2>2. CASE UNCHANGED mem /\ To(j, "abandon") /\ On(j, runner[j].pc)
    <3>1. /\ starter'[j].pc = "abandon" /\ Owner(j)' = Owner(j)
          /\ \A i \in Jobs : i # j => starter'[i] = starter[i]
      BY <2>2
    <3>2. \A i \in Jobs : runner'[i].pc = runner[i].pc
      BY <2>2
    <3>3. starter[j].pc = "insert" /\ UNCHANGED <<session, swept, mem, ghosts>>
      BY <1>5, <2>2 DEF InsertRecord
    <3> HIDE Shapes
    <3> QED
      BY <1>0, <3>1, <3>2, <3>3 DEF Placed
  <2>3. CASE /\ To(j, "recheck") /\ UNCHANGED runner
             /\ mem' = [mem EXCEPT ![j] = [completed |-> FALSE, answer |-> None]]
    BY <1>0, <1>5, <2>3 DEF InsertRecord, Placed
  <2> QED
    BY <1>5, <2>1, <2>2, <2>3 DEF InsertRecord, On
<1>6. CASE Recheck(j)
  BY <1>0, <1>6 DEF Recheck, Placed
<1>7. CASE Abandon(j)
  BY <1>0, <1>7 DEF Abandon, Placed
<1>8. CASE AbandonWrites(j)
  BY <1>0, <1>8 DEF AbandonWrites, Placed
<1> QED
  BY <1>1, <1>2, <1>3, <1>4, <1>5, <1>6, <1>7, <1>8 DEF StartCall

\* start() touches no thread that has ended.
LEMMA StartEnded ==
  ASSUME JobsTypeOK, Ended, NEW j \in Jobs, StartCall(j)
  PROVE  Ended'
<1>1. \A i \in Jobs : \/ runner'[i] = runner[i]
                    \/ runner'[i].pc \in {"pooled", "cancelled"}
  BY Shapes DEF JobsTypeOK, Runners, StartCall, Reserve, CheckClosed, Submit, Refuse, InsertRecord,
                Recheck, Abandon, AbandonWrites
<1> QED
  BY <1>1 DEF Ended

\* So do the steps of the pool thread, and it ends with a result.
LEMMA PoolPlaced ==
  ASSUME JobsTypeOK, Placed, Ended, NEW j \in Jobs, PoolThread(j)
  PROVE  Placed' /\ Ended'
<1> USE JobsAssumption, Shapes DEF In, At, Owner, Inserted, Idle
<1>0. swept \in [Sessions -> SUBSET Jobs] /\ ghosts \subseteq Jobs /\ mem \in [Jobs -> Records \cup {None}]
  BY DEF JobsTypeOK
<1>1. CASE Take(j)
  BY <1>0, <1>1 DEF Take, Placed, Ended
<1>2. CASE Enter(j)
  BY <1>0, <1>2 DEF Enter, Placed, Ended, Terminal
<1>3. CASE StoreStarted(j)
  BY <1>0, <1>3 DEF StoreStarted, Placed, Ended
<1>4. CASE Work(j)
  BY <1>0, <1>4 DEF Work, Placed, Ended
<1>5. CASE Complete(j)
  BY <1>0, <1>5 DEF Complete, Placed, Ended
<1>6. CASE StoreTerminal(j)
  BY <1>0, <1>6 DEF StoreTerminal, Placed, Ended
<1> QED
  BY <1>1, <1>2, <1>3, <1>4, <1>5, <1>6 DEF PoolThread

\* Opening, closing and dying: an executor that was shut down leaves no thread behind.
LEMMA SessionPlaced ==
  ASSUME JobsTypeOK, Placed, Ended, NEW s \in Sessions,
         \/ Open(s) \/ Close(s) \/ Shutdown(s) \/ ShutdownReturns(s) \/ CloseReturns(s)
         \/ Crash(s) \/ WatchdogWrites(s)
         \/ \E j \in Jobs : Sweep(s, j) \/ Prune(s, j) \/ Forget(s, j) \/ WatchdogLooks(s, j)
  PROVE  Placed' /\ Ended'
<1> USE JobsAssumption DEF In, At, Of, Owner, Inserted, Idle
<1>0. /\ swept \in [Sessions -> SUBSET Jobs] /\ ghosts \subseteq Jobs
      /\ mem \in [Jobs -> Records \cup {None}] /\ session \in [Sessions -> Phases]
      /\ starter \in [Jobs -> Starters] /\ runner \in [Jobs -> Runners]
  BY DEF JobsTypeOK, Starters, Runners
<1>1. CASE Open(s)
  BY <1>0, <1>1 DEF Open, Placed, Ended
<1>2. CASE Close(s)
  BY <1>0, <1>2 DEF Close, Placed, Ended
<1>3. CASE Shutdown(s)
  <2>1. ASSUME NEW j \in Jobs
        PROVE  \/ runner'[j] = runner[j] /\ (Owner(j) = s => runner[j].pc # "pooled")
               \/ runner'[j].pc = "cancelled" /\ Owner(j) = s /\ runner[j].pc = "pooled"
    BY <1>0, <1>3, <2>1 DEF Shutdown, Runners
  <2> QED
    BY <1>0, <1>3, <2>1 DEF Shutdown, Placed, Ended
<1>4. CASE ShutdownReturns(s)
  <2>1. \A j \in Jobs : Owner(j) = s => runner[j].pc \in Idle
    BY <1>0, <1>4 DEF ShutdownReturns, Busy, Placed, Runners, RunLabels
  <2> QED
    BY <1>0, <1>4, <2>1 DEF ShutdownReturns, Placed, Ended
<1>5. CASE CloseReturns(s)
  BY <1>0, <1>5 DEF CloseReturns, Placed, Ended
<1>6. CASE Crash(s)
  <2>1. ASSUME NEW j \in Jobs
        PROVE  /\ Owner(j)' = Owner(j)
               /\ Owner(j) # s => /\ starter'[j] = starter[j] /\ runner'[j] = runner[j]
                                  /\ mem'[j] = mem[j] /\ (j \in ghosts' <=> j \in ghosts)
               /\ Owner(j) = s => /\ runner'[j].pc \in {"none", "done"} /\ mem'[j] = None
                                  /\ starter'[j].pc = IF starter[j].pc \in {"accepted", "raised"}
                                                      THEN starter[j].pc ELSE "died"
                                  /\ runner'[j].pc = "none" <=> runner[j].pc = "none"
                                  /\ j \in ghosts' <=> j \in ghosts \/ runner[j].pc = "working"
    BY <1>0, <1>6, <2>1 DEF Crash, Runners, Starters
  <2>2. session' = [session EXCEPT ![s] = "over"] /\ UNCHANGED swept /\ ghosts' \subseteq Jobs
    BY <1>0, <1>6 DEF Crash
  <2>3. \A j \in Jobs : (starter'[j].pc = "none" <=> Owner(j)' = None)
                       /\ (starter'[j].pc = "died" => runner'[j].pc \in Idle)
    BY <2>1 DEF Placed
  <2>4. \A j \in Jobs :
          /\ starter'[j].pc \in {"none", "reserve", "reserved", "submit", "refusing"}
               => runner'[j].pc = "none"
          /\ starter'[j].pc = "insert" => runner'[j].pc \in {"pooled", "gated", "cancelled"}
    BY <2>1 DEF Placed
  <2>5. \A j \in Jobs : mem'[j] # None => starter'[j].pc \in Inserted
    BY <2>1 DEF Placed
  <2>6. ASSUME NEW j \in ghosts'
        PROVE  /\ starter'[j].pc \in {"accepted", "raised", "died"}
               /\ runner'[j].pc = "done" /\ session'[Owner(j)'] = "over"
    <3>1. CASE Owner(j) # s
      BY <1>0, <2>1, <2>2, <2>6, <3>1 DEF Placed
    <3>2. CASE Owner(j) = s
      BY <1>0, <2>1, <2>2, <2>6, <3>2 DEF Placed
    <3> QED
      BY <3>1, <3>2
  <2>7. \A t \in Sessions, j \in Jobs :
          j \in swept'[t] => Owner(j)' = t /\ starter'[j].pc \in Inserted
    BY <2>1, <2>2 DEF Placed
  <2>8. ASSUME NEW t \in Sessions, NEW j \in Jobs, Owner(j)' = t
        PROVE  /\ session'[t] = "shut" => runner'[j].pc # "pooled"
               /\ session'[t] \in {"sweeping", "over"} => runner'[j].pc \in Idle
    <3>1. CASE t # s
      BY <1>0, <2>1, <2>2, <2>8, <3>1 DEF Placed
    <3>2. CASE t = s
      BY <2>1, <2>8, <3>2
    <3> QED
      BY <3>1, <3>2
  <2>9. Placed'
    BY <2>3, <2>4, <2>5, <2>6, <2>7, <2>8 DEF Placed
  <2>10. Ended'
    BY <2>1 DEF Ended
  <2> QED
    BY <2>9, <2>10
<1>7. ASSUME NEW j \in Jobs, Sweep(s, j) PROVE Placed' /\ Ended'
  BY <1>0, <1>7, Shapes DEF Sweep, Placed, Ended
<1>8. ASSUME NEW j \in Jobs, Forget(s, j) PROVE Placed' /\ Ended'
  BY <1>0, <1>8 DEF Forget, Placed, Ended
<1>9. ASSUME WatchdogWrites(s) \/ \E j \in Jobs : Prune(s, j) \/ WatchdogLooks(s, j)
      PROVE  Placed' /\ Ended'
  BY <1>9 DEF WatchdogWrites, Prune, WatchdogLooks, Placed, Ended
<1> QED
  BY <1>1, <1>2, <1>3, <1>4, <1>5, <1>6, <1>7, <1>8, <1>9

\* Every step does.
LEMMA PlacedStep ==
  ASSUME JobsTypeOK, Placed, Ended, [AnyJobsNext]_jobVars
  PROVE  Placed' /\ Ended'
<1> USE JobsAssumption DEF At, Owner, Inserted, Idle
<1>0. /\ swept \in [Sessions -> SUBSET Jobs] /\ ghosts \subseteq Jobs
      /\ mem \in [Jobs -> Records \cup {None}]
      /\ starter \in [Jobs -> Starters] /\ runner \in [Jobs -> Runners]
  BY DEF JobsTypeOK, Starters, Runners
<1>1. ASSUME NEW j \in Jobs, StartCall(j) PROVE Placed' /\ Ended'
  BY <1>1, StartPlaced, StartEnded
<1>2. ASSUME NEW j \in Jobs, StatusCompletes(j) PROVE Placed' /\ Ended'
  BY <1>0, <1>2, Shapes DEF StatusCompletes, Placed, Ended
<1>3. ASSUME NEW j \in Jobs, GhostEnds(j) PROVE Placed' /\ Ended'
  BY <1>0, <1>3 DEF GhostEnds, Placed, Ended
<1>4. ASSUME NEW s \in Sessions, NEW j \in Jobs, NEW k \in TaskKeys \cup {None}, Start(s, j, k)
      PROVE  Placed' /\ Ended'
  BY <1>0, <1>4 DEF Start, Fresh, Placed, Ended
<1>5. CASE UNCHANGED jobVars
  BY <1>5 DEF jobVars, Placed, Ended
<1> QED
  BY <1>1, <1>2, <1>3, <1>4, <1>5, PoolPlaced, SessionPlaced DEF AnyJobsNext, JobsStep, Closing

-----------------------------------------------------------------------------
(* The rows that hold the keys.                                              *)

RowKept(i) ==
  table[i] # None => /\ table'[i] # None /\ table'[i].key = table[i].key
                     /\ Blocks(table[i]) => Blocks(table'[i])

\* A step gives nobody a claim, and takes no row from one that keeps its claim.
Kept(i) == Claims(i)' => Claims(i) /\ starter'[i].key = starter[i].key /\ RowKept(i)

\* Such a step leaves the keys as they were.
LEMMA KeptSuffices ==
  ASSUME Held, Exclusive, \A i \in Jobs : Kept(i)
  PROVE  Held' /\ Exclusive'
<1>1. Held'
  BY DEF Held, Kept, RowKept, Written
<1>2. Exclusive'
  BY DEF Exclusive, Kept
<1> QED
  BY <1>1, <1>2

\* A start that gets its key finds no row that holds it, hence no other claim.
LEMMA ReserveExcludes ==
  ASSUME IInv, NEW j \in Jobs, Reserve(j)
  PROVE  Held' /\ Exclusive'
<1> USE JobsAssumption DEF IInv
<1>0. /\ starter[j].pc = "reserve" /\ Owner(j) \in Sessions /\ starter[j].key \in TaskKeys \cup {None}
      /\ starter'[j].key = starter[j].key /\ Owner(j)' = Owner(j)
      /\ \A i \in Jobs : i # j => starter'[i] = starter[i]
      /\ UNCHANGED <<runner, ghosts>> /\ j \notin ghosts
  BY Shapes DEF Reserve, At, Placed, Owner, JobsTypeOK
<1>1. CASE ~At(j, "reserved")'
  <2>1. starter'[j].pc = "raised" /\ UNCHANGED table
    BY <1>1, Shapes DEF Reserve, At, WriteFails
  <2>2. \A i \in Jobs : Kept(i)
    BY <1>0, <2>1 DEF Kept, Claims, RowKept
  <2> QED
    BY <2>2, KeptSuffices
<1>2. CASE At(j, "reserved")'
  <2> DEFINE new == [key |-> starter[j].key, owner |-> Owner(j), state |-> "queued",
                     health |-> "LIVE", interrupted |-> FALSE]
  <2>1. KeyIsFree(starter[j].key) /\ table' = [table EXCEPT ![j] = new]
    BY <1>2, Shapes DEF Reserve, At, WriteSucceeds, WriteFails
  <2>2. new \in Rows /\ Blocks(new)
    BY <1>0 DEF Rows, Active, Blocks
  <2>3. table'[j] # None /\ table'[j].key = starter[j].key /\ Blocks(table'[j])
    BY <2>1, <2>2 DEF JobsTypeOK
  <2>4. \A i \in Jobs : i # j => table'[i] = table[i] /\ (Claims(i)' <=> Claims(i))
    BY <1>0, <2>1 DEF Claims, JobsTypeOK
  <2>5. Held'
    BY <1>0, <2>3, <2>4 DEF Held, Written
  <2>6. ASSUME NEW i \in Jobs, i # j, Claims(i), starter[i].key = starter[j].key
        PROVE  starter[j].key = None
    <3>1. Written(i) /\ table[i].key = starter[j].key /\ Blocks(table[i])
      BY <2>6 DEF Held
    <3>2. table[i] \in Sharing(starter[j].key)
      BY <3>1 DEF Sharing
    <3>3. starter[j].key # None =>
            table[i].state \notin Active /\ (table[i].state \notin Terminal => ~table[i].interrupted)
      BY <2>1, <3>2 DEF KeyIsFree
    <3> QED
      BY <3>1, <3>3 DEF Blocks, Terminal
  <2>7. Exclusive'
    BY <1>0, <2>4, <2>6 DEF Exclusive
  <2> QED
    BY <2>5, <2>7
<1> QED
  BY <1>1, <1>2

\* The rest of start() writes to the row of its own job when the job is given up.
LEMMA StartKeeps ==
  ASSUME IInv, NEW j \in Jobs, StartCall(j), ~Reserve(j)
  PROVE  \A i \in Jobs : Kept(i)
<1> USE Shapes, JobsAssumption DEF IInv, At, Kept, Claims, RowKept
<1>0. /\ \A i \in Jobs : i # j => MarkedTerminal(j, "failed")[i] = table[i]
      /\ j \in ghosts => starter[j].pc \in {"accepted", "raised", "died"}
  BY DEF MarkedTerminal, JobsTypeOK, Placed
<1>1. CASE CheckClosed(j)
  BY <1>0, <1>1 DEF CheckClosed
<1>2. CASE Submit(j)
  <2>1. UNCHANGED <<table, ghosts>> /\ At(j, "submit") /\ To(j, starter'[j].pc)
        /\ starter'[j].pc \in {"insert", "refusing"}
    BY <1>2 DEF Submit
  <2>2. \A i \in Jobs : i # j => runner'[i] = runner[i]
    BY <1>2 DEF Submit, JobsTypeOK
  <2> QED
    BY <1>0, <2>1, <2>2
<1>3. CASE Refuse(j)
  BY <1>0, <1>3 DEF Refuse, WriteSucceeds, WriteFails
<1>4. CASE InsertRecord(j)
  <2>1. UNCHANGED <<table, ghosts>> /\ At(j, "insert") /\ To(j, starter'[j].pc)
    BY <1>4 DEF InsertRecord
  <2>2. \A i \in Jobs : i # j => runner'[i] = runner[i]
    BY <1>4 DEF InsertRecord, JobsTypeOK
  <2> QED
    BY <1>0, <2>1, <2>2
<1>5. CASE Recheck(j)
  BY <1>0, <1>5 DEF Recheck
<1>6. CASE Abandon(j)
  BY <1>0, <1>6 DEF Abandon
<1>7. CASE AbandonWrites(j)
  BY <1>0, <1>7 DEF AbandonWrites, WriteSucceeds, WriteFails
<1> QED
  BY <1>1, <1>2, <1>3, <1>4, <1>5, <1>6, <1>7 DEF StartCall

\* The pool thread ends its row when it has ended itself.
LEMMA PoolKeeps ==
  ASSUME IInv, NEW j \in Jobs, PoolThread(j)
  PROVE  \A i \in Jobs : Kept(i)
<1> USE Shapes, JobsAssumption DEF IInv, In, At, Kept, Claims
<1>0. /\ Table(table)
      /\ starter[j].pc \in {"reserved", "submit"} => runner[j].pc = "none"
      /\ starter[j].pc = "insert" => runner[j].pc \in {"pooled", "gated", "cancelled"}
      /\ j \in ghosts => runner[j].pc = "done"
  BY DEF JobsTypeOK, Placed, Table
<1>1. CASE Take(j)
  BY <1>0, <1>1 DEF Take, RowKept
<1>2. CASE Enter(j)
  BY <1>0, <1>2 DEF Enter, RowKept, Runners
<1>3. CASE StoreStarted(j)
  <2>1. \A i \in Jobs : RowKept(i)
    BY <1>0, <1>3, TablesHold DEF StoreStarted, WriteSucceeds, WriteFails, RowKept
  <2> QED
    BY <1>0, <1>3, <2>1 DEF StoreStarted
<1>4. CASE Work(j)
  BY <1>0, <1>4 DEF Work, RowKept, Runners
<1>5. CASE Complete(j)
  BY <1>0, <1>5 DEF Complete, RowKept
<1>6. CASE StoreTerminal(j)
  <2>1. \A i \in Jobs : i # j => table'[i] = table[i]
    BY <1>0, <1>6 DEF StoreTerminal, WriteSucceeds, WriteFails, MarkedTerminal, Table
  <2> QED
    BY <1>0, <1>6, <2>1 DEF StoreTerminal, RowKept
<1> QED
  BY <1>1, <1>2, <1>3, <1>4, <1>5, <1>6 DEF PoolThread

\* Reconciliation and heartbeats keep every key, closing and pruning those of jobs that have
\* a worker.
LEMMA SessionKeeps ==
  ASSUME IInv, NEW s \in Sessions,
         \/ Open(s) \/ Close(s) \/ Shutdown(s) \/ ShutdownReturns(s) \/ CloseReturns(s)
         \/ Crash(s) \/ WatchdogWrites(s)
         \/ \E j \in Jobs : Sweep(s, j) \/ Prune(s, j) \/ Forget(s, j) \/ WatchdogLooks(s, j)
  PROVE  \A i \in Jobs : Kept(i)
<1> USE JobsAssumption DEF IInv, In, At, Kept, Claims
<1>0. /\ Table(table) /\ watched \in [Sessions -> Jobs \cup {None}]
      /\ starter \in [Jobs -> Starters] /\ runner \in [Jobs -> Runners]
  BY DEF JobsTypeOK, Table, Starters, Runners
<1>1. CASE Open(s)
  <2>1. \A i \in Jobs : RowKept(i)
    BY <1>0, <1>1, ReconciledHolds DEF Open, RowKept
  <2> QED
    BY <1>1, <2>1 DEF Open
<1>2. CASE Close(s) \/ ShutdownReturns(s) \/ CloseReturns(s)
  BY <1>2 DEF Close, ShutdownReturns, CloseReturns, RowKept
<1>3. CASE Shutdown(s)
  <2>1. ASSUME NEW j \in Jobs
        PROVE  runner'[j] = runner[j] \/ runner'[j].pc = "cancelled"
    BY <1>0, <1>3, <2>1 DEF Shutdown, Runners
  <2> QED
    BY <1>3, <2>1 DEF Shutdown, RowKept
<1>4. CASE Crash(s)
  <2>1. ASSUME NEW j \in Jobs
        PROVE  /\ starter'[j].key = starter[j].key
               /\ Owner(j) # s => /\ starter'[j] = starter[j] /\ runner'[j] = runner[j]
                                  /\ (j \in ghosts' <=> j \in ghosts)
               /\ Owner(j) = s => /\ runner'[j].pc \in {"none", "done"}
                                  /\ starter'[j].pc = IF starter[j].pc \in {"accepted", "raised"}
                                                      THEN starter[j].pc ELSE "died"
                                  /\ j \in ghosts' <=> j \in ghosts \/ runner[j].pc = "working"
    BY <1>0, <1>4, <2>1 DEF Crash, Of, Runners, Starters
  <2>2. \A j \in Jobs : runner[j].pc = "working" =>
          starter[j].pc \in {"recheck", "abandon", "abandoning", "accepted", "raised"}
    BY <1>0 DEF Placed, Idle, Starters, StartLabels
  <2>3. \A j \in Jobs : j \in ghosts => starter[j].pc \in {"accepted", "raised", "died"}
    BY DEF Placed
  <2>4. UNCHANGED table
    BY <1>4 DEF Crash
  <2> QED
    BY <2>1, <2>2, <2>3, <2>4 DEF RowKept
<1>5. CASE WatchdogWrites(s)
  <2>1. \A i \in Jobs : RowKept(i)
    BY <1>0, <1>5, TablesHold DEF WatchdogWrites, RowKept
  <2> QED
    BY <1>5, <2>1 DEF WatchdogWrites
<1>6. ASSUME NEW j \in Jobs, Sweep(s, j) PROVE \A i \in Jobs : Kept(i)
  <2>1. UNCHANGED <<starter, runner, ghosts>> /\ session[s] = "sweeping" /\ j \in swept[s]
    BY <1>6 DEF Sweep
  <2>2. ~Claims(j)
    BY <2>1 DEF Placed, Inserted, Idle
  <2>3. \A i \in Jobs : i # j => table'[i] = table[i]
    BY <1>0, <1>6 DEF Sweep, WriteSucceeds, WriteFails, MarkedTerminal, Table
  <2> QED
    BY <2>1, <2>2, <2>3 DEF RowKept
<1>7. ASSUME NEW j \in Jobs, Prune(s, j) PROVE \A i \in Jobs : Kept(i)
  BY <1>0, <1>7 DEF Prune, RowKept, Table
<1>8. ASSUME NEW j \in Jobs, Forget(s, j) \/ WatchdogLooks(s, j) PROVE \A i \in Jobs : Kept(i)
  BY <1>8 DEF Forget, WatchdogLooks, RowKept
<1> QED
  BY <1>1, <1>2, <1>3, <1>4, <1>5, <1>6, <1>7, <1>8

LEMMA Inductive ==
  ASSUME IInv, [AnyJobsNext]_jobVars
  PROVE  IInv'
<1>1. JobsTypeOK' /\ Placed' /\ Ended'
  BY TypeStep, PlacedStep DEF IInv
<1>2. ASSUME NEW j \in Jobs, StartCall(j) PROVE Held' /\ Exclusive'
  <2>1. CASE Reserve(j)
    BY <2>1, ReserveExcludes
  <2>2. CASE ~Reserve(j)
    BY <1>2, <2>2, StartKeeps, KeptSuffices DEF IInv
  <2> QED
    BY <2>1, <2>2
<1>3. ASSUME NEW j \in Jobs, PoolThread(j) PROVE Held' /\ Exclusive'
  BY <1>3, PoolKeeps, KeptSuffices DEF IInv
<1>4. ASSUME NEW j \in Jobs, StatusCompletes(j) \/ GhostEnds(j) PROVE Held' /\ Exclusive'
  <2>1. \A i \in Jobs : Kept(i)
    BY <1>4 DEF StatusCompletes, GhostEnds, Kept, Claims, RowKept
  <2> QED
    BY <2>1, KeptSuffices DEF IInv
<1>5. ASSUME NEW s \in Sessions, NEW j \in Jobs, NEW k \in TaskKeys \cup {None}, Start(s, j, k)
      PROVE  Held' /\ Exclusive'
  <2>1. \A i \in Jobs : i # j => starter'[i] = starter[i]
    BY <1>5 DEF Start, IInv, JobsTypeOK
  <2>2. starter'[j].pc = "reserve" /\ UNCHANGED <<table, runner, ghosts>>
    BY <1>5 DEF Start, IInv, JobsTypeOK
  <2>3. \A i \in Jobs : Kept(i)
    BY <2>1, <2>2 DEF Kept, Claims, RowKept
  <2> QED
    BY <2>3, KeptSuffices DEF IInv
<1>6. ASSUME UNCHANGED jobVars PROVE Held' /\ Exclusive'
  <2>1. \A i \in Jobs : Kept(i)
    BY <1>6 DEF jobVars, Kept, Claims, RowKept
  <2> QED
    BY <2>1, KeptSuffices DEF IInv
<1>7. ASSUME NEW s \in Sessions,
             \/ Open(s) \/ Close(s) \/ Closing(s) \/ Crash(s) \/ WatchdogWrites(s)
             \/ \E j \in Jobs : Prune(s, j) \/ Forget(s, j) \/ WatchdogLooks(s, j)
      PROVE  Held' /\ Exclusive'
  <2>1. \A i \in Jobs : Kept(i)
    BY <1>7, SessionKeeps DEF Closing
  <2> QED
    BY <2>1, KeptSuffices DEF IInv
<1>8. Held' /\ Exclusive'
  <2>1. CASE JobsStep
    BY <1>2, <1>3, <1>4, <1>7, <2>1, Zenon DEF JobsStep
  <2>2. CASE \E s \in Sessions, j \in Jobs, k \in TaskKeys \cup {None} : Start(s, j, k)
    BY <1>5, <2>2
  <2> QED
    BY <1>6, <2>1, <2>2 DEF AnyJobsNext
<1> QED
  BY <1>1, <1>8 DEF IInv

LEMMA AlwaysIInv == JobsSpec => []IInv
<1>1. JobsInit => IInv
  BY InitIInv
<1>2. IInv /\ [AnyJobsNext]_jobVars => IInv'
  BY Inductive
<1>3. [JobsNext]_jobVars => [AnyJobsNext]_jobVars
  BY DEF JobsNext, AnyJobsNext
<1> QED
  BY <1>1, <1>2, <1>3, PTL DEF JobsSpec

\* Every variable of the jobs' model has its type, for any number of servers, jobs
\* and faults.
THEOREM JobsTypeCorrect == JobsSpec => []JobsTypeOK
<1>1. IInv => JobsTypeOK
  BY DEF IInv
<1> QED
  BY <1>1, AlwaysIInv, PTL

-----------------------------------------------------------------------------
\* Whoever works for a start that was not given up has a claim.
LEMMA WorkersClaim ==
  ASSUME IInv, NEW j \in Jobs, In(j, "working") \/ j \in ghosts, ~GivenUp(j)
  PROVE  Claims(j)
<1> USE DEF IInv, In, GivenUp, Claims
<1>1. CASE j \in ghosts
  BY <1>1 DEF Placed
<1>2. CASE runner[j].pc = "working"
  BY <1>2 DEF Placed, Idle, JobsTypeOK, StartLabels
<1> QED
  BY <1>1, <1>2

\* Two of one key would be two claims.
LEMMA OneOfAKey == ASSUME IInv PROVE OneWorkerPerKey
<1> SUFFICES ASSUME NEW k \in TaskKeys
             PROVE  Cardinality({j \in WorkersOf(k) : ~GivenUp(j)}) <= 1
  BY DEF OneWorkerPerKey
<1> DEFINE W == {j \in WorkersOf(k) : ~GivenUp(j)}
<1>1. \A j \in W : j \in Jobs /\ starter[j].key = k /\ Claims(j)
  BY WorkersClaim DEF WorkersOf
<1>2. \A i, j \in W : i = j
  BY <1>1, JobsAssumption DEF IInv, Exclusive
<1> HIDE DEF W
<1>3. W = {} \/ \E j : W = {j}
  BY <1>2
<1>4. Cardinality(W) <= 1
  <2>1. CASE W = {}
    <3>1. Cardinality(W) = 0
      BY <2>1, FS_EmptySet
    <3> QED
      BY <3>1
  <2>2. CASE \E j : W = {j}
    <3>1. Cardinality(W) = 1
      BY <2>2, FS_Singleton
    <3> QED
      BY <3>1
  <2> QED
    BY <1>3, <2>1, <2>2
<1> QED
  BY <1>4 DEF W

\* Two workers never work on one task key, whatever closes, dies, outlives its server
\* or is interrupted by another server's start.
THEOREM KeysExclude == JobsSpec => []OneWorkerPerKey
<1>1. IInv => OneWorkerPerKey
  BY OneOfAKey
<1> QED
  BY <1>1, AlwaysIInv, PTL

-----------------------------------------------------------------------------
(* What was said about the end of a job.                                     *)

\* Where a start() may still be, or is, accepted.
InReach(j) == starter[j].pc \in {"recheck", "accepted"}

UpFor(j) == Owner(j) # None /\ session[Owner(j)] = "up"

Ends(j) == Written(j) /\ table[j].state \in Terminal

\* What the memory, the thread and the row of a job say of its end: memory first, then
\* the row, and the same.  While its registry is up, a record is completed by its thread.
ToldOf(j) ==
  /\ Owner(j) # None => session[Owner(j)] # "down"
  /\ mem[j] # None /\ mem[j].completed => mem[j].answer \in Terminal
  /\ starter[j].pc \in {"insert", "recheck", "accepted"} /\ UpFor(j) => runner[j].pc # "cancelled"
  /\ InReach(j) =>
       /\ UpFor(j) /\ mem[j] # None => (mem[j].completed <=> runner[j].pc \in {"storing", "done"})
       /\ runner[j].pc = "storing" /\ mem[j] # None
            => mem[j].completed /\ mem[j].answer = runner[j].result
       /\ runner[j].pc \in {"ended", "storing"} => ~Ends(j)
       /\ mem[j] # None /\ Ends(j) => mem[j].completed /\ mem[j].answer = table[j].state
       /\ UpFor(j) /\ mem[j] # None /\ runner[j].pc = "done" /\ Written(j) /\ j \notin lost
            => table[j].state = mem[j].answer

\* The jobs that a close has yet to mark have a record.
Remembered ==
  \A s \in Sessions, j \in Jobs :
    j \in swept[s] /\ session[s] \in {"closing", "shut", "sweeping"} => mem[j] # None

Told == Remembered /\ \A j \in Jobs : ToldOf(j)

\* The answer about a job survives a step.
AnswerSurvives(j) ==
  \A s \in Sessions :
    session'[s] \notin {"down", "over"} /\ At(j, "accepted") /\ Answer(s, j) \in Terminal
      => Answer(s, j)' \in {Answer(s, j), "unknown"} \/ j \in lost

Good(j) == ToldOf(j)' /\ AnswerSurvives(j)

\* A step on the row that neither ends it nor changes its end.
Mild(j) ==
  Written(j)' => /\ Written(j)
                 /\ \/ table'[j].state = table[j].state
                    \/ table[j].state \notin Terminal /\ table'[j].state \notin Terminal

\* What a registry does to another's jobs.
Aside(j) ==
  /\ starter'[j] = starter[j] /\ runner'[j] = runner[j] /\ mem'[j] = mem[j] /\ Mild(j)
  /\ j \in lost => j \in lost'

\* No registry opens again.
Aging ==
  \A s \in Sessions : session[s] # "down" => session'[s] # "down" /\
                                             (session'[s] = "up" => session[s] = "up")

LEMMA OwnersTyped ==
  ASSUME JobsTypeOK, NEW j \in Jobs PROVE Owner(j) \in Sessions \cup {None} /\ None \notin Sessions
  BY JobsAssumption DEF JobsTypeOK, Owner

\* The answer as the registry of the owner and the others give it.
LEMMA AnswerCases ==
  ASSUME JobsTypeOK, NEW j \in Jobs, NEW s \in Sessions, Answer(s, j) \in Terminal
  PROVE  \/ s = Owner(j) /\ mem[j] # None /\ mem[j].completed /\ Answer(s, j) = mem[j].answer
         \/ (s # Owner(j) \/ mem[j] = None) /\ Ends(j) /\ Answer(s, j) = table[j].state
  BY DEF Answer, Terminal, Ends

LEMMA AsideIsGood ==
  ASSUME JobsTypeOK, NEW j \in Jobs, ToldOf(j), Aside(j), Aging
  PROVE  Good(j)
<1> USE DEF Aside
<1>0. /\ Owner(j)' = Owner(j) /\ Owner(j) \in Sessions \cup {None}
      /\ UpFor(j)' => UpFor(j) \/ (Owner(j) # None /\ session[Owner(j)] = "down")
      /\ Ends(j)' => Ends(j) /\ table'[j].state = table[j].state
      /\ InReach(j)' <=> InReach(j)
  BY OwnersTyped DEF Owner, UpFor, Aging, Mild, Ends, Written, InReach
<1>1. ToldOf(j)'
  <2>1. mem[j] # None /\ mem[j].completed /\ Written(j)' /\ table[j].state = mem[j].answer
        /\ mem[j].answer \in Terminal => table'[j].state = mem[j].answer
    BY DEF Mild
  <2>2. Owner(j)' # None => session'[Owner(j)'] # "down"
    BY <1>0 DEF Aging, ToldOf
  <2>3. Written(j)' => Written(j)
    BY DEF Mild
  <2>4. UpFor(j)' => UpFor(j)
    BY <1>0 DEF ToldOf
  <2> QED
    BY <1>0, <2>1, <2>2, <2>3, <2>4 DEF ToldOf
<1>2. AnswerSurvives(j)
  <2> SUFFICES ASSUME NEW s \in Sessions, Answer(s, j) \in Terminal
               PROVE  Answer(s, j)' \in {Answer(s, j), "unknown"}
    BY DEF AnswerSurvives
  <2>1. CASE s = Owner(j) /\ mem[j] # None
    BY <1>0, <2>1 DEF Answer
  <2>2. CASE ~(s = Owner(j) /\ mem[j] # None)
    <3>1. Ends(j) /\ Answer(s, j) = table[j].state
      BY <2>2, AnswerCases
    <3>2. Written(j)' => table'[j].state = table[j].state
      BY <3>1 DEF Mild, Ends
    <3>3. ~(s = Owner(j)' /\ mem'[j] # None)
      BY <1>0, <2>2
    <3> QED
      BY <3>1, <3>2, <3>3 DEF Answer, Ends, Terminal
  <2> QED
    BY <2>1, <2>2
<1> QED
  BY <1>1, <1>2 DEF Good

\* Nothing has been said about a job that was not accepted, and will not be.
LEMMA OutOfReachIsGood ==
  ASSUME JobsTypeOK, NEW j \in Jobs, starter[j].pc # "accepted",
         starter'[j].pc \notin {"insert", "recheck", "accepted"},
         Owner(j)' # None => session'[Owner(j)'] # "down",
         mem'[j] # None /\ mem'[j].completed => mem'[j].answer \in Terminal
  PROVE  Good(j)
  BY DEF Good, ToldOf, AnswerSurvives, At, InReach

\* A step on the rows of others leaves a row alone.
LEMMA RowsOfOthers ==
  ASSUME Table(table), NEW j \in Jobs, NEW i \in Jobs, i # j
  PROVE  /\ MarkedStarted(j)[i] = table[i] /\ Beaten(j)[i] = table[i]
         /\ \A state : MarkedTerminal(j, state)[i] = table[i]
  BY DEF Table, MarkedStarted, Beaten, MarkedTerminal

\* The first to complete a job says how it ended; whoever comes later says nothing.
LEMMA FirstCompletes ==
  ASSUME JobsTypeOK, NEW j \in Jobs, NEW state \in Terminal
  PROVE  /\ mem[j] = None => Completed(j, state) = mem
         /\ mem[j] # None /\ mem[j].completed => Completed(j, state) = mem
         /\ mem[j] # None /\ ~mem[j].completed =>
              /\ Completed(j, state)[j] # None /\ Completed(j, state)[j].completed
              /\ Completed(j, state)[j].answer = state
<1> DEFINE said == [completed |-> TRUE, answer |-> state]
<1>1. said \in Records /\ said # None
  <2>1. said \in Records
    BY DEF Records
  <2> HIDE DEF said
  <2> QED
    BY <2>1, JobsAssumption
<1>2. mem[j] # None /\ ~mem[j].completed => Completed(j, state)[j] = said
  BY DEF Completed, JobsTypeOK
<1>3. said.completed /\ said.answer = state
  OBVIOUS
<1>4. mem[j] = None \/ mem[j].completed => Completed(j, state) = mem
  BY DEF Completed
<1> HIDE DEF said
<1> QED
  BY <1>1, <1>2, <1>3, <1>4

\* mark_terminal ends the row, if there is one.
LEMMA EndedRow ==
  ASSUME Table(table), NEW j \in Jobs, NEW state \in Terminal
  PROVE  /\ table[j] = None => MarkedTerminal(j, state) = table
         /\ table[j] # None => /\ MarkedTerminal(j, state)[j] # None
                              /\ MarkedTerminal(j, state)[j].state = state
                              /\ MarkedTerminal(j, state)[j].health = Verdict[state]
<1> DEFINE ended == [table[j] EXCEPT !.state = state, !.health = Verdict[state],
                                     !.interrupted = FALSE]
<1>1. table[j] = None => MarkedTerminal(j, state) = table
  BY DEF MarkedTerminal, Written
<1>2. ASSUME table[j] # None
      PROVE  /\ MarkedTerminal(j, state)[j] # None
             /\ MarkedTerminal(j, state)[j].state = state
             /\ MarkedTerminal(j, state)[j].health = Verdict[state]
  <2>1. table[j] \in Rows
    BY <1>2 DEF Table
  <2>2. Verdict[state] \in {"COMPLETED", "FAILED"}
    BY DEF Verdict, Terminal
  <2>3. ended \in Rows /\ ended.state = state /\ ended.health = Verdict[state]
    BY <2>1, <2>2 DEF Rows
  <2>4. MarkedTerminal(j, state) = [table EXCEPT ![j] = ended]
    BY <1>2 DEF MarkedTerminal, Written
  <2> HIDE DEF ended
  <2> QED
    BY <2>3, <2>4, JobsAssumption DEF Table
<1> QED
  BY <1>1, <1>2

LEMMA StartGood ==
  ASSUME IInv, Told, NEW j \in Jobs, StartCall(j)
  PROVE  Remembered' /\ \A i \in Jobs : Good(i)
<1> USE JobsAssumption DEF IInv, Told
<1>0. /\ Table(table) /\ ToldOf(j) /\ starter \in [Jobs -> Starters]
      /\ mem \in [Jobs -> Records \cup {None}] /\ runner \in [Jobs -> Runners]
      /\ UNCHANGED <<session, swept>>
  BY DEF JobsTypeOK, Table, Starters, Runners, StartCall, Reserve, CheckClosed, Submit, Refuse,
         InsertRecord, Recheck, Abandon, AbandonWrites
<1>1. Aging
  BY <1>0 DEF Aging
<1>2. \A i \in Jobs : i # j => starter'[i] = starter[i] /\ runner'[i] = runner[i] /\ mem'[i] = mem[i]
  BY <1>0, Shapes DEF StartCall, Reserve, CheckClosed, Submit, Refuse,
         InsertRecord, Recheck, Abandon, AbandonWrites
<1>3. \A i \in Jobs : i # j => table'[i] = table[i]
  BY <1>0, RowsOfOthers DEF StartCall, Reserve, CheckClosed, Submit, Refuse,
         InsertRecord, Recheck, Abandon, AbandonWrites, WriteSucceeds, WriteFails, Table
<1>4. lost \subseteq lost'
  BY DEF StartCall, Reserve, CheckClosed, Submit, Refuse,
         InsertRecord, Recheck, Abandon, AbandonWrites
<1>5. ASSUME NEW i \in Jobs, i # j PROVE Good(i)
  <2>1. Aside(i)
    BY <1>2, <1>3, <1>4, <1>5 DEF Aside, Mild, Written
  <2> QED
    BY <1>1, <2>1, AsideIsGood
<1>6. /\ starter[j].pc # "accepted" /\ Owner(j)' = Owner(j)
      /\ starter'[j].pc \in {"insert", "recheck", "accepted"} =>
           Submit(j) \/ InsertRecord(j) \/ Recheck(j)
      /\ starter[j].pc # "none"
  BY <1>0, Shapes DEF At, StartCall, Reserve, CheckClosed, Submit, Refuse,
         InsertRecord, Recheck, Abandon, AbandonWrites
<1>7. Owner(j)' # None => session'[Owner(j)'] # "down"
  BY <1>0, <1>6 DEF ToldOf
<1>8. mem'[j] # None /\ mem'[j].completed => mem'[j].answer \in Terminal
  <2>1. CASE Abandon(j)
    BY <1>0, <2>1 DEF Abandon, Completed, ToldOf, Terminal
  <2>2. CASE InsertRecord(j)
    BY <1>0, <2>2 DEF InsertRecord, ToldOf
  <2>3. CASE UNCHANGED mem
    BY <1>0, <2>3 DEF ToldOf
  <2> QED
    BY <2>1, <2>2, <2>3 DEF StartCall, Reserve, CheckClosed, Submit, Refuse, Recheck, AbandonWrites
<1>9. Remembered'
  <2>1. \A i \in Jobs : mem[i] # None => mem'[i] # None
    <3>1. mem[j] # None => mem'[j] # None
      <4>1. CASE Abandon(j)
        BY <4>1, FirstCompletes DEF Abandon, Terminal
      <4>2. CASE InsertRecord(j)
        <5>1. [completed |-> FALSE, answer |-> None] \in Records
          BY DEF Records
        <5>2. UNCHANGED mem \/ mem' = [mem EXCEPT ![j] = [completed |-> FALSE, answer |-> None]]
          BY <4>2 DEF InsertRecord
        <5> QED
          BY <1>0, <5>1, <5>2
      <4>3. CASE UNCHANGED mem
        BY <4>3
      <4> QED
        BY <4>1, <4>2, <4>3 DEF StartCall, Reserve, CheckClosed, Submit, Refuse, Recheck, AbandonWrites
    <3> QED
      BY <1>2, <3>1
  <2> QED
    BY <1>0, <2>1 DEF Remembered
<1>10. CASE starter'[j].pc \notin {"insert", "recheck", "accepted"}
  <2>1. Good(j)
    BY <1>6, <1>7, <1>8, <1>10, OutOfReachIsGood
  <2> QED
    BY <1>5, <1>9, <2>1
<1>11. CASE starter'[j].pc \in {"insert", "recheck", "accepted"}
  <2>0. AnswerSurvives(j)
    BY <1>6 DEF AnswerSurvives, At
  <2>1. CASE Submit(j)
    <3>1. starter'[j].pc = "insert" /\ runner'[j].pc = "pooled"
      <4>1. \/ To(j, "insert") /\ runner' = [runner EXCEPT ![j].pc = "pooled"]
            \/ To(j, "refusing")
        BY <2>1 DEF Submit
      <4>2. ~To(j, "refusing")
        BY <1>11, Shapes
      <4> QED
        BY <1>0, <4>1, <4>2, Shapes DEF Runners
    <3>2. ToldOf(j)'
      BY <1>7, <1>8, <3>1 DEF ToldOf, InReach
    <3> QED
      BY <1>5, <1>9, <2>0, <3>2 DEF Good
  <2>2. CASE InsertRecord(j)
    <3>1. /\ starter[j].pc = "insert" /\ starter'[j].pc = "recheck" /\ ~Closed(Owner(j))
          /\ mem' = [mem EXCEPT ![j] = [completed |-> FALSE, answer |-> None]]
          /\ UNCHANGED <<runner, table, lost>>
      BY <1>0, <1>11, <2>2, Shapes DEF InsertRecord, At
    <3>2. Owner(j) \in Sessions /\ session[Owner(j)] = "up"
      <4>1. Owner(j) # None
        BY <1>6 DEF Placed
      <4>2. session[Owner(j)] \in Phases /\ session[Owner(j)] # "down"
        BY <1>0, <4>1, OwnersTyped DEF JobsTypeOK, ToldOf
      <4> QED
        BY <3>1, <4>1, <4>2, OwnersTyped DEF Closed, Phases
    <3>3. runner[j].pc \in {"pooled", "gated"}
      BY <1>0, <3>1, <3>2 DEF Placed, ToldOf, UpFor
    <3>4. ~Ends(j)
      <4>1. Claims(j)
        BY <3>1 DEF Claims
      <4> QED
        BY <4>1 DEF Held, Blocks, Ends, Active, Terminal
    <3>5. ~mem'[j].completed /\ ~Ends(j)'
      BY <1>0, <3>1, <3>4 DEF Ends, Written
    <3>6. ToldOf(j)'
      BY <1>7, <3>1, <3>3, <3>5 DEF ToldOf, InReach
    <3> QED
      BY <1>5, <1>9, <2>0, <3>6 DEF Good
  <2>3. CASE Recheck(j)
    <3>1. /\ starter[j].pc = "recheck" /\ starter'[j].pc = "accepted"
          /\ UNCHANGED <<runner, table, lost, mem, session>>
      BY <1>0, <1>11, <2>3, Shapes DEF Recheck, At
    <3>2. ToldOf(j)'
      BY <1>0, <1>6, <1>7, <3>1 DEF ToldOf, InReach, UpFor, Ends, Written
    <3> QED
      BY <1>5, <1>9, <2>0, <3>2 DEF Good
  <2> QED
    BY <1>5, <1>6, <1>9, <1>11, <2>1, <2>2, <2>3
<1> QED
  BY <1>10, <1>11

LEMMA PoolGood ==
  ASSUME IInv, Told, NEW j \in Jobs, PoolThread(j)
  PROVE  Remembered' /\ \A i \in Jobs : Good(i)
<1> USE JobsAssumption DEF IInv, Told
<1>0. /\ Table(table) /\ ToldOf(j) /\ starter \in [Jobs -> Starters]
      /\ mem \in [Jobs -> Records \cup {None}] /\ runner \in [Jobs -> Runners]
      /\ UNCHANGED <<session, swept, starter>>
  BY DEF JobsTypeOK, Table, Starters, Runners, PoolThread, Take, Enter, StoreStarted, Work, Complete,
         StoreTerminal
<1>1. Aging
  BY <1>0 DEF Aging
<1>2. \A i \in Jobs : i # j => runner'[i] = runner[i] /\ mem'[i] = mem[i]
  BY <1>0, Shapes DEF PoolThread, Take, Enter, StoreStarted, Work, Complete, StoreTerminal
<1>3. \A i \in Jobs : i # j => table'[i] = table[i]
  BY <1>0, RowsOfOthers DEF PoolThread, Take, Enter, StoreStarted, Work, Complete, StoreTerminal,
         WriteSucceeds, WriteFails, Table
<1>4. lost \subseteq lost'
  BY DEF PoolThread, Take, Enter, StoreStarted, Work, Complete, StoreTerminal
<1>5. ASSUME NEW i \in Jobs, i # j PROVE Good(i)
  <2>1. Aside(i)
    BY <1>0, <1>2, <1>3, <1>4, <1>5 DEF Aside, Mild, Written
  <2> QED
    BY <1>1, <2>1, AsideIsGood
<1>6. mem[j] # None => mem'[j] # None
  <2>1. CASE Complete(j)
    BY <2>1, FirstCompletes DEF Complete, Ended, In
  <2>2. CASE UNCHANGED mem
    BY <2>2
  <2> QED
    BY <2>1, <2>2 DEF PoolThread, Take, Enter, StoreStarted, Work, StoreTerminal
<1>7. Remembered'
  BY <1>0, <1>2, <1>6 DEF Remembered
<1>8. /\ Owner(j)' = Owner(j) /\ InReach(j)' = InReach(j) /\ UpFor(j)' = UpFor(j)
      /\ Owner(j) # None => session'[Owner(j)] # "down"
  BY <1>0 DEF Owner, InReach, UpFor, ToldOf
<1>9. InReach(j) /\ runner[j].pc \in {"gated", "starting", "working"} => ~Ends(j)
  <2>1. InReach(j) /\ runner[j].pc \in {"gated", "starting", "working"} => Claims(j)
    BY DEF InReach, Claims
  <2> QED
    BY <2>1 DEF Held, Blocks, Ends, Active, Terminal
<1>10. CASE UNCHANGED <<mem, table, lost>> /\ \/ Take(j) \/ Enter(j) \/ Work(j)
  <2>1. /\ runner[j].pc \in {"pooled", "gated", "working"}
        /\ runner'[j].pc \in {"gated", "starting", "ended"}
        /\ runner'[j].pc = "ended" => runner[j].pc \in {"gated", "working"}
    BY <1>0, <1>10, Shapes DEF Take, Enter, Work, In
  <2>2. Ends(j)' = Ends(j)
    BY <1>10 DEF Ends, Written
  <2>3. ToldOf(j)'
    BY <1>0, <1>8, <1>9, <1>10, <2>1, <2>2 DEF ToldOf, InReach
  <2>4. AnswerSurvives(j)
    BY <1>8, <1>10 DEF AnswerSurvives, Answer, Written
  <2> QED
    BY <1>5, <1>7, <2>3, <2>4 DEF Good
<1>11. CASE StoreStarted(j)
  <2>1. /\ runner[j].pc = "starting" /\ runner'[j].pc = "working" /\ UNCHANGED <<mem, lost>>
        /\ table' = table \/ table' = MarkedStarted(j)
    BY <1>11, Shapes DEF StoreStarted, In, WriteSucceeds, WriteFails
  <2>2. InReach(j) => ~Ends(j)'
    <3>1. CASE table' = table
      BY <1>9, <2>1, <3>1 DEF Ends, Written
    <3>2. CASE table' = MarkedStarted(j)
      BY <1>0, <1>9, <3>2 DEF Ends, Written, MarkedStarted, Table, Rows, Terminal
    <3> QED
      BY <2>1, <3>1, <3>2
  <2>3. ToldOf(j)'
    BY <1>0, <1>8, <2>1, <2>2 DEF ToldOf, InReach
  <2>4. AnswerSurvives(j)
    <3> SUFFICES ASSUME NEW s \in Sessions, At(j, "accepted"), Answer(s, j) \in Terminal
                 PROVE  Answer(s, j)' = Answer(s, j)
      BY DEF AnswerSurvives
    <3>1. s = Owner(j) /\ mem[j] # None
      BY <1>9, <2>1, AnswerCases DEF At, InReach
    <3> QED
      BY <1>8, <2>1, <3>1 DEF Answer
  <2> QED
    BY <1>5, <1>7, <2>3, <2>4 DEF Good
<1>12. CASE Complete(j)
  <2>1. /\ runner[j].pc = "ended" /\ runner[j].result \in Terminal /\ runner'[j].result = runner[j].result
        /\ mem' = Completed(j, runner[j].result) /\ UNCHANGED <<table, lost>>
        /\ runner'[j].pc = IF AlreadyCompleted(j) THEN "done" ELSE "storing"
    BY <1>0, <1>12, Shapes DEF Complete, In, Ended
  <2>2. /\ mem[j] = None => mem'[j] = None
        /\ mem[j] # None /\ mem[j].completed => mem'[j] = mem[j]
        /\ mem[j] # None /\ ~mem[j].completed
             => mem'[j] # None /\ mem'[j].completed /\ mem'[j].answer = runner[j].result
    BY <2>1, FirstCompletes
  <2>3. Ends(j)' = Ends(j)
    BY <2>1 DEF Ends, Written
  <2>4. ToldOf(j)'
    BY <1>0, <1>8, <2>1, <2>2, <2>3 DEF ToldOf, InReach, AlreadyCompleted
  <2>5. AnswerSurvives(j)
    <3> SUFFICES ASSUME NEW s \in Sessions, At(j, "accepted"), Answer(s, j) \in Terminal
                 PROVE  Answer(s, j)' = Answer(s, j)
      BY DEF AnswerSurvives
    <3>1. s = Owner(j) /\ mem[j] # None /\ mem[j].completed
      BY <1>0, <2>1, AnswerCases DEF At, InReach, ToldOf
    <3> QED
      BY <1>8, <2>2, <3>1 DEF Answer
  <2> QED
    BY <1>5, <1>7, <2>4, <2>5 DEF Good
<1>13. CASE StoreTerminal(j)
  <2>1. /\ runner[j].pc = "storing" /\ runner[j].result \in Terminal /\ runner'[j].pc = "done"
        /\ UNCHANGED mem
        /\ \/ table' = MarkedTerminal(j, runner[j].result) /\ UNCHANGED lost
           \/ UNCHANGED table /\ j \in lost'
    BY <1>13, Shapes DEF StoreTerminal, In, Ended, WriteSucceeds, WriteFails
  <2>2. InReach(j) => ~Ends(j)
    BY <1>0, <2>1 DEF ToldOf
  <2>3. CASE UNCHANGED table /\ j \in lost'
    <3>1. Ends(j)' = Ends(j)
      BY <2>3 DEF Ends, Written
    <3>2. ToldOf(j)'
      BY <1>0, <1>8, <2>1, <2>2, <2>3, <3>1 DEF ToldOf, InReach
    <3>3. AnswerSurvives(j)
      BY <1>8, <2>1, <2>3 DEF AnswerSurvives, Answer, Written
    <3> QED
      BY <1>5, <1>7, <3>2, <3>3 DEF Good
  <2>4. CASE table' = MarkedTerminal(j, runner[j].result) /\ UNCHANGED lost
    <3>1. /\ Written(j)' => table'[j].state = runner[j].result
          /\ Written(j)' <=> Written(j)
      BY <1>0, <2>1, <2>4, EndedRow DEF Written
    <3>2. ToldOf(j)'
      BY <1>0, <1>8, <2>1, <2>4, <3>1 DEF ToldOf, InReach, Ends
    <3>3. AnswerSurvives(j)
      <4> SUFFICES ASSUME NEW s \in Sessions, At(j, "accepted"), Answer(s, j) \in Terminal
                   PROVE  Answer(s, j)' = Answer(s, j)
        BY DEF AnswerSurvives
      <4>1. s = Owner(j) /\ mem[j] # None
        BY <2>2, AnswerCases DEF At, InReach
      <4> QED
        BY <1>8, <2>1, <4>1 DEF Answer
    <3> QED
      BY <1>5, <1>7, <3>2, <3>3 DEF Good
  <2> QED
    BY <2>1, <2>3, <2>4
<1> QED
  BY <1>10, <1>11, <1>12, <1>13 DEF PoolThread, Take, Enter, Work

\* Reconciliation and heartbeats end no row and leave the ended ones alone.
LEMMA MildRows ==
  ASSUME Table(table), NEW i \in Jobs
  PROVE  /\ \A s \in Sessions : table' = Reconciled(s) => Mild(i)
         /\ \A j \in Jobs : table' = Beaten(j) => Mild(i)
<1> USE JobsAssumption DEF Table
<1>1. table[i] # None => table[i] \in Rows
  OBVIOUS
<1>2. ASSUME NEW s \in Sessions, table' = Reconciled(s) PROVE Mild(i)
  BY <1>1, <1>2 DEF Reconciled, Mild, Written, Rows, Active, Terminal
<1>3. ASSUME NEW j \in Jobs, table' = Beaten(j) PROVE Mild(i)
  BY <1>1, <1>3 DEF Beaten, Mild, Written, Rows, Active, Terminal
<1> QED
  BY <1>2, <1>3

LEMMA SessionGood ==
  ASSUME IInv, Told, NEW s \in Sessions,
         \/ Open(s) \/ Close(s) \/ Shutdown(s) \/ ShutdownReturns(s) \/ CloseReturns(s)
         \/ Crash(s) \/ WatchdogWrites(s)
         \/ \E j \in Jobs : Sweep(s, j) \/ Prune(s, j) \/ Forget(s, j) \/ WatchdogLooks(s, j)
  PROVE  Remembered' /\ \A i \in Jobs : Good(i)
<1> USE JobsAssumption DEF IInv, Told
<1>0. /\ Table(table) /\ \A i \in Jobs : ToldOf(i)
      /\ starter \in [Jobs -> Starters] /\ runner \in [Jobs -> Runners]
      /\ mem \in [Jobs -> Records \cup {None}] /\ session \in [Sessions -> Phases]
      /\ swept \in [Sessions -> SUBSET Jobs]
  BY DEF JobsTypeOK, Table, Starters, Runners
<1>1. ASSUME Aging, \A i \in Jobs : Aside(i) PROVE \A i \in Jobs : Good(i)
  BY <1>0, <1>1, AsideIsGood
<1>2. CASE Open(s)
  <2>1. /\ session[s] = "down" /\ session' = [session EXCEPT ![s] = "up"] /\ table' = Reconciled(s)
        /\ UNCHANGED <<swept, mem, starter, runner, lost>>
    BY <1>2 DEF Open
  <2>2. Remembered'
    BY <1>0, <2>1 DEF Remembered
  <2>3. Aging /\ \A i \in Jobs : Aside(i)
    BY <1>0, <2>1, MildRows DEF Aging, Aside
  <2> QED
    BY <1>1, <2>2, <2>3
<1>3. CASE Close(s)
  <2>1. /\ session' = [session EXCEPT ![s] = "closing"]
        /\ swept' = [swept EXCEPT ![s] = {j \in Of(s) : mem[j] # None /\ ~mem[j].completed}]
        /\ UNCHANGED <<table, mem, starter, runner, lost>>
    BY <1>3 DEF Close
  <2>2. Remembered'
    BY <1>0, <2>1 DEF Remembered, Of
  <2>3. Aging /\ \A i \in Jobs : Aside(i)
    BY <1>0, <2>1 DEF Aging, Aside, Mild, Written
  <2> QED
    BY <1>1, <2>2, <2>3
<1>4. CASE ShutdownReturns(s) \/ CloseReturns(s)
  <2>1. /\ session[s] \in {"shut", "sweeping"}
        /\ \/ session[s] = "shut" /\ session' = [session EXCEPT ![s] = "sweeping"]
           \/ session' = [session EXCEPT ![s] = "over"]
        /\ UNCHANGED <<table, swept, mem, starter, runner, lost>>
    BY <1>4 DEF ShutdownReturns, CloseReturns
  <2>2. Remembered'
    BY <1>0, <2>1 DEF Remembered
  <2>3. Aging /\ \A i \in Jobs : Aside(i)
    BY <1>0, <2>1 DEF Aging, Aside, Mild, Written
  <2> QED
    BY <1>1, <2>2, <2>3
<1>5. CASE WatchdogWrites(s)
  <2>1. /\ watched[s] \in Jobs /\ table' = Beaten(watched[s])
        /\ UNCHANGED <<session, swept, mem, starter, runner, lost>>
    BY <1>5 DEF WatchdogWrites, JobsTypeOK
  <2>2. Remembered'
    BY <2>1 DEF Remembered
  <2>3. Aging /\ \A i \in Jobs : Aside(i)
    BY <1>0, <2>1, MildRows DEF Aging, Aside
  <2> QED
    BY <1>1, <2>2, <2>3
<1>6. ASSUME NEW j \in Jobs, WatchdogLooks(s, j) \/ Prune(s, j)
      PROVE  Remembered' /\ \A i \in Jobs : Good(i)
  <2>1. /\ UNCHANGED <<session, swept, mem, starter, runner, lost>>
        /\ \/ UNCHANGED table
           \/ table' = [table EXCEPT ![j] = None]
    BY <1>6 DEF WatchdogLooks, Prune
  <2>2. Remembered'
    BY <2>1 DEF Remembered
  <2>3. Aging /\ \A i \in Jobs : Aside(i)
    BY <1>0, <2>1 DEF Aging, Aside, Mild, Written, Table
  <2> QED
    BY <1>1, <2>2, <2>3
<1>7. CASE Shutdown(s)
  <2>1. /\ session[s] = "closing" /\ session' = [session EXCEPT ![s] = "shut"]
        /\ UNCHANGED <<table, swept, mem, starter, lost>>
    BY <1>7 DEF Shutdown
  <2>2. Remembered'
    BY <1>0, <2>1 DEF Remembered
  <2>3. Aging
    BY <1>0, <2>1 DEF Aging
  <2>4. ASSUME NEW i \in Jobs
        PROVE  \/ runner'[i] = runner[i]
               \/ Owner(i) = s /\ runner[i].pc = "pooled" /\ runner'[i].pc = "cancelled"
    BY <1>0, <1>7, <2>4 DEF Shutdown, Of, In, Runners
  <2>5. ASSUME NEW i \in Jobs PROVE Good(i)
    <3>1. CASE runner'[i] = runner[i]
      <4>1. Aside(i)
        BY <2>1, <3>1 DEF Aside, Mild, Written
      <4> QED
        BY <1>0, <2>3, <4>1, AsideIsGood
    <3>2. CASE Owner(i) = s /\ runner[i].pc = "pooled" /\ runner'[i].pc = "cancelled"
      <4>1. session'[s] = "shut" /\ Owner(i)' = Owner(i) /\ ToldOf(i)
            /\ Ends(i)' = Ends(i) /\ InReach(i)' = InReach(i)
        BY <1>0, <2>1 DEF Owner, Ends, Written, InReach
      <4>2. Owner(i)' # None => session'[Owner(i)'] # "down"
        BY <3>2, <4>1
      <4>3. ~UpFor(i)'
        BY <3>2, <4>1 DEF UpFor
      <4>4. ToldOf(i)'
        BY <2>1, <3>2, <4>1, <4>2, <4>3 DEF ToldOf
      <4>5. AnswerSurvives(i)
        BY <2>1, <4>1 DEF AnswerSurvives, Answer, Written
      <4> QED
        BY <4>4, <4>5 DEF Good
    <3> QED
      BY <2>4, <3>1, <3>2
  <2> QED
    BY <2>2, <2>5
<1>8. CASE Crash(s)
  <2>1. /\ session[s] # "down" /\ session' = [session EXCEPT ![s] = "over"]
        /\ UNCHANGED <<table, swept, lost>>
    BY <1>8 DEF Crash
  <2>2. ASSUME NEW i \in Jobs
        PROVE  /\ Owner(i)' = Owner(i)
               /\ Owner(i) # s => /\ starter'[i] = starter[i] /\ runner'[i] = runner[i]
                                  /\ mem'[i] = mem[i]
               /\ Owner(i) = s => /\ runner'[i].pc \in {"none", "done"} /\ mem'[i] = None
    BY <1>0, <1>8, <2>2 DEF Crash, Owner, Of, In, Runners, Starters
  <2>3. Aging
    BY <1>0, <2>1 DEF Aging
  <2>4. Remembered'
    <3>1. \A t \in Sessions, j \in Jobs : j \in swept[t] => Owner(j) = t
      BY DEF Placed
    <3> QED
      BY <1>0, <2>1, <2>2, <3>1 DEF Remembered
  <2>5. ASSUME NEW i \in Jobs PROVE Good(i)
    <3>1. CASE Owner(i) # s
      <4>1. Aside(i)
        BY <2>1, <2>2, <3>1 DEF Aside, Mild, Written
      <4> QED
        BY <1>0, <2>3, <4>1, AsideIsGood
    <3>2. CASE Owner(i) = s
      <4>1. session'[Owner(i)'] = "over" /\ mem'[i] = None /\ runner'[i].pc \in {"none", "done"}
        BY <1>0, <2>1, <2>2, <3>2
      <4>2. ToldOf(i)'
        BY <4>1 DEF ToldOf, UpFor
      <4>3. AnswerSurvives(i)
        <5> SUFFICES ASSUME NEW t \in Sessions, session'[t] # "over"
                     PROVE  Answer(t, i)' = Answer(t, i)
          BY DEF AnswerSurvives
        <5>1. t # Owner(i) /\ Owner(i)' = Owner(i)
          BY <2>2, <4>1
        <5> QED
          BY <2>1, <5>1 DEF Answer, Written
      <4> QED
        BY <4>2, <4>3 DEF Good
    <3> QED
      BY <3>1, <3>2
  <2> QED
    BY <2>4, <2>5
<1>9. ASSUME NEW j \in Jobs, Forget(s, j) PROVE Remembered' /\ \A i \in Jobs : Good(i)
  <2>1. /\ session[s] = "up" /\ Owner(j) = s /\ mem[j] # None /\ mem[j].completed
        /\ runner[j].pc # "storing" /\ mem' = [mem EXCEPT ![j] = None]
        /\ UNCHANGED <<table, session, swept, starter, runner, lost>>
    BY <1>9 DEF Forget, Of
  <2>2. Aging
    BY <2>1 DEF Aging
  <2>3. Remembered'
    <3>1. \A t \in Sessions, i \in Jobs : i \in swept[t] => Owner(i) = t
      BY DEF Placed
    <3> QED
      BY <1>0, <2>1, <3>1 DEF Remembered
  <2>4. ASSUME NEW i \in Jobs, i # j PROVE Good(i)
    <3>1. Aside(i)
      BY <1>0, <2>1, <2>4 DEF Aside, Mild, Written
    <3> QED
      BY <1>0, <2>2, <3>1, AsideIsGood
  <2>5. mem'[j] = None /\ Owner(j)' = Owner(j) /\ Ends(j)' = Ends(j) /\ InReach(j)' = InReach(j)
        /\ UpFor(j)' = UpFor(j) /\ ToldOf(j) /\ UpFor(j)
    BY <1>0, <2>1 DEF Owner, Ends, Written, InReach, UpFor
  <2>6. ToldOf(j)'
    BY <2>1, <2>5 DEF ToldOf
  <2>7. AnswerSurvives(j)
    <3> SUFFICES ASSUME NEW t \in Sessions, At(j, "accepted"), Answer(t, j) \in Terminal, j \notin lost
                 PROVE  Answer(t, j)' \in {Answer(t, j), "unknown"}
      BY DEF AnswerSurvives
    <3>1. Answer(t, j)' = IF ~Written(j) THEN "unknown"
                          ELSE IF table[j].state \in Terminal THEN table[j].state
                          ELSE IF table[j].interrupted THEN "interrupted" ELSE "active"
      BY <2>1, <2>5 DEF Answer, Written
    <3>2. CASE t = Owner(j)
      <4>1. Answer(t, j) = mem[j].answer /\ mem[j].answer \in Terminal
        BY <2>1, <2>5, <3>2 DEF Answer, ToldOf
      <4>2. runner[j].pc = "done" /\ InReach(j)
        BY <2>1, <2>5 DEF ToldOf, At, InReach
      <4>3. Written(j) => table[j].state = mem[j].answer
        BY <2>1, <2>5, <4>2 DEF ToldOf
      <4> QED
        BY <3>1, <4>1, <4>3
    <3>3. CASE t # Owner(j)
      BY <3>1, <3>3 DEF Answer
    <3> QED
      BY <3>2, <3>3
  <2> QED
    BY <2>3, <2>4, <2>6, <2>7 DEF Good
<1>10. ASSUME NEW j \in Jobs, Sweep(s, j) PROVE Remembered' /\ \A i \in Jobs : Good(i)
  <2>1. /\ session[s] = "sweeping" /\ j \in swept[s] /\ swept' = [swept EXCEPT ![s] = @ \ {j}]
        /\ mem' = Completed(j, "failed") /\ "failed" \in Terminal
        /\ \/ AlreadyCompleted(j) /\ UNCHANGED <<table, lost>>
           \/ ~AlreadyCompleted(j) /\ table' = MarkedTerminal(j, "failed") /\ UNCHANGED lost
           \/ ~AlreadyCompleted(j) /\ table' = table /\ lost \subseteq lost'
        /\ UNCHANGED <<session, starter, runner>>
    BY <1>10 DEF Sweep, WriteSucceeds, WriteFails, Terminal
  <2>2. Aging
    BY <2>1 DEF Aging
  <2>3. \A i \in Jobs : i # j => mem'[i] = mem[i] /\ table'[i] = table[i]
    BY <1>0, <2>1, Shapes, RowsOfOthers
  <2>4. /\ mem[j] # None /\ Owner(j) = s /\ runner[j].pc \in Idle
        /\ ~UpFor(j) /\ UpFor(j)' = UpFor(j) /\ Owner(j)' = Owner(j) /\ InReach(j)' = InReach(j)
    BY <2>1 DEF Remembered, Placed, UpFor, Owner, InReach
  <2>5. /\ mem'[j] # None /\ mem'[j].completed
        /\ mem[j].completed => mem'[j] = mem[j]
        /\ ~mem[j].completed => mem'[j].answer = "failed"
    BY <2>1, <2>4, FirstCompletes
  <2>6. Remembered'
    BY <1>0, <2>1, <2>3, <2>5 DEF Remembered
  <2>7. ASSUME NEW i \in Jobs, i # j PROVE Good(i)
    <3>1. Aside(i)
      BY <1>0, <2>1, <2>3, <2>7 DEF Aside, Mild, Written
    <3> QED
      BY <1>0, <2>2, <3>1, AsideIsGood
  <2>8. CASE mem[j].completed
    <3>1. UNCHANGED <<table, lost>> /\ mem'[j] = mem[j]
      BY <2>1, <2>4, <2>5, <2>8 DEF AlreadyCompleted
    <3>2. Aside(j)
      BY <2>1, <3>1 DEF Aside, Mild, Written
    <3>3. Good(j)
      BY <1>0, <2>2, <3>2, AsideIsGood
    <3> QED
      BY <2>6, <2>7, <3>3
  <2>9. CASE ~mem[j].completed
    <3>1. InReach(j) => ~Ends(j)
      BY <1>0, <2>4, <2>9 DEF ToldOf
    <3>2. InReach(j) /\ Ends(j)' => table'[j].state = "failed"
      <4>1. CASE table' = table
        BY <3>1, <4>1, <2>4 DEF Ends, Written
      <4>2. CASE table' = MarkedTerminal(j, "failed")
        BY <1>0, <2>1, <4>2, EndedRow DEF Ends, Written
      <4> QED
        BY <2>1, <4>1, <4>2
    <3>3. ToldOf(j)'
      <4>1. /\ runner'[j].pc \notin {"ended", "storing"} /\ ToldOf(j)
            /\ mem'[j].answer = "failed" /\ mem'[j].answer \in Terminal
        BY <1>0, <2>1, <2>4, <2>5, <2>9 DEF Idle
      <4>2. Owner(j)' # None => session'[Owner(j)'] # "down"
        BY <2>1, <2>4
      <4> QED
        BY <2>4, <2>5, <2>9, <3>2, <4>1, <4>2 DEF ToldOf, UpFor
    <3>4. AnswerSurvives(j)
      <4> SUFFICES ASSUME NEW t \in Sessions, At(j, "accepted"), Answer(t, j) \in Terminal
                   PROVE  FALSE
        BY DEF AnswerSurvives
      <4> QED
        BY <2>4, <2>9, <3>1, AnswerCases DEF At, InReach
    <3> QED
      BY <2>6, <2>7, <3>3, <3>4 DEF Good
  <2> QED
    BY <2>8, <2>9
<1> QED
  BY <1>2, <1>3, <1>4, <1>5, <1>6, <1>7, <1>8, <1>9, <1>10

\* Every step leaves the end of a job told alike, and its answer standing.
LEMMA ToldStep ==
  ASSUME IInv, Told, [AnyJobsNext]_jobVars
  PROVE  Told' /\ \A j \in Jobs : AnswerSurvives(j)
<1> SUFFICES Remembered' /\ \A i \in Jobs : Good(i)
  BY DEF Good, Told
<1> USE DEF Told
<1>0. /\ JobsTypeOK /\ Placed /\ mem \in [Jobs -> Records \cup {None}] /\ starter \in [Jobs -> Starters]
      /\ \A i \in Jobs : ToldOf(i)
  BY DEF IInv, JobsTypeOK, Starters
<1>1. ASSUME NEW j \in Jobs, StartCall(j) PROVE Remembered' /\ \A i \in Jobs : Good(i)
  BY <1>1, StartGood
<1>2. ASSUME NEW j \in Jobs, PoolThread(j) PROVE Remembered' /\ \A i \in Jobs : Good(i)
  BY <1>2, PoolGood
<1>3. ASSUME NEW j \in Jobs, StatusCompletes(j) PROVE Remembered' /\ \A i \in Jobs : Good(i)
  <2>1. /\ mem[j] # None /\ ~mem[j].completed /\ runner[j].pc \in {"done", "cancelled"}
        /\ mem' = Completed(j, "failed") /\ "failed" \in Terminal
        /\ UNCHANGED <<table, session, swept, starter, runner, lost>>
    BY <1>3 DEF StatusCompletes, FutureDone, Terminal
  <2>2. mem'[j] # None /\ mem'[j].completed /\ mem'[j].answer = "failed"
    BY <1>0, <2>1, FirstCompletes
  <2>3. \A i \in Jobs : i # j => mem'[i] = mem[i]
    BY <1>0, <2>1, Shapes
  <2>4. Aging
    BY <2>1 DEF Aging
  <2>5. Remembered'
    BY <1>0, <2>1, <2>2, <2>3 DEF Remembered, JobsTypeOK
  <2>6. ASSUME NEW i \in Jobs, i # j PROVE Good(i)
    <3>1. Aside(i)
      BY <2>1, <2>3, <2>6 DEF Aside, Mild, Written
    <3> QED
      BY <1>0, <2>4, <3>1, AsideIsGood
  <2>7. /\ Owner(j)' = Owner(j) /\ InReach(j)' = InReach(j) /\ UpFor(j)' = UpFor(j) /\ ToldOf(j)
        /\ Ends(j)' = Ends(j)
    BY <1>0, <2>1 DEF Owner, InReach, UpFor, Ends, Written
  <2>8. InReach(j) => ~UpFor(j) /\ ~Ends(j)
    BY <2>1, <2>7 DEF ToldOf, InReach
  <2>9. ToldOf(j)'
    <3>1. Owner(j)' # None => session'[Owner(j)'] # "down"
      BY <2>1, <2>7 DEF ToldOf
    <3>2. starter'[j].pc \in {"insert", "recheck", "accepted"} /\ UpFor(j)'
            => runner'[j].pc # "cancelled"
      BY <2>1, <2>7 DEF ToldOf
    <3> QED
      BY <2>1, <2>2, <2>7, <2>8, <3>1, <3>2 DEF ToldOf
  <2>10. AnswerSurvives(j)
    <3> SUFFICES ASSUME NEW t \in Sessions, At(j, "accepted"), Answer(t, j) \in Terminal
                 PROVE  FALSE
      BY DEF AnswerSurvives
    <3> QED
      BY <1>0, <2>1, <2>8, AnswerCases DEF At, InReach
  <2> QED
    BY <2>5, <2>6, <2>9, <2>10 DEF Good
<1>4. ASSUME NEW s \in Sessions, NEW j \in Jobs, NEW k \in TaskKeys \cup {None}, Start(s, j, k)
      PROVE  Remembered' /\ \A i \in Jobs : Good(i)
  <2>1. /\ session[s] = "up" /\ starter[j].pc = "none"
        /\ starter'[j].pc = "reserve" /\ Owner(j)' = s
        /\ \A i \in Jobs : i # j => starter'[i] = starter[i]
        /\ UNCHANGED <<table, session, swept, mem, runner, lost>>
    <3>1. /\ j \in Fresh
          /\ starter' = [starter EXCEPT ![j] = [pc |-> "reserve", key |-> k, owner |-> s]]
      BY <1>4 DEF Start
    <3> QED
      BY <1>0, <1>4, <3>1 DEF Start, Fresh, At, Owner
  <2>2. Remembered'
    BY <2>1 DEF Remembered
  <2>3. Aging
    BY <2>1 DEF Aging
  <2>4. ASSUME NEW i \in Jobs, i # j PROVE Good(i)
    <3>1. Aside(i)
      BY <2>1, <2>4 DEF Aside, Mild, Written
    <3> QED
      BY <1>0, <2>3, <3>1, AsideIsGood
  <2>5. Good(j)
    <3>1. mem'[j] # None /\ mem'[j].completed => mem'[j].answer \in Terminal
      BY <1>0, <2>1 DEF ToldOf
    <3> QED
      BY <1>0, <2>1, <3>1, OutOfReachIsGood
  <2> QED
    BY <2>2, <2>4, <2>5
<1>5. ASSUME UNCHANGED <<table, session, swept, mem, starter, runner, lost>>
      PROVE  Remembered' /\ \A i \in Jobs : Good(i)
  <2>1. Remembered' /\ Aging
    BY <1>5 DEF Remembered, Aging
  <2>2. ASSUME NEW i \in Jobs PROVE Good(i)
    <3>1. Aside(i)
      BY <1>5 DEF Aside, Mild, Written
    <3> QED
      BY <1>0, <2>1, <3>1, AsideIsGood
  <2> QED
    BY <2>1, <2>2
<1>6. ASSUME NEW j \in Jobs, GhostEnds(j) PROVE Remembered' /\ \A i \in Jobs : Good(i)
  BY <1>5, <1>6 DEF GhostEnds
<1>7. ASSUME NEW s \in Sessions,
             \/ Open(s) \/ Close(s) \/ Closing(s) \/ Crash(s) \/ WatchdogWrites(s)
             \/ \E j \in Jobs : Prune(s, j) \/ Forget(s, j) \/ WatchdogLooks(s, j)
      PROVE  Remembered' /\ \A i \in Jobs : Good(i)
  BY <1>7, SessionGood DEF Closing
<1>8. CASE JobsStep
  BY <1>1, <1>2, <1>3, <1>6, <1>7, <1>8, Zenon DEF JobsStep
<1>9. CASE UNCHANGED jobVars
  BY <1>5, <1>9 DEF jobVars
<1> QED
  BY <1>4, <1>8, <1>9 DEF AnyJobsNext

\* The verdict in a row fits its state.
Fits(r) == r # None => r.health = IF r.state \in Active THEN "LIVE" ELSE Verdict[r.state]

\* What every transaction writes fits.
LEMMA FittingRows ==
  ASSUME Table(table), VerdictStands, NEW i \in Jobs
  PROVE  /\ \A s \in Sessions : Fits(Reconciled(s)[i])
         /\ \A j \in Jobs : /\ Fits(MarkedStarted(j)[i]) /\ Fits(Beaten(j)[i])
                            /\ \A state \in Terminal : Fits(MarkedTerminal(j, state)[i])
<1> USE JobsAssumption
<1>0. Fits(table[i]) /\ (table[i] # None => table[i] \in Rows)
  BY DEF VerdictStands, Fits, Written, Table
<1>1. ASSUME NEW s \in Sessions PROVE Fits(Reconciled(s)[i])
  <2>1. CASE Written(i) /\ table[i].state \in Active /\ table[i].owner # s
    <3>1. Reconciled(s)[i] = [table[i] EXCEPT !.state = "unknown", !.health = "INTERRUPTED",
                                             !.interrupted = TRUE]
      BY <2>1 DEF Reconciled
    <3>2. Reconciled(s)[i].state = "unknown" /\ Reconciled(s)[i].health = "INTERRUPTED"
      BY <1>0, <2>1, <3>1 DEF Written, Rows
    <3> QED
      BY <3>2 DEF Fits, Active, Verdict
  <2>2. CASE ~(Written(i) /\ table[i].state \in Active /\ table[i].owner # s)
    BY <1>0, <2>2 DEF Reconciled
  <2> QED
    BY <2>1, <2>2
<1>2. ASSUME NEW j \in Jobs, i # j
      PROVE  /\ Fits(MarkedStarted(j)[i]) /\ Fits(Beaten(j)[i])
             /\ \A state \in Terminal : Fits(MarkedTerminal(j, state)[i])
  BY <1>0, <1>2, RowsOfOthers
<1>3. Fits(MarkedStarted(i)[i])
  <2>1. table[i] # None => /\ MarkedStarted(i)[i].state = "running"
                           /\ MarkedStarted(i)[i].health = "LIVE"
    BY <1>0 DEF MarkedStarted, Written, Table, Rows
  <2>2. table[i] = None => MarkedStarted(i)[i] = None
    BY DEF MarkedStarted, Written
  <2> QED
    BY <2>1, <2>2 DEF Fits, Active
<1>4. Fits(Beaten(i)[i])
  <2>1. CASE Written(i) /\ table[i].state \in Active
    BY <1>0, <2>1 DEF Beaten, Written, Table, Rows, Fits, Active
  <2>2. CASE ~(Written(i) /\ table[i].state \in Active)
    BY <1>0, <2>2 DEF Beaten
  <2> QED
    BY <2>1, <2>2
<1>5. ASSUME NEW state \in Terminal PROVE Fits(MarkedTerminal(i, state)[i])
  BY <1>5, EndedRow DEF Fits, Active, Terminal
<1> QED
  BY <1>1, <1>2, <1>3, <1>4, <1>5

LEMMA VerdictStep ==
  ASSUME IInv, VerdictStands, [AnyJobsNext]_jobVars
  PROVE  VerdictStands'
<1> SUFFICES ASSUME NEW i \in Jobs PROVE Fits(table'[i])
  BY DEF VerdictStands, Fits, Written
<1>0. /\ Table(table) /\ "failed" \in Terminal /\ watched \in [Sessions -> Jobs \cup {None}]
      /\ Fits(table[i])
  BY DEF IInv, JobsTypeOK, Table, Terminal, VerdictStands, Fits, Written
<1>1. ASSUME NEW j \in Jobs, StartCall(j) PROVE Fits(table'[i])
  <2>1. CASE Reserve(j)
    <3> DEFINE new == [key |-> starter[j].key, owner |-> Owner(j), state |-> "queued",
                       health |-> "LIVE", interrupted |-> FALSE]
    <3>1. Fits(new)
      BY DEF Fits, Active
    <3>2. UNCHANGED table \/ table' = [table EXCEPT ![j] = new]
      BY <2>1 DEF Reserve, WriteSucceeds, WriteFails
    <3> HIDE DEF new
    <3> QED
      BY <1>0, <3>1, <3>2 DEF Table
  <2>2. CASE UNCHANGED table \/ table' = MarkedTerminal(j, "failed")
    BY <1>0, <2>2, FittingRows
  <2> QED
    BY <1>1, <2>1, <2>2 DEF StartCall, CheckClosed, Submit, Refuse, InsertRecord,
       Recheck, Abandon, AbandonWrites, WriteSucceeds, WriteFails
<1>2. ASSUME NEW j \in Jobs, PoolThread(j) PROVE Fits(table'[i])
  <2>1. \/ UNCHANGED table \/ table' = MarkedStarted(j)
        \/ runner[j].result \in Terminal /\ table' = MarkedTerminal(j, runner[j].result)
    BY <1>2 DEF PoolThread, Take, Enter, StoreStarted, Work, Complete, StoreTerminal,
       WriteSucceeds, WriteFails, IInv, Ended, In
  <2> QED
    BY <1>0, <2>1, FittingRows
<1>3. ASSUME NEW s \in Sessions,
             \/ Open(s) \/ Close(s) \/ Closing(s) \/ Crash(s) \/ WatchdogWrites(s)
             \/ \E j \in Jobs : Prune(s, j) \/ Forget(s, j) \/ WatchdogLooks(s, j)
      PROVE  Fits(table'[i])
  <2>1. \/ UNCHANGED table \/ table' = Reconciled(s)
        \/ \E j \in Jobs : \/ table' = Beaten(j) \/ table' = MarkedTerminal(j, "failed")
                           \/ table' = [table EXCEPT ![j] = None]
    BY <1>0, <1>3 DEF Open, Close, Closing, Shutdown, ShutdownReturns, CloseReturns, Sweep, Crash,
       WatchdogWrites, Prune, Forget, WatchdogLooks, WriteSucceeds, WriteFails
  <2>2. \A j \in Jobs : table' = [table EXCEPT ![j] = None] => Fits(table'[i])
    BY <1>0 DEF Table, Fits
  <2> QED
    BY <1>0, <2>1, <2>2, FittingRows
<1>4. ASSUME NEW j \in Jobs, StatusCompletes(j) \/ GhostEnds(j) PROVE Fits(table'[i])
  BY <1>0, <1>4 DEF StatusCompletes, GhostEnds
<1>5. CASE \/ UNCHANGED jobVars
           \/ \E s \in Sessions, j \in Jobs, k \in TaskKeys \cup {None} : Start(s, j, k)
  BY <1>0, <1>5 DEF jobVars, Start
<1>6. CASE JobsStep
  BY <1>1, <1>2, <1>3, <1>4, <1>6, Zenon DEF JobsStep
<1> QED
  BY <1>5, <1>6 DEF AnyJobsNext

LEMMA InitTold == ASSUME JobsInit PROVE Told /\ VerdictStands
  BY JobsAssumption DEF JobsInit, Told, Remembered, ToldOf, VerdictStands, Written, Owner, InReach

LEMMA AlwaysVerdicts == JobsInit /\ [][AnyJobsNext]_jobVars => []IInv /\ VerdictsStand
<1> DEFINE All == IInv /\ Told /\ VerdictStands
           Step == \A s \in Sessions, j \in Jobs :
                     session'[s] \notin {"down", "over"} /\ At(j, "accepted") /\ Answer(s, j) \in Terminal
                       => Answer(s, j)' \in {Answer(s, j), "unknown"} \/ j \in lost
<1>1. JobsInit => All
  BY InitIInv, InitTold
<1>2. All /\ [AnyJobsNext]_jobVars => All'
  BY Inductive, ToldStep, VerdictStep
<1>3. All /\ [AnyJobsNext]_jobVars => [Step]_jobVars
  BY ToldStep DEF AnswerSurvives
<1>4. All => IInv /\ VerdictStands
  OBVIOUS
<1> QED
  BY <1>1, <1>2, <1>3, <1>4, PTL DEF VerdictsStand, TerminalAnswerStands

\* What was said about the end of an accepted job is not unsaid, by any server, in the
\* row or in an answer, for any number of servers and jobs.
THEOREM VerdictsHold == JobsSpec => VerdictsStand
<1>1. [JobsNext]_jobVars => [AnyJobsNext]_jobVars
  BY DEF JobsNext, AnyJobsNext
<1> QED
  BY <1>1, AlwaysVerdicts, PTL DEF JobsSpec

-----------------------------------------------------------------------------
(* Collaborations.                                                           *)

\* A job that no task has, or has yet.
Untracked(j) == starter[j].pc # "none" /\ \A t \in Members : jobOf[t] # j

\* The worker of the task is through with its work.
Through(t) ==
  jobOf[t] # None /\ runner[jobOf[t]].pc \in {"none", "storing", "done", "cancelled"}

CallLabels == {"off", "idle", "worktrees", "refused", "register", "starting", "returned", "raised"}
Answered == {"completed", "failed", "unknown", "interrupted", "active"}

\* TypeOK, and the types of what it leaves out.
CollabTyped ==
  /\ call \in [pc : CallLabels, next : 1 .. Len(Team)]
  /\ owned \in [Members -> SUBSET Paths]
  /\ worktrees \in [Members -> (SUBSET Paths) \cup {None}]
  /\ registered \in BOOLEAN
  /\ jobOf \in [Members -> Jobs \cup {None}]
  /\ view \in [next : 0 .. Len(Team), states : Seq(Answered), looked : BOOLEAN, idle : BOOLEAN,
            blind : BOOLEAN]
  /\ report \in [state : {None, "failed", "running", "no_progress", "ready_for_review"},
                 blind : BOOLEAN]

\* The worktrees are there, and the scopes apart, before the session is registered.
Prepared ==
  /\ call.pc = "worktrees" => \A i \in 1 .. (call.next - 1) : worktrees[Team[i]] # None
  /\ registered \/ call.pc = "register" => \A t \in Members : worktrees[t] # None
  /\ call.pc \in {"starting", "returned"} => registered
  /\ registered => call.pc \in {"starting", "returned", "raised"}
  /\ registered \/ call.pc \in {"worktrees", "register"} => ValidOwnership(owned)

\* Every job is that of a task, but for the one that is being started or was refused.
Tracked ==
  /\ call.pc # "off" =>
       /\ \A s \in Sessions : session[s] \in {"down", "up"}
       /\ \A j \in Jobs : /\ starter[j].pc \in {"none", "reserve", "reserved", "submit", "insert",
                                               "recheck", "accepted", "raised"}
                          /\ starter[j].pc = "raised" => runner[j].pc = "none"
       /\ ~registered => \A j \in Jobs : starter[j].pc = "none"
       /\ \A t \in Members : jobOf[t] # None => starter[jobOf[t]].pc = "accepted"
  /\ call.pc = "starting" =>
       /\ \A i \in call.next .. Len(Team) : jobOf[Team[i]] = None
       /\ \A i, j \in Jobs : Untracked(i) /\ Untracked(j) => i = j
  /\ call.pc \in {"returned", "raised"} =>
       \A j \in Jobs : Untracked(j) => starter[j].pc = "raised"

Looked == IF view.looked THEN Len(view.states) ELSE view.next - 1

\* The answer about a task would be that of a look at its worktree now.
Bare(t, answer) == NoProgress(t, answer, worktrees[t])

\* idle says that there is a bare task, or that one could not be looked at.
Accounts(idle, blind, bare) == (bare => idle) /\ (idle => blind \/ bare)

\* What status() holds so far is true of the tasks it has been through.
Viewed ==
  /\ view.next = 0 => view = NoView
  /\ view.next > 0 =>
       /\ registered /\ call.pc \in {"returned", "raised"}
       /\ Len(view.states) \in {view.next - 1, view.next}
       /\ view.looked => view.next = Len(Team) /\ Len(view.states) = Len(Team)
       /\ \A i \in 1 .. Len(view.states) : view.states[i] = "completed" => Through(Team[i])
       /\ Accounts(view.idle, view.blind, \E i \in 1 .. Looked : Bare(Team[i], view.states[i]))

\* A report on the review is about a session at rest.
Rested ==
  report.state \in {"no_progress", "ready_for_review"} =>
    /\ registered /\ call.pc \in {"returned", "raised"}
    /\ \A t \in Members : Through(t)
    /\ Accounts(report.state = "no_progress", report.blind, \E t \in Members : Bare(t, "completed"))

CollabParts == CollabTyped /\ Prepared /\ Tracked /\ Viewed /\ Rested

LEMMA TeamFacts ==
  /\ Team \in Seq(Members) /\ Len(Team) \in Nat \ {0} /\ 1 \in 1 .. Len(Team)
  /\ \A i \in 1 .. Len(Team) : Team[i] \in Members
  /\ \A t \in Members : \E i \in 1 .. Len(Team) : t = Team[i]
  BY TeamAssumption DEF Members

\* What a view and a report say of a worktree is fixed once its worker is through.
LEMMA ViewStays ==
  ASSUME CollabTyped, Viewed, UNCHANGED <<view, registered, call>>,
         \A t \in Members : Through(t) =>
           Through(t)' /\ (Bare(t, "completed")' <=> Bare(t, "completed"))
  PROVE  Viewed'
<1>1. Looked' = Looked
  BY DEF Looked
<1>2. CASE view.next = 0
  BY <1>2 DEF Viewed, Accounts, NoView
<1>3. CASE view.next > 0
  <2>1. /\ view.next \in 1 .. Len(Team) /\ Looked \in 0 .. Len(view.states)
        /\ Len(view.states) \in 0 .. Len(Team)
    <3>1. /\ Len(Team) \in Nat /\ view.next \in 1 .. Len(Team) /\ Len(view.states) \in Nat
          /\ Len(view.states) \in {view.next - 1, view.next}
      <4>1. view.next \in 0 .. Len(Team) /\ view.states \in Seq(Answered)
        BY DEF CollabTyped
      <4>2. Len(view.states) \in {view.next - 1, view.next}
        BY <1>3 DEF Viewed, Accounts
      <4> QED
        BY <1>3, <4>1, <4>2, TeamFacts
    <3> QED
      BY <3>1 DEF Looked
  <2>2. \A i \in 1 .. Len(view.states) : Team[i] \in Members
    BY <2>1, TeamFacts
  <2>3. \A i \in 1 .. Len(view.states) : view.states[i] = "completed" => Through(Team[i])
    BY <1>3 DEF Viewed, Accounts
  <2>4. \A i \in 1 .. Len(view.states) : view.states[i] = "completed" => Through(Team[i])'
    BY <2>2, <2>3
  <2>5. ASSUME NEW i \in 1 .. Looked
        PROVE  Bare(Team[i], view.states[i])' <=> Bare(Team[i], view.states[i])
    <3>1. i \in 1 .. Len(view.states)
      BY <2>1
    <3>2. CASE view.states[i] = "completed"
      BY <2>2, <2>3, <3>1, <3>2
    <3>3. CASE view.states[i] # "completed"
      BY <3>3 DEF Bare, NoProgress
    <3> QED
      BY <3>2, <3>3
  <2>6. Accounts(view.idle, view.blind, \E i \in 1 .. Looked : Bare(Team[i], view.states[i]))
    BY <1>3 DEF Viewed, Accounts
  <2>7. Accounts(view'.idle, view'.blind, \E i \in 1 .. Looked' : Bare(Team[i], view.states[i])')
    BY <1>1, <2>5, <2>6 DEF Accounts
  <2>8. /\ registered' /\ call'.pc \in {"returned", "raised"}
        /\ Len(view'.states) \in {view'.next - 1, view'.next}
        /\ view'.looked => view'.next = Len(Team) /\ Len(view'.states) = Len(Team)
    BY <1>3 DEF Viewed, Accounts
  <2> QED
    BY <1>3, <2>4, <2>7, <2>8 DEF Viewed, Accounts
<1> QED
  BY <1>2, <1>3, TeamFacts DEF CollabTyped

LEMMA ReportStays ==
  ASSUME CollabTyped, Rested, UNCHANGED <<report, registered, call>>,
         \A t \in Members : Through(t) =>
           Through(t)' /\ (Bare(t, "completed")' <=> Bare(t, "completed"))
  PROVE  Rested'
<1>1. CASE report.state \notin {"no_progress", "ready_for_review"}
  BY <1>1 DEF Rested, Accounts
<1>2. CASE report.state \in {"no_progress", "ready_for_review"}
  <2>1. \A t \in Members : Through(t)' /\ (Bare(t, "completed")' <=> Bare(t, "completed"))
    BY <1>2 DEF Rested, Accounts
  <2>2. (\E t \in Members : Bare(t, "completed")') <=> \E t \in Members : Bare(t, "completed")
    BY <2>1
  <2>3. Accounts(report.state = "no_progress", report.blind, \E t \in Members : Bare(t, "completed"))
    BY <1>2 DEF Rested, Accounts
  <2> QED
    BY <1>2, <2>1, <2>2, <2>3 DEF Rested, Accounts
<1> QED
  BY <1>1, <1>2

\* What the parts are made of stays the same.
LEMMA PartsStay ==
  ASSUME CollabParts, UNCHANGED <<collabVars, session, starter, runner>>
  PROVE  CollabParts'
<1> USE DEF CollabParts, collabVars
<1>1. CollabTyped'
  BY DEF CollabTyped
<1>2. Prepared'
  BY DEF Prepared, ValidOwnership
<1>3. Tracked'
  BY DEF Tracked, Untracked
<1>4. \A t \in Members : /\ Through(t)' <=> Through(t)
                         /\ Bare(t, "completed")' <=> Bare(t, "completed")
  BY DEF Through, Bare, NoProgress
<1>5. UNCHANGED <<view, registered, call, report>>
  OBVIOUS
<1> HIDE DEF collabVars
<1>6. Viewed'
  BY <1>4, <1>5, ViewStays
<1>7. Rested'
  BY <1>4, <1>5, ReportStays
<1> QED
  BY <1>1, <1>2, <1>3, <1>6, <1>7

-----------------------------------------------------------------------------
(* What the jobs do meanwhile.                                               *)

\* No registry closes under a collaboration, so a job is refused when it asks for its row
\* or never, and a worker that is through stays so.
LEMMA JobsMeanwhile ==
  ASSUME IInv, Told, Tracked, call.pc # "off",
         \/ \E s \in Sessions : Open(s)
         \/ \E s \in Sessions, j \in Jobs : Forget(s, j)
         \/ \E j \in Jobs : StartCall(j) \/ PoolThread(j)
  PROVE  /\ \A s \in Sessions : session'[s] \in {"down", "up"}
         /\ \A j \in Jobs :
              /\ starter'[j].pc = "none" <=> starter[j].pc = "none"
              /\ starter[j].pc \in {"accepted", "raised"} => starter'[j].pc = starter[j].pc
              /\ starter'[j].pc \in {"none", "reserve", "reserved", "submit", "insert",
                                     "recheck", "accepted", "raised"}
              /\ starter'[j].pc = "raised" => runner'[j].pc = "none"
              /\ starter[j].pc = "accepted" /\ runner[j].pc \in {"none", "storing", "done", "cancelled"}
                   => runner'[j].pc \in {"none", "storing", "done", "cancelled"}
<1> USE DEF IInv, At, In
<1>0. /\ starter \in [Jobs -> Starters] /\ runner \in [Jobs -> Runners]
      /\ session \in [Sessions -> Phases]
      /\ \A s \in Sessions : session[s] \in {"down", "up"}
      /\ \A j \in Jobs : /\ starter[j].pc \in {"none", "reserve", "reserved", "submit", "insert",
                                               "recheck", "accepted", "raised"}
                         /\ starter[j].pc = "raised" => runner[j].pc = "none"
                         /\ starter[j].pc = "reserve" => runner[j].pc = "none"
  BY DEF JobsTypeOK, Starters, Runners, Tracked, Placed
<1>1. ASSUME NEW s \in Sessions, NEW j \in Jobs, Open(s) \/ Forget(s, j)
      PROVE  /\ UNCHANGED <<starter, runner>>
             /\ \A t \in Sessions : session'[t] \in {"down", "up"}
  BY <1>0, <1>1 DEF Open, Forget
<1>2. ASSUME NEW j \in Jobs, starter[j].pc # "none"
      PROVE  Owner(j) \in Sessions /\ session[Owner(j)] = "up"
  <2>1. Owner(j) \in Sessions
    BY <1>2, OwnersTyped DEF Placed
  <2>2. ToldOf(j)
    BY DEF Told
  <2> QED
    BY <1>0, <2>1, <2>2, JobsAssumption DEF ToldOf
<1>3. ASSUME NEW j \in Jobs, StartCall(j)
      PROVE  /\ UNCHANGED session
             /\ \A i \in Jobs : i # j => starter'[i] = starter[i] /\ runner'[i] = runner[i]
             /\ starter[j].pc \notin {"none", "accepted", "raised"}
             /\ starter'[j].pc \in {"reserved", "submit", "insert", "recheck", "accepted", "raised"}
             /\ starter'[j].pc = "raised" => runner'[j].pc = "none"
  <2>1. starter[j].pc \notin {"none", "accepted", "raised"} /\ UNCHANGED session
    BY <1>3 DEF StartCall, Reserve, CheckClosed, Submit, Refuse, InsertRecord, Recheck, Abandon,
                AbandonWrites
  <2>2. session[Owner(j)] = "up" /\ ~Closed(Owner(j))
    BY <1>2, <2>1 DEF Closed
  <2>3. \A i \in Jobs : i # j => starter'[i] = starter[i] /\ runner'[i] = runner[i]
    BY <1>0, <1>3, Shapes DEF StartCall, Reserve, CheckClosed, Submit, Refuse, InsertRecord, Recheck,
                              Abandon, AbandonWrites
  <2>4. CASE Reserve(j)
    BY <1>0, <2>1, <2>3, <2>4, Shapes DEF Reserve
  <2>5. CASE CheckClosed(j)
    BY <1>0, <2>1, <2>2, <2>3, <2>5, Shapes DEF CheckClosed
  <2>6. CASE Submit(j)
    <3>1. To(j, "insert")
      BY <2>2, <2>6 DEF Submit
    <3> QED
      BY <2>1, <2>3, <3>1, Shapes
  <2>7. CASE InsertRecord(j)
    <3>1. To(j, "recheck")
      BY <2>2, <2>7 DEF InsertRecord
    <3> QED
      BY <2>1, <2>3, <3>1, Shapes
  <2>8. CASE Recheck(j)
    <3>1. To(j, "accepted")
      BY <2>2, <2>8 DEF Recheck
    <3> QED
      BY <2>1, <2>3, <3>1, Shapes
  <2>9. CASE Refuse(j) \/ Abandon(j) \/ AbandonWrites(j)
    BY <1>0, <2>9 DEF Refuse, Abandon, AbandonWrites
  <2> QED
    BY <1>3, <2>4, <2>5, <2>6, <2>7, <2>8, <2>9 DEF StartCall
<1>4. ASSUME NEW j \in Jobs, PoolThread(j)
      PROVE  /\ UNCHANGED <<session, starter>>
             /\ \A i \in Jobs : i # j => runner'[i] = runner[i]
             /\ runner[j].pc # "none"
             /\ runner[j].pc \in {"none", "storing", "done", "cancelled"}
                  => runner'[j].pc \in {"none", "storing", "done", "cancelled"}
  BY <1>0, <1>4, Shapes DEF PoolThread, Take, Enter, StoreStarted, Work, Complete, StoreTerminal
<1>5. CASE (\E s \in Sessions : Open(s)) \/ \E s \in Sessions, j \in Jobs : Forget(s, j)
  <2>1. UNCHANGED <<starter, runner>> /\ \A t \in Sessions : session'[t] \in {"down", "up"}
    BY <1>0, <1>5 DEF Open, Forget
  <2> QED
    BY <1>0, <2>1
<1>6. ASSUME NEW j \in Jobs, StartCall(j)
      PROVE  /\ \A s \in Sessions : session'[s] \in {"down", "up"}
             /\ \A i \in Jobs :
                  /\ starter'[i].pc = "none" <=> starter[i].pc = "none"
                  /\ starter[i].pc \in {"accepted", "raised"} => starter'[i].pc = starter[i].pc
                  /\ starter'[i].pc \in {"none", "reserve", "reserved", "submit", "insert",
                                         "recheck", "accepted", "raised"}
                  /\ starter'[i].pc = "raised" => runner'[i].pc = "none"
                  /\ starter[i].pc = "accepted"
                       /\ runner[i].pc \in {"none", "storing", "done", "cancelled"}
                       => runner'[i].pc \in {"none", "storing", "done", "cancelled"}
  BY <1>0, <1>3, <1>6
<1>7. ASSUME NEW j \in Jobs, PoolThread(j)
      PROVE  /\ \A s \in Sessions : session'[s] \in {"down", "up"}
             /\ \A i \in Jobs :
                  /\ starter'[i].pc = "none" <=> starter[i].pc = "none"
                  /\ starter[i].pc \in {"accepted", "raised"} => starter'[i].pc = starter[i].pc
                  /\ starter'[i].pc \in {"none", "reserve", "reserved", "submit", "insert",
                                         "recheck", "accepted", "raised"}
                  /\ starter'[i].pc = "raised" => runner'[i].pc = "none"
                  /\ starter[i].pc = "accepted"
                       /\ runner[i].pc \in {"none", "storing", "done", "cancelled"}
                       => runner'[i].pc \in {"none", "storing", "done", "cancelled"}
  BY <1>0, <1>4, <1>7
<1> QED
  BY <1>5, <1>6, <1>7

LEMMA JobsGoOnKeeps ==
  ASSUME IInv, Told, CollabParts, call.pc # "off", JobsGoOn
  PROVE  CollabParts'
<1> USE DEF CollabParts, collabVars
<1>0. /\ UNCHANGED collabVars
      /\ \/ \E s \in Sessions : Open(s)
         \/ \E s \in Sessions, j \in Jobs : Forget(s, j)
         \/ \E j \in Jobs : StartCall(j) \/ PoolThread(j)
  BY DEF JobsGoOn
<1>1. CollabTyped'
  BY <1>0 DEF CollabTyped
<1>2. Prepared'
  BY <1>0 DEF Prepared, ValidOwnership
<1>3. \A j \in Jobs : Untracked(j)' => Untracked(j)
  BY <1>0, JobsMeanwhile DEF Untracked
<1>4. Tracked'
  <2>1. \A t \in Members : jobOf[t] # None => jobOf[t] \in Jobs
    BY DEF CollabTyped
  <2> QED
    BY <1>0, <1>3, <2>1, JobsMeanwhile DEF Tracked, Untracked
<1>5. \A t \in Members : /\ Through(t) => Through(t)'
                         /\ Bare(t, "completed")' <=> Bare(t, "completed")
  BY <1>0, JobsMeanwhile DEF Through, Bare, NoProgress, Tracked, CollabTyped
<1>6. UNCHANGED <<view, registered, call, report>>
  BY <1>0
<1> HIDE DEF collabVars
<1>7. Viewed'
  BY <1>5, <1>6, ViewStays
<1>8. Rested'
  BY <1>5, <1>6, ReportStays
<1> QED
  BY <1>1, <1>2, <1>4, <1>7, <1>8

-----------------------------------------------------------------------------
(* The steps of start() and status().                                        *)

LEMMA NextTaskTyped ==
  ASSUME CollabTyped PROVE NextTask \in Members /\ call.next \in 1 .. Len(Team)
  BY TeamFacts DEF CollabTyped, NextTask

\* The call goes to the next task, or past the last.
LEMMA CallMoves ==
  ASSUME CollabTyped, NEW label \in CallLabels
  PROVE  /\ GoTo(label) => /\ call' \in [pc : CallLabels, next : 1 .. Len(Team)]
                           /\ call'.pc = label /\ call'.next = 1
         /\ NextOr(label) =>
              /\ call' \in [pc : CallLabels, next : 1 .. Len(Team)]
              /\ \/ call.next = Len(Team) /\ call'.pc = label /\ call'.next = 1
                 \/ call.next < Len(Team) /\ call'.pc = call.pc /\ call'.next = call.next + 1
<1>1. GoTo(label) => /\ call' \in [pc : CallLabels, next : 1 .. Len(Team)]
                     /\ call'.pc = label /\ call'.next = 1
  BY TeamFacts DEF GoTo
<1>2. ASSUME NextOr(label), call.next # Len(Team)
      PROVE  /\ call' \in [pc : CallLabels, next : 1 .. Len(Team)]
             /\ call.next < Len(Team) /\ call'.pc = call.pc /\ call'.next = call.next + 1
  BY <1>2, TeamFacts DEF NextOr, CollabTyped
<1> QED
  BY <1>1, <1>2 DEF NextOr

\* Before the session is registered there is neither a job nor a view of it.
LEMMA BeforeRegistered ==
  ASSUME CollabParts, ~registered, call.pc # "off"
  PROVE  /\ \A j \in Jobs : starter[j].pc = "none"
         /\ \A t \in Members : jobOf[t] = None
         /\ view = NoView /\ report.state \notin {"no_progress", "ready_for_review"}
<1>1. \A j \in Jobs : starter[j].pc = "none"
  BY DEF CollabParts, Tracked
<1>2. \A t \in Members : jobOf[t] = None
  BY <1>1 DEF CollabParts, Tracked, CollabTyped
<1>3. view.next \in Nat
  BY TeamFacts DEF CollabParts, CollabTyped
<1> QED
  BY <1>1, <1>2, <1>3 DEF CollabParts, Viewed, Rested, Accounts

LEMMA ProposeKeeps ==
  ASSUME CollabParts, NEW paths \in [Members -> {{p} : p \in Paths}], Propose(paths)
  PROVE  CollabParts'
<1>0. /\ call.pc = "idle" /\ ~registered /\ owned' = paths /\ CollabTyped
      /\ GoTo(IF ValidOwnership(paths) THEN "worktrees" ELSE "refused")
      /\ UNCHANGED <<jobVars, worktrees, registered, jobOf, view, report>>
  BY DEF Propose, Calling, CollabParts, Prepared
<1>1. /\ call' \in [pc : CallLabels, next : 1 .. Len(Team)] /\ call'.next = 1
      /\ \/ ValidOwnership(paths) /\ call'.pc = "worktrees"
         \/ call'.pc = "refused"
  BY <1>0, CallMoves DEF CallLabels
<1>2. CollabTyped'
  <2>1. paths \in [Members -> SUBSET Paths]
    OBVIOUS
  <2> QED
    BY <1>0, <1>1, <2>1 DEF CollabTyped
<1>3. Prepared'
  BY <1>0, <1>1 DEF Prepared, ValidOwnership
<1>4. Tracked' /\ Viewed' /\ Rested'
  <2>1. /\ \A j \in Jobs : starter[j].pc = "none"
        /\ \A t \in Members : jobOf[t] = None
        /\ view = NoView /\ report.state \notin {"no_progress", "ready_for_review"}
    BY <1>0, BeforeRegistered
  <2>2. UNCHANGED <<starter, runner, session>>
    BY <1>0 DEF jobVars
  <2> QED
    BY <1>0, <1>1, <2>1, <2>2 DEF Tracked, Viewed, Rested, Accounts, NoView, CollabParts
<1> QED
  BY <1>2, <1>3, <1>4 DEF CollabParts

LEMMA CreateWorktreeKeeps ==
  ASSUME CollabParts, CreateWorktree
  PROVE  CollabParts'
<1>0. /\ call.pc = "worktrees" /\ ~registered /\ CollabTyped
      /\ \/ worktrees' = [worktrees EXCEPT ![NextTask] = {}] /\ NextOr("register")
         \/ GoTo("raised") /\ UNCHANGED worktrees
      /\ UNCHANGED <<jobVars, owned, registered, jobOf, view, report>>
  BY DEF CreateWorktree, Calling, CollabParts, Prepared
<1>1. call' \in [pc : CallLabels, next : 1 .. Len(Team)] /\ call'.pc \in {"worktrees", "register", "raised"}
  BY <1>0, CallMoves DEF CallLabels
<1>2. CollabTyped'
  BY <1>0, <1>1, NextTaskTyped DEF CollabTyped
<1>3. Prepared'
  <2>1. ValidOwnership(owned)' /\ ~registered'
    BY <1>0 DEF CollabParts, Prepared, ValidOwnership
  <2>2. CASE call'.pc = "raised"
    BY <2>1, <2>2 DEF Prepared
  <2>3. CASE call'.pc # "raised"
    <3>1. worktrees' = [worktrees EXCEPT ![NextTask] = {}] /\ NextOr("register")
      BY <1>0, <2>3, CallMoves DEF CallLabels
    <3>2. \A i \in 1 .. call.next : worktrees'[Team[i]] # None
      <4>1. {} # None
        BY TeamAssumption
      <4>2. worktrees'[NextTask] # None
        BY <1>0, <3>1, <4>1, NextTaskTyped DEF CollabTyped
      <4>3. \A t \in Members : t # NextTask => worktrees'[t] = worktrees[t]
        BY <1>0, <3>1 DEF CollabTyped
      <4>4. \A i \in 1 .. (call.next - 1) : worktrees[Team[i]] # None /\ Team[i] \in Members
        BY <1>0, TeamFacts, NextTaskTyped DEF CollabParts, Prepared
      <4> QED
        <5> SUFFICES ASSUME NEW i \in 1 .. call.next PROVE worktrees'[Team[i]] # None
          OBVIOUS
        <5>1. call.next \in 1 .. Len(Team)
          BY <1>0, NextTaskTyped
        <5>2. CASE i = call.next
          BY <4>2, <5>2 DEF NextTask
        <5>3. CASE i # call.next
          <6>1. i \in 1 .. (call.next - 1)
            BY <5>1, <5>3
          <6> QED
            BY <4>2, <4>3, <4>4, <6>1
        <5> QED
          BY <5>2, <5>3
    <3>3. \/ call.next = Len(Team) /\ call'.pc = "register" /\ call'.next = 1
          \/ call'.pc = "worktrees" /\ call'.next = call.next + 1
      BY <1>0, <3>1, CallMoves DEF CallLabels
    <3>4. CASE call.next = Len(Team) /\ call'.pc = "register"
      <4>1. \A t \in Members : worktrees'[t] # None
        BY <3>2, <3>4, TeamFacts
      <4> QED
        BY <2>1, <3>4, <4>1 DEF Prepared
    <3>5. CASE call'.pc = "worktrees" /\ call'.next = call.next + 1
      <4>1. \A i \in 1 .. (call'.next - 1) : worktrees'[Team[i]] # None
        BY <1>0, <3>2, <3>5, NextTaskTyped
      <4> QED
        BY <2>1, <3>5, <4>1 DEF Prepared
    <3> QED
      BY <3>3, <3>4, <3>5
  <2> QED
    BY <2>2, <2>3
<1>4. Tracked' /\ Viewed' /\ Rested'
  <2>1. /\ \A j \in Jobs : starter[j].pc = "none"
        /\ \A t \in Members : jobOf[t] = None
        /\ view = NoView /\ report.state \notin {"no_progress", "ready_for_review"}
    BY <1>0, BeforeRegistered
  <2>2. UNCHANGED <<starter, runner, session>>
    BY <1>0 DEF jobVars
  <2> QED
    BY <1>0, <1>1, <2>1, <2>2 DEF Tracked, Viewed, Rested, Accounts, NoView, CollabParts, Untracked
<1> QED
  BY <1>2, <1>3, <1>4 DEF CollabParts

LEMMA RegisterKeeps ==
  ASSUME CollabParts, Register
  PROVE  CollabParts'
<1>0. /\ call.pc = "register" /\ ~registered /\ CollabTyped /\ GoTo("starting") /\ registered' = TRUE
      /\ UNCHANGED <<jobVars, owned, worktrees, jobOf, view, report>>
  BY DEF Register, Calling, CollabParts, Prepared
<1>1. call' \in [pc : CallLabels, next : 1 .. Len(Team)] /\ call'.pc = "starting" /\ call'.next = 1
  BY <1>0, CallMoves DEF CallLabels
<1>2. CollabTyped'
  BY <1>0, <1>1 DEF CollabTyped
<1>3. Prepared'
  BY <1>0, <1>1 DEF Prepared, ValidOwnership, CollabParts
<1>4. Tracked' /\ Viewed' /\ Rested'
  <2>1. /\ \A j \in Jobs : starter[j].pc = "none"
        /\ \A t \in Members : jobOf[t] = None
        /\ view = NoView /\ report.state \notin {"no_progress", "ready_for_review"}
    BY <1>0, BeforeRegistered
  <2>2. UNCHANGED <<starter, runner, session>>
    BY <1>0 DEF jobVars
  <2> QED
    BY <1>0, <1>1, <2>1, <2>2, TeamFacts DEF Tracked, Viewed, Rested, Accounts, NoView, CollabParts, Untracked
<1> QED
  BY <1>2, <1>3, <1>4 DEF CollabParts

\* While jobs are started there is no view yet, and no report on the review.
LEMMA WhileStarting ==
  ASSUME CollabParts, call.pc = "starting"
  PROVE  registered /\ view = NoView /\ report.state \notin {"no_progress", "ready_for_review"}
<1>1. view.next \in Nat
  BY TeamFacts DEF CollabParts, CollabTyped
<1> QED
  BY <1>1 DEF CollabParts, Prepared, Viewed, Rested, Accounts

LEMMA StartJobKeeps ==
  ASSUME IInv, CollabParts, NEW s \in Sessions, NEW j \in Jobs, StartJob(s, j)
  PROVE  CollabParts'
<1>0. /\ call.pc = "starting" /\ CollabTyped /\ Prepared /\ Tracked
      /\ \A i \in Jobs : starter[i].pc \in {"none", "accepted"}
      /\ \A i \in Jobs : starter[i].pc = "accepted" => \E t \in Members : jobOf[t] = i
      /\ UNCHANGED <<call, owned, worktrees, registered, jobOf, view, report>>
  BY DEF StartJob, Calling, CollabParts, At, collabVars
<1>1. /\ starter[j].pc = "none" /\ starter'[j].pc = "reserve"
      /\ \A i \in Jobs : i # j => starter'[i] = starter[i]
      /\ UNCHANGED <<session, runner>>
  <2>1. /\ j \in Fresh /\ UNCHANGED <<session, runner>>
        /\ starter' = [starter EXCEPT ![j] = [pc |-> "reserve", key |-> None, owner |-> s]]
    BY DEF StartJob, Start
  <2> QED
    BY <2>1 DEF Fresh, At, IInv, JobsTypeOK
<1>2. registered /\ view = NoView /\ report.state \notin {"no_progress", "ready_for_review"}
  BY <1>0, WhileStarting
<1>3. CollabTyped' /\ Prepared'
  BY <1>0 DEF CollabTyped, Prepared, ValidOwnership
<1>4. Tracked'
  <2>1. \A t \in Members : jobOf[t] # None => jobOf[t] \in Jobs /\ jobOf[t] # j
    BY <1>0, <1>1 DEF CollabTyped, Tracked
  <2>2. \A t \in Members : jobOf'[t] # None => starter'[jobOf'[t]].pc = "accepted"
    BY <1>0, <1>1, <2>1 DEF Tracked
  <2>3. \A i \in Jobs : Untracked(i)' => i = j
    BY <1>0, <1>1 DEF Untracked
  <2> QED
    BY <1>0, <1>1, <1>2, <2>2, <2>3 DEF Tracked
<1>5. Viewed' /\ Rested'
  BY <1>0, <1>2 DEF Viewed, Rested, Accounts, NoView
<1> QED
  BY <1>3, <1>4, <1>5 DEF CollabParts

LEMMA JobStartedKeeps ==
  ASSUME CollabParts, NEW j \in Jobs, JobStarted(j)
  PROVE  CollabParts'
<1>0. /\ call.pc = "starting" /\ CollabTyped /\ Prepared /\ Tracked
      /\ \A t \in Members : jobOf[t] # j
      /\ UNCHANGED <<owned, worktrees, registered, view, report, session, starter, runner>>
  BY DEF JobStarted, Calling, CollabParts, jobVars
<1>1. registered /\ view = NoView /\ report.state \notin {"no_progress", "ready_for_review"}
  BY <1>0, WhileStarting
<1>2. \A i \in Jobs : Untracked(i) => i = j
  <2>1. starter[j].pc # "none"
    BY DEF JobStarted, At
  <2> QED
    BY <1>0, <2>1 DEF Untracked, Tracked
<1>3. CASE starter[j].pc = "accepted" /\ jobOf' = [jobOf EXCEPT ![NextTask] = j] /\ NextOr("returned")
  <2>1. /\ call' \in [pc : CallLabels, next : 1 .. Len(Team)]
        /\ \/ call.next = Len(Team) /\ call'.pc = "returned"
           \/ call.next < Len(Team) /\ call'.pc = "starting" /\ call'.next = call.next + 1
    BY <1>0, <1>3, CallMoves DEF CallLabels
  <2>2. NextTask \in Members /\ call.next \in 1 .. Len(Team) /\ jobOf[NextTask] = None
    <3>1. jobOf[Team[call.next]] = None
      BY <1>0, NextTaskTyped DEF Tracked
    <3> QED
      BY <1>0, <3>1, NextTaskTyped DEF NextTask
  <2>3. jobOf'[NextTask] = j /\ \A t \in Members : t # NextTask => jobOf'[t] = jobOf[t]
    BY <1>0, <1>3, <2>2 DEF CollabTyped
  <2>4. CollabTyped'
    BY <1>0, <1>3, <2>1 DEF CollabTyped
  <2>5. Prepared'
    BY <1>0, <1>1, <2>1 DEF Prepared, ValidOwnership
  <2>6. \A i \in Jobs : ~Untracked(i)'
    <3> SUFFICES ASSUME NEW i \in Jobs, Untracked(i)' PROVE FALSE
      OBVIOUS
    <3>1. i # j
      BY <2>2, <2>3 DEF Untracked
    <3>2. \A t \in Members : jobOf[t] # i
      BY <1>0, <2>2, <2>3, JobsAssumption DEF Untracked
    <3>3. Untracked(i)
      BY <1>0, <3>2 DEF Untracked
    <3> QED
      BY <1>2, <3>1, <3>3
  <2>7. \A t \in Members : jobOf'[t] # None => starter'[jobOf'[t]].pc = "accepted"
    BY <1>0, <1>3, <2>3 DEF Tracked
  <2>8. call'.pc = "starting" => \A i \in call'.next .. Len(Team) : jobOf'[Team[i]] = None
    <3> SUFFICES ASSUME call'.pc = "starting", NEW i \in call'.next .. Len(Team)
                 PROVE  jobOf'[Team[i]] = None
      OBVIOUS
    <3>0. Len(Team) \in Nat /\ call.next \in 1 .. Len(Team) /\ call'.next = call.next + 1
      BY <2>1, <2>2, TeamFacts
    <3>1. /\ i \in call.next .. Len(Team) /\ i # call.next
          /\ i \in 1 .. Len(Team)
      BY <3>0
    <3>2. Team[i] # NextTask /\ Team[i] \in Members
      BY <2>2, <3>1, TeamAssumption, TeamFacts DEF NextTask
    <3>3. jobOf[Team[i]] = None
      BY <1>0, <3>1 DEF Tracked
    <3> QED
      BY <2>3, <3>2, <3>3
  <2>9. Tracked'
    BY <1>0, <1>1, <2>1, <2>6, <2>7, <2>8 DEF Tracked
  <2>10. Viewed' /\ Rested'
    BY <1>0, <1>1 DEF Viewed, Rested, Accounts, NoView
  <2> QED
    BY <2>4, <2>5, <2>9, <2>10 DEF CollabParts
<1>4. CASE starter[j].pc = "raised" /\ GoTo("raised") /\ UNCHANGED jobOf
  <2>1. call' \in [pc : CallLabels, next : 1 .. Len(Team)] /\ call'.pc = "raised"
    BY <1>0, <1>4, CallMoves DEF CallLabels
  <2>2. CollabTyped'
    BY <1>0, <1>4, <2>1 DEF CollabTyped
  <2>3. Prepared'
    BY <1>0, <1>1, <2>1 DEF Prepared, ValidOwnership
  <2>4. \A i \in Jobs : Untracked(i)' => starter'[i].pc = "raised"
    BY <1>0, <1>2, <1>4 DEF Untracked
  <2>5. Tracked'
    BY <1>0, <1>1, <1>4, <2>1, <2>4 DEF Tracked
  <2>6. Viewed' /\ Rested'
    BY <1>0, <1>1 DEF Viewed, Rested, Accounts, NoView
  <2> QED
    BY <2>2, <2>3, <2>5, <2>6 DEF CollabParts
<1> QED
  BY <1>3, <1>4 DEF JobStarted, At

\* A job that is said to be completed has a worker that is through: the thread puts the
\* answer into the memory when it has ended, and into the journal after that.
LEMMA CompletedIsThrough ==
  ASSUME IInv, Told, Tracked, call.pc # "off", NEW j \in Jobs, starter[j].pc = "accepted"
  PROVE  /\ Answer(Owner(j), j) \in Answered
         /\ Answer(Owner(j), j) = "completed" =>
              runner[j].pc \in {"none", "storing", "done", "cancelled"}
<1>0. /\ ToldOf(j) /\ InReach(j) /\ runner[j].pc \in RunLabels
  BY DEF Told, InReach, IInv, JobsTypeOK
<1>1. UpFor(j)
  <2>1. Owner(j) # None
    BY DEF IInv, Placed
  <2>2. Owner(j) \in Sessions
    BY <2>1, OwnersTyped DEF IInv
  <2> QED
    BY <1>0, <2>1, <2>2 DEF UpFor, ToldOf, Tracked
<1>2. Ends(j) => runner[j].pc \notin {"pooled", "gated", "starting", "working"}
  BY DEF IInv, Held, Claims, Blocks, Ends, Active, Terminal
<1>3. CASE mem[j] # None
  BY <1>0, <1>1, <1>3 DEF Answer, ToldOf, Terminal, Answered
<1>4. CASE mem[j] = None
  <2>1. Answer(Owner(j), j) \in Answered
    BY <1>4 DEF Answer, Terminal, Answered
  <2>2. Answer(Owner(j), j) = "completed" => Ends(j)
    BY <1>4 DEF Answer, Ends
  <2>3. Ends(j) => runner[j].pc \notin {"ended", "storing"}
    BY <1>0 DEF ToldOf
  <2> QED
    BY <1>0, <1>2, <2>1, <2>2, <2>3 DEF RunLabels
<1> QED
  BY <1>3, <1>4

LEMMA AskKeeps ==
  ASSUME CollabParts, Ask
  PROVE  CollabParts'
<1>0. /\ call.pc \in {"returned", "raised"} /\ registered /\ view = NoView
      /\ view' = [view EXCEPT !.next = 1, !.looked = FALSE]
      /\ UNCHANGED <<session, starter, runner, call, owned, worktrees, registered, jobOf, report>>
  BY DEF Ask, jobVars
<1>1. /\ view'.next = 1 /\ ~view'.looked /\ view'.states = <<>> /\ view'.idle = FALSE
      /\ view' = [next |-> 1, states |-> <<>>, looked |-> FALSE, idle |-> FALSE, blind |-> FALSE]
  BY <1>0 DEF NoView
<1>2. CollabTyped'
  <2>1. <<>> \in Seq(Answered) /\ 1 \in 0 .. Len(Team)
    BY TeamFacts
  <2> QED
    BY <1>0, <1>1, <2>1 DEF CollabTyped, CollabParts
<1>3. Prepared' /\ Tracked'
  BY <1>0 DEF CollabParts, Prepared, ValidOwnership, Tracked, Untracked
<1>4. Viewed'
  BY <1>0, <1>1 DEF Viewed, Looked, Accounts
<1>5. Rested'
  <2>1. Rested /\ CollabTyped /\ \A t \in Members : Through(t) =>
           Through(t)' /\ (Bare(t, "completed")' <=> Bare(t, "completed"))
    BY <1>0 DEF Through, Bare, NoProgress, CollabParts
  <2> QED
    BY <1>0, <2>1, ReportStays
<1> QED
  BY <1>2, <1>3, <1>4, <1>5 DEF CollabParts

LEMMA AskJobKeeps ==
  ASSUME IInv, Told, CollabParts, AskJob
  PROVE  CollabParts'
<1>0. /\ view.next > 0 /\ ~view.looked /\ Len(view.states) < view.next
      /\ view' = [view EXCEPT !.states = Append(@, JobAnswer(Asked))]
      /\ UNCHANGED <<session, starter, runner, call, owned, worktrees, registered, jobOf, report>>
      /\ CollabTyped /\ Viewed /\ Tracked
  BY DEF AskJob, jobVars, CollabParts
<1> DEFINE answer == JobAnswer(Asked)
<1>1. /\ view.next \in 1 .. Len(Team) /\ view.states \in Seq(Answered)
      /\ Len(view.states) = view.next - 1 /\ Asked = Team[view.next] /\ Asked \in Members
      /\ registered /\ call.pc \in {"returned", "raised"}
  <2>1. view.next \in 0 .. Len(Team) /\ view.states \in Seq(Answered)
    BY <1>0 DEF CollabTyped
  <2>2. Len(view.states) \in {view.next - 1, view.next}
    BY <1>0 DEF Viewed, Accounts
  <2> QED
    <3>1. Len(Team) \in Nat /\ Len(view.states) \in Nat
      BY <2>1, TeamFacts
    <3>0. view.next > 0 /\ Len(view.states) < view.next
      BY <1>0
    <3>2. view.next \in 1 .. Len(Team) /\ Len(view.states) = view.next - 1 /\ view.next # 0
      BY <2>1, <2>2, <3>0, <3>1
    <3>3. Asked = Team[view.next] /\ Team[view.next] \in Members
      BY <3>2, TeamFacts DEF Asked
    <3>4. registered /\ call.pc \in {"returned", "raised"}
      BY <1>0 DEF Viewed, Accounts
    <3> QED
      BY <2>1, <3>2, <3>3, <3>4
<1>2. answer \in Answered /\ (answer = "completed" => Through(Asked))
  <2>1. CASE jobOf[Asked] = None
    BY <2>1 DEF JobAnswer, Answered
  <2>2. CASE jobOf[Asked] # None
    <3>1. jobOf[Asked] \in Jobs /\ starter[jobOf[Asked]].pc = "accepted" /\ call.pc # "off"
      BY <1>0, <1>1, <2>2 DEF Tracked, CollabTyped
    <3>2. answer = Answer(Owner(jobOf[Asked]), jobOf[Asked])
      BY <2>2 DEF JobAnswer
    <3> QED
      BY <1>0, <2>2, <3>1, <3>2, CompletedIsThrough DEF Through
  <2> QED
    BY <2>1, <2>2
<1> HIDE DEF answer
<1>3. /\ view'.states = Append(view.states, answer) /\ view'.next = view.next
      /\ ~view'.looked /\ view'.idle = view.idle /\ view'.blind = view.blind
      /\ view' \in [next : 0 .. Len(Team), states : Seq(Answered), looked : BOOLEAN, idle : BOOLEAN,
            blind : BOOLEAN]
  <2>1. view \in [next : 0 .. Len(Team), states : Seq(Answered), looked : BOOLEAN, idle : BOOLEAN,
            blind : BOOLEAN]
    BY <1>0 DEF CollabTyped
  <2>2. Append(view.states, answer) \in Seq(Answered)
    BY <1>1, <1>2
  <2>3. view' = [view EXCEPT !.states = Append(view.states, answer)]
    BY <1>0 DEF answer
  <2> QED
    BY <1>0, <2>1, <2>2, <2>3
<1>4. /\ Len(view'.states) = view.next
      /\ \A i \in 1 .. (view.next - 1) : view'.states[i] = view.states[i]
      /\ view'.states[view.next] = answer
  BY <1>1, <1>2, <1>3
<1>5. CollabTyped'
  BY <1>0, <1>3 DEF CollabTyped
<1>6. Prepared' /\ Tracked'
  BY <1>0 DEF CollabParts, Prepared, ValidOwnership, Tracked, Untracked
<1>7. \A t \in Members : Through(t)' = Through(t) /\ \A a : Bare(t, a)' = Bare(t, a)
  BY <1>0 DEF Through, Bare, NoProgress
<1>8. Viewed'
  <2>1. Looked' = view.next - 1 /\ Looked = view.next - 1
    BY <1>0, <1>3 DEF Looked
  <2>2. ASSUME NEW i \in 1 .. Len(view'.states), view'.states[i] = "completed"
        PROVE  Through(Team[i])'
    <3>0. Team[i] \in Members /\ i \in 1 .. view.next
      BY <1>1, <1>4, TeamFacts
    <3>1. CASE i = view.next
      BY <1>1, <1>2, <1>4, <1>7, <2>2, <3>1
    <3>2. CASE i # view.next
      <4>1. i \in 1 .. Len(view.states) /\ view.states[i] = "completed"
        BY <1>1, <1>4, <2>2, <3>0, <3>2
      <4>2. Through(Team[i])
        BY <1>0, <4>1 DEF Viewed, Accounts
      <4> QED
        BY <1>7, <3>0, <4>2
    <3> QED
      BY <3>1, <3>2
  <2>4. Accounts(view.idle, view.blind, \E i \in 1 .. (view.next - 1) : Bare(Team[i], view.states[i]))
    BY <1>0, <2>1 DEF Viewed, Accounts
  <2>5. Accounts(view'.idle, view'.blind, \E i \in 1 .. Looked' : Bare(Team[i], view.states[i])')
    <3>1. \A i \in 1 .. (view.next - 1) :
            Bare(Team[i], view.states[i])' <=> Bare(Team[i], view.states[i])
      BY <1>0, <1>4 DEF Bare, NoProgress
    <3> QED
      BY <1>3, <2>1, <2>4, <3>1 DEF Accounts
  <2>6. view'.next # 0 /\ view'.next > 0 /\ Len(view'.states) \in {view'.next - 1, view'.next}
    BY <1>1, <1>3, <1>4
  <2> QED
    BY <1>0, <1>1, <1>3, <2>2, <2>5, <2>6 DEF Viewed, Accounts
<1>9. Rested'
  <2>1. Rested /\ \A t \in Members : Through(t) =>
           Through(t)' /\ (Bare(t, "completed")' <=> Bare(t, "completed"))
    BY <1>7 DEF CollabParts
  <2> QED
    BY <1>0, <2>1, ReportStays
<1> QED
  BY <1>5, <1>6, <1>8, <1>9 DEF CollabParts

LEMMA LookAtWorktreeKeeps ==
  ASSUME CollabParts, LookAtWorktree
  PROVE  CollabParts'
<1>. PICK available \in BOOLEAN :
       LET changed == IF available THEN worktrees[Asked] ELSE {} IN
       view' = [view EXCEPT !.idle = @ \/ NoProgress(Asked, view.states[view.next], changed),
                            !.blind = ScopeUnknown(@, available),
                            !.looked = view.next = Len(Team),
                            !.next = IF @ = Len(Team) THEN @ ELSE @ + 1]
  BY DEF LookAtWorktree
<1> DEFINE changed == IF available THEN worktrees[Asked] ELSE {}
<1>0. /\ view.next > 0 /\ ~view.looked /\ Len(view.states) = view.next
      /\ view' = [view EXCEPT !.idle = @ \/ NoProgress(Asked, view.states[view.next], changed),
                              !.blind = ScopeUnknown(@, available),
                              !.looked = view.next = Len(Team),
                              !.next = IF @ = Len(Team) THEN @ ELSE @ + 1]
      /\ UNCHANGED <<session, starter, runner, call, owned, worktrees, registered, jobOf, report>>
      /\ CollabTyped /\ Viewed
  BY DEF LookAtWorktree, jobVars, CollabParts
<1> DEFINE idle == view.idle \/ NoProgress(Asked, view.states[view.next], changed)
           blind == view.blind \/ ~available
           looked == view.next = Len(Team)
           next == IF view.next = Len(Team) THEN view.next ELSE view.next + 1
<1>1. /\ Len(Team) \in Nat /\ view.next \in 1 .. Len(Team) /\ Asked = Team[view.next]
      /\ Asked \in Members
      /\ view \in [next : 0 .. Len(Team), states : Seq(Answered), looked : BOOLEAN, idle : BOOLEAN,
            blind : BOOLEAN]
  <2>1. view \in [next : 0 .. Len(Team), states : Seq(Answered), looked : BOOLEAN, idle : BOOLEAN,
            blind : BOOLEAN]
    BY <1>0 DEF CollabTyped
  <2>2. Len(Team) \in Nat /\ view.next \in 1 .. Len(Team)
    BY <1>0, <2>1, TeamFacts
  <2>3. Asked = Team[view.next] /\ Team[view.next] \in Members
    BY <1>0, <2>2, TeamFacts DEF Asked
  <2> QED
    BY <2>1, <2>2, <2>3
<1>2. next \in 1 .. Len(Team) /\ looked \in BOOLEAN /\ idle \in BOOLEAN /\ blind \in BOOLEAN
      /\ (looked => next = view.next) /\ (~looked => next = view.next + 1)
  BY <1>1
<1>3. view' = [view EXCEPT !.idle = idle, !.blind = blind, !.looked = looked, !.next = next]
  BY <1>0 DEF ScopeUnknown
<1>4. Accounts(idle, blind, view.idle \/ Bare(Asked, view.states[view.next]))
      /\ (view.blind => blind) /\ (view.idle => idle)
      /\ (idle => view.idle \/ ~available \/ Bare(Asked, view.states[view.next]))
      /\ (blind <=> view.blind \/ ~available)
  BY DEF Accounts, Bare, NoProgress
<1>5. looked <=> view.next = Len(Team)
  OBVIOUS
<1> HIDE DEF idle, blind, looked, next, changed
<1>6. /\ view'.next = next /\ view'.looked = looked /\ view'.idle = idle /\ view'.states = view.states
      /\ view'.blind = blind
      /\ view' \in [next : 0 .. Len(Team), states : Seq(Answered), looked : BOOLEAN, idle : BOOLEAN,
            blind : BOOLEAN]
  <2>1. next \in 0 .. Len(Team)
    BY <1>1, <1>2
  <2> QED
    BY <1>1, <1>2, <1>3, <2>1
<1>7. CollabTyped'
  BY <1>0, <1>6 DEF CollabTyped
<1>8. Prepared' /\ Tracked'
  BY <1>0 DEF CollabParts, Prepared, ValidOwnership, Tracked, Untracked
<1>9. \A t \in Members : Through(t)' = Through(t)
  BY <1>0 DEF Through
<1>10. Viewed'
  <2>1. Looked = view.next - 1 /\ Looked' = view.next
    BY <1>0, <1>1, <1>2, <1>6 DEF Looked
  <2>2. \A i \in 1 .. view.next :
          Bare(Team[i], view.states[i])' <=> Bare(Team[i], view.states[i])
    BY <1>0, <1>6 DEF Bare, NoProgress
  <2>3. Accounts(view.idle, view.blind, \E i \in 1 .. (view.next - 1) : Bare(Team[i], view.states[i]))
    BY <1>0, <2>1 DEF Viewed, Accounts
  <2>4. Accounts(idle, blind, \E i \in 1 .. view.next : Bare(Team[i], view.states[i]))
    <3>1. \A i : i \in 1 .. view.next <=> i \in 1 .. (view.next - 1) \/ i = view.next
      BY <1>1
    <3>2. (\E i \in 1 .. view.next : Bare(Team[i], view.states[i])) <=>
            \/ \E i \in 1 .. (view.next - 1) : Bare(Team[i], view.states[i])
            \/ Bare(Asked, view.states[view.next])
      BY <1>1, <3>1
    <3> QED
      BY <1>4, <2>3, <3>2 DEF Accounts
  <2>5. Accounts(view'.idle, view'.blind, \E i \in 1 .. Looked' : Bare(Team[i], view.states[i])')
    BY <1>6, <2>1, <2>2, <2>4 DEF Accounts
  <2>6. /\ view'.next # 0 /\ view'.next > 0 /\ Len(view'.states) \in {view'.next - 1, view'.next}
        /\ view'.looked => view'.next = Len(Team) /\ Len(view'.states) = Len(Team)
    BY <1>0, <1>1, <1>2, <1>5, <1>6
  <2>7. \A i \in 1 .. Len(view'.states) : view'.states[i] = "completed" => Through(Team[i])'
    <3>1. \A i \in 1 .. view.next : Team[i] \in Members
      BY <1>1, TeamFacts
    <3>2. \A i \in 1 .. view.next : view.states[i] = "completed" => Through(Team[i])
      BY <1>0 DEF Viewed, Accounts
    <3> QED
      BY <1>0, <1>6, <1>9, <3>1, <3>2
  <2>8. registered' /\ call'.pc \in {"returned", "raised"}
    BY <1>0 DEF Viewed, Accounts
  <2> QED
    BY <1>6, <2>5, <2>6, <2>7, <2>8 DEF Viewed, Accounts
<1>11. Rested'
  <2>1. Rested /\ \A t \in Members : Through(t) =>
           Through(t)' /\ (Bare(t, "completed")' <=> Bare(t, "completed"))
    BY <1>0 DEF CollabParts, Through, Bare, NoProgress
  <2> QED
    BY <1>0, <2>1, ReportStays
<1> QED
  BY <1>7, <1>8, <1>10, <1>11 DEF CollabParts

LEMMA ReportKeeps ==
  ASSUME CollabParts, Report
  PROVE  CollabParts'
<1>0. /\ view.next > 0 /\ view.looked /\ view' = NoView
      /\ report' = [state |-> Aggregate({view.states[i] : i \in 1 .. Len(view.states)}, view.idle),
                     blind |-> view.blind]
      /\ UNCHANGED <<session, starter, runner, call, owned, worktrees, registered, jobOf>>
      /\ CollabTyped /\ Viewed
  BY DEF Report, jobVars, CollabParts
<1>1. CollabTyped'
  <2>1. NoView \in [next : 0 .. Len(Team), states : Seq(Answered), looked : BOOLEAN, idle : BOOLEAN,
            blind : BOOLEAN]
    <3>1. <<>> \in Seq(Answered) /\ 0 \in 0 .. Len(Team)
      BY TeamFacts
    <3> QED
      BY <3>1 DEF NoView
  <2>2. Aggregate({view.states[i] : i \in 1 .. Len(view.states)}, view.idle)
          \in {"failed", "running", "no_progress", "ready_for_review"}
    BY DEF Aggregate
  <2>3. view.blind \in BOOLEAN
    BY <1>0 DEF CollabTyped
  <2> QED
    BY <1>0, <2>1, <2>2, <2>3 DEF CollabTyped
<1>2. Prepared' /\ Tracked'
  BY <1>0 DEF CollabParts, Prepared, ValidOwnership, Tracked, Untracked
<1>3. Viewed'
  BY <1>0 DEF Viewed, Accounts, NoView
<1>4. Rested'
  <2> SUFFICES ASSUME report'.state \in {"no_progress", "ready_for_review"}
               PROVE  /\ registered' /\ call'.pc \in {"returned", "raised"}
                      /\ \A t \in Members : Through(t)'
                      /\ Accounts(report'.state = "no_progress", report'.blind,
                              \E t \in Members : Bare(t, "completed")')
    BY DEF Rested, Accounts
  <2>1. /\ {view.states[i] : i \in 1 .. Len(view.states)} \subseteq {"completed"}
        /\ report'.state = "no_progress" <=> view.idle
        /\ report'.blind = view.blind
    BY <1>0 DEF Aggregate
  <2>2. Len(view.states) = Len(Team) /\ Looked = Len(Team)
    BY <1>0 DEF Viewed, Accounts, Looked
  <2>3. \A i \in 1 .. Len(Team) : view.states[i] = "completed"
    BY <2>1, <2>2
  <2>4. \A i \in 1 .. Len(Team) : Through(Team[i])
    BY <1>0, <2>2, <2>3 DEF Viewed, Accounts
  <2>5. \A t \in Members : Through(t)
    BY <2>4, TeamFacts
  <2>6. Accounts(view.idle, view.blind, \E i \in 1 .. Len(Team) : Bare(Team[i], view.states[i]))
    BY <1>0, <2>2 DEF Viewed, Accounts
  <2>7. (\E i \in 1 .. Len(Team) : Bare(Team[i], view.states[i]))
          <=> \E t \in Members : Bare(t, "completed")
    BY <2>3, TeamFacts
  <2>8. \A t \in Members : /\ Through(t)' = Through(t)
                           /\ Bare(t, "completed")' <=> Bare(t, "completed")
    BY <1>0 DEF Through, Bare, NoProgress
  <2>9. registered' /\ call'.pc \in {"returned", "raised"}
    BY <1>0 DEF Viewed, Accounts
  <2>10. (\E t \in Members : Bare(t, "completed")') <=> \E t \in Members : Bare(t, "completed")
    BY <2>8
  <2> QED
    BY <2>1, <2>5, <2>6, <2>7, <2>8, <2>9, <2>10 DEF Accounts
<1> QED
  BY <1>1, <1>2, <1>3, <1>4 DEF CollabParts

\* A worker that works is that of a task which is not through with it.
LEMMA EditKeeps ==
  ASSUME IInv, CollabParts, call.pc # "off", NEW j \in Jobs, NEW p \in Paths, Edit(j, p)
  PROVE  CollabParts'
<1>0. /\ runner[j].pc = "working"
      /\ UNCHANGED <<session, starter, runner, call, owned, registered, jobOf, view, report>>
      /\ CollabTyped /\ Viewed /\ Prepared /\ Tracked /\ Rested
  BY DEF Edit, In, jobVars, CollabParts
<1>1. PICK t \in Members : /\ t \in (IF TaskOf(j) = {} THEN {NextTask} ELSE TaskOf(j))
                           /\ worktrees' = [worktrees EXCEPT ![t] = @ \cup {p}]
  <2>1. NextTask \in Members /\ TaskOf(j) \subseteq Members
    BY <1>0, NextTaskTyped DEF TaskOf
  <2> QED
    BY <2>1 DEF Edit
<1>2. starter[j].pc \notin {"none", "raised"} /\ registered
  BY <1>0 DEF IInv, Placed, Tracked
<1>3. /\ worktrees[t] \in SUBSET Paths
      /\ \A u \in Members : worktrees'[u] # None /\ (u # t => worktrees'[u] = worktrees[u])
      /\ worktrees' \in [Members -> (SUBSET Paths) \cup {None}]
  <2>1. worktrees[t] \in SUBSET Paths /\ \A u \in Members : worktrees[u] # None
    BY <1>0, <1>2 DEF Prepared, CollabTyped
  <2>2. worktrees[t] \cup {p} \in SUBSET Paths /\ worktrees[t] \cup {p} # None
    BY <2>1, TeamAssumption
  <2> QED
    BY <1>0, <1>1, <2>1, <2>2 DEF CollabTyped
<1>4. CollabTyped' /\ Prepared' /\ Tracked'
  <2>1. CollabTyped'
    BY <1>0, <1>3 DEF CollabTyped
  <2>2. Prepared'
    BY <1>0, <1>2, <1>3 DEF Prepared, ValidOwnership
  <2>3. Tracked'
    BY <1>0 DEF Tracked, Untracked
  <2> QED
    BY <2>1, <2>2, <2>3
<1>5. CASE call.pc \in {"returned", "raised"}
  <2>1. ~Untracked(j)
    BY <1>0, <1>2, <1>5 DEF Tracked
  <2>2. TaskOf(j) # {}
    BY <1>2, <2>1 DEF Untracked, TaskOf
  <2>3. jobOf[t] = j
    BY <1>1, <2>2 DEF TaskOf
  <2>4. ~Through(t)
    BY <1>0, <2>3 DEF Through
  <2>5. \A u \in Members : Through(u) =>
          Through(u)' /\ (Bare(u, "completed")' <=> Bare(u, "completed"))
    BY <1>0, <1>3, <2>4 DEF Through, Bare, NoProgress
  <2>6. Viewed' /\ Rested'
    BY <1>0, <2>5, ViewStays, ReportStays
  <2> QED
    BY <1>4, <2>6 DEF CollabParts
<1>6. CASE call.pc \notin {"returned", "raised"}
  <2>1. view.next = 0 /\ view = NoView /\ report.state \notin {"no_progress", "ready_for_review"}
    <3>1. view.next \in 0 .. Len(Team)
      BY <1>0 DEF CollabTyped
    <3>2. ~(view.next > 0)
      BY <1>0, <1>6 DEF Viewed, Accounts
    <3>3. view.next = 0
      BY <3>1, <3>2, TeamFacts
    <3> QED
      BY <1>0, <1>6, <3>3 DEF Viewed, Rested, Accounts
  <2>2. Viewed' /\ Rested'
    BY <1>0, <2>1 DEF Viewed, Rested, Accounts, NoView
  <2> QED
    BY <1>4, <2>2 DEF CollabParts
<1> QED
  BY <1>5, <1>6

-----------------------------------------------------------------------------
(* The collaboration's invariant.                                            *)

\* A step of the collaboration is one of its jobs', or none.
LEMMA StepsOfJobs ==
  ASSUME [Next]_vars
  PROVE  [AnyJobsNext]_jobVars
<1>1. CASE Calling("off") /\ JobsNext
  BY <1>1 DEF JobsNext, AnyJobsNext
<1>2. CASE JobsGoOn
  BY <1>2 DEF JobsGoOn, AnyJobsNext, JobsStep
<1>3. CASE Collaborate
  <2>1. CASE \E s \in Sessions, j \in Jobs : StartJob(s, j)
    BY <2>1 DEF StartJob, AnyJobsNext
  <2>2. CASE UNCHANGED jobVars
    BY <2>2
  <2> QED
    BY <1>3, <2>1, <2>2 DEF Collaborate, Propose, CreateWorktree, Register, JobStarted, Ask, AskJob,
                            LookAtWorktree, Report, Edit
<1>4. CASE UNCHANGED vars
  BY <1>4 DEF vars
<1> QED
  BY <1>1, <1>2, <1>3, <1>4 DEF Next

LEMMA PartsStep ==
  ASSUME IInv, Told, CollabParts, [Next]_vars
  PROVE  CollabParts'
<1>1. CASE UNCHANGED vars
  BY <1>1, PartsStay DEF vars, jobVars
<1>2. CASE Calling("off") /\ JobsNext /\ UNCHANGED collabVars
  <2>1. call.pc = "off" /\ ~registered /\ UNCHANGED <<call, owned, worktrees, registered, jobOf, view, report>>
    BY <1>2 DEF Calling, collabVars, CollabParts, Prepared
  <2>2. view = NoView /\ report.state \notin {"no_progress", "ready_for_review"}
    <3>1. view.next \in 0 .. Len(Team)
      BY DEF CollabParts, CollabTyped
    <3> QED
      BY <2>1, <3>1, TeamFacts DEF CollabParts, Viewed, Rested, Accounts
  <2>3. CollabTyped' /\ Prepared'
    BY <2>1 DEF CollabParts, CollabTyped, Prepared, ValidOwnership
  <2>4. Tracked' /\ Viewed' /\ Rested'
    BY <2>1, <2>2 DEF Tracked, Viewed, Rested, Accounts, NoView
  <2> QED
    BY <2>3, <2>4 DEF CollabParts
<1>3. CASE ~Calling("off") /\ JobsGoOn
  BY <1>3, JobsGoOnKeeps DEF Calling
<1>4. CASE ~Calling("off") /\ Collaborate
  <2>1. ASSUME NEW paths \in [Members -> {{p} : p \in Paths}], Propose(paths) PROVE CollabParts'
    BY <2>1, ProposeKeeps
  <2>2. ASSUME NEW s \in Sessions, NEW j \in Jobs, StartJob(s, j) PROVE CollabParts'
    BY <2>2, StartJobKeeps
  <2>3. ASSUME NEW j \in Jobs, JobStarted(j) PROVE CollabParts'
    BY <2>3, JobStartedKeeps
  <2>4. ASSUME NEW j \in Jobs, NEW p \in Paths, Edit(j, p) PROVE CollabParts'
    BY <1>4, <2>4, EditKeeps DEF Calling
  <2> QED
    BY <1>4, <2>1, <2>2, <2>3, <2>4, CreateWorktreeKeeps, RegisterKeeps, AskKeeps, AskJobKeeps,
       LookAtWorktreeKeeps, ReportKeeps DEF Collaborate
<1> QED
  BY <1>1, <1>2, <1>3, <1>4 DEF Next

LEMMA InitParts ==
  ASSUME Init
  PROVE  JobsInit /\ CollabParts
<1>1. /\ call \in [pc : {"off", "idle"}, next : {1}]
      /\ owned = [t \in Members |-> {}] /\ worktrees = [t \in Members |-> None]
      /\ registered = FALSE /\ jobOf = [t \in Members |-> None] /\ view = NoView /\ report = NoReport
      /\ JobsInit
  BY DEF Init, CollabInit
<1>2. CollabTyped
  <2>1. NoView \in [next : 0 .. Len(Team), states : Seq(Answered), looked : BOOLEAN, idle : BOOLEAN,
            blind : BOOLEAN]
    <3>1. <<>> \in Seq(Answered) /\ 0 \in 0 .. Len(Team)
      BY TeamFacts
    <3> QED
      BY <3>1 DEF NoView
  <2>2. call \in [pc : CallLabels, next : 1 .. Len(Team)]
    BY <1>1, TeamFacts DEF CallLabels
  <2> QED
    BY <1>1, <2>1, <2>2 DEF CollabTyped, NoReport
<1>3. Prepared
  BY <1>1 DEF Prepared
<1>4. Tracked
  BY <1>1 DEF Tracked, JobsInit
<1>5. Viewed /\ Rested
  <2>1. None \notin {"no_progress", "ready_for_review"}
    BY TeamAssumption
  <2> QED
    BY <1>1, <2>1 DEF Viewed, Rested, Accounts, NoView, NoReport
<1> QED
  BY <1>1, <1>2, <1>3, <1>4, <1>5 DEF CollabParts

-----------------------------------------------------------------------------
(* What follows of a collaboration, for any team and any number of servers.  *)

AllHolds == IInv /\ Told /\ VerdictStands /\ CollabParts

LEMMA AlwaysAll == Spec => []AllHolds
<1>1. Init => AllHolds
  BY InitParts, InitIInv, InitTold DEF AllHolds
<1>2. AllHolds /\ [Next]_vars => AllHolds'
  <2> SUFFICES ASSUME AllHolds, [Next]_vars PROVE AllHolds'
    OBVIOUS
  <2>1. IInv /\ Told /\ VerdictStands /\ CollabParts /\ [AnyJobsNext]_jobVars
    BY StepsOfJobs DEF AllHolds
  <2> QED
    BY <2>1, Inductive, ToldStep, VerdictStep, PartsStep DEF AllHolds
<1> QED
  BY <1>1, <1>2, PTL DEF Spec

\* Every variable of a collaboration has its type.
THEOREM CollaborationTypeCorrect == Spec => []TypeOK
<1>1. AllHolds => TypeOK
  <2> SUFFICES ASSUME AllHolds PROVE TypeOK
    OBVIOUS
  <2>1. JobsTypeOK
    BY DEF AllHolds, IInv
  <2>2. CollabTyped
    BY DEF AllHolds, CollabParts
  <2>3. call.next \in 1 .. Len(Team)
    BY <2>2 DEF CollabTyped
  <2> QED
    BY <2>1, <2>2, <2>3 DEF TypeOK, CollabTyped
<1> QED
  BY <1>1, AlwaysAll, PTL

\* A worker is that of a task the session knows of, once start() is through.
LEMMA WorkersOfTasks ==
  ASSUME AllHolds, call.pc # "off", NEW j \in AtWork
  PROVE  /\ registered
         /\ call.pc \in {"returned", "raised"} => \E t \in Members : jobOf[t] = j
<1>1. j \in Jobs /\ runner[j].pc = "working"
  BY DEF AtWork, In
<1>2. starter[j].pc \notin {"none", "raised"} /\ registered
  BY <1>1 DEF AllHolds, IInv, Placed, CollabParts, Tracked
<1>3. call.pc \in {"returned", "raised"} => ~Untracked(j)
  BY <1>1, <1>2 DEF AllHolds, CollabParts, Tracked
<1> QED
  BY <1>2, <1>3 DEF Untracked

\* What two scopes share would make an owned path of the one lie above, or be, one of the other.
LEMMA ScopesApart ==
  ASSUME owned \in [Members -> SUBSET Paths], ValidOwnership(owned),
         NEW t \in Members, NEW u \in Members, NEW p \in Paths,
         InScope(p, owned[t]), InScope(p, owned[u])
  PROVE  t = u
<1> SUFFICES ASSUME t # u PROVE FALSE
  OBVIOUS
<1>1. PICK q \in owned[t] : p = q \/ <<p, q>> \in Inside
  BY DEF InScope
<1>2. PICK r \in owned[u] : p = r \/ <<p, r>> \in Inside
  BY DEF InScope
<1>3. q \in Paths /\ r \in Paths
  BY <1>1, <1>2
<1>4. ~PathsOverlap(q, r)
  BY DEF ValidOwnership
<1>5. q = r \/ <<q, r>> \in Inside \/ <<r, q>> \in Inside
  BY <1>1, <1>2, <1>3, TeamAssumption
<1> QED
  BY <1>4, <1>5 DEF PathsOverlap

\* A worker works for a session that status() knows, in a worktree of its own, and no
\* change is in the scopes of two tasks.
THEOREM SessionsHold == Spec => []SessionsAreSound
<1>1. AllHolds => SessionsAreSound
  <2> SUFFICES ASSUME AllHolds PROVE SessionsAreSound
    OBVIOUS
  <2>1. WorkersAreTracked
    <3> SUFFICES ASSUME call.pc # "off", AtWork # {}
                 PROVE  registered /\ \A t \in Members : worktrees[t] # None
      BY DEF WorkersAreTracked, Calling
    <3>1. registered
      BY WorkersOfTasks
    <3> QED
      BY <3>1 DEF AllHolds, CollabParts, Prepared
  <2>2. ScopesAreDisjoint
    <3> SUFFICES ASSUME registered,
                        NEW t \in Members, NEW u \in Members, NEW p \in Paths,
                        InScope(p, owned[t]), InScope(p, owned[u])
                 PROVE  t = u
      BY DEF ScopesAreDisjoint
    <3>1. owned \in [Members -> SUBSET Paths] /\ ValidOwnership(owned)
      BY DEF AllHolds, CollabParts, CollabTyped, Prepared
    <3> QED
      BY <3>1, ScopesApart
  <2> QED
    BY <2>1, <2>2 DEF SessionsAreSound
<1> QED
  BY <1>1, AlwaysAll, PTL

\* A session that status() found ready for review, or without progress, is at rest;
\* ready, its worktrees hold what was to be made, and without progress one of them does
\* not, unless the answer says that it could not see them all, though the workers went on
\* while status() asked for one task after the other.
THEOREM ReviewsAreEarned == Spec => []ReviewIsEarned
<1>1. AllHolds => ReviewIsEarned
  <2> DEFINE idle == \E t \in Mutating : ~\E p \in worktrees[t] : InScope(p, owned[t])
  <2> SUFFICES ASSUME AllHolds, report.state \in {"no_progress", "ready_for_review"}
               PROVE  AtWork = {} /\ Accounts(report.state = "no_progress", report.blind, idle)
    BY DEF ReviewIsEarned, Accounts
  <2>1. /\ registered /\ call.pc \in {"returned", "raised"}
        /\ \A t \in Members : Through(t)
        /\ Accounts(report.state = "no_progress", report.blind,
                \E t \in Members : Bare(t, "completed"))
    BY DEF AllHolds, CollabParts, Rested, Accounts
  <2>2. ASSUME NEW j \in AtWork PROVE FALSE
    <3>1. PICK t \in Members : jobOf[t] = j
      BY <2>1, WorkersOfTasks
    <3>2. runner[j].pc = "working"
      BY DEF AtWork, In
    <3> QED
      BY <2>1, <3>1, <3>2 DEF Through
  <2>3. (\E t \in Members : Bare(t, "completed")) <=> idle
    BY TeamAssumption DEF Bare, NoProgress
  <2> HIDE DEF idle
  <2> QED
    BY <2>1, <2>2, <2>3 DEF Accounts
<1> QED
  BY <1>1, AlwaysAll, PTL

\* Neither of the jobs' promises depends on who starts them: they hold under a collaboration,
\* whose jobs have no task key, as well.
THEOREM JobsHoldInCollaboration == Spec => []OneWorkerPerKey /\ VerdictsStand
<1>1. Init => JobsInit
  BY DEF Init
<1>2. [Next]_vars => [AnyJobsNext]_jobVars
  BY StepsOfJobs
<1>3. IInv => OneWorkerPerKey
  BY OneOfAKey
<1> QED
  BY <1>1, <1>2, <1>3, AlwaysVerdicts, PTL DEF Spec
===============================================================================
