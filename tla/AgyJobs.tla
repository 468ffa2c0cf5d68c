------------------------------ MODULE AgyJobs ------------------------------
(***************************************************************************)
(* The asynchronous jobs of agy_start, agy_status and agy_wait:             *)
(* AgyJobRegistry (agy_jobs.py), one per server process, and the            *)
(* durable_jobs table (durable_jobs.py) that the registries of all servers  *)
(* share.  Every operation of DurableJobStore is one BEGIN IMMEDIATE        *)
(* transaction and one step here; between them a registry only protects its *)
(* memory, by a lock that it does not hold while it writes the journal.     *)
(* Times, heartbeat stamps and result texts are left out: a retention that  *)
(* has run out is a choice.                                                 *)
(***************************************************************************)
EXTENDS Naturals, FiniteSets

CONSTANTS
  Sessions,   \* bridge sessions: a registry of a process that ran once
  Jobs,       \* job ids
  TaskKeys,   \* task keys
  None,       \* Python's None
  PoolSize,   \* max_workers of the executor
  MaxFaults   \* bound: closes, crashes and failed journal writes, in all

VARIABLES
  table,    \* the durable_jobs table
  session,  \* the phase of each registry
  swept,    \* the uncompleted jobs its close() saw and has not yet marked
  mem,      \* _jobs: the record of a job in the memory of its owner
  starter,  \* where the start() call of a job is
  runner,   \* where the pool thread of a job is
  watched,  \* the job each watchdog is writing the heartbeat of
  faults,   \* disturbances so far (the bound)
  lost,     \* history: jobs whose terminal write failed
  ghosts    \* workers that outlived the process of their bridge

jobVars == <<table, session, swept, mem, starter, runner, watched, faults, lost, ghosts>>

Active == {"queued", "running"}
Terminal == {"completed", "failed"}
Verdict == [completed |-> "COMPLETED", failed |-> "FAILED", unknown |-> "INTERRUPTED"]
Rows == [key : TaskKeys \cup {None}, owner : Sessions,
         state : Active \cup Terminal \cup {"unknown"},
         health : {"LIVE", "COMPLETED", "FAILED", "INTERRUPTED"},
         interrupted : BOOLEAN]
Phases == {"down", "up", "closing", "shut", "sweeping", "over"}
Records == [completed : BOOLEAN, answer : Terminal \cup {None}]
StartLabels == {"none", "reserve", "reserved", "submit", "refusing", "insert",
                "recheck", "abandon", "abandoning", "accepted", "raised", "died"}
RunLabels == {"none", "pooled", "gated", "starting", "working", "ended", "storing",
              "done", "cancelled"}

ASSUME JobsAssumption ==
  /\ None \notin TaskKeys \cup Sessions \cup Jobs \cup Rows \cup Records \cup Terminal
  /\ PoolSize \in Nat \ {0} /\ MaxFaults \in Nat

JobsInit ==
  /\ table = [j \in Jobs |-> None]
  /\ session = [s \in Sessions |-> "down"]
  /\ swept = [s \in Sessions |-> {}]
  /\ mem = [j \in Jobs |-> None]
  /\ starter = [j \in Jobs |-> [pc |-> "none", key |-> None, owner |-> None]]
  /\ runner = [j \in Jobs |-> [pc |-> "none", result |-> None]]
  /\ watched = [s \in Sessions |-> None]
  /\ faults = 0
  /\ lost = {}
  /\ ghosts = {}

Owner(j) == starter[j].owner
Of(s) == {j \in Jobs : Owner(j) = s}
Closed(s) == session[s] \in {"closing", "shut", "sweeping", "over"}
Written(j) == table[j] # None

-----------------------------------------------------------------------------
(* DurableJobStore: what each transaction makes of the table.                *)

\* reconcile_other_sessions: it cannot tell a dead session from a live one.
Reconciled(s) ==
  [j \in Jobs |-> IF Written(j) /\ table[j].state \in Active /\ table[j].owner # s
                  THEN [table[j] EXCEPT !.state = "unknown", !.health = "INTERRUPTED",
                                        !.interrupted = TRUE]
                  ELSE table[j]]

Sharing(k) == {table[j] : j \in {i \in Jobs : Written(i) /\ table[i].key = k}}

\* Mutant: an interrupted job does not hold its key.
KeyIsNotActive(k) == k # None => \A r \in Sharing(k) : r.state \notin Active

\* reserve_and_create: DUPLICATE_ACTIVE_TASK and RECOVERY_REQUIRED.
KeyIsFree(k) ==
  k # None => \A r \in Sharing(k) :
    r.state \notin Active /\ (r.state \notin Terminal => ~r.interrupted)

\* mark_started: whatever the row says by now.
MarkedStarted(j) ==
  IF Written(j) THEN [table EXCEPT ![j].state = "running", ![j].health = "LIVE"] ELSE table

\* Mutant: only an active row is ended.
MarkedTerminalIfActive(j, state) ==
  IF Written(j) /\ table[j].state \in Active
  THEN [table EXCEPT ![j].state = state, ![j].health = Verdict[state]] ELSE table

\* mark_terminal: likewise.
MarkedTerminal(j, state) ==
  IF Written(j) THEN [table EXCEPT ![j].state = state, ![j].health = Verdict[state],
                                   ![j].interrupted = FALSE]
  ELSE table

\* Mutant: the heartbeat of a job is written whatever its state.
BeatenAlways(j) == IF Written(j) THEN [table EXCEPT ![j].health = "LIVE"] ELSE table

\* update_heartbeat.
Beaten(j) ==
  IF Written(j) /\ table[j].state \in Active THEN [table EXCEPT ![j].health = "LIVE"] ELSE table

\* prune_terminal.
Prunable(j) ==
  Written(j) /\ table[j].state \in Terminal /\ ~table[j].interrupted
  /\ table[j].health # "INTERRUPTED"

\* A journal write that raises (a locked or full disk): the caller logs and goes on.
WriteFails == faults < MaxFaults /\ faults' = faults + 1 /\ UNCHANGED table

WriteSucceeds(written) == table' = written /\ UNCHANGED faults

-----------------------------------------------------------------------------
(* The constructor, maintenance and the watchdog.                            *)

\* __init__: reconcile; what its prune_terminal deletes, Prune deletes.  Which new
\* session id it draws makes no difference.
Open(s) ==
  /\ session[s] = "down"
  /\ s = CHOOSE new \in {t \in Sessions : session[t] = "down"} : TRUE
  /\ session' = [session EXCEPT ![s] = "up"]
  /\ table' = Reconciled(s)
  /\ UNCHANGED <<swept, mem, starter, runner, watched, faults, lost, ghosts>>

\* _maybe_prune_store_terminal, cleanup and the constructor: a row whose
\* retention ran out (a week, long after its thread is gone) is deleted.
Prune(s, j) ==
  /\ session[s] = "up" /\ Prunable(j)
  /\ starter[j].pc \in {"accepted", "raised", "died"}
  /\ runner[j].pc \in {"none", "done", "cancelled"}
  /\ j \notin ghosts
  /\ table' = [table EXCEPT ![j] = None]
  /\ UNCHANGED <<session, swept, mem, starter, runner, watched, faults, lost, ghosts>>

FutureDone(j) == runner[j].pc \in {"done", "cancelled"}

\* cleanup and _prune_locked: a completed record is forgotten after 15 minutes, by when
\* its thread has written to the journal.
Forget(s, j) ==
  /\ session[s] = "up" /\ j \in Of(s)
  /\ mem[j] # None /\ mem[j].completed /\ runner[j].pc # "storing"
  /\ mem' = [mem EXCEPT ![j] = None]
  /\ UNCHANGED <<table, session, swept, starter, runner, watched, faults, lost, ghosts>>

\* The watchdog finds the record uncompleted, notes the heartbeat, looks at the
\* worktree, and then writes to the journal without the lock.
WatchdogLooks(s, j) ==
  /\ session[s] = "up" /\ watched[s] = None /\ j \in Of(s)
  /\ mem[j] # None /\ ~mem[j].completed /\ ~FutureDone(j)
  /\ watched' = [watched EXCEPT ![s] = j]
  /\ UNCHANGED <<table, session, swept, mem, starter, runner, faults, lost, ghosts>>

WatchdogWrites(s) ==
  /\ watched[s] # None
  /\ table' = Beaten(watched[s])
  /\ watched' = [watched EXCEPT ![s] = None]
  /\ UNCHANGED <<session, swept, mem, starter, runner, faults, lost, ghosts>>

-----------------------------------------------------------------------------
(* start().                                                                  *)

At(j, label) == starter[j].pc = label
To(j, label) == starter' = [starter EXCEPT ![j].pc = label]

\* A closed registry raises at once.  Any id that is not in use is as good.
Fresh == {j \in Jobs : At(j, "none")}

Start(s, j, k) ==
  /\ session[s] = "up" /\ Fresh # {} /\ j = CHOOSE new \in Fresh : TRUE
  /\ starter' = [starter EXCEPT ![j] = [pc |-> "reserve", key |-> k, owner |-> s]]
  /\ UNCHANGED <<table, session, swept, mem, runner, watched, faults, lost, ghosts>>

Reserve(j) ==
  /\ At(j, "reserve")
  /\ \/ /\ KeyIsFree(starter[j].key)
        /\ WriteSucceeds([table EXCEPT ![j] =
             [key |-> starter[j].key, owner |-> Owner(j), state |-> "queued",
              health |-> "LIVE", interrupted |-> FALSE]])
        /\ To(j, "reserved")
     \/ ~KeyIsFree(starter[j].key) /\ To(j, "raised") /\ UNCHANGED <<table, faults>>
     \/ WriteFails /\ To(j, "raised")
  /\ UNCHANGED <<session, swept, mem, runner, watched, lost, ghosts>>

CheckClosed(j) ==
  /\ At(j, "reserved")
  /\ To(j, IF Closed(Owner(j)) THEN "refusing" ELSE "submit")
  /\ UNCHANGED <<table, session, swept, mem, runner, watched, faults, lost, ghosts>>

\* executor.submit, which raises once the executor is shut down.
Submit(j) ==
  /\ At(j, "submit")
  /\ IF session[Owner(j)] \in {"up", "closing"}
     THEN To(j, "insert") /\ runner' = [runner EXCEPT ![j].pc = "pooled"]
     ELSE To(j, "refusing") /\ UNCHANGED runner
  /\ UNCHANGED <<table, session, swept, mem, watched, faults, lost, ghosts>>

\* REGISTRY_CLOSED or SUBMIT_FAILED goes to the journal, and start raises.
Refuse(j) ==
  /\ At(j, "refusing")
  /\ \/ WriteSucceeds(MarkedTerminal(j, "failed")) /\ UNCHANGED lost
     \/ WriteFails /\ lost' = lost \cup {j}
  /\ To(j, "raised")
  /\ UNCHANGED <<session, swept, mem, runner, watched, ghosts>>

\* The record enters the registry, or the future is cancelled if it still can be;
\* the gate the pool thread waits at opens in either case.
InsertRecord(j) ==
  /\ At(j, "insert")
  /\ IF Closed(Owner(j))
     THEN /\ To(j, "abandon")
          /\ runner' = [runner EXCEPT ![j].pc = IF @ = "pooled" THEN "cancelled" ELSE @]
          /\ UNCHANGED mem
     ELSE /\ To(j, "recheck")
          /\ mem' = [mem EXCEPT ![j] = [completed |-> FALSE, answer |-> None]]
          /\ UNCHANGED runner
  /\ UNCHANGED <<table, session, swept, watched, faults, lost, ghosts>>

Recheck(j) ==
  /\ At(j, "recheck")
  /\ To(j, IF Closed(Owner(j)) THEN "abandon" ELSE "accepted")
  /\ UNCHANGED <<table, session, swept, mem, runner, watched, faults, lost, ghosts>>

\* Mutant: the second to complete a job overwrites the first.
CompletedLast(j, state) ==
  IF mem[j] = None THEN mem ELSE [mem EXCEPT ![j] = [completed |-> TRUE, answer |-> state]]

\* _mark_completed under the lock: the first to complete a job wins.
Completed(j, state) ==
  IF mem[j] = None \/ mem[j].completed THEN mem
  ELSE [mem EXCEPT ![j] = [completed |-> TRUE, answer |-> state]]

AlreadyCompleted(j) == mem[j] # None /\ mem[j].completed

\* start gives the job up with _mark_completed(REGISTRY_CLOSED); its thread may
\* be past the gate.
Abandon(j) ==
  /\ At(j, "abandon")
  /\ mem' = Completed(j, "failed")
  /\ To(j, IF AlreadyCompleted(j) THEN "raised" ELSE "abandoning")
  /\ UNCHANGED <<table, session, swept, runner, watched, faults, lost, ghosts>>

AbandonWrites(j) ==
  /\ At(j, "abandoning")
  /\ \/ WriteSucceeds(MarkedTerminal(j, "failed")) /\ UNCHANGED lost
     \/ WriteFails /\ lost' = lost \cup {j}
  /\ To(j, "raised")
  /\ UNCHANGED <<session, swept, mem, runner, watched, ghosts>>

StartCall(j) == \/ Reserve(j) \/ CheckClosed(j) \/ Submit(j) \/ Refuse(j) \/ InsertRecord(j)
                \/ Recheck(j) \/ Abandon(j) \/ AbandonWrites(j)

-----------------------------------------------------------------------------
(* _wrapped_runner, in a thread of the pool.                                 *)

In(j, label) == runner[j].pc = label
On(j, label) == runner' = [runner EXCEPT ![j].pc = label]
Busy(s) == {j \in Of(s) : runner[j].pc \in {"gated", "starting", "working", "ended", "storing"}}

Take(j) ==
  /\ In(j, "pooled") /\ Cardinality(Busy(Owner(j))) < PoolSize
  /\ On(j, "gated")
  /\ UNCHANGED <<table, session, swept, mem, starter, watched, faults, lost, ghosts>>

\* Through the gate: a closed registry, or one without the record, is an error.
Enter(j) ==
  /\ In(j, "gated") /\ ~At(j, "insert")
  /\ IF Closed(Owner(j)) \/ mem[j] = None
     THEN runner' = [runner EXCEPT ![j] = [pc |-> "ended", result |-> "failed"]]
     ELSE On(j, "starting")
  /\ UNCHANGED <<table, session, swept, mem, starter, watched, faults, lost, ghosts>>

StoreStarted(j) ==
  /\ In(j, "starting")
  /\ WriteSucceeds(MarkedStarted(j)) \/ WriteFails
  /\ On(j, "working")
  /\ UNCHANGED <<session, swept, mem, starter, watched, lost, ghosts>>

\* run_agy returns or raises (AgyRunner).
Work(j) ==
  /\ In(j, "working")
  /\ \E r \in Terminal : runner' = [runner EXCEPT ![j] = [pc |-> "ended", result |-> r]]
  /\ UNCHANGED <<table, session, swept, mem, starter, watched, faults, lost, ghosts>>

\* _mark_completed: memory first.
Complete(j) ==
  /\ In(j, "ended")
  /\ mem' = Completed(j, runner[j].result)
  /\ On(j, IF AlreadyCompleted(j) THEN "done" ELSE "storing")
  /\ UNCHANGED <<table, session, swept, starter, watched, faults, lost, ghosts>>

\* ... then the journal.
StoreTerminal(j) ==
  /\ In(j, "storing")
  /\ \/ WriteSucceeds(MarkedTerminal(j, runner[j].result)) /\ UNCHANGED lost
     \/ WriteFails /\ lost' = lost \cup {j}
  /\ On(j, "done")
  /\ UNCHANGED <<session, swept, mem, starter, watched, ghosts>>

PoolThread(j) == \/ Take(j) \/ Enter(j) \/ StoreStarted(j) \/ Work(j) \/ Complete(j)
                 \/ StoreTerminal(j)

-----------------------------------------------------------------------------
(* status(), close() and the death of a process.                             *)

\* status() in the memory of the owner completes a record whose future was
\* cancelled; nothing is journalled for it.
StatusCompletes(j) ==
  /\ mem[j] # None /\ ~mem[j].completed /\ FutureDone(j)
  /\ mem' = Completed(j, "failed")
  /\ UNCHANGED <<table, session, swept, starter, runner, watched, faults, lost, ghosts>>

Close(s) ==
  /\ session[s] = "up" /\ faults < MaxFaults
  /\ faults' = faults + 1
  /\ session' = [session EXCEPT ![s] = "closing"]
  /\ swept' = [swept EXCEPT ![s] = {j \in Of(s) : mem[j] # None /\ ~mem[j].completed}]
  /\ UNCHANGED <<table, mem, starter, runner, watched, lost, ghosts>>

\* The watchdog is told to stop, and is waited for one second at most; the executor
\* cancels what waits in its queue.
Shutdown(s) ==
  /\ session[s] = "closing"
  /\ session' = [session EXCEPT ![s] = "shut"]
  /\ runner' = [j \in Jobs |-> IF j \in Of(s) /\ In(j, "pooled")
                               THEN [runner[j] EXCEPT !.pc = "cancelled"] ELSE runner[j]]
  /\ UNCHANGED <<table, swept, mem, starter, watched, faults, lost, ghosts>>

\* shutdown(wait=True) returns when the threads are through.
ShutdownReturns(s) ==
  /\ session[s] = "shut" /\ Busy(s) = {}
  /\ session' = [session EXCEPT ![s] = "sweeping"]
  /\ UNCHANGED <<table, swept, mem, starter, runner, watched, faults, lost, ghosts>>

\* One uncompleted job is marked failed, memory and journal (the lock's first-wins
\* rule leaves the writing to this thread, and no pool thread is left).
Sweep(s, j) ==
  /\ session[s] = "sweeping" /\ j \in swept[s]
  /\ swept' = [swept EXCEPT ![s] = @ \ {j}]
  /\ mem' = Completed(j, "failed")
  /\ IF AlreadyCompleted(j) THEN UNCHANGED <<table, faults, lost>>
     ELSE \/ WriteSucceeds(MarkedTerminal(j, "failed")) /\ UNCHANGED lost
          \/ WriteFails /\ lost' = lost \cup {j}
  /\ UNCHANGED <<session, starter, runner, watched, ghosts>>

CloseReturns(s) ==
  /\ session[s] = "sweeping" /\ swept[s] = {}
  /\ session' = [session EXCEPT ![s] = "over"]
  /\ UNCHANGED <<table, swept, mem, starter, runner, watched, faults, lost, ghosts>>

\* The process dies; an AGY process it supervised may live on.
Crash(s) ==
  /\ session[s] \notin {"down", "over"} /\ faults < MaxFaults
  /\ faults' = faults + 1
  /\ session' = [session EXCEPT ![s] = "over"]
  /\ mem' = [j \in Jobs |-> IF j \in Of(s) THEN None ELSE mem[j]]
  /\ starter' = [j \in Jobs |-> IF j \in Of(s) /\ ~At(j, "accepted") /\ ~At(j, "raised")
                                THEN [starter[j] EXCEPT !.pc = "died"] ELSE starter[j]]
  /\ ghosts' = ghosts \cup {j \in Of(s) : In(j, "working")}
  /\ runner' = [j \in Jobs |-> IF j \in Of(s) /\ ~In(j, "none")
                               THEN [runner[j] EXCEPT !.pc = "done"] ELSE runner[j]]
  /\ watched' = [watched EXCEPT ![s] = None]
  /\ UNCHANGED <<table, swept, lost>>

GhostEnds(j) ==
  /\ j \in ghosts
  /\ ghosts' = ghosts \ {j}
  /\ UNCHANGED <<table, session, swept, mem, starter, runner, watched, faults, lost>>

Closing(s) == \/ Shutdown(s) \/ ShutdownReturns(s) \/ CloseReturns(s)
              \/ \E j \in Jobs : Sweep(s, j)

\* Everything but a caller's start.
JobsStep ==
  \/ \E s \in Sessions :
       \/ Open(s) \/ Close(s) \/ Closing(s) \/ Crash(s) \/ WatchdogWrites(s)
       \/ \E j \in Jobs : Prune(s, j) \/ Forget(s, j) \/ WatchdogLooks(s, j)
  \/ \E j \in Jobs : StartCall(j) \/ PoolThread(j) \/ StatusCompletes(j) \/ GhostEnds(j)

JobsNext ==
  \/ JobsStep
  \/ \E s \in Sessions, j \in Jobs, k \in TaskKeys : Start(s, j, k)

\* Threads are scheduled, and run_agy has a deadline.
JobsFairness ==
  /\ \A j \in Jobs : WF_jobVars(StartCall(j)) /\ WF_jobVars(PoolThread(j))
  /\ \A s \in Sessions : WF_jobVars(Closing(s)) /\ WF_jobVars(WatchdogWrites(s))

JobsSpec == JobsInit /\ [][JobsNext]_jobVars /\ JobsFairness
-----------------------------------------------------------------------------
(* Properties.                                                               *)

\* Every variable has its type.
JobsTypeOK ==
  /\ table \in [Jobs -> Rows \cup {None}]
  /\ session \in [Sessions -> Phases]
  /\ swept \in [Sessions -> SUBSET Jobs]
  /\ mem \in [Jobs -> Records \cup {None}]
  /\ starter \in [Jobs -> [pc : StartLabels, key : TaskKeys \cup {None},
                          owner : Sessions \cup {None}]]
  /\ runner \in [Jobs -> [pc : RunLabels, result : Terminal \cup {None}]]
  /\ watched \in [Sessions -> Jobs \cup {None}]
  /\ faults \in 0 .. MaxFaults
  /\ lost \subseteq Jobs /\ ghosts \subseteq Jobs

\* A start that raised once its thread was in the pool.
GivenUp(j) == starter[j].pc \in {"abandon", "abandoning", "raised"}

WorkersOf(k) == {j \in Jobs : starter[j].key = k /\ (In(j, "working") \/ j \in ghosts)}

\* Two workers never work on one task key: not across servers, not when another
\* server's start interrupts a live job, not when a worker outlives its server and
\* its row is pruned or reconciled (a job whose start raised on a closing registry
\* is the exception: see NoOrphanActiveJob).
OneWorkerPerKey ==
  \A k \in TaskKeys : Cardinality({j \in WorkersOf(k) : ~GivenUp(j)}) <= 1

\* A late heartbeat never touches the verdict of a settled or interrupted row: the
\* watchdog writes what it saw before the worker ended (update_heartbeat's guard).
VerdictStands ==
  \A j \in Jobs : Written(j) =>
    table[j].health = IF table[j].state \in Active THEN "LIVE" ELSE Verdict[table[j].state]

\* status(job_id): memory of the owner first, then the journal.
Answer(s, j) ==
  IF s = Owner(j) /\ mem[j] # None
  THEN IF mem[j].completed THEN mem[j].answer ELSE "active"
  ELSE IF ~Written(j) THEN "unknown"
  ELSE IF table[j].state \in Terminal THEN table[j].state
  ELSE IF table[j].interrupted THEN "interrupted" ELSE "active"

\* A terminal answer about an accepted job is never taken back or changed, through
\* the memory of its owner, its expiry and the journal behind it; only a journal
\* write that failed, or the retention of a week, makes one disappear.
TerminalAnswerStands ==
  [][\A s \in Sessions, j \in Jobs :
       session'[s] \notin {"down", "over"} /\ At(j, "accepted") /\ Answer(s, j) \in Terminal
         => Answer(s, j)' \in {Answer(s, j), "unknown"} \/ j \in lost]_jobVars

\* What was said about the end of a job is not unsaid, in the row or in an answer.
VerdictsStand == []VerdictStands /\ TerminalAnswerStands

Settled(j) == ~Written(j) \/ table[j].state \in Terminal

\* Every accepted job gets settled in the journal and stays so, also when another
\* server interrupted it, unless its server closes or dies or the write failed.
AcceptedJobsSettle ==
  <>[](\A j \in Jobs :
         At(j, "accepted") => Settled(j) \/ session[Owner(j)] # "up" \/ j \in lost)

\* "Verify no orphan active job in durable store" after a start that lost the race
\* with close (tests/test_async_jobs.py): its thread may pass the gate, and mark
\* the row running after start marked it failed.
NoOrphanActiveJob ==
  \A j \in Jobs \ lost : At(j, "raised") /\ runner[j].pc \in {"none", "done", "cancelled"}
                        => ~Written(j) \/ table[j].state \notin Active
=============================================================================
