-------------------------- MODULE RunSafetyProofs --------------------------
(***************************************************************************)
(* What RunControl promises about executions, cancellations and observers,  *)
(* proved from one lemma on the shape of its steps: who moves, along which  *)
(* edge of the control flow, and what becomes of the row.                   *)
(***************************************************************************)
EXTENDS RunControlProofs

\* Where resume_same_run and mark_interrupted_if_orphaned stand, and every label only
\* a caller stands at.
ResumeLabels == {"r_idle", "r_read", "r_load", "r_ready", "r_spawn",
                 "k_diagnose", "k_read", "k_switch", "k_queue", "k_interrupt"}
CancelLabels == {"c_signal", "c_read", "c_try", "c_reread", "c_retry"}
CallerLabels ==
  {"s_spawn", "s_reserve", "s_pid", "s_fail", "p_start",
   "c_signal", "c_read", "c_try", "c_reread", "c_retry", "o_read", "o_probe",
   "r_status", "r_idle", "r_read", "r_load", "r_ready", "r_spawn",
   "k_diagnose", "k_read", "k_switch", "k_queue", "k_interrupt",
   "e_read", "e_ready", "f_read", "f_fail"}
HarvestLabels == {"x_probe", "x_latest", "x_verify", "x_settle"}
MarkLabels == {"m_queue", "m_reread", "m_interrupt"}

\* Where a result is being applied.
ApplyLabels == {"w_reject", "w_rejectFail", "w_verify", "w_commit", "w_complete", "w_fail",
                "w_repair"}

\* The control flow of one actor.
Follows(from, to) ==
  \/ from \in {"h_wait", "h_claim"} /\ to \in {"done", "x_probe"}
  \/ from = "h_claim" /\ to = "h_spawn"
  \/ from = "born" /\ to = "w_check1"
  \/ from = "w_check1" /\ to \in {"w_cancelled", "w_queue"}
  \/ from = "w_queue" /\ to \in {"w_check2", "w_except"}
  \/ from = "w_check2" /\ to \in {"w_cancelled", "w_run"}
  \/ from = "w_run" /\ to \in {"w_exec", "w_except"}
  \/ from = "w_exec" /\ to \in {"w_ret", "w_except"}
  \/ from = "w_ret" /\ to \in {"w_cancelRead", "w_read"}
  \/ from = "w_cancelRead" /\ to \in {"w_finally", "w_cancelled"}
  \/ from = "w_cancelled" /\ to \in {"w_finally", "w_except"}
  \/ from = "w_read" /\ to \in {"w_finally", "w_fail", "x_probe", "w_accept", "w_payload"}
  \/ from \in {"w_payload", "w_accept"} /\ to \in {"w_verify", "w_reject", "w_except"}
  \/ from \in ApplyLabels
     /\ to \in {"w_rejectFail", "w_commit", "w_complete", "w_repair", "w_finally", "w_except"}
  \/ from = "w_except" /\ to \in {"w_exceptFail", "w_finally"}
  \/ from = "w_exceptFail" /\ to = "w_finally"
  \/ from = "w_finally" /\ to = "done"
  \/ from = "x_probe" /\ to = "x_latest"
  \/ from \in {"x_latest", "x_verify"} /\ to \in {"x_verify", "x_settle"}
  \/ from \in HarvestLabels
     /\ to \in {"w_fail", "w_except", "w_finally", "m_queue", "m_interrupt", "done", "idle"}
  \/ from \in MarkLabels /\ to \in {"m_reread", "m_interrupt", "done", "idle"}
  \/ from \in {"s_spawn", "s_reserve", "s_pid"} /\ to \in {"s_fail", "idle"}
  \/ from \in CancelLabels \ {"c_signal"} /\ to \in {"c_try", "c_reread", "c_retry", "idle"}
  \/ from = "o_read" /\ to \in {"o_probe", "idle"}
  \/ from = "o_probe" /\ to \in {"x_probe", "idle"}
  \/ from = "r_status" /\ to \in {"r_idle", "idle"}
  \/ from \in ResumeLabels /\ to \in (ResumeLabels \ {"r_idle"}) \cup {"idle"}
  \/ from = "e_read" /\ to \in {"e_ready", "idle"}
  \/ from = "f_read" /\ to \in {"f_fail", "idle"}
  \/ from \in {"s_fail", "e_ready", "f_fail"} /\ to = "idle"

\* Who goes from one label to the other.
Kind(a, from, to) ==
  /\ from \in CallerLabels \/ to = "idle" => a \in Callers
  /\ from \notin CallerLabels \cup HarvestLabels \cup MarkLabels => a \in Workers
  /\ to \in {"w_fail", "w_except", "w_finally", "done"} => a \in Workers

\* Actor a goes on at `then`; a call that returns leaves its process.
Moves(a, then) ==
  /\ Follows(pc[a], then) /\ Kind(a, pc[a], then)
  /\ pc' = [pc EXCEPT ![a] = then]
  /\ at' = IF then = "idle" THEN [at EXCEPT ![a] = None] ELSE at
  /\ call' = IF then = "idle" THEN [call EXCEPT ![a] = "none"] ELSE call
  /\ \A b \in Actors : b # a => seen'[b] = seen[b] /\ peek'[b] = peek[b]

\* What the code asks on the edges that the properties depend on.
Permits(a, then) ==
  /\ pc[a] = "w_ret" /\ event[a] => then = "w_cancelRead"
  /\ pc[a] = "r_status" /\ then # "idle" => row.state = "ACCOUNT_SWITCH_REQUIRED"
  /\ pc[a] = "r_idle" /\ then # "idle" => active[at[a]] = None
  /\ pc[a] = "o_probe" /\ then # "idle" => (StaleBeats /\ ~ InProcess) \/ Orphaned(a)
  /\ pc[a] = "x_probe" /\ then = "x_latest" => ~ ForeignOwner(a)
  /\ pc[a] \in HarvestLabels /\ then = "w_fail" => Handling(a)

\* The labels Permits and Records speak about.
Watched ==
  {"w_ret", "r_status", "r_idle", "o_probe", "o_read", "w_read", "w_except", "h_wait",
   "h_claim", "c_read", "c_reread", "s_pid", "e_read", "f_read",
   "x_probe", "x_latest", "x_verify", "x_settle"}

\* What the actor remembers of the row from now on.
Records(a, then) ==
  /\ \/ seen'[a] \in {seen[a], row'}
     \/ then \in {"idle", "done"} /\ seen'[a] = Created
  /\ peek'[a] \in {peek[a], row', Created}
  /\ pc[a] \in {"o_read", "w_read", "w_except", "h_wait", "h_claim"}
       /\ then \notin {"idle", "done", "w_finally", "h_spawn"}
     => seen'[a] = row /\ row.state \notin Dropping
  /\ pc[a] \in {"c_read", "c_reread"} /\ then # "idle"
     => seen'[a] = row /\ row.state \notin TerminalStates
  /\ pc[a] \in {"s_pid", "e_read", "f_read"} /\ then # "idle" => seen'[a] = row
  /\ pc[a] \in HarvestLabels /\ then \notin {"idle", "done"} => seen'[a] = seen[a]
  /\ then \in {"x_verify", "x_settle"} => peek'[a] = row'
  /\ then = "x_settle" => peek'[a].state = "VERIFYING"
  /\ then = "w_rejectFail" => seen'[a].state = "VERIFYING"

\* The states an actor at the label may take the run to.
Target(label, to) ==
  \/ label \in {"s_fail", "w_rejectFail", "w_exceptFail", "f_fail"} /\ to = "FAILED"
  \/ label \in {"w_cancelled", "c_try", "c_retry"} /\ to = "CANCELLED"
  \/ label \in {"w_queue", "m_queue", "k_queue", "r_spawn"} /\ to = "QUEUED"
  \/ label = "w_run" /\ to = "RUNNING"
  \/ label \in {"w_reject", "w_verify", "x_verify"} /\ to = "VERIFYING"
  \/ label = "w_commit" /\ to = "COMMITTING"
  \/ label = "w_complete" /\ to = "COMPLETE"
  \/ label = "w_fail" /\ to \in SuspendedStates \cup {"VERIFYING", "FAILED"}
  \/ label = "w_repair" /\ to = "REPAIRING"
  \/ label = "x_settle" /\ to \in {"COMPLETE", "FAILED"}
  \/ label \in {"m_interrupt", "k_interrupt"} /\ to = "INTERRUPTED"
  \/ label \in {"r_ready", "e_ready"} /\ to = "RECOVERY_READY"
  \/ label = "k_switch" /\ to = "ACCOUNT_SWITCH_REQUIRED"

\* What an actor judges its write on.
Known(a) == IF pc[a] \in HarvestLabels THEN peek[a] ELSE seen[a]

\* A versioned write of actor a.
WritesAs(a, then, to, given, pid) ==
  /\ Target(pc[a], to)
  /\ CanWrite(Known(a), to, given)
  /\ IF pc[a] = "w_run" THEN pid = at[a] ELSE pid \in SelectedPids(Known(a))
  /\ pc[a] = "w_fail" /\ to \in SuspendedStates => then = "w_finally"
  /\ row' = Written(to, given, pid)

Writes(a, then) ==
  \E to \in RunStates, given \in Verifications, pid \in Processes \cup {None} :
    WritesAs(a, then, to, given, pid)

\* An unversioned update of the pid.
StoresHost(a) == pc[a] \in {"s_pid", "h_claim"} /\ row' = [row EXCEPT !.pid = Host]

\* What must have written the row, and what may leave it: a failure of run_start is not
\* recorded only where somebody else moved or ended the run.
Refused(a, then) ==
  /\ then \notin {"w_exec", "h_spawn"}
  /\ pc[a] = "s_fail" => seen[a].version # row.version \/ row.state \in TerminalStates
  /\ pc[a] = "s_pid" /\ then = "idle" => row.state \in TerminalStates

\* Nothing moves but one actor and the row.
Ordinary(a, then) ==
  /\ Moves(a, then) /\ Permits(a, then) /\ Records(a, then)
  /\ UNCHANGED <<up, active, event, result, early>>
  /\ \/ row' = row /\ Refused(a, then)
     \/ StoresHost(a)
     \/ Writes(a, then)

\* Steps that start or end an execution or a call, or set an event.
Special ==
  \/ \E w \in Workers : CallbackReturns(w) \/ Finally(w) \/ HostSpawns(w) \/ HostExits(w)
  \/ \E c \in Callers :
       \/ Signal(c) \/ BeginStep(c)
       \/ SpawnInProcess(c) \/ ResumeSpawn(c) \/ StartThread(c) \/ SpawnHost(c) \/ Reserve(c)
  \/ \E p \in Processes : Crash(p)

-----------------------------------------------------------------------------
(* The shape of the steps.                                                   *)

\* A step that leaves the row alone.
LEMMA JumpShape ==
  ASSUME IInv, NEW a \in Actors, NEW label, NEW then,
         Jump(a, label, then) \/ Read(a, label, then),
         Follows(label, then), Kind(a, label, then),
         Permits(a, then), Records(a, then), then \notin {"w_exec", "h_spawn"},
         label # "s_fail", label = "s_pid" /\ then = "idle" => row.state \in TerminalStates
  PROVE  Ordinary(a, then)
<1>1. /\ pc[a] = label /\ row' = row
      /\ UNCHANGED <<up, active, event, result, early, peek>>
      /\ Goto(a, then)
      /\ seen' = [seen EXCEPT ![a] = seen'[a]]
  BY DEF Jump, Read, Here, Rest, Keep, IInv, TypeOK
<1>2. /\ pc' = [pc EXCEPT ![a] = then]
      /\ at' = IF then = "idle" THEN [at EXCEPT ![a] = None] ELSE at
      /\ call' = IF then = "idle" THEN [call EXCEPT ![a] = "none"] ELSE call
  BY <1>1 DEF Goto
<1>3. \A b \in Actors : b # a => seen'[b] = seen[b] /\ peek'[b] = peek[b]
  BY <1>1 DEF IInv, TypeOK
<1> QED
  BY <1>1, <1>2, <1>3 DEF Ordinary, Moves, Refused

\* The same where neither Permits nor Records asks anything.
LEMMA PlainShape ==
  ASSUME IInv, NEW a \in Actors, NEW label, NEW then,
         Jump(a, label, then) \/ Read(a, label, then),
         Follows(label, then), Kind(a, label, then),
         label \notin Watched \cup {"s_fail"},
         then \notin {"w_exec", "h_spawn", "x_verify", "x_settle", "w_rejectFail"}
  PROVE  \E next : Ordinary(a, next)
<1>1. /\ pc[a] = label
      /\ UNCHANGED peek
      /\ \/ seen'[a] \in {seen[a], row'}
         \/ then \in {"idle", "done"} /\ seen'[a] = Created
  BY DEF Jump, Read, Here, Rest, Keep, IInv, TypeOK
<1>2. Permits(a, then) /\ Records(a, then)
  BY <1>1 DEF Permits, Records, Watched, HarvestLabels
<1>3. label # "s_fail" /\ label # "s_pid"
  BY DEF Watched
<1>4. Ordinary(a, then)
  BY <1>2, <1>3, JumpShape
<1> QED
  BY <1>4

\* A step that writes the row, or finds that it cannot.
LEMMA WriteAsShape ==
  ASSUME IInv, NEW a \in Actors, NEW label, NEW to \in RunStates,
         NEW given \in Verifications, NEW pid \in Processes \cup {None}, NEW then, NEW else,
         WriteAs(pid, a, label, to, given, then, else),
         IF label = "w_run" THEN pid = at[a] ELSE pid \in SelectedPids(seen[a]),
         label \notin Watched,
         Target(label, to),
         Follows(label, then), Kind(a, label, then),
         Follows(label, else), Kind(a, label, else),
         label = "w_fail" /\ to \in SuspendedStates => then = "w_finally",
         {then, else} \cap {"h_spawn", "x_verify", "x_settle"} = {},
         then = "w_rejectFail" => to = "VERIFYING",
         else \notin {"w_exec", "w_rejectFail"}
  PROVE  Ordinary(a, then) \/ Ordinary(a, else)
<1>1. /\ pc[a] = label
      /\ UNCHANGED <<up, active, event, result, early, peek>>
      /\ Known(a) = seen[a]
  BY DEF WriteAs, Here, Rest, Known, Watched, HarvestLabels
<1>2. ASSUME NEW next, next \in {then, else}, Goto(a, next)
      PROVE  /\ Permits(a, next)
             /\ pc' = [pc EXCEPT ![a] = next]
             /\ at' = IF next = "idle" THEN [at EXCEPT ![a] = None] ELSE at
             /\ call' = IF next = "idle" THEN [call EXCEPT ![a] = "none"] ELSE call
  BY <1>1, <1>2 DEF Goto, Permits, Watched, HarvestLabels
<1>3. CASE /\ CanWrite(seen[a], to, given)
           /\ row' = Written(to, given, pid)
           /\ Keep(a, then, Written(to, given, pid))
           /\ Goto(a, then)
  <2>1. /\ seen'[a] = IF then \in {"idle", "done"} THEN Created ELSE row'
        /\ \A b \in Actors : b # a => seen'[b] = seen[b] /\ peek'[b] = peek[b]
    BY <1>1, <1>3 DEF Keep, IInv, TypeOK
  <2>2. then = "w_rejectFail" => seen'[a].state = "VERIFYING"
    BY <1>3, <2>1 DEF Written
  <2>3. Records(a, then)
    BY <1>1, <2>1, <2>2 DEF Records, Watched, HarvestLabels
  <2>4. WritesAs(a, then, to, given, pid)
    BY <1>1, <1>3 DEF WritesAs
  <2> QED
    BY <1>1, <1>2, <1>3, <2>1, <2>3, <2>4 DEF Ordinary, Moves, Writes
<1>4. CASE /\ ~ CanWrite(seen[a], to, given)
           /\ Keep(a, else, seen[a])
           /\ Goto(a, else)
           /\ UNCHANGED row
  <2>1. /\ seen'[a] = IF else \in {"idle", "done"} THEN Created ELSE seen[a]
        /\ \A b \in Actors : b # a => seen'[b] = seen[b] /\ peek'[b] = peek[b]
    BY <1>1, <1>4 DEF Keep, IInv, TypeOK
  <2>2. Records(a, else)
    BY <1>1, <2>1 DEF Records, Watched, HarvestLabels
  <2>3. Refused(a, else)
    <3> SUFFICES ASSUME label = "s_fail", seen[a].version = row.version
                 PROVE  row.state \in TerminalStates
      BY <1>1 DEF Refused, Watched
    <3>1. to = "FAILED"
      BY DEF Target
    <3>2. "FAILED" \notin AllowedTransitions(row.state) /\ row.state \in RunStates
      BY <1>4, <3>1 DEF CanWrite, CanTransition, IInv, TypeOK, Rows
    <3> QED
      BY <3>2 DEF AllowedTransitions, RunStates, TerminalStates
  <2> QED
    BY <1>1, <1>2, <1>4, <2>1, <2>2, <2>3 DEF Ordinary, Moves
<1> QED
  BY <1>3, <1>4 DEF WriteAs

LEMMA WriteShape ==
  ASSUME IInv, NEW a \in Actors, NEW label, NEW to \in RunStates,
         NEW given \in Verifications, NEW then, NEW else,
         Write(a, label, to, given, then, else),
         label \notin Watched \cup {"w_run"},
         Target(label, to),
         Follows(label, then), Kind(a, label, then),
         Follows(label, else), Kind(a, label, else),
         label = "w_fail" /\ to \in SuspendedStates => then = "w_finally",
         {then, else} \cap {"h_spawn", "x_verify", "x_settle"} = {},
         then = "w_rejectFail" => to = "VERIFYING",
         else \notin {"w_exec", "w_rejectFail"}
  PROVE  \E next : Ordinary(a, next)
<1>1. PICK pid \in SelectedPids(seen[a]) : WriteAs(pid, a, label, to, given, then, else)
  BY DEF Write
<1>2. pid \in Processes \cup {None}
  BY DEF SelectedPids, IInv, TypeOK, Rows
<1>3. Ordinary(a, then) \/ Ordinary(a, else)
  BY <1>1, <1>2, WriteAsShape
<1> QED
  BY <1>3

\* A step that only chooses a payload.
LEMMA PayloadShape ==
  ASSUME IInv, NEW a \in Actors, NEW then, Goto(a, then),
         Follows(pc[a], then), Kind(a, pc[a], then), Permits(a, then),
         then \notin {"idle", "done", "w_exec", "h_spawn", "x_verify", "x_settle",
                      "w_rejectFail"},
         pc[a] \in {"w_payload", "w_accept", "x_probe"},
         UNCHANGED <<row, up, active, event, seen, peek, result, early>>
  PROVE  Ordinary(a, then)
<1>1. Moves(a, then)
  BY DEF Moves, Goto
<1>2. Records(a, then)
  BY DEF Records
<1> QED
  BY <1>1, <1>2 DEF Ordinary, Refused

\* Callers, hosts and workers are different actors.
LEMMA WorkerIsNoCaller == ASSUME NEW w \in Workers PROVE w \in Actors /\ w \notin Callers
BY ConstantsAssumption DEF ConstantsAssumption, Actors

LEMMA HostShape ==
  ASSUME IInv, NEW w \in Workers, HostClaims(w) \/ HostGivesUp(w) \/ HostStartsThread(w)
  PROVE  \E then : Ordinary(w, then)
<1>1. w \in Actors
  BY DEF Actors
<1>2. CASE HostClaims(w)
  <2>1. Moves(w, "h_spawn")
    BY <1>2 DEF HostClaims, Here, Goto, Rest, Moves, Follows, Kind, CallerLabels
  <2>2. Permits(w, "h_spawn") /\ Records(w, "h_spawn") /\ StoresHost(w)
    BY <1>2 DEF HostClaims, Here, Rest, Permits, Records, StoresHost, HarvestLabels
  <2>3. Ordinary(w, "h_spawn")
    BY <1>2, <2>1, <2>2 DEF HostClaims, Rest, Ordinary
  <2> QED
    BY <2>3
<1>3. CASE HostGivesUp(w)
  <2>1. PICK label \in {"h_wait", "h_claim"}, then \in {"done", "x_probe"} :
          /\ Read(w, label, then)
          /\ then = "x_probe" => row.state \notin Dropping
    BY <1>3 DEF HostGivesUp, Dropping
  <2>2. Follows(label, then) /\ Kind(w, label, then)
    BY <1>1 DEF Follows, Kind, CallerLabels
  <2>3. /\ pc[w] = label /\ UNCHANGED <<row, peek>>
        /\ seen'[w] = IF then \in {"idle", "done"} THEN Created ELSE row
    BY <1>1, <2>1 DEF Read, Here, Rest, Keep, IInv, TypeOK
  <2>4. Permits(w, then) /\ Records(w, then)
    BY <2>1, <2>3 DEF Permits, Records, HarvestLabels
  <2>5. Ordinary(w, then)
    BY <1>1, <2>1, <2>2, <2>4, JumpShape
  <2> QED
    BY <2>5
<1>4. CASE HostStartsThread(w)
  BY <1>1, <1>4, PlainShape
  DEF HostStartsThread, Follows, Kind, CallerLabels, Watched
<1> QED
  BY <1>2, <1>3, <1>4

\* _worker_runner up to the callback.
LEMMA WorkerStartShape ==
  ASSUME IInv, NEW w \in Workers,
         \/ Check1(w) \/ CancelledFirst(w) \/ Queue(w) \/ Check2(w) \/ Run(w)
         \/ CallbackRaises(w)
  PROVE  \E then : Ordinary(w, then)
<1>1. w \in Actors
  BY DEF Actors
<1>2. {"CANCELLED", "QUEUED", "RUNNING"} \subseteq RunStates /\ "none" \in Verifications
  BY DEF RunStates, Verifications
<1>3. CASE Check1(w)
  BY <1>1, <1>3, PlainShape DEF Check1, Follows, Kind, CallerLabels, Watched
<1>4. CASE CancelledFirst(w)
  BY <1>1, <1>2, <1>4, WriteShape
  DEF CancelledFirst, Follows, Kind, CallerLabels, Watched, Target
<1>5. CASE Queue(w)
  BY <1>1, <1>2, <1>5, WriteShape DEF Queue, Follows, Kind, CallerLabels, Watched, Target
<1>6. CASE Check2(w)
  BY <1>1, <1>6, PlainShape DEF Check2, Follows, Kind, CallerLabels, Watched
<1>7. CASE Run(w)
  <2>1. at[w] \in Processes \cup {None}
    BY <1>1 DEF IInv, TypeOK
  <2>2. Ordinary(w, "w_exec") \/ Ordinary(w, "w_except")
    BY <1>1, <1>2, <1>7, <2>1, WriteAsShape
    DEF Run, Follows, Kind, CallerLabels, Watched, Target
  <2> QED
    BY <2>2
<1>8. CASE CallbackRaises(w)
  BY <1>1, <1>8, PlainShape DEF CallbackRaises, Follows, Kind, CallerLabels, Watched
<1> QED
  BY <1>3, <1>4, <1>5, <1>6, <1>7, <1>8

\* _worker_runner after the callback.
LEMMA WorkerResultShape ==
  ASSUME IInv, NEW w \in Workers,
         \/ CheckCancelled(w) \/ CancelRead(w) \/ ReadBeforeResult(w) \/ ChoosePayload(w)
         \/ AcceptCandidate(w) \/ AcceptRaises(w) \/ Except(w)
  PROVE  \E then : Ordinary(w, then)
<1>1. w \in Actors
  BY DEF Actors
<1>2. CASE CheckCancelled(w)
  <2> DEFINE then == IF event[w] THEN "w_cancelRead" ELSE "w_read"
  <2>1. Jump(w, "w_ret", then) /\ then \in {"w_cancelRead", "w_read"}
    BY <1>2 DEF CheckCancelled
  <2>2. Follows("w_ret", then) /\ Kind(w, "w_ret", then)
    BY <1>1, <2>1 DEF Follows, Kind, CallerLabels
  <2>3. Permits(w, then) /\ Records(w, then)
    BY <1>1, <2>1 DEF Jump, Here, Rest, Keep, IInv, TypeOK, Permits, Records, HarvestLabels
  <2> HIDE DEF then
  <2>4. Ordinary(w, then)
    BY <1>1, <2>1, <2>2, <2>3, JumpShape
  <2> QED
    BY <2>4
<1>3. CASE CancelRead(w)
  BY <1>1, <1>3, PlainShape DEF CancelRead, Follows, Kind, CallerLabels, Watched
<1>4. CASE ReadBeforeResult(w)
  <2>1. PICK then \in {"w_finally", "w_fail", "x_probe", "w_accept", "w_payload"} :
          /\ Read(w, "w_read", then)
          /\ then # "w_finally" => row.state \notin Dropping
    BY <1>4 DEF ReadBeforeResult
  <2>2. Follows("w_read", then) /\ Kind(w, "w_read", then)
    BY <1>1 DEF Follows, Kind, CallerLabels
  <2>3. pc[w] = "w_read" /\ UNCHANGED <<row, peek>> /\ seen'[w] = row
    BY <1>1, <2>1 DEF Read, Here, Rest, Keep, IInv, TypeOK
  <2>4. Permits(w, then) /\ Records(w, then)
    BY <2>1, <2>3 DEF Permits, Records, HarvestLabels
  <2>5. Ordinary(w, then)
    BY <1>1, <2>1, <2>2, <2>4, JumpShape
  <2> QED
    BY <2>5
<1>5. CASE ChoosePayload(w)
  <2>1. Ordinary(w, "w_verify")
    BY <1>1, <1>5, PayloadShape
    DEF ChoosePayload, Here, Follows, Kind, CallerLabels, Permits, HarvestLabels
  <2> QED
    BY <2>1
<1>6. CASE AcceptCandidate(w)
  <2>1. PICK then \in {"w_verify", "w_reject"} : Goto(w, then)
    BY <1>6 DEF AcceptCandidate
  <2>2. Ordinary(w, then)
    BY <1>1, <1>6, <2>1, PayloadShape
    DEF AcceptCandidate, Here, Follows, Kind, CallerLabels, Permits, HarvestLabels
  <2> QED
    BY <2>2
<1>7. CASE AcceptRaises(w)
  BY <1>1, <1>7, PlainShape DEF AcceptRaises, Follows, Kind, CallerLabels, Watched
<1>8. CASE Except(w)
  <2>1. PICK then \in {"w_finally", "w_exceptFail"} :
          /\ Read(w, "w_except", then)
          /\ then # "w_finally" => row.state \notin Dropping
    BY <1>8 DEF Except
  <2>2. Follows("w_except", then) /\ Kind(w, "w_except", then)
    BY <1>1 DEF Follows, Kind, CallerLabels
  <2>3. pc[w] = "w_except" /\ UNCHANGED <<row, peek>> /\ seen'[w] = row
    BY <1>1, <2>1 DEF Read, Here, Rest, Keep, IInv, TypeOK
  <2>4. Permits(w, then) /\ Records(w, then)
    BY <2>1, <2>3 DEF Permits, Records, HarvestLabels
  <2>5. Ordinary(w, then)
    BY <1>1, <2>1, <2>2, <2>4, JumpShape
  <2> QED
    BY <2>5
<1> QED
  BY <1>2, <1>3, <1>4, <1>5, <1>6, <1>7, <1>8

\* _worker_runner applying the result.
LEMMA WorkerApplyShape ==
  ASSUME IInv, NEW w \in Workers,
         \/ Reject(w) \/ RejectFail(w) \/ Verify(w) \/ Commit(w) \/ Complete(w)
         \/ Suspend(w) \/ NeedRepair(w) \/ Repair(w) \/ Fail(w) \/ ExceptFail(w)
  PROVE  \E then : Ordinary(w, then)
<1>1. w \in Actors /\ payload[w] \in Verifications
  BY DEF Actors, IInv, TypeOK
<1>2. /\ {"VERIFYING", "COMMITTING", "REPAIRING", "COMPLETE", "FAILED"} \subseteq RunStates
      /\ {"none", "failed"} \subseteq Verifications
  BY DEF RunStates, Verifications
<1>3. CASE Reject(w)
  BY <1>1, <1>2, <1>3, WriteShape
  DEF Reject, Follows, ApplyLabels, Kind, CallerLabels, Watched, Target
<1>4. CASE RejectFail(w)
  BY <1>1, <1>2, <1>4, WriteShape
  DEF RejectFail, Follows, ApplyLabels, Kind, CallerLabels, Watched, Target
<1>5. CASE Verify(w)
  <2>1. PICK then \in {"w_commit", "w_complete"} :
          Write(w, "w_verify", "VERIFYING", payload[w], then, "w_except")
    BY <1>5 DEF Verify
  <2> QED
    BY <1>1, <1>2, <2>1, WriteShape
    DEF Follows, ApplyLabels, Kind, CallerLabels, Watched, Target
<1>6. CASE Commit(w)
  BY <1>1, <1>2, <1>6, WriteShape
  DEF Commit, Follows, ApplyLabels, Kind, CallerLabels, Watched, Target
<1>7. CASE Complete(w)
  BY <1>1, <1>2, <1>7, WriteShape
  DEF Complete, Follows, ApplyLabels, Kind, CallerLabels, Watched, Target
<1>8. CASE Suspend(w)
  <2>1. /\ result[w].target \in RunStates /\ result[w].target \in SuspendedStates
        /\ Write(w, "w_fail", result[w].target, "none", "w_finally", "w_except")
    BY <1>8 DEF Suspend, SuspendedStates, RunStates
  <2> QED
    BY <1>1, <1>2, <2>1, WriteShape
    DEF Follows, ApplyLabels, Kind, CallerLabels, Watched, Target
<1>9. CASE NeedRepair(w)
  BY <1>1, <1>2, <1>9, WriteShape
  DEF NeedRepair, Follows, ApplyLabels, Kind, CallerLabels, Watched, Target, SuspendedStates
<1>10. CASE Repair(w)
  BY <1>1, <1>2, <1>10, WriteShape
  DEF Repair, Follows, ApplyLabels, Kind, CallerLabels, Watched, Target
<1>11. CASE Fail(w)
  <2>1. result[w] \in Results
    BY <1>1, <1>11 DEF Fail, Here, Fits, ResultLabels, IInv, TypeOK
  <2>2. result[w].verification \in Verifications
    BY <2>1, ConstantsAssumption DEF ConstantsAssumption, Verifications
  <2>3. /\ Target("w_fail", "FAILED") /\ "FAILED" \notin SuspendedStates
        /\ \A to \in {"w_finally", "w_except"} : Follows("w_fail", to) /\ Kind(w, "w_fail", to)
    BY <1>1 DEF Target, SuspendedStates, Follows, ApplyLabels, Kind, CallerLabels
  <2>4. Write(w, "w_fail", "FAILED", result[w].verification, "w_finally", "w_except")
    BY <1>11 DEF Fail
  <2> QED
    BY <1>1, <1>2, <2>2, <2>3, <2>4, WriteShape DEF Watched
<1>12. CASE ExceptFail(w)
  BY <1>1, <1>2, <1>12, WriteShape
  DEF ExceptFail, Follows, ApplyLabels, Kind, CallerLabels, Watched, Target
<1> QED
  BY <1>3, <1>4, <1>5, <1>6, <1>7, <1>8, <1>9, <1>10, <1>11, <1>12

\* Where a harvest ends, for the actor it ends for.
LEMMA HarvestEnd ==
  ASSUME NEW a \in Actors, NEW then, then \in {NotHarvested(a), Harvested(a), Finished(a)},
         NEW label \in HarvestLabels
  PROVE  /\ Follows(label, then) /\ Kind(a, label, then)
         /\ then \in {"w_fail", "w_finally", "m_queue", "m_interrupt", "done", "idle"}
         /\ then = "w_fail" => Handling(a)
<1>1. a \in Workers \/ a \in Callers
  BY DEF Actors
<1>2. Handling(a) => a \in Workers
  BY DEF Handling
<1>3. /\ then \in {"w_fail", "w_finally", "m_queue", "m_interrupt", "done", "idle"}
      /\ then \in {"w_fail", "w_finally"} => Handling(a)
      /\ then = "done" => a \in Workers
      /\ then = "idle" => a \in Callers
  BY <1>1 DEF NotHarvested, Harvested, Finished
<1> QED
  BY <1>2, <1>3 DEF Follows, Kind, HarvestLabels, CallerLabels

\* A harvest that ends, having written or not.
LEMMA HarvestEndsShape ==
  ASSUME IInv, NEW a \in Actors, NEW then, then \in {NotHarvested(a), Harvested(a)},
         HarvestEnds(a, then), pc[a] \in HarvestLabels \ {"x_probe"},
         UNCHANGED <<up, active, event, result, early>>,
         row' = row \/ Writes(a, then)
  PROVE  Ordinary(a, then)
<1>1. /\ Follows(pc[a], then) /\ Kind(a, pc[a], then)
      /\ then \in {"w_fail", "w_finally", "m_queue", "m_interrupt", "done", "idle"}
      /\ then = "w_fail" => Handling(a)
  BY HarvestEnd
<1>2. /\ seen' = [seen EXCEPT ![a] = IF then \in {"idle", "done"} THEN Created ELSE seen[a]]
      /\ peek' = [peek EXCEPT ![a] = Created]
      /\ Goto(a, then)
  BY DEF HarvestEnds, Keep
<1>3. Moves(a, then)
  BY <1>1, <1>2 DEF Moves, Goto, IInv, TypeOK
<1>4. Permits(a, then) /\ Records(a, then)
  BY <1>1, <1>2 DEF Permits, Records, HarvestLabels, IInv, TypeOK
<1> QED
  BY <1>1, <1>3, <1>4 DEF Ordinary, Refused, HarvestLabels

\* A harvest that goes on with `latest` as it is known now.
LEMMA HarvestGoesOn ==
  ASSUME IInv, NEW a \in Actors, NEW then \in {"x_verify", "x_settle"},
         pc[a] \in {"x_latest", "x_verify"}, Goto(a, then),
         peek' = [peek EXCEPT ![a] = row'],
         then = "x_settle" => row'.state = "VERIFYING",
         UNCHANGED <<up, active, event, seen, result, early>>,
         row' = row \/ Writes(a, then)
  PROVE  Ordinary(a, then)
<1>1. Follows(pc[a], then) /\ Kind(a, pc[a], then)
  BY DEF Follows, Kind, HarvestLabels, CallerLabels
<1>2. peek'[a] = row' /\ seen'[a] = seen[a]
  BY DEF IInv, TypeOK
<1>3. Moves(a, then)
  BY <1>1 DEF Moves, Goto, IInv, TypeOK
<1>4. Permits(a, then) /\ Records(a, then)
  BY <1>2 DEF Permits, Records, HarvestLabels
<1> QED
  BY <1>3, <1>4 DEF Ordinary, Refused

LEMMA HarvestShape ==
  ASSUME IInv, NEW a \in Actors, HarvestStep(a)
  PROVE  \E then : Ordinary(a, then)
<1>1. {"VERIFYING", "COMPLETE", "FAILED"} \subseteq RunStates /\ payload[a] \in Verifications
  BY DEF RunStates, IInv, TypeOK
<1>2. \A pid \in SelectedPids(peek[a]) : pid \in Processes \cup {None}
  BY DEF SelectedPids, IInv, TypeOK, Rows
<1>3. a \in Workers \/ a \in Callers
  BY DEF Actors
<1>4. CASE HarvestNothing(a) \/ HarvestRaises(a)
  <2>1. PICK then :
          /\ Jump(a, "x_probe", then)
          /\ Follows("x_probe", then) /\ Kind(a, "x_probe", then)
          /\ then \in {"w_fail", "m_queue", "m_interrupt", "done", "idle", "w_except", "w_finally"}
          /\ then = "w_fail" => Handling(a)
    <3>1. CASE HarvestNothing(a)
      BY <3>1, HarvestEnd DEF HarvestNothing, HarvestLabels
    <3>2. CASE HarvestRaises(a)
      <4>1. Handling(a) => Follows("x_probe", "w_except") /\ Kind(a, "x_probe", "w_except")
        BY DEF Handling, Follows, Kind, HarvestLabels, CallerLabels
      <4> QED
        BY <3>2, <4>1, HarvestEnd DEF HarvestRaises, HarvestLabels
    <3> QED
      BY <1>4, <3>1, <3>2
  <2>2. /\ pc[a] = "x_probe" /\ UNCHANGED <<row, peek>>
        /\ seen'[a] = IF then \in {"idle", "done"} THEN Created ELSE seen[a]
    BY <2>1 DEF Jump, Here, Rest, Keep, IInv, TypeOK
  <2>3. Permits(a, then) /\ Records(a, then)
    BY <2>1, <2>2 DEF Permits, Records, HarvestLabels
  <2>4. Ordinary(a, then)
    BY <2>1, <2>3, JumpShape
  <2> QED
    BY <2>4
<1>5. CASE HarvestJudges(a)
  <2>1. Ordinary(a, "x_latest")
    BY <1>5, PayloadShape
    DEF HarvestJudges, Here, Follows, Kind, CallerLabels, HarvestLabels, Permits
  <2> QED
    BY <2>1
<1>6. CASE HarvestLatest(a)
  <2>1. pc[a] = "x_latest"
    BY <1>6 DEF HarvestLatest, Here
  <2>2. CASE row.state \in TerminalStates
    <3>1. Ordinary(a, Harvested(a))
      BY <1>6, <2>1, <2>2, HarvestEndsShape DEF HarvestLatest, HarvestLabels
    <3> QED
      BY <3>1
  <2>3. CASE row.state \notin TerminalStates
    <3>1. Ordinary(a, "x_verify")
      BY <1>6, <2>1, <2>3, HarvestGoesOn DEF HarvestLatest
    <3> QED
      BY <3>1
  <2> QED
    BY <2>2, <2>3
<1>7. CASE HarvestVerify(a)
  <2>1. pc[a] = "x_verify" /\ Known(a) = peek[a] /\ Target(pc[a], "VERIFYING")
    BY <1>7 DEF HarvestVerify, Here, Known, HarvestLabels, Target
  <2>2. CASE CanWrite(peek[a], "VERIFYING", payload[a])
    <3>1. PICK pid \in SelectedPids(peek[a]) :
            /\ row' = Written("VERIFYING", payload[a], pid)
            /\ peek' = [peek EXCEPT ![a] = Written("VERIFYING", payload[a], pid)]
      BY <1>7, <2>2 DEF HarvestVerify
    <3>2. WritesAs(a, "x_settle", "VERIFYING", payload[a], pid)
      BY <2>1, <2>2, <3>1 DEF WritesAs
    <3>3. Writes(a, "x_settle")
      BY <1>1, <1>2, <3>2 DEF Writes
    <3>4. row'.state = "VERIFYING"
      BY <3>1 DEF Written
    <3>5. /\ peek' = [peek EXCEPT ![a] = row']
          /\ Goto(a, "x_settle") /\ UNCHANGED <<up, active, event, seen, result, early>>
      BY <1>7, <2>2, <3>1 DEF HarvestVerify
    <3>6. Ordinary(a, "x_settle")
      BY <2>1, <3>3, <3>4, <3>5, HarvestGoesOn
    <3> QED
      BY <3>6
  <2>3. CASE ~ CanWrite(peek[a], "VERIFYING", payload[a])
    <3>1. Ordinary(a, NotHarvested(a))
      BY <1>7, <2>1, <2>3, HarvestEndsShape DEF HarvestVerify, HarvestLabels
    <3> QED
      BY <3>1
  <2> QED
    BY <2>2, <2>3
<1>8. CASE HarvestSettle(a)
  <2>1. /\ pc[a] = "x_settle" /\ Known(a) = peek[a]
        /\ Target(pc[a], HarvestOutcome(a)) /\ HarvestOutcome(a) \in RunStates
    <3>1. pc[a] = "x_settle"
      BY <1>8 DEF HarvestSettle, Here
    <3>2. HarvestOutcome(a) \in {"COMPLETE", "FAILED"}
      BY DEF HarvestOutcome
    <3> QED
      BY <1>1, <3>1, <3>2 DEF Known, HarvestLabels, Target
  <2>2. CASE CanWrite(peek[a], HarvestOutcome(a), payload[a])
    <3>1. PICK pid \in SelectedPids(peek[a]) :
            row' = Written(HarvestOutcome(a), payload[a], pid)
      BY <1>8, <2>2 DEF HarvestSettle
    <3>2. WritesAs(a, Harvested(a), HarvestOutcome(a), payload[a], pid)
      BY <2>1, <2>2, <3>1 DEF WritesAs
    <3>3. Writes(a, Harvested(a))
      BY <1>1, <1>2, <2>1, <3>2 DEF Writes
    <3>4. Ordinary(a, Harvested(a))
      BY <1>8, <2>1, <2>2, <3>3, HarvestEndsShape DEF HarvestSettle, HarvestLabels
    <3> QED
      BY <3>4
  <2>3. CASE ~ CanWrite(peek[a], HarvestOutcome(a), payload[a])
    <3>1. Ordinary(a, NotHarvested(a))
      BY <1>8, <2>1, <2>3, HarvestEndsShape DEF HarvestSettle, HarvestLabels
    <3> QED
      BY <3>1
  <2> QED
    BY <2>2, <2>3
<1> QED
  BY <1>4, <1>5, <1>6, <1>7, <1>8 DEF HarvestStep

LEMMA MarkShape ==
  ASSUME IInv, NEW a \in Actors, MarkStep(a)
  PROVE  \E then : Ordinary(a, then)
<1>1. a \in Workers \/ a \in Callers
  BY DEF Actors
<1>2. {"QUEUED", "INTERRUPTED"} \subseteq RunStates /\ "none" \in Verifications
  BY DEF RunStates, Verifications
<1>3. CASE MarkQueue(a)
  BY <1>2, <1>3, WriteShape
  DEF MarkQueue, Follows, MarkLabels, Kind, CallerLabels, HarvestLabels, Watched, Target
<1>4. CASE MarkReread(a)
  BY <1>4, PlainShape
  DEF MarkReread, Follows, MarkLabels, Kind, CallerLabels, HarvestLabels, Watched
<1>5. CASE MarkInterrupt(a)
  <2>1. /\ Finished(a) \in {"done", "idle"}
        /\ Finished(a) = "idle" => a \in Callers
        /\ Finished(a) = "done" => a \in Workers
    BY <1>1 DEF Finished
  <2> QED
    BY <1>2, <1>5, <2>1, WriteShape
    DEF MarkInterrupt, Follows, MarkLabels, Kind, CallerLabels, HarvestLabels, Watched, Target
<1> QED
  BY <1>3, <1>4, <1>5 DEF MarkStep

\* run_start's failures, run_cancel and run_observe.
LEMMA StartShape ==
  ASSUME IInv, NEW c \in Callers,
         RecordPid(c) \/ SpawnFails(c) \/ BaselineFails(c) \/ StartFails(c)
  PROVE  \E then : Ordinary(c, then)
<1>1. c \in Actors
  BY DEF Actors
<1>2. "FAILED" \in RunStates /\ "none" \in Verifications
  BY DEF RunStates, Verifications
<1>3. CASE RecordPid(c)
  <2>1. /\ pc[c] = "s_pid" /\ Goto(c, "idle")
        /\ seen' = [seen EXCEPT ![c] = Created]
        /\ UNCHANGED <<up, active, event, result, early, peek>>
        /\ row' = [row EXCEPT !.pid = Host]
    BY <1>3 DEF RecordPid, Here, Rest, Keep
  <2>2. Moves(c, "idle")
    BY <1>1, <2>1 DEF Moves, Goto, Follows, Kind, CallerLabels, HarvestLabels, MarkLabels, IInv,
      TypeOK
  <2>3. Permits(c, "idle") /\ Records(c, "idle") /\ StoresHost(c)
    BY <1>1, <2>1 DEF Permits, Records, StoresHost, HarvestLabels, IInv, TypeOK
  <2>4. Ordinary(c, "idle")
    BY <2>1, <2>2, <2>3 DEF Ordinary
  <2> QED
    BY <2>4
<1>4. CASE SpawnFails(c)
  <2>1. PICK label \in {"s_spawn", "s_reserve", "s_pid"}, then \in {"idle", "s_fail"} :
          Read(c, label, then) /\ (then = "idle" => row.state \in TerminalStates)
    BY <1>4 DEF SpawnFails
  <2>2. Follows(label, then) /\ Kind(c, label, then)
    BY DEF Follows, Kind, CallerLabels
  <2>3. /\ pc[c] = label /\ UNCHANGED <<row, peek>>
        /\ seen'[c] = IF then \in {"idle", "done"} THEN Created ELSE row
    BY <1>1, <2>1 DEF Read, Here, Rest, Keep, IInv, TypeOK
  <2>4. Permits(c, then) /\ Records(c, then)
    BY <2>1, <2>3 DEF Permits, Records, HarvestLabels
  <2>5. Ordinary(c, then)
    BY <1>1, <2>1, <2>2, <2>4, JumpShape
  <2> QED
    BY <2>5
<1>5. CASE BaselineFails(c)
  BY <1>1, <1>5, PlainShape
  DEF BaselineFails, Follows, Kind, CallerLabels, Watched
<1>6. CASE StartFails(c)
  BY <1>1, <1>2, <1>6, WriteShape
  DEF StartFails, Follows, Kind, CallerLabels, Watched, Target
<1> QED
  BY <1>3, <1>4, <1>5, <1>6

LEMMA CancelShape ==
  ASSUME IInv, NEW c \in Callers,
         CancelFirst(c) \/ CancelTry(c) \/ CancelReread(c) \/ CancelRetry(c)
  PROVE  \E then : Ordinary(c, then)
<1>1. c \in Actors
  BY DEF Actors
<1>2. "CANCELLED" \in RunStates /\ "none" \in Verifications
  BY DEF RunStates, Verifications
<1>3. CASE CancelFirst(c) \/ CancelReread(c)
  <2>1. PICK label \in {"c_read", "c_reread"}, then \in {"idle", "c_try", "c_retry"} :
          /\ Read(c, label, then)
          /\ then # "idle" => row.state \notin TerminalStates
    BY <1>3 DEF CancelFirst, CancelReread
  <2>2. Follows(label, then) /\ Kind(c, label, then)
    BY DEF Follows, CancelLabels, Kind, CallerLabels
  <2>3. /\ pc[c] = label /\ UNCHANGED <<row, peek>>
        /\ seen'[c] = IF then \in {"idle", "done"} THEN Created ELSE row
    BY <1>1, <2>1 DEF Read, Here, Rest, Keep, IInv, TypeOK
  <2>4. Permits(c, then) /\ Records(c, then)
    BY <2>1, <2>3 DEF Permits, Records, HarvestLabels
  <2>5. Ordinary(c, then)
    BY <1>1, <2>1, <2>2, <2>4, JumpShape
  <2> QED
    BY <2>5
<1>4. CASE CancelTry(c)
  BY <1>1, <1>2, <1>4, WriteShape
  DEF CancelTry, Follows, CancelLabels, Kind, CallerLabels, Watched, Target
<1>5. CASE CancelRetry(c)
  BY <1>1, <1>2, <1>5, WriteShape
  DEF CancelRetry, Follows, CancelLabels, Kind, CallerLabels, Watched, Target
<1> QED
  BY <1>3, <1>4, <1>5

LEMMA ObserveShape ==
  ASSUME IInv, NEW c \in Callers, ObserveStep(c)
  PROVE  \E then : Ordinary(c, then)
<1>1. c \in Actors
  BY DEF Actors
<1>2. CASE ObserveRead(c)
  <2>1. PICK then \in {"idle", "o_probe"} :
          /\ Read(c, "o_read", then)
          /\ then # "idle" => row.state \notin Dropping
    BY <1>2 DEF ObserveRead
  <2>2. Follows("o_read", then) /\ Kind(c, "o_read", then)
    BY DEF Follows, Kind, CallerLabels
  <2>3. /\ pc[c] = "o_read" /\ UNCHANGED <<row, peek>>
        /\ seen'[c] = IF then \in {"idle", "done"} THEN Created ELSE row
    BY <1>1, <2>1 DEF Read, Here, Rest, Keep, IInv, TypeOK
  <2>4. Permits(c, then) /\ Records(c, then)
    BY <2>1, <2>3 DEF Permits, Records, HarvestLabels
  <2>5. Ordinary(c, then)
    BY <1>1, <2>1, <2>2, <2>4, JumpShape
  <2> QED
    BY <2>5
<1>3. CASE ObserveStale(c) \/ ObserveOrphan(c) \/ ObserveHealthy(c)
  <2>1. PICK then \in {"idle", "x_probe"} :
          /\ Jump(c, "o_probe", then)
          /\ then # "idle" => (StaleBeats /\ ~ InProcess) \/ Orphaned(c)
    BY <1>3 DEF ObserveStale, ObserveOrphan, ObserveHealthy
  <2>2. Follows("o_probe", then) /\ Kind(c, "o_probe", then)
    BY DEF Follows, Kind, CallerLabels
  <2>3. /\ pc[c] = "o_probe" /\ UNCHANGED <<row, peek>>
        /\ seen'[c] = IF then \in {"idle", "done"} THEN Created ELSE seen[c]
    BY <1>1, <2>1 DEF Jump, Here, Rest, Keep, IInv, TypeOK
  <2>4. Permits(c, then) /\ Records(c, then)
    BY <2>1, <2>3 DEF Permits, Records, HarvestLabels
  <2>5. Ordinary(c, then)
    BY <1>1, <2>1, <2>2, <2>4, JumpShape
  <2> QED
    BY <2>5
<1> QED
  BY <1>2, <1>3 DEF ObserveStep

\* run_resume and the operations of the RecoveryOrchestrator.
LEMMA ResumeShape ==
  ASSUME IInv, NEW c \in Callers,
         \/ ResumeStatus(c) \/ ResumeIdle(c) \/ ResumeRead(c) \/ ResumeLoad(c)
         \/ ResumeReady(c) \/ ResumeQueue(c) \/ ResumeNothing(c)
  PROVE  \E then : Ordinary(c, then)
<1>1. c \in Actors
  BY DEF Actors
<1>2. {"QUEUED", "RECOVERY_READY"} \subseteq RunStates /\ "none" \in Verifications
  BY DEF RunStates, Verifications
<1>3. CASE ResumeStatus(c) \/ ResumeIdle(c)
  <2>1. PICK label \in {"r_status", "r_idle"}, then \in {"idle", "r_idle", "r_read"} :
          /\ Jump(c, label, then)
          /\ label = "r_status" => then # "r_read"
          /\ label = "r_status" /\ then # "idle" => row.state = "ACCOUNT_SWITCH_REQUIRED"
          /\ label = "r_idle" => then # "r_idle"
          /\ label = "r_idle" /\ then # "idle" => active[at[c]] = None
    BY <1>3 DEF ResumeStatus, ResumeIdle
  <2>2. Follows(label, then) /\ Kind(c, label, then)
    BY <2>1 DEF Follows, ResumeLabels, Kind, CallerLabels
  <2>3. /\ pc[c] = label /\ UNCHANGED <<row, peek>>
        /\ seen'[c] = IF then \in {"idle", "done"} THEN Created ELSE seen[c]
    BY <1>1, <2>1 DEF Jump, Here, Rest, Keep, IInv, TypeOK
  <2>4. Permits(c, then) /\ Records(c, then)
    BY <2>1, <2>3 DEF Permits, Records, HarvestLabels
  <2>5. Ordinary(c, then)
    BY <1>1, <2>1, <2>2, <2>4, JumpShape
  <2> QED
    BY <2>5
<1>4. CASE ResumeRead(c)
  BY <1>1, <1>4, PlainShape
  DEF ResumeRead, Follows, ResumeLabels, Kind, CallerLabels, Watched
<1>5. CASE ResumeLoad(c)
  BY <1>1, <1>5, PlainShape
  DEF ResumeLoad, Follows, ResumeLabels, Kind, CallerLabels, Watched
<1>6. CASE ResumeReady(c)
  BY <1>1, <1>2, <1>6, WriteShape
  DEF ResumeReady, Follows, ResumeLabels, Kind, CallerLabels, Watched, Target
<1>7. CASE ResumeQueue(c)
  BY <1>1, <1>2, <1>7, WriteShape
  DEF ResumeQueue, Follows, ResumeLabels, Kind, CallerLabels, Watched, Target
<1>8. CASE ResumeNothing(c)
  BY <1>1, <1>8, PlainShape
  DEF ResumeNothing, Follows, ResumeLabels, Kind, CallerLabels, Watched
<1> QED
  BY <1>3, <1>4, <1>5, <1>6, <1>7, <1>8

LEMMA RecoveryShape ==
  ASSUME IInv, NEW c \in Callers, RecoveryStep(c)
  PROVE  \E then : Ordinary(c, then)
<1>1. c \in Actors
  BY DEF Actors
<1>2. /\ {"QUEUED", "INTERRUPTED", "RECOVERY_READY", "FAILED", "ACCOUNT_SWITCH_REQUIRED"}
           \subseteq RunStates
      /\ "none" \in Verifications
  BY DEF RunStates, Verifications
<1>3. Unmarked(c) \in {"idle", "r_spawn"} /\ Switched(c) \subseteq {"idle", "r_spawn"}
  BY DEF Unmarked, Switched
<1>4. CASE Diagnose(c)
  <2>1. /\ pc[c] = "k_diagnose" /\ pc' = [pc EXCEPT ![c] = "k_read"]
        /\ UNCHANGED <<row, at, seen, call, up, active, event, peek, result, early>>
    BY <1>4 DEF Diagnose, Here, Rest
  <2>2. Moves(c, "k_read")
    BY <1>1, <2>1 DEF Moves, Follows, ResumeLabels, Kind, CallerLabels
  <2>3. Permits(c, "k_read") /\ Records(c, "k_read")
    BY <2>1 DEF Permits, Records, HarvestLabels
  <2>4. Ordinary(c, "k_read")
    BY <2>1, <2>2, <2>3 DEF Ordinary, Refused
  <2> QED
    BY <2>4
<1>5. CASE MarkNothing(c)
  BY <1>1, <1>3, <1>5, PlainShape
  DEF MarkNothing, Follows, ResumeLabels, Kind, CallerLabels, Watched
<1>6. CASE MarkAlready(c)
  BY <1>1, <1>6, PlainShape
  DEF MarkAlready, Follows, ResumeLabels, Kind, CallerLabels, Watched
<1>7. CASE MarkSwitched(c)
  BY <1>1, <1>3, <1>7, PlainShape
  DEF MarkSwitched, Follows, ResumeLabels, Kind, CallerLabels, Watched
<1>8. CASE MarkRead(c)
  BY <1>1, <1>8, PlainShape
  DEF MarkRead, Follows, ResumeLabels, Kind, CallerLabels, Watched
<1>9. CASE MarkSwitch(c)
  BY <1>1, <1>2, <1>3, <1>9, WriteShape
  DEF MarkSwitch, Follows, ResumeLabels, Kind, CallerLabels, Watched, Target
<1>10. CASE MarkQueued(c)
  BY <1>1, <1>2, <1>10, WriteShape
  DEF MarkQueued, Follows, ResumeLabels, Kind, CallerLabels, Watched, Target
<1>11. CASE MarkInterrupted(c)
  BY <1>1, <1>2, <1>11, WriteShape
  DEF MarkInterrupted, Follows, ResumeLabels, Kind, CallerLabels, Watched, Target
<1>12. CASE ReadyRead(c) \/ CorruptRead(c)
  <2>1. PICK label \in {"e_read", "f_read"}, then \in {"idle", "e_ready", "f_fail"} :
          /\ Read(c, label, then)
          /\ label = "e_read" => then # "f_fail"
          /\ label = "f_read" => then # "e_ready"
    BY <1>12 DEF ReadyRead, CorruptRead
  <2>2. Follows(label, then) /\ Kind(c, label, then)
    BY <2>1 DEF Follows, Kind, CallerLabels
  <2>3. /\ pc[c] = label /\ UNCHANGED <<row, peek>>
        /\ seen'[c] = IF then \in {"idle", "done"} THEN Created ELSE row
    BY <1>1, <2>1 DEF Read, Here, Rest, Keep, IInv, TypeOK
  <2>4. Permits(c, then) /\ Records(c, then)
    BY <2>1, <2>3 DEF Permits, Records, HarvestLabels
  <2>5. Ordinary(c, then)
    BY <1>1, <2>1, <2>2, <2>4, JumpShape
  <2> QED
    BY <2>5
<1>13. CASE ReadyWrite(c)
  BY <1>1, <1>2, <1>13, WriteShape
  DEF ReadyWrite, Follows, Kind, CallerLabels, Watched, Target
<1>14. CASE CorruptFail(c)
  BY <1>1, <1>2, <1>14, WriteShape
  DEF CorruptFail, Follows, Kind, CallerLabels, Watched, Target
<1> QED
  BY <1>4, <1>5, <1>6, <1>7, <1>8, <1>9, <1>10, <1>11, <1>12, <1>13, <1>14
  DEF RecoveryStep

\* Every step is an ordinary one of some actor, or a special one.
LEMMA Shape ==
  ASSUME IInv, Next
  PROVE  Special \/ \E a \in Actors : \E then : Ordinary(a, then)
<1>1. \A w \in Workers : w \in Actors
  BY DEF Actors
<1>2. \A c \in Callers : c \in Actors
  BY DEF Actors
<1>3. ASSUME NEW w \in Workers, HostStep(w) \/ WorkerStep(w) \/ CallbackStep(w)
      PROVE  Special \/ \E then : Ordinary(w, then)
  BY <1>3, HostShape, WorkerStartShape, WorkerResultShape, WorkerApplyShape
  DEF HostStep, WorkerStep, CallbackStep, Special
<1>4. ASSUME NEW c \in Callers, BeginStep(c) \/ CallStep(c)
      PROVE  Special \/ \E then : Ordinary(c, then)
  BY <1>4, StartShape, CancelShape, ObserveShape, ResumeShape, RecoveryShape
  DEF CallStep, StartStep, CancelStep, ResumeStep, Special
<1>5. ASSUME NEW a \in Actors, HarvestStep(a) \/ MarkStep(a)
      PROVE  \E then : Ordinary(a, then)
  BY <1>5, HarvestShape, MarkShape
<1> QED
  BY <1>1, <1>2, <1>3, <1>4, <1>5 DEF Next, Special

-----------------------------------------------------------------------------
(* Who is where: actors keep to their part of the code and their process.     *)

\* A caller at the label is inside an operation of the kind.
Belongs(label, kind) ==
  \/ kind = "start" /\ label \in {"s_spawn", "s_reserve", "s_pid", "s_fail", "p_start"}
  \/ kind = "cancel" /\ label \in CancelLabels
  \/ kind = "observe" /\ label \in {"o_read", "o_probe"} \cup HarvestLabels \cup MarkLabels
  \/ kind = "resume" /\ label \in {"r_status", "p_start"} \cup ResumeLabels
  \/ kind \in {"recover", "mark"} /\ label \in {"p_start"} \cup ResumeLabels
  \/ kind = "ready" /\ label \in {"e_read", "e_ready"}
  \/ kind = "corrupt" /\ label \in {"f_read", "f_fail"}

\* A caller is idle, or in a server inside an operation that callers may start.
CallerInPlace(c) ==
  IF pc[c] = "idle" THEN call[c] = "none" /\ at[c] = None
  ELSE /\ at[c] \in Servers
       /\ Belongs(pc[c], call[c])
       /\ IF call[c] = "start" THEN c = Launcher ELSE call[c] \in CallKinds
       /\ call[c] = "resume" => at[c] \in Resumers

\* A worker is in a process, or not born, or dead.
WorkerInPlace(w) ==
  /\ pc[w] \notin CallerLabels \cup {"idle"}
  /\ pc[w] \in {"h_wait", "h_claim", "h_spawn"} => at[w] = Host
  /\ pc[w] \notin {"unborn", "dead"} => at[w] \in Processes
  /\ pc[w] = "unborn" => at[w] = None

InPlace ==
  /\ \A c \in Callers : CallerInPlace(c)
  /\ \A w \in Workers : WorkerInPlace(w)

LEMMA PlaceOrdinary ==
  ASSUME IInv, InPlace, NEW a \in Actors, NEW then, Ordinary(a, then)
  PROVE  InPlace'
<1>1. /\ Follows(pc[a], then) /\ Kind(a, pc[a], then)
      /\ pc' = [pc EXCEPT ![a] = then]
      /\ at' = IF then = "idle" THEN [at EXCEPT ![a] = None] ELSE at
      /\ call' = IF then = "idle" THEN [call EXCEPT ![a] = "none"] ELSE call
  BY DEF Ordinary, Moves
<1>2. then = "idle" => a \in Callers
  BY <1>1 DEF Kind
<1>3. ASSUME NEW c \in Callers PROVE CallerInPlace(c)'
  <2>1. c \in Actors /\ CallerInPlace(c)
    BY <1>3 DEF Actors, InPlace
  <2>2. CASE c # a
    BY <1>1, <1>2, <2>1, <2>2 DEF CallerInPlace, IInv, TypeOK
  <2>3. CASE c = a /\ then = "idle"
    BY <1>1, <2>1, <2>3 DEF CallerInPlace, IInv, TypeOK
  <2>4. CASE c = a /\ then # "idle"
    <3>1. pc'[c] = then /\ at'[c] = at[c] /\ call'[c] = call[c]
      BY <1>1, <2>1, <2>4 DEF IInv, TypeOK
    <3>2. pc[c] # "idle"
      BY <1>1, <2>4
      DEF Follows, ApplyLabels, HarvestLabels, MarkLabels, ResumeLabels, CancelLabels
    <3>3. c \notin Workers
      BY <1>3, WorkerIsNoCaller
    <3>4. Belongs(then, call[c])
      <4>1. Belongs(pc[c], call[c])
        BY <2>1, <3>2 DEF CallerInPlace
      <4>2. then \notin {"w_fail", "w_except", "w_finally", "done", "idle"}
        BY <1>1, <2>4, <3>3 DEF Kind
      <4> QED
        BY <1>1, <2>4, <4>1, <4>2
        DEF Follows, Belongs, ApplyLabels, HarvestLabels, MarkLabels, ResumeLabels, CancelLabels
    <3> QED
      BY <2>1, <2>4, <3>1, <3>2, <3>4 DEF CallerInPlace
  <2> QED
    BY <2>2, <2>3, <2>4
<1>4. ASSUME NEW w \in Workers PROVE WorkerInPlace(w)'
  <2>1. w \in Actors /\ WorkerInPlace(w) /\ w \notin Callers
    BY <1>4, WorkerIsNoCaller DEF InPlace
  <2>2. CASE w # a
    BY <1>1, <1>2, <2>1, <2>2 DEF WorkerInPlace, IInv, TypeOK
  <2>3. CASE w = a
    <3>1. pc'[w] = then /\ at'[w] = at[w] /\ then # "idle"
      BY <1>1, <1>2, <2>1, <2>3 DEF IInv, TypeOK
    <3>2. pc[w] \notin CallerLabels \cup {"unborn", "dead"} /\ then \notin CallerLabels
      BY <1>1, <2>1, <2>3
      DEF WorkerInPlace, Follows, ApplyLabels, HarvestLabels, MarkLabels, ResumeLabels,
          CancelLabels, CallerLabels
    <3>3. then = "h_spawn" => pc[w] = "h_claim"
      BY <1>1, <2>3
      DEF Follows, ApplyLabels, HarvestLabels, MarkLabels, ResumeLabels, CancelLabels
    <3>4. then \notin {"h_wait", "h_claim", "unborn"}
      BY <1>1, <2>3
      DEF Follows, ApplyLabels, HarvestLabels, MarkLabels, ResumeLabels, CancelLabels
    <3> QED
      BY <2>1, <3>1, <3>2, <3>3, <3>4 DEF WorkerInPlace
  <2> QED
    BY <2>2, <2>3
<1> QED
  BY <1>3, <1>4 DEF InPlace

\* Where an operation of the kind begins.
BeginLabels == {"c_signal", "o_read", "r_status", "r_read", "k_diagnose", "e_read", "f_read"}
Begins(kind, label) ==
  \/ kind = "cancel" /\ label = "c_signal"
  \/ kind = "observe" /\ label = "o_read"
  \/ kind = "resume" /\ label = "r_status"
  \/ kind = "recover" /\ label = "r_read"
  \/ kind = "mark" /\ label = "k_diagnose"
  \/ kind = "ready" /\ label = "e_read"
  \/ kind = "corrupt" /\ label = "f_read"

LEMMA BeginShape ==
  ASSUME NEW c \in Callers, BeginStep(c)
  PROVE  \E kind \in CallKinds, p \in Servers, label \in BeginLabels :
           /\ Begins(kind, label)
           /\ Begin(c, kind, p, label)
           /\ kind = "resume" =>
                /\ p \in Resumers
                /\ \A d \in Callers : ~ (at[d] = p /\ call[d] = "resume")
<1>1. \A kind, p, label : Begin(c, kind, p, label) => kind \in CallKinds
  BY DEF Begin
<1>2. CASE BeginCancel(c)
  BY <1>1, <1>2 DEF BeginCancel, Begins, BeginLabels
<1>3. CASE BeginObserve(c)
  BY <1>1, <1>3 DEF BeginObserve, Begins, BeginLabels
<1>4. CASE BeginResume(c)
  <2>1. Resumers \subseteq Servers
    BY ConstantsAssumption DEF ConstantsAssumption
  <2> QED
    BY <1>1, <1>4, <2>1 DEF BeginResume, Begins, BeginLabels
<1>5. CASE BeginRecover(c)
  BY <1>1, <1>5 DEF BeginRecover, Begins, BeginLabels
<1>6. CASE BeginMark(c)
  BY <1>1, <1>6 DEF BeginMark, Begins, BeginLabels
<1>7. CASE BeginReady(c)
  BY <1>1, <1>7 DEF BeginReady, Begins, BeginLabels
<1>8. CASE BeginCorrupt(c)
  BY <1>1, <1>8 DEF BeginCorrupt, Begins, BeginLabels
<1> QED
  BY <1>2, <1>3, <1>4, <1>5, <1>6, <1>7, <1>8 DEF BeginStep

LEMMA PlaceSpecial ==
  ASSUME IInv, InPlace, Special
  PROVE  InPlace'
<1>1. /\ \A w \in Workers : w \in Actors /\ w \notin Callers
      /\ \A c \in Callers : c \in Actors /\ c \notin Workers
      /\ Servers \subseteq Processes /\ Host \in Processes
  BY ConstantsAssumption DEF ConstantsAssumption, Actors, Processes
<1>2. ASSUME NEW w \in Workers, CallbackReturns(w)
      PROVE  InPlace'
  <2>1. pc[w] = "w_exec" /\ pc' = [pc EXCEPT ![w] = "w_ret"] /\ UNCHANGED <<at, call>>
    BY <1>2 DEF CallbackReturns, Here, Goto
  <2> QED
    BY <1>1, <2>1 DEF InPlace, CallerInPlace, WorkerInPlace, CallerLabels, IInv, TypeOK
<1>3. ASSUME NEW w \in Workers, Finally(w)
      PROVE  InPlace'
  <2>1. pc[w] = "w_finally" /\ pc' = [pc EXCEPT ![w] = "done"] /\ UNCHANGED <<at, call>>
    BY <1>3 DEF Finally, Here, Goto
  <2> QED
    BY <1>1, <2>1 DEF InPlace, CallerInPlace, WorkerInPlace, CallerLabels, IInv, TypeOK
<1>4. ASSUME NEW w \in Workers, HostSpawns(w)
      PROVE  InPlace'
  <2>1. pc[w] = "h_spawn" /\ pc' = [pc EXCEPT ![w] = "born"] /\ UNCHANGED <<at, call>>
    BY <1>4 DEF HostSpawns, Here, Goto
  <2> QED
    BY <1>1, <2>1 DEF InPlace, CallerInPlace, WorkerInPlace, CallerLabels, IInv, TypeOK
<1>5. ASSUME NEW w \in Workers, HostExits(w)
      PROVE  InPlace'
  BY <1>5 DEF HostExits, InPlace, CallerInPlace, WorkerInPlace
<1>6. ASSUME NEW c \in Callers, Signal(c)
      PROVE  InPlace'
  <2>1. pc[c] = "c_signal" /\ pc' = [pc EXCEPT ![c] = "c_read"] /\ UNCHANGED <<at, call>>
    BY <1>6 DEF Signal, Here, Goto
  <2> QED
    BY <1>1, <2>1
    DEF InPlace, CallerInPlace, WorkerInPlace, Belongs, CancelLabels, HarvestLabels, MarkLabels,
        ResumeLabels, IInv, TypeOK
<1>7. ASSUME NEW c \in Callers, BeginStep(c)
      PROVE  InPlace'
  <2>1. PICK kind \in CallKinds, p \in Servers, label \in BeginLabels :
          /\ Begins(kind, label)
          /\ Begin(c, kind, p, label)
          /\ kind = "resume" => p \in Resumers
    BY <1>7, BeginShape
  <2>3. Belongs(label, kind) /\ label # "idle" /\ kind # "start"
    BY <2>1 DEF Begins, Belongs, CancelLabels, ResumeLabels
  <2>2. /\ pc' = [pc EXCEPT ![c] = label]
        /\ at' = [at EXCEPT ![c] = p]
        /\ call' = [call EXCEPT ![c] = kind]
        /\ kind \in CallKinds
    BY <2>1 DEF Begin
  <2> QED
    BY <1>1, <2>1, <2>2, <2>3 DEF InPlace, CallerInPlace, WorkerInPlace, IInv, TypeOK
<1>8. ASSUME NEW c \in Callers, SpawnInProcess(c) \/ ResumeSpawn(c)
      PROVE  InPlace'
  <2>1. PICK w \in Workers :
          /\ pc[c] \in {"s_spawn", "r_spawn"}
          /\ pc[w] = "unborn"
          /\ pc' = [pc EXCEPT ![w] = "born", ![c] = "p_start"]
          /\ at' = [at EXCEPT ![w] = at[c]]
          /\ UNCHANGED call
    BY <1>8 DEF SpawnInProcess, ResumeSpawn, SpawnHere, Here
  <2>2. CallerInPlace(c) /\ Belongs("p_start", call[c])
    BY <2>1
    DEF InPlace, CallerInPlace, Belongs, CancelLabels, HarvestLabels, MarkLabels, ResumeLabels
  <2> QED
    BY <1>1, <2>1, <2>2
    DEF InPlace, CallerInPlace, WorkerInPlace, CallerLabels, IInv, TypeOK
<1>9. ASSUME NEW c \in Callers, StartThread(c)
      PROVE  InPlace'
  <2>1. PICK w \in Workers :
          /\ pc[w] = "born"
          /\ pc' = [pc EXCEPT ![w] = "w_check1", ![c] = "idle"]
          /\ at' = [at EXCEPT ![c] = None]
          /\ call' = [call EXCEPT ![c] = "none"]
    BY <1>9 DEF StartThread
  <2> QED
    BY <1>1, <2>1
    DEF InPlace, CallerInPlace, WorkerInPlace, CallerLabels, IInv, TypeOK
<1>10. ASSUME NEW c \in Callers, SpawnHost(c)
       PROVE  InPlace'
  <2>1. PICK w \in Workers :
          /\ pc[c] = "s_spawn"
          /\ pc' = [pc EXCEPT ![w] = "h_wait", ![c] = "s_reserve"]
          /\ at' = [at EXCEPT ![w] = Host]
          /\ UNCHANGED call
    BY <1>10 DEF SpawnHost, Here
  <2>2. CallerInPlace(c) /\ Belongs("s_reserve", call[c])
    BY <2>1
    DEF InPlace, CallerInPlace, Belongs, CancelLabels, HarvestLabels, MarkLabels, ResumeLabels
  <2> QED
    BY <1>1, <2>1, <2>2
    DEF InPlace, CallerInPlace, WorkerInPlace, CallerLabels, IInv, TypeOK
<1>11. ASSUME NEW c \in Callers, Reserve(c)
       PROVE  InPlace'
  <2>1. /\ pc[c] = "s_reserve"
        /\ \A a \in Actors : pc'[a] = IF a = c THEN "s_pid"
                                      ELSE IF pc[a] = "h_wait" THEN "h_claim" ELSE pc[a]
        /\ UNCHANGED <<at, call>>
    BY <1>11 DEF Reserve, Here
  <2>2. CallerInPlace(c) /\ Belongs("s_pid", call[c])
    BY <2>1
    DEF InPlace, CallerInPlace, Belongs, CancelLabels, HarvestLabels, MarkLabels, ResumeLabels
  <2>3. \A d \in Callers : d # c => pc'[d] = pc[d]
    BY <1>1, <2>1
    DEF InPlace, CallerInPlace, Belongs, CancelLabels, HarvestLabels, MarkLabels, ResumeLabels
  <2> QED
    BY <1>1, <2>1, <2>2, <2>3
    DEF InPlace, CallerInPlace, WorkerInPlace, CallerLabels
<1>12. ASSUME NEW p \in Processes, Crash(p)
       PROVE  InPlace'
  <2>1. ASSUME NEW c \in Callers
        PROVE  CallerInPlace(c)'
    BY <1>1, <1>12, <2>1 DEF Crash, InPlace, CallerInPlace, IInv, TypeOK
  <2>2. ASSUME NEW w \in Workers
        PROVE  WorkerInPlace(w)'
    BY <1>1, <1>12, <2>2 DEF Crash, InPlace, WorkerInPlace, CallerLabels, IInv, TypeOK
  <2> QED
    BY <2>1, <2>2 DEF InPlace
<1> QED
  BY <1>2, <1>3, <1>4, <1>5, <1>6, <1>7, <1>8, <1>9, <1>10, <1>11, <1>12 DEF Special

\* All of the above, of every behaviour.
Grounded == IInv /\ InPlace

LEMMA GroundedAlways == Spec => []Grounded
<1>1. Init => InPlace
  <2> SUFFICES ASSUME Init PROVE InPlace
    OBVIOUS
  <2>1. PICK p \in Servers : at = [a \in Actors |-> IF a = Launcher THEN p ELSE None]
    BY DEF Init
  <2>2. Launcher \in Callers /\ Workers \cap Callers = {}
    BY ConstantsAssumption DEF ConstantsAssumption
  <2> QED
    BY <2>1, <2>2
    DEF Init, InPlace, CallerInPlace, WorkerInPlace, Belongs, Actors, CallerLabels
<1>2. IInv /\ InPlace /\ [Next]_vars => InPlace'
  <2>1. CASE UNCHANGED vars
    BY <2>1 DEF vars, InPlace, CallerInPlace, WorkerInPlace
  <2> QED
    BY <2>1, Shape, PlaceOrdinary, PlaceSpecial
<1> QED
  BY <1>1, <1>2, Invariance, PTL DEF Spec, Grounded
-----------------------------------------------------------------------------
(* A cancelled execution never applies its result.                           *)

\* Where an execution may stand that was cancelled before its callback returned.
Cancellable ==
  {"born", "w_check1", "w_queue", "w_check2", "w_run", "w_exec", "w_ret", "w_cancelRead",
   "w_cancelled", "w_except", "w_exceptFail", "w_finally", "done", "dead"}

\* A registered execution without a result is before its callback's return or on its way
\* out; a cancelled one still carries the event, and has not passed the check of it.
CancelInvariant ==
  /\ \A p \in Processes, w \in Workers :
       active[p] = w /\ result[w] = None => pc[w] \in Cancellable
  /\ \A w \in Workers : early[w] => event[w] /\ pc[w] \in Cancellable

LEMMA CancelOrdinary ==
  ASSUME IInv, CancelInvariant, NEW a \in Actors, NEW then, Ordinary(a, then)
  PROVE  CancelInvariant'
<1>1. /\ \A w \in Workers : pc'[w] = IF w = a THEN then ELSE pc[w]
      /\ Follows(pc[a], then)
      /\ pc[a] = "w_ret" /\ event[a] => then = "w_cancelRead"
      /\ UNCHANGED <<active, event, result, early>>
  BY DEF Ordinary, Moves, Permits, IInv, TypeOK, Actors
<1>2. a \in Workers /\ pc[a] = "w_ret" => result[a] # None
  BY DEF IInv, Fits, ResultLabels
<1>3. pc[a] \in Cancellable => then \in Cancellable \/ (pc[a] = "w_ret" /\ then = "w_read")
  BY <1>1 DEF Follows, Cancellable, ApplyLabels, HarvestLabels, MarkLabels, ResumeLabels,
    CancelLabels
<1> QED
  BY <1>1, <1>2, <1>3 DEF CancelInvariant

LEMMA CancelSpecial ==
  ASSUME Grounded, CancelInvariant, Special
  PROVE  CancelInvariant'
<1>1. /\ \A w \in Workers : w \in Actors /\ w \notin Callers
      /\ None \notin Workers
      /\ {"born", "w_check1", "w_ret", "done", "dead"} \subseteq Cancellable
      /\ "unborn" \notin Cancellable /\ "h_wait" \notin Cancellable
  BY ConstantsAssumption DEF ConstantsAssumption, Actors, Cancellable
<1>2. ASSUME NEW w \in Workers, CallbackReturns(w)
      PROVE  CancelInvariant'
  <2>1. PICK r \in Results : result' = [result EXCEPT ![w] = r]
    BY <1>2 DEF CallbackReturns
  <2>2. r # None
    BY ConstantsAssumption DEF ConstantsAssumption
  <2>3. pc' = [pc EXCEPT ![w] = "w_ret"] /\ UNCHANGED <<active, event, early>>
    BY <1>2 DEF CallbackReturns, Goto
  <2> QED
    BY <1>1, <2>1, <2>2, <2>3 DEF CancelInvariant, Grounded, IInv, TypeOK
<1>3. ASSUME NEW w \in Workers, Finally(w)
      PROVE  CancelInvariant'
  <2>1. /\ pc' = [pc EXCEPT ![w] = "done"]
        /\ active' = [active EXCEPT ![at[w]] = None]
        /\ event' = [event EXCEPT ![w] = FALSE]
        /\ result' = [result EXCEPT ![w] = None]
        /\ early' = [early EXCEPT ![w] = FALSE]
    BY <1>3 DEF Finally, Goto
  <2> QED
    BY <1>1, <2>1 DEF CancelInvariant, Grounded, IInv, TypeOK
<1>4. ASSUME NEW w \in Workers, HostSpawns(w)
      PROVE  CancelInvariant'
  <2>1. /\ pc' = [pc EXCEPT ![w] = "born"]
        /\ active' = [active EXCEPT ![Host] = w]
        /\ UNCHANGED <<event, result, early>>
    BY <1>4 DEF HostSpawns, Goto
  <2> QED
    BY <1>1, <2>1 DEF CancelInvariant, Grounded, IInv, TypeOK
<1>5. ASSUME NEW w \in Workers, HostExits(w)
      PROVE  CancelInvariant'
  BY <1>5 DEF HostExits, CancelInvariant
<1>6. ASSUME NEW c \in Callers, Signal(c)
      PROVE  CancelInvariant'
  <2>1. \A w \in Workers : pc'[w] = pc[w]
    BY <1>1, <1>6 DEF Signal, Goto, Grounded, IInv, TypeOK
  <2>2. CASE active[at[c]] = None
    BY <1>6, <2>1, <2>2 DEF Signal, CancelInvariant
  <2>3. CASE active[at[c]] # None
    <3>1. pc[c] = "c_signal" /\ CallerInPlace(c)
      BY <1>6 DEF Signal, Here, Grounded, InPlace
    <3>2. at[c] \in Processes
      BY <3>1 DEF CallerInPlace, Processes
    <3>3. PICK w \in Workers : active[at[c]] = w
      BY <2>3, <3>2 DEF Grounded, IInv, TypeOK
    <3>4. /\ event' = [event EXCEPT ![w] = TRUE]
          /\ early' = [early EXCEPT ![w] = early[w] \/ result[w] = None]
          /\ UNCHANGED <<active, result>>
      BY <1>6, <2>3, <3>3 DEF Signal
    <3>5. early \in [Workers -> BOOLEAN] /\ event \in [Workers -> BOOLEAN]
      BY DEF Grounded, IInv, TypeOK
    <3>6. ASSUME NEW v \in Workers, early'[v]
          PROVE  event'[v] /\ pc[v] \in Cancellable
      <4>1. CASE v = w
        <5>1. early[w] \/ result[w] = None
          BY <3>4, <3>5, <3>6, <4>1
        <5> QED
          BY <3>2, <3>3, <3>4, <3>5, <4>1, <5>1 DEF CancelInvariant
      <4>2. CASE v # w
        BY <3>4, <3>5, <3>6, <4>2 DEF CancelInvariant
      <4> QED
        BY <4>1, <4>2
    <3> QED
      BY <2>1, <3>4, <3>6 DEF CancelInvariant
  <2> QED
    BY <2>2, <2>3
<1>7. ASSUME NEW c \in Callers, BeginStep(c)
      PROVE  CancelInvariant'
  <2>1. PICK kind, p, label : Begin(c, kind, p, label)
    BY <1>7, BeginShape
  <2>2. /\ \A w \in Workers : pc'[w] = pc[w]
        /\ UNCHANGED <<active, event, result, early>>
    BY <1>1, <2>1 DEF Begin, Rest, Grounded, IInv, TypeOK
  <2> QED
    BY <2>2 DEF CancelInvariant
<1>8. ASSUME NEW c \in Callers, NEW label, SpawnHere(c, label)
      PROVE  CancelInvariant'
  <2>1. PICK w \in Workers :
          /\ active' = [active EXCEPT ![at[c]] = w]
          /\ pc' = [pc EXCEPT ![w] = "born", ![c] = "p_start"]
    BY <1>8 DEF SpawnHere
  <2>2. UNCHANGED <<event, result, early>>
    BY <1>8 DEF SpawnHere
  <2> QED
    BY <1>1, <2>1, <2>2 DEF CancelInvariant, Grounded, IInv, TypeOK
<1>9. ASSUME NEW c \in Callers, StartThread(c)
      PROVE  CancelInvariant'
  <2>1. PICK w \in Workers : pc' = [pc EXCEPT ![w] = "w_check1", ![c] = "idle"]
    BY <1>9 DEF StartThread
  <2>2. UNCHANGED <<active, event, result, early>>
    BY <1>9 DEF StartThread
  <2> QED
    BY <1>1, <2>1, <2>2 DEF CancelInvariant, Grounded, IInv, TypeOK
<1>10. ASSUME NEW c \in Callers, SpawnHost(c)
       PROVE  CancelInvariant'
  <2>1. PICK w \in Workers : /\ pc[w] = "unborn"
                             /\ pc' = [pc EXCEPT ![w] = "h_wait", ![c] = "s_reserve"]
    BY <1>10 DEF SpawnHost
  <2>2. UNCHANGED <<active, event, result, early>>
    BY <1>10 DEF SpawnHost
  <2> QED
    BY <1>1, <2>1, <2>2 DEF CancelInvariant, Grounded, IInv, TypeOK
<1>11. ASSUME NEW c \in Callers, Reserve(c)
       PROVE  CancelInvariant'
  <2>1. \A w \in Workers : pc'[w] = pc[w] \/ pc[w] = "h_wait"
    BY <1>1, <1>11 DEF Reserve
  <2>2. UNCHANGED <<active, event, result, early>>
    BY <1>11 DEF Reserve
  <2> QED
    BY <1>1, <2>1, <2>2 DEF CancelInvariant
<1>12. ASSUME NEW p \in Processes, Crash(p)
       PROVE  CancelInvariant'
  <2>1. ASSUME NEW w \in Workers
        PROVE  \/ pc'[w] = "dead" /\ ~ early'[w]
               \/ UNCHANGED <<pc[w], result[w], event[w], early[w]>>
    BY <1>1, <1>12 DEF Crash, Grounded, IInv, TypeOK
  <2>2. \A q \in Processes : active'[q] \in {None, active[q]}
    BY <1>12 DEF Crash, Grounded, IInv, TypeOK
  <2> QED
    BY <1>1, <2>1, <2>2 DEF CancelInvariant
<1> QED
  BY <1>2, <1>3, <1>4, <1>5, <1>6, <1>7, <1>8, <1>9, <1>10, <1>11, <1>12
  DEF Special, SpawnInProcess, ResumeSpawn

\* A result of an execution that was cancelled before its callback returned is never
\* applied, whatever the callback says and however many calls and servers there are.
THEOREM CancelledDrops == Spec => []CancelledNeverApplies
<1>1. Init => CancelInvariant
  <2> SUFFICES ASSUME Init PROVE CancelInvariant
    OBVIOUS
  <2>1. None \notin Workers
    BY ConstantsAssumption DEF ConstantsAssumption
  <2> QED
    BY <2>1 DEF Init, CancelInvariant
<1>2. Grounded /\ CancelInvariant /\ [Next]_vars => CancelInvariant'
  <2>1. CASE UNCHANGED vars
    BY <2>1 DEF vars, CancelInvariant
  <2> QED
    BY <2>1, Shape, CancelOrdinary, CancelSpecial DEF Grounded
<1>3. CancelInvariant => CancelledNeverApplies
  BY DEF CancelInvariant, CancelledNeverApplies, Cancellable
<1> QED
  BY <1>1, <1>2, <1>3, GroundedAlways, PTL DEF Spec

-----------------------------------------------------------------------------
(* An interrupted run is left alone.                                          *)

\* A record is an earlier row, or says what the row says.
IsPast(record) ==
  /\ record.version \leq row.version
  /\ record.version = row.version => record.state = row.state

\* What an actor knows that is about to fail the run.
KnowsEnough(a) ==
  /\ pc[a] = "w_rejectFail" => seen[a].state = "VERIFYING"
  /\ pc[a] = "x_settle" => peek[a].state = "VERIFYING"
  /\ pc[a] \in {"w_fail", "w_exceptFail"} => seen[a].state \notin Dropping
  /\ a \in Workers /\ pc[a] \in HarvestLabels => seen[a].state \notin Dropping

Memory ==
  /\ IsPast(Created)
  /\ \A a \in Actors : IsPast(seen[a]) /\ IsPast(peek[a]) /\ KnowsEnough(a)

\* The version tells whether the row changed.
LEMMA RowMoves ==
  ASSUME IInv, NEW a, NEW then,
         row' = row \/ StoresHost(a) \/ Writes(a, then)
  PROVE  /\ row'.version \in Nat
         /\ \A record \in Rows : IsPast(record) => IsPast(record)'
         /\ IsPast(row)'
         /\ row'.version = row.version => row'.state = row.state
<1>1. row \in Rows /\ row.version \in Nat
  BY DEF IInv, TypeOK, Rows
<1>2. \A record \in Rows : record.version \in Nat
  BY DEF Rows
<1>3. CASE row' = row \/ StoresHost(a)
  <2>1. row'.version = row.version /\ row'.state = row.state
    BY <1>1, <1>3 DEF StoresHost, Rows
  <2> QED
    BY <1>1, <1>2, <2>1 DEF IsPast
<1>4. CASE Writes(a, then)
  <2>1. row'.version = row.version + 1
    BY <1>4 DEF Writes, WritesAs, Written
  <2> QED
    BY <1>1, <1>2, <2>1 DEF IsPast
<1> QED
  BY <1>3, <1>4

LEMMA CreatedType == Created \in Rows
BY DEF Created, Rows, RunStates, Verifications

LEMMA MemoryOrdinary ==
  ASSUME IInv, Memory, NEW a \in Actors, NEW then, Ordinary(a, then)
  PROVE  Memory'
<1>1. /\ row' = row \/ StoresHost(a) \/ Writes(a, then)
      /\ \A b \in Actors : b # a => seen'[b] = seen[b] /\ peek'[b] = peek[b] /\ pc'[b] = pc[b]
      /\ pc'[a] = then /\ Follows(pc[a], then) /\ Kind(a, pc[a], then)
      /\ Records(a, then)
  BY DEF Ordinary, Moves, IInv, TypeOK
<1>2. /\ \A record \in Rows : IsPast(record) => IsPast(record)'
      /\ IsPast(row)'
  BY <1>1, RowMoves
<1>3. \A b \in Actors : seen[b] \in Rows /\ peek[b] \in Rows
  BY DEF IInv, TypeOK
<1>4. IsPast(Created)'
  BY <1>2, CreatedType DEF Memory
<1>5. \A b \in Actors : IsPast(seen[b])' /\ IsPast(peek[b])'
  <2> SUFFICES ASSUME NEW b \in Actors PROVE IsPast(seen[b])' /\ IsPast(peek[b])'
    OBVIOUS
  <2>1. /\ seen'[b] \in {seen[b], row', Created}
        /\ peek'[b] \in {peek[b], row', Created}
    BY <1>1 DEF Records
  <2>2. IsPast(seen[b])' = (/\ seen'[b].version \leq row'.version
                            /\ seen'[b].version = row'.version => seen'[b].state = row'.state)
    BY DEF IsPast
  <2>3. IsPast(peek[b])' = (/\ peek'[b].version \leq row'.version
                            /\ peek'[b].version = row'.version => peek'[b].state = row'.state)
    BY DEF IsPast
  <2> QED
    BY <1>2, <1>3, <1>4, <2>1, <2>2, <2>3 DEF Memory, IsPast
<1>6. ASSUME NEW b \in Actors, b # a PROVE KnowsEnough(b)'
  BY <1>1, <1>6 DEF Memory, KnowsEnough
<1>7. KnowsEnough(a)'
  <2>1. then \in {"w_fail", "w_exceptFail"} => seen'[a].state \notin Dropping
    <3>1. then = "w_exceptFail" => pc[a] = "w_except"
      BY <1>1
      DEF Follows, ApplyLabels, HarvestLabels, MarkLabels, ResumeLabels, CancelLabels
    <3>2. then = "w_fail" => pc[a] = "w_read" \/ (pc[a] \in HarvestLabels /\ a \in Workers)
      BY <1>1
      DEF Follows, Kind, ApplyLabels, HarvestLabels, MarkLabels, ResumeLabels, CancelLabels
    <3> QED
      BY <1>1, <3>1, <3>2 DEF Records, Memory, KnowsEnough
  <2>2. a \in Workers /\ then \in HarvestLabels => seen'[a].state \notin Dropping
    <3>1. ASSUME a \in Workers, then \in HarvestLabels
          PROVE  pc[a] \in {"h_wait", "h_claim", "w_read"} \cup HarvestLabels
      <4>1. a \notin Callers
        BY <3>1, WorkerIsNoCaller
      <4> QED
        BY <1>1, <3>1, <4>1
        DEF Follows, Kind, ApplyLabels, HarvestLabels, MarkLabels, ResumeLabels, CancelLabels,
            CallerLabels
    <3> QED
      BY <1>1, <3>1 DEF Records, Memory, KnowsEnough, HarvestLabels
  <2> QED
    BY <1>1, <2>1, <2>2 DEF Records, KnowsEnough
<1> QED
  BY <1>4, <1>5, <1>6, <1>7 DEF Memory

\* What a special step does to one actor: nothing, or it arrives at another label with a
\* record that somebody has, or a fresh one.
Arrivals == {"w_ret", "done", "born", "w_check1", "h_wait", "h_claim", "dead", "idle",
             "p_start", "s_reserve", "s_pid", "c_signal", "c_read", "o_read", "r_status",
             "r_read", "k_diagnose", "e_read", "f_read"}
Arrives(a) ==
  \/ UNCHANGED <<pc[a], seen[a], peek[a]>>
  \/ /\ pc'[a] \in Arrivals
     /\ seen'[a] \in {row, Created} \/ \E b \in Actors : seen'[a] = seen[b]
     /\ peek'[a] \in {peek[a], Created}

LEMMA SpecialShape ==
  ASSUME IInv, Special
  PROVE  row' = row /\ \A a \in Actors : Arrives(a)
<1>1. /\ \A w \in Workers : w \in Actors
      /\ \A c \in Callers : c \in Actors
      /\ pc \in [Actors -> Labels] /\ seen \in [Actors -> Rows]
  BY DEF Actors, IInv, TypeOK
<1>2. ASSUME NEW w \in Workers, CallbackReturns(w)
      PROVE  row' = row /\ \A a \in Actors : Arrives(a)
  <2>1. row' = row /\ pc' = [pc EXCEPT ![w] = "w_ret"] /\ UNCHANGED <<seen, peek>>
    BY <1>2 DEF CallbackReturns, Goto
  <2> QED
    BY <1>1, <2>1 DEF Arrives, Arrivals
<1>3. ASSUME NEW w \in Workers, Finally(w)
      PROVE  row' = row /\ \A a \in Actors : Arrives(a)
  <2>1. /\ row' = row /\ pc' = [pc EXCEPT ![w] = "done"]
        /\ seen' = [seen EXCEPT ![w] = Created] /\ UNCHANGED peek
    BY <1>3 DEF Finally, Goto, Keep
  <2> QED
    BY <1>1, <2>1 DEF Arrives, Arrivals
<1>4. ASSUME NEW w \in Workers, HostSpawns(w)
      PROVE  row' = row /\ \A a \in Actors : Arrives(a)
  <2>1. /\ row' = row /\ pc' = [pc EXCEPT ![w] = "born"]
        /\ seen' = [seen EXCEPT ![w] = row] /\ UNCHANGED peek
    BY <1>4 DEF HostSpawns, Goto
  <2> QED
    BY <1>1, <2>1 DEF Arrives, Arrivals
<1>5. ASSUME NEW w \in Workers, HostExits(w)
      PROVE  row' = row /\ \A a \in Actors : Arrives(a)
  BY <1>5 DEF HostExits, Arrives
<1>6. ASSUME NEW c \in Callers, Signal(c)
      PROVE  row' = row /\ \A a \in Actors : Arrives(a)
  <2>1. row' = row /\ pc' = [pc EXCEPT ![c] = "c_read"] /\ UNCHANGED <<seen, peek>>
    BY <1>6 DEF Signal, Goto
  <2> QED
    BY <1>1, <2>1 DEF Arrives, Arrivals
<1>7. ASSUME NEW c \in Callers, BeginStep(c)
      PROVE  row' = row /\ \A a \in Actors : Arrives(a)
  <2>1. PICK kind, p, label : Begin(c, kind, p, label) /\ label \in Arrivals
    BY <1>7, BeginShape DEF Begins, Arrivals
  <2>2. row' = row /\ pc' = [pc EXCEPT ![c] = label] /\ UNCHANGED <<seen, peek>>
    BY <2>1 DEF Begin, Rest
  <2> QED
    BY <1>1, <2>1, <2>2 DEF Arrives
<1>8. ASSUME NEW c \in Callers, SpawnInProcess(c) \/ ResumeSpawn(c)
      PROVE  row' = row /\ \A a \in Actors : Arrives(a)
  <2>1. PICK w \in Workers :
          /\ pc' = [pc EXCEPT ![w] = "born", ![c] = "p_start"]
          /\ seen' = [seen EXCEPT ![w] = seen[c]]
    BY <1>8 DEF SpawnInProcess, ResumeSpawn, SpawnHere
  <2>2. row' = row /\ UNCHANGED peek
    BY <1>8 DEF SpawnInProcess, ResumeSpawn, SpawnHere
  <2> QED
    BY <1>1, <2>1, <2>2 DEF Arrives, Arrivals
<1>9. ASSUME NEW c \in Callers, StartThread(c)
      PROVE  row' = row /\ \A a \in Actors : Arrives(a)
  <2>1. PICK w \in Workers : pc' = [pc EXCEPT ![w] = "w_check1", ![c] = "idle"]
    BY <1>9 DEF StartThread
  <2>2. row' = row /\ seen' = [seen EXCEPT ![c] = Created] /\ UNCHANGED peek
    BY <1>9 DEF StartThread
  <2> QED
    BY <1>1, <2>1, <2>2 DEF Arrives, Arrivals
<1>10. ASSUME NEW c \in Callers, SpawnHost(c)
       PROVE  row' = row /\ \A a \in Actors : Arrives(a)
  <2>1. PICK w \in Workers : pc' = [pc EXCEPT ![w] = "h_wait", ![c] = "s_reserve"]
    BY <1>10 DEF SpawnHost
  <2>2. row' = row /\ UNCHANGED <<seen, peek>>
    BY <1>10 DEF SpawnHost
  <2> QED
    BY <1>1, <2>1, <2>2 DEF Arrives, Arrivals
<1>11. ASSUME NEW c \in Callers, Reserve(c)
       PROVE  row' = row /\ \A a \in Actors : Arrives(a)
  <2>1. /\ row' = row /\ UNCHANGED <<seen, peek>>
        /\ \A a \in Actors : pc'[a] = pc[a] \/ pc'[a] \in {"s_pid", "h_claim"}
    BY <1>11 DEF Reserve
  <2> QED
    BY <1>1, <2>1 DEF Arrives, Arrivals
<1>12. ASSUME NEW p \in Processes, Crash(p)
       PROVE  row' = row /\ \A a \in Actors : Arrives(a)
  <2>1. /\ row' = row
        /\ \A a \in Actors :
             \/ UNCHANGED <<pc[a], seen[a], peek[a]>>
             \/ pc'[a] \in {"dead", "idle"} /\ seen'[a] = Created /\ peek'[a] = Created
    BY <1>12 DEF Crash, IInv, TypeOK
  <2> QED
    BY <1>1, <2>1 DEF Arrives, Arrivals
<1> QED
  BY <1>2, <1>3, <1>4, <1>5, <1>6, <1>7, <1>8, <1>9, <1>10, <1>11, <1>12 DEF Special

LEMMA MemorySpecial ==
  ASSUME IInv, Memory, Special
  PROVE  Memory'
<1>1. row' = row /\ \A a \in Actors : Arrives(a)
  BY SpecialShape
<1>2. \A record : IsPast(record)' = IsPast(record')
  BY <1>1 DEF IsPast
<1>3. IsPast(row) /\ IsPast(Created)
  BY DEF IsPast, Memory, IInv, TypeOK, Rows
<1>4. ASSUME NEW a \in Actors PROVE (IsPast(seen[a]) /\ IsPast(peek[a]) /\ KnowsEnough(a))'
  <2>1. IsPast(seen'[a]) /\ IsPast(peek'[a])
    BY <1>1, <1>3 DEF Arrives, Memory
  <2>2. KnowsEnough(a)'
    BY <1>1 DEF Arrives, Arrivals, KnowsEnough, Memory, HarvestLabels
  <2> QED
    BY <1>1, <2>1, <2>2 DEF IsPast
<1>5. IsPast(Created)'
  BY <1>1, <1>3 DEF IsPast, Created
<1> QED
  BY <1>4, <1>5 DEF Memory

\* A versioned write moves an interrupted run only where the contract allows it, and
\* nobody who is about to fail the run wrote down that it was interrupted.
LEMMA InterruptedStep ==
  ASSUME IInv, Memory, NEW a \in Actors, NEW then, Ordinary(a, then),
         row.state = "INTERRUPTED",
         row'.state \notin {"INTERRUPTED", "CANCELLED", "RECOVERY_READY"}
  PROVE  a \in Callers /\ pc[a] \in {"s_fail", "f_fail"} /\ pc'[a] = "idle"
<1>1. row' # row /\ ~ StoresHost(a)
  BY DEF StoresHost, IInv, TypeOK, Rows
<1>2. PICK to \in RunStates, given \in Verifications, pid \in Processes \cup {None} :
        WritesAs(a, then, to, given, pid)
  BY <1>1 DEF Ordinary, Writes
<1>3. row'.state = to /\ to = "FAILED"
  BY <1>2 DEF WritesAs, Written, CanWrite, CanTransition, AllowedTransitions
<1>4. Known(a).state = "INTERRUPTED"
  BY <1>2 DEF WritesAs, CanWrite, Known, Memory, IsPast
<1>5. pc[a] \in {"s_fail", "w_rejectFail", "w_exceptFail", "f_fail", "w_fail", "x_settle"}
  BY <1>2, <1>3 DEF WritesAs, Target
<1>6. pc[a] \in {"s_fail", "f_fail"}
  BY <1>4, <1>5 DEF Known, HarvestLabels, Memory, KnowsEnough, Dropping, OrphanStates
<1>7. /\ Follows(pc[a], then) /\ Kind(a, pc[a], then)
      /\ pc'[a] = then
  BY DEF Ordinary, Moves, IInv, TypeOK
<1> QED
  BY <1>6, <1>7
  DEF Follows, Kind, CallerLabels, ApplyLabels, HarvestLabels, MarkLabels, ResumeLabels,
      CancelLabels

LEMMA MemoryAlways == Spec => []Memory
<1>1. Init => Memory
  <2> SUFFICES ASSUME Init PROVE Memory
    OBVIOUS
  <2>1. PICK p \in Servers :
          row = [Created EXCEPT !.pid = IF InProcess THEN p ELSE None]
    BY DEF Init
  <2>2. row.version = 1 /\ row.state = "CREATED" /\ Created.version = 1
        /\ Created.state = "CREATED"
    BY <2>1 DEF Created
  <2>3. IsPast(row) /\ IsPast(Created)
    BY <2>2 DEF IsPast
  <2> QED
    BY <2>3 DEF Init, Memory, KnowsEnough, HarvestLabels
<1>2. IInv /\ Memory /\ [Next]_vars => Memory'
  <2>1. CASE UNCHANGED vars
    BY <2>1 DEF vars, Memory, IsPast, KnowsEnough
  <2> QED
    BY <2>1, Shape, MemoryOrdinary, MemorySpecial
<1> QED
  BY <1>1, <1>2, Invariance, PTL DEF Spec

\* An interrupted run is moved only by a cancellation, by a recovery or by the failing
\* run_start itself, whatever executions and observers still hold of it.
THEOREM InterruptedStands == Spec => InterruptedIsKept
<1> DEFINE Late == row.state = "INTERRUPTED"
                   /\ row'.state \notin {"INTERRUPTED", "CANCELLED", "RECOVERY_READY"}
           Allowed == \E c \in Callers : pc[c] \in {"s_fail", "f_fail"} /\ pc'[c] = "idle"
<1>1. IInv /\ Memory /\ [Next]_vars => [Late => Allowed]_vars
  <2> SUFFICES ASSUME IInv, Memory, Next, Late PROVE Allowed
    OBVIOUS
  <2>1. CASE Special
    BY <2>1, SpecialShape
  <2>2. CASE \E a \in Actors : \E then : Ordinary(a, then)
    BY <2>2, InterruptedStep
  <2> QED
    BY <2>1, <2>2, Shape
<1> QED
  BY <1>1, Invariance, MemoryAlways, PTL DEF Spec, InterruptedIsKept

-----------------------------------------------------------------------------
(* One execution at a time.                                                   *)

\* run_resume is called on one server, whose lock lets one resume in at a time, and
\* the orchestrator's own operations that resume or mark a run are not called directly.
OneResumer ==
  /\ \A p, q \in Resumers : p = q
  /\ {"recover", "mark"} \cap CallKinds = {}

\* Where a resume stands that found the run suspended and no execution in its server.
Resuming == ResumeLabels \ {"r_idle"}

\* An execution that may still touch the run, and one whose registry entry is still there.
Current(w) == pc[w] \notin {"unborn", "done", "dead", "w_finally"}
Registered(w) == pc[w] \notin {"unborn", "done", "dead"}

Exclusive ==
  /\ \A v, w \in Workers : Current(v) /\ Current(w) => v = w
  /\ row.state = "ACCOUNT_SWITCH_REQUIRED" =>
       \A w \in Workers : Current(w) => at[w] \in Resumers
  /\ \A w \in Workers : Registered(w) /\ at[w] \in Resumers => active[at[w]] = w
  /\ \A c, d \in Callers : call[c] = "resume" /\ call[d] = "resume" => c = d
  /\ \A c \in Callers : pc[c] = "r_idle" => \A w \in Workers : Current(w) => at[w] = at[c]
  /\ \A c \in Callers : pc[c] \in Resuming =>
       active[at[c]] = None /\ \A w \in Workers : ~ Current(w)
  /\ \A c \in Callers : pc[c] = "s_spawn" =>
       /\ row.state # "ACCOUNT_SWITCH_REQUIRED"
       /\ \A w \in Workers : pc[w] = "unborn"
       /\ \A d \in Callers : pc[d] \notin ResumeLabels

\* What an ordinary step means for executions: nobody becomes current, and whoever goes on
\* inside a resume was let in.
LEMMA OrdinaryMoves ==
  ASSUME Grounded, NEW a \in Actors, NEW then, Ordinary(a, then)
  PROVE  /\ UNCHANGED <<active, event, up, result>>
         /\ \A b \in Actors : pc'[b] = IF b = a THEN then ELSE pc[b]
         /\ \A w \in Workers : at'[w] = at[w]
         /\ \A c \in Callers : /\ pc'[c] # "idle" => at'[c] = at[c] /\ call'[c] = call[c]
                               /\ call'[c] \in {call[c], "none"}
         /\ \A w \in Workers : Current(w)' => Current(w)
         /\ \A w \in Workers : Registered(w)' => Registered(w)
         /\ \A w \in Workers : pc[w] = "unborn" => pc'[w] = "unborn"
         /\ \A w \in Workers : pc'[w] = "unborn" => pc[w] = "unborn"
         /\ \A c \in Callers : pc'[c] = "s_spawn" => pc[c] = "s_spawn"
<1>1. /\ Follows(pc[a], then) /\ Kind(a, pc[a], then)
      /\ pc' = [pc EXCEPT ![a] = then]
      /\ at' = IF then = "idle" THEN [at EXCEPT ![a] = None] ELSE at
      /\ call' = IF then = "idle" THEN [call EXCEPT ![a] = "none"] ELSE call
      /\ UNCHANGED <<active, event, up, result>>
  BY DEF Ordinary, Moves
<1>2. \A b \in Actors : pc'[b] = IF b = a THEN then ELSE pc[b]
  BY <1>1 DEF Grounded, IInv, TypeOK
<1>3. /\ \A w \in Workers : w \in Actors /\ w \notin Callers
      /\ \A c \in Callers : c \in Actors
      /\ then = "idle" => a \in Callers
  BY <1>1, ConstantsAssumption DEF ConstantsAssumption, Actors, Kind
<1>4. /\ pc[a] \notin {"unborn", "done", "dead"}
      /\ pc[a] = "w_finally" => then = "done"
      /\ then \notin {"s_spawn", "unborn"}
  BY <1>1
  DEF Follows, ApplyLabels, HarvestLabels, MarkLabels, ResumeLabels, CancelLabels
<1>5. \A w \in Workers : at'[w] = at[w]
  BY <1>1, <1>3 DEF Grounded, IInv, TypeOK
<1>6. ASSUME NEW c \in Callers
      PROVE  /\ pc'[c] # "idle" => at'[c] = at[c] /\ call'[c] = call[c]
             /\ call'[c] \in {call[c], "none"}
  BY <1>1, <1>2, <1>3 DEF Grounded, IInv, TypeOK
<1>7. \A w \in Workers : /\ Current(w)' => Current(w)
                         /\ Registered(w)' => Registered(w)
  BY <1>2, <1>3, <1>4 DEF Current, Registered
<1> QED
  BY <1>1, <1>2, <1>3, <1>4, <1>5, <1>6, <1>7

\* A caller inside a resume, under the hypothesis, holds its server's lock.
LEMMA ResumeCalls ==
  ASSUME Grounded, OneResumer, NEW c \in Callers, pc[c] \in ResumeLabels \cup {"r_status"}
  PROVE  call[c] = "resume" /\ at[c] \in Resumers
<1>1. CallerInPlace(c)
  BY DEF Grounded, InPlace
<1> QED
  BY <1>1
  DEF CallerInPlace, OneResumer, Belongs, ResumeLabels, CancelLabels, HarvestLabels, MarkLabels

\* Only the suspended execution itself and a resume make the run wait for an account.
LEMMA SwitchWrites ==
  ASSUME IInv, NEW a \in Actors, NEW then, Ordinary(a, then),
         row'.state = "ACCOUNT_SWITCH_REQUIRED"
  PROVE  \/ row.state = "ACCOUNT_SWITCH_REQUIRED"
         \/ pc[a] = "w_fail" /\ then = "w_finally"
         \/ pc[a] = "k_switch"
<1>1. CASE row' = row \/ StoresHost(a)
  BY <1>1 DEF StoresHost, IInv, TypeOK, Rows
<1>2. CASE Writes(a, then)
  BY <1>2 DEF Writes, WritesAs, Written, Target, SuspendedStates
<1> QED
  BY <1>1, <1>2 DEF Ordinary

LEMMA ExclusiveOrdinary ==
  ASSUME Grounded, OneResumer, Exclusive, NEW a \in Actors, NEW then, Ordinary(a, then)
  PROVE  Exclusive'
<1>1. /\ UNCHANGED active
      /\ \A b \in Actors : pc'[b] = IF b = a THEN then ELSE pc[b]
      /\ \A w \in Workers : at'[w] = at[w]
      /\ \A c \in Callers : /\ pc'[c] # "idle" => at'[c] = at[c] /\ call'[c] = call[c]
                            /\ call'[c] \in {call[c], "none"}
      /\ \A w \in Workers : Current(w)' => Current(w)
      /\ \A w \in Workers : Registered(w)' => Registered(w)
      /\ \A w \in Workers : pc[w] = "unborn" => pc'[w] = "unborn"
      /\ \A c \in Callers : pc'[c] = "s_spawn" => pc[c] = "s_spawn"
  BY OrdinaryMoves
<1>2. /\ \A w \in Workers : w \in Actors /\ w \notin Callers /\ w # None
      /\ \A c \in Callers : c \in Actors
  BY ConstantsAssumption DEF ConstantsAssumption, Actors
<1>3. Follows(pc[a], then) /\ Kind(a, pc[a], then) /\ Permits(a, then)
  BY DEF Ordinary, Moves
<1>4. row'.state = "ACCOUNT_SWITCH_REQUIRED" =>
        \A w \in Workers : Current(w)' => at'[w] \in Resumers
  <2> SUFFICES ASSUME row'.state = "ACCOUNT_SWITCH_REQUIRED", NEW w \in Workers, Current(w)'
               PROVE  at[w] \in Resumers
    BY <1>1
  <2>1. Current(w)
    BY <1>1
  <2>2. CASE row.state = "ACCOUNT_SWITCH_REQUIRED"
    BY <2>1, <2>2 DEF Exclusive
  <2>3. CASE pc[a] = "w_fail" /\ then = "w_finally"
    <3>1. a \in Workers /\ Current(a)
      BY <1>3, <2>3 DEF Kind, CallerLabels, HarvestLabels, MarkLabels, Current
    <3>2. w = a
      BY <2>1, <3>1 DEF Exclusive
    <3> QED
      BY <1>1, <1>2, <2>3, <3>2 DEF Current
  <2>4. CASE pc[a] = "k_switch"
    <3>1. a \in Callers /\ pc[a] \in Resuming
      BY <1>3, <2>4 DEF Kind, CallerLabels, Resuming, ResumeLabels
    <3> QED
      BY <2>1, <3>1 DEF Exclusive
  <2> QED
    BY <2>2, <2>3, <2>4, SwitchWrites DEF Grounded
<1>5. ASSUME NEW c \in Callers, pc'[c] = "r_idle", NEW w \in Workers, Current(w)'
      PROVE  at'[w] = at'[c]
  <2>1. Current(w) /\ at'[c] = at[c] /\ at'[w] = at[w]
    BY <1>1, <1>5
  <2>2. CASE pc[c] = "r_idle"
    BY <2>1, <2>2 DEF Exclusive
  <2>3. CASE pc[c] # "r_idle"
    <3>1. c = a /\ then = "r_idle" /\ pc[c] = "r_status"
      BY <1>1, <1>2, <1>3, <1>5, <2>3
      DEF Follows, ApplyLabels, HarvestLabels, MarkLabels, ResumeLabels, CancelLabels
    <3>2. row.state = "ACCOUNT_SWITCH_REQUIRED" /\ at[c] \in Resumers
      BY <1>3, <3>1, ResumeCalls DEF Permits
    <3> QED
      BY <2>1, <3>2 DEF Exclusive, OneResumer
  <2> QED
    BY <2>2, <2>3
<1>6. ASSUME NEW c \in Callers, pc'[c] \in Resuming
      PROVE  active'[at'[c]] = None /\ \A w \in Workers : ~ Current(w)'
  <2>1. at'[c] = at[c]
    BY <1>1, <1>6 DEF Resuming, ResumeLabels
  <2>2. CASE pc[c] \in Resuming
    BY <1>1, <2>1, <2>2 DEF Exclusive
  <2>3. CASE pc[c] \notin Resuming
    <3>1. c = a /\ pc[c] = "r_idle" /\ then # "idle"
      BY <1>1, <1>2, <1>3, <1>6, <2>3
      DEF Follows, Resuming, ApplyLabels, HarvestLabels, MarkLabels, ResumeLabels, CancelLabels
    <3>2. active[at[c]] = None /\ at[c] \in Resumers
      BY <1>3, <3>1, ResumeCalls DEF Permits, ResumeLabels
    <3>3. ASSUME NEW w \in Workers, Current(w) PROVE FALSE
      <4>1. at[w] = at[c] /\ Registered(w)
        BY <3>1, <3>3 DEF Exclusive, Current, Registered
      <4> QED
        BY <1>2, <3>2, <4>1 DEF Exclusive
    <3> QED
      BY <1>1, <2>1, <3>2, <3>3
  <2> QED
    BY <2>2, <2>3
<1>7. ASSUME NEW c \in Callers, pc'[c] = "s_spawn"
      PROVE  /\ row'.state # "ACCOUNT_SWITCH_REQUIRED"
             /\ \A w \in Workers : pc'[w] = "unborn"
             /\ \A d \in Callers : pc'[d] \notin ResumeLabels
  <2>1. /\ row.state # "ACCOUNT_SWITCH_REQUIRED"
        /\ \A w \in Workers : pc[w] = "unborn"
        /\ \A d \in Callers : pc[d] \notin ResumeLabels
    BY <1>1, <1>7 DEF Exclusive
  <2>2. a \in Callers /\ pc[a] \notin ResumeLabels
    <3>1. pc[a] # "unborn"
      BY <1>3 DEF Follows, ApplyLabels, HarvestLabels, MarkLabels, ResumeLabels, CancelLabels
    <3> QED
      BY <2>1, <3>1 DEF Actors
  <2>3. pc[a] # "w_fail" /\ pc[a] # "k_switch"
    BY <1>3, <2>1, <2>2 DEF Kind, CallerLabels, HarvestLabels, MarkLabels, ResumeLabels, Actors
  <2>4. row'.state # "ACCOUNT_SWITCH_REQUIRED"
    BY <2>1, <2>3, SwitchWrites DEF Grounded
  <2>5. then \notin ResumeLabels
    BY <1>3, <2>1, <2>2
    DEF Follows, Permits, ApplyLabels, HarvestLabels, MarkLabels, ResumeLabels, CancelLabels
  <2> QED
    BY <1>1, <1>2, <2>1, <2>4, <2>5
<1>8. \A v, w \in Workers : Current(v)' /\ Current(w)' => v = w
  BY <1>1 DEF Exclusive
<1>9. \A w \in Workers : Registered(w)' /\ at'[w] \in Resumers => active'[at'[w]] = w
  BY <1>1 DEF Exclusive
<1>10. \A c, d \in Callers : call'[c] = "resume" /\ call'[d] = "resume" => c = d
  BY <1>1 DEF Exclusive
<1> QED
  BY <1>4, <1>5, <1>6, <1>7, <1>8, <1>9, <1>10 DEF Exclusive

\* Steps after which nobody is current who was not, nobody is inside a resume or about to
\* spawn who was not, and no other registry entry went.
LEMMA ExclusiveKept ==
  ASSUME Grounded, OneResumer, Exclusive,
         row' = row,
         \A w \in Workers : Current(w)' => Current(w) /\ at'[w] = at[w],
         \A w \in Workers : Registered(w)' /\ at'[w] \in Resumers =>
           Registered(w) /\ at'[w] = at[w] /\ active'[at[w]] = active[at[w]],
         \A c, d \in Callers : call'[c] = "resume" /\ call'[d] = "resume" => c = d,
         \A c \in Callers : pc'[c] \in ResumeLabels => pc'[c] = pc[c] /\ at'[c] = at[c],
         \A p \in Servers : active'[p] \in {None, active[p]},
         \A c \in Callers : pc'[c] = "s_spawn" => pc[c] = "s_spawn",
         \A c \in Callers : pc[c] = "s_spawn" =>
           pc'[c] # "s_spawn" \/ \A w \in Workers : pc'[w] = pc[w]
  PROVE  Exclusive'
<1>1. \A v, w \in Workers : Current(v)' /\ Current(w)' => v = w
  BY DEF Exclusive
<1>2. row'.state = "ACCOUNT_SWITCH_REQUIRED" =>
        \A w \in Workers : Current(w)' => at'[w] \in Resumers
  BY DEF Exclusive
<1>3. \A w \in Workers : Registered(w)' /\ at'[w] \in Resumers => active'[at'[w]] = w
  BY DEF Exclusive
<1>4. ASSUME NEW c \in Callers, pc'[c] = "r_idle", NEW w \in Workers, Current(w)'
      PROVE  at'[w] = at'[c]
  BY <1>4 DEF Exclusive, ResumeLabels
<1>5. ASSUME NEW c \in Callers, pc'[c] \in Resuming
      PROVE  active'[at'[c]] = None /\ \A w \in Workers : ~ Current(w)'
  <2>1. pc[c] \in Resuming /\ at'[c] = at[c] /\ pc'[c] \in ResumeLabels
    BY <1>5 DEF Resuming
  <2>2. at[c] \in Servers
    BY <2>1 DEF Grounded, InPlace, CallerInPlace, Resuming, ResumeLabels
  <2> QED
    BY <2>1, <2>2 DEF Exclusive
<1>6. ASSUME NEW c \in Callers, pc'[c] = "s_spawn"
      PROVE  /\ row'.state # "ACCOUNT_SWITCH_REQUIRED"
             /\ \A w \in Workers : pc'[w] = "unborn"
             /\ \A d \in Callers : pc'[d] \notin ResumeLabels
  <2>1. pc[c] = "s_spawn"
    BY <1>6
  <2> QED
    BY <1>6, <2>1 DEF Exclusive
<1> QED
  BY <1>1, <1>2, <1>3, <1>4, <1>5, <1>6 DEF Exclusive

\* A further execution: nobody else is current, and it is registered where it was spawned.
LEMMA ExclusiveSpawn ==
  ASSUME Grounded, OneResumer, Exclusive, NEW c \in Callers, NEW w \in Workers,
         NEW p \in Processes, NEW next, next \in {"p_start", "s_reserve"},
         pc[c] \in {"s_spawn", "r_spawn"}, pc[w] = "unborn",
         pc'[w] \in {"born", "h_wait"}, pc'[c] = next,
         \A a \in Actors : a # w /\ a # c => pc'[a] = pc[a],
         at' = [at EXCEPT ![w] = p],
         p \in Resumers => p = at[c] /\ active' = [active EXCEPT ![p] = w],
         p \notin Resumers => \A q \in Resumers : active'[q] = active[q],
         pc[c] = "r_spawn" => p = at[c],
         row' = row, UNCHANGED call
  PROVE  Exclusive'
<1>1. /\ \A v \in Workers : v \in Actors /\ v \notin Callers /\ v # None
      /\ \A d \in Callers : d \in Actors /\ d \notin Workers
      /\ Resumers \subseteq Processes
  BY ConstantsAssumption DEF ConstantsAssumption, Actors, Processes
<1>2. \A v \in Workers : ~ Current(v)
  BY DEF Exclusive, Current, Resuming, ResumeLabels
<1>3. \A v \in Workers : v # w => /\ Current(v)' = Current(v)
                                 /\ Registered(v)' = Registered(v)
                                 /\ at'[v] = at[v]
  BY <1>1 DEF Current, Registered, Grounded, IInv, TypeOK
<1>4. at'[w] = p /\ \A d \in Callers : at'[d] = at[d]
  BY <1>1 DEF Grounded, IInv, TypeOK
<1>5. CallerInPlace(c)
  BY DEF Grounded, InPlace
<1>6. pc[c] = "r_spawn" => call[c] = "resume" /\ at[c] \in Resumers /\ active[at[c]] = None
  BY ResumeCalls DEF ResumeLabels, Resuming, Exclusive
<1>7. \A d \in Callers : pc'[d] \notin ResumeLabels
  <2> SUFFICES ASSUME NEW d \in Callers, pc'[d] \in ResumeLabels PROVE FALSE
    OBVIOUS
  <2>1. d # c /\ pc[d] = pc'[d]
    BY <1>1 DEF ResumeLabels
  <2>2. CASE pc[c] = "s_spawn"
    BY <2>1, <2>2 DEF Exclusive
  <2>3. CASE pc[c] = "r_spawn"
    <3>1. call[d] = "resume"
      BY <2>1, ResumeCalls
    <3> QED
      BY <1>6, <2>1, <2>3, <3>1 DEF Exclusive
  <2> QED
    BY <2>2, <2>3
<1>8. \A d \in Callers : pc'[d] # "s_spawn"
  <2> SUFFICES ASSUME NEW d \in Callers, pc'[d] = "s_spawn" PROVE FALSE
    OBVIOUS
  <2>1. d # c /\ pc[d] = "s_spawn"
    BY <1>1
  <2>2. pc[c] # "r_spawn"
    BY <2>1 DEF Exclusive, ResumeLabels
  <2>3. CallerInPlace(d)
    BY DEF Grounded, InPlace
  <2>4. d = Launcher /\ c = Launcher
    BY <1>5, <2>1, <2>2, <2>3
    DEF CallerInPlace, Belongs, CancelLabels, HarvestLabels, MarkLabels, ResumeLabels
  <2> QED
    BY <2>1, <2>4
<1>9. row'.state = "ACCOUNT_SWITCH_REQUIRED" =>
        \A v \in Workers : Current(v)' => at'[v] \in Resumers
  BY <1>2, <1>3, <1>4, <1>6 DEF Exclusive
<1>10. ASSUME NEW v \in Workers, Registered(v)', at'[v] \in Resumers
       PROVE  active'[at'[v]] = v
  <2>1. CASE v = w
    BY <1>1, <1>4, <1>10, <2>1 DEF Grounded, IInv, TypeOK
  <2>2. CASE v # w
    <3>1. Registered(v) /\ at[v] \in Resumers /\ active[at[v]] = v /\ at'[v] = at[v]
      BY <1>3, <1>10, <2>2 DEF Exclusive
    <3>2. pc[c] # "r_spawn"
      BY <1>1, <1>6, <3>1 DEF OneResumer
    <3>3. pc[v] = "unborn"
      BY <3>2 DEF Exclusive
    <3> QED
      BY <3>1, <3>3 DEF Registered
  <2> QED
    BY <2>1, <2>2
<1>11. \A u, v \in Workers : Current(u)' /\ Current(v)' => u = v
  BY <1>2, <1>3
<1>12. \A d, e \in Callers : call'[d] = "resume" /\ call'[e] = "resume" => d = e
  BY DEF Exclusive
<1>13. "r_idle" \in ResumeLabels /\ Resuming \subseteq ResumeLabels
  BY DEF Resuming, ResumeLabels
<1> QED
  BY <1>7, <1>8, <1>9, <1>10, <1>11, <1>12, <1>13 DEF Exclusive

LEMMA ExclusiveSpecial ==
  ASSUME Grounded, OneResumer, Exclusive, Special
  PROVE  Exclusive'
<1>1. /\ \A w \in Workers : w \in Actors /\ w \notin Callers /\ w # None
      /\ \A c \in Callers : c \in Actors /\ c \notin Workers
      /\ Servers \subseteq Processes /\ Host \in Processes
      /\ Resumers \subseteq Servers /\ Host \notin Resumers
  BY ConstantsAssumption DEF ConstantsAssumption, Actors, Processes
<1>2. ASSUME NEW a \in Actors, NEW then, then \notin ResumeLabels \cup {"s_spawn"},
             pc' = [pc EXCEPT ![a] = then],
             pc[a] \notin {"unborn", "done", "dead", "s_spawn"},
             pc[a] = "w_finally" => then = "done",
             UNCHANGED <<row, at, call>>,
             \A p \in Servers : active'[p] \in {None, active[p]},
             \A w \in Workers : Registered(w)' /\ at[w] \in Resumers =>
               active'[at[w]] = active[at[w]]
      PROVE  Exclusive'
  <2>1. \A b \in Actors : pc'[b] = IF b = a THEN then ELSE pc[b]
    BY <1>2 DEF Grounded, IInv, TypeOK
  <2>2. \A w \in Workers : /\ Current(w)' => Current(w) /\ at'[w] = at[w]
                           /\ Registered(w)' => Registered(w) /\ at'[w] = at[w]
    BY <1>1, <1>2, <2>1 DEF Current, Registered
  <2>3. \A c \in Callers : /\ pc'[c] \in ResumeLabels => pc'[c] = pc[c] /\ at'[c] = at[c]
                           /\ pc'[c] = "s_spawn" => pc[c] = "s_spawn"
    BY <1>1, <1>2, <2>1
  <2>4. \A c \in Callers : pc[c] = "s_spawn" =>
          pc'[c] # "s_spawn" \/ \A w \in Workers : pc'[w] = pc[w]
    <3> SUFFICES ASSUME NEW c \in Callers, pc[c] = "s_spawn", NEW w \in Workers
                 PROVE  pc'[w] = pc[w]
      OBVIOUS
    <3>1. pc[w] = "unborn"
      BY DEF Exclusive
    <3> QED
      BY <1>1, <1>2, <2>1, <3>1
  <2>5. \A c, d \in Callers : call'[c] = "resume" /\ call'[d] = "resume" => c = d
    BY <1>2 DEF Exclusive
  <2> QED
    BY <1>2, <2>2, <2>3, <2>4, <2>5, ExclusiveKept
<1>3. ASSUME NEW w \in Workers, CallbackReturns(w)
      PROVE  Exclusive'
  <2>1. /\ pc[w] = "w_exec" /\ pc' = [pc EXCEPT ![w] = "w_ret"]
        /\ UNCHANGED <<row, at, call, active>>
    BY <1>3 DEF CallbackReturns, Here, Goto
  <2> QED
    BY <1>1, <1>2, <2>1 DEF ResumeLabels
<1>4. ASSUME NEW w \in Workers, Finally(w)
      PROVE  Exclusive'
  <2>1. /\ pc[w] = "w_finally" /\ pc' = [pc EXCEPT ![w] = "done"]
        /\ UNCHANGED <<row, at, call>>
        /\ active' = [active EXCEPT ![at[w]] = None]
    BY <1>4 DEF Finally, Here, Goto
  <2>2. \A p \in Processes : active'[p] = IF p = at[w] THEN None ELSE active[p]
    BY <2>1 DEF Grounded, IInv, TypeOK
  <2>3. ASSUME NEW v \in Workers, Registered(v)', at[v] \in Resumers
        PROVE  active'[at[v]] = active[at[v]]
    <3>1. v # w /\ Registered(v) /\ Registered(w)
      BY <1>1, <2>1, <2>3 DEF Registered, Grounded, IInv, TypeOK
    <3>2. active[at[v]] = v /\ (at[w] \in Resumers => active[at[w]] = w)
      BY <2>3, <3>1 DEF Exclusive
    <3>3. at[v] # at[w]
      BY <2>3, <3>1, <3>2
    <3> QED
      BY <1>1, <2>2, <2>3, <3>3
  <2> QED
    BY <1>1, <1>2, <2>1, <2>2, <2>3 DEF ResumeLabels
<1>5. ASSUME NEW w \in Workers, HostSpawns(w)
      PROVE  Exclusive'
  <2>1. /\ pc[w] = "h_spawn" /\ pc' = [pc EXCEPT ![w] = "born"]
        /\ UNCHANGED <<row, at, call>>
        /\ active' = [active EXCEPT ![Host] = w]
    BY <1>5 DEF HostSpawns, Here, Goto
  <2>2. \A p \in Servers : active'[p] = active[p]
    BY <2>1, ConstantsAssumption DEF ConstantsAssumption, Processes, Grounded, IInv, TypeOK
  <2> QED
    BY <1>1, <1>2, <2>1, <2>2 DEF ResumeLabels
<1>6. ASSUME NEW w \in Workers, HostExits(w)
      PROVE  Exclusive'
  <2>1. UNCHANGED <<row, pc, at, call, active>>
    BY <1>6 DEF HostExits
  <2> QED
    BY <2>1 DEF Exclusive, Current, Registered
<1>7. ASSUME NEW c \in Callers, Signal(c)
      PROVE  Exclusive'
  <2>1. /\ pc[c] = "c_signal" /\ pc' = [pc EXCEPT ![c] = "c_read"]
        /\ UNCHANGED <<row, at, call, active>>
    BY <1>7 DEF Signal, Here, Goto
  <2> QED
    BY <1>1, <1>2, <2>1 DEF ResumeLabels
<1>8. ASSUME NEW c \in Callers, BeginStep(c)
      PROVE  Exclusive'
  <2>1. PICK kind \in CallKinds, p \in Servers, label \in BeginLabels :
          /\ Begins(kind, label)
          /\ Begin(c, kind, p, label)
          /\ kind = "resume" =>
               /\ p \in Resumers
               /\ \A d \in Callers : ~ (at[d] = p /\ call[d] = "resume")
    BY <1>8, BeginShape
  <2>2. /\ pc[c] = "idle" /\ pc' = [pc EXCEPT ![c] = label]
        /\ at' = [at EXCEPT ![c] = p]
        /\ call' = [call EXCEPT ![c] = kind]
        /\ UNCHANGED <<row, active>>
    BY <2>1 DEF Begin, Here, Rest
  <2>3. label \notin ResumeLabels \cup {"s_spawn"}
    BY <2>1 DEF Begins, ResumeLabels, OneResumer
  <2>4. \A b \in Actors : /\ pc'[b] = IF b = c THEN label ELSE pc[b]
                          /\ at'[b] = IF b = c THEN p ELSE at[b]
    BY <2>2 DEF Grounded, IInv, TypeOK
  <2>5. \A w \in Workers : /\ Current(w)' => Current(w) /\ at'[w] = at[w]
                           /\ Registered(w)' => Registered(w) /\ at'[w] = at[w]
                           /\ pc'[w] = pc[w]
    BY <1>1, <2>4 DEF Current, Registered
  <2>6. \A d \in Callers : /\ pc'[d] \in ResumeLabels => pc'[d] = pc[d] /\ at'[d] = at[d]
                           /\ pc'[d] = "s_spawn" => pc[d] = "s_spawn"
    BY <1>1, <2>3, <2>4
  <2>7. \A d, e \in Callers : call'[d] = "resume" /\ call'[e] = "resume" => d = e
    <3>1. \A d \in Callers : call'[d] = IF d = c THEN kind ELSE call[d]
      BY <2>2 DEF Grounded, IInv, TypeOK
    <3>2. \A d \in Callers : call[d] = "resume" => at[d] \in Resumers
      BY DEF Grounded, InPlace, CallerInPlace
    <3>3. kind = "resume" => \A d \in Callers : call[d] # "resume"
      BY <2>1, <3>2 DEF OneResumer
    <3> QED
      BY <3>1, <3>3 DEF Exclusive
  <2> QED
    BY <2>2, <2>5, <2>6, <2>7, ExclusiveKept
<1>9. ASSUME NEW c \in Callers, NEW label \in {"s_spawn", "r_spawn"}, SpawnHere(c, label)
      PROVE  Exclusive'
  <2>1. PICK w \in Workers :
          /\ pc[w] = "unborn"
          /\ active' = [active EXCEPT ![at[c]] = w]
          /\ pc' = [pc EXCEPT ![w] = "born", ![c] = "p_start"]
          /\ at' = [at EXCEPT ![w] = at[c]]
    BY <1>9 DEF SpawnHere
  <2>2. pc[c] = label /\ UNCHANGED <<row, call>>
    BY <1>9 DEF SpawnHere, Here
  <2>3. at[c] \in Servers
    BY <2>2 DEF Grounded, InPlace, CallerInPlace
  <2>4. /\ pc'[w] = "born" /\ pc'[c] = "p_start"
        /\ \A a \in Actors : a # w /\ a # c => pc'[a] = pc[a]
        /\ \A q \in Processes : q # at[c] => active'[q] = active[q]
    BY <1>1, <2>1 DEF Grounded, IInv, TypeOK
  <2> QED
    BY <1>1, <2>1, <2>2, <2>3, <2>4, ExclusiveSpawn
<1>10. ASSUME NEW c \in Callers, StartThread(c)
       PROVE  Exclusive'
  <2>1. PICK w \in Workers :
          /\ pc[w] = "born"
          /\ pc' = [pc EXCEPT ![w] = "w_check1", ![c] = "idle"]
    BY <1>10 DEF StartThread
  <2>2. /\ UNCHANGED <<row, active>>
        /\ at' = [at EXCEPT ![c] = None]
        /\ call' = [call EXCEPT ![c] = "none"]
    BY <1>10 DEF StartThread
  <2>3. \A b \in Actors : /\ pc'[b] = IF b = c THEN "idle" ELSE IF b = w THEN "w_check1" ELSE pc[b]
                          /\ at'[b] = IF b = c THEN None ELSE at[b]
    BY <1>1, <2>1, <2>2 DEF Grounded, IInv, TypeOK
  <2>4. \A v \in Workers : /\ Current(v)' => Current(v) /\ at'[v] = at[v]
                           /\ Registered(v)' => Registered(v) /\ at'[v] = at[v]
    BY <1>1, <2>1, <2>3 DEF Current, Registered
  <2>5. \A d \in Callers : /\ pc'[d] \in ResumeLabels => pc'[d] = pc[d] /\ at'[d] = at[d]
                           /\ pc'[d] = "s_spawn" => pc[d] = "s_spawn"
    BY <1>1, <2>3 DEF ResumeLabels
  <2>6. \A d \in Callers : pc[d] # "s_spawn"
    BY <2>1 DEF Exclusive
  <2>7. \A d, e \in Callers : call'[d] = "resume" /\ call'[e] = "resume" => d = e
    BY <2>2 DEF Exclusive, Grounded, IInv, TypeOK
  <2> QED
    BY <2>2, <2>4, <2>5, <2>6, <2>7, ExclusiveKept
<1>11. ASSUME NEW c \in Callers, SpawnHost(c)
       PROVE  Exclusive'
  <2>1. PICK w \in Workers :
          /\ pc[w] = "unborn"
          /\ pc' = [pc EXCEPT ![w] = "h_wait", ![c] = "s_reserve"]
          /\ at' = [at EXCEPT ![w] = Host]
    BY <1>11 DEF SpawnHost
  <2>2. pc[c] = "s_spawn" /\ UNCHANGED <<row, call, active>>
    BY <1>11 DEF SpawnHost, Here
  <2>3. /\ pc'[w] = "h_wait" /\ pc'[c] = "s_reserve"
        /\ \A a \in Actors : a # w /\ a # c => pc'[a] = pc[a]
    BY <1>1, <2>1 DEF Grounded, IInv, TypeOK
  <2> QED
    BY <1>1, <2>1, <2>2, <2>3, ExclusiveSpawn
<1>12. ASSUME NEW c \in Callers, Reserve(c)
       PROVE  Exclusive'
  <2>1. /\ pc[c] = "s_reserve"
        /\ \A a \in Actors : pc'[a] = IF a = c THEN "s_pid"
                                      ELSE IF pc[a] = "h_wait" THEN "h_claim" ELSE pc[a]
        /\ UNCHANGED <<row, active, at, call>>
    BY <1>12 DEF Reserve, Here
  <2>2. \A w \in Workers : /\ Current(w)' => Current(w) /\ at'[w] = at[w]
                           /\ Registered(w)' => Registered(w) /\ at'[w] = at[w]
    BY <1>1, <2>1 DEF Current, Registered
  <2>3. \A d \in Callers : /\ pc'[d] \in ResumeLabels => pc'[d] = pc[d] /\ at'[d] = at[d]
                           /\ pc'[d] = "s_spawn" => pc[d] = "s_spawn"
    BY <1>1, <2>1 DEF ResumeLabels
  <2>4. \A d \in Callers : pc[d] = "s_spawn" => \A w \in Workers : pc'[w] = pc[w]
    <3> SUFFICES ASSUME NEW d \in Callers, pc[d] = "s_spawn", NEW w \in Workers
                 PROVE  pc'[w] = pc[w]
      OBVIOUS
    <3>1. pc[w] = "unborn"
      BY DEF Exclusive
    <3> QED
      BY <1>1, <2>1, <3>1
  <2>5. \A d, e \in Callers : call'[d] = "resume" /\ call'[e] = "resume" => d = e
    BY <2>1 DEF Exclusive
  <2> QED
    BY <2>1, <2>2, <2>3, <2>4, <2>5, ExclusiveKept
<1>13. ASSUME NEW p \in Processes, Crash(p)
       PROVE  Exclusive'
  <2>1. /\ row' = row
        /\ active' = [active EXCEPT ![p] = None]
        /\ \A a \in Actors :
             \/ UNCHANGED <<pc[a], at[a]>> /\ (at[a] # p \/ pc[a] = "done")
             \/ pc'[a] = IF a \in Workers THEN "dead" ELSE "idle"
        /\ \A c \in Callers : call'[c] \in {"none", call[c]}
    BY <1>13 DEF Crash, Grounded, IInv, TypeOK
  <2>2. \A w \in Workers : /\ Current(w)' => Current(w) /\ at'[w] = at[w]
                           /\ Registered(w)' => Registered(w) /\ at'[w] = at[w] /\ at[w] # p
    BY <1>1, <2>1 DEF Current, Registered
  <2>3. \A d \in Callers : /\ pc'[d] \in ResumeLabels => pc'[d] = pc[d] /\ at'[d] = at[d]
                           /\ pc'[d] = "s_spawn" => pc[d] = "s_spawn"
    BY <1>1, <2>1 DEF ResumeLabels
  <2>4. \A d, e \in Callers : call'[d] = "resume" /\ call'[e] = "resume" => d = e
    BY <2>1 DEF Exclusive
  <2>5. \A q \in Processes : active'[q] = IF q = p THEN None ELSE active[q]
    BY <2>1 DEF Grounded, IInv, TypeOK
  <2>6. \A d \in Callers : pc[d] = "s_spawn" => \A w \in Workers : pc'[w] = pc[w]
    <3> SUFFICES ASSUME NEW d \in Callers, pc[d] = "s_spawn", NEW w \in Workers
                 PROVE  pc'[w] = pc[w]
      OBVIOUS
    <3>1. pc[w] = "unborn"
      BY DEF Exclusive
    <3>2. at[w] = None /\ p # None
      BY <3>1, ConstantsAssumption
      DEF ConstantsAssumption, Processes, Grounded, InPlace, WorkerInPlace
    <3> QED
      BY <1>1, <1>13, <3>2 DEF Crash, Grounded, IInv, TypeOK
  <2> QED
    BY <1>1, <2>1, <2>2, <2>3, <2>4, <2>5, <2>6, ExclusiveKept
<1>14. ASSUME NEW c \in Callers, SpawnInProcess(c) \/ ResumeSpawn(c)
       PROVE  Exclusive'
  BY <1>9, <1>14 DEF SpawnInProcess, ResumeSpawn
<1> QED
  BY <1>3, <1>4, <1>5, <1>6, <1>7, <1>8, <1>10, <1>11, <1>12, <1>13, <1>14 DEF Special

LEMMA ExclusiveAlways ==
  ASSUME OneResumer
  PROVE  Spec => []Exclusive
<1>1. Init => Exclusive
  <2> SUFFICES ASSUME Init PROVE Exclusive
    OBVIOUS
  <2>1. Launcher \in Callers /\ Workers \cap Callers = {}
    BY ConstantsAssumption DEF ConstantsAssumption
  <2>2. row.state = "CREATED"
    BY DEF Init, Created
  <2> QED
    BY <2>1, <2>2
    DEF Init, Exclusive, Current, Registered, Actors, Resuming, ResumeLabels
<1>2. Grounded /\ Exclusive /\ [Next]_vars => Exclusive'
  <2>1. CASE UNCHANGED vars
    BY <2>1 DEF vars, Exclusive, Current, Registered
  <2> QED
    BY <2>1, Shape, ExclusiveOrdinary, ExclusiveSpecial DEF Grounded
<1> QED
  BY <1>1, <1>2, GroundedAlways, PTL DEF Spec

\* Under the one-resumer hypothesis, two executions never run the task at the same time.
THEOREM ExecutionsExclude ==
  ASSUME OneResumer
  PROVE  Spec => []OneExecution
<1>1. Exclusive => OneExecution
  BY DEF Exclusive, OneExecution, Executing, Current
<1> QED
  BY <1>1, ExclusiveAlways, PTL

\* And then an execution that dies of an exception fails nobody else's run.
THEOREM ExceptionsStayHome ==
  ASSUME OneResumer
  PROVE  Spec => ExceptionFailsOwnRun
<1> DEFINE Foreign ==
      \A v, w \in Workers :
        pc[v] = "w_exceptFail" /\ pc'[v] = "w_finally" /\ v # w /\ Executing(w)
          => row'.state = row.state
<1>1. Exclusive /\ [Next]_vars => [Foreign]_vars
  <2>1. ASSUME Exclusive, NEW v \in Workers, NEW w \in Workers, pc[v] = "w_exceptFail",
               v # w, Executing(w)
        PROVE  FALSE
    BY <2>1 DEF Exclusive, Current, Executing
  <2> QED
    BY <2>1
<1> QED
  BY <1>1, ExclusiveAlways, PTL DEF Spec, ExceptionFailsOwnRun

-----------------------------------------------------------------------------
(* The special steps, each reduced to what it does to the row, the processes,  *)
(* the registry and the records.                                               *)

\* Only actor a goes on, at the label.
Sets(a, label) == \A b \in Actors : pc'[b] = IF b = a THEN label ELSE pc[b]

Returning == \E w \in Workers :
  /\ pc[w] = "w_exec" /\ Sets(w, "w_ret")
  /\ UNCHANGED <<up, active, at, call, seen, peek>>
Popping == \E w \in Workers :
  /\ pc[w] = "w_finally" /\ Sets(w, "done")
  /\ \A p \in Processes : active'[p] = IF p = at[w] THEN None ELSE active[p]
  /\ \A b \in Actors : seen'[b] = IF b = w THEN Created ELSE seen[b]
  /\ UNCHANGED <<up, at, call, peek>>
Registering == \E w \in Workers :
  /\ pc[w] = "h_spawn" /\ Sets(w, "born")
  /\ \A p \in Processes : active'[p] = IF p = Host THEN w ELSE active[p]
  /\ \A b \in Actors : seen'[b] = IF b = w THEN row ELSE seen[b]
  /\ UNCHANGED <<up, at, call, peek>>
Exiting == \E w \in Workers :
  /\ pc[w] = "done" /\ at[w] = Host
  /\ \A p \in Processes : up'[p] = (up[p] /\ p # Host)
  /\ UNCHANGED <<pc, active, at, call, seen, peek>>
Signalling == \E c \in Callers :
  /\ pc[c] = "c_signal" /\ Sets(c, "c_read")
  /\ UNCHANGED <<up, active, at, call, seen, peek>>
Beginning == \E c \in Callers, kind \in CallKinds, p \in Servers, label \in BeginLabels :
  /\ pc[c] = "idle" /\ Begins(kind, label) /\ Sets(c, label)
  /\ EarlyCalls \/ \A d \in Callers : call[d] # "start"
  /\ \A b \in Actors : at'[b] = IF b = c THEN p ELSE at[b]
  /\ \A d \in Callers : call'[d] = IF d = c THEN kind ELSE call[d]
  /\ UNCHANGED <<up, active, seen, peek>>
Spawning == \E c \in Callers, w \in Workers :
  /\ pc[c] = "r_spawn" \/ (InProcess /\ pc[c] = "s_spawn")
  /\ pc[w] = "unborn"
  /\ at[c] \in Servers
  /\ \A b \in Actors : pc'[b] = IF b = c THEN "p_start" ELSE IF b = w THEN "born" ELSE pc[b]
  /\ \A p \in Processes : active'[p] = IF p = at[c] THEN w ELSE active[p]
  /\ \A b \in Actors : /\ at'[b] = IF b = w THEN at[c] ELSE at[b]
                       /\ seen'[b] = IF b = w THEN seen[c] ELSE seen[b]
  /\ UNCHANGED <<up, call, peek>>
Starting == \E c \in Callers, w \in Workers :
  /\ pc[c] = "p_start" /\ pc[w] = "born" /\ at[w] = at[c]
  /\ \A b \in Actors : /\ pc'[b] = IF b = c THEN "idle" ELSE IF b = w THEN "w_check1" ELSE pc[b]
                       /\ at'[b] = IF b = c THEN None ELSE at[b]
                       /\ seen'[b] = IF b = c THEN Created ELSE seen[b]
  /\ \A d \in Callers : call'[d] = IF d = c THEN "none" ELSE call[d]
  /\ UNCHANGED <<up, active, peek>>
Hosting == \E c \in Callers, w \in Workers :
  /\ ~ InProcess /\ pc[c] = "s_spawn" /\ pc[w] = "unborn"
  /\ \A b \in Actors : /\ pc'[b] = IF b = c THEN "s_reserve" ELSE IF b = w THEN "h_wait" ELSE pc[b]
                       /\ at'[b] = IF b = w THEN Host ELSE at[b]
  /\ \A p \in Processes : up'[p] = (up[p] \/ p = Host)
  /\ UNCHANGED <<active, call, seen, peek>>
Reserving == \E c \in Callers :
  /\ pc[c] = "s_reserve"
  /\ \A b \in Actors : pc'[b] = IF b = c THEN "s_pid" ELSE IF pc[b] = "h_wait" THEN "h_claim" ELSE pc[b]
  /\ UNCHANGED <<up, active, at, call, seen, peek>>
Dying == \E p \in Processes :
  /\ \A q \in Processes : /\ up'[q] = (up[q] /\ q # p)
                          /\ active'[q] = IF q = p THEN None ELSE active[q]
  /\ \A b \in Actors :
       IF at[b] = p /\ pc[b] # "done"
       THEN /\ pc'[b] = IF b \in Workers THEN "dead" ELSE "idle"
            /\ at'[b] = None /\ seen'[b] = Created /\ peek'[b] = Created
       ELSE UNCHANGED <<pc[b], at[b], seen[b], peek[b]>>
  /\ \A d \in Callers : call'[d] = IF at[d] = p THEN "none" ELSE call[d]

LEMMA Digest ==
  ASSUME Grounded, Special
  PROVE  /\ row' = row
         /\ \/ Returning \/ Popping \/ Registering \/ Exiting \/ Signalling \/ Beginning
            \/ Spawning \/ Starting \/ Hosting \/ Reserving \/ Dying
<1>1. /\ \A w \in Workers : w \in Actors /\ w \notin Callers
      /\ \A c \in Callers : c \in Actors /\ c \notin Workers
      /\ Servers \subseteq Processes /\ Host \in Processes
  BY ConstantsAssumption DEF ConstantsAssumption, Actors, Processes
<1>2. row' = row
  BY SpecialShape DEF Grounded
<1>3. /\ pc \in [Actors -> Labels] /\ at \in [Actors -> Processes \cup {None}]
      /\ seen \in [Actors -> Rows] /\ active \in [Processes -> Workers \cup {None}]
      /\ up \in [Processes -> BOOLEAN] /\ call \in [Callers -> Calls]
  BY DEF Grounded, IInv, TypeOK
<1>4. ASSUME NEW w \in Workers, CallbackReturns(w) PROVE Returning
  BY <1>1, <1>3, <1>4 DEF CallbackReturns, Here, Goto, Returning, Sets
<1>5. ASSUME NEW w \in Workers, Finally(w) PROVE Popping
  BY <1>1, <1>3, <1>5 DEF Finally, Here, Goto, Keep, Popping, Sets
<1>6. ASSUME NEW w \in Workers, HostSpawns(w) PROVE Registering
  BY <1>1, <1>3, <1>6 DEF HostSpawns, Here, Goto, Registering, Sets
<1>7. ASSUME NEW w \in Workers, HostExits(w) PROVE Exiting
  <2>1. \A p \in Processes : up'[p] = (up[p] /\ p # Host)
    <3> SUFFICES ASSUME NEW p \in Processes PROVE up'[p] = (up[p] /\ p # Host)
      OBVIOUS
    <3>1. up' = [up EXCEPT ![Host] = FALSE] /\ up[p] \in BOOLEAN
      BY <1>3, <1>7 DEF HostExits
    <3>2. CASE p = Host
      BY <1>3, <3>1, <3>2
    <3>3. CASE p # Host
      BY <1>3, <3>1, <3>3
    <3> QED
      BY <3>2, <3>3
  <2> QED
    BY <1>7, <2>1 DEF HostExits, Exiting
<1>8. ASSUME NEW c \in Callers, Signal(c) PROVE Signalling
  BY <1>1, <1>3, <1>8 DEF Signal, Here, Goto, Signalling, Sets
<1>9. ASSUME NEW c \in Callers, BeginStep(c) PROVE Beginning
  <2>1. PICK kind \in CallKinds, p \in Servers, label \in BeginLabels :
          Begins(kind, label) /\ Begin(c, kind, p, label)
    BY <1>9, BeginShape
  <2>2. /\ Sets(c, label)
        /\ \A b \in Actors : at'[b] = IF b = c THEN p ELSE at[b]
        /\ \A d \in Callers : call'[d] = IF d = c THEN kind ELSE call[d]
    BY <1>1, <1>3, <2>1 DEF Begin, Sets
  <2> QED
    BY <2>1, <2>2 DEF Begin, Here, Rest, Beginning
<1>10. ASSUME NEW c \in Callers, SpawnInProcess(c) \/ ResumeSpawn(c) PROVE Spawning
  <2>1. PICK label \in {"s_spawn", "r_spawn"} : SpawnHere(c, label) /\ (label = "s_spawn" => InProcess)
    BY <1>10 DEF SpawnInProcess, ResumeSpawn
  <2>2. PICK w \in Workers :
          /\ pc[w] = "unborn"
          /\ active' = [active EXCEPT ![at[c]] = w]
          /\ pc' = [pc EXCEPT ![w] = "born", ![c] = "p_start"]
          /\ at' = [at EXCEPT ![w] = at[c]]
          /\ seen' = [seen EXCEPT ![w] = seen[c]]
    BY <2>1 DEF SpawnHere
  <2>3. pc[c] = label /\ UNCHANGED <<up, call, peek>>
    BY <2>1 DEF SpawnHere, Here
  <2>4. at[c] \in Servers
    BY <2>3 DEF Grounded, InPlace, CallerInPlace
  <2> QED
    BY <1>1, <1>3, <2>1, <2>2, <2>3, <2>4 DEF Spawning
<1>11. ASSUME NEW c \in Callers, StartThread(c) PROVE Starting
  <2>1. PICK w \in Workers :
          /\ pc[w] = "born" /\ at[w] = at[c]
          /\ pc' = [pc EXCEPT ![w] = "w_check1", ![c] = "idle"]
    BY <1>11 DEF StartThread
  <2> QED
    BY <1>1, <1>3, <1>11, <2>1 DEF StartThread, Here, Starting
<1>12. ASSUME NEW c \in Callers, SpawnHost(c) PROVE Hosting
  <2>1. PICK w \in Workers :
          /\ pc[w] = "unborn"
          /\ pc' = [pc EXCEPT ![w] = "h_wait", ![c] = "s_reserve"]
          /\ at' = [at EXCEPT ![w] = Host]
    BY <1>12 DEF SpawnHost
  <2>2. \A p \in Processes : up'[p] = (up[p] \/ p = Host)
    <3> SUFFICES ASSUME NEW p \in Processes PROVE up'[p] = (up[p] \/ p = Host)
      OBVIOUS
    <3>1. up' = [up EXCEPT ![Host] = TRUE] /\ up[p] \in BOOLEAN
      BY <1>3, <1>12 DEF SpawnHost
    <3>2. CASE p = Host
      BY <1>3, <3>1, <3>2
    <3>3. CASE p # Host
      BY <1>3, <3>1, <3>3
    <3> QED
      BY <3>2, <3>3
  <2> QED
    BY <1>1, <1>3, <1>12, <2>1, <2>2 DEF SpawnHost, Here, Hosting
<1>13. ASSUME NEW c \in Callers, Reserve(c) PROVE Reserving
  BY <1>13 DEF Reserve, Here, Reserving
<1>14. ASSUME NEW p \in Processes, Crash(p) PROVE Dying
  <2>1. \A q \in Processes : up'[q] = (up[q] /\ q # p)
    <3> SUFFICES ASSUME NEW q \in Processes PROVE up'[q] = (up[q] /\ q # p)
      OBVIOUS
    <3>1. up' = [up EXCEPT ![p] = FALSE] /\ up[q] \in BOOLEAN
      BY <1>3, <1>14 DEF Crash
    <3>2. CASE q = p
      BY <1>3, <3>1, <3>2
    <3>3. CASE q # p
      BY <1>3, <3>1, <3>3
    <3> QED
      BY <3>2, <3>3
  <2>2. \A q \in Processes : active'[q] = IF q = p THEN None ELSE active[q]
    BY <1>3, <1>14 DEF Crash
  <2>3. \A b \in Actors :
       IF at[b] = p /\ pc[b] # "done"
       THEN /\ pc'[b] = IF b \in Workers THEN "dead" ELSE "idle"
            /\ at'[b] = None /\ seen'[b] = Created /\ peek'[b] = Created
       ELSE UNCHANGED <<pc[b], at[b], seen[b], peek[b]>>
    BY <1>14 DEF Crash, Grounded, IInv, TypeOK
  <2>4. ASSUME NEW d \in Callers PROVE call'[d] = IF at[d] = p THEN "none" ELSE call[d]
    <3>1. pc[d] # "done"
      BY <1>1 DEF Grounded, InPlace, CallerInPlace, Belongs, CancelLabels, HarvestLabels, MarkLabels,
        ResumeLabels
    <3> QED
      BY <1>1, <1>3, <1>14, <3>1 DEF Crash
  <2> QED
    BY <2>1, <2>2, <2>3, <2>4 DEF Dying
<1> QED
  BY <1>2, <1>4, <1>5, <1>6, <1>7, <1>8, <1>9, <1>10, <1>11, <1>12, <1>13, <1>14 DEF Special

-----------------------------------------------------------------------------
(* While it runs, the row names the process of the execution.                 *)

\* run_start is alone until it returns, where its caller alone knows the run.
StartsFirst == \A c, d \in Callers : call[c] = "start" /\ c # d => call[d] = "none"

LEMMA StartsFirstAlways ==
  ASSUME ~ EarlyCalls
  PROVE  Spec => []StartsFirst
<1>1. Init => StartsFirst
  BY DEF Init, StartsFirst
<1>2. Grounded /\ StartsFirst /\ [Next]_vars => StartsFirst'
  <2> SUFFICES ASSUME Grounded, StartsFirst, [Next]_vars PROVE StartsFirst'
    OBVIOUS
  <2>1. CASE UNCHANGED vars
    BY <2>1 DEF vars, StartsFirst
  <2>2. CASE \E a \in Actors : \E then : Ordinary(a, then)
    <3>1. \A c \in Callers : call'[c] \in {call[c], "none"}
      BY <2>2, OrdinaryMoves
    <3> QED
      BY <3>1 DEF StartsFirst
  <2>3. CASE Special
    <3>1. CASE Beginning
      BY <3>1 DEF Beginning, Begins, StartsFirst
    <3>2. CASE ~ Beginning
      <4>1. \A c \in Callers : call'[c] \in {call[c], "none"}
        BY <2>3, <3>2, Digest
        DEF Returning, Popping, Registering, Exiting, Signalling, Spawning, Starting, Hosting,
            Reserving, Dying
      <4> QED
        BY <4>1 DEF StartsFirst
    <3> QED
      BY <3>1, <3>2
  <2> QED
    BY <2>1, <2>2, <2>3, Shape DEF Grounded
<1> QED
  BY <1>1, <1>2, GroundedAlways, PTL DEF Spec

\* Before update_worker_pid has run, whatever executes does so in the host; and nobody's pid
\* takes the place of the executing process's.
Named ==
  /\ \A c \in Callers : pc[c] \in {"s_spawn", "s_reserve", "s_pid"} =>
       \A w \in Workers : Current(w) => at[w] = Host
  /\ RunningPidIsExecutor

LEMMA NamedOrdinary ==
  ASSUME Grounded, Exclusive, Named, NEW a \in Actors, NEW then, Ordinary(a, then)
  PROVE  Named'
<1>1. /\ \A b \in Actors : pc'[b] = IF b = a THEN then ELSE pc[b]
      /\ \A w \in Workers : at'[w] = at[w]
      /\ \A w \in Workers : Current(w)' => Current(w)
  BY OrdinaryMoves
<1>2. /\ Follows(pc[a], then) /\ Kind(a, pc[a], then)
      /\ \A w \in Workers : w \in Actors
      /\ \A c \in Callers : c \in Actors
  BY DEF Ordinary, Moves, Actors
<1>3. ASSUME NEW c \in Callers, pc'[c] \in {"s_spawn", "s_reserve", "s_pid"}
      PROVE  pc[c] = pc'[c]
  BY <1>1, <1>2, <1>3
  DEF Follows, ApplyLabels, HarvestLabels, MarkLabels, ResumeLabels, CancelLabels
<1>4. ASSUME NEW w \in Workers, Executing(w)', row'.state = "RUNNING"
      PROVE  row'.pid = at[w]
  <2>1. CASE w = a
    <3>1. pc[w] = "w_run" /\ then = "w_exec"
      BY <1>1, <1>2, <1>4, <2>1
      DEF Executing, Follows, ApplyLabels, HarvestLabels, MarkLabels, ResumeLabels, CancelLabels
    <3>2. Writes(a, then)
      BY <2>1, <3>1 DEF Ordinary, StoresHost, Refused
    <3> QED
      BY <2>1, <3>1, <3>2 DEF Writes, WritesAs, Written
  <2>2. CASE w # a
    <3>1. Executing(w) /\ Current(w)
      BY <1>1, <1>2, <1>4, <2>2 DEF Executing, Current
    <3>2. CASE row' = row
      BY <1>4, <3>1, <3>2 DEF Named, RunningPidIsExecutor
    <3>3. CASE StoresHost(a)
      <4>1. row'.pid = Host
        BY <3>3 DEF StoresHost, Grounded, IInv, TypeOK, Rows
      <4>2. pc[a] # "h_claim"
        <5> SUFFICES ASSUME pc[a] = "h_claim" PROVE FALSE
          OBVIOUS
        <5>1. a \in Workers /\ Current(a)
          BY <1>2 DEF Kind, CallerLabels, HarvestLabels, MarkLabels, Current
        <5> QED
          BY <2>2, <3>1, <5>1 DEF Exclusive
      <4>3. a \in Callers /\ pc[a] = "s_pid"
        BY <1>2, <3>3, <4>2 DEF StoresHost, Kind, CallerLabels
      <4> QED
        BY <3>1, <4>1, <4>3 DEF Named
    <3>4. CASE Writes(a, then)
      <4>1. pc[a] = "w_run"
        BY <1>4, <3>4
        DEF Writes, WritesAs, Written, Target, SuspendedStates
      <4>2. a \in Workers /\ Current(a)
        BY <1>2, <4>1 DEF Kind, CallerLabels, HarvestLabels, MarkLabels, Current
      <4> QED
        BY <2>2, <3>1, <4>2 DEF Exclusive
    <3> QED
      BY <3>2, <3>3, <3>4 DEF Ordinary
  <2> QED
    BY <2>1, <2>2
<1> QED
  BY <1>1, <1>3, <1>4 DEF Named, RunningPidIsExecutor

LEMMA NamedSpecial ==
  ASSUME Grounded, Exclusive, StartsFirst, Named, Special
  PROVE  Named'
<1>1. /\ row' = row
      /\ \/ Returning \/ Popping \/ Registering \/ Exiting \/ Signalling \/ Beginning
         \/ Spawning \/ Starting \/ Hosting \/ Reserving \/ Dying
  BY Digest
<1>2. /\ \A w \in Workers : w \in Actors /\ w \notin Callers
      /\ \A c \in Callers : c \in Actors /\ c \notin Workers
  BY ConstantsAssumption DEF ConstantsAssumption, Actors
<1>3. ASSUME \A w \in Workers : Current(w)' => Current(w) /\ at'[w] = at[w],
             \A w \in Workers : Executing(w)' => Executing(w),
             \A c \in Callers : pc'[c] \in {"s_spawn", "s_reserve", "s_pid"} =>
               pc[c] \in {"s_spawn", "s_reserve", "s_pid"}
      PROVE  Named'
  BY <1>1, <1>3 DEF Named, RunningPidIsExecutor, Executing, Current
<1>4. CASE Returning \/ Popping \/ Registering \/ Exiting \/ Signalling
  BY <1>2, <1>3, <1>4
  DEF Returning, Popping, Registering, Exiting, Signalling, Sets, Current, Executing
<1>5. CASE Beginning
  BY <1>2, <1>3, <1>5 DEF Beginning, Begins, Sets, Current, Executing
<1>6. CASE Spawning
  <2>1. PICK c \in Callers, w \in Workers :
          /\ pc[c] = "r_spawn" \/ (InProcess /\ pc[c] = "s_spawn")
          /\ pc[w] = "unborn"
          /\ \A b \in Actors :
               /\ pc'[b] = IF b = c THEN "p_start" ELSE IF b = w THEN "born" ELSE pc[b]
               /\ at'[b] = IF b = w THEN at[c] ELSE at[b]
    BY <1>6 DEF Spawning
  <2>2. CallerInPlace(c) /\ \A d \in Callers : CallerInPlace(d)
    BY DEF Grounded, InPlace
  <2>3. call[c] # "none"
    BY <2>1, <2>2 DEF CallerInPlace, Belongs
  <2>4. \A d \in Callers : pc[d] \in {"s_spawn", "s_reserve", "s_pid"} => call[d] = "start"
    BY <2>2
    DEF CallerInPlace, Belongs, CancelLabels, HarvestLabels, MarkLabels, ResumeLabels
  <2>5. \A d \in Callers : pc'[d] \notin {"s_spawn", "s_reserve", "s_pid"}
    BY <1>2, <2>1, <2>3, <2>4 DEF StartsFirst
  <2> QED
    BY <1>1, <1>2, <2>1, <2>5 DEF Named, RunningPidIsExecutor, Executing
<1>7. CASE Starting
  BY <1>2, <1>3, <1>7 DEF Starting, Current, Executing
<1>8. CASE Hosting
  <2>1. PICK c \in Callers, w \in Workers :
          /\ pc[c] = "s_spawn" /\ pc[w] = "unborn"
          /\ \A b \in Actors :
               /\ pc'[b] = IF b = c THEN "s_reserve" ELSE IF b = w THEN "h_wait" ELSE pc[b]
               /\ at'[b] = IF b = w THEN Host ELSE at[b]
    BY <1>8 DEF Hosting
  <2>2. \A v \in Workers : v # w => ~ Current(v)'
    BY <1>2, <2>1 DEF Exclusive, Current
  <2>3. at'[w] = Host /\ ~ Executing(w)'
    BY <1>2, <2>1 DEF Executing
  <2>4. \A v \in Workers : Executing(v)' => Current(v)'
    BY DEF Executing, Current
  <2> QED
    BY <2>2, <2>3, <2>4 DEF Named, RunningPidIsExecutor
<1>9. CASE Reserving
  BY <1>2, <1>3, <1>9 DEF Reserving, Current, Executing
<1>10. CASE Dying
  BY <1>2, <1>3, <1>10 DEF Dying, Current, Executing
<1> QED
  BY <1>1, <1>4, <1>5, <1>6, <1>7, <1>8, <1>9, <1>10

\* An execution that runs the run does so in the process that the row names, for callers
\* that wait for run_start and under the one-resumer hypothesis.
THEOREM PidNamesExecutor ==
  ASSUME OneResumer, ~ EarlyCalls
  PROVE  Spec => []RunningPidIsExecutor
<1>1. Init => Named
  <2> SUFFICES ASSUME Init PROVE Named
    OBVIOUS
  <2>1. Launcher \in Callers /\ Workers \cap Callers = {}
    BY ConstantsAssumption DEF ConstantsAssumption
  <2>2. \A w \in Workers : pc[w] = "unborn"
    BY <2>1 DEF Init, Actors
  <2> QED
    BY <2>2 DEF Named, RunningPidIsExecutor, Current, Executing
<1>2. Grounded /\ Exclusive /\ StartsFirst /\ Named /\ [Next]_vars => Named'
  <2>1. CASE UNCHANGED vars
    BY <2>1 DEF vars, Named, RunningPidIsExecutor, Current, Executing
  <2> QED
    BY <2>1, Shape, NamedOrdinary, NamedSpecial DEF Grounded
<1>3. Named => RunningPidIsExecutor
  BY DEF Named
<1> QED
  BY <1>1, <1>2, <1>3, GroundedAlways, ExclusiveAlways, StartsFirstAlways, PTL DEF Spec

-----------------------------------------------------------------------------
(* Observers are right: nothing that executes is interrupted or completed.     *)

\* Nobody resumes the run or marks it without looking: callers cancel, observe, check its
\* readiness for recovery, and handle inconsistent evidence.
NoResumption == {"resume", "recover", "mark"} \cap CallKinds = {}

\* There is one execution, and it is spawned once.
Lone ==
  /\ \A v, w \in Workers : pc[v] # "unborn" /\ pc[w] # "unborn" => v = w
  /\ \A c \in Callers : pc[c] = "s_spawn" => \A w \in Workers : pc[w] = "unborn"

\* The execution has ended, and there will be no other.
Over ==
  /\ \A w \in Workers : ~ Registered(w)
  /\ \A c \in Callers : pc[c] # "s_spawn"

\* Without resumptions nobody stands inside one, and who spawns is the launcher.
LEMMA NobodyResumes ==
  ASSUME Grounded, NoResumption, NEW c \in Callers
  PROVE  /\ pc[c] \notin ResumeLabels \cup {"r_status"}
         /\ pc[c] \in {"s_spawn", "s_reserve", "s_pid", "s_fail", "p_start"} =>
              c = Launcher /\ call[c] = "start"
<1>1. CallerInPlace(c)
  BY DEF Grounded, InPlace
<1> QED
  BY <1>1
  DEF CallerInPlace, NoResumption, Belongs, ResumeLabels, CancelLabels, HarvestLabels, MarkLabels

LEMMA LoneStep ==
  ASSUME Grounded, NoResumption, Lone, Next
  PROVE  Lone' /\ (Over => Over')
<1>1. /\ \A w \in Workers : w \in Actors /\ w \notin Callers
      /\ \A c \in Callers : c \in Actors /\ c \notin Workers
  BY ConstantsAssumption DEF ConstantsAssumption, Actors
<1>2. ASSUME \A w \in Workers : pc'[w] = "unborn" <=> pc[w] = "unborn",
             \A w \in Workers : Registered(w)' => Registered(w),
             \A c \in Callers : pc'[c] = "s_spawn" => pc[c] = "s_spawn"
      PROVE  Lone' /\ (Over => Over')
  BY <1>2 DEF Lone, Over
<1>3. CASE \E a \in Actors : \E then : Ordinary(a, then)
  BY <1>2, <1>3, OrdinaryMoves
<1>4. CASE Special
  <2>1. \/ Returning \/ Popping \/ Registering \/ Exiting \/ Signalling \/ Beginning
        \/ Spawning \/ Starting \/ Hosting \/ Reserving \/ Dying
    BY <1>4, Digest
  <2>2. CASE Returning \/ Popping \/ Registering \/ Exiting \/ Signalling
    BY <1>1, <1>2, <2>2
    DEF Returning, Popping, Registering, Exiting, Signalling, Sets, Registered
  <2>3. CASE Beginning
    BY <1>1, <1>2, <2>3 DEF Beginning, Begins, Sets, Registered
  <2>4. CASE Starting
    BY <1>1, <1>2, <2>4 DEF Starting, Registered
  <2>5. CASE Reserving
    BY <1>1, <1>2, <2>5 DEF Reserving, Registered
  <2>6. CASE Dying
    <3>1. \A w \in Workers : pc[w] = "unborn" => at[w] = None
      BY DEF Grounded, InPlace, WorkerInPlace
    <3>2. None \notin Processes
      BY ConstantsAssumption DEF ConstantsAssumption, Processes
    <3> QED
      BY <1>1, <1>2, <2>6, <3>1, <3>2 DEF Dying, Registered
  <2>7. CASE Spawning \/ Hosting
    <3>1. PICK c \in Callers, w \in Workers, label \in {"p_start", "s_reserve"},
               birth \in {"born", "h_wait"} :
            /\ pc[c] \in {"s_spawn", "r_spawn"}
            /\ \A b \in Actors :
                 pc'[b] = IF b = c THEN label ELSE IF b = w THEN birth ELSE pc[b]
      BY <2>7 DEF Spawning, Hosting
    <3>2. pc[c] = "s_spawn" /\ c = Launcher
      BY <3>1, NobodyResumes DEF ResumeLabels
    <3>3. \A d \in Callers : pc'[d] # "s_spawn"
      BY <1>1, <3>1, <3>2, NobodyResumes
    <3> QED
      BY <1>1, <3>1, <3>2, <3>3 DEF Lone, Over
  <2> QED
    BY <2>1, <2>2, <2>3, <2>4, <2>5, <2>6, <2>7
<1> QED
  BY <1>3, <1>4, Shape DEF Grounded

LEMMA LoneAlways ==
  ASSUME NoResumption
  PROVE  Spec => []Lone
<1>1. Init => Lone
  <2>1. Launcher \in Callers /\ Workers \cap Callers = {}
    BY ConstantsAssumption DEF ConstantsAssumption
  <2> QED
    BY <2>1 DEF Init, Lone, Actors
<1>2. Grounded /\ Lone /\ [Next]_vars => Lone'
  <2>1. UNCHANGED vars /\ Lone => Lone'
    BY DEF vars, Lone
  <2> QED
    BY <2>1, LoneStep
<1> QED
  BY <1>1, <1>2, GroundedAlways, PTL DEF Spec

\* In one of the states nobody executes the task.
Settled == {"COMPLETE"} \cup OrphanStates
Rests(states) == row.state \in states => \A w \in Workers : ~ Executing(w)

\* The run has ended, or nobody executes its task.
Harmless == row.state \in TerminalStates \/ \A w \in Workers : ~ Executing(w)

\* Whoever settles the run is an execution itself, or has seen that it is over.
LEMMA RestsStep ==
  ASSUME Grounded, Lone, NoResumption, Next,
         NEW states \in {{"COMPLETE"}, Settled}, Rests(states),
         (\E c \in Callers : pc[c] = "x_settle") => Harmless,
         "INTERRUPTED" \in states /\ (\E c \in Callers : pc[c] = "m_interrupt") => Harmless
  PROVE  Rests(states)'
<1>1. CASE \E a \in Actors : \E then : Ordinary(a, then)
  <2>1. PICK a \in Actors : \E then : Ordinary(a, then)
    BY <1>1
  <2>2. PICK then : Ordinary(a, then)
    BY <2>1
  <2>3. /\ \A b \in Actors : pc'[b] = IF b = a THEN then ELSE pc[b]
        /\ \A w \in Workers : w \in Actors
        /\ Follows(pc[a], then) /\ Kind(a, pc[a], then)
    <3>1. \A b \in Actors : pc'[b] = IF b = a THEN then ELSE pc[b]
      BY <2>2, OrdinaryMoves
    <3> QED
      BY <2>2, <3>1 DEF Ordinary, Moves, Actors
  <2> SUFFICES ASSUME row'.state \in states, NEW w \in Workers, Executing(w)'
               PROVE  FALSE
    BY DEF Rests
  <2>4. CASE w = a
    <3>1. pc[w] = "w_run" /\ then = "w_exec"
      BY <2>3, <2>4
      DEF Executing, Follows, ApplyLabels, HarvestLabels, MarkLabels, ResumeLabels, CancelLabels
    <3>2. Writes(a, then)
      BY <2>2, <2>4, <3>1 DEF Ordinary, StoresHost, Refused
    <3> QED
      BY <2>4, <3>1, <3>2
      DEF Writes, WritesAs, Written, Target, Settled, OrphanStates
  <2>5. CASE w # a
    <3>1. Executing(w)
      BY <2>3, <2>5 DEF Executing
    <3>2. row.state \notin states
      BY <3>1 DEF Rests
    <3>3. Writes(a, then)
      BY <2>2, <3>2 DEF Ordinary, StoresHost, Grounded, IInv, TypeOK, Rows
    <3>4. PICK to \in RunStates, given \in Verifications, pid \in Processes \cup {None} :
            WritesAs(a, then, to, given, pid)
      BY <3>3 DEF Writes
    <3>5. /\ row'.state = to
          /\ to = "COMPLETE" \/ (to = "INTERRUPTED" /\ "INTERRUPTED" \in states)
          /\ row.state \notin TerminalStates
      BY <3>2, <3>4
      DEF WritesAs, Written, CanWrite, CanTransition, AllowedTransitions, Settled, OrphanStates,
          TerminalStates
    <3>6. pc[a] \in {"w_complete", "x_settle"} \/ (pc[a] \in {"m_interrupt", "k_interrupt"} /\ to = "INTERRUPTED")
      BY <3>4, <3>5 DEF WritesAs, Target, SuspendedStates
    <3>7. a \notin Workers
      BY <2>5, <3>1, <3>6 DEF Lone, Executing
    <3>8. a \in Callers /\ (pc[a] = "x_settle" \/ (pc[a] = "m_interrupt" /\ to = "INTERRUPTED"))
      BY <2>3, <3>6, <3>7, NobodyResumes
      DEF Actors, Kind, CallerLabels, HarvestLabels, MarkLabels, ResumeLabels
    <3>9. Harmless
      BY <3>5, <3>8
    <3> QED
      BY <3>1, <3>5, <3>9 DEF Harmless
  <2> QED
    BY <2>4, <2>5
<1>2. CASE Special
  <2>1. row' = row /\ \A a \in Actors : Arrives(a)
    BY <1>2, SpecialShape DEF Grounded
  <2>2. \A w \in Workers : Executing(w)' => Executing(w)
    BY <2>1 DEF Arrives, Arrivals, Executing, Actors
  <2> QED
    BY <2>1, <2>2 DEF Rests
<1> QED
  BY <1>1, <1>2, Shape DEF Grounded

LEMMA OverIsHarmless == Over => Harmless
BY DEF Over, Harmless, Registered, Executing


\* Every pid that anybody knows is in S.
PidsIn(S) == row.pid \in S /\ \A a \in Actors : seen[a].pid \in S /\ peek[a].pid \in S

LEMMA PidsOrdinary ==
  ASSUME Grounded, NEW S, None \in S, PidsIn(S), NEW a \in Actors, NEW then, Ordinary(a, then),
         pc[a] \in {"s_pid", "h_claim"} => Host \in S, pc[a] = "w_run" => at[a] \in S
  PROVE  PidsIn(S)'
<1>1. row'.pid \in S
  <2>1. CASE row' = row
    BY <2>1 DEF PidsIn
  <2>2. CASE StoresHost(a)
    BY <2>2 DEF StoresHost, Grounded, IInv, TypeOK, Rows
  <2>3. CASE Writes(a, then)
    <3>1. PICK to \in RunStates, given \in Verifications, pid \in Processes \cup {None} :
            WritesAs(a, then, to, given, pid)
      BY <2>3 DEF Writes
    <3>2. row'.pid = pid /\ IF pc[a] = "w_run" THEN pid = at[a] ELSE pid \in SelectedPids(Known(a))
      BY <3>1 DEF WritesAs, Written
    <3> QED
      BY <3>2 DEF SelectedPids, Known, PidsIn
  <2> QED
    BY <2>1, <2>2, <2>3 DEF Ordinary
<1>2. seen'[a] \in {seen[a], row', Created} /\ peek'[a] \in {peek[a], row', Created}
  BY DEF Ordinary, Records
<1>3. \A b \in Actors : b # a => seen'[b] = seen[b] /\ peek'[b] = peek[b]
  BY DEF Ordinary, Moves
<1>4. Created.pid \in S
  BY DEF Created
<1>5. ASSUME NEW b \in Actors PROVE seen'[b].pid \in S /\ peek'[b].pid \in S
  BY <1>1, <1>2, <1>3, <1>4 DEF PidsIn
<1> QED
  BY <1>1, <1>5 DEF PidsIn

LEMMA PidsSpecial ==
  ASSUME IInv, NEW S, None \in S, PidsIn(S), Special
  PROVE  PidsIn(S)'
<1>1. row' = row /\ \A a \in Actors : Arrives(a)
  BY SpecialShape
<1>2. Created.pid \in S
  BY DEF Created
<1>3. ASSUME NEW a \in Actors PROVE seen'[a].pid \in S /\ peek'[a].pid \in S
  BY <1>1, <1>2 DEF Arrives, PidsIn
<1> QED
  BY <1>1, <1>3 DEF PidsIn

\* Nobody comes back to the spawn.
LEMMA SpawnOnce ==
  ASSUME Grounded, Next, NEW c \in Callers, pc'[c] = "s_spawn"
  PROVE  pc[c] = "s_spawn"
<1>1. CASE \E a \in Actors : \E then : Ordinary(a, then)
  BY <1>1, OrdinaryMoves
<1>2. CASE Special
  <2>1. Arrives(c)
    BY <1>2, SpecialShape DEF Grounded, Actors
  <2> QED
    BY <2>1 DEF Arrives, Arrivals
<1> QED
  BY <1>1, <1>2, Shape DEF Grounded

\* An external execution lives in the host, which the pid names as soon as there is a pid.
Hosted ==
  /\ \A w \in Workers : Registered(w) => at[w] = Host /\ up[Host]
  /\ PidsIn({None, Host})
  /\ (\E c \in Callers : pc[c] = "s_spawn") => PidsIn({None})

LEMMA HostedOrdinary ==
  ASSUME Grounded, NoResumption, Lone, Hosted, Next,
         NEW a \in Actors, NEW then, Ordinary(a, then)
  PROVE  Hosted'
<1>1. /\ up' = up
      /\ \A w \in Workers : at'[w] = at[w] /\ (Registered(w)' => Registered(w))
  BY OrdinaryMoves
<1>2. Follows(pc[a], then) /\ Kind(a, pc[a], then)
  BY DEF Ordinary, Moves
<1>3. pc[a] = "w_run" => a \in Workers /\ at[a] = Host
  BY <1>2 DEF Kind, CallerLabels, HarvestLabels, MarkLabels, Hosted, Registered
<1>4. PidsIn({None, Host})'
  BY <1>3, PidsOrdinary DEF Hosted
<1>5. ASSUME NEW c \in Callers, pc'[c] = "s_spawn"
      PROVE  PidsIn({None})'
  <2>1. pc[c] = "s_spawn" /\ PidsIn({None}) /\ \A w \in Workers : pc[w] = "unborn"
    BY <1>5, SpawnOnce DEF Hosted, Lone
  <2>2. pc[a] # "w_run" /\ pc[a] # "h_claim"
    BY <1>2, <2>1 DEF Kind, CallerLabels, HarvestLabels, MarkLabels
  <2>3. pc[a] # "s_pid"
    <3> SUFFICES ASSUME pc[a] = "s_pid" PROVE FALSE
      OBVIOUS
    <3>1. a \in Callers
      BY <1>2 DEF Kind, CallerLabels
    <3>2. a = Launcher /\ c = Launcher
      BY <2>1, <3>1, NobodyResumes
    <3> QED
      BY <2>1, <3>2
  <2> QED
    BY <2>1, <2>2, <2>3, PidsOrdinary
<1> QED
  BY <1>1, <1>4, <1>5 DEF Hosted

LEMMA HostedSpecial ==
  ASSUME Grounded, NoResumption, ~ InProcess, Lone, Hosted, Next, Special
  PROVE  Hosted'
<1>1. \/ Returning \/ Popping \/ Registering \/ Exiting \/ Signalling \/ Beginning
      \/ Spawning \/ Starting \/ Hosting \/ Reserving \/ Dying
  BY Digest
<1>2. /\ \A w \in Workers : w \in Actors /\ w \notin Callers
      /\ \A c \in Callers : c \in Actors /\ c \notin Workers
      /\ Host \in Processes
  BY ConstantsAssumption DEF ConstantsAssumption, Actors, Processes
<1>3. PidsIn({None, Host})' /\ (PidsIn({None}) => PidsIn({None})')
  BY PidsSpecial DEF Hosted, Grounded
<1>4. (\E c \in Callers : pc'[c] = "s_spawn") => PidsIn({None})'
  BY <1>3, SpawnOnce DEF Hosted
<1>5. ASSUME NEW w \in Workers, Registered(w)'
      PROVE  at'[w] = Host /\ up'[Host]
  <2>1. CASE Returning \/ Popping \/ Registering \/ Signalling
    BY <1>2, <1>5, <2>1
    DEF Returning, Popping, Registering, Signalling, Sets, Registered, Hosted
  <2>2. CASE Exiting
    BY <1>2, <1>5, <2>2 DEF Exiting, Registered, Hosted, Lone
  <2>3. CASE Beginning
    BY <1>2, <1>5, <2>3 DEF Beginning, Sets, Registered, Hosted
  <2>4. CASE Spawning
    BY <2>4, NobodyResumes DEF Spawning, ResumeLabels
  <2>5. CASE Starting
    BY <1>2, <1>5, <2>5 DEF Starting, Registered, Hosted
  <2>6. CASE Hosting
    BY <1>2, <1>5, <2>6 DEF Hosting, Registered, Hosted
  <2>7. CASE Reserving
    BY <1>2, <1>5, <2>7 DEF Reserving, Registered, Hosted
  <2>8. CASE Dying
    BY <1>2, <1>5, <2>8 DEF Dying, Registered, Hosted
  <2> QED
    BY <1>1, <2>1, <2>2, <2>3, <2>4, <2>5, <2>6, <2>7, <2>8
<1> QED
  BY <1>3, <1>4, <1>5 DEF Hosted

LEMMA HostedAlways ==
  ASSUME NoResumption, ~ InProcess
  PROVE  Spec => []Hosted
<1>1. Init => Hosted
  <2> SUFFICES ASSUME Init PROVE Hosted
    OBVIOUS
  <2>1. \A w \in Workers : ~ Registered(w)
    BY ConstantsAssumption DEF ConstantsAssumption, Init, Actors, Registered
  <2>2. row.pid = None /\ Created.pid = None
    BY DEF Init, Created
  <2>3. PidsIn({None})
    BY <2>2 DEF Init, PidsIn
  <2> QED
    BY <2>1, <2>3 DEF Hosted, PidsIn
<1>2. Grounded /\ Lone /\ Hosted /\ [Next]_vars => Hosted'
  <2>1. CASE UNCHANGED vars
    BY <2>1 DEF vars, Hosted, PidsIn, Registered
  <2> QED
    BY <2>1, Shape, HostedOrdinary, HostedSpecial DEF Grounded
<1> QED
  BY <1>1, <1>2, GroundedAlways, LoneAlways, PTL DEF Spec

\* An observer that looks into the worktree of an external run, or gives it up, found its
\* process gone.
Orphan == \A c \in Callers : pc[c] \in HarvestLabels \cup MarkLabels => Over

LEMMA OrphanStep ==
  ASSUME Grounded, NoResumption, ~ InProcess, ~ StaleBeats, Lone, Hosted, Orphan, Next
  PROVE  Orphan'
<1> SUFFICES ASSUME NEW c \in Callers, pc'[c] \in HarvestLabels \cup MarkLabels
             PROVE  Over'
  BY DEF Orphan
<1>1. c \in Actors /\ c \notin Workers
  BY ConstantsAssumption DEF ConstantsAssumption, Actors
<1>2. CASE pc[c] \in HarvestLabels \cup MarkLabels
  BY <1>2, LoneStep DEF Orphan
<1>3. CASE pc[c] \notin HarvestLabels \cup MarkLabels
  <2>1. CASE Special
    <3>1. Arrives(c)
      BY <1>1, <2>1, SpecialShape DEF Grounded
    <3> QED
      BY <1>3, <3>1 DEF Arrives, Arrivals, HarvestLabels, MarkLabels
  <2>2. CASE \E a \in Actors : \E then : Ordinary(a, then)
    <3>1. PICK a \in Actors : \E then : Ordinary(a, then)
      BY <2>2
    <3>2. PICK then : Ordinary(a, then)
      BY <3>1
    <3>3. \A b \in Actors : pc'[b] = IF b = a THEN then ELSE pc[b]
      BY <3>2, OrdinaryMoves
    <3>4. c = a /\ then \in HarvestLabels \cup MarkLabels
      BY <1>1, <1>3, <3>3
    <3>5. Follows(pc[c], then) /\ Kind(c, pc[c], then) /\ Permits(c, then)
      BY <3>2, <3>4 DEF Ordinary, Moves
    <3>6. pc[c] \in {"h_wait", "h_claim", "w_read", "o_probe"}
      BY <1>3, <3>4, <3>5
      DEF Follows, ApplyLabels, HarvestLabels, MarkLabels, ResumeLabels, CancelLabels
    <3>7. pc[c] = "o_probe"
      BY <1>1, <3>5, <3>6 DEF Kind, CallerLabels, HarvestLabels, MarkLabels
    <3>8. Orphaned(c)
      BY <3>4, <3>5, <3>7 DEF Permits, HarvestLabels, MarkLabels
    <3>9. seen[c].pid = Host /\ ~ up[Host]
      BY <1>1, <3>8 DEF Orphaned, PidAlive, Processes, Hosted, PidsIn
    <3>10. None # Host
      BY ConstantsAssumption DEF ConstantsAssumption
    <3>11. Over
      BY <1>1, <3>9, <3>10 DEF Over, Hosted, PidsIn
    <3> QED
      BY <3>11, LoneStep
  <2> QED
    BY <2>1, <2>2, Shape DEF Grounded
<1> QED
  BY <1>2, <1>3

\* Where observers give a run up only when it is over, they are right.
LEMMA OrphansSuffice ==
  ASSUME NoResumption
  PROVE  Spec /\ []Orphan => []ObserversAreRight
<1>1. Init => Rests(Settled)
  <2> SUFFICES ASSUME Init PROVE Rests(Settled)
    OBVIOUS
  <2>1. row.state = "CREATED"
    BY DEF Init, Created
  <2> QED
    BY <2>1 DEF Rests, Settled, OrphanStates
<1>2. Grounded /\ Lone /\ Orphan /\ Rests(Settled) /\ [Next]_vars => Rests(Settled)'
  <2> SUFFICES ASSUME Grounded, Lone, Orphan, Rests(Settled), [Next]_vars
               PROVE  Rests(Settled)'
    OBVIOUS
  <2>1. CASE UNCHANGED vars
    BY <2>1 DEF vars, Rests, Executing
  <2>2. CASE Next
    <3>1. (\E c \in Callers : pc[c] \in {"x_settle", "m_interrupt"}) => Harmless
      BY OverIsHarmless DEF Orphan, HarvestLabels, MarkLabels
    <3>2. Settled \in {{"COMPLETE"}, Settled}
      OBVIOUS
    <3> QED
      BY <2>2, <3>1, <3>2, RestsStep
  <2> QED
    BY <2>1, <2>2
<1>3. Rests(Settled) => ObserversAreRight
  BY DEF Rests, Settled, ObserversAreRight, ExecutingIsNotInterrupted, CompleteIsQuiet
<1> QED
  BY <1>1, <1>2, <1>3, GroundedAlways, LoneAlways, PTL DEF Spec

\* Observers of external runs whose heartbeats are fresh while their process lives neither
\* interrupt nor complete a run that is executing, whichever processes die, and when.
THEOREM ExternalObservers ==
  ASSUME NoResumption, ~ InProcess, ~ StaleBeats
  PROVE  Spec => []ObserversAreRight
<1>1. Init => Orphan
  <2> SUFFICES ASSUME Init PROVE Orphan
    OBVIOUS
  <2>1. \A c \in Callers : pc[c] \in {"s_spawn", "idle"}
    BY ConstantsAssumption DEF ConstantsAssumption, Init, Actors
  <2> QED
    BY <2>1 DEF Orphan, HarvestLabels, MarkLabels
<1>2. Grounded /\ Lone /\ Hosted /\ Orphan /\ [Next]_vars => Orphan'
  <2>1. UNCHANGED vars /\ Orphan => Orphan'
    BY DEF vars, Orphan, Over, Registered
  <2> QED
    BY <2>1, OrphanStep
<1> QED
  BY <1>1, <1>2, GroundedAlways, LoneAlways, HostedAlways, OrphansSuffice, PTL DEF Spec


-----------------------------------------------------------------------------
(* In-process runs.                                                           *)

\* Where the actor has not read the row since its operation began.
Blank == {"unborn", "dead", "done", "idle", "c_signal", "c_read", "o_read", "e_read", "f_read"}

\* The actor's records have the row's pid.
Informed(a) ==
  /\ pc[a] \notin Blank => seen[a].pid = row.pid
  /\ pc[a] \in {"x_verify", "x_settle"} => peek[a].pid = row.pid

\* The execution is registered where the pid says, and somebody is starting its thread.
AtHome(w) ==
  /\ at[w] = row.pid /\ active[row.pid] = w
  /\ pc[w] \notin {"h_wait", "h_claim", "h_spawn"}
  /\ pc[w] = "born" => \E c \in Callers : pc[c] = "p_start"

\* run_start is called in the process that the pid names, and starts no host.
StartsHere(c) ==
  /\ call[c] = "start" => at[c] = row.pid
  /\ pc[c] \notin {"s_reserve", "s_pid"}

\* An in-process execution is registered in the server that the pid names for good, and its
\* thread is started before run_start returns.
Owned ==
  /\ row.pid \in Servers
  /\ \A a \in Actors : Informed(a)
  /\ \A w \in Workers : Registered(w) => AtHome(w)
  /\ \A c \in Callers : StartsHere(c)

LEMMA OwnedOrdinary ==
  ASSUME Grounded, NoResumption, Lone, Owned, NEW a \in Actors, NEW then, Ordinary(a, then)
  PROVE  Owned' /\ row'.pid = row.pid
<1>1. /\ active' = active
      /\ \A b \in Actors : pc'[b] = IF b = a THEN then ELSE pc[b]
      /\ \A w \in Workers : at'[w] = at[w] /\ (Registered(w)' => Registered(w))
      /\ \A c \in Callers : /\ pc'[c] # "idle" => at'[c] = at[c] /\ call'[c] = call[c]
                            /\ call'[c] \in {call[c], "none"}
  BY OrdinaryMoves
<1>2. /\ Follows(pc[a], then) /\ Kind(a, pc[a], then) /\ Records(a, then)
      /\ \A b \in Actors : b # a => seen'[b] = seen[b] /\ peek'[b] = peek[b]
  BY DEF Ordinary, Moves
<1>3. \A b \in Workers \cup Callers : b \in Actors
  BY DEF Actors
<1>4. pc[a] \notin {"s_pid", "h_claim"}
  <2>1. pc[a] # "s_pid"
    BY <1>2 DEF Kind, CallerLabels, Owned, AtHome, StartsHere, Informed
  <2>2. pc[a] = "h_claim" => a \in Workers
    BY <1>2 DEF Kind, CallerLabels, HarvestLabels, MarkLabels
  <2> QED
    BY <2>1, <2>2 DEF Owned, Registered, AtHome, StartsHere, Informed
<1>5. row'.pid = row.pid
  <2>1. CASE row' = row
    BY <2>1
  <2>2. CASE Writes(a, then)
    <3>1. PICK to \in RunStates, given \in Verifications, pid \in Processes \cup {None} :
            WritesAs(a, then, to, given, pid)
      BY <2>2 DEF Writes
    <3>2. row'.pid = pid
      BY <3>1 DEF WritesAs, Written
    <3>3. CASE pc[a] = "w_run"
      <4>1. a \in Workers /\ pid = at[a]
        BY <1>2, <3>1, <3>3 DEF Kind, CallerLabels, HarvestLabels, MarkLabels, WritesAs
      <4> QED
        BY <3>2, <3>3, <4>1 DEF Owned, Registered, AtHome, StartsHere, Informed
    <3>4. CASE pc[a] # "w_run"
      <4>1. pid \in SelectedPids(Known(a)) /\ Target(pc[a], to)
        BY <3>1, <3>4 DEF WritesAs
      <4>2. /\ pc[a] \notin Blank
            /\ pc[a] \in HarvestLabels => pc[a] \in {"x_verify", "x_settle"}
        BY <4>1 DEF Target, Blank, HarvestLabels
      <4>3. Known(a).pid = row.pid
        BY <4>2 DEF Known, Owned, Informed, AtHome, StartsHere
      <4> QED
        BY <3>2, <4>1, <4>3 DEF SelectedPids
    <3> QED
      BY <3>3, <3>4
  <2> QED
    BY <1>4, <2>1, <2>2 DEF Ordinary, StoresHost
<1>6. ASSUME NEW b \in Actors PROVE Informed(b)'
  <2>1. CASE b # a
    BY <1>1, <1>2, <1>5, <2>1 DEF Owned, Informed, AtHome, StartsHere
  <2>2. CASE b = a
    <3>1. pc'[a] = then
      BY <1>1
    <3>2. ASSUME then \notin Blank PROVE seen'[a].pid = row'.pid
      <4>1. CASE pc[a] \in Blank
        <5>1. pc[a] \in {"c_read", "o_read", "e_read", "f_read"}
          BY <1>2, <4>1
          DEF Follows, Blank, ApplyLabels, HarvestLabels, MarkLabels, ResumeLabels, CancelLabels
        <5>2. then \notin {"idle", "done", "w_finally", "h_spawn"}
          BY <1>2, <3>2, <5>1
          DEF Follows, Blank, ApplyLabels, HarvestLabels, MarkLabels, ResumeLabels, CancelLabels
        <5>3. seen'[a] = row
          BY <1>2, <5>1, <5>2 DEF Records
        <5> QED
          BY <1>5, <5>3
      <4>2. CASE pc[a] \notin Blank
        <5>1. seen'[a] \in {seen[a], row'}
          BY <1>2, <3>2 DEF Records, Blank
        <5> QED
          BY <1>5, <4>2, <5>1 DEF Owned, Informed, AtHome, StartsHere
      <4> QED
        BY <4>1, <4>2
    <3>3. then \in {"x_verify", "x_settle"} => peek'[a].pid = row'.pid
      BY <1>2 DEF Records
    <3> QED
      BY <2>2, <3>1, <3>2, <3>3 DEF Informed
  <2> QED
    BY <2>1, <2>2
<1>7. ASSUME NEW w \in Workers, Registered(w)'
      PROVE  AtHome(w)'
  <2>1. Registered(w)
    BY <1>1, <1>7
  <2>2. at'[w] = row'.pid /\ active'[row'.pid] = w
    BY <1>1, <1>5, <2>1 DEF Owned, AtHome, StartsHere, Informed
  <2>3. /\ then \notin {"h_wait", "h_claim", "born"}
        /\ then = "h_spawn" => pc[a] = "h_claim"
        /\ pc[a] # "p_start"
    BY <1>2
    DEF Follows, ApplyLabels, HarvestLabels, MarkLabels, ResumeLabels, CancelLabels
  <2>4. pc'[w] \notin {"h_wait", "h_claim", "h_spawn"}
    BY <1>1, <1>3, <1>4, <2>1, <2>3 DEF Owned, AtHome, StartsHere, Informed
  <2>5. pc'[w] = "born" => \E c \in Callers : pc'[c] = "p_start"
    BY <1>1, <1>3, <2>1, <2>3 DEF Owned, AtHome, StartsHere, Informed
  <2> QED
    BY <2>2, <2>4, <2>5 DEF AtHome
<1>8. ASSUME NEW c \in Callers
      PROVE  StartsHere(c)'
  <2>1. pc'[c] = "idle" => call'[c] = "none"
    BY PlaceOrdinary DEF Grounded, InPlace, CallerInPlace
  <2>2. then \notin {"s_reserve", "s_pid"}
    BY <1>2
    DEF Follows, ApplyLabels, HarvestLabels, MarkLabels, ResumeLabels, CancelLabels
  <2> QED
    BY <1>1, <1>3, <1>5, <2>1, <2>2 DEF Owned, AtHome, StartsHere, Informed
<1> QED
  BY <1>5, <1>6, <1>7, <1>8 DEF Owned, AtHome, StartsHere, Informed


LEMMA OwnedSpecial ==
  ASSUME Grounded, NoResumption, InProcess, Lone, Owned, Special
  PROVE  Owned' /\ row'.pid = row.pid
<1>1. /\ row' = row
      /\ \/ Returning \/ Popping \/ Registering \/ Exiting \/ Signalling \/ Beginning
         \/ Spawning \/ Starting \/ Hosting \/ Reserving \/ Dying
  BY Digest
<1>2. /\ \A w \in Workers : w \in Actors /\ w \notin Callers
      /\ \A c \in Callers : c \in Actors /\ c \notin Workers
      /\ \A p \in Servers : p \in Processes /\ p # None
  BY ConstantsAssumption DEF ConstantsAssumption, Actors, Processes
<1>3. row'.pid = row.pid /\ row.pid \in Servers
  BY <1>1 DEF Owned, AtHome, StartsHere, Informed
<1>4. \A v, w \in Workers : Registered(v) /\ Registered(w) => v = w
  BY DEF Lone, Registered
<1>5. CASE Returning
  <2>1. PICK w \in Workers :
          pc[w] = "w_exec" /\ Sets(w, "w_ret") /\ UNCHANGED <<active, at, call, seen, peek>>
    BY <1>5 DEF Returning
  <2>2. \A b \in Actors : Informed(b)'
    BY <1>1, <2>1 DEF Sets, Owned, Informed, Blank
  <2>3. ASSUME NEW v \in Workers, Registered(v)' PROVE AtHome(v)'
    BY <1>1, <1>2, <2>1, <2>3 DEF Sets, Owned, AtHome, Registered
  <2>4. \A c \in Callers : StartsHere(c)'
    BY <1>1, <1>2, <2>1 DEF Sets, Owned, StartsHere
  <2> QED
    BY <1>3, <2>2, <2>3, <2>4 DEF Owned
<1>6. CASE Popping
  <2>1. PICK w \in Workers :
          /\ pc[w] = "w_finally" /\ Sets(w, "done")
          /\ \A b \in Actors : seen'[b] = IF b = w THEN Created ELSE seen[b]
          /\ UNCHANGED <<at, call, peek>>
    BY <1>6 DEF Popping
  <2>2. \A v \in Workers : ~ Registered(v)'
    BY <1>2, <1>4, <2>1 DEF Sets, Registered
  <2>3. \A b \in Actors : Informed(b)'
    BY <1>1, <1>3, <2>1 DEF Sets, Owned, Informed, Blank, AtHome, StartsHere
  <2>4. \A c \in Callers : StartsHere(c)'
    BY <1>2, <1>3, <2>1 DEF Sets, Owned, StartsHere
  <2> QED
    BY <1>3, <2>2, <2>3, <2>4 DEF Owned
<1>7. CASE Registering
  BY <1>7 DEF Registering, Owned, Registered, AtHome, StartsHere, Informed
<1>8. CASE Exiting
  BY <1>3, <1>8 DEF Exiting, Owned, Informed, Registered, AtHome, StartsHere
<1>9. CASE Signalling
  <2>1. PICK c \in Callers :
          pc[c] = "c_signal" /\ Sets(c, "c_read") /\ UNCHANGED <<active, at, call, seen, peek>>
    BY <1>9 DEF Signalling
  <2>2. \A b \in Actors : Informed(b)'
    BY <1>1, <2>1 DEF Sets, Owned, Informed, Blank
  <2>3. ASSUME NEW v \in Workers, Registered(v)' PROVE AtHome(v)'
    BY <1>1, <1>2, <2>1, <2>3 DEF Sets, Owned, AtHome, Registered
  <2>4. \A d \in Callers : StartsHere(d)'
    BY <1>1, <1>2, <2>1 DEF Sets, Owned, StartsHere
  <2> QED
    BY <1>3, <2>2, <2>3, <2>4 DEF Owned
<1>10. CASE Beginning
  <2>1. PICK c \in Callers, kind \in CallKinds, p \in Servers, label \in BeginLabels :
          /\ pc[c] = "idle" /\ Begins(kind, label) /\ Sets(c, label)
          /\ \A b \in Actors : at'[b] = IF b = c THEN p ELSE at[b]
          /\ \A d \in Callers : call'[d] = IF d = c THEN kind ELSE call[d]
          /\ UNCHANGED <<active, seen, peek>>
    BY <1>10 DEF Beginning
  <2>2. label \in {"c_signal", "o_read", "e_read", "f_read"} /\ kind # "start"
    BY <2>1 DEF Begins, BeginLabels, NoResumption
  <2>3. \A b \in Actors : Informed(b)'
    BY <1>1, <1>3, <2>1, <2>2 DEF Sets, Owned, Informed, Blank, AtHome, StartsHere
  <2>4. ASSUME NEW w \in Workers, Registered(w)'
        PROVE  AtHome(w)'
    BY <1>2, <1>3, <2>1, <2>4 DEF Sets, Owned, Registered, AtHome, StartsHere, Informed
  <2>5. \A d \in Callers : StartsHere(d)'
    BY <1>2, <1>3, <2>1, <2>2 DEF Sets, Owned, StartsHere
  <2> QED
    BY <1>3, <2>3, <2>4, <2>5 DEF Owned
<1>11. CASE Spawning
  <2>1. PICK c \in Callers, w \in Workers :
          /\ pc[c] = "r_spawn" \/ (InProcess /\ pc[c] = "s_spawn")
          /\ pc[w] = "unborn"
          /\ \A b \in Actors : pc'[b] = IF b = c THEN "p_start" ELSE IF b = w THEN "born" ELSE pc[b]
          /\ \A p \in Processes : active'[p] = IF p = at[c] THEN w ELSE active[p]
          /\ \A b \in Actors : /\ at'[b] = IF b = w THEN at[c] ELSE at[b]
                               /\ seen'[b] = IF b = w THEN seen[c] ELSE seen[b]
          /\ UNCHANGED <<call, peek>>
    BY <1>11 DEF Spawning
  <2>2. pc[c] = "s_spawn" /\ call[c] = "start"
    BY <2>1, NobodyResumes DEF ResumeLabels
  <2>3. at[c] = row.pid /\ seen[c].pid = row.pid
    BY <1>2, <2>2 DEF Owned, Informed, Blank, AtHome, StartsHere
  <2>4. \A v \in Workers : Registered(v)' => v = w
    BY <1>2, <2>1, <2>2 DEF Registered, Lone
  <2>5. \A b \in Actors : Informed(b)'
    BY <1>1, <1>3, <2>1, <2>2, <2>3 DEF Owned, Informed, Blank, AtHome, StartsHere
  <2>6. at'[w] = row'.pid /\ active'[row'.pid] = w /\ pc'[w] = "born" /\ pc'[c] = "p_start"
    BY <1>2, <1>3, <2>1, <2>3
  <2>7. AtHome(w)'
    BY <2>6 DEF AtHome
  <2>8. \A d \in Callers : StartsHere(d)'
    BY <1>2, <1>3, <2>1 DEF Owned, StartsHere
  <2> QED
    BY <1>3, <2>4, <2>5, <2>7, <2>8 DEF Owned
<1>12. CASE Starting
  <2>1. PICK c \in Callers, w \in Workers :
          /\ pc[c] = "p_start" /\ pc[w] = "born"
          /\ \A b \in Actors :
               /\ pc'[b] = IF b = c THEN "idle" ELSE IF b = w THEN "w_check1" ELSE pc[b]
               /\ at'[b] = IF b = c THEN None ELSE at[b]
               /\ seen'[b] = IF b = c THEN Created ELSE seen[b]
          /\ \A d \in Callers : call'[d] = IF d = c THEN "none" ELSE call[d]
          /\ UNCHANGED <<active, peek>>
    BY <1>12 DEF Starting
  <2>2. \A v \in Workers : Registered(v)' => v = w
    BY <1>2, <1>4, <2>1 DEF Registered
  <2>3. \A b \in Actors : Informed(b)'
    BY <1>1, <1>3, <2>1 DEF Owned, Informed, Blank, AtHome, StartsHere
  <2>4. at'[w] = row'.pid /\ active'[row'.pid] = w /\ pc'[w] = "w_check1"
    BY <1>2, <1>3, <2>1 DEF Owned, Registered, AtHome, StartsHere, Informed
  <2>5. AtHome(w)'
    BY <2>4 DEF AtHome
  <2>6. \A d \in Callers : StartsHere(d)'
    BY <1>2, <1>3, <2>1 DEF Owned, StartsHere
  <2> QED
    BY <1>3, <2>2, <2>3, <2>5, <2>6 DEF Owned
<1>13. CASE Hosting
  BY <1>13 DEF Hosting
<1>14. CASE Reserving
  BY <1>14 DEF Reserving, Owned, AtHome, StartsHere, Informed
<1>15. CASE Dying
  <2>1. PICK p \in Processes :
          /\ \A q \in Processes : active'[q] = IF q = p THEN None ELSE active[q]
          /\ \A b \in Actors :
               IF at[b] = p /\ pc[b] # "done"
               THEN /\ pc'[b] = IF b \in Workers THEN "dead" ELSE "idle"
                    /\ at'[b] = None /\ seen'[b] = Created /\ peek'[b] = Created
               ELSE UNCHANGED <<pc[b], at[b], seen[b], peek[b]>>
          /\ \A d \in Callers : call'[d] = IF at[d] = p THEN "none" ELSE call[d]
    BY <1>15 DEF Dying
  <2>2. \A b \in Actors : Informed(b)'
    BY <1>1, <1>3, <2>1 DEF Owned, Informed, Blank, AtHome, StartsHere
  <2>3. ASSUME NEW w \in Workers, Registered(w)'
        PROVE  AtHome(w)'
    <3>1. Registered(w) /\ at[w] # p /\ pc'[w] = pc[w] /\ at'[w] = at[w]
      BY <1>2, <2>1, <2>3 DEF Registered
    <3>2. at[w] = row.pid /\ row.pid # p
      BY <3>1 DEF Owned, AtHome, StartsHere, Informed
    <3>3. ASSUME NEW d \in Callers, pc[d] = "p_start"
          PROVE  pc'[d] = "p_start"
      <4>1. at[d] = row.pid
        BY <3>3, NobodyResumes DEF Owned, AtHome, StartsHere, Informed
      <4> QED
        BY <1>2, <2>1, <3>2, <3>3, <4>1
    <3> QED
      BY <1>2, <1>3, <2>1, <3>1, <3>2, <3>3 DEF Owned, AtHome, StartsHere, Informed
  <2>4. ASSUME NEW c \in Callers
        PROVE  StartsHere(c)'
    BY <1>2, <1>3, <2>1, <2>4 DEF Owned, AtHome, StartsHere, Informed
  <2> QED
    BY <1>3, <2>2, <2>3, <2>4 DEF Owned
<1> QED
  BY <1>1, <1>5, <1>6, <1>7, <1>8, <1>9, <1>10, <1>11, <1>12, <1>13, <1>14, <1>15

LEMMA OwnedAlways ==
  ASSUME NoResumption, InProcess
  PROVE  Spec => []Owned
<1>1. Init => Owned
  <2> SUFFICES ASSUME Init PROVE Owned
    OBVIOUS
  <2>1. /\ \A a \in Workers \cup Callers : a \in Actors
        /\ Launcher \in Callers /\ Workers \cap Callers = {}
    BY ConstantsAssumption DEF ConstantsAssumption, Actors
  <2>2. PICK p \in Servers :
          /\ row.pid = p
          /\ at = [a \in Actors |-> IF a = Launcher THEN p ELSE None]
    BY DEF Init, Created
  <2>3. \A a \in Actors : Informed(a)
    BY DEF Init, Informed, Blank
  <2>4. \A w \in Workers : ~ Registered(w)
    BY <2>1 DEF Init, Registered
  <2>5. \A c \in Callers : StartsHere(c)
    BY <2>1, <2>2 DEF Init, StartsHere
  <2> QED
    BY <2>2, <2>3, <2>4, <2>5 DEF Owned
<1>2. Grounded /\ Lone /\ Owned /\ [Next]_vars => Owned'
  <2>1. CASE UNCHANGED vars
    BY <2>1 DEF vars, Owned, Informed, AtHome, StartsHere, Registered
  <2> QED
    BY <2>1, Shape, OwnedOrdinary, OwnedSpecial DEF Grounded
<1> QED
  BY <1>1, <1>2, GroundedAlways, LoneAlways, PTL DEF Spec

\* What a caller in the pid's process sees of the registry, where run_start has returned.
LEMMA OrphanedIsOver ==
  ASSUME Grounded, NoResumption, InProcess, StartsFirst, Owned,
         NEW c \in Callers, pc[c] = "o_probe", at[c] = row.pid, Orphaned(c)
  PROVE  Over
<1>1. \A d \in Callers : call[d] # "start"
  <2>1. call[c] = "observe"
    BY DEF Grounded, InPlace, CallerInPlace, Belongs, CancelLabels, HarvestLabels, MarkLabels,
      ResumeLabels
  <2> QED
    BY <2>1 DEF StartsFirst
<1>2. \A d \in Callers : pc[d] \notin {"s_spawn", "p_start"}
  BY <1>1, NobodyResumes
<1>3. ASSUME NEW w \in Workers, Registered(w) PROVE FALSE
  <2>1. AtHome(w)
    BY <1>3 DEF Owned
  <2>2. active[at[c]] = w /\ pc[w] # "born"
    BY <1>2, <2>1 DEF AtHome
  <2>3. w # None
    BY ConstantsAssumption DEF ConstantsAssumption
  <2> QED
    BY <1>3, <2>2, <2>3 DEF Orphaned, ThreadAlive, Registered
<1> QED
  BY <1>2, <1>3 DEF Over

\* An observer in the execution's own process that looks into the worktree, or gives the
\* run up, found that its thread had ended.
OwnOrphan ==
  \A c \in Callers : pc[c] \in HarvestLabels \cup MarkLabels /\ at[c] = row.pid => Over

LEMMA OwnOrphanStep ==
  ASSUME Grounded, NoResumption, InProcess, Lone, StartsFirst, Owned, OwnOrphan, Next,
         row'.pid = row.pid
  PROVE  OwnOrphan'
<1> SUFFICES ASSUME NEW c \in Callers, pc'[c] \in HarvestLabels \cup MarkLabels,
                    at'[c] = row.pid
             PROVE  Over'
  BY DEF OwnOrphan
<1>1. c \in Actors /\ c \notin Workers
  BY ConstantsAssumption DEF ConstantsAssumption, Actors
<1>2. CASE Special
  <2>1. \/ Returning \/ Popping \/ Registering \/ Exiting \/ Signalling \/ Beginning
        \/ Spawning \/ Starting \/ Hosting \/ Reserving \/ Dying
    BY <1>2, Digest
  <2>2. pc[c] = pc'[c]
    <3>1. Arrives(c)
      BY <1>1, <1>2, SpecialShape DEF Grounded
    <3> QED
      BY <3>1 DEF Arrives, Arrivals, HarvestLabels, MarkLabels
  <2>3. at[c] = at'[c]
    <3>1. None \notin Servers /\ row.pid \in Servers
      BY ConstantsAssumption DEF ConstantsAssumption, Owned
    <3>2. CASE Returning \/ Popping \/ Registering \/ Exiting \/ Signalling \/ Reserving
      BY <3>2 DEF Returning, Popping, Registering, Exiting, Signalling, Reserving
    <3>3. CASE Beginning
      BY <1>1, <2>2, <3>3 DEF Beginning, HarvestLabels, MarkLabels
    <3>4. CASE Spawning \/ Starting \/ Hosting
      BY <1>1, <3>1, <3>4 DEF Spawning, Starting, Hosting
    <3>5. CASE Dying
      BY <1>1, <3>1, <3>5 DEF Dying
    <3> QED
      BY <2>1, <3>2, <3>3, <3>4, <3>5
  <2> QED
    BY <2>2, <2>3, LoneStep DEF OwnOrphan
<1>3. CASE \E a \in Actors : \E then : Ordinary(a, then)
  <2>1. PICK a \in Actors : \E then : Ordinary(a, then)
    BY <1>3
  <2>2. PICK then : Ordinary(a, then)
    BY <2>1
  <2>3. /\ \A b \in Actors : pc'[b] = IF b = a THEN then ELSE pc[b]
        /\ pc'[c] # "idle" => at'[c] = at[c]
    BY <2>2, OrdinaryMoves
  <2>4. at[c] = row.pid
    BY <2>3 DEF HarvestLabels, MarkLabels
  <2>5. CASE pc[c] \in HarvestLabels \cup MarkLabels
    BY <2>4, <2>5, LoneStep DEF OwnOrphan
  <2>6. CASE pc[c] \notin HarvestLabels \cup MarkLabels
    <3>1. c = a /\ then \in HarvestLabels \cup MarkLabels
      BY <1>1, <2>3, <2>6
    <3>2. Follows(pc[c], then) /\ Kind(c, pc[c], then) /\ Permits(c, then)
      BY <2>2, <3>1 DEF Ordinary, Moves
    <3>3. pc[c] \in {"h_wait", "h_claim", "w_read", "o_probe"}
      BY <2>6, <3>1, <3>2
      DEF Follows, ApplyLabels, HarvestLabels, MarkLabels, ResumeLabels, CancelLabels
    <3>4. pc[c] = "o_probe"
      BY <1>1, <3>2, <3>3 DEF Kind, CallerLabels, HarvestLabels, MarkLabels
    <3>5. Orphaned(c)
      BY <3>1, <3>2, <3>4 DEF Permits, HarvestLabels, MarkLabels
    <3>6. Over
      BY <2>4, <3>4, <3>5, OrphanedIsOver
    <3> QED
      BY <3>6, LoneStep
  <2> QED
    BY <2>5, <2>6
<1> QED
  BY <1>2, <1>3, Shape DEF Grounded

LEMMA OwnOrphanAlways ==
  ASSUME NoResumption, InProcess, ~ EarlyCalls
  PROVE  Spec => []OwnOrphan
<1>1. Init => OwnOrphan
  <2> SUFFICES ASSUME Init PROVE OwnOrphan
    OBVIOUS
  <2>1. \A c \in Callers : pc[c] \in {"s_spawn", "idle"}
    BY ConstantsAssumption DEF ConstantsAssumption, Init, Actors
  <2> QED
    BY <2>1 DEF OwnOrphan, HarvestLabels, MarkLabels
<1>2. Grounded /\ Lone /\ StartsFirst /\ Owned /\ OwnOrphan /\ [Next]_vars => OwnOrphan'
  <2>1. CASE UNCHANGED vars
    BY <2>1 DEF vars, OwnOrphan, Over, Registered
  <2>2. ASSUME Grounded, Lone, StartsFirst, Owned, OwnOrphan, Next
        PROVE  OwnOrphan'
    <3>1. row'.pid = row.pid
      BY <2>2, Shape, OwnedOrdinary, Digest DEF Grounded
    <3> QED
      BY <2>2, <3>1, OwnOrphanStep
  <2> QED
    BY <2>1, <2>2
<1> QED
  BY <1>1, <1>2, GroundedAlways, LoneAlways, OwnedAlways, StartsFirstAlways, PTL DEF Spec

\* Observers of in-process runs of one server, for callers that wait for run_start, neither
\* interrupt nor complete a run that is executing.  (An observer in another server knows
\* nothing of the thread: see the limits of the model.)
THEOREM InProcessObservers ==
  ASSUME NoResumption, InProcess, ~ EarlyCalls, \A p, q \in Servers : p = q
  PROVE  Spec => []ObserversAreRight
<1>1. Grounded /\ Owned /\ OwnOrphan => Orphan
  <2> SUFFICES ASSUME Grounded, Owned, OwnOrphan,
                      NEW c \in Callers, pc[c] \in HarvestLabels \cup MarkLabels
               PROVE  Over
    BY DEF Orphan
  <2>1. at[c] \in Servers /\ row.pid \in Servers
    BY DEF Grounded, InPlace, CallerInPlace, Owned, HarvestLabels, MarkLabels
  <2>2. at[c] = row.pid
    BY <2>1
  <2> QED
    BY <2>2 DEF OwnOrphan
<1> QED
  BY <1>1, GroundedAlways, OwnedAlways, OwnOrphanAlways, OrphansSuffice, PTL

-----------------------------------------------------------------------------
(* While no server has died, nothing that executes is completed, even where   *)
(* heartbeats look old.                                                       *)

AllUp == \A s \in Servers : up[s]

\* A server that died stays dead.
LEMMA ServersDie ==
  ASSUME Grounded, Next, AllUp'
  PROVE  AllUp
<1>1. Servers \subseteq Processes /\ Host \notin Servers
  BY ConstantsAssumption DEF ConstantsAssumption, Processes
<1>2. CASE \E a \in Actors : \E then : Ordinary(a, then)
  BY <1>2, OrdinaryMoves DEF AllUp
<1>3. CASE Special
  <2>1. \/ Returning \/ Popping \/ Registering \/ Exiting \/ Signalling \/ Beginning
        \/ Spawning \/ Starting \/ Hosting \/ Reserving \/ Dying
    BY <1>3, Digest
  <2>2. CASE \/ Returning \/ Popping \/ Registering \/ Signalling \/ Beginning
             \/ Spawning \/ Starting \/ Reserving
    BY <2>2
    DEF Returning, Popping, Registering, Signalling, Beginning, Spawning, Starting, Reserving,
        AllUp
  <2>3. CASE Exiting \/ Dying \/ Hosting
    BY <1>1, <2>3 DEF Exiting, Dying, Hosting, AllUp
  <2> QED
    BY <2>1, <2>2, <2>3
<1> QED
  BY <1>2, <1>3, Shape DEF Grounded

\* Where the owner of the worktree lives, nobody else judges what is in it.
JudgeLabels == {"x_latest", "x_verify", "x_settle"}
Judged == AllUp => \A c \in Callers : pc[c] \in JudgeLabels => Over

LEMMA JudgedStep ==
  ASSUME Grounded, NoResumption, Lone, Owned, OwnOrphan, Judged, Next
  PROVE  Judged'
<1> SUFFICES ASSUME AllUp', NEW c \in Callers, pc'[c] \in JudgeLabels
             PROVE  Over'
  BY DEF Judged
<1>1. c \in Actors /\ c \notin Workers /\ AllUp
  BY ServersDie, ConstantsAssumption DEF ConstantsAssumption, Actors
<1>2. CASE pc[c] \in JudgeLabels
  BY <1>1, <1>2, LoneStep DEF Judged
<1>3. CASE pc[c] \notin JudgeLabels
  <2>1. CASE Special
    <3>1. Arrives(c)
      BY <1>1, <2>1, SpecialShape DEF Grounded
    <3> QED
      BY <1>3, <3>1 DEF Arrives, Arrivals, JudgeLabels
  <2>2. CASE \E a \in Actors : \E then : Ordinary(a, then)
    <3>1. PICK a \in Actors : \E then : Ordinary(a, then)
      BY <2>2
    <3>2. PICK then : Ordinary(a, then)
      BY <3>1
    <3>3. \A b \in Actors : pc'[b] = IF b = a THEN then ELSE pc[b]
      BY <3>2, OrdinaryMoves
    <3>4. c = a /\ then \in JudgeLabels
      BY <1>1, <1>3, <3>3
    <3>5. Follows(pc[c], then) /\ Permits(c, then)
      BY <3>2, <3>4 DEF Ordinary, Moves
    <3>6. pc[c] = "x_probe" /\ then = "x_latest"
      BY <1>3, <3>4, <3>5
      DEF Follows, JudgeLabels, ApplyLabels, HarvestLabels, MarkLabels, ResumeLabels,
          CancelLabels
    <3>7. ~ ForeignOwner(c)
      BY <3>5, <3>6 DEF Permits
    <3>8. seen[c].pid = row.pid /\ row.pid \in Servers
      BY <1>1, <3>6 DEF Owned, Informed, Blank
    <3>9. at[c] = row.pid
      BY <1>1, <3>7, <3>8 DEF ForeignOwner, PidAlive, Processes, AllUp
    <3>10. Over
      BY <3>6, <3>9 DEF OwnOrphan, HarvestLabels
    <3> QED
      BY <3>10, LoneStep
  <2> QED
    BY <2>1, <2>2, Shape DEF Grounded
<1> QED
  BY <1>2, <1>3

LEMMA JudgedAlways ==
  ASSUME NoResumption, InProcess, ~ EarlyCalls
  PROVE  Spec => []Judged
<1>1. Init => Judged
  <2> SUFFICES ASSUME Init PROVE Judged
    OBVIOUS
  <2>1. \A c \in Callers : pc[c] \in {"s_spawn", "idle"}
    BY ConstantsAssumption DEF ConstantsAssumption, Init, Actors
  <2> QED
    BY <2>1 DEF Judged, JudgeLabels
<1>2. Grounded /\ Lone /\ Owned /\ OwnOrphan /\ Judged /\ [Next]_vars => Judged'
  <2>1. UNCHANGED vars /\ Judged => Judged'
    BY DEF vars, Judged, AllUp, Over, Registered
  <2> QED
    BY <2>1, JudgedStep
<1> QED
  BY <1>1, <1>2, GroundedAlways, LoneAlways, OwnedAlways, OwnOrphanAlways, PTL DEF Spec

\* An execution of an external run that has a host, and may still run the task.
Early == {"h_claim", "h_spawn", "born", "w_check1", "w_queue", "w_check2", "w_run", "w_exec"}
Delicate == AllUp /\ row.state \notin TerminalStates /\ \E w \in Workers : pc[w] \in Early

\* Where a caller has a record that it may act on.
ActLabels == {"o_probe", "e_ready"} \cup HarvestLabels \cup MarkLabels

\* Once run_start has returned, and once the host has claimed the run, the row names the
\* host, and so do the records of the execution and of the callers that act on theirs: a
\* caller that looks into the worktree finds that its owner lives.
Claimed(w) ==
  /\ pc[w] \in Early \ {"h_claim"} => row.pid = Host
  /\ pc[w] \in Early \ {"h_claim", "h_spawn"} => seen[w].pid = Host
Aware(c) ==
  /\ pc[c] \in ActLabels => seen[c].pid = Host
  /\ pc[c] \notin {"s_reserve"} \cup JudgeLabels
  /\ pc[c] = "s_fail" /\ (\E w \in Workers : pc[w] = "h_claim") =>
       seen[c].version = row.version
Guarded ==
  Delicate =>
    /\ (\A c \in Callers : call[c] # "start") => row.pid = Host
    /\ \A w \in Workers : Claimed(w)
    /\ \A c \in Callers : Aware(c)

\* A caller that has read the row is in no run_start, and nobody else is.
LEMMA NobodyStarts ==
  ASSUME Grounded, StartsFirst, NEW c \in Callers,
         pc[c] \in ActLabels \cup {"o_read", "e_read"}
  PROVE  \A d \in Callers : call[d] # "start"
<1>1. call[c] \notin {"none", "start"}
  BY DEF Grounded, InPlace, CallerInPlace, Belongs, ActLabels, CancelLabels, HarvestLabels,
     MarkLabels, ResumeLabels
<1> QED
  BY <1>1 DEF StartsFirst

\* While somebody is in run_start, everybody else is idle.
LEMMA OthersIdle ==
  ASSUME Grounded, StartsFirst, NEW c \in Callers, NEW d \in Callers, call[c] = "start", c # d
  PROVE  pc[d] = "idle"
<1>1. call[d] = "none" /\ CallerInPlace(d)
  BY DEF StartsFirst, Grounded, InPlace
<1> QED
  BY <1>1 DEF CallerInPlace, Belongs

LEMMA GuardedOrdinary ==
  ASSUME Grounded, NoResumption, Lone, StartsFirst, Hosted, Guarded,
         NEW a \in Actors, NEW then, Ordinary(a, then)
  PROVE  Guarded'
<1> SUFFICES ASSUME Delicate'
             PROVE  /\ (\A c \in Callers : call'[c] # "start") => row'.pid = Host
                    /\ \A w \in Workers : Claimed(w)'
                    /\ \A c \in Callers : Aware(c)'
  BY DEF Guarded
<1>1. /\ up' = up
      /\ \A b \in Actors : pc'[b] = IF b = a THEN then ELSE pc[b]
      /\ \A c \in Callers : /\ pc'[c] # "idle" => at'[c] = at[c] /\ call'[c] = call[c]
                            /\ call'[c] \in {call[c], "none"}
  BY OrdinaryMoves
<1>2. /\ Follows(pc[a], then) /\ Kind(a, pc[a], then) /\ Permits(a, then) /\ Records(a, then)
      /\ \A b \in Actors : b # a => seen'[b] = seen[b] /\ peek'[b] = peek[b]
  BY DEF Ordinary, Moves
<1>3. /\ \A w \in Workers : w \in Actors /\ w \notin Callers
      /\ \A c \in Callers : c \in Actors /\ c \notin Workers
  BY ConstantsAssumption DEF ConstantsAssumption, Actors
<1>4. /\ row'.state \notin TerminalStates /\ AllUp
      /\ \E w \in Workers : pc'[w] \in Early
  BY <1>1 DEF Delicate, AllUp
<1>5. row.state \notin TerminalStates
  <2>1. CASE row' = row
    BY <1>4, <2>1
  <2>2. CASE StoresHost(a)
    BY <1>4, <2>2 DEF StoresHost, Grounded, IInv, TypeOK, Rows
  <2>3. CASE Writes(a, then)
    BY <2>3
    DEF Writes, WritesAs, CanWrite, CanTransition, AllowedTransitions, TerminalStates
  <2> QED
    BY <2>1, <2>2, <2>3 DEF Ordinary
<1>6. PICK w \in Workers : pc'[w] \in Early
  BY <1>4
<1>7. pc[w] \in Early
  <2>1. CASE w = a
    BY <1>1, <1>2, <1>3, <1>6, <2>1
    DEF Early, Follows, ApplyLabels, HarvestLabels, MarkLabels, ResumeLabels, CancelLabels
  <2>2. CASE w # a
    BY <1>1, <1>3, <1>6, <2>2
  <2> QED
    BY <2>1, <2>2
<1>8. /\ (\A c \in Callers : call[c] # "start") => row.pid = Host
      /\ \A v \in Workers : Claimed(v)
      /\ \A c \in Callers : Aware(c)
  BY <1>4, <1>5, <1>7 DEF Guarded, Delicate
<1>9. /\ \A v \in Workers : pc[v] # "unborn" => v = w
      /\ \A c \in Callers : pc[c] # "s_spawn"
      /\ at[w] = Host /\ up[Host]
  BY <1>7 DEF Lone, Hosted, Registered, Early
<1>10. a \in Workers => a = w
  <2>1. pc[a] # "unborn"
    BY <1>2
    DEF Follows, ApplyLabels, HarvestLabels, MarkLabels, ResumeLabels, CancelLabels
  <2> QED
    BY <1>9, <2>1
<1>11. row.pid = Host => row'.pid = Host
  <2> SUFFICES ASSUME row.pid = Host PROVE row'.pid = Host
    OBVIOUS
  <2>1. CASE row' = row
    BY <2>1
  <2>2. CASE StoresHost(a)
    BY <2>2 DEF StoresHost, Grounded, IInv, TypeOK, Rows
  <2>3. CASE Writes(a, then)
    <3>1. PICK to \in RunStates, given \in Verifications, pid \in Processes \cup {None} :
            WritesAs(a, then, to, given, pid)
      BY <2>3 DEF Writes
    <3>2. row'.pid = pid /\ row'.state = to /\ Target(pc[a], to)
      BY <3>1 DEF WritesAs, Written
    <3>3. CASE a \in Workers
      <4>1. pc[a] \in Early \ {"h_claim", "h_spawn"}
        BY <1>7, <1>10, <3>2, <3>3 DEF Target, Early
      <4>2. seen[a].pid = Host /\ Known(a) = seen[a]
        BY <1>8, <3>3, <4>1 DEF Claimed, Known, Early, HarvestLabels
      <4> QED
        BY <1>9, <1>10, <3>1, <3>2, <3>3, <4>2 DEF WritesAs, SelectedPids
    <3>4. CASE a \in Callers
      <4>1. pc[a] \notin ResumeLabels
        BY <3>4, NobodyResumes
      <4>2. to \notin {"FAILED", "CANCELLED", "COMPLETE"}
        BY <1>4, <3>2 DEF TerminalStates
      <4>3. pc[a] \notin {"x_verify", "x_settle"}
        BY <1>8, <3>4 DEF Aware, JudgeLabels
      <4>4. pc[a] \in {"m_queue", "m_interrupt", "e_ready"}
        <5>1. a \notin Workers
          BY <1>3, <3>4
        <5> QED
          BY <1>2, <3>2, <4>1, <4>2, <4>3, <5>1
          DEF Target, Kind, CallerLabels, HarvestLabels, MarkLabels, ResumeLabels
      <4>5. seen[a].pid = Host /\ Known(a) = seen[a]
        BY <1>8, <3>4, <4>4 DEF Aware, ActLabels, MarkLabels, Known, HarvestLabels
      <4> QED
        BY <3>1, <3>2, <4>4, <4>5 DEF WritesAs, SelectedPids
    <3> QED
      BY <3>3, <3>4 DEF Actors
  <2> QED
    BY <2>1, <2>2, <2>3 DEF Ordinary
<1>12. ASSUME \A c \in Callers : call'[c] # "start"
       PROVE  row'.pid = Host
  <2>1. CASE \A c \in Callers : call[c] # "start"
    BY <1>8, <1>11, <2>1
  <2>2. ASSUME NEW c \in Callers, call[c] = "start"
        PROVE  row'.pid = Host
    <3>1. c = a /\ then = "idle"
      <4>1. pc'[c] = "idle" /\ pc[c] # "idle"
        BY <1>1, <1>12, <2>2 DEF Grounded, InPlace, CallerInPlace
      <4> QED
        BY <1>1, <1>3, <4>1
    <3>2. pc[c] \in {"s_spawn", "s_reserve", "s_pid", "s_fail", "p_start"}
      BY <2>2, <3>1, <1>2
      DEF Grounded, InPlace, CallerInPlace, Belongs, Follows, ApplyLabels, HarvestLabels,
          MarkLabels, ResumeLabels, CancelLabels
    <3>3. pc[c] \in {"s_pid", "s_fail"}
      BY <1>2, <1>8, <1>9, <3>1, <3>2
      DEF Aware, Follows, ApplyLabels, HarvestLabels, MarkLabels, ResumeLabels, CancelLabels
    <3>4. CASE StoresHost(a)
      BY <3>4 DEF StoresHost, Grounded, IInv, TypeOK, Rows
    <3>5. CASE row' = row /\ Refused(a, then)
      <4>1. pc[a] = "s_fail" /\ seen[a].version # row.version
        BY <1>5, <3>1, <3>3, <3>5 DEF Refused
      <4>2. pc[w] # "h_claim"
        BY <1>6, <1>8, <2>2, <3>1, <4>1 DEF Aware
      <4> QED
        BY <1>7, <1>8, <1>11, <4>2 DEF Claimed
    <3>6. CASE Writes(a, then)
      BY <1>4, <3>1, <3>3, <3>6 DEF Writes, WritesAs, Written, Target, TerminalStates
    <3> QED
      BY <3>4, <3>5, <3>6 DEF Ordinary
  <2> QED
    BY <2>1, <2>2
<1>13. ASSUME NEW v \in Workers PROVE Claimed(v)'
  <2>1. CASE v # a
    <3>1. pc'[v] = pc[v] /\ seen'[v] = seen[v]
      BY <1>1, <1>2, <1>3, <2>1
    <3> QED
      BY <1>8, <1>11, <3>1 DEF Claimed
  <2>2. CASE v = a
    <3>1. v = w /\ pc'[v] = then
      BY <1>1, <1>10, <2>2
    <3>2. CASE pc[v] = "h_claim"
      <4>1. then = "h_spawn"
        BY <1>2, <1>6, <2>2, <3>1, <3>2
        DEF Early, Follows, ApplyLabels, HarvestLabels, MarkLabels, ResumeLabels, CancelLabels
      <4>2. StoresHost(a)
        BY <2>2, <3>2, <4>1 DEF Ordinary, Refused, Writes, WritesAs, Target
      <4>3. row'.pid = Host
        BY <4>2 DEF StoresHost, Grounded, IInv, TypeOK, Rows
      <4> QED
        BY <3>1, <4>1, <4>3 DEF Claimed
    <3>3. CASE pc[v] # "h_claim"
      <4>1. row'.pid = Host
        BY <1>7, <1>8, <1>11, <3>1, <3>3 DEF Claimed
      <4>2. pc[v] # "h_spawn"
        BY <1>2, <2>2
        DEF Follows, ApplyLabels, HarvestLabels, MarkLabels, ResumeLabels, CancelLabels
      <4>3. seen[v].pid = Host
        BY <1>7, <1>8, <3>1, <3>3, <4>2 DEF Claimed
      <4>4. seen'[v] \in {seen[v], row'}
        BY <1>2, <1>6, <2>2, <3>1 DEF Records, Early
      <4> QED
        BY <4>1, <4>3, <4>4 DEF Claimed
    <3> QED
      BY <3>2, <3>3
  <2> QED
    BY <2>1, <2>2
<1>14. ASSUME NEW c \in Callers PROVE Aware(c)'
  <2>1. CASE c # a
    <3>1. pc'[c] = pc[c] /\ seen'[c] = seen[c]
      BY <1>1, <1>2, <1>3, <2>1
    <3>2. ASSUME pc[c] = "s_fail", NEW v \in Workers, pc'[v] = "h_claim"
          PROVE  seen[c].version = row'.version
      <4>1. call[c] = "start"
        BY <3>2, NobodyResumes
      <4>2. a \in Workers
        <5> SUFFICES ASSUME a \in Callers PROVE FALSE
          BY DEF Actors
        <5>1. pc[a] = "idle"
          BY <2>1, <4>1, OthersIdle
        <5> QED
          BY <1>2, <5>1
          DEF Follows, ApplyLabels, HarvestLabels, MarkLabels, ResumeLabels, CancelLabels
      <4>3. v = a
        BY <1>1, <1>3, <1>6, <1>9, <1>10, <3>2, <4>2
      <4> QED
        BY <1>1, <1>2, <3>2, <4>3
        DEF Follows, ApplyLabels, HarvestLabels, MarkLabels, ResumeLabels, CancelLabels
    <3> QED
      BY <1>8, <3>1, <3>2 DEF Aware
  <2>2. CASE c = a
    <3>1. pc'[c] = then /\ a \notin Workers
      BY <1>1, <1>3, <2>2
    <3>2. ASSUME then \in ActLabels PROVE seen'[c].pid = Host
      <4>1. pc[c] \in ActLabels \cup {"o_read", "e_read"}
        BY <1>2, <2>2, <3>1, <3>2
        DEF ActLabels, Follows, Kind, CallerLabels, ApplyLabels, HarvestLabels, MarkLabels,
            ResumeLabels, CancelLabels
      <4>2. row.pid = Host /\ row'.pid = Host
        BY <1>8, <1>11, <4>1, NobodyStarts
      <4>3. CASE pc[c] \in {"o_read", "e_read"}
        <5>1. then \notin {"idle", "done", "w_finally", "h_spawn"}
          BY <3>2 DEF ActLabels, HarvestLabels, MarkLabels
        <5>2. seen'[c] = row
          BY <1>2, <2>2, <4>3, <5>1 DEF Records
        <5> QED
          BY <4>2, <5>2
      <4>4. CASE pc[c] \in ActLabels
        <5>1. seen'[c] \in {seen[c], row'}
          BY <1>2, <2>2, <3>2 DEF Records, ActLabels, HarvestLabels, MarkLabels
        <5> QED
          BY <1>8, <4>2, <4>4, <5>1 DEF Aware
      <4> QED
        BY <4>1, <4>3, <4>4
    <3>3. then \notin {"s_reserve"} \cup JudgeLabels
      <4>1. then # "s_reserve"
        BY <1>2
        DEF Follows, ApplyLabels, HarvestLabels, MarkLabels, ResumeLabels, CancelLabels
      <4>2. ASSUME then \in JudgeLabels PROVE FALSE
        <5>1. pc[c] = "x_probe" /\ then = "x_latest"
          BY <1>2, <1>8, <2>2, <4>2
          DEF Aware, JudgeLabels, Follows, ApplyLabels, HarvestLabels, MarkLabels,
              ResumeLabels, CancelLabels
        <5>2. ~ ForeignOwner(c) /\ seen[c].pid = Host
          BY <1>2, <1>8, <2>2, <5>1 DEF Permits, Aware, ActLabels, HarvestLabels
        <5>3. at[c] \in Servers
          BY <5>1 DEF Grounded, InPlace, CallerInPlace
        <5>4. Host \notin Servers
          BY ConstantsAssumption DEF ConstantsAssumption
        <5> QED
          BY <1>9, <5>2, <5>3, <5>4 DEF ForeignOwner, PidAlive, Processes
      <4> QED
        BY <4>1, <4>2
    <3>4. ASSUME then = "s_fail" PROVE seen'[c].version = row'.version
      <4>1. pc[c] \in {"s_spawn", "s_reserve", "s_pid"}
        BY <1>2, <2>2, <3>4
        DEF Follows, ApplyLabels, HarvestLabels, MarkLabels, ResumeLabels, CancelLabels
      <4>2. pc[c] = "s_pid"
        BY <1>8, <1>9, <4>1 DEF Aware
      <4>3. seen'[c] = row
        BY <1>2, <2>2, <3>4, <4>2 DEF Records
      <4>4. row'.version = row.version
        BY <2>2, <4>2
        DEF Ordinary, StoresHost, Writes, WritesAs, Target, Grounded, IInv, TypeOK, Rows
      <4> QED
        BY <4>3, <4>4
    <3> QED
      BY <3>1, <3>2, <3>3, <3>4 DEF Aware
  <2> QED
    BY <2>1, <2>2
<1> QED
  BY <1>12, <1>13, <1>14

LEMMA GuardedSpecial ==
  ASSUME Grounded, NoResumption, ~ InProcess, ~ EarlyCalls, Lone, StartsFirst, Hosted, Guarded,
         Next, Special
  PROVE  Guarded'
<1> SUFFICES ASSUME Delicate' PROVE Guarded'
  BY DEF Guarded
<1>1. /\ row' = row
      /\ \/ Returning \/ Popping \/ Registering \/ Exiting \/ Signalling \/ Beginning
         \/ Spawning \/ Starting \/ Hosting \/ Reserving \/ Dying
  BY Digest
<1>2. /\ \A w \in Workers : w \in Actors /\ w \notin Callers
      /\ \A c \in Callers : c \in Actors /\ c \notin Workers
      /\ Host \in Processes /\ Host \notin Servers /\ Host # None
      /\ \A p \in Servers : p \in Processes
  BY ConstantsAssumption DEF ConstantsAssumption, Actors, Processes
<1>3. AllUp /\ AllUp' /\ row.state \notin TerminalStates
  BY <1>1, ServersDie DEF Delicate
<1>4. PICK w \in Workers : pc'[w] \in Early
  BY DEF Delicate
<1>5. \A v \in Workers : v # w => pc[v] = "unborn" /\ pc'[v] = "unborn"
  <2> SUFFICES ASSUME NEW v \in Workers, v # w PROVE pc[v] = "unborn" /\ pc'[v] = "unborn"
    OBVIOUS
  <2>1. Lone' /\ Arrives(v)
    BY <1>2, LoneStep, SpecialShape DEF Grounded
  <2>2. pc'[v] = "unborn"
    BY <1>4, <2>1 DEF Lone, Early
  <2> QED
    BY <2>1, <2>2 DEF Arrives, Arrivals
<1>6. (\E v \in Workers : pc[v] \in Early) =>
        /\ (\A c \in Callers : call[c] # "start") => row.pid = Host
        /\ \A v \in Workers : Claimed(v)
        /\ \A c \in Callers : Aware(c)
  BY <1>3 DEF Guarded, Delicate
<1>7. CASE Returning
  <2>1. PICK v \in Workers : pc[v] = "w_exec" /\ Sets(v, "w_ret")
    BY <1>7 DEF Returning
  <2> QED
    BY <1>2, <1>4, <1>5, <2>1 DEF Sets, Early
<1>8. CASE Popping
  <2>1. PICK v \in Workers : pc[v] = "w_finally" /\ Sets(v, "done")
    BY <1>8 DEF Popping
  <2> QED
    BY <1>2, <1>4, <1>5, <2>1 DEF Sets, Early
<1>9. CASE Exiting
  <2>1. PICK v \in Workers : pc[v] = "done" /\ UNCHANGED pc
    BY <1>9 DEF Exiting
  <2> QED
    BY <1>4, <1>5, <2>1 DEF Early
<1>10. CASE Registering
  <2>1. PICK v \in Workers :
          /\ pc[v] = "h_spawn" /\ Sets(v, "born")
          /\ \A b \in Actors : seen'[b] = IF b = v THEN row ELSE seen[b]
          /\ UNCHANGED <<call>>
    BY <1>10 DEF Registering
  <2>2. v = w /\ pc[w] \in Early \ {"h_claim"}
    BY <1>5, <2>1 DEF Early
  <2>3. row.pid = Host
    BY <1>6, <2>2 DEF Claimed
  <2>4. \A u \in Workers : Claimed(u)'
    BY <1>1, <1>2, <1>5, <2>1, <2>2, <2>3 DEF Claimed, Early
  <2>5. \A c \in Callers : pc'[c] = pc[c] /\ seen'[c] = seen[c]
    BY <1>2, <2>1 DEF Sets
  <2>6. \A u \in Workers : pc'[u] # "h_claim"
    BY <1>2, <1>5, <2>1, <2>2 DEF Sets
  <2>7. \A c \in Callers : Aware(c)'
    BY <1>1, <1>6, <2>2, <2>5, <2>6 DEF Aware
  <2> QED
    BY <1>1, <2>3, <2>4, <2>7 DEF Guarded
<1>11. CASE Signalling
  <2>1. PICK c \in Callers : pc[c] = "c_signal" /\ Sets(c, "c_read") /\ UNCHANGED <<call, seen>>
    BY <1>11 DEF Signalling
  <2>2. \A v \in Workers : pc'[v] = pc[v]
    BY <1>2, <2>1 DEF Sets
  <2>3. \A v \in Workers : Claimed(v)'
    BY <1>1, <1>4, <1>6, <2>1, <2>2 DEF Claimed
  <2>4. ASSUME NEW d \in Callers PROVE Aware(d)'
    <3>1. Aware(d)
      BY <1>4, <1>6, <2>2
    <3>2. CASE d = c
      BY <1>2, <2>1, <3>2
      DEF Sets, Aware, ActLabels, JudgeLabels, HarvestLabels, MarkLabels
    <3>3. CASE d # c
      BY <1>1, <1>2, <2>1, <2>2, <3>1, <3>3 DEF Sets, Aware
    <3> QED
      BY <3>2, <3>3
  <2> QED
    BY <1>1, <1>4, <1>6, <2>1, <2>2, <2>3, <2>4 DEF Guarded
<1>12. CASE Beginning
  <2>1. PICK c \in Callers, label \in BeginLabels :
          /\ Sets(c, label) /\ \A d \in Callers : call[d] # "start"
          /\ UNCHANGED seen
    BY <1>12 DEF Beginning
  <2>2. \A v \in Workers : pc'[v] = pc[v]
    BY <1>2, <2>1 DEF Sets
  <2>3. \A v \in Workers : Claimed(v)'
    BY <1>1, <1>4, <1>6, <2>1, <2>2 DEF Claimed
  <2>4. ASSUME NEW d \in Callers PROVE Aware(d)'
    <3>1. Aware(d)
      BY <1>4, <1>6, <2>2
    <3>2. CASE d = c
      BY <1>2, <2>1, <3>2
      DEF Sets, Aware, ActLabels, JudgeLabels, HarvestLabels, MarkLabels, BeginLabels
    <3>3. CASE d # c
      BY <1>1, <1>2, <2>1, <2>2, <3>1, <3>3 DEF Sets, Aware
    <3> QED
      BY <3>2, <3>3
  <2>5. row.pid = Host
    BY <1>4, <1>6, <2>1, <2>2
  <2> QED
    BY <1>1, <2>3, <2>4, <2>5 DEF Guarded
<1>13. CASE Spawning
  BY <1>13, NobodyResumes DEF Spawning, ResumeLabels
<1>14. CASE Starting
  <2>1. PICK c \in Callers, v \in Workers : pc[c] = "p_start" /\ pc[v] = "born" /\ at[v] = at[c]
    BY <1>14 DEF Starting
  <2>2. at[v] = Host
    BY <2>1 DEF Hosted, Registered
  <2>3. at[c] \in Servers
    BY <2>1 DEF Grounded, InPlace, CallerInPlace
  <2> QED
    BY <1>2, <2>1, <2>2, <2>3
<1>15. CASE Hosting
  <2>1. PICK c \in Callers, v \in Workers :
          /\ pc[c] = "s_spawn" /\ pc[v] = "unborn"
          /\ \A b \in Actors :
               pc'[b] = IF b = c THEN "s_reserve" ELSE IF b = v THEN "h_wait" ELSE pc[b]
    BY <1>15 DEF Hosting
  <2>2. \A u \in Workers : pc[u] = "unborn"
    BY <2>1 DEF Lone
  <2> QED
    BY <1>2, <1>4, <2>1, <2>2 DEF Early
<1>16. CASE Reserving
  <2>1. PICK c \in Callers :
          /\ pc[c] = "s_reserve"
          /\ \A b \in Actors :
               pc'[b] = IF b = c THEN "s_pid" ELSE IF pc[b] = "h_wait" THEN "h_claim" ELSE pc[b]
          /\ UNCHANGED <<call, seen>>
    BY <1>16 DEF Reserving
  <2>2. call[c] = "start"
    BY <2>1, NobodyResumes
  <2>3. \A d \in Callers : d # c => pc'[d] = "idle"
    BY <1>2, <2>1, <2>2, OthersIdle
  <2>4. pc[w] = "h_wait" /\ pc'[w] = "h_claim"
    <3>1. ~ \E v \in Workers : pc[v] \in Early
      BY <1>6, <2>1 DEF Aware
    <3> QED
      BY <1>2, <1>4, <2>1, <3>1
  <2>5. \A v \in Workers : Claimed(v)'
    BY <1>5, <2>4 DEF Claimed, Early
  <2>6. \A d \in Callers : Aware(d)'
    BY <1>2, <2>1, <2>3 DEF Aware, ActLabels, JudgeLabels, HarvestLabels, MarkLabels
  <2>7. call'[c] = "start"
    BY <2>1, <2>2
  <2> QED
    BY <2>5, <2>6, <2>7 DEF Guarded
<1>17. CASE Dying
  <2>1. PICK p \in Processes :
          /\ \A q \in Processes : up'[q] = (up[q] /\ q # p)
          /\ \A b \in Actors :
               IF at[b] = p /\ pc[b] # "done"
               THEN pc'[b] = IF b \in Workers THEN "dead" ELSE "idle"
               ELSE UNCHANGED <<pc[b], at[b], seen[b], peek[b]>>
    BY <1>17 DEF Dying
  <2>2. p = Host
    BY <1>2, <1>3, <2>1 DEF AllUp, Processes
  <2>3. pc[w] \in Early
    BY <1>2, <1>4, <2>1 DEF Early
  <2>4. at[w] = Host
    BY <2>3 DEF Hosted, Registered, Early
  <2> QED
    BY <1>2, <1>4, <2>1, <2>2, <2>3, <2>4 DEF Early
<1> QED
  BY <1>1, <1>7, <1>8, <1>9, <1>10, <1>11, <1>12, <1>13, <1>14, <1>15, <1>16, <1>17

LEMMA GuardedAlways ==
  ASSUME NoResumption, ~ InProcess, ~ EarlyCalls
  PROVE  Spec => []Guarded
<1>1. Init => Guarded
  <2> SUFFICES ASSUME Init PROVE Guarded
    OBVIOUS
  <2>1. \A w \in Workers : pc[w] = "unborn"
    BY ConstantsAssumption DEF ConstantsAssumption, Init, Actors
  <2> QED
    BY <2>1 DEF Guarded, Delicate, Early
<1>2. Grounded /\ Lone /\ StartsFirst /\ Hosted /\ Guarded /\ [Next]_vars => Guarded'
  <2>1. CASE UNCHANGED vars
    BY <2>1 DEF vars, Guarded, Delicate, AllUp, Claimed, Aware
  <2> QED
    BY <2>1, Shape, GuardedOrdinary, GuardedSpecial DEF Grounded
<1> QED
  BY <1>1, <1>2, GroundedAlways, LoneAlways, HostedAlways, StartsFirstAlways, PTL DEF Spec

\* For callers that wait for run_start, and while no server has died, a run is completed
\* only once nobody executes it, whatever the heartbeats say.
THEOREM CompletionIsQuiet ==
  ASSUME NoResumption, ~ EarlyCalls
  PROVE  Spec => []QuietWhileServersLive
<1> DEFINE Inv == AllUp => Rests({"COMPLETE"})
<1>1. Init => Inv
  BY DEF Init, Created, Rests
<1>2. ASSUME Grounded, Lone, Inv, Next,
             AllUp /\ (\E c \in Callers : pc[c] = "x_settle") => Harmless
      PROVE  Inv'
  <2> SUFFICES ASSUME AllUp' PROVE Rests({"COMPLETE"})'
    OBVIOUS
  <2>1. AllUp
    BY <1>2, ServersDie
  <2>2. Rests({"COMPLETE"}) /\ {"COMPLETE"} \in {{"COMPLETE"}, Settled}
    BY <1>2, <2>1
  <2> QED
    BY <1>2, <2>1, <2>2, RestsStep
<1>3. UNCHANGED vars /\ Inv => Inv'
  BY DEF vars, AllUp, Rests, Executing
<1>4. Inv => QuietWhileServersLive
  BY DEF QuietWhileServersLive, AllUp, Rests, CompleteIsQuiet
<1>5. Judged /\ AllUp /\ (\E c \in Callers : pc[c] = "x_settle") => Harmless
  BY OverIsHarmless DEF Judged, JudgeLabels
<1>6. Guarded /\ AllUp /\ (\E c \in Callers : pc[c] = "x_settle") => Harmless
  BY DEF Guarded, Delicate, Aware, JudgeLabels, Harmless, Early, Executing
<1>7. Grounded /\ Lone /\ (Judged \/ Guarded) /\ Inv /\ [Next]_vars => Inv'
  <2> HIDE DEF Inv
  <2> QED
    BY <1>2, <1>3, <1>5, <1>6
<1>8. CASE InProcess
  BY <1>1, <1>4, <1>7, <1>8, GroundedAlways, LoneAlways, JudgedAlways, PTL DEF Spec
<1>9. CASE ~ InProcess
  BY <1>1, <1>4, <1>7, <1>9, GroundedAlways, LoneAlways, GuardedAlways, PTL DEF Spec
<1> QED
  BY <1>8, <1>9
=============================================================================
