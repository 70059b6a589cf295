----------------------------- MODULE Executions -----------------------------
(***************************************************************************)
(* What one LLM call leaves behind: its agent_dispatches row (the logical  *)
(* call), its agent_executions row (the lease on one process), and the     *)
(* acpx processes themselves, which outlive whoever started them.          *)
(*                                                                         *)
(* Three parties write an execution row with unconditional UPDATEs: the    *)
(* owner that runs the process (LLMRunner in the server, or                *)
(* cooagents-worker on an agent host, through the internal endpoints), the *)
(* janitor of the row's host, and nobody else, ever: a restart leaves the  *)
(* rows as they are.  Each janitor works through rows it has read before.  *)
(*                                                                         *)
(* A process is the generation of its call: 1 for the first that the call  *)
(* spawns, and so on; the row names one as pid, pgid and start time, and   *)
(* each carries the row's run token in its environment.  No caller of      *)
(* LLMRunner.run_oneshot opens a row for a delegated call yet; its         *)
(* signature, the worker and their tests do, and so does this module.      *)
(***************************************************************************)
EXTENDS Naturals, Sequences, SequencesExt

CONSTANTS
    Sessions,   \* calls of the server: sessions ensure, then prompt
    Workers,    \* calls delegated to cooagents-worker on the remote host
    Local, Remote,   \* the two hosts
    ListLimit,  \* limit of list_expired_for_host
    MaxEvents   \* bound: crashes, lost callbacks, stalls and timeouts

ASSUME ExecutionsAssumption ==
    /\ Sessions \cap Workers = {} /\ Local # Remote
    /\ ListLimit \in Nat \ {0} /\ MaxEvents \in Nat \ {0}

VARIABLES
    calls,     \* the party that runs the call
    ssh,       \* delegated calls whose SSH command the server awaits
    dispatch,  \* agent_dispatches.state
    rows,      \* agent_executions
    lapsed,    \* rows past lease_expires_at, the oldest first
    procs,     \* the last process of each call
    janitors,  \* AcpxJanitor on Local, cleanup-once on Remote
    kill,      \* settings.acpx.cleanup_kill_enabled
    events     \* events so far

vars == <<calls, ssh, dispatch, rows, lapsed, procs, janitors, kill, events>>

Execs == Sessions \cup Workers
Hosts == {Local, Remote}
HostOf(x) == IF x \in Workers THEN Remote ELSE Local
LiveStates == {"starting", "running", "stale", "cancelling"}
Terminal == {"terminated", "killed", "exited", "abandoned"}
Outcomes == {"succeeded", "failed", "timeout"}

NoCall == [pc |-> "idle", turn |-> "prompt", outcome |-> "failed"]
NoRow == [state |-> "none", gen |-> 0]
NoProc == [gen |-> 0, st |-> "none"]
\* list: snapshots of the rows left; gen: the process group in work.
Resting == [pc |-> "rest", list |-> <<>>, gen |-> 0]

Init ==
    /\ calls = [x \in Execs |-> NoCall]
    /\ ssh = {}
    /\ dispatch = [x \in Execs |-> "none"]
    /\ rows = [x \in Execs |-> NoRow]
    /\ lapsed = <<>>
    /\ procs = [x \in Execs |-> NoProc]
    /\ janitors = [h \in Hosts |-> Resting]
    /\ kill \in BOOLEAN
    /\ events = IF kill THEN 0 ELSE 1   \* bound: without kills one event fewer

Event == events < MaxEvents /\ events' = events + 1
At(x, pc) == calls[x].pc = pc
Enter(x, pc) == calls' = [calls EXCEPT ![x].pc = pc]
Alive(x) == procs[x].st = "alive"
Signalled(x) == procs' = [procs EXCEPT ![x].st = "failed"]
Lapsed(x) == x \in Range(lapsed)

----------------------------------------------------------------------------
(* AgentExecutionRepo.                                                     *)

\* A row is in lapsed once.
RenewLease(x) == lapsed' = RemoveFirst(lapsed, x)

\* The row's state is not looked at: a row that has ended is live again.
MarkProcessStarted(x) ==
    /\ rows[x].state # "none"
    /\ rows' = [rows EXCEPT ![x] = [state |-> "running", gen |-> procs[x].gen]]
    /\ RenewLease(x)

\* Nor here; the lease stays as it is.
MarkState(x, s) == rows' = [rows EXCEPT ![x].state = s]

MarkExited(x) == IF rows[x].state = "none" THEN UNCHANGED rows ELSE MarkState(x, "exited")

MarkCleanupStarted(x) == rows' = [rows EXCEPT ![x].state = "cancelling"]

\* A fault: a cleanup that has begun is left to the janitor that began it.
ExpiredUnclaimed(h) ==
    SelectSeq(lapsed, LAMBDA x : HostOf(x) = h /\ rows[x].state \in LiveStates \ {"cancelling"})

Expired(h) ==
    SelectSeq(lapsed, LAMBDA x : HostOf(x) = h /\ rows[x].state \in LiveStates)

ListExpiredForHost(h) ==
    LET found == Expired(h)
    IN  SubSeq(found, 1, IF Len(found) < ListLimit THEN Len(found) ELSE ListLimit)

\* Time passes: a heartbeat is late while the owner lives (a stall of the
\* loop, a locked database), or there is no owner left to send one.
LeaseExpires(x) ==
    /\ rows[x].state \in LiveStates /\ ~Lapsed(x)
    /\ lapsed' = Append(lapsed, x)
    /\ IF At(x, "lost") THEN UNCHANGED events ELSE Event
    /\ UNCHANGED <<calls, ssh, dispatch, rows, procs, janitors, kill>>

----------------------------------------------------------------------------
(* The call: _open_dispatch, _open_execution, then LLMRunner.              *)

OpenDispatch(x) ==
    /\ At(x, "idle")
    /\ dispatch' = [dispatch EXCEPT ![x] = "queued"]
    /\ Enter(x, "queued")
    /\ UNCHANGED <<ssh, rows, lapsed, procs, janitors, kill, events>>

MarkRunning(x) ==
    /\ At(x, "queued")
    /\ dispatch' = [dispatch EXCEPT ![x] = "running"]
    /\ Enter(x, "open")
    /\ UNCHANGED <<ssh, rows, lapsed, procs, janitors, kill, events>>

\* create_starting; a call of the DesignWork machine opens no row.  A
\* session that is still cached needs no ensure.
OpenExecution(x) ==
    /\ At(x, "open")
    /\ \E turn \in {"ensure", "prompt"} : \E s \in {"none", "starting"} :
        /\ x \in Workers => turn = "prompt"
        /\ x \in Sessions => s = "starting"
        /\ calls' = [calls EXCEPT ![x].pc = "spawn", ![x].turn = turn]
        /\ rows' = [rows EXCEPT ![x].state = s]
    /\ ssh' = IF x \in Workers THEN ssh \cup {x} ELSE ssh
    /\ UNCHANGED <<dispatch, lapsed, procs, janitors, kill, events>>

\* create_subprocess_exec: _run_local, run_with_progress or the worker.
Spawn(x) ==
    /\ At(x, "spawn")
    /\ procs' = [procs EXCEPT ![x] = [gen |-> @.gen + 1, st |-> "alive"]]
    /\ Enter(x, "record")
    /\ UNCHANGED <<ssh, dispatch, rows, lapsed, janitors, kill, events>>

\* acpx is not installed, or the cwd is gone.
SpawnFails(x) ==
    /\ At(x, "spawn") /\ Event
    /\ calls' = [calls EXCEPT ![x].outcome = "failed",
           ![x].pc = IF calls[x].turn = "ensure" THEN "abandon" ELSE "close"]
    /\ UNCHANGED <<ssh, dispatch, rows, lapsed, procs, janitors, kill>>

RecordStart(x) ==
    /\ At(x, "record")
    /\ IF rows[x].state = "none" THEN UNCHANGED <<rows, lapsed>> ELSE MarkProcessStarted(x)
    /\ Enter(x, "wait")
    /\ UNCHANGED <<ssh, dispatch, procs, janitors, kill, events>>

\* Best effort: the failure is logged and the call goes on.
RecordStartFails(x) ==
    /\ At(x, "record") /\ Event
    /\ Enter(x, "wait")
    /\ UNCHANGED <<ssh, dispatch, rows, lapsed, procs, janitors, kill>>

\* NotFoundError for a row that is not live.
Heartbeat(x) ==
    /\ At(x, "wait") /\ calls[x].turn = "prompt" /\ Alive(x)
    /\ rows[x].state \in LiveStates /\ Lapsed(x)
    /\ RenewLease(x)
    /\ UNCHANGED <<calls, ssh, dispatch, rows, procs, janitors, kill, events>>

\* The process comes to its own end; nobody reads the exit code of an orphan.
ProcessExits(x) ==
    /\ Alive(x)
    /\ \E st \in {"succeeded", "failed"} :
        /\ At(x, "lost") => st = "failed"
        /\ procs' = [procs EXCEPT ![x].st = st]
    /\ UNCHANGED <<calls, ssh, dispatch, rows, lapsed, janitors, kill, events>>

\* The wait is over: the outcome is the process's.  Then mark_exited.
ProcessReaped(x) ==
    /\ At(x, "wait") /\ ~Alive(x)
    /\ calls' = [calls EXCEPT ![x].pc = "exited", ![x].outcome = procs[x].st]
    /\ UNCHANGED <<ssh, dispatch, rows, lapsed, procs, janitors, kill, events>>

\* The turn's timeout, the idle timeout, or the worker's deadline: SIGTERM
\* to the group, SIGKILL to the process, and only then mark_exited.
TimesOut(x) ==
    /\ At(x, "wait") /\ Alive(x) /\ Event
    /\ Signalled(x)
    /\ calls' = [calls EXCEPT ![x].pc = "exited", ![x].outcome = "timeout"]
    /\ UNCHANGED <<ssh, dispatch, rows, lapsed, janitors, kill>>

\* A fault: the process is left to end by itself.
TimesOutUnkilled(x) ==
    /\ At(x, "wait") /\ Alive(x) /\ Event
    /\ calls' = [calls EXCEPT ![x].pc = "exited", ![x].outcome = "timeout"]
    /\ UNCHANGED <<ssh, dispatch, rows, lapsed, procs, janitors, kill>>

GiveUp(x) == TimesOut(x)

\* A fault: an ensure that fails is tried again.
EnsureAgain(x) ==
    calls' = [calls EXCEPT ![x] =
        IF @.turn = "prompt" THEN [@ EXCEPT !.pc = "close"]
        ELSE [NoCall EXCEPT !.pc = "spawn",
                  !.turn = IF calls[x].outcome = "succeeded" THEN "prompt" ELSE "ensure"]]

AfterExit(x) ==
    calls' = [calls EXCEPT ![x] =
        IF @.turn = "prompt" THEN [@ EXCEPT !.pc = "close"]
        ELSE [NoCall EXCEPT !.pc = IF calls[x].outcome = "succeeded" THEN "spawn" ELSE "abandon"]]

RecordExit(x) ==
    /\ At(x, "exited")
    /\ MarkExited(x)
    /\ AfterExit(x)
    /\ UNCHANGED <<ssh, dispatch, lapsed, procs, janitors, kill, events>>

RecordExitFails(x) ==
    /\ At(x, "exited") /\ Event
    /\ AfterExit(x)
    /\ UNCHANGED <<ssh, dispatch, rows, lapsed, procs, janitors, kill>>

\* start_session failed: mark_state 'abandoned', exit code 124.
Abandon(x) ==
    /\ At(x, "abandon")
    /\ MarkState(x, "abandoned")
    /\ calls' = [calls EXCEPT ![x].pc = "close", ![x].outcome = "timeout"]
    /\ UNCHANGED <<ssh, dispatch, lapsed, procs, janitors, kill, events>>

\* _close_dispatch with the outcome of a session's call.
CloseDispatch(x) ==
    /\ At(x, "close")
    /\ dispatch' = IF x \in Sessions \/ x \in ssh
                   THEN [dispatch EXCEPT ![x] = calls[x].outcome] ELSE dispatch
    /\ ssh' = ssh \ {x}
    /\ calls' = [calls EXCEPT ![x] = [NoCall EXCEPT !.pc = "done"]]
    /\ UNCHANGED <<rows, lapsed, procs, janitors, kill, events>>

\* A fault: the dispatch takes the outcome for a success unless it timed out.
CloseOptimistically(x) ==
    /\ At(x, "close")
    /\ dispatch' = [dispatch EXCEPT ![x] =
           IF calls[x].outcome = "timeout" THEN "timeout" ELSE "succeeded"]
    /\ ssh' = ssh \ {x}
    /\ calls' = [calls EXCEPT ![x] = [NoCall EXCEPT !.pc = "done"]]
    /\ UNCHANGED <<rows, lapsed, procs, janitors, kill, events>>

Close(x) == CloseDispatch(x)

\* run_remote: the SSH command times out; the worker is not told.
SshTimesOut(x) ==
    /\ x \in ssh /\ Event
    /\ ssh' = ssh \ {x}
    /\ dispatch' = [dispatch EXCEPT ![x] = "timeout"]
    /\ UNCHANGED <<calls, rows, lapsed, procs, janitors, kill>>

----------------------------------------------------------------------------
(* The janitors.  Local validates, claims the row, closes the session and  *)
(* signals; Remote validates and signals, and reports over HTTP.           *)

Jan(h) == janitors[h]
SetJan(h, j) == janitors' = [janitors EXCEPT ![h] = j]
Subject(h) == Head(Jan(h).list)
Following(h) ==
    LET rest == Tail(Jan(h).list)
    IN  IF rest = <<>> THEN Resting
        ELSE [pc |-> "validate", list |-> rest, gen |-> 0]

\* Snapshots keep the row: pgid and start time are compared, not re-read.
CleanupOnce(h) ==
    LET found == ListExpiredForHost(h)
    IN  /\ Jan(h).pc = "rest" /\ found # <<>>
        /\ SetJan(h, [pc |-> "validate", list |-> [i \in 1..Len(found) |->
                         [exec |-> found[i], gen |-> rows[found[i]].gen]], gen |-> 0])
        /\ UNCHANGED <<calls, ssh, dispatch, rows, lapsed, procs, kill, events>>

\* With no pid in the row every process with the token counts; else only the
\* group of that pid, whose start time must still be the same.
ValidateRow(s) == Alive(s.exec) /\ s.gen \in {0, procs[s.exec].gen}

Validate(h) ==
    LET s == Subject(h)
    IN  /\ Jan(h).pc = "validate"
        /\ SetJan(h, IF ~ValidateRow(s) THEN Following(h)
                     ELSE [pc |-> IF h = Local THEN "claim" ELSE "term",
                           list |-> Jan(h).list, gen |-> procs[s.exec].gen])
        /\ UNCHANGED <<calls, ssh, dispatch, rows, lapsed, procs, kill, events>>

Claim ==
    /\ Jan(Local).pc = "claim"
    /\ MarkCleanupStarted(Subject(Local).exec)
    /\ SetJan(Local, [Jan(Local) EXCEPT !.pc = "term"])
    /\ UNCHANGED <<calls, ssh, dispatch, lapsed, procs, kill, events>>

Gone(h) == ~Alive(Subject(h).exec) \/ procs[Subject(h).exec].gen # Jan(h).gen

\* The row's last state.  Remote's result may not reach the server.
Report(h, s) ==
    /\ SetJan(h, Following(h))
    /\ \/ MarkState(Subject(h).exec, s) /\ UNCHANGED events
       \/ h = Remote /\ Event /\ UNCHANGED rows

\* delete_session is over.  SIGTERM to the group of the row, or else to that
\* of the process found: on it a process may end or not.
TermGroup(h) ==
    \/ Gone(h) /\ Report(h, IF Subject(h).gen = 0 THEN "abandoned" ELSE "terminated")
    \/ /\ ~Gone(h) /\ SetJan(h, [Jan(h) EXCEPT !.pc = "grace"])
       /\ UNCHANGED <<rows, events>>

Term(h) ==
    /\ Jan(h).pc = "term"
    /\ IF h = Local /\ ~kill THEN Report(h, "stale") ELSE TermGroup(h)
    /\ UNCHANGED <<calls, ssh, dispatch, lapsed, procs, kill>>

\* terminate_grace_s later.
KillGroup(h) ==
    \/ ~kill /\ Report(h, "stale") /\ UNCHANGED procs
    \/ kill /\ Gone(h) /\ Report(h, "terminated") /\ UNCHANGED procs
    \/ /\ kill /\ ~Gone(h)
       /\ Signalled(Subject(h).exec)
       /\ SetJan(h, [Jan(h) EXCEPT !.pc = "killed"])
       /\ UNCHANGED <<rows, events>>

Grace(h) ==
    /\ Jan(h).pc = "grace"
    /\ KillGroup(h)
    /\ UNCHANGED <<calls, ssh, dispatch, lapsed, kill>>

\* kill_grace_s later.
Killed(h) ==
    /\ Jan(h).pc = "killed"
    /\ Report(h, "killed")
    /\ UNCHANGED <<calls, ssh, dispatch, lapsed, procs, kill>>

----------------------------------------------------------------------------
(* Crashes and cancels.  The processes of the lost party go on without it. *)

Lose(dead) ==
    [x \in Execs |-> IF x \in dead /\ ~At(x, "idle") /\ ~At(x, "done")
                     THEN [NoCall EXCEPT !.pc = "lost"] ELSE calls[x]]

\* Nothing at boot looks at agent_dispatches or agent_executions.  A call
\* that is not yet on its worker is lost as well.
Restart ==
    /\ Event
    /\ calls' = Lose(Sessions \cup {x \in Workers : calls[x].pc \in {"queued", "open"}})
    /\ ssh' = {}
    /\ janitors' = [janitors EXCEPT ![Local] = Resting]
    /\ UNCHANGED <<dispatch, rows, lapsed, procs, kill>>

\* cancel of the DevWork, or its driver's end: the task leaves the await it
\* is in.  A process that has been recorded is taken for exited, whoever
\* still runs; the dispatch stays open.
CallCancelled(x) ==
    /\ x \in Sessions /\ Event
    /\ calls[x].pc \notin {"idle", "done", "lost"}
    /\ calls' = Lose({x})
    /\ IF At(x, "wait") THEN MarkExited(x) ELSE UNCHANGED rows
    /\ UNCHANGED <<ssh, dispatch, lapsed, procs, janitors, kill>>

WorkerDies(x) ==
    /\ x \in Workers /\ calls[x].pc \in {"spawn", "record", "wait", "exited", "close"} /\ Event
    /\ calls' = Lose({x})
    /\ dispatch' = IF x \in ssh THEN [dispatch EXCEPT ![x] = "failed"] ELSE dispatch
    /\ ssh' = ssh \ {x}
    /\ UNCHANGED <<rows, lapsed, procs, janitors, kill>>

Call(x) ==
    \/ OpenDispatch(x) \/ MarkRunning(x) \/ OpenExecution(x)
    \/ Spawn(x) \/ SpawnFails(x) \/ RecordStart(x) \/ RecordStartFails(x)
    \/ Heartbeat(x) \/ ProcessReaped(x) \/ GiveUp(x)
    \/ RecordExit(x) \/ RecordExitFails(x) \/ Abandon(x) \/ Close(x)

Janitor(h) ==
    \/ CleanupOnce(h) \/ Validate(h) \/ Term(h) \/ Grace(h) \/ Killed(h)
    \/ h = Local /\ Claim

Next ==
    \/ \E x \in Execs : \/ Call(x) \/ ProcessExits(x) \/ LeaseExpires(x)
                        \/ SshTimesOut(x) \/ WorkerDies(x)
                        \/ CallCancelled(x)
    \/ \E h \in Hosts : Janitor(h)
    \/ Restart

\* The janitors' loops go on, and time passes for a row without an owner.
\* No process is promised to end, and no call to go on.
Spec ==
    /\ Init /\ [][Next]_vars
    /\ \A h \in Hosts : WF_vars(Janitor(h))
    /\ \A x \in Execs : WF_vars(At(x, "lost") /\ LeaseExpires(x))

----------------------------------------------------------------------------
(* Properties.                                                             *)

TypeOK ==
    /\ calls \in [Execs -> [pc : {"idle", "queued", "open", "spawn", "record", "wait",
                                  "exited", "abandon", "close", "done", "lost"},
                            turn : {"ensure", "prompt"}, outcome : Outcomes]]
    /\ ssh \subseteq Workers
    /\ dispatch \in [Execs -> {"none", "queued", "running"} \cup Outcomes]
    /\ rows \in [Execs -> [state : {"none"} \cup LiveStates \cup Terminal,
                           gen : 0..2]]
    /\ IsInjective(lapsed) /\ Range(lapsed) \subseteq Execs
    /\ procs \in [Execs -> [gen : 0..2, st : {"none", "alive", "succeeded", "failed"}]]
    /\ \A h \in Hosts : Jan(h).pc \in {"rest", "validate", "claim", "term", "grace", "killed"}
    /\ kill \in BOOLEAN /\ events \in 0..MaxEvents

\* _run_llm, _run_llm_session: when a call of the server closes its dispatch,
\* its acpx process has ended, also after a timeout and a janitor's signals:
\* the state machine's next step finds nobody else at work in the worktree.
EndedBeforeClose ==
    \A x \in Sessions : dispatch[x] \in Outcomes => ~Alive(x)

\* A dispatch is 'succeeded' only if the process of the last turn came to its
\* own end with exit code 0, whatever timeouts and janitors did meanwhile.
SuccessIsTheProcess ==
    \A x \in Execs : dispatch[x] = "succeeded" => procs[x].st = "succeeded"

\* AcpxJanitor, cooagents-worker cleanup-once: a process whose owner is gone,
\* and that its live row names (or that has not been recorded at all), comes
\* to an end, also if the server goes down again in the middle of a cleanup;
\* unless a janitor is at work on that row and on the process before: it
\* would close the row over the one that runs.
Outdated(x) ==
    \E h \in Hosts : \E i \in DOMAIN Jan(h).list :
        /\ Jan(h).list[i].exec = x
        /\ \/ Jan(h).list[i].gen \notin {0, procs[x].gen}
           \/ i = 1 /\ Jan(h).gen \notin {0, procs[x].gen}
Named(x) ==
    rows[x].state \in LiveStates /\ rows[x].gen \in {0, procs[x].gen} /\ ~Outdated(x)
Orphaned(x) == At(x, "lost") /\ Alive(x)

OrphansEnd ==
    \A x \in Execs : kill /\ Orphaned(x) /\ Named(x) ~> ~Alive(x)
=============================================================================
