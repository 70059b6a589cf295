--------------------------- MODULE DevWorkActors ---------------------------
(***************************************************************************)
(* Who may work on one DevWork at the same time: the driver task that      *)
(* DevWorkStateMachine keeps in _running, requests to /tick, and the calls *)
(* cancel, rerun, continue and delete, interleaved at their awaits.        *)
(*                                                                         *)
(* An action is what a task does from one await to the next; a statement   *)
(* takes effect where it is issued, since aiosqlite runs them in order.  A *)
(* handler is reduced to the writes its step can make from the row tick()  *)
(* has read: DevWork has the conditions under which it makes which.        *)
(***************************************************************************)
EXTENDS Naturals, FiniteSets

CONSTANTS
    Drivers,   \* slots for driver tasks
    Tickers,   \* slots for requests to /tick
    Calls,     \* slots for operator calls
    MaxRound,  \* bound of the model: the last round that is worked on
    Nobody     \* no driver is registered

ASSUME DevWorkActorsAssumption ==
    /\ Drivers \cap Tickers = {}
    /\ MaxRound \in Nat
    /\ Nobody \notin Drivers \cup Tickers

VARIABLES
    row,       \* the dev_works row: step, rounds and gates_json's cancelled_from_step
    running,   \* _running[dev_id]
    tasks,     \* driver tasks and /tick requests
    calls,     \* operator calls
    sessions,  \* open acpx sessions: the roles of each round
    ghost      \* cancelled: no rerun since the last cancel; ticks: /tick may be asked

vars == <<row, running, tasks, calls, sessions, ghost>>

Tasks == Drivers \cup Tickers

Work == {"INIT", "STEP1_VALIDATE", "STEP2_ITERATION", "STEP3_CONTEXT",
         "STEP4_DEVELOP", "STEP5_REVIEW"}
Terminal == {"COMPLETED", "ESCALATED", "CANCELLED"}
Steps == Work \cup Terminal \cup {"DELETED"}

Free(c) == calls[c].pc = "idle"

NextStep == [INIT |-> "STEP1_VALIDATE", STEP1_VALIDATE |-> "STEP2_ITERATION",
             STEP2_ITERATION |-> "STEP3_CONTEXT", STEP3_CONTEXT |-> "STEP4_DEVELOP",
             STEP4_DEVELOP |-> "STEP5_REVIEW"]
Role == [STEP2_ITERATION |-> "plan", STEP3_CONTEXT |-> "build",
         STEP4_DEVELOP |-> "build", STEP5_REVIEW |-> "review"]
EndsRound == {"STEP2_ITERATION", "STEP3_CONTEXT", "STEP5_REVIEW"}

NoTask == [pc |-> "off", step |-> "INIT", rounds |-> 0, from |-> "none", hit |-> FALSE]
NoCall == [pc |-> "idle", step |-> "INIT", rounds |-> 0, from |-> "none",
           waitsFor |-> Nobody]

(* create has committed the row; its route will call schedule_driver.      *)
Init ==
    /\ row = [step |-> "INIT", rounds |-> 0, from |-> "none"]
    /\ running = Nobody
    /\ tasks = [t \in Tasks |-> NoTask]
    /\ \E c \in Calls : calls = [d \in Calls |->
           IF d = c THEN [NoCall EXCEPT !.pc = "schedule"] ELSE NoCall]
    /\ sessions = {}
    /\ \E ticks \in {FALSE, Tickers # {}} : ghost = [cancelled |-> FALSE, ticks |-> ticks]

----------------------------------------------------------------------------
(* A task in tick(): its record holds the row as it has read it.           *)

Alive(t, p) == tasks[t].pc = p /\ ~tasks[t].hit
Goto(t, p) == tasks' = [tasks EXCEPT ![t].pc = p]

\* An UPDATE of a deleted row matches nothing.
Update(r) == row' = IF row.step = "DELETED" THEN row ELSE r

SessionOf(t) == <<tasks[t].rounds, Role[tasks[t].step]>>
HasSession(t) == tasks[t].step \in DOMAIN Role

\* A fault: whoever ends empties _running.
EndUnchecked(t) ==
    /\ tasks' = [tasks EXCEPT ![t] = NoTask]
    /\ running' = Nobody

\* The task is over; a driver's _on_done takes it out of _running, where
\* another may be by now.
End(t) ==
    /\ tasks' = [tasks EXCEPT ![t] = NoTask]
    /\ running' = IF running = t THEN Nobody ELSE running

\* The handler returns: the driver ticks again, a request is answered.
Return(t) ==
    tasks' = [tasks EXCEPT ![t] =
        IF t \in Drivers THEN [NoTask EXCEPT !.pc = "get"] ELSE NoTask]

RequestTick(t) ==
    /\ ghost.ticks /\ t \in Tickers /\ Alive(t, "off") /\ row.step # "DELETED"
    /\ Goto(t, "get")
    /\ UNCHANGED <<row, running, calls, sessions, ghost>>

Read(t) ==
    /\ Alive(t, "get")
    /\ IF row.step = "DELETED"
       THEN End(t)
       ELSE /\ tasks' = [tasks EXCEPT ![t].pc = "read", ![t].step = row.step,
                                      ![t].rounds = row.rounds]
            /\ UNCHANGED running
    /\ UNCHANGED <<row, calls, sessions, ghost>>

\* A driver that has read a terminal step is done, and a request is refused
\* when a driver is registered by now.
Dispatch(t) ==
    /\ Alive(t, "read")
    /\ IF /\ tasks[t].step \in Work /\ tasks[t].rounds =< MaxRound
          /\ t \in Tickers => running = Nobody
       THEN Goto(t, "handler") /\ UNCHANGED running
       ELSE End(t)
    /\ UNCHANGED <<row, calls, sessions, ghost>>

Prompt(t) ==
    /\ Alive(t, "handler") /\ HasSession(t)
    /\ sessions' = sessions \cup {SessionOf(t)}
    /\ Goto(t, "prompt")
    /\ UNCHANGED <<row, running, calls, ghost>>

PromptEnds(t) ==
    /\ Alive(t, "prompt")
    /\ Goto(t, "handler")
    /\ UNCHANGED <<row, running, calls, sessions, ghost>>

\* _update_gates_field and its like read gates_json and write it all back.
ReadGates(t) ==
    /\ Alive(t, "handler")
    /\ tasks' = [tasks EXCEPT ![t].pc = "gates", ![t].from = row.from]
    /\ UNCHANGED <<row, running, calls, sessions, ghost>>

WriteGates(t) ==
    /\ Alive(t, "gates")
    /\ Update([row EXCEPT !.from = tasks[t].from])
    /\ tasks' = [tasks EXCEPT ![t].pc = "handler", ![t].from = "none"]
    /\ UNCHANGED <<running, calls, sessions, ghost>>

\* _transition compares the step; STEP2 closes its session on the way out.
Transition(t) ==
    /\ Alive(t, "handler") /\ tasks[t].step \in DOMAIN NextStep
    /\ row' = IF row.step = tasks[t].step
              THEN [row EXCEPT !.step = NextStep[tasks[t].step]] ELSE row
    /\ sessions' = IF tasks[t].step = "STEP2_ITERATION"
                   THEN sessions \ {SessionOf(t)} ELSE sessions
    /\ Return(t)
    /\ UNCHANGED <<running, calls, ghost>>

(* The other endings of a handler do not: the next round, the same-round   *)
(* retries and COMPLETED, from the row as the task has read it.            *)
Endings(t) ==
    LET s == tasks[t].step IN
    {[row EXCEPT !.step = x] :
        x \in CASE s \in {"STEP2_ITERATION", "STEP3_CONTEXT"} -> {row.step}
                [] s = "STEP4_DEVELOP" -> {"STEP4_DEVELOP"}
                [] s = "STEP5_REVIEW" -> {"STEP4_DEVELOP", "STEP5_REVIEW", "COMPLETED"}
                [] OTHER -> {}}
    \cup {[row EXCEPT !.step = "STEP2_ITERATION", !.rounds = r] :
             r \in IF s \in EndsRound THEN {tasks[t].rounds + 1} ELSE {}}

Overwrite(t) ==
    /\ Alive(t, "handler")
    /\ \E r \in Endings(t) : Update(r)
    /\ sessions' = {s \in sessions : s[1] # tasks[t].rounds}
    /\ Return(t)
    /\ UNCHANGED <<running, calls, ghost>>

\* The budget is spent: the round is counted before the row escalates.
CountRound(t) ==
    /\ Alive(t, "handler") /\ tasks[t].step \in EndsRound
    /\ Update([row EXCEPT !.rounds = tasks[t].rounds + 1])
    /\ Goto(t, "counted")
    /\ UNCHANGED <<running, calls, sessions, ghost>>

GiveUp(t) ==
    /\ Alive(t, "handler") \/ Alive(t, "counted")
    /\ sessions' = {}
    /\ Goto(t, "closing")
    /\ UNCHANGED <<row, running, calls, ghost>>

Escalate(t) ==
    /\ Alive(t, "closing")
    /\ Update([row EXCEPT !.step = "ESCALATED"])
    /\ Return(t)
    /\ UNCHANGED <<running, calls, sessions, ghost>>

\* CancelledError reaches the task; STEP2 and STEP5 close their session.
Unwind(t) ==
    /\ tasks[t].hit
    /\ End(t)
    /\ sessions' = IF /\ tasks[t].pc \notin {"get", "read"}
                      /\ tasks[t].step \in {"STEP2_ITERATION", "STEP5_REVIEW"}
                   THEN sessions \ {SessionOf(t)} ELSE sessions
    /\ UNCHANGED <<row, calls, ghost>>

----------------------------------------------------------------------------
(* Operator calls.                                                         *)

CallGoto(c, p) == calls' = [calls EXCEPT ![c] = [NoCall EXCEPT !.pc = p]]
CallEnds(c) == calls' = [calls EXCEPT ![c] = NoCall]

CancelRead(c) ==
    /\ Free(c) /\ row.step \in Work
    /\ calls' = [calls EXCEPT ![c] = [NoCall EXCEPT !.pc = "cancel", !.step = row.step]]
    /\ UNCHANGED <<row, running, tasks, sessions, ghost>>

\* A fault: the UPDATE does not exclude COMPLETED.
CancelRowAnything(c) ==
    /\ calls[c].pc = "cancel"
    /\ row' = [row EXCEPT !.step = "CANCELLED", !.from = calls[c].step]
    /\ ghost' = [ghost EXCEPT !.cancelled = TRUE]
    /\ CallGoto(c, "kill")
    /\ UNCHANGED <<running, tasks, sessions>>

CancelRow(c) ==
    /\ calls[c].pc = "cancel"
    /\ IF row.step \in Work
       THEN /\ row' = [row EXCEPT !.step = "CANCELLED", !.from = calls[c].step]
            /\ ghost' = [ghost EXCEPT !.cancelled = TRUE]
            /\ CallGoto(c, "kill")
       ELSE CallEnds(c) /\ UNCHANGED <<row, ghost>>
    /\ UNCHANGED <<running, tasks, sessions>>

\* A fault: the driver is taken out of _running and left to itself.
CancelTaskForgets(c) ==
    /\ calls[c].pc = "kill"
    /\ running' = Nobody
    /\ CallGoto(c, "await")
    /\ UNCHANGED <<row, tasks, sessions, ghost>>

\* A fault: the driver is awaited without having been cancelled.
CancelTaskAwaits(c) ==
    /\ calls[c].pc = "kill"
    /\ running' = Nobody
    /\ calls' = [calls EXCEPT ![c] = [NoCall EXCEPT !.pc = "await", !.waitsFor = running]]
    /\ UNCHANGED <<row, tasks, sessions, ghost>>

CancelTask(c) ==
    /\ calls[c].pc = "kill"
    /\ running' = Nobody
    /\ tasks' = IF running = Nobody THEN tasks ELSE [tasks EXCEPT ![running].hit = TRUE]
    /\ calls' = [calls EXCEPT ![c] = [NoCall EXCEPT !.pc = "await", !.waitsFor = running]]
    /\ UNCHANGED <<row, sessions, ghost>>

\* A fault: the sessions go before the driver has let go of them.
CancelSweepEarly(c) ==
    /\ calls[c].pc = "await"
    /\ sessions' = {}
    /\ CallEnds(c)
    /\ UNCHANGED <<row, running, tasks, ghost>>

CancelSweep(c) ==
    /\ calls[c].pc = "await"
    /\ calls[c].waitsFor # Nobody => tasks[calls[c].waitsFor].pc = "off"
    /\ sessions' = {}
    /\ CallEnds(c)
    /\ UNCHANGED <<row, running, tasks, ghost>>

\* rerun_cancelled, continue_after_escalation, resume_step_after_escalation
ReviveRead(c) ==
    /\ Free(c) /\ row.step \in {"CANCELLED", "ESCALATED"}
    /\ calls' = [calls EXCEPT ![c] =
           [NoCall EXCEPT !.pc = "revive", !.step = row.step,
                          !.rounds = row.rounds, !.from = row.from]]
    /\ UNCHANGED <<row, running, tasks, sessions, ghost>>

\* A fault: a row without cancelled_from_step is not expected.
RerunStepOnly(call) == {call.from}

(* A CANCELLED row without cancelled_from_step is taken for an old one and *)
(* restarts where its last heartbeat was, or at INIT.                      *)
RerunStep(call) == IF call.from = "none" THEN {"INIT"} \cup DOMAIN Role ELSE {call.from}

(* Continue writes the counter as it has read it, or one more if it finds  *)
(* a round that an interrupted escalation has not counted.                 *)
Revived(call) ==
    IF call.step = "CANCELLED"
    THEN {[row EXCEPT !.step = s, !.from = "none"] : s \in RerunStep(call)}
    ELSE {[row EXCEPT !.step = s, !.from = call.from] :
             s \in {"STEP2_ITERATION", "STEP4_DEVELOP", "STEP5_REVIEW"}}
         \cup {[row EXCEPT !.step = "STEP2_ITERATION", !.rounds = r, !.from = call.from] :
                  r \in {call.rounds, call.rounds + 1} \cap (0..(MaxRound + 1))}

\* is_running is asked when the row has arrived.
ReviveRow(c) ==
    /\ calls[c].pc = "revive"
    /\ IF running = Nobody /\ row.step = calls[c].step
       THEN /\ row' \in Revived(calls[c])
            /\ ghost' = [ghost EXCEPT !.cancelled = FALSE]
            /\ CallGoto(c, "schedule")
       ELSE CallEnds(c) /\ UNCHANGED <<row, ghost>>
    /\ UNCHANGED <<running, tasks, sessions>>

\* A slot is not taken again while a cancel still waits for the task in it.
FreeSlot(d) == tasks[d].pc = "off" /\ \A c \in Calls : calls[c].waitsFor # d

\* A fault: schedule_driver does not look for a task it has started before.
ScheduleDriverAlways(c) ==
    /\ calls[c].pc = "schedule"
    /\ \E d \in Drivers :
          /\ FreeSlot(d)
          /\ tasks' = [tasks EXCEPT ![d].pc = "get"]
          /\ running' = d
    /\ CallEnds(c)
    /\ UNCHANGED <<row, sessions, ghost>>

ScheduleDriver(c) ==
    /\ calls[c].pc = "schedule"
    /\ IF running = Nobody
       THEN \E d \in Drivers :
               /\ FreeSlot(d)
               /\ tasks' = [tasks EXCEPT ![d].pc = "get"]
               /\ running' = d
       ELSE UNCHANGED <<tasks, running>>
    /\ CallEnds(c)
    /\ UNCHANGED <<row, sessions, ghost>>

DeleteRead(c) ==
    /\ Free(c) /\ row.step \in {"CANCELLED", "ESCALATED"}
    /\ CallGoto(c, "sweep")
    /\ UNCHANGED <<row, running, tasks, sessions, ghost>>

DeleteSweep(c) ==
    /\ calls[c].pc = "sweep"
    /\ IF running = Nobody
       THEN sessions' = {} /\ CallGoto(c, "delete")
       ELSE CallEnds(c) /\ UNCHANGED sessions
    /\ UNCHANGED <<row, running, tasks, ghost>>

\* Files, worktrees and rows go without another look at the step.
DeleteRow(c) ==
    /\ calls[c].pc = "delete"
    /\ row' = [row EXCEPT !.step = "DELETED"]
    /\ ghost' = [ghost EXCEPT !.cancelled = FALSE]
    /\ CallEnds(c)
    /\ UNCHANGED <<running, tasks, sessions>>

----------------------------------------------------------------------------
TaskStep(t) ==
    \/ RequestTick(t) \/ Read(t) \/ Dispatch(t) \/ Prompt(t) \/ PromptEnds(t)
    \/ ReadGates(t) \/ WriteGates(t) \/ Transition(t) \/ Overwrite(t)
    \/ CountRound(t) \/ GiveUp(t) \/ Escalate(t) \/ Unwind(t)

CallStep(c) ==
    \/ CancelRead(c) \/ CancelRow(c) \/ CancelTask(c) \/ CancelSweep(c)
    \/ ReviveRead(c) \/ ReviveRow(c) \/ ScheduleDriver(c)
    \/ DeleteRead(c) \/ DeleteSweep(c) \/ DeleteRow(c)

Next == (\E t \in Tasks : TaskStep(t)) \/ (\E c \in Calls : CallStep(c))

Spec == Init /\ [][Next]_vars

(* The event loop runs every task that can go on, and what a task awaits   *)
(* ends, prompts by their timeouts.                                        *)
Progress(t) == TaskStep(t) /\ ~RequestTick(t)
Answer(c) == CallStep(c) /\ calls[c].pc # "idle"
LiveSpec == /\ Spec
            /\ \A t \in Tasks : WF_vars(Progress(t))
            /\ \A c \in Calls : WF_vars(Answer(c))

----------------------------------------------------------------------------
(* Properties.                                                             *)

InHandler(t) == tasks[t].pc \in {"handler", "prompt", "gates", "counted", "closing"}

TypeOK ==
    /\ row \in [step : Steps, rounds : 0..(MaxRound + 1), from : Work \cup {"none"}]
    /\ running \in Drivers \cup {Nobody}
    /\ tasks \in [Tasks -> [pc : {"off", "get", "read", "handler", "prompt", "gates",
                                 "counted", "closing"},
                           step : Steps, rounds : 0..(MaxRound + 1),
                           from : Work \cup {"none"}, hit : BOOLEAN]]
    /\ calls \in [Calls -> [pc : {"idle", "cancel", "kill", "await", "revive",
                                 "schedule", "sweep", "delete"},
                           step : Steps, rounds : 0..(MaxRound + 1), from : Work \cup {"none"},
                           waitsFor : Drivers \cup {Nobody}]]
    /\ sessions \subseteq (0..(MaxRound + 1)) \X {"plan", "build", "review"}
    /\ ghost \in [cancelled : BOOLEAN, ticks : BOOLEAN]

(* Whatever calls overlap, _running holds the only driver that has not     *)
(* been cancelled: is_running speaks for all of them.                      *)
OneDriver ==
    \A d \in Drivers : tasks[d].pc # "off" /\ ~tasks[d].hit => running = d

(* A request to /tick never starts work on a row that a driver is working  *)
(* on, whatever it had read before: the 409 of tick() is answered in time. *)
(* The converse does not hold, schedule_driver asks only _running.         *)
TickYieldsToDriver ==
    [][\A k \in Tickers : ~InHandler(k) /\ InHandler(k)' =>
          \A d \in Drivers : InHandler(d) => tasks[d].hit]_vars

(* Without requests to /tick, and however calls overlap, the row has the   *)
(* step and the round that the driver's handler has found until the        *)
(* handler itself writes, or a cancel or delete does: the unguarded writes *)
(* of the handler then lose nobody's work.  (gates_json is another matter: *)
(* see ReadGates.)                                                         *)
SnapshotCurrent ==
    ~ghost.ticks => \A d \in Drivers : InHandler(d) /\ ~tasks[d].hit =>
        /\ row.step \in {tasks[d].step, "CANCELLED", "DELETED"}
        /\ tasks[d].pc \notin {"counted", "closing"} => row.rounds = tasks[d].rounds

(* Without requests to /tick and overlapping calls no stale write takes    *)
(* the round counter back.                                                 *)
RoundsGrow == [][ghost.ticks \/ row'.rounds >= row.rounds]_row

(* Without requests to /tick no stale write of a handler or a call reopens *)
(* a COMPLETED row, whatever calls overlap.                                *)
CompletedIsFinal ==
    [][~ghost.ticks /\ row.step = "COMPLETED" => row'.step \in {"COMPLETED", "DELETED"}]_row

(* A cancel returns: the driver it waits for ends, and however its handler *)
(* would go on, that is not put off for ever.                              *)
CancelReturns ==
    \A c \in Calls : calls[c].pc = "await" ~> calls[c].pc = "idle"

(* cancel: "the row is already CANCELLED and we just need the task to have *)
(* released its session references": it stays so until a rerun.            *)
CancelSticks == ghost.cancelled => row.step = "CANCELLED"

(* cancel lets the driver unwind first because deleting a session under a  *)
(* task that awaits it "risks a torn-down acpx process under a live        *)
(* caller".                                                                *)
NoTornSession ==
    ~ghost.ticks =>
        \A t \in Tasks : tasks[t].pc = "prompt" => SessionOf(t) \in sessions
=============================================================================
