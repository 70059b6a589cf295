------------------------ MODULE DevWorkActors_proofs ------------------------
(***************************************************************************)
(* Proofs about DevWorkActors, for any number of driver slots, requests to *)
(* /tick and operator calls: who may be at work at the same time, and what *)
(* a handler may rely on of the row it has read.                           *)
(***************************************************************************)
EXTENDS DevWorkActors, TLAPS

(* What a task and a call have checked before they got where they are.     *)
Checked ==
    /\ \A t \in Tasks :
          /\ InHandler(t) => tasks[t].step \in Work /\ tasks[t].rounds =< MaxRound
          /\ tasks[t].pc = "prompt" => HasSession(t)
          /\ tasks[t].pc = "counted" => tasks[t].step \in EndsRound
    /\ \A c \in Calls :
          /\ calls[c].pc = "cancel" => calls[c].step \in Work
          /\ calls[c].pc = "revive" => calls[c].step \in {"CANCELLED", "ESCALATED"}

(* _running holds a task that is alive and has not been cancelled.         *)
Registered ==
    /\ running # Nobody => tasks[running].pc # "off" /\ ~tasks[running].hit
    /\ \A t \in Tasks : tasks[t].pc = "off" => ~tasks[t].hit
    /\ \A t \in Tickers : ~tasks[t].hit
    /\ OneDriver

IInv == TypeOK /\ Checked /\ Registered

(* A task that is going to work, or works, on the row as it has read it.   *)
Holds(t) ==
    /\ ~tasks[t].hit
    /\ InHandler(t) \/ tasks[t].pc = "read"

(* Without requests to /tick: the row a driver has read changes under it   *)
(* only by a cancel, whose call is still going to stop that driver, or by  *)
(* a delete.                                                               *)
Snapshot ==
    ~ghost.ticks =>
        /\ \A t \in Tickers : tasks[t].pc = "off"
        /\ \A d \in Drivers : Holds(d) =>
              /\ row.step \in {tasks[d].step, "CANCELLED", "DELETED"}
              /\ row.step = "CANCELLED" =>
                     tasks[d].step = "CANCELLED" \/ \E c \in Calls : calls[c].pc = "kill"
              /\ tasks[d].pc \in {"read", "handler", "prompt", "gates"} =>
                     row.rounds = tasks[d].rounds

(* With one call at a time, besides: a cancelled task is awaited by its    *)
(* cancel, no other works meanwhile, and what a rerun has read is current. *)
OneCall == \E c \in Calls : Calls = {c}

Alternate ==
    ~ghost.ticks => \A c \in Calls :
        /\ \A d \in Drivers : tasks[d].hit =>
               calls[c].pc = "await" /\ calls[c].waitsFor = d
        /\ calls[c].pc = "await" => running = Nobody
        /\ calls[c].pc = "revive" =>
               calls[c].step = row.step /\ calls[c].rounds = row.rounds

Serial == Alternate /\ NoTornSession

Rows == [step : Steps, rounds : 0..(MaxRound + 1), from : Work \cup {"none"}]
TaskPcs == {"off", "get", "read", "handler", "prompt", "gates", "counted", "closing"}
TaskRecords == [pc : TaskPcs, step : Steps, rounds : 0..(MaxRound + 1),
                from : Work \cup {"none"}, hit : BOOLEAN]
CallPcs == {"idle", "cancel", "kill", "await", "revive", "schedule", "sweep", "delete"}
CallRecords == [pc : CallPcs, step : Steps, rounds : 0..(MaxRound + 1),
                from : Work \cup {"none"}, waitsFor : Drivers \cup {Nobody}]

----------------------------------------------------------------------------
(* The state diagram's straight line and the roles of its steps.           *)
LEMMA StepTables ==
    /\ DOMAIN NextStep = Work \ {"STEP5_REVIEW"}
    /\ \A s \in DOMAIN NextStep : NextStep[s] \in Work
    /\ DOMAIN Role = Work \ {"INIT", "STEP1_VALIDATE"}
    /\ \A s \in DOMAIN Role : Role[s] \in {"plan", "build", "review"}
BY DEF NextStep, Role, Work

(* What the unguarded writes of a handler leave in the row.                *)
LEMMA EndingRows ==
    ASSUME IInv, NEW t \in Tasks, Alive(t, "handler"), NEW r \in Endings(t)
    PROVE  /\ r \in Rows /\ r.from = row.from
           /\ r.rounds \in {row.rounds, tasks[t].rounds + 1}
<1>1. row \in Rows /\ tasks[t].rounds + 1 \in 0..(MaxRound + 1)
  BY DevWorkActorsAssumption
  DEF IInv, TypeOK, Checked, Rows, Alive, InHandler
<1>2. \/ \E x \in Steps : r = [row EXCEPT !.step = x]
      \/ r = [row EXCEPT !.step = "STEP2_ITERATION", !.rounds = tasks[t].rounds + 1]
  <2>1. row.step \in Steps
    BY <1>1 DEF Rows
  <2> QED
    BY <2>1 DEF Endings, Steps, Work, Terminal, EndsRound
<1> QED
  BY <1>1, <1>2 DEF Rows, Steps, Work

(* A task's record keeps its type whatever fields a step writes.           *)
LEMMA TaskUpdates ==
    ASSUME tasks \in [Tasks -> TaskRecords], NEW t \in Tasks
    PROVE  /\ \A p \in TaskPcs : [tasks EXCEPT ![t].pc = p] \in [Tasks -> TaskRecords]
           /\ [tasks EXCEPT ![t].hit = TRUE] \in [Tasks -> TaskRecords]
           /\ \A p \in TaskPcs, f \in Work \cup {"none"} :
                 [tasks EXCEPT ![t].pc = p, ![t].from = f] \in [Tasks -> TaskRecords]
           /\ \A s \in Steps, n \in 0..(MaxRound + 1) :
                 [tasks EXCEPT ![t].pc = "read", ![t].step = s, ![t].rounds = n]
                     \in [Tasks -> TaskRecords]
           /\ [tasks EXCEPT ![t] = NoTask] \in [Tasks -> TaskRecords]
           /\ [tasks EXCEPT ![t] = [NoTask EXCEPT !.pc = "get"]] \in [Tasks -> TaskRecords]
<1>1. tasks[t] \in TaskRecords
  OBVIOUS
<1>2. NoTask \in TaskRecords
  BY DevWorkActorsAssumption DEF NoTask, TaskRecords, TaskPcs, Steps, Work
<1>3. \A x \in TaskRecords, p \in TaskPcs : [x EXCEPT !.pc = p] \in TaskRecords
  BY DEF TaskRecords
<1>4. \A x \in TaskRecords : [x EXCEPT !.hit = TRUE] \in TaskRecords
  BY DEF TaskRecords
<1>5. \A x \in TaskRecords, p \in TaskPcs, f \in Work \cup {"none"} :
         [x EXCEPT !.pc = p, !.from = f] \in TaskRecords
  BY DEF TaskRecords
<1>6. \A x \in TaskRecords, s \in Steps, n \in 0..(MaxRound + 1) :
         [x EXCEPT !.pc = "read", !.step = s, !.rounds = n] \in TaskRecords
  BY DEF TaskRecords, TaskPcs
<1>7. \A x \in TaskRecords : [tasks EXCEPT ![t] = x] \in [Tasks -> TaskRecords]
  OBVIOUS
<1>8. "get" \in TaskPcs
  BY DEF TaskPcs
<1>9. \A p \in TaskPcs, f \in Work \cup {"none"} :
         [tasks EXCEPT ![t].pc = p, ![t].from = f]
             = [tasks EXCEPT ![t] = [tasks[t] EXCEPT !.pc = p, !.from = f]]
  OBVIOUS
<1>10. \A s \in Steps, n \in 0..(MaxRound + 1) :
         [tasks EXCEPT ![t].pc = "read", ![t].step = s, ![t].rounds = n]
             = [tasks EXCEPT ![t] = [tasks[t] EXCEPT !.pc = "read", !.step = s, !.rounds = n]]
  OBVIOUS
<1>11. \A p \in TaskPcs : [tasks EXCEPT ![t].pc = p] \in [Tasks -> TaskRecords]
  BY <1>1, <1>3, <1>7
<1>12. [tasks EXCEPT ![t].hit = TRUE] \in [Tasks -> TaskRecords]
  BY <1>1, <1>4, <1>7
<1>13. \A p \in TaskPcs, f \in Work \cup {"none"} :
          [tasks EXCEPT ![t].pc = p, ![t].from = f] \in [Tasks -> TaskRecords]
  BY <1>1, <1>5, <1>7, <1>9
<1>14. \A s \in Steps, n \in 0..(MaxRound + 1) :
          [tasks EXCEPT ![t].pc = "read", ![t].step = s, ![t].rounds = n]
              \in [Tasks -> TaskRecords]
  <2> TAKE s \in Steps, n \in 0..(MaxRound + 1)
  <2>1. [tasks[t] EXCEPT !.pc = "read", !.step = s, !.rounds = n] \in TaskRecords
    BY <1>1, <1>6
  <2> QED
    BY <2>1, <1>7, <1>10
<1>15. /\ [tasks EXCEPT ![t] = NoTask] \in [Tasks -> TaskRecords]
       /\ [tasks EXCEPT ![t] = [NoTask EXCEPT !.pc = "get"]] \in [Tasks -> TaskRecords]
  BY <1>2, <1>3, <1>7, <1>8
<1> QED
  BY <1>11, <1>12, <1>13, <1>14, <1>15

(* So does a call's.                                                       *)
LEMMA CallUpdates ==
    ASSUME calls \in [Calls -> CallRecords], NEW c \in Calls
    PROVE  /\ [calls EXCEPT ![c] = NoCall] \in [Calls -> CallRecords]
           /\ \A p \in CallPcs :
                 [calls EXCEPT ![c] = [NoCall EXCEPT !.pc = p]] \in [Calls -> CallRecords]
           /\ \A p \in CallPcs, w \in Drivers \cup {Nobody} :
                 [calls EXCEPT ![c] = [NoCall EXCEPT !.pc = p, !.waitsFor = w]]
                     \in [Calls -> CallRecords]
           /\ \A p \in CallPcs, s \in Steps :
                 [calls EXCEPT ![c] = [NoCall EXCEPT !.pc = p, !.step = s]]
                     \in [Calls -> CallRecords]
           /\ \A p \in CallPcs, s \in Steps, n \in 0..(MaxRound + 1), f \in Work \cup {"none"} :
                 [calls EXCEPT ![c] = [NoCall EXCEPT !.pc = p, !.step = s, !.rounds = n,
                                                     !.from = f]] \in [Calls -> CallRecords]
<1>1. NoCall \in CallRecords
  BY DevWorkActorsAssumption DEF NoCall, CallRecords, CallPcs, Steps, Work
<1>2. \A x \in CallRecords : [calls EXCEPT ![c] = x] \in [Calls -> CallRecords]
  OBVIOUS
<1>3. \A x \in CallRecords, p \in CallPcs : [x EXCEPT !.pc = p] \in CallRecords
  BY DEF CallRecords
<1>4. \A x \in CallRecords, p \in CallPcs, w \in Drivers \cup {Nobody} :
         [x EXCEPT !.pc = p, !.waitsFor = w] \in CallRecords
  BY DEF CallRecords
<1>5. \A x \in CallRecords, p \in CallPcs, s \in Steps :
         [x EXCEPT !.pc = p, !.step = s] \in CallRecords
  BY DEF CallRecords
<1>6. \A x \in CallRecords, p \in CallPcs, s \in Steps, n \in 0..(MaxRound + 1),
         f \in Work \cup {"none"} :
         [x EXCEPT !.pc = p, !.step = s, !.rounds = n, !.from = f] \in CallRecords
  BY DEF CallRecords
<1> QED
  BY <1>1, <1>2, <1>3, <1>4, <1>5, <1>6

(* The type invariant, variable by variable.                               *)
LEMMA Types ==
    TypeOK <=> /\ row \in Rows
               /\ running \in Drivers \cup {Nobody}
               /\ tasks \in [Tasks -> TaskRecords]
               /\ calls \in [Calls -> CallRecords]
               /\ sessions \subseteq (0..(MaxRound + 1)) \X {"plan", "build", "review"}
               /\ ghost \in [cancelled : BOOLEAN, ticks : BOOLEAN]
BY DEF TypeOK, Rows, TaskRecords, TaskPcs, CallRecords, CallPcs

(* Every step writes a task record.                                        *)
LEMMA TasksStep == IInv /\ [Next]_vars => tasks' \in [Tasks -> TaskRecords]
<1> SUFFICES ASSUME IInv, [Next]_vars PROVE tasks' \in [Tasks -> TaskRecords]
  OBVIOUS
<1>0. /\ row \in Rows /\ tasks \in [Tasks -> TaskRecords]
      /\ calls \in [Calls -> CallRecords] /\ running \in Drivers \cup {Nobody}
  BY Types DEF IInv
<1>1. ASSUME NEW t \in Tasks, RequestTick(t) PROVE tasks' \in [Tasks -> TaskRecords]
  BY <1>1, <1>0, TaskUpdates DEF RequestTick, Goto, End, TaskPcs
<1>2. ASSUME NEW t \in Tasks, Read(t) PROVE tasks' \in [Tasks -> TaskRecords]
  <2>1. CASE row.step = "DELETED"
    BY <1>2, <2>1, <1>0, TaskUpdates DEF Read, End
  <2>2. CASE row.step # "DELETED"
    <3>1. row.step \in Steps /\ row.rounds \in 0..(MaxRound + 1)
      BY <1>0 DEF Rows
    <3>2. tasks' = [tasks EXCEPT ![t].pc = "read", ![t].step = row.step,
                                 ![t].rounds = row.rounds]
      BY <1>2, <2>2 DEF Read
    <3> QED
      BY <3>1, <3>2, <1>0, TaskUpdates
  <2> QED
    BY <2>1, <2>2
<1>3. ASSUME NEW t \in Tasks, Dispatch(t) PROVE tasks' \in [Tasks -> TaskRecords]
  <2>1. CASE Goto(t, "handler")
    BY <2>1, <1>0, TaskUpdates DEF Goto, TaskPcs
  <2>2. CASE End(t)
    BY <2>2, <1>0, TaskUpdates DEF End
  <2> QED
    BY <1>3, <2>1, <2>2 DEF Dispatch
<1>4. ASSUME NEW t \in Tasks, Prompt(t) PROVE tasks' \in [Tasks -> TaskRecords]
  BY <1>4, <1>0, TaskUpdates DEF Prompt, Goto, End, TaskPcs
<1>5. ASSUME NEW t \in Tasks, PromptEnds(t) PROVE tasks' \in [Tasks -> TaskRecords]
  BY <1>5, <1>0, TaskUpdates DEF PromptEnds, Goto, End, TaskPcs
<1>6. ASSUME NEW t \in Tasks, ReadGates(t) PROVE tasks' \in [Tasks -> TaskRecords]
  BY <1>6, <1>0, TaskUpdates DEF ReadGates, TaskPcs, Rows
<1>7. ASSUME NEW t \in Tasks, WriteGates(t) PROVE tasks' \in [Tasks -> TaskRecords]
  BY <1>7, <1>0, TaskUpdates DEF WriteGates, TaskPcs
<1>8. ASSUME NEW t \in Tasks, Transition(t) PROVE tasks' \in [Tasks -> TaskRecords]
  BY <1>8, <1>0, TaskUpdates DEF Transition, Return
<1>9. ASSUME NEW t \in Tasks, Overwrite(t) PROVE tasks' \in [Tasks -> TaskRecords]
  BY <1>9, <1>0, TaskUpdates DEF Overwrite, Return
<1>10. ASSUME NEW t \in Tasks, CountRound(t) PROVE tasks' \in [Tasks -> TaskRecords]
  BY <1>10, <1>0, TaskUpdates DEF CountRound, Goto, End, TaskPcs
<1>11. ASSUME NEW t \in Tasks, GiveUp(t) PROVE tasks' \in [Tasks -> TaskRecords]
  BY <1>11, <1>0, TaskUpdates DEF GiveUp, Goto, End, TaskPcs
<1>12. ASSUME NEW t \in Tasks, Escalate(t) PROVE tasks' \in [Tasks -> TaskRecords]
  BY <1>12, <1>0, TaskUpdates DEF Escalate, Return
<1>13. ASSUME NEW t \in Tasks, Unwind(t) PROVE tasks' \in [Tasks -> TaskRecords]
  BY <1>13, <1>0, TaskUpdates DEF Unwind, End
<1>14. ASSUME NEW c \in Calls, CancelRead(c) PROVE tasks' \in [Tasks -> TaskRecords]
  BY <1>14, <1>0 DEF CancelRead
<1>15. ASSUME NEW c \in Calls, CancelRow(c) PROVE tasks' \in [Tasks -> TaskRecords]
  BY <1>15, <1>0 DEF CancelRow
<1>16. ASSUME NEW c \in Calls, CancelTask(c) PROVE tasks' \in [Tasks -> TaskRecords]
  BY <1>16, <1>0, TaskUpdates DEF CancelTask, Tasks
<1>17. ASSUME NEW c \in Calls, CancelSweep(c) PROVE tasks' \in [Tasks -> TaskRecords]
  BY <1>17, <1>0 DEF CancelSweep
<1>18. ASSUME NEW c \in Calls, ReviveRead(c) PROVE tasks' \in [Tasks -> TaskRecords]
  BY <1>18, <1>0 DEF ReviveRead
<1>19. ASSUME NEW c \in Calls, ReviveRow(c) PROVE tasks' \in [Tasks -> TaskRecords]
  BY <1>19, <1>0 DEF ReviveRow
<1>20. ASSUME NEW c \in Calls, ScheduleDriver(c) PROVE tasks' \in [Tasks -> TaskRecords]
  <2>1. CASE UNCHANGED tasks
    BY <2>1, <1>0
  <2>2. ASSUME NEW d \in Tasks, tasks' = [tasks EXCEPT ![d].pc = "get"]
        PROVE  tasks' \in [Tasks -> TaskRecords]
    BY <2>2, <1>0, TaskUpdates DEF TaskPcs
  <2> QED
    BY <1>20, <2>1, <2>2 DEF ScheduleDriver, Tasks
<1>21. ASSUME NEW c \in Calls, DeleteRead(c) PROVE tasks' \in [Tasks -> TaskRecords]
  BY <1>21, <1>0 DEF DeleteRead
<1>22. ASSUME NEW c \in Calls, DeleteSweep(c) PROVE tasks' \in [Tasks -> TaskRecords]
  BY <1>22, <1>0 DEF DeleteSweep
<1>23. ASSUME NEW c \in Calls, DeleteRow(c) PROVE tasks' \in [Tasks -> TaskRecords]
  BY <1>23, <1>0 DEF DeleteRow
<1>24. CASE UNCHANGED vars
  BY <1>0, <1>24 DEF vars
<1> QED
  BY <1>1, <1>2, <1>3, <1>4, <1>5, <1>6, <1>7, <1>8, <1>9, <1>10, <1>11, <1>12, <1>13,
     <1>14, <1>15, <1>16, <1>17, <1>18, <1>19, <1>20, <1>21, <1>22, <1>23, <1>24
  DEF Next, TaskStep, CallStep

(* Every step writes a call record.                                        *)
LEMMA CallsStep == IInv /\ [Next]_vars => calls' \in [Calls -> CallRecords]
<1> SUFFICES ASSUME IInv, [Next]_vars PROVE calls' \in [Calls -> CallRecords]
  OBVIOUS
<1>0. /\ row \in Rows /\ tasks \in [Tasks -> TaskRecords]
      /\ calls \in [Calls -> CallRecords] /\ running \in Drivers \cup {Nobody}
  BY Types DEF IInv
<1>1. ASSUME NEW t \in Tasks, RequestTick(t) PROVE calls' \in [Calls -> CallRecords]
  BY <1>1, <1>0 DEF RequestTick
<1>2. ASSUME NEW t \in Tasks, Read(t) PROVE calls' \in [Calls -> CallRecords]
  BY <1>2, <1>0 DEF Read
<1>3. ASSUME NEW t \in Tasks, Dispatch(t) PROVE calls' \in [Calls -> CallRecords]
  BY <1>3, <1>0 DEF Dispatch
<1>4. ASSUME NEW t \in Tasks, Prompt(t) PROVE calls' \in [Calls -> CallRecords]
  BY <1>4, <1>0 DEF Prompt
<1>5. ASSUME NEW t \in Tasks, PromptEnds(t) PROVE calls' \in [Calls -> CallRecords]
  BY <1>5, <1>0 DEF PromptEnds
<1>6. ASSUME NEW t \in Tasks, ReadGates(t) PROVE calls' \in [Calls -> CallRecords]
  BY <1>6, <1>0 DEF ReadGates
<1>7. ASSUME NEW t \in Tasks, WriteGates(t) PROVE calls' \in [Calls -> CallRecords]
  BY <1>7, <1>0 DEF WriteGates
<1>8. ASSUME NEW t \in Tasks, Transition(t) PROVE calls' \in [Calls -> CallRecords]
  BY <1>8, <1>0 DEF Transition
<1>9. ASSUME NEW t \in Tasks, Overwrite(t) PROVE calls' \in [Calls -> CallRecords]
  BY <1>9, <1>0 DEF Overwrite
<1>10. ASSUME NEW t \in Tasks, CountRound(t) PROVE calls' \in [Calls -> CallRecords]
  BY <1>10, <1>0 DEF CountRound
<1>11. ASSUME NEW t \in Tasks, GiveUp(t) PROVE calls' \in [Calls -> CallRecords]
  BY <1>11, <1>0 DEF GiveUp
<1>12. ASSUME NEW t \in Tasks, Escalate(t) PROVE calls' \in [Calls -> CallRecords]
  BY <1>12, <1>0 DEF Escalate
<1>13. ASSUME NEW t \in Tasks, Unwind(t) PROVE calls' \in [Calls -> CallRecords]
  BY <1>13, <1>0 DEF Unwind
<1>14. ASSUME NEW c \in Calls, CancelRead(c) PROVE calls' \in [Calls -> CallRecords]
  BY <1>14, <1>0, CallUpdates DEF CancelRead, CallGoto, CallEnds, CallPcs, Rows
<1>15. ASSUME NEW c \in Calls, CancelRow(c) PROVE calls' \in [Calls -> CallRecords]
  <2>1. CASE CallGoto(c, "kill")
    BY <2>1, <1>0, CallUpdates DEF CallGoto, CallPcs
  <2>2. CASE CallEnds(c)
    BY <2>2, <1>0, CallUpdates DEF CallEnds
  <2> QED
    BY <1>15, <2>1, <2>2 DEF CancelRow
<1>16. ASSUME NEW c \in Calls, CancelTask(c) PROVE calls' \in [Calls -> CallRecords]
  BY <1>16, <1>0, CallUpdates DEF CancelTask, CallGoto, CallEnds, CallPcs, Rows
<1>17. ASSUME NEW c \in Calls, CancelSweep(c) PROVE calls' \in [Calls -> CallRecords]
  BY <1>17, <1>0, CallUpdates DEF CancelSweep, CallGoto, CallEnds, CallPcs, Rows
<1>18. ASSUME NEW c \in Calls, ReviveRead(c) PROVE calls' \in [Calls -> CallRecords]
  BY <1>18, <1>0, CallUpdates DEF ReviveRead, CallGoto, CallEnds, CallPcs, Rows
<1>19. ASSUME NEW c \in Calls, ReviveRow(c) PROVE calls' \in [Calls -> CallRecords]
  <2>1. CASE CallGoto(c, "schedule")
    BY <2>1, <1>0, CallUpdates DEF CallGoto, CallPcs
  <2>2. CASE CallEnds(c)
    BY <2>2, <1>0, CallUpdates DEF CallEnds
  <2> QED
    BY <1>19, <2>1, <2>2 DEF ReviveRow
<1>20. ASSUME NEW c \in Calls, ScheduleDriver(c) PROVE calls' \in [Calls -> CallRecords]
  BY <1>20, <1>0, CallUpdates DEF ScheduleDriver, CallGoto, CallEnds, CallPcs, Rows
<1>21. ASSUME NEW c \in Calls, DeleteRead(c) PROVE calls' \in [Calls -> CallRecords]
  BY <1>21, <1>0, CallUpdates DEF DeleteRead, CallGoto, CallEnds, CallPcs, Rows
<1>22. ASSUME NEW c \in Calls, DeleteSweep(c) PROVE calls' \in [Calls -> CallRecords]
  <2>1. CASE CallGoto(c, "delete")
    BY <2>1, <1>0, CallUpdates DEF CallGoto, CallPcs
  <2>2. CASE CallEnds(c)
    BY <2>2, <1>0, CallUpdates DEF CallEnds
  <2> QED
    BY <1>22, <2>1, <2>2 DEF DeleteSweep
<1>23. ASSUME NEW c \in Calls, DeleteRow(c) PROVE calls' \in [Calls -> CallRecords]
  BY <1>23, <1>0, CallUpdates DEF DeleteRow, CallGoto, CallEnds, CallPcs, Rows
<1>24. CASE UNCHANGED vars
  BY <1>0, <1>24 DEF vars
<1> QED
  BY <1>1, <1>2, <1>3, <1>4, <1>5, <1>6, <1>7, <1>8, <1>9, <1>10, <1>11, <1>12, <1>13,
     <1>14, <1>15, <1>16, <1>17, <1>18, <1>19, <1>20, <1>21, <1>22, <1>23, <1>24
  DEF Next, TaskStep, CallStep

(* What rerun, continue and resume leave in the row.                       *)
LEMMA RevivedRows ==
    ASSUME IInv, NEW c \in Calls, NEW r \in Revived(calls[c])
    PROVE  r \in Rows /\ r.rounds \in {row.rounds, calls[c].rounds, calls[c].rounds + 1}
<1>1. row \in Rows /\ calls[c] \in CallRecords
  BY Types DEF IInv
<1>2. RerunStep(calls[c]) \subseteq Work
  BY <1>1, StepTables DEF RerunStep, CallRecords, Work
<1>3. MaxRound + 1 \in 0..(MaxRound + 1)
  BY DevWorkActorsAssumption DEF IInv
<1>4. CASE calls[c].step = "CANCELLED"
  <2>1. PICK s \in Work : r = [row EXCEPT !.step = s, !.from = "none"]
    BY <1>4, <1>2 DEF Revived
  <2> QED
    BY <2>1, <1>1 DEF Rows, Steps
<1>5. CASE calls[c].step # "CANCELLED"
  <2>1. \/ \E s \in Work : r = [row EXCEPT !.step = s, !.from = calls[c].from]
        \/ \E n \in {calls[c].rounds, calls[c].rounds + 1} \cap (0..(MaxRound + 1)) :
              r = [row EXCEPT !.step = "STEP2_ITERATION", !.rounds = n, !.from = calls[c].from]
    BY <1>5 DEF Revived, Work
  <2>2. \A s \in Work : [row EXCEPT !.step = s, !.from = calls[c].from] \in Rows
    BY <1>1 DEF Rows, Steps, CallRecords
  <2>3. \A n \in 0..(MaxRound + 1) :
           [row EXCEPT !.step = "STEP2_ITERATION", !.rounds = n, !.from = calls[c].from] \in Rows
    BY <1>1 DEF Rows, Steps, Work, CallRecords
  <2>4. 0..(MaxRound + 1) \subseteq 0..(MaxRound + 1)
    BY <1>3, DevWorkActorsAssumption
  <2> QED
    BY <2>1, <2>2, <2>3, <2>4, <1>1 DEF Rows
<1> QED
  BY <1>4, <1>5

(* Every write of the row leaves a row: the handlers' unguarded ones too.  *)
LEMMA RowStep == IInv /\ [Next]_vars => row' \in Rows
<1> SUFFICES ASSUME IInv, [Next]_vars PROVE row' \in Rows
  OBVIOUS
<1>0. /\ row \in Rows /\ tasks \in [Tasks -> TaskRecords]
      /\ calls \in [Calls -> CallRecords] /\ running \in Drivers \cup {Nobody}
  BY Types DEF IInv
<1>1. ASSUME NEW t \in Tasks, RequestTick(t) PROVE row' \in Rows
  BY <1>1, <1>0 DEF RequestTick
<1>2. ASSUME NEW t \in Tasks, Read(t) PROVE row' \in Rows
  BY <1>2, <1>0 DEF Read
<1>3. ASSUME NEW t \in Tasks, Dispatch(t) PROVE row' \in Rows
  BY <1>3, <1>0 DEF Dispatch
<1>4. ASSUME NEW t \in Tasks, Prompt(t) PROVE row' \in Rows
  BY <1>4, <1>0 DEF Prompt
<1>5. ASSUME NEW t \in Tasks, PromptEnds(t) PROVE row' \in Rows
  BY <1>5, <1>0 DEF PromptEnds
<1>6. ASSUME NEW t \in Tasks, ReadGates(t) PROVE row' \in Rows
  BY <1>6, <1>0 DEF ReadGates
<1>7. ASSUME NEW t \in Tasks, WriteGates(t) PROVE row' \in Rows
  <2>1. [row EXCEPT !.from = tasks[t].from] \in Rows
    BY <1>0 DEF Rows, TaskRecords
  <2> QED
    BY <1>7, <2>1, <1>0 DEF WriteGates, Update
<1>8. ASSUME NEW t \in Tasks, Transition(t) PROVE row' \in Rows
  <2>1. \A s \in Work : [row EXCEPT !.step = s] \in Rows
    BY <1>0 DEF Rows, Steps
  <2> QED
    BY <1>8, <2>1, <1>0, StepTables DEF Transition
<1>9. ASSUME NEW t \in Tasks, Overwrite(t) PROVE row' \in Rows
  BY <1>9, <1>0, EndingRows DEF Overwrite, Update
<1>10. ASSUME NEW t \in Tasks, CountRound(t) PROVE row' \in Rows
  <2>1. tasks[t].rounds + 1 \in 0..(MaxRound + 1)
    BY <1>10, DevWorkActorsAssumption
    DEF CountRound, Alive, IInv, TypeOK, Checked, InHandler
  <2>2. [row EXCEPT !.rounds = tasks[t].rounds + 1] \in Rows
    BY <2>1, <1>0 DEF Rows
  <2> QED
    BY <1>10, <2>2, <1>0 DEF CountRound, Update
<1>11. ASSUME NEW t \in Tasks, GiveUp(t) PROVE row' \in Rows
  BY <1>11, <1>0 DEF GiveUp
<1>12. ASSUME NEW t \in Tasks, Escalate(t) PROVE row' \in Rows
  <2>1. [row EXCEPT !.step = "ESCALATED"] \in Rows
    BY <1>0 DEF Rows, Steps, Terminal
  <2> QED
    BY <1>12, <2>1, <1>0 DEF Escalate, Update
<1>13. ASSUME NEW t \in Tasks, Unwind(t) PROVE row' \in Rows
  BY <1>13, <1>0 DEF Unwind
<1>14. ASSUME NEW c \in Calls, CancelRead(c) PROVE row' \in Rows
  BY <1>14, <1>0 DEF CancelRead
<1>15. ASSUME NEW c \in Calls, CancelRow(c) PROVE row' \in Rows
  <2>1. calls[c].step \in Work
    BY <1>15 DEF CancelRow, IInv, Checked
  <2>2. [row EXCEPT !.step = "CANCELLED", !.from = calls[c].step] \in Rows
    BY <1>0, <2>1 DEF Rows, Steps, Terminal
  <2> QED
    BY <1>15, <2>2, <1>0 DEF CancelRow
<1>16. ASSUME NEW c \in Calls, CancelTask(c) PROVE row' \in Rows
  BY <1>16, <1>0 DEF CancelTask
<1>17. ASSUME NEW c \in Calls, CancelSweep(c) PROVE row' \in Rows
  BY <1>17, <1>0 DEF CancelSweep
<1>18. ASSUME NEW c \in Calls, ReviveRead(c) PROVE row' \in Rows
  BY <1>18, <1>0 DEF ReviveRead
<1>19. ASSUME NEW c \in Calls, ReviveRow(c) PROVE row' \in Rows
  BY <1>19, <1>0, RevivedRows DEF ReviveRow
<1>20. ASSUME NEW c \in Calls, ScheduleDriver(c) PROVE row' \in Rows
  BY <1>20, <1>0 DEF ScheduleDriver
<1>21. ASSUME NEW c \in Calls, DeleteRead(c) PROVE row' \in Rows
  BY <1>21, <1>0 DEF DeleteRead
<1>22. ASSUME NEW c \in Calls, DeleteSweep(c) PROVE row' \in Rows
  BY <1>22, <1>0 DEF DeleteSweep
<1>23. ASSUME NEW c \in Calls, DeleteRow(c) PROVE row' \in Rows
  <2>1. [row EXCEPT !.step = "DELETED"] \in Rows
    BY <1>0 DEF Rows, Steps
  <2> QED
    BY <1>23, <2>1 DEF DeleteRow
<1>24. CASE UNCHANGED vars
  BY <1>0, <1>24 DEF vars
<1> QED
  BY <1>1, <1>2, <1>3, <1>4, <1>5, <1>6, <1>7, <1>8, <1>9, <1>10, <1>11, <1>12, <1>13,
     <1>14, <1>15, <1>16, <1>17, <1>18, <1>19, <1>20, <1>21, <1>22, <1>23, <1>24
  DEF Next, TaskStep, CallStep

(* The rest of the types.                                                  *)
LEMMA TypeStep == IInv /\ [Next]_vars => TypeOK'
<1> SUFFICES ASSUME IInv, [Next]_vars PROVE TypeOK'
  OBVIOUS
<1>1. TypeOK
  BY DEF IInv
<1>2. ghost' \in [cancelled : BOOLEAN, ticks : BOOLEAN] /\ ghost'.ticks = ghost.ticks
  <2>1. \A b \in BOOLEAN :
           /\ [ghost EXCEPT !.cancelled = b] \in [cancelled : BOOLEAN, ticks : BOOLEAN]
           /\ [ghost EXCEPT !.cancelled = b].ticks = ghost.ticks
    BY <1>1 DEF TypeOK
  <2>2. UNCHANGED ghost \/ \E b \in BOOLEAN : ghost' = [ghost EXCEPT !.cancelled = b]
    BY DEF Next, TaskStep, CallStep, vars, RequestTick, Read, Dispatch, Prompt, PromptEnds,
       ReadGates, WriteGates, Transition, Overwrite, CountRound, GiveUp, Escalate, Unwind,
       CancelRead, CancelRow, CancelTask, CancelSweep, ReviveRead, ReviveRow,
       ScheduleDriver, DeleteRead, DeleteSweep, DeleteRow
  <2> QED
    BY <2>1, <2>2, <1>1 DEF TypeOK
<1>3. running' \in Drivers \cup {Nobody}
  BY <1>1 DEF TypeOK, Next, TaskStep, CallStep, vars, RequestTick, Read, Dispatch,
     Prompt, PromptEnds,
       ReadGates, WriteGates, Transition, Overwrite, CountRound, GiveUp, Escalate, Unwind,
       CancelRead, CancelRow, CancelTask, CancelSweep, ReviveRead, ReviveRow,
       ScheduleDriver, DeleteRead, DeleteSweep, DeleteRow, End
<1>4. sessions' \subseteq
         sessions \cup {SessionOf(t) : t \in {u \in Tasks : HasSession(u)}}
  BY DEF Next, TaskStep, CallStep, vars, RequestTick, Read, Dispatch, Prompt, PromptEnds,
       ReadGates, WriteGates, Transition, Overwrite, CountRound, GiveUp, Escalate, Unwind,
       CancelRead, CancelRow, CancelTask, CancelSweep, ReviveRead, ReviveRow,
       ScheduleDriver, DeleteRead, DeleteSweep, DeleteRow
<1>5. \A t \in Tasks : HasSession(t) =>
         SessionOf(t) \in (0..(MaxRound + 1)) \X {"plan", "build", "review"}
  BY <1>1, StepTables DEF TypeOK, SessionOf, HasSession
<1>6. sessions' \subseteq (0..(MaxRound + 1)) \X {"plan", "build", "review"}
  BY <1>1, <1>4, <1>5 DEF TypeOK
<1> QED
  BY <1>2, <1>3, <1>6, RowStep, TasksStep, CallsStep
  DEF TypeOK, Rows, TaskRecords, TaskPcs, CallRecords, CallPcs

(* A handler starts on an open row within the bound, a call on a row of its*)
(* step.                                                                   *)
LEMMA CheckedStep == IInv /\ TypeOK' /\ [Next]_vars => Checked'
<1> SUFFICES ASSUME IInv, TypeOK', [Next]_vars PROVE Checked'
  OBVIOUS
<1> USE DevWorkActorsAssumption DEF IInv, TypeOK, Checked, Tasks, NoTask, NoCall,
     InHandler, HasSession
<1>1. ASSUME NEW t \in Tasks, RequestTick(t) PROVE Checked'
  BY <1>1 DEF RequestTick, Alive, Goto
<1>2. ASSUME NEW t \in Tasks, Read(t) PROVE Checked'
  BY <1>2 DEF Read, Alive, End
<1>3. ASSUME NEW t \in Tasks, Dispatch(t) PROVE Checked'
  BY <1>3 DEF Dispatch, Alive, Goto, End
<1>4. ASSUME NEW t \in Tasks, Prompt(t) PROVE Checked'
  BY <1>4 DEF Prompt, Alive, Goto, SessionOf
<1>5. ASSUME NEW t \in Tasks, PromptEnds(t) PROVE Checked'
  BY <1>5 DEF PromptEnds, Alive, Goto
<1>6. ASSUME NEW t \in Tasks, ReadGates(t) PROVE Checked'
  BY <1>6 DEF ReadGates, Alive
<1>7. ASSUME NEW t \in Tasks, WriteGates(t) PROVE Checked'
  BY <1>7 DEF WriteGates, Alive, Update
<1>8. ASSUME NEW t \in Tasks, Transition(t) PROVE Checked'
  BY <1>8 DEF Transition, Alive, Return, SessionOf
<1>9. ASSUME NEW t \in Tasks, Overwrite(t) PROVE Checked'
  BY <1>9 DEF Overwrite, Alive, Return
<1>10. ASSUME NEW t \in Tasks, CountRound(t) PROVE Checked'
  BY <1>10 DEF CountRound, Alive, Goto, Update
<1>11. ASSUME NEW t \in Tasks, GiveUp(t) PROVE Checked'
  BY <1>11 DEF GiveUp, Alive, Goto
<1>12. ASSUME NEW t \in Tasks, Escalate(t) PROVE Checked'
  BY <1>12 DEF Escalate, Alive, Return, Update
<1>13. ASSUME NEW t \in Tasks, Unwind(t) PROVE Checked'
  BY <1>13 DEF Unwind, End, SessionOf
<1>14. ASSUME NEW c \in Calls, CancelRead(c) PROVE Checked'
  BY <1>14 DEF CancelRead, Free
<1>15. ASSUME NEW c \in Calls, CancelRow(c) PROVE Checked'
  BY <1>15 DEF CancelRow, CallGoto, CallEnds
<1>16. ASSUME NEW c \in Calls, CancelTask(c) PROVE Checked'
  BY <1>16 DEF CancelTask
<1>17. ASSUME NEW c \in Calls, CancelSweep(c) PROVE Checked'
  BY <1>17 DEF CancelSweep, CallEnds
<1>18. ASSUME NEW c \in Calls, ReviveRead(c) PROVE Checked'
  BY <1>18 DEF ReviveRead, Free
<1>19. ASSUME NEW c \in Calls, ReviveRow(c) PROVE Checked'
  BY <1>19 DEF ReviveRow, CallGoto, CallEnds
<1>20. ASSUME NEW c \in Calls, ScheduleDriver(c) PROVE Checked'
  BY <1>20 DEF ScheduleDriver, CallEnds, FreeSlot
<1>21. ASSUME NEW c \in Calls, DeleteRead(c) PROVE Checked'
  BY <1>21 DEF DeleteRead, Free, CallGoto
<1>22. ASSUME NEW c \in Calls, DeleteSweep(c) PROVE Checked'
  BY <1>22 DEF DeleteSweep, CallGoto, CallEnds
<1>23. ASSUME NEW c \in Calls, DeleteRow(c) PROVE Checked'
  BY <1>23 DEF DeleteRow, CallEnds
<1>24. CASE UNCHANGED vars
  BY <1>24 DEF vars
<1> QED
  BY <1>1, <1>2, <1>3, <1>4, <1>5, <1>6, <1>7, <1>8, <1>9, <1>10, <1>11, <1>12, <1>13,
     <1>14, <1>15, <1>16, <1>17, <1>18, <1>19, <1>20, <1>21, <1>22, <1>23, <1>24
  DEF Next, TaskStep, CallStep

(* schedule_driver asks _running, cancel takes the driver out of it as it  *)
(* cancels it, and _on_done takes out only the task that ends.             *)
LEMMA RegisteredStep == IInv /\ [Next]_vars => Registered'
<1> SUFFICES ASSUME IInv, [Next]_vars PROVE Registered'
  OBVIOUS
<1> USE DevWorkActorsAssumption DEF IInv, TypeOK, Tasks, NoTask, Registered, OneDriver
<1>1. ASSUME NEW t \in Tasks, RequestTick(t) PROVE Registered'
  BY <1>1 DEF RequestTick, Alive, Goto
<1>2. ASSUME NEW t \in Tasks, Read(t) PROVE Registered'
  BY <1>2 DEF Read, Alive, End
<1>3. ASSUME NEW t \in Tasks, Dispatch(t) PROVE Registered'
  <2>1. CASE Goto(t, "handler") /\ UNCHANGED running
    BY <1>3, <2>1 DEF Dispatch, Alive, Goto
  <2>2. CASE End(t)
    BY <1>3, <2>2 DEF Dispatch, Alive, End
  <2> QED
    BY <1>3, <2>1, <2>2 DEF Dispatch
<1>4. ASSUME NEW t \in Tasks, Prompt(t) PROVE Registered'
  BY <1>4 DEF Prompt, Alive, Goto, SessionOf
<1>5. ASSUME NEW t \in Tasks, PromptEnds(t) PROVE Registered'
  BY <1>5 DEF PromptEnds, Alive, Goto
<1>6. ASSUME NEW t \in Tasks, ReadGates(t) PROVE Registered'
  BY <1>6 DEF ReadGates, Alive
<1>7. ASSUME NEW t \in Tasks, WriteGates(t) PROVE Registered'
  BY <1>7 DEF WriteGates, Alive, Update
<1>8. ASSUME NEW t \in Tasks, Transition(t) PROVE Registered'
  BY <1>8 DEF Transition, Alive, Return, SessionOf
<1>9. ASSUME NEW t \in Tasks, Overwrite(t) PROVE Registered'
  BY <1>9 DEF Overwrite, Alive, Return
<1>10. ASSUME NEW t \in Tasks, CountRound(t) PROVE Registered'
  BY <1>10 DEF CountRound, Alive, Goto, Update
<1>11. ASSUME NEW t \in Tasks, GiveUp(t) PROVE Registered'
  BY <1>11 DEF GiveUp, Alive, Goto
<1>12. ASSUME NEW t \in Tasks, Escalate(t) PROVE Registered'
  BY <1>12 DEF Escalate, Alive, Return, Update
<1>13. ASSUME NEW t \in Tasks, Unwind(t) PROVE Registered'
  BY <1>13 DEF Unwind, End, SessionOf
<1>14. ASSUME NEW c \in Calls, CancelRead(c) PROVE Registered'
  BY <1>14 DEF CancelRead, Free
<1>15. ASSUME NEW c \in Calls, CancelRow(c) PROVE Registered'
  BY <1>15 DEF CancelRow, CallGoto, CallEnds
<1>16. ASSUME NEW c \in Calls, CancelTask(c) PROVE Registered'
  BY <1>16 DEF CancelTask
<1>17. ASSUME NEW c \in Calls, CancelSweep(c) PROVE Registered'
  BY <1>17 DEF CancelSweep, CallEnds
<1>18. ASSUME NEW c \in Calls, ReviveRead(c) PROVE Registered'
  BY <1>18 DEF ReviveRead, Free
<1>19. ASSUME NEW c \in Calls, ReviveRow(c) PROVE Registered'
  BY <1>19 DEF ReviveRow, CallGoto, CallEnds
<1>20. ASSUME NEW c \in Calls, ScheduleDriver(c) PROVE Registered'
  BY <1>20 DEF ScheduleDriver, CallEnds, FreeSlot
<1>21. ASSUME NEW c \in Calls, DeleteRead(c) PROVE Registered'
  BY <1>21 DEF DeleteRead, Free, CallGoto
<1>22. ASSUME NEW c \in Calls, DeleteSweep(c) PROVE Registered'
  BY <1>22 DEF DeleteSweep, CallGoto, CallEnds
<1>23. ASSUME NEW c \in Calls, DeleteRow(c) PROVE Registered'
  BY <1>23 DEF DeleteRow, CallEnds
<1>24. CASE UNCHANGED vars
  BY <1>24 DEF vars
<1> QED
  BY <1>1, <1>2, <1>3, <1>4, <1>5, <1>6, <1>7, <1>8, <1>9, <1>10, <1>11, <1>12, <1>13,
     <1>14, <1>15, <1>16, <1>17, <1>18, <1>19, <1>20, <1>21, <1>22, <1>23, <1>24
  DEF Next, TaskStep, CallStep

(* Whoever writes the row of a driver that holds it asks _running first, or*)
(* is about to cancel that driver, or deletes.                             *)
LEMMA SnapshotStep == IInv /\ TypeOK' /\ Snapshot /\ [Next]_vars => Snapshot'
<1> SUFFICES ASSUME IInv, TypeOK', Snapshot, [Next]_vars PROVE Snapshot'
  OBVIOUS
<1> USE DevWorkActorsAssumption DEF IInv, TypeOK, Registered, OneDriver, Checked, Tasks,
     NoTask, NoCall, InHandler, Holds, Snapshot, Work, Steps
<1>1. ASSUME NEW t \in Tasks, RequestTick(t) PROVE Snapshot'
  BY <1>1 DEF RequestTick, Alive, Goto
<1>2. ASSUME NEW t \in Tasks, Read(t) PROVE Snapshot'
  BY <1>2 DEF Read, Alive, End
<1>3. ASSUME NEW t \in Tasks, Dispatch(t) PROVE Snapshot'
  BY <1>3 DEF Dispatch, Alive, Goto, End
<1>4. ASSUME NEW t \in Tasks, Prompt(t) PROVE Snapshot'
  BY <1>4 DEF Prompt, Alive, Goto, SessionOf
<1>5. ASSUME NEW t \in Tasks, PromptEnds(t) PROVE Snapshot'
  BY <1>5 DEF PromptEnds, Alive, Goto
<1>6. ASSUME NEW t \in Tasks, ReadGates(t) PROVE Snapshot'
  BY <1>6 DEF ReadGates, Alive
<1>7. ASSUME NEW t \in Tasks, WriteGates(t) PROVE Snapshot'
  BY <1>7 DEF WriteGates, Alive, Update
<1>8. ASSUME NEW t \in Tasks, Transition(t) PROVE Snapshot'
  BY <1>8 DEF Transition, Alive, Return, SessionOf
<1>9. ASSUME NEW t \in Tasks, Overwrite(t) PROVE Snapshot'
  BY <1>9 DEF Overwrite, Alive, Return
<1>10. ASSUME NEW t \in Tasks, CountRound(t) PROVE Snapshot'
  BY <1>10 DEF CountRound, Alive, Goto, Update
<1>11. ASSUME NEW t \in Tasks, GiveUp(t) PROVE Snapshot'
  BY <1>11 DEF GiveUp, Alive, Goto
<1>12. ASSUME NEW t \in Tasks, Escalate(t) PROVE Snapshot'
  BY <1>12 DEF Escalate, Alive, Return, Update
<1>13. ASSUME NEW t \in Tasks, Unwind(t) PROVE Snapshot'
  BY <1>13 DEF Unwind, End, SessionOf
<1>14. ASSUME NEW c \in Calls, CancelRead(c) PROVE Snapshot'
  BY <1>14 DEF CancelRead, Free
<1>15. ASSUME NEW c \in Calls, CancelRow(c) PROVE Snapshot'
  <2>1. CASE row.step \in Work
    <3>1. calls'[c].pc = "kill"
      BY <1>15, <2>1 DEF CancelRow, CallGoto
    <3>2. row' = [row EXCEPT !.step = "CANCELLED", !.from = calls[c].step]
          /\ UNCHANGED <<tasks, ghost.ticks>>
      BY <1>15, <2>1 DEF CancelRow
    <3>3. row'.step = "CANCELLED" /\ row'.rounds = row.rounds
      BY <3>2
    <3> QED
      BY <3>1, <3>2, <3>3
  <2>2. CASE row.step \notin Work
    BY <1>15, <2>2 DEF CancelRow, CallEnds
  <2> QED
    BY <2>1, <2>2
<1>16. ASSUME NEW c \in Calls, CancelTask(c) PROVE Snapshot'
  BY <1>16 DEF CancelTask
<1>17. ASSUME NEW c \in Calls, CancelSweep(c) PROVE Snapshot'
  BY <1>17 DEF CancelSweep, CallEnds
<1>18. ASSUME NEW c \in Calls, ReviveRead(c) PROVE Snapshot'
  BY <1>18 DEF ReviveRead, Free
<1>19. ASSUME NEW c \in Calls, ReviveRow(c) PROVE Snapshot'
  BY <1>19 DEF ReviveRow, CallGoto, CallEnds
<1>20. ASSUME NEW c \in Calls, ScheduleDriver(c) PROVE Snapshot'
  BY <1>20 DEF ScheduleDriver, CallEnds, FreeSlot
<1>21. ASSUME NEW c \in Calls, DeleteRead(c) PROVE Snapshot'
  BY <1>21 DEF DeleteRead, Free, CallGoto
<1>22. ASSUME NEW c \in Calls, DeleteSweep(c) PROVE Snapshot'
  BY <1>22 DEF DeleteSweep, CallGoto, CallEnds
<1>23. ASSUME NEW c \in Calls, DeleteRow(c) PROVE Snapshot'
  BY <1>23 DEF DeleteRow, CallEnds
<1>24. CASE UNCHANGED vars
  BY <1>24 DEF vars
<1> QED
  BY <1>1, <1>2, <1>3, <1>4, <1>5, <1>6, <1>7, <1>8, <1>9, <1>10, <1>11, <1>12, <1>13,
     <1>14, <1>15, <1>16, <1>17, <1>18, <1>19, <1>20, <1>21, <1>22, <1>23, <1>24
  DEF Next, TaskStep, CallStep

(* While a task is at work no other is, not even one being cancelled.      *)
LEMMA AloneAtWork ==
    ASSUME OneCall, IInv, Snapshot, Serial, ~ghost.ticks,
           NEW t \in Tasks, tasks[t].pc # "off", NEW u \in Tasks, tasks[u].pc # "off"
    PROVE  t = u
<1>1. t \in Drivers /\ u \in Drivers
  BY DEF Snapshot, Tasks
<1>2. PICK c \in Calls : TRUE
  BY DEF OneCall
<1>3. \A d \in {t, u} : IF tasks[d].hit
                        THEN calls[c].pc = "await" /\ calls[c].waitsFor = d
                        ELSE running = d
  BY <1>1 DEF Serial, Alternate, IInv, Registered, OneDriver
<1>4. calls[c].pc = "await" => running = Nobody
  BY DEF Serial, Alternate
<1> QED
  BY <1>1, <1>3, <1>4, DevWorkActorsAssumption

(* One call at a time: a cancel is over before a driver works again.       *)
LEMMA SerialStep == OneCall /\ IInv /\ TypeOK' /\ Snapshot /\ Serial /\ [Next]_vars => Serial'
<1> SUFFICES ASSUME OneCall, IInv, TypeOK', Snapshot, Serial, [Next]_vars PROVE Serial'
  OBVIOUS
<1> USE DevWorkActorsAssumption DEF IInv, TypeOK, Registered, OneDriver, Checked, Tasks,
     NoTask, NoCall, InHandler, Holds, Snapshot, Serial, Alternate, OneCall,
     NoTornSession, SessionOf, Work, Steps
<1>1. ASSUME NEW t \in Tasks, RequestTick(t) PROVE Serial'
  BY <1>1 DEF RequestTick, Alive, Goto
<1>2. ASSUME NEW t \in Tasks, Read(t) PROVE Serial'
  <2>1. Alternate'
    BY <1>2 DEF Read, Alive, End
  <2>2. NoTornSession'
    BY <1>2 DEF Read, Alive, End
  <2> QED
    BY <2>1, <2>2
<1>3. ASSUME NEW t \in Tasks, Dispatch(t) PROVE Serial'
  <2>1. Alternate'
    BY <1>3 DEF Dispatch, Alive, Goto, End
  <2>2. NoTornSession'
    BY <1>3 DEF Dispatch, Alive, Goto, End
  <2> QED
    BY <2>1, <2>2
<1>4. ASSUME NEW t \in Tasks, Prompt(t) PROVE Serial'
  <2>1. Alternate'
    BY <1>4 DEF Prompt, Alive, Goto, SessionOf
  <2>2. NoTornSession'
    BY <1>4 DEF Prompt, Alive, Goto, SessionOf
  <2> QED
    BY <2>1, <2>2
<1>5. ASSUME NEW t \in Tasks, PromptEnds(t) PROVE Serial'
  <2>1. Alternate'
    BY <1>5 DEF PromptEnds, Alive, Goto
  <2>2. NoTornSession'
    BY <1>5 DEF PromptEnds, Alive, Goto
  <2> QED
    BY <2>1, <2>2
<1>6. ASSUME NEW t \in Tasks, ReadGates(t) PROVE Serial'
  <2>1. Alternate'
    BY <1>6 DEF ReadGates, Alive
  <2>2. NoTornSession'
    BY <1>6 DEF ReadGates, Alive
  <2> QED
    BY <2>1, <2>2
<1>7. ASSUME NEW t \in Tasks, WriteGates(t) PROVE Serial'
  <2>1. Alternate'
    BY <1>7 DEF WriteGates, Alive, Update
  <2>2. NoTornSession'
    BY <1>7 DEF WriteGates, Alive, Update
  <2> QED
    BY <2>1, <2>2
<1>8. ASSUME NEW t \in Tasks, Transition(t) PROVE Serial'
  <2>1. CASE ghost.ticks
    BY <1>8, <2>1 DEF Transition, Alive, Return
  <2>2. CASE ~ghost.ticks
    <3>1. \A u \in Tasks \ {t} : tasks[u].pc = "off"
      BY <1>8, <2>2, AloneAtWork DEF Transition, Alive, Return
    <3>2. \A u \in Tasks : tasks'[u].pc # "prompt"
      BY <1>8, <3>1 DEF Transition, Alive, Return
    <3>3. Alternate'
      BY <1>8, <2>2 DEF Transition, Alive, Return
    <3> QED
      BY <3>2, <3>3
  <2> QED
    BY <2>1, <2>2
<1>9. ASSUME NEW t \in Tasks, Overwrite(t) PROVE Serial'
  <2>1. CASE ghost.ticks
    BY <1>9, <2>1 DEF Overwrite, Alive, Return
  <2>2. CASE ~ghost.ticks
    <3>1. \A u \in Tasks \ {t} : tasks[u].pc = "off"
      BY <1>9, <2>2, AloneAtWork DEF Overwrite, Alive, Return
    <3>2. \A u \in Tasks : tasks'[u].pc # "prompt"
      BY <1>9, <3>1 DEF Overwrite, Alive, Return
    <3>3. Alternate'
      BY <1>9, <2>2 DEF Overwrite, Alive, Return
    <3> QED
      BY <3>2, <3>3
  <2> QED
    BY <2>1, <2>2
<1>10. ASSUME NEW t \in Tasks, CountRound(t) PROVE Serial'
  <2>1. Alternate'
    BY <1>10 DEF CountRound, Alive, Goto, Update
  <2>2. NoTornSession'
    BY <1>10 DEF CountRound, Alive, Goto, Update
  <2> QED
    BY <2>1, <2>2
<1>11. ASSUME NEW t \in Tasks, GiveUp(t) PROVE Serial'
  <2>1. CASE ghost.ticks
    BY <1>11, <2>1 DEF GiveUp, Alive, Goto
  <2>2. CASE ~ghost.ticks
    <3>1. \A u \in Tasks \ {t} : tasks[u].pc = "off"
      BY <1>11, <2>2, AloneAtWork DEF GiveUp, Alive, Goto
    <3>2. \A u \in Tasks : tasks'[u].pc # "prompt"
      BY <1>11, <3>1 DEF GiveUp, Alive, Goto
    <3>3. Alternate'
      BY <1>11, <2>2 DEF GiveUp, Alive, Goto
    <3> QED
      BY <3>2, <3>3
  <2> QED
    BY <2>1, <2>2
<1>12. ASSUME NEW t \in Tasks, Escalate(t) PROVE Serial'
  <2>1. Alternate'
    BY <1>12 DEF Escalate, Alive, Return, Update
  <2>2. NoTornSession'
    BY <1>12 DEF Escalate, Alive, Return, Update
  <2> QED
    BY <2>1, <2>2
<1>13. ASSUME NEW t \in Tasks, Unwind(t) PROVE Serial'
  <2>1. CASE ghost.ticks
    BY <1>13, <2>1 DEF Unwind, End
  <2>2. CASE ~ghost.ticks
    <3>1. \A u \in Tasks \ {t} : tasks[u].pc = "off"
      BY <1>13, <2>2, AloneAtWork DEF Unwind, End
    <3>2. \A u \in Tasks : tasks'[u].pc # "prompt"
      BY <1>13, <3>1 DEF Unwind, End
    <3>3. Alternate'
      BY <1>13, <2>2 DEF Unwind, End
    <3> QED
      BY <3>2, <3>3
  <2> QED
    BY <2>1, <2>2
<1>14. ASSUME NEW c \in Calls, CancelRead(c) PROVE Serial'
  BY <1>14 DEF CancelRead, Free
<1>15. ASSUME NEW c \in Calls, CancelRow(c) PROVE Serial'
  BY <1>15 DEF CancelRow, CallGoto, CallEnds
<1>16. ASSUME NEW c \in Calls, CancelTask(c) PROVE Serial'
  BY <1>16 DEF CancelTask
<1>17. ASSUME NEW c \in Calls, CancelSweep(c) PROVE Serial'
  BY <1>17 DEF CancelSweep, CallEnds
<1>18. ASSUME NEW c \in Calls, ReviveRead(c) PROVE Serial'
  BY <1>18 DEF ReviveRead, Free
<1>19. ASSUME NEW c \in Calls, ReviveRow(c) PROVE Serial'
  BY <1>19 DEF ReviveRow, CallGoto, CallEnds
<1>20. ASSUME NEW c \in Calls, ScheduleDriver(c) PROVE Serial'
  BY <1>20 DEF ScheduleDriver, CallEnds, FreeSlot
<1>21. ASSUME NEW c \in Calls, DeleteRead(c) PROVE Serial'
  BY <1>21 DEF DeleteRead, Free, CallGoto
<1>22. ASSUME NEW c \in Calls, DeleteSweep(c) PROVE Serial'
  BY <1>22 DEF DeleteSweep, CallGoto, CallEnds
<1>23. ASSUME NEW c \in Calls, DeleteRow(c) PROVE Serial'
  BY <1>23 DEF DeleteRow, CallEnds
<1>24. CASE UNCHANGED vars
  BY <1>24 DEF vars
<1> QED
  BY <1>1, <1>2, <1>3, <1>4, <1>5, <1>6, <1>7, <1>8, <1>9, <1>10, <1>11, <1>12, <1>13,
     <1>14, <1>15, <1>16, <1>17, <1>18, <1>19, <1>20, <1>21, <1>22, <1>23, <1>24
  DEF Next, TaskStep, CallStep

(* What CompletedIsFinal and RoundsGrow ask of a step.                     *)
CompletedStays ==
    ~ghost.ticks /\ row.step = "COMPLETED" => row'.step \in {"COMPLETED", "DELETED"}

RoundsStay == ghost.ticks \/ row'.rounds >= row.rounds

(* Nobody who writes the step of a row can hold one that is COMPLETED.     *)
LEMMA CompletedStep == IInv /\ Snapshot /\ [Next]_vars => CompletedStays
<1> SUFFICES ASSUME IInv, Snapshot, [Next]_vars PROVE CompletedStays
  OBVIOUS
<1> USE DevWorkActorsAssumption DEF IInv, TypeOK, Registered, OneDriver, Checked, Tasks,
     Holds, Snapshot, Work, Steps, Terminal, CompletedStays
<1>1. ASSUME NEW t \in Tasks, RequestTick(t) PROVE CompletedStays
  BY <1>1 DEF RequestTick
<1>2. ASSUME NEW t \in Tasks, Read(t) PROVE CompletedStays
  BY <1>2 DEF Read
<1>3. ASSUME NEW t \in Tasks, Dispatch(t) PROVE CompletedStays
  BY <1>3 DEF Dispatch
<1>4. ASSUME NEW t \in Tasks, Prompt(t) PROVE CompletedStays
  BY <1>4 DEF Prompt
<1>5. ASSUME NEW t \in Tasks, PromptEnds(t) PROVE CompletedStays
  BY <1>5 DEF PromptEnds
<1>6. ASSUME NEW t \in Tasks, ReadGates(t) PROVE CompletedStays
  BY <1>6 DEF ReadGates
<1>7. ASSUME NEW t \in Tasks, WriteGates(t) PROVE CompletedStays
  BY <1>7 DEF WriteGates, Update
<1>8. ASSUME NEW t \in Tasks, Transition(t) PROVE CompletedStays
  <2>1. ghost.ticks \/ row.step # "COMPLETED"
    BY <1>8 DEF Transition, Alive, InHandler
  <2> QED
    BY <2>1
<1>9. ASSUME NEW t \in Tasks, Overwrite(t) PROVE CompletedStays
  <2>1. ghost.ticks \/ row.step # "COMPLETED"
    BY <1>9 DEF Overwrite, Alive, InHandler
  <2> QED
    BY <2>1
<1>10. ASSUME NEW t \in Tasks, CountRound(t) PROVE CompletedStays
  BY <1>10 DEF CountRound, Update
<1>11. ASSUME NEW t \in Tasks, GiveUp(t) PROVE CompletedStays
  BY <1>11 DEF GiveUp
<1>12. ASSUME NEW t \in Tasks, Escalate(t) PROVE CompletedStays
  BY <1>12 DEF Escalate, Alive, InHandler, Update
<1>13. ASSUME NEW t \in Tasks, Unwind(t) PROVE CompletedStays
  BY <1>13 DEF Unwind
<1>14. ASSUME NEW c \in Calls, CancelRead(c) PROVE CompletedStays
  BY <1>14 DEF CancelRead
<1>15. ASSUME NEW c \in Calls, CancelRow(c) PROVE CompletedStays
  BY <1>15 DEF CancelRow
<1>16. ASSUME NEW c \in Calls, CancelTask(c) PROVE CompletedStays
  BY <1>16 DEF CancelTask
<1>17. ASSUME NEW c \in Calls, CancelSweep(c) PROVE CompletedStays
  BY <1>17 DEF CancelSweep
<1>18. ASSUME NEW c \in Calls, ReviveRead(c) PROVE CompletedStays
  BY <1>18 DEF ReviveRead
<1>19. ASSUME NEW c \in Calls, ReviveRow(c) PROVE CompletedStays
  BY <1>19 DEF ReviveRow
<1>20. ASSUME NEW c \in Calls, ScheduleDriver(c) PROVE CompletedStays
  BY <1>20 DEF ScheduleDriver
<1>21. ASSUME NEW c \in Calls, DeleteRead(c) PROVE CompletedStays
  BY <1>21 DEF DeleteRead
<1>22. ASSUME NEW c \in Calls, DeleteSweep(c) PROVE CompletedStays
  BY <1>22 DEF DeleteSweep
<1>23. ASSUME NEW c \in Calls, DeleteRow(c) PROVE CompletedStays
  BY <1>23 DEF DeleteRow
<1>24. CASE UNCHANGED vars
  BY <1>24 DEF vars
<1> QED
  BY <1>1, <1>2, <1>3, <1>4, <1>5, <1>6, <1>7, <1>8, <1>9, <1>10, <1>11, <1>12, <1>13,
     <1>14, <1>15, <1>16, <1>17, <1>18, <1>19, <1>20, <1>21, <1>22, <1>23, <1>24
  DEF Next, TaskStep, CallStep

(* The driver counts from the round it holds, a continue from the one it   *)
(* has read, and with one call at a time both are the row's.               *)
LEMMA RoundsStep == IInv /\ Snapshot /\ Serial /\ [Next]_vars => RoundsStay
<1> SUFFICES ASSUME IInv, Snapshot, Serial, [Next]_vars PROVE RoundsStay
  OBVIOUS
<1> USE DevWorkActorsAssumption DEF IInv, TypeOK, Registered, OneDriver, Checked, Tasks,
     Holds, Snapshot, Work, Steps, Terminal, RoundsStay
<1>1. ASSUME NEW t \in Tasks, RequestTick(t) PROVE RoundsStay
  BY <1>1 DEF RequestTick
<1>2. ASSUME NEW t \in Tasks, Read(t) PROVE RoundsStay
  BY <1>2 DEF Read
<1>3. ASSUME NEW t \in Tasks, Dispatch(t) PROVE RoundsStay
  BY <1>3 DEF Dispatch
<1>4. ASSUME NEW t \in Tasks, Prompt(t) PROVE RoundsStay
  BY <1>4 DEF Prompt
<1>5. ASSUME NEW t \in Tasks, PromptEnds(t) PROVE RoundsStay
  BY <1>5 DEF PromptEnds
<1>6. ASSUME NEW t \in Tasks, ReadGates(t) PROVE RoundsStay
  BY <1>6 DEF ReadGates
<1>7. ASSUME NEW t \in Tasks, WriteGates(t) PROVE RoundsStay
  BY <1>7 DEF WriteGates, Update
<1>8. ASSUME NEW t \in Tasks, Transition(t) PROVE RoundsStay
  <2>1. \A s : row.rounds = [row EXCEPT !.step = s].rounds
    OBVIOUS
  <2> QED
    BY <1>8, <2>1 DEF Transition
<1>9. ASSUME NEW t \in Tasks, Overwrite(t) PROVE RoundsStay
  <2>1. CASE UNCHANGED row
    BY <2>1
  <2>2. ASSUME NEW r \in Endings(t), row' = r PROVE RoundsStay
    <3>1. r.rounds \in {row.rounds, tasks[t].rounds + 1}
      BY <1>9, EndingRows DEF Overwrite, IInv
    <3>2. ghost.ticks \/ row.rounds = tasks[t].rounds
      BY <1>9 DEF Overwrite, Alive, InHandler
    <3> QED
      BY <3>1, <3>2, <2>2
  <2> QED
    BY <1>9, <2>1, <2>2 DEF Overwrite, Update
<1>10. ASSUME NEW t \in Tasks, CountRound(t) PROVE RoundsStay
  BY <1>10 DEF CountRound, Update, Alive, InHandler
<1>11. ASSUME NEW t \in Tasks, GiveUp(t) PROVE RoundsStay
  BY <1>11 DEF GiveUp
<1>12. ASSUME NEW t \in Tasks, Escalate(t) PROVE RoundsStay
  BY <1>12 DEF Escalate, Update
<1>13. ASSUME NEW t \in Tasks, Unwind(t) PROVE RoundsStay
  BY <1>13 DEF Unwind
<1>14. ASSUME NEW c \in Calls, CancelRead(c) PROVE RoundsStay
  BY <1>14 DEF CancelRead
<1>15. ASSUME NEW c \in Calls, CancelRow(c) PROVE RoundsStay
  <2>1. [row EXCEPT !.step = "CANCELLED", !.from = calls[c].step].rounds = row.rounds
    OBVIOUS
  <2>2. row' \in {row, [row EXCEPT !.step = "CANCELLED", !.from = calls[c].step]}
    BY <1>15 DEF CancelRow
  <2>3. row'.rounds = row.rounds
    BY <2>1, <2>2
  <2> QED
    BY <2>3
<1>16. ASSUME NEW c \in Calls, CancelTask(c) PROVE RoundsStay
  BY <1>16 DEF CancelTask
<1>17. ASSUME NEW c \in Calls, CancelSweep(c) PROVE RoundsStay
  BY <1>17 DEF CancelSweep
<1>18. ASSUME NEW c \in Calls, ReviveRead(c) PROVE RoundsStay
  BY <1>18 DEF ReviveRead
<1>19. ASSUME NEW c \in Calls, ReviveRow(c) PROVE RoundsStay
  <2>1. CASE UNCHANGED row
    BY <2>1
  <2>2. ASSUME row' \in Revived(calls[c]) PROVE RoundsStay
    <3>1. row'.rounds \in {row.rounds, calls[c].rounds, calls[c].rounds + 1}
      BY <2>2, RevivedRows DEF IInv
    <3>2. ghost.ticks \/ calls[c].rounds = row.rounds
      BY <1>19 DEF ReviveRow, Serial, Alternate
    <3> QED
      BY <3>1, <3>2
  <2> QED
    BY <1>19, <2>1, <2>2 DEF ReviveRow
<1>20. ASSUME NEW c \in Calls, ScheduleDriver(c) PROVE RoundsStay
  BY <1>20 DEF ScheduleDriver
<1>21. ASSUME NEW c \in Calls, DeleteRead(c) PROVE RoundsStay
  BY <1>21 DEF DeleteRead
<1>22. ASSUME NEW c \in Calls, DeleteSweep(c) PROVE RoundsStay
  BY <1>22 DEF DeleteSweep
<1>23. ASSUME NEW c \in Calls, DeleteRow(c) PROVE RoundsStay
  BY <1>23 DEF DeleteRow
<1>24. CASE UNCHANGED vars
  BY <1>24 DEF vars
<1> QED
  BY <1>1, <1>2, <1>3, <1>4, <1>5, <1>6, <1>7, <1>8, <1>9, <1>10, <1>11, <1>12, <1>13,
     <1>14, <1>15, <1>16, <1>17, <1>18, <1>19, <1>20, <1>21, <1>22, <1>23, <1>24
  DEF Next, TaskStep, CallStep

(* Only tick() starts a handler, and it asks _running.                     *)
LEMMA YieldStep ==
    IInv /\ [Next]_vars =>
        \A k \in Tickers : ~InHandler(k) /\ InHandler(k)' =>
            \A d \in Drivers : InHandler(d) => tasks[d].hit
<1> SUFFICES ASSUME IInv, [Next]_vars, NEW k \in Tickers, ~InHandler(k), InHandler(k)'
             PROVE  \A d \in Drivers : InHandler(d) => tasks[d].hit
  OBVIOUS
<1>1. Dispatch(k)
  <2>1. tasks \in [Tasks -> TaskRecords] /\ k \in Tasks /\ k \notin Drivers
    BY Types, DevWorkActorsAssumption DEF IInv, Tasks
  <2>2. ASSUME NEW t \in Tasks, TaskStep(t) PROVE Dispatch(k)
    <3>1. CASE t # k
      <4>1. tasks'[k] = tasks[k]
        BY <2>1, <2>2, <3>1 DEF TaskStep, RequestTick, Read, Dispatch, Prompt, PromptEnds,
           ReadGates, WriteGates, Transition, Overwrite, CountRound, GiveUp, Escalate,
           Unwind, Goto, Return, End
      <4> QED
        BY <4>1 DEF InHandler
    <3>2. CASE t = k
      <4>1. tasks[k].pc \notin {"handler", "prompt", "gates", "counted", "closing"}
            /\ tasks'[k].pc \in {"handler", "prompt", "gates", "counted", "closing"}
        BY DEF InHandler
      <4>2. ~Read(k)
        BY <2>1, <4>1 DEF Read, End, NoTask, TaskRecords
      <4>3. ~RequestTick(k) /\ ~Unwind(k)
        BY <2>1, <4>1 DEF RequestTick, Goto, Unwind, End, NoTask, TaskRecords
      <4>4. /\ ~Prompt(k) /\ ~PromptEnds(k) /\ ~ReadGates(k) /\ ~WriteGates(k)
            /\ ~Transition(k) /\ ~Overwrite(k) /\ ~CountRound(k) /\ ~GiveUp(k)
            /\ ~Escalate(k)
        BY <4>1 DEF Prompt, PromptEnds, ReadGates, WriteGates, Transition, Overwrite,
           CountRound, GiveUp, Escalate, Alive
      <4> QED
        BY <2>2, <3>2, <4>2, <4>3, <4>4 DEF TaskStep
    <3> QED
      BY <3>1, <3>2
  <2>3. ASSUME NEW c \in Calls, CallStep(c) PROVE FALSE
    <3>1. tasks'[k].pc = tasks[k].pc
      BY <2>1, <2>3 DEF CallStep, CancelRead, CancelRow, CancelTask, CancelSweep,
         ReviveRead,
         ReviveRow, ScheduleDriver, DeleteRead, DeleteSweep, DeleteRow, TaskRecords,
         IInv, TypeOK
    <3> QED
      BY <3>1 DEF InHandler
  <2>4. CASE UNCHANGED vars
    BY <2>4 DEF vars, InHandler
  <2> QED
    BY <2>2, <2>3, <2>4 DEF Next
<1>2. running = Nobody
  <2>1. tasks'[k] = [tasks[k] EXCEPT !.pc = "handler"] \/ tasks'[k] = NoTask
    BY <1>1, Types DEF Dispatch, Goto, End, IInv, Tasks
  <2> QED
    BY <1>1 DEF Dispatch, Goto, End, InHandler, NoTask, IInv, TypeOK, Tasks
<1> QED
  BY <1>2, DevWorkActorsAssumption DEF IInv, Registered, OneDriver, InHandler

----------------------------------------------------------------------------
(* create establishes the invariants.                                      *)
LEMMA InitAll == Init => IInv /\ Snapshot /\ Serial
<1> SUFFICES ASSUME Init PROVE IInv /\ Snapshot /\ Serial
  OBVIOUS
<1>1. PICK a \in Calls : calls = [d \in Calls |->
           IF d = a THEN [NoCall EXCEPT !.pc = "schedule"] ELSE NoCall]
  BY DEF Init
<1>2. TypeOK
  <2>1. NoTask \in TaskRecords /\ NoCall \in CallRecords
        /\ [NoCall EXCEPT !.pc = "schedule"] \in CallRecords
    BY DevWorkActorsAssumption DEF NoTask, NoCall, TaskRecords, TaskPcs, CallRecords,
       CallPcs,
       Steps, Work
  <2>2. tasks \in [Tasks -> TaskRecords] /\ calls \in [Calls -> CallRecords]
    BY <1>1, <2>1 DEF Init
  <2>3. row \in Rows
    BY DevWorkActorsAssumption DEF Init, Rows, Steps, Work
  <2>4. ghost \in [cancelled : BOOLEAN, ticks : BOOLEAN]
    <3>1. PICK b \in {FALSE, Tickers # {}} : ghost = [cancelled |-> FALSE, ticks |-> b]
      BY Zenon DEF Init
    <3>2. b \in BOOLEAN
      BY Zenon
    <3>3. \A x \in BOOLEAN : [cancelled |-> FALSE, ticks |-> x]
                                \in [cancelled : BOOLEAN, ticks : BOOLEAN]
      OBVIOUS
    <3> QED
      BY <3>1, <3>2, <3>3, Zenon
  <2> QED
    BY <2>2, <2>3, <2>4, Types DEF Init
<1>3. Checked /\ Registered /\ Snapshot /\ Serial
  BY <1>1 DEF Init, Checked, Registered, OneDriver, Snapshot, Serial, Alternate, Holds,
     InHandler,
     NoTornSession, NoTask, NoCall, Tasks
<1> QED
  BY <1>2, <1>3 DEF IInv

(* What holds whoever calls, ticks and drives.                             *)
LEMMA Invariance == Spec => [](IInv /\ Snapshot)
<1>1. Init => IInv /\ Snapshot
  BY InitAll
<1>2. IInv /\ Snapshot /\ [Next]_vars => (IInv /\ Snapshot)'
  BY TypeStep, CheckedStep, RegisteredStep, SnapshotStep DEF IInv
<1> QED
  BY <1>1, <1>2, PTL DEF Spec

(* What holds besides when the calls come one at a time.                   *)
LEMMA SerialInvariance == ASSUME OneCall PROVE Spec => []Serial
<1>1. Init => Serial
  BY InitAll
<1>2. IInv /\ TypeOK' /\ Snapshot /\ Serial /\ [Next]_vars => Serial'
  BY SerialStep
<1>3. IInv => TypeOK
  BY DEF IInv
<1> QED
  BY <1>1, <1>2, <1>3, Invariance, PTL DEF Spec

(* The row, the tasks, the calls and the sessions keep their types,        *)
(* whoever is interleaved with whom.                                       *)
THEOREM TypeCorrect == Spec => []TypeOK
<1>1. IInv => TypeOK
  BY DEF IInv
<1> QED
  BY <1>1, Invariance, PTL

(* For any number of overlapping calls and requests to /tick, _running is  *)
(* the only driver that has not been cancelled.                            *)
THEOREM OneDriverAtATime == Spec => []OneDriver
<1>1. IInv => OneDriver
  BY DEF IInv, Registered
<1> QED
  BY <1>1, Invariance, PTL

(* The row has the step and the round that the driver's handler has found, *)
(* or a cancel's or delete's step, also when several calls overlap: the    *)
(* unguarded writes lose nobody's step or round.                           *)
THEOREM SnapshotStaysCurrent == Spec => []SnapshotCurrent
<1>1. Snapshot => SnapshotCurrent
  BY DEF Snapshot, SnapshotCurrent, Holds, InHandler
<1> QED
  BY <1>1, Invariance, PTL

(* No stale write of a handler or a call reopens a COMPLETED row.          *)
THEOREM CompletedStaysFinal == Spec => CompletedIsFinal
<1>1. IInv /\ Snapshot /\ [Next]_vars =>
          [~ghost.ticks /\ row.step = "COMPLETED" => row'.step \in {"COMPLETED", "DELETED"}]_row
  BY CompletedStep DEF CompletedStays
<1> QED
  BY <1>1, Invariance, PTL DEF Spec, CompletedIsFinal

(* A request to /tick never starts work beside a working driver.           *)
THEOREM TickYields == Spec => TickYieldsToDriver
<1>1. IInv /\ [Next]_vars =>
          [\A k \in Tickers : ~InHandler(k) /\ InHandler(k)' =>
              \A d \in Drivers : InHandler(d) => tasks[d].hit]_vars
  BY YieldStep
<1> QED
  BY <1>1, Invariance, PTL DEF Spec, TickYieldsToDriver

(* cancel and delete close no session under a prompt, as long as calls do  *)
(* not overlap.  (A delete beside a cancel does: it finds _running empty   *)
(* while the driver that cancel awaits is still in its prompt.)            *)
THEOREM SessionsNotTorn == ASSUME OneCall PROVE Spec => []NoTornSession
<1>1. Serial => NoTornSession
  BY DEF Serial
<1> QED
  BY <1>1, SerialInvariance, PTL

(* No stale write takes the round counter back, as long as calls do not    *)
(* overlap.                                                                *)
THEOREM RoundsOnlyGrow == ASSUME OneCall PROVE Spec => RoundsGrow
<1>1. IInv /\ Snapshot /\ Serial /\ [Next]_vars =>
          [ghost.ticks \/ row'.rounds >= row.rounds]_row
  BY RoundsStep DEF RoundsStay
<1> QED
  BY <1>1, Invariance, SerialInvariance, PTL DEF Spec, RoundsGrow
=============================================================================
