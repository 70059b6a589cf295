----------------------------- MODULE DesignWork -----------------------------
(***************************************************************************)
(* DesignWorks from create to a published DesignDoc: the handlers D0 to D6 *)
(* of design_work_sm.py, the driver task of each DesignWork, requests to   *)
(* /tick, the calls create, retry, cancel, rerun and delete, and restarts  *)
(* of the server, which leave the rows and the files and no task.          *)
(*                                                                         *)
(* An action is what a task does from one await to the next.  All files    *)
(* are of one workspace; a document is who wrote it and whether the        *)
(* validator accepts it.  The output path of a DesignWork follows from its *)
(* slug alone, version being "1.0.0" for every mode=new.                   *)
(***************************************************************************)
EXTENDS Naturals, FiniteSets

CONSTANTS
    Works,       \* ids of DesignWorks
    Slugs,       \* sub_slug values
    Mockups,     \* those that ask for a mockup
    Tasks,       \* slots for driver tasks and /tick requests
    Clients,     \* slots for operator calls
    MaxLoops,    \* config.design.max_loops
    MaxEvents,   \* bound of the model: what operators and restarts do to one
    MaxShared,   \* bound of the model: the same once there are two DesignWorks
    None         \* no task, no work, no document

(* The way through one loop; MOCKUP only when the row asks for one.        *)
Stages == <<"INIT", "MODE_BRANCH", "PRE_VALIDATE", "PROMPT_COMPOSE",
            "LLM_GENERATE", "MOCKUP", "POST_VALIDATE", "PERSIST">>
Rank(s) == CHOOSE i \in DOMAIN Stages : Stages[i] = s
Active == {Stages[i] : i \in DOMAIN Stages}
Terminal == {"COMPLETED", "ESCALATED", "CANCELLED"}
States == Active \cup Terminal

Text == [by : Works, valid : BOOLEAN]
DocType == [text : Text, by : Works, status : {"draft", "published"}]

ASSUME DesignWorkAssumption ==
    /\ Mockups \subseteq Works
    /\ MaxLoops \in Nat /\ MaxEvents \in Nat /\ MaxShared \in Nat
    /\ None \notin Works \cup Tasks \cup Slugs \cup Clients
    /\ None \notin States /\ None \notin Text /\ None \notin DocType

VARIABLES
    rows,     \* design_works, with what matters of gates_json
    output,   \* the file at each slug's output path
    docs,     \* design_docs of each slug
    running,  \* _running
    tasks,    \* driver tasks and /tick requests
    calls,    \* operator calls
    agents,   \* DesignWorks with an agent process whose task is gone
    spent     \* events so far, and what was among them: a tick, a late write

vars == <<rows, output, docs, running, tasks, calls, agents, spent>>

----------------------------------------------------------------------------
Deletable == {"CANCELLED", "ESCALATED"}

(* prompt: gates_json has last_prompt_path; file: that file, compared by   *)
(* mtime with the output; from: cancelled_from_state.                      *)
NoRow == [state |-> "NONE", slug |-> None, optimize |-> FALSE,
          loop |-> 0, prompt |-> FALSE, file |-> "gone", from |-> None, doc |-> FALSE]
NoSnap == [state |-> "NONE", loop |-> 0, prompt |-> FALSE, from |-> None]
NoTask == [pc |-> "off", w |-> None, driver |-> FALSE, row |-> NoSnap, text |-> None]
NoCall == [pc |-> "idle", w |-> None, row |-> NoSnap]

NewRow(s, optimize) == [NoRow EXCEPT !.state = "INIT", !.slug = s, !.optimize = optimize]

Init ==
    /\ rows = [w \in Works |-> NoRow]
    /\ output = [s \in Slugs |-> None]
    /\ docs = [s \in Slugs |-> None]
    /\ running = [w \in Works |-> None]
    /\ tasks = [t \in Tasks |-> NoTask]
    /\ calls = [c \in Clients |-> NoCall]
    /\ agents = {}
    /\ spent = [events |-> 0, ticked |-> FALSE, late |-> FALSE]

(* What a task or a call remembers of a row that may change meanwhile.     *)
Snap(w) == [f \in DOMAIN NoSnap |-> rows[w][f]]
Slug(w) == rows[w].slug
Room == \A v, w \in Works : v # w /\ {rows[v], rows[w]} \cap {NoRow} = {}
                              => spent.events < MaxShared
Event ==
    /\ spent.events < MaxEvents /\ Room
    /\ spent' = [spent EXCEPT !.events = @ + 1]

Exists(w) == rows[w].state \notin {"NONE", "DELETED"}
IsRunning(w) == running[w] # None

----------------------------------------------------------------------------
(* A task.  t.row is the row tick() has read; an UPDATE of a deleted row   *)
(* matches nothing.                                                        *)

At(t, pc) == tasks[t].pc = pc
In(t, s) == At(t, "handler") /\ tasks[t].row.state = s
W(t) == tasks[t].w
Seen(t) == tasks[t].row
Goto(t, pc) == tasks' = [tasks EXCEPT ![t].pc = pc]

Update(w, r) == rows' = IF Exists(w) THEN [rows EXCEPT ![w] = r] ELSE rows
SetState(w, s) == Update(w, [rows[w] EXCEPT !.state = s])

NewDriver(w) == [NoTask EXCEPT !.pc = "get", !.w = w, !.driver = TRUE]

\* A driver ticks again, a request is answered.
Returned(t) ==
    [tasks EXCEPT ![t] = IF @.driver THEN NewDriver(W(t)) ELSE NoTask]
Return(t) == tasks' = Returned(t)

\* The coroutine ends or raises; _on_done empties its own place in _running.
End(t) ==
    /\ tasks' = [tasks EXCEPT ![t] = NoTask]
    /\ running' = [w \in Works |-> IF running[w] = t THEN None ELSE running[w]]

RequestTick(t, w) ==
    /\ At(t, "off") /\ Exists(w) /\ ~IsRunning(w) 
    /\ spent.events < MaxEvents /\ Room
    /\ tasks' = [tasks EXCEPT ![t] = [NoTask EXCEPT !.pc = "handler", !.w = w, !.row = Snap(w)]]
    /\ spent' = [spent EXCEPT !.events = @ + 1, !.ticked = TRUE]
    /\ UNCHANGED <<rows, output, docs, running, calls, agents>>

\* run_to_completion: tick until the row is terminal or gone.
Get(t) ==
    /\ At(t, "get")
    /\ IF rows[W(t)].state \in Active
       THEN /\ tasks' = [tasks EXCEPT ![t].pc = "handler", ![t].row = Snap(W(t))]
            /\ UNCHANGED running
       ELSE End(t)
    /\ UNCHANGED <<rows, output, docs, calls, agents, spent>>

Noop(t) ==
    /\ At(t, "handler") /\ Seen(t).state \in Terminal
    /\ Return(t)
    /\ UNCHANGED <<rows, output, docs, running, calls, agents, spent>>

\* _transition: a lost comparison is logged and nothing else.
Transition(t, to) ==
    /\ IF rows[W(t)].state = Seen(t).state THEN SetState(W(t), to) ELSE UNCHANGED rows
    /\ Return(t)

Escalate(t) == SetState(W(t), "ESCALATED") /\ Return(t)

\* A fault: the cap is not compared.
LoopForever(t) ==
    /\ Update(W(t), [rows[W(t)] EXCEPT !.loop = Seen(t).loop + 1,
                                       !.state = "PROMPT_COMPOSE"])
    /\ Return(t)

\* A fault: the loop is not counted.
LoopUncounted(t) ==
    IF Seen(t).loop + 1 > MaxLoops
    THEN Escalate(t)
    ELSE SetState(W(t), "PROMPT_COMPOSE") /\ Return(t)

LoopOrEscalate(t) ==
    IF Seen(t).loop + 1 > MaxLoops
    THEN Escalate(t)
    ELSE /\ Update(W(t), [rows[W(t)] EXCEPT !.loop = Seen(t).loop + 1,
                                            !.state = "PROMPT_COMPOSE"])
         /\ Return(t)

D0Init(t) ==
    /\ In(t, "INIT")
    /\ Transition(t, "MODE_BRANCH")
    /\ UNCHANGED <<output, docs, running, calls, agents, spent>>

\* allow_optimize_mode is off: the handler escalates and raises.
D1ModeBranch(t) ==
    /\ In(t, "MODE_BRANCH")
    /\ IF rows[W(t)].optimize
       THEN SetState(W(t), "ESCALATED") /\ End(t)
       ELSE Transition(t, "PRE_VALIDATE") /\ UNCHANGED running
    /\ UNCHANGED <<output, docs, calls, agents, spent>>

\* The input is missing or short, or it is not.
D2PreValidate(t) ==
    /\ In(t, "PRE_VALIDATE")
    /\ Escalate(t) \/ Transition(t, "PROMPT_COMPOSE")
    /\ UNCHANGED <<output, docs, running, calls, agents, spent>>

\* The input is gone by now, which raises, or it is not.
D3PutPrompt(t) ==
    /\ In(t, "PROMPT_COMPOSE")
    /\ \/ End(t) /\ UNCHANGED rows
       \/ /\ Update(W(t), [rows[W(t)] EXCEPT !.file = "newer"])
          /\ Goto(t, "gates")
          /\ UNCHANGED running
    /\ UNCHANGED <<output, docs, calls, agents, spent>>

\* _update_gates_field reads gates_json ...
D3ReadGates(t) ==
    /\ At(t, "gates")
    /\ tasks' = [tasks EXCEPT ![t].pc = "write_gates", ![t].row.from = rows[W(t)].from]
    /\ UNCHANGED <<rows, output, docs, running, calls, agents, spent>>

\* ... and writes all of it back.
D3WriteGates(t) ==
    /\ At(t, "write_gates")
    /\ Update(W(t), [rows[W(t)] EXCEPT !.prompt = TRUE, !.from = Seen(t).from])
    /\ Goto(t, "composed")
    /\ UNCHANGED <<output, docs, running, calls, agents, spent>>

D3Transition(t) ==
    /\ At(t, "composed")
    /\ Transition(t, "LLM_GENERATE")
    /\ UNCHANGED <<output, docs, running, calls, agents, spent>>

NoPrompt(t) == ~Seen(t).prompt \/ rows[W(t)].file = "gone"
AfterLLM(t) == IF W(t) \in Mockups THEN "MOCKUP" ELSE "POST_VALIDATE"

\* The prompt file is gone: D3 again.
D4Redo(t) ==
    /\ In(t, "LLM_GENERATE") /\ NoPrompt(t)
    /\ Transition(t, "PROMPT_COMPOSE")
    /\ UNCHANGED <<output, docs, running, calls, agents, spent>>

\* An output newer than the prompt is taken for the answer to it.
D4Recovered(t) ==
    /\ In(t, "LLM_GENERATE") /\ ~NoPrompt(t)
    /\ output[Slug(W(t))] # None /\ rows[W(t)].file = "older"
    /\ Transition(t, AfterLLM(t))
    /\ UNCHANGED <<output, docs, running, calls, agents, spent>>

D4Run(t) ==
    /\ In(t, "LLM_GENERATE") /\ ~NoPrompt(t)
    /\ output[Slug(W(t))] = None \/ rows[W(t)].file = "newer"
    /\ Goto(t, "llm")
    /\ UNCHANGED <<rows, output, docs, running, calls, agents, spent>>

\* The agent writes the file; every prompt for that path is older now.
Write(s, text) ==
    /\ output' = [output EXCEPT ![s] = text]
    /\ rows' = [w \in Works |->
           IF rows[w].slug = s /\ rows[w].file = "newer"
           THEN [rows[w] EXCEPT !.file = "older"] ELSE rows[w]]

D4AgentWrites(t) ==
    /\ At(t, "llm")
    /\ \E valid \in BOOLEAN : Write(Slug(W(t)), [by |-> W(t), valid |-> valid])
    /\ UNCHANGED <<docs, running, tasks, calls, agents, spent>>

D4Succeeded(t) ==
    /\ At(t, "llm")
    /\ Transition(t, AfterLLM(t))
    /\ UNCHANGED <<output, docs, running, calls, agents, spent>>

\* A failure, an exception or a timeout of the call: no loop is consumed.
D4Failed(t) ==
    /\ At(t, "llm")
    /\ Escalate(t)
    /\ UNCHANGED <<output, docs, running, calls, agents, spent>>

D45Mockup(t) ==
    /\ In(t, "MOCKUP")
    /\ Transition(t, "POST_VALIDATE")
    /\ UNCHANGED <<output, docs, running, calls, agents, spent>>

Passes(text) == text # None /\ text.valid

\* A fault: the report is not looked at.
D5AcceptAll(t) ==
    /\ In(t, "POST_VALIDATE")
    /\ IF output[Slug(W(t))] # None THEN Transition(t, "PERSIST") ELSE LoopOrEscalate(t)
    /\ UNCHANGED <<output, docs, running, calls, agents, spent>>

D5PostValidate(t) ==
    /\ In(t, "POST_VALIDATE")
    /\ IF Passes(output[Slug(W(t))]) THEN Transition(t, "PERSIST") ELSE LoopOrEscalate(t)
    /\ UNCHANGED <<output, docs, running, calls, agents, spent>>

\* D6 reads the text, looks for a row of the slug and raises if there is one.
D6Check(t) ==
    /\ In(t, "PERSIST")
    /\ IF output[Slug(W(t))] = None \/ docs[Slug(W(t))] # None
       THEN End(t)
       ELSE /\ tasks' = [tasks EXCEPT ![t].pc = "put", ![t].text = output[Slug(W(t))]]
            /\ UNCHANGED running
    /\ UNCHANGED <<rows, output, docs, calls, agents, spent>>

\* put_markdown writes back what D6 has read.
D6Put(t) ==
    /\ At(t, "put")
    /\ Write(Slug(W(t)), tasks[t].text)
    /\ Goto(t, "insert")
    /\ UNCHANGED <<docs, running, calls, agents, spent>>

\* A fault: no UNIQUE(workspace_id, slug, version).
D6InsertAnyway(t) ==
    /\ At(t, "insert")
    /\ docs' = [docs EXCEPT ![Slug(W(t))] =
                    [text |-> tasks[t].text, by |-> W(t), status |-> "draft"]]
    /\ Goto(t, "publish")
    /\ UNCHANGED <<rows, output, running, calls, agents, spent>>

\* UNIQUE(workspace_id, slug, version): the loser removes the file and raises.
D6Insert(t) ==
    /\ At(t, "insert")
    /\ LET s == Slug(W(t)) IN
       IF docs[s] = None
       THEN /\ docs' = [docs EXCEPT ![s] =
                            [text |-> tasks[t].text, by |-> W(t), status |-> "draft"]]
            /\ Goto(t, "publish")
            /\ UNCHANGED <<output, running>>
       ELSE /\ output' = [output EXCEPT ![s] = None]
            /\ End(t)
            /\ UNCHANGED docs
    /\ UNCHANGED <<rows, calls, agents, spent>>

\* publish: one transaction for design_docs and the link of the DesignWork.
D6Publish(t) ==
    /\ At(t, "publish")
    /\ docs' = [docs EXCEPT ![Slug(W(t))].status = "published"]
    /\ Update(W(t), [rows[W(t)] EXCEPT !.doc = TRUE])
    /\ Goto(t, "complete")
    /\ UNCHANGED <<output, running, calls, agents, spent>>

\* The UPDATE does not compare the state, and whoever runs is unregistered.
D6Complete(t) ==
    /\ At(t, "complete")
    /\ SetState(W(t), "COMPLETED")
    /\ running' = [running EXCEPT ![W(t)] = None]
    /\ Return(t)
    /\ UNCHANGED <<output, docs, calls, agents, spent>>

Handler(t) ==
    \/ Noop(t) \/ D0Init(t) \/ D1ModeBranch(t) \/ D2PreValidate(t)
    \/ D3PutPrompt(t) \/ D3ReadGates(t) \/ D3WriteGates(t) \/ D3Transition(t)
    \/ D4Redo(t) \/ D4Recovered(t) \/ D4Run(t) \/ D4AgentWrites(t)
    \/ D4Succeeded(t) \/ D4Failed(t) \/ D45Mockup(t) \/ D5PostValidate(t)
    \/ D6Check(t) \/ D6Put(t) \/ D6Insert(t) \/ D6Publish(t) \/ D6Complete(t)

----------------------------------------------------------------------------
(* Operator calls.                                                         *)

Ask(c, pc, w) == calls' = [calls EXCEPT ![c] = [pc |-> pc, w |-> w, row |-> Snap(w)]]
Done(c) == calls' = [calls EXCEPT ![c] = NoCall]
CallAt(c, pc) == calls[c].pc = pc
Of(c) == calls[c].w

\* A bound of the model: the second DesignWork comes early.
Vacant == spent.events =< MaxShared \/ \A w \in Works : rows[w].state = "NONE"

\* One transaction for the row and its references; the slug is not compared
\* with those of other DesignWorks.
Create(c, w) ==
    /\ CallAt(c, "idle") /\ rows[w].state = "NONE" /\ Vacant
    /\ \E s \in Slugs, optimize \in BOOLEAN :
           rows' = [rows EXCEPT ![w] = NewRow(s, optimize)]
    /\ Ask(c, "schedule", w)
    /\ UNCHANGED <<output, docs, running, tasks, agents, spent>>

\* /retry: a new DesignWork with the input, and by default the slug, of an
\* ESCALATED one of mode=new.
Retry(c, source, w) ==
    /\ CallAt(c, "idle") /\ rows[w].state = "NONE" /\ Vacant
    /\ rows[source].state = "ESCALATED" /\ ~rows[source].optimize
    /\ rows' = [rows EXCEPT ![w] = NewRow(Slug(source), FALSE)]
    /\ Ask(c, "schedule", w)
    /\ UNCHANGED <<output, docs, running, tasks, agents, spent>>

\* schedule_driver: a driver that is registered and not done stays.
Schedule(c) ==
    /\ CallAt(c, "schedule")
    /\ IF IsRunning(Of(c))
       THEN UNCHANGED <<running, tasks>>
       ELSE \E t \in Tasks :
            /\ At(t, "off")
            /\ tasks' = [tasks EXCEPT ![t] = NewDriver(Of(c))]
            /\ running' = [running EXCEPT ![Of(c)] = t]
    /\ Done(c)
    /\ UNCHANGED <<rows, output, docs, agents, spent>>

CancelRead(c, w) ==
    /\ CallAt(c, "idle") /\ rows[w].state \in Active
    /\ Event /\ Ask(c, "cancel", w)
    /\ UNCHANGED <<rows, output, docs, running, tasks, agents>>

\* gates_json is what the call has read, and the origin in it; prompt files
\* are not part of the row.
CancelWrite(c) ==
    /\ CallAt(c, "cancel")
    /\ IF rows[Of(c)].state \in Active
       THEN /\ Update(Of(c), [rows[Of(c)] EXCEPT
                  !.state = "CANCELLED", !.from = calls[c].row.state,
                  !.prompt = calls[c].row.prompt])
            /\ calls' = [calls EXCEPT ![c].pc = "kill"]
       ELSE UNCHANGED rows /\ Done(c)
    /\ UNCHANGED <<output, docs, running, tasks, agents, spent>>

\* A fault: the driver is forgotten and lives on.
ForgetDriver(c) ==
    /\ CallAt(c, "kill")
    /\ running' = [running EXCEPT ![Of(c)] = None]
    /\ Done(c)
    /\ UNCHANGED <<rows, output, docs, tasks, agents, spent>>

\* The driver is unregistered and cancelled at the await it is in.  An agent
\* is only awaited there, nobody kills it.
Orphans(gone) == {W(t) : t \in {u \in gone : At(u, "llm")}}

CancelKill(c) ==
    /\ CallAt(c, "kill")
    /\ agents' = agents \cup Orphans({running[Of(c)]} \cap Tasks)
    /\ tasks' = [t \in Tasks |-> IF running[Of(c)] = t THEN NoTask ELSE tasks[t]]
    /\ running' = [running EXCEPT ![Of(c)] = None]
    /\ Done(c)
    /\ UNCHANGED <<rows, output, docs, spent>>

\* _legacy_cancelled_rerun_state when the origin is not recorded.
ResumeState(r) ==
    IF r.from # None THEN r.from ELSE IF r.prompt THEN "LLM_GENERATE" ELSE "INIT"

RerunRead(c, w) ==
    /\ CallAt(c, "idle") /\ rows[w].state = "CANCELLED" /\ ~IsRunning(w)
    /\ Event /\ Ask(c, "rerun", w)
    /\ UNCHANGED <<rows, output, docs, running, tasks, agents>>

RerunWrite(c) ==
    /\ CallAt(c, "rerun")
    /\ IF rows[Of(c)].state = "CANCELLED"
       THEN /\ Update(Of(c), [rows[Of(c)] EXCEPT
                  !.state = ResumeState(calls[c].row), !.from = None,
                  !.prompt = calls[c].row.prompt])
            /\ calls' = [calls EXCEPT ![c].pc = "schedule"]
       ELSE UNCHANGED rows /\ Done(c)
    /\ UNCHANGED <<output, docs, running, tasks, agents, spent>>

DeleteRead(c, w) ==
    /\ CallAt(c, "idle") /\ rows[w].state \in Deletable /\ ~IsRunning(w)
    /\ Event /\ Ask(c, "delete", w)
    /\ UNCHANGED <<rows, output, docs, running, tasks, agents>>

\* The files at user_input_path and output_path and the drafts.
DeleteFiles(c) ==
    /\ CallAt(c, "delete")
    /\ output' = IF rows[Of(c)].optimize THEN output
                 ELSE [output EXCEPT ![Slug(Of(c))] = None]
    /\ Update(Of(c), [rows[Of(c)] EXCEPT !.file = "gone"])
    /\ calls' = [calls EXCEPT ![c].pc = "delete_rows"]
    /\ UNCHANGED <<docs, running, tasks, agents, spent>>

\* One transaction, which does not look at the state again; the model
\* remembers the slug.
DeleteRows(c) ==
    /\ CallAt(c, "delete_rows")
    /\ rows' = [rows EXCEPT ![Of(c)] =
           [NoRow EXCEPT !.state = "DELETED", !.slug = Slug(Of(c))]]
    /\ Done(c)
    /\ UNCHANGED <<output, docs, running, tasks, agents, spent>>

Call(c) ==
    \/ \E w \in Works : \/ Create(c, w) \/ CancelRead(c, w) \/ RerunRead(c, w)
                        \/ DeleteRead(c, w) \/ \E source \in Works : Retry(c, source, w)
    \/ Schedule(c) \/ CancelWrite(c) \/ CancelKill(c) \/ RerunWrite(c)
    \/ DeleteFiles(c) \/ DeleteRows(c)

\* The server restarts: nothing in app.py schedules the drivers again.
Crash ==
    /\ Event
    /\ agents' = agents \cup Orphans(Tasks)
    /\ tasks' = [t \in Tasks |-> NoTask]
    /\ running' = [w \in Works |-> None]
    /\ calls' = [c \in Clients |-> NoCall]
    /\ UNCHANGED <<rows, output, docs>>

\* An agent that nobody awaits writes its document at last.
LateWrite(w) ==
    /\ w \in agents
    /\ \E valid \in BOOLEAN : Write(Slug(w), [by |-> w, valid |-> valid])
    /\ agents' = agents \ {w}
    /\ spent' = [spent EXCEPT !.late = TRUE]
    /\ UNCHANGED <<docs, running, tasks, calls>>

\* A prompt file is lost to a restart or to manual cleanup.
PromptLost(w) ==
    /\ rows[w].file # "gone" /\ Event
    /\ Update(w, [rows[w] EXCEPT !.file = "gone"])
    /\ UNCHANGED <<output, docs, running, tasks, calls, agents>>

Next ==
    \/ \E t \in Tasks : Get(t) \/ Handler(t) \/ \E w \in Works : RequestTick(t, w)
    \/ \E c \in Clients : Call(c)
    \/ Crash
    \/ \E w \in Works : PromptLost(w) \/ LateWrite(w)

Spec == Init /\ [][Next]_vars

----------------------------------------------------------------------------
(* Every variable keeps its type; running names live drivers.              *)
RowType ==
    [state : States \cup {"NONE", "DELETED"}, slug : Slugs \cup {None},
     optimize : BOOLEAN, loop : 0..MaxLoops, prompt : BOOLEAN,
     file : {"gone", "newer", "older"}, from : Active \cup {None}, doc : BOOLEAN]
SnapType ==
    [state : States \cup {"NONE", "DELETED"}, loop : 0..MaxLoops, prompt : BOOLEAN,
     from : Active \cup {None}]
TaskType ==
    [pc : {"off", "get", "handler", "gates", "write_gates", "composed", "llm",
           "put", "insert", "publish", "complete"},
     w : Works \cup {None}, driver : BOOLEAN, row : SnapType, text : Text \cup {None}]
CallType ==
    [pc : {"idle", "schedule", "cancel", "kill", "rerun", "delete", "delete_rows"},
     w : Works \cup {None}, row : SnapType]

TypeOK ==
    /\ rows \in [Works -> RowType]
    /\ output \in [Slugs -> Text \cup {None}]
    /\ docs \in [Slugs -> DocType \cup {None}]
    /\ running \in [Works -> Tasks \cup {None}]
    /\ tasks \in [Tasks -> TaskType]
    /\ calls \in [Clients -> CallType]
    /\ agents \subseteq Works
    /\ spent \in [events : 0..MaxEvents, ticked : BOOLEAN, late : BOOLEAN]

Ticked == spent.ticked
Own(w) == \A v \in Works \ {w} : Slug(v) # Slug(w)

(* design_work_sm.py, _d6_persist: whoever races for a slug, a COMPLETED   *)
(* DesignWork is linked to a published document, and to one it made itself.*)
CompletedHasDoc ==
    \A w \in Works : rows[w].state = "COMPLETED" =>
        /\ rows[w].doc
        /\ docs[Slug(w)].by = w /\ docs[Slug(w)].status = "published"

(* cancel's pop and kill, schedule_driver's look at _running: a DesignWork *)
(* never has two drivers, unless a request to /tick has unregistered one.  *)
OneDriver ==
    \A t, u \in Tasks :
        tasks[t].driver /\ tasks[u].driver /\ W(t) = W(u) /\ ~Ticked => t = u

(* D5 comes before D6 whatever is cancelled, rerun or crashes in between:  *)
(* what is published has passed validation, if nobody ticked by hand, no   *)
(* other DesignWork writes the same file and no agent outlived its task.   *)
PublishedValidated ==
    \A w \in Works : LET d == docs[Slug(w)] IN
        Slug(w) # None /\ ~Ticked /\ ~spent.late /\ Own(w) /\ d # None => d.text.valid

(* A driver alone moves its DesignWork forward, stage by stage and loop by *)
(* loop, except back to D3 when the prompt file has gone: a stale snapshot *)
(* never takes an active DesignWork back to an earlier stage.              *)
Forward(r, s) ==
    \/ s.loop > r.loop
    \/ s.loop = r.loop /\ Rank(s.state) >= Rank(r.state)
    \/ r.state = "LLM_GENERATE" /\ s.state = "PROMPT_COMPOSE"
StagesMoveForward == [][
    \A w \in Works :
        {rows[w].state, rows'[w].state} \subseteq Active /\ ~Ticked
        => Forward(rows[w], rows'[w])]_vars
=============================================================================
