------------------------- MODULE DesignWork_proofs -------------------------
(***************************************************************************)
(* Proofs about DesignWork, for any number of DesignWorks, slugs, tasks    *)
(* and operator calls.  First its inductive invariant; then the ways in    *)
(* which a step can move rows, tasks, calls and files, one lemma for each, *)
(* by cases over all actions; then the properties, from those ways alone.  *)
(***************************************************************************)
EXTENDS DesignWork, TLAPS

(* The id has been given to a DesignWork, perhaps one deleted since.       *)
Begun(w) == rows[w].state # "NONE"

(* Rows are well typed, and a DesignWork has a slug once it exists; its    *)
(* deletion leaves the slug behind.                                        *)
RowsOK ==
    /\ rows \in [Works -> RowType]
    /\ \A w \in Works : Begun(w) <=> Slug(w) \in Slugs

(* The output files and the rows of design_docs are well typed.            *)
FilesOK ==
    /\ output \in [Slugs -> Text \cup {None}]
    /\ docs \in [Slugs -> DocType \cup {None}]

(* What a task awaits inside a handler tells which state it has read: D3   *)
(* alone composes, D4 alone runs an agent, D6 alone persists.              *)
Placed(r) ==
    /\ r.pc \in {"gates", "write_gates", "composed"} => r.row.state = "PROMPT_COMPOSE"
    /\ r.pc = "llm" => r.row.state = "LLM_GENERATE"
    /\ r.pc \in {"put", "insert", "publish", "complete"} => r.row.state = "PERSIST"

(* What a task has done before it got where it is.  Past the INSERT the    *)
(* document of the slug is its own, past publish it is published and the   *)
(* DesignWork, unless deleted, is linked to it.                            *)
Fine(t) ==
    /\ tasks[t].driver => tasks[t].pc # "off"
    /\ tasks[t].pc # "off" => W(t) \in Works /\ Begun(W(t)) /\ Placed(tasks[t])
    /\ tasks[t].pc \in {"put", "insert"} => tasks[t].text # None
    /\ tasks[t].pc \in {"publish", "complete"} =>
           docs[Slug(W(t))] # None /\ docs[Slug(W(t))].by = W(t)
    /\ tasks[t].pc = "complete" =>
           /\ docs[Slug(W(t))].status = "published"
           /\ Exists(W(t)) => rows[W(t)].doc
TasksOK == tasks \in [Tasks -> TaskType] /\ \A t \in Tasks : Fine(t)

(* A call is about a DesignWork that exists or existed, and a cancel has   *)
(* seen it active.                                                         *)
Posed(c) ==
    /\ calls[c].pc # "idle" => Of(c) \in Works /\ Begun(Of(c))
    /\ calls[c].pc = "cancel" => calls[c].row.state \in Active
CallsOK == calls \in [Clients -> CallType] /\ \A c \in Clients : Posed(c)

(* The rest: the register of drivers, the orphaned agents, the bounds.     *)
RestOK ==
    /\ running \in [Works -> Tasks \cup {None}]
    /\ agents \subseteq Works /\ \A w \in agents : Begun(w)
    /\ spent \in [events : 0..MaxEvents, ticked : BOOLEAN, late : BOOLEAN]

(* The inductive invariant that every other proof rests on.                *)
IInv == RowsOK /\ FilesOK /\ TasksOK /\ CallsOK /\ RestOK

(* What every step keeps of a row: the slug, the deletion, and the link to *)
(* a document until the row is deleted.                                    *)
RowsKept == \A w \in Works : Begun(w) =>
    /\ Begun(w)' /\ Slug(w)' = Slug(w)
    /\ Exists(w)' => Exists(w) /\ (rows[w].doc => rows'[w].doc)

(* What every step keeps of a document: author, text, publication.         *)
DocsKept == \A s \in Slugs : docs[s] # None =>
    /\ docs'[s] # None /\ docs'[s].by = docs[s].by /\ docs'[s].text = docs[s].text
    /\ docs[s].status = "published" => docs'[s].status = "published"

(* The active states of design_work_sm.py, spelled out.                    *)
LEMMA ActiveIs == Active = {"INIT", "MODE_BRANCH", "PRE_VALIDATE", "PROMPT_COMPOSE",
            "LLM_GENERATE", "MOCKUP", "POST_VALIDATE", "PERSIST"}
  BY DEF Active, Stages

(* A snapshot has the four columns that tick() and the calls go by.        *)
LEMMA SnapIs ==
    ASSUME rows \in [Works -> RowType], NEW w \in Works
    PROVE  Snap(w) = [state |-> rows[w].state, loop |-> rows[w].loop,
                      prompt |-> rows[w].prompt, from |-> rows[w].from]
  BY DEF Snap, NoSnap

(* A snapshot is well typed and has the state of its row.                  *)
LEMMA SnapTyped ==
    ASSUME rows \in [Works -> RowType], NEW w \in Works
    PROVE  Snap(w) \in SnapType /\ Snap(w).state = rows[w].state
  BY SnapIs DEF RowType, SnapType

(* An UPDATE with a well typed row that keeps slug and link is a good      *)
(* step, whether or not the row was deleted before it.                     *)
LEMMA SetRow ==
    ASSUME RowsOK, NEW w \in Works, Begun(w), NEW r \in RowType,
           r.state # "NONE", r.slug = Slug(w), rows[w].doc => r.doc,
           Update(w, r)
    PROVE  RowsOK' /\ RowsKept
  BY DEF RowsOK, RowsKept, Update, Begun, Slug, Exists

(* The UPDATE of the state alone is such an UPDATE.                        *)
LEMMA SetStateRow ==
    ASSUME RowsOK, NEW w \in Works, Begun(w), NEW s \in States, SetState(w, s)
    PROVE  RowsOK' /\ RowsKept
<1> DEFINE r == [rows[w] EXCEPT !.state = s]
<1>1. r \in RowType /\ r.state = s /\ r.slug = Slug(w) /\ r.doc = rows[w].doc
  BY ActiveIs DEF RowsOK, RowType, Slug
<1>2. s # "NONE"
  BY ActiveIs DEF States, Terminal
<1> QED
  BY <1>1, <1>2, SetRow DEF SetState

(* _transition is one, won or lost.                                        *)
LEMMA TransitionRow ==
    ASSUME RowsOK, NEW t \in Tasks, W(t) \in Works, Begun(W(t)), NEW to \in Active,
           Transition(t, to)
    PROVE  RowsOK' /\ RowsKept
<1>1. CASE rows' = rows
  BY <1>1 DEF RowsOK, RowsKept, Begun, Slug, Exists
<1>2. CASE SetState(W(t), to)
  BY <1>2, SetStateRow DEF States
<1> QED
  BY <1>1, <1>2 DEF Transition

(* _loop_or_escalate is one: the loop it writes is within the cap.         *)
LEMMA LoopRow ==
    ASSUME RowsOK, TasksOK, NEW t \in Tasks, tasks[t].pc # "off", LoopOrEscalate(t)
    PROVE  RowsOK' /\ RowsKept
<1> DEFINE r == [rows[W(t)] EXCEPT !.loop = Seen(t).loop + 1, !.state = "PROMPT_COMPOSE"]
<1>1. W(t) \in Works /\ Begun(W(t)) /\ Seen(t).loop \in 0..MaxLoops
  BY DEF TasksOK, Fine, TaskType, SnapType, Seen
<1>2. CASE SetState(W(t), "ESCALATED")
  BY <1>1, <1>2, SetStateRow DEF States, Terminal
<1>3. CASE Seen(t).loop + 1 <= MaxLoops /\ Update(W(t), r)
  <2>1. Seen(t).loop + 1 \in 0..MaxLoops
    BY <1>1, <1>3, DesignWorkAssumption
  <2>2. [rows[W(t)] EXCEPT !.loop = Seen(t).loop + 1] \in RowType
    BY <1>1, <2>1 DEF RowsOK, RowType
  <2>3. "PROMPT_COMPOSE" \in States
    BY ActiveIs DEF States
  <2>4. r \in RowType
    BY <2>2, <2>3 DEF RowType
  <2>5. r.state = "PROMPT_COMPOSE" /\ r.slug = Slug(W(t)) /\ r.doc = rows[W(t)].doc
    BY <1>1 DEF RowsOK, RowType, Slug
  <2> QED
    BY <1>1, <1>3, <2>4, <2>5, SetRow
<1> QED
  BY <1>1, <1>2, <1>3, DesignWorkAssumption DEF LoopOrEscalate, Escalate

(* A write to an output path touches no column, only which of the two      *)
(* files is the newer.                                                     *)
LEMMA WriteRows ==
    ASSUME RowsOK, NEW s \in Slugs, NEW text, Write(s, text)
    PROVE  RowsOK' /\ RowsKept
<1>1. \A w \in Works : [rows[w] EXCEPT !.file = "older"] \in RowType
  BY DEF RowsOK, RowType
<1> QED
  BY <1>1 DEF RowsOK, RowsKept, Write, Begun, Slug, Exists, RowType

(* A step that leaves the rows alone.                                      *)
LEMMA SameRows == RowsOK /\ rows' = rows => RowsOK' /\ RowsKept
  BY DEF RowsOK, RowsKept, Begun, Slug, Exists

(* The row that cancel and rerun write is well typed.                      *)
LEMMA RewrittenRow ==
    ASSUME NEW r \in RowType, NEW s \in States, NEW f \in Active \cup {None}
    PROVE  [r EXCEPT !.state = s, !.from = f] \in RowType
<1>1. [r EXCEPT !.state = s] \in RowType
  BY DEF RowType
<1> QED
  BY <1>1 DEF RowType

(* The row that _update_gates_field writes is well typed and keeps state,  *)
(* slug and link.                                                          *)
LEMMA RegatedRow ==
    ASSUME NEW r \in RowType, NEW f \in Active \cup {None}
    PROVE  LET q == [r EXCEPT !.prompt = TRUE, !.from = f] IN
           q \in RowType /\ q.state = r.state /\ q.slug = r.slug /\ q.doc = r.doc
<1>1. [r EXCEPT !.prompt = TRUE] \in RowType
  BY DEF RowType
<1>2. [r EXCEPT !.prompt = TRUE, !.from = f] \in RowType
  BY <1>1 DEF RowType
<1> QED
  BY <1>2 DEF RowType

(* The row that create and retry insert.                                   *)
LEMMA NewRowIs ==
    ASSUME NEW s \in Slugs, NEW optimize \in BOOLEAN
    PROVE  NewRow(s, optimize) \in RowType /\ NewRow(s, optimize).slug = s
           /\ NewRow(s, optimize).state = "INIT" /\ NewRow(s, optimize).from = None
<1>1. NoRow \in RowType
  BY DesignWorkAssumption DEF NoRow, RowType
<1>2. "INIT" \in States
  BY ActiveIs DEF States
<1>3. [NoRow EXCEPT !.state = "INIT"] \in RowType
  BY <1>1, <1>2 DEF RowType
<1>4. [NoRow EXCEPT !.state = "INIT", !.slug = s] \in RowType
  BY <1>3 DEF RowType
<1>5. NewRow(s, optimize) \in RowType
  BY <1>4 DEF RowType, NewRow
<1> QED
  BY <1>5 DEF NewRow, NoRow

(* What the model remembers of a deleted row.                              *)
LEMMA GoneRowIs ==
    ASSUME NEW s \in Slugs
    PROVE  LET r == [NoRow EXCEPT !.state = "DELETED", !.slug = s] IN
           r \in RowType /\ r.slug = s /\ r.state = "DELETED" /\ r.from = None
<1>1. NoRow \in RowType
  BY DesignWorkAssumption DEF NoRow, RowType
<1>2. [NoRow EXCEPT !.state = "DELETED"] \in RowType
  BY <1>1 DEF RowType
<1>3. [NoRow EXCEPT !.state = "DELETED", !.slug = s] \in RowType
  BY <1>2 DEF RowType
<1> QED
  BY <1>3 DEF NoRow

(* A live task is about a DesignWork that has begun.                       *)
LEMMA BeganTask ==
    TasksOK => \A t \in Tasks : tasks[t].pc # "off" => W(t) \in Works /\ Begun(W(t))
  BY DEF TasksOK, Fine

(* A call under way is about a DesignWork that has begun.                  *)
LEMMA BeganCall ==
    CallsOK => \A c \in Clients : calls[c].pc # "idle"
    => Of(c) \in Works /\ Begun(Of(c))
  BY DEF CallsOK, Posed

(* Every step of the state machine keeps the rows well typed, and what     *)
(* RowsKept says of them.                                                  *)
LEMMA RowsStep == IInv /\ [Next]_vars => RowsOK' /\ RowsKept
<1> SUFFICES ASSUME IInv, [Next]_vars PROVE RowsOK' /\ RowsKept
  OBVIOUS
<1> USE DEF IInv
<1>1. ASSUME NEW t \in Tasks, Get(t) PROVE RowsOK' /\ RowsKept
  BY <1>1, SameRows DEF Get
<1>2. ASSUME NEW t \in Tasks, Noop(t) PROVE RowsOK' /\ RowsKept
  BY <1>2, SameRows DEF Noop
<1>3. ASSUME NEW t \in Tasks, D0Init(t) PROVE RowsOK' /\ RowsKept
  BY <1>3, BeganTask, TransitionRow, ActiveIs DEF D0Init, In, At
<1>4. ASSUME NEW t \in Tasks, D1ModeBranch(t) PROVE RowsOK' /\ RowsKept
  BY <1>4, BeganTask, TransitionRow, SetStateRow, ActiveIs DEF D1ModeBranch, In, At,
     Escalate, States, Terminal
<1>5. ASSUME NEW t \in Tasks, D2PreValidate(t) PROVE RowsOK' /\ RowsKept
  BY <1>5, BeganTask, TransitionRow, SetStateRow, ActiveIs DEF D2PreValidate, In, At,
     Escalate, States, Terminal
<1>6. ASSUME NEW t \in Tasks, D3PutPrompt(t) PROVE RowsOK' /\ RowsKept
  <2> DEFINE r == [rows[W(t)] EXCEPT !.file = "newer"]
  <2>1. W(t) \in Works /\ Begun(W(t))
    BY <1>6, BeganTask DEF D3PutPrompt, In, At
  <2>2. r \in RowType /\ r.state = rows[W(t)].state /\ r.slug = Slug(W(t))
        /\ r.doc = rows[W(t)].doc
    BY <2>1 DEF RowsOK, RowType, Slug
  <2>3. CASE UNCHANGED rows
    BY <1>6, <2>3, SameRows DEF D3PutPrompt
  <2>4. CASE Update(W(t), r)
    BY <1>6, <2>1, <2>2, <2>4, SetRow DEF D3PutPrompt, Begun
  <2> QED
    BY <1>6, <2>3, <2>4 DEF D3PutPrompt
<1>7. ASSUME NEW t \in Tasks, D3ReadGates(t) PROVE RowsOK' /\ RowsKept
  BY <1>7, SameRows DEF D3ReadGates
<1>8. ASSUME NEW t \in Tasks, D3WriteGates(t) PROVE RowsOK' /\ RowsKept
  <2> DEFINE r == [rows[W(t)] EXCEPT !.prompt = TRUE, !.from = Seen(t).from]
  <2>1. W(t) \in Works /\ Begun(W(t))
    BY <1>8, BeganTask DEF D3WriteGates, At
  <2>2. Seen(t).from \in Active \cup {None}
    BY DEF TasksOK, TaskType, SnapType, Seen
  <2>3. r \in RowType /\ r.state = rows[W(t)].state /\ r.slug = Slug(W(t))
        /\ r.doc = rows[W(t)].doc
    BY <2>1, <2>2, RegatedRow DEF RowsOK, Slug
  <2> QED
    BY <1>8, <2>1, <2>3, SetRow DEF D3WriteGates, Begun
<1>9. ASSUME NEW t \in Tasks, D3Transition(t) PROVE RowsOK' /\ RowsKept
  BY <1>9, BeganTask, TransitionRow, ActiveIs DEF D3Transition, In, At
<1>10. ASSUME NEW t \in Tasks, D4Redo(t) PROVE RowsOK' /\ RowsKept
  BY <1>10, BeganTask, TransitionRow, ActiveIs DEF D4Redo, In, At
<1>11. ASSUME NEW t \in Tasks, D4Recovered(t) PROVE RowsOK' /\ RowsKept
  BY <1>11, BeganTask, TransitionRow, ActiveIs DEF D4Recovered, In, At, AfterLLM
<1>12. ASSUME NEW t \in Tasks, D4Run(t) PROVE RowsOK' /\ RowsKept
  BY <1>12, SameRows DEF D4Run
<1>13. ASSUME NEW t \in Tasks, D4AgentWrites(t) PROVE RowsOK' /\ RowsKept
  BY <1>13, BeganTask, WriteRows DEF D4AgentWrites, At, RowsOK
<1>14. ASSUME NEW t \in Tasks, D4Succeeded(t) PROVE RowsOK' /\ RowsKept
  BY <1>14, BeganTask, TransitionRow, ActiveIs DEF D4Succeeded, In, At, AfterLLM
<1>15. ASSUME NEW t \in Tasks, D4Failed(t) PROVE RowsOK' /\ RowsKept
  BY <1>15, BeganTask, SetStateRow DEF D4Failed, At, Escalate, States, Terminal
<1>16. ASSUME NEW t \in Tasks, D45Mockup(t) PROVE RowsOK' /\ RowsKept
  BY <1>16, BeganTask, TransitionRow, ActiveIs DEF D45Mockup, In, At
<1>17. ASSUME NEW t \in Tasks, D5PostValidate(t) PROVE RowsOK' /\ RowsKept
  BY <1>17, BeganTask, TransitionRow, LoopRow, ActiveIs DEF D5PostValidate, In, At
<1>18. ASSUME NEW t \in Tasks, D6Check(t) PROVE RowsOK' /\ RowsKept
  BY <1>18, SameRows DEF D6Check
<1>19. ASSUME NEW t \in Tasks, D6Put(t) PROVE RowsOK' /\ RowsKept
  BY <1>19, BeganTask, WriteRows DEF D6Put, At, RowsOK
<1>20. ASSUME NEW t \in Tasks, D6Insert(t) PROVE RowsOK' /\ RowsKept
  BY <1>20, SameRows DEF D6Insert
<1>21. ASSUME NEW t \in Tasks, D6Publish(t) PROVE RowsOK' /\ RowsKept
  <2> DEFINE r == [rows[W(t)] EXCEPT !.doc = TRUE]
  <2>1. W(t) \in Works /\ Begun(W(t))
    BY <1>21, BeganTask DEF D6Publish, At
  <2>2. r \in RowType /\ r.state = rows[W(t)].state /\ r.slug = Slug(W(t)) /\ r.doc
    BY <2>1 DEF RowsOK, RowType, Slug
  <2> QED
    BY <1>21, <2>1, <2>2, SetRow DEF D6Publish, Begun
<1>22. ASSUME NEW t \in Tasks, D6Complete(t) PROVE RowsOK' /\ RowsKept
  BY <1>22, BeganTask, SetStateRow DEF D6Complete, At, States, Terminal
<1>23. ASSUME NEW t \in Tasks, NEW w \in Works, RequestTick(t, w)
       PROVE  RowsOK' /\ RowsKept
  BY <1>23, SameRows DEF RequestTick
<1>24. ASSUME NEW c \in Clients, NEW w \in Works, Create(c, w) PROVE RowsOK' /\ RowsKept
  <2>1. PICK s \in Slugs, optimize \in BOOLEAN :
           rows' = [rows EXCEPT ![w] = NewRow(s, optimize)]
    BY <1>24 DEF Create
  <2> QED
    BY <1>24, <2>1, NewRowIs DEF Create, Exists, RowsOK, RowsKept, Begun, Slug
<1>25. ASSUME NEW c \in Clients, NEW w \in Works, CancelRead(c, w)
       PROVE  RowsOK' /\ RowsKept
  BY <1>25, SameRows DEF CancelRead
<1>26. ASSUME NEW c \in Clients, NEW w \in Works, RerunRead(c, w)
       PROVE  RowsOK' /\ RowsKept
  BY <1>26, SameRows DEF RerunRead
<1>27. ASSUME NEW c \in Clients, NEW w \in Works, DeleteRead(c, w)
       PROVE  RowsOK' /\ RowsKept
  BY <1>27, SameRows DEF DeleteRead
<1>28. ASSUME NEW c \in Clients, NEW source \in Works, NEW w \in Works, Retry(c, source, w)
       PROVE  RowsOK' /\ RowsKept
  <2>1. Slug(source) \in Slugs
    BY <1>28 DEF Retry, RowsOK, Begun
  <2> QED
    BY <1>28, <2>1, NewRowIs DEF Retry, Exists, RowsOK, RowsKept, Begun, Slug
<1>29. ASSUME NEW c \in Clients, Schedule(c) PROVE RowsOK' /\ RowsKept
  BY <1>29, SameRows DEF Schedule
<1>30. ASSUME NEW c \in Clients, CancelWrite(c) PROVE RowsOK' /\ RowsKept
  <2> DEFINE r == [rows[Of(c)] EXCEPT !.state = "CANCELLED", !.from = calls[c].row.state,
                                      !.prompt = calls[c].row.prompt]
  <2>1. Of(c) \in Works /\ Begun(Of(c)) /\ rows[Of(c)] \in RowType
    BY <1>30, BeganCall DEF CancelWrite, CallAt, RowsOK
  <2>2. /\ "CANCELLED" \in States
        /\ calls[c].row.state \in Active \cup {None} /\ calls[c].row.prompt \in BOOLEAN
    BY <1>30 DEF CancelWrite, CallAt, CallsOK, Posed, CallType, SnapType, States, Terminal
  <2>3. r \in RowType /\ r.state = "CANCELLED" /\ r.slug = Slug(Of(c))
        /\ r.doc = rows[Of(c)].doc
    <3>1. [rows[Of(c)] EXCEPT !.state = "CANCELLED", !.from = calls[c].row.state] \in RowType
      BY <2>1, <2>2, RewrittenRow
    <3> QED
      BY <2>1, <2>2, <3>1 DEF RowType, Slug
  <2> QED
    BY <1>30, <2>1, <2>3, SetRow, SameRows DEF CancelWrite
<1>31. ASSUME NEW c \in Clients, CancelKill(c) PROVE RowsOK' /\ RowsKept
  BY <1>31, SameRows DEF CancelKill
<1>32. ASSUME NEW c \in Clients, RerunWrite(c) PROVE RowsOK' /\ RowsKept
  <2> DEFINE q == ResumeState(calls[c].row)
             r == [rows[Of(c)] EXCEPT !.state = q, !.from = None, !.prompt = calls[c].row.prompt]
  <2>1. Of(c) \in Works /\ Begun(Of(c)) /\ rows[Of(c)] \in RowType
    BY <1>32, BeganCall DEF RerunWrite, CallAt, RowsOK
  <2>2. /\ q \in Active /\ q \in States /\ q # "NONE"
        /\ None \in Active \cup {None} /\ calls[c].row.prompt \in BOOLEAN
    BY ActiveIs DEF CallsOK, CallType, SnapType, States, ResumeState
  <2>3. r \in RowType /\ r.state = q /\ r.slug = Slug(Of(c)) /\ r.doc = rows[Of(c)].doc
    <3>1. [rows[Of(c)] EXCEPT !.state = q, !.from = None] \in RowType
      BY <2>1, <2>2, RewrittenRow
    <3> QED
      BY <2>1, <2>2, <3>1 DEF RowType, Slug
  <2> QED
    BY <1>32, <2>1, <2>2, <2>3, SetRow, SameRows DEF RerunWrite
<1>33. ASSUME NEW c \in Clients, DeleteFiles(c) PROVE RowsOK' /\ RowsKept
  <2> DEFINE r == [rows[Of(c)] EXCEPT !.file = "gone"]
  <2>1. Of(c) \in Works /\ Begun(Of(c))
    BY <1>33, BeganCall DEF DeleteFiles, CallAt
  <2>2. r \in RowType /\ r.state = rows[Of(c)].state /\ r.slug = Slug(Of(c))
        /\ r.doc = rows[Of(c)].doc
    BY <2>1 DEF RowsOK, RowType, Slug
  <2> QED
    BY <1>33, <2>1, <2>2, SetRow DEF DeleteFiles, Begun
<1>34. ASSUME NEW c \in Clients, DeleteRows(c) PROVE RowsOK' /\ RowsKept
  <2> DEFINE r == [NoRow EXCEPT !.state = "DELETED", !.slug = Slug(Of(c))]
  <2>1. Of(c) \in Works /\ Begun(Of(c)) /\ Slug(Of(c)) \in Slugs
    BY <1>34, BeganCall DEF DeleteRows, CallAt, RowsOK
  <2>2. r \in RowType /\ r.slug = Slug(Of(c)) /\ r.state = "DELETED"
    BY <2>1, GoneRowIs
  <2> QED
    BY <1>34, <2>1, <2>2 DEF DeleteRows, RowsOK, RowsKept, Begun, Slug, Exists
<1>35. CASE Crash
  BY <1>35, SameRows DEF Crash
<1>36. ASSUME NEW w \in Works, LateWrite(w) PROVE RowsOK' /\ RowsKept
  BY <1>36, WriteRows DEF LateWrite, RestOK, RowsOK
<1>37. ASSUME NEW w \in Works, PromptLost(w) PROVE RowsOK' /\ RowsKept
  <2> DEFINE r == [rows[w] EXCEPT !.file = "gone"]
  <2>1. r \in RowType /\ r.state = rows[w].state /\ r.slug = Slug(w)
        /\ r.doc = rows[w].doc
    BY DEF RowsOK, RowType, Slug
  <2> QED
    BY <1>37, <2>1, SetRow, SameRows DEF PromptLost, Update, Exists, Begun
<1>38. CASE UNCHANGED vars
  BY <1>38, SameRows DEF vars
<1> QED
  BY <1>1, <1>2, <1>3, <1>4, <1>5, <1>6, <1>7, <1>8, <1>9, <1>10, <1>11, <1>12, <1>13,
     <1>14, <1>15, <1>16, <1>17, <1>18, <1>19, <1>20, <1>21, <1>22, <1>23, <1>24,
     <1>25, <1>26, <1>27, <1>28, <1>29, <1>30, <1>31, <1>32, <1>33, <1>34, <1>35,
     <1>36, <1>37, <1>38
  DEF Next, Handler, Call

(* A step that leaves files and documents alone.                           *)
LEMMA SameFiles == FilesOK /\ output' = output /\ docs' = docs => FilesOK' /\ DocsKept
  BY DEF FilesOK, DocsKept

(* Every step keeps files and documents well typed, and the documents: the *)
(* INSERT of D6 never replaces one.                                        *)
LEMMA FilesStep == IInv /\ [Next]_vars => FilesOK' /\ DocsKept
<1> SUFFICES ASSUME IInv, [Next]_vars PROVE FilesOK' /\ DocsKept
  OBVIOUS
<1> USE DEF IInv
<1>1. ASSUME NEW t \in Tasks, Get(t) PROVE FilesOK' /\ DocsKept
  BY <1>1, SameFiles DEF Get
<1>2. ASSUME NEW t \in Tasks, Noop(t) PROVE FilesOK' /\ DocsKept
  BY <1>2, SameFiles DEF Noop
<1>3. ASSUME NEW t \in Tasks, D0Init(t) PROVE FilesOK' /\ DocsKept
  BY <1>3, SameFiles DEF D0Init
<1>4. ASSUME NEW t \in Tasks, D1ModeBranch(t) PROVE FilesOK' /\ DocsKept
  BY <1>4, SameFiles DEF D1ModeBranch
<1>5. ASSUME NEW t \in Tasks, D2PreValidate(t) PROVE FilesOK' /\ DocsKept
  BY <1>5, SameFiles DEF D2PreValidate
<1>6. ASSUME NEW t \in Tasks, D3PutPrompt(t) PROVE FilesOK' /\ DocsKept
  BY <1>6, SameFiles DEF D3PutPrompt
<1>7. ASSUME NEW t \in Tasks, D3ReadGates(t) PROVE FilesOK' /\ DocsKept
  BY <1>7, SameFiles DEF D3ReadGates
<1>8. ASSUME NEW t \in Tasks, D3WriteGates(t) PROVE FilesOK' /\ DocsKept
  BY <1>8, SameFiles DEF D3WriteGates
<1>9. ASSUME NEW t \in Tasks, D3Transition(t) PROVE FilesOK' /\ DocsKept
  BY <1>9, SameFiles DEF D3Transition
<1>10. ASSUME NEW t \in Tasks, D4Redo(t) PROVE FilesOK' /\ DocsKept
  BY <1>10, SameFiles DEF D4Redo
<1>11. ASSUME NEW t \in Tasks, D4Recovered(t) PROVE FilesOK' /\ DocsKept
  BY <1>11, SameFiles DEF D4Recovered
<1>12. ASSUME NEW t \in Tasks, D4Run(t) PROVE FilesOK' /\ DocsKept
  BY <1>12, SameFiles DEF D4Run
<1>13. ASSUME NEW t \in Tasks, D4AgentWrites(t) PROVE FilesOK' /\ DocsKept
  <2>1. Slug(W(t)) \in Slugs
    BY <1>13, BeganTask DEF D4AgentWrites, At, RowsOK
  <2>2. W(t) \in Works
    BY <1>13, BeganTask DEF D4AgentWrites, At
  <2>3. \A valid \in BOOLEAN : [by |-> W(t), valid |-> valid] \in Text
    BY <2>2 DEF Text
  <2> QED
    BY <1>13, <2>1, <2>3 DEF D4AgentWrites, Write, FilesOK, DocsKept
<1>14. ASSUME NEW t \in Tasks, D4Succeeded(t) PROVE FilesOK' /\ DocsKept
  BY <1>14, SameFiles DEF D4Succeeded
<1>15. ASSUME NEW t \in Tasks, D4Failed(t) PROVE FilesOK' /\ DocsKept
  BY <1>15, SameFiles DEF D4Failed
<1>16. ASSUME NEW t \in Tasks, D45Mockup(t) PROVE FilesOK' /\ DocsKept
  BY <1>16, SameFiles DEF D45Mockup
<1>17. ASSUME NEW t \in Tasks, D5PostValidate(t) PROVE FilesOK' /\ DocsKept
  BY <1>17, SameFiles DEF D5PostValidate
<1>18. ASSUME NEW t \in Tasks, D6Check(t) PROVE FilesOK' /\ DocsKept
  BY <1>18, SameFiles DEF D6Check
<1>19. ASSUME NEW t \in Tasks, D6Put(t) PROVE FilesOK' /\ DocsKept
  <2>1. tasks[t].text \in Text
    BY <1>19 DEF D6Put, At, TasksOK, Fine, TaskType
  <2> QED
    BY <1>19, <2>1 DEF D6Put, Write, FilesOK, DocsKept
<1>20. ASSUME NEW t \in Tasks, D6Insert(t) PROVE FilesOK' /\ DocsKept
  <2> DEFINE d == [text |-> tasks[t].text, by |-> W(t), status |-> "draft"]
  <2>1. W(t) \in Works /\ Slug(W(t)) \in Slugs /\ tasks[t].text \in Text
    BY <1>20, BeganTask DEF D6Insert, At, TasksOK, Fine, TaskType, RowsOK
  <2>2. d \in DocType
    BY <2>1 DEF DocType
  <2>3. CASE docs[Slug(W(t))] = None
    BY <1>20, <2>1, <2>2, <2>3 DEF D6Insert, FilesOK, DocsKept
  <2>4. CASE docs[Slug(W(t))] # None
    BY <1>20, <2>4 DEF D6Insert, FilesOK, DocsKept
  <2> QED
    BY <2>3, <2>4
<1>21. ASSUME NEW t \in Tasks, D6Publish(t) PROVE FilesOK' /\ DocsKept
  <2>1. W(t) \in Works /\ Slug(W(t)) \in Slugs /\ docs[Slug(W(t))] \in DocType
    BY <1>21, BeganTask DEF D6Publish, At, TasksOK, Fine, RowsOK, FilesOK
  <2> DEFINE d == [docs[Slug(W(t))] EXCEPT !.status = "published"]
  <2>2. /\ d \in DocType /\ d # None /\ d.status = "published"
        /\ d.by = docs[Slug(W(t))].by /\ d.text = docs[Slug(W(t))].text
    BY <2>1, DesignWorkAssumption DEF DocType
  <2>3. docs' = [docs EXCEPT ![Slug(W(t))] = d] /\ output' = output
    BY <1>21, <2>1 DEF D6Publish, FilesOK
  <2> QED
    BY <2>2, <2>3 DEF FilesOK, DocsKept
<1>22. ASSUME NEW t \in Tasks, D6Complete(t) PROVE FilesOK' /\ DocsKept
  BY <1>22, SameFiles DEF D6Complete
<1>23. ASSUME NEW t \in Tasks, NEW w \in Works, RequestTick(t, w)
       PROVE  FilesOK' /\ DocsKept
  BY <1>23, SameFiles DEF RequestTick
<1>24. ASSUME NEW c \in Clients, NEW w \in Works, Create(c, w)
       PROVE  FilesOK' /\ DocsKept
  BY <1>24, SameFiles DEF Create
<1>25. ASSUME NEW c \in Clients, NEW w \in Works, CancelRead(c, w)
       PROVE  FilesOK' /\ DocsKept
  BY <1>25, SameFiles DEF CancelRead
<1>26. ASSUME NEW c \in Clients, NEW w \in Works, RerunRead(c, w)
       PROVE  FilesOK' /\ DocsKept
  BY <1>26, SameFiles DEF RerunRead
<1>27. ASSUME NEW c \in Clients, NEW w \in Works, DeleteRead(c, w)
       PROVE  FilesOK' /\ DocsKept
  BY <1>27, SameFiles DEF DeleteRead
<1>28. ASSUME NEW c \in Clients, NEW source \in Works, NEW w \in Works, Retry(c, source, w)
       PROVE  FilesOK' /\ DocsKept
  BY <1>28, SameFiles DEF Retry
<1>29. ASSUME NEW c \in Clients, Schedule(c) PROVE FilesOK' /\ DocsKept
  BY <1>29, SameFiles DEF Schedule
<1>30. ASSUME NEW c \in Clients, CancelWrite(c) PROVE FilesOK' /\ DocsKept
  BY <1>30, SameFiles DEF CancelWrite
<1>31. ASSUME NEW c \in Clients, CancelKill(c) PROVE FilesOK' /\ DocsKept
  BY <1>31, SameFiles DEF CancelKill
<1>32. ASSUME NEW c \in Clients, RerunWrite(c) PROVE FilesOK' /\ DocsKept
  BY <1>32, SameFiles DEF RerunWrite
<1>33. ASSUME NEW c \in Clients, DeleteFiles(c) PROVE FilesOK' /\ DocsKept
  BY <1>33 DEF DeleteFiles, FilesOK, DocsKept
<1>34. ASSUME NEW c \in Clients, DeleteRows(c) PROVE FilesOK' /\ DocsKept
  BY <1>34, SameFiles DEF DeleteRows
<1>35. CASE Crash
  BY <1>35, SameFiles DEF Crash
<1>36. ASSUME NEW w \in Works, LateWrite(w) PROVE FilesOK' /\ DocsKept
  <2>1. \A valid \in BOOLEAN : [by |-> w, valid |-> valid] \in Text
    BY DEF Text
  <2> QED
    BY <1>36, <2>1 DEF LateWrite, Write, FilesOK, DocsKept
<1>37. ASSUME NEW w \in Works, PromptLost(w) PROVE FilesOK' /\ DocsKept
  BY <1>37, SameFiles DEF PromptLost
<1>38. CASE UNCHANGED vars
  BY <1>38, SameFiles DEF vars
<1> QED
  BY <1>1, <1>2, <1>3, <1>4, <1>5, <1>6, <1>7, <1>8, <1>9, <1>10, <1>11, <1>12, <1>13,
     <1>14, <1>15, <1>16, <1>17, <1>18, <1>19, <1>20, <1>21, <1>22, <1>23, <1>24,
     <1>25, <1>26, <1>27, <1>28, <1>29, <1>30, <1>31, <1>32, <1>33, <1>34, <1>35,
     <1>36, <1>37, <1>38
  DEF Next, Handler, Call

(* An empty slot is no driver.                                             *)
LEMMA NoTaskIs ==
    NoTask \in TaskType /\ NoTask.pc = "off" /\ ~NoTask.driver /\ NoSnap \in SnapType
<1>1. NoSnap \in SnapType
  BY DesignWorkAssumption DEF NoSnap, SnapType
<1> QED
  BY <1>1 DEF NoTask, TaskType

(* A fresh driver has read nothing yet.                                    *)
LEMMA NewDriverIs ==
    ASSUME NEW w \in Works
    PROVE  NewDriver(w) \in TaskType /\ NewDriver(w).pc = "get" /\ NewDriver(w).w = w
           /\ NewDriver(w).driver /\ NewDriver(w).row = NoSnap /\ NewDriver(w).text = None
<1>1. [NoTask EXCEPT !.pc = "get"] \in TaskType
  BY NoTaskIs DEF TaskType
<1>2. [NoTask EXCEPT !.pc = "get", !.w = w] \in TaskType
  BY <1>1 DEF TaskType
<1> QED
  BY <1>2 DEF TaskType, NewDriver, NoTask

(* A task that a step leaves alone stays where its history put it, as the  *)
(* step keeps rows and documents.                                          *)
LEMMA KeptFine ==
    ASSUME IInv, RowsKept, DocsKept, NEW u \in Tasks, tasks'[u] = tasks[u]
    PROVE  Fine(u)'
<1>1. CASE tasks[u].pc = "off"
  BY <1>1 DEF Fine, IInv, TasksOK
<1>2. CASE tasks[u].pc # "off"
  <2>1. W(u) \in Works /\ Begun(W(u)) /\ Slug(W(u)) \in Slugs /\ W(u)' = W(u)
    BY <1>2 DEF IInv, TasksOK, Fine, RowsOK, W
  <2>2. Slug(W(u))' = Slug(W(u)) /\ Begun(W(u))'
        /\ (Exists(W(u))' => Exists(W(u)) /\ (rows[W(u)].doc => rows'[W(u)].doc))
    BY <2>1 DEF RowsKept, Begun, Slug, Exists
  <2> QED
    BY <1>2, <2>1, <2>2 DEF IInv, TasksOK, Fine, DocsKept
<1> QED
  BY <1>1, <1>2

(* A step of none of the tasks.                                            *)
LEMMA SameTasks ==
    ASSUME IInv, RowsKept, DocsKept, tasks' = tasks
    PROVE  TasksOK'
  BY KeptFine DEF IInv, TasksOK

(* A step of one task: the others stay as they are.                        *)
LEMMA SetTask ==
    ASSUME IInv, RowsKept, DocsKept, NEW t \in Tasks, NEW r \in TaskType,
           tasks' = [tasks EXCEPT ![t] = r], Fine(t)'
    PROVE  TasksOK'
<1>1. tasks' \in [Tasks -> TaskType]
  BY DEF IInv, TasksOK
<1>2. ASSUME NEW u \in Tasks PROVE Fine(u)'
  <2>1. CASE u = t
    BY <2>1
  <2>2. CASE u # t
    BY <2>2, KeptFine DEF IInv, TasksOK
  <2> QED
    BY <2>1, <2>2
<1> QED
  BY <1>1, <1>2 DEF TasksOK

(* The end of one task.                                                    *)
LEMMA DropTask ==
    ASSUME IInv, RowsKept, DocsKept, NEW t \in Tasks, tasks' = [tasks EXCEPT ![t] = NoTask]
    PROVE  TasksOK'
  BY SetTask, NoTaskIs DEF Fine, IInv, TasksOK

(* A task that starts to drive a DesignWork.                               *)
LEMMA StartDriver ==
    ASSUME IInv, RowsKept, DocsKept, NEW t \in Tasks, NEW w \in Works, Begun(w),
           tasks' = [tasks EXCEPT ![t] = NewDriver(w)]
    PROVE  TasksOK'
<1>1. Fine(t)'
  BY NewDriverIs DEF Fine, Placed, W, RowsKept, IInv, TasksOK, Begun
<1> QED
  BY <1>1, NewDriverIs, SetTask

(* A handler that returns: a driver ticks again, a request is over.        *)
LEMMA ReturnTask ==
    ASSUME IInv, RowsKept, DocsKept, NEW t \in Tasks, tasks[t].pc # "off", Return(t)
    PROVE  TasksOK'
<1>1. W(t) \in Works /\ Begun(W(t))
  BY BeganTask DEF IInv
<1>2. tasks' = [tasks EXCEPT ![t] = IF tasks[t].driver THEN NewDriver(W(t)) ELSE NoTask]
  BY DEF Return, Returned
<1> QED
  BY <1>1, <1>2, StartDriver, DropTask

(* A step of a handler before D6, or into one.                             *)
LEMMA MoveTask ==
    ASSUME IInv, RowsKept, DocsKept, NEW t \in Tasks, tasks[t].pc # "off",
           NEW pc \in {"handler", "gates", "write_gates", "composed", "llm"},
           NEW r \in TaskType, tasks' = [tasks EXCEPT ![t] = r], r.pc = pc, r.w = W(t),
           Placed(r)
    PROVE  TasksOK'
<1>1. W(t) \in Works /\ Begun(W(t)) /\ W(t)' = W(t)
  BY BeganTask DEF IInv, TasksOK, W
<1>2. Begun(W(t))'
  BY <1>1 DEF RowsKept, Begun
<1>3. Fine(t)'
  BY <1>1, <1>2 DEF Fine, IInv, TasksOK
<1> QED
  BY <1>3, SetTask

(* Every step keeps the tasks where their history put them: the document   *)
(* of a slug is still its author's after the other tasks', the calls' and  *)
(* the restarts' steps.                                                    *)
LEMMA TasksStep == IInv /\ RowsKept /\ DocsKept /\ [Next]_vars => TasksOK'
<1> SUFFICES ASSUME IInv, RowsKept, DocsKept, [Next]_vars PROVE TasksOK'
  OBVIOUS
<1>1. ASSUME NEW t \in Tasks, Get(t) PROVE TasksOK'
  <2>1. CASE rows[W(t)].state \in Active
    <3> DEFINE r == [tasks[t] EXCEPT !.pc = "handler", !.row = Snap(W(t))]
    <3>1. W(t) \in Works
      BY <1>1, BeganTask DEF Get, At, IInv
    <3>2. r \in TaskType /\ r.pc = "handler" /\ r.w = W(t) /\ Placed(r)
      BY <3>1, SnapTyped DEF Placed, IInv, RowsOK, TasksOK, TaskType, W
    <3>3. tasks' = [tasks EXCEPT ![t] = r]
      BY <1>1, <2>1 DEF Get, IInv, TasksOK
    <3> QED
      BY <1>1, <3>2, <3>3, MoveTask DEF Get, At
  <2>2. CASE rows[W(t)].state \notin Active
    BY <1>1, <2>2, DropTask DEF Get, End
  <2> QED
    BY <2>1, <2>2
<1>2. ASSUME NEW t \in Tasks, Noop(t) PROVE TasksOK'
  BY <1>2, ReturnTask DEF Noop, In, At, Transition, Escalate
<1>3. ASSUME NEW t \in Tasks, D0Init(t) PROVE TasksOK'
  BY <1>3, ReturnTask DEF D0Init, In, At, Transition, Escalate
<1>4. ASSUME NEW t \in Tasks, D1ModeBranch(t) PROVE TasksOK'
  BY <1>4, ReturnTask, DropTask DEF D1ModeBranch, In, At, Transition, End
<1>5. ASSUME NEW t \in Tasks, D2PreValidate(t) PROVE TasksOK'
  BY <1>5, ReturnTask DEF D2PreValidate, In, At, Transition, Escalate
<1>6. ASSUME NEW t \in Tasks, D3PutPrompt(t) PROVE TasksOK'
  <2> DEFINE pc == "gates"
             r == [tasks[t] EXCEPT !.pc = pc]
  <2>1. r \in TaskType /\ r.pc = pc /\ r.w = W(t) /\ r.row = Seen(t)
    BY DEF IInv, TasksOK, TaskType, W, Seen
  <2>2. tasks[t].pc # "off"
    BY <1>6 DEF D3PutPrompt, In, At
  <2>3. Placed(r)
    BY <1>6, <2>1 DEF D3PutPrompt, In, At, IInv, TasksOK, Fine, Placed, Seen
  <2>4. CASE End(t)
    BY <1>6, <2>4, DropTask DEF D3PutPrompt, End
  <2>5. CASE Goto(t, pc)
    BY <2>1, <2>2, <2>3, <2>5, MoveTask DEF Goto, IInv, TasksOK
  <2> QED
    BY <1>6, <2>4, <2>5 DEF D3PutPrompt
<1>7. ASSUME NEW t \in Tasks, D3ReadGates(t) PROVE TasksOK'
  <2> DEFINE r == [tasks[t] EXCEPT !.pc = "write_gates", !.row.from = rows[W(t)].from]
  <2>1. W(t) \in Works
    BY <1>7, BeganTask DEF D3ReadGates, At, IInv
  <2>2. [tasks[t].row EXCEPT !.from = rows[W(t)].from] \in SnapType
    BY <2>1 DEF IInv, RowsOK, RowType, TasksOK, TaskType, SnapType
  <2>3. r \in TaskType /\ r.pc = "write_gates" /\ r.w = W(t)
        /\ r.row.state = Seen(t).state
    <3>1. tasks[t] \in TaskType
      BY DEF IInv, TasksOK
    <3>2. [tasks[t] EXCEPT !.row.from = rows[W(t)].from] \in TaskType
      BY <2>2, <3>1 DEF TaskType
    <3> QED
      BY <3>1, <3>2 DEF TaskType, SnapType, W, Seen
  <2>4. tasks' = [tasks EXCEPT ![t] = r]
    BY <1>7 DEF D3ReadGates, IInv, TasksOK
  <2>5. Seen(t).state = "PROMPT_COMPOSE"
    BY <1>7 DEF D3ReadGates, At, IInv, TasksOK, Fine, Placed, Seen
  <2>6. Placed(r)
    BY <2>3, <2>5 DEF Placed
  <2> QED
    BY <1>7, <2>3, <2>4, <2>6, MoveTask DEF D3ReadGates, At
<1>8. ASSUME NEW t \in Tasks, D3WriteGates(t) PROVE TasksOK'
  <2> DEFINE pc == "composed"
             r == [tasks[t] EXCEPT !.pc = pc]
  <2>1. r \in TaskType /\ r.pc = pc /\ r.w = W(t) /\ r.row = Seen(t)
    BY DEF IInv, TasksOK, TaskType, W, Seen
  <2>2. tasks' = [tasks EXCEPT ![t] = r] /\ tasks[t].pc # "off"
    BY <1>8 DEF D3WriteGates, In, At, Goto, IInv, TasksOK
  <2>3. Placed(r)
    BY <1>8, <2>1 DEF D3WriteGates, In, At, IInv, TasksOK, Fine, Placed, Seen
  <2> QED
    BY <2>1, <2>2, <2>3, MoveTask
<1>9. ASSUME NEW t \in Tasks, D3Transition(t) PROVE TasksOK'
  BY <1>9, ReturnTask DEF D3Transition, In, At, Transition, Escalate
<1>10. ASSUME NEW t \in Tasks, D4Redo(t) PROVE TasksOK'
  BY <1>10, ReturnTask DEF D4Redo, In, At, Transition, Escalate
<1>11. ASSUME NEW t \in Tasks, D4Recovered(t) PROVE TasksOK'
  BY <1>11, ReturnTask DEF D4Recovered, In, At, Transition, Escalate
<1>12. ASSUME NEW t \in Tasks, D4Run(t) PROVE TasksOK'
  <2> DEFINE pc == "llm"
             r == [tasks[t] EXCEPT !.pc = pc]
  <2>1. r \in TaskType /\ r.pc = pc /\ r.w = W(t) /\ r.row = Seen(t)
    BY DEF IInv, TasksOK, TaskType, W, Seen
  <2>2. tasks' = [tasks EXCEPT ![t] = r] /\ tasks[t].pc # "off"
    BY <1>12 DEF D4Run, In, At, Goto, IInv, TasksOK
  <2>3. Placed(r)
    BY <1>12, <2>1 DEF D4Run, In, At, IInv, TasksOK, Fine, Placed, Seen
  <2> QED
    BY <2>1, <2>2, <2>3, MoveTask
<1>13. ASSUME NEW t \in Tasks, D4AgentWrites(t) PROVE TasksOK'
  BY <1>13, SameTasks DEF D4AgentWrites
<1>14. ASSUME NEW t \in Tasks, D4Succeeded(t) PROVE TasksOK'
  BY <1>14, ReturnTask DEF D4Succeeded, In, At, Transition, Escalate
<1>15. ASSUME NEW t \in Tasks, D4Failed(t) PROVE TasksOK'
  BY <1>15, ReturnTask DEF D4Failed, In, At, Transition, Escalate
<1>16. ASSUME NEW t \in Tasks, D45Mockup(t) PROVE TasksOK'
  BY <1>16, ReturnTask DEF D45Mockup, In, At, Transition, Escalate
<1>17. ASSUME NEW t \in Tasks, D5PostValidate(t) PROVE TasksOK'
  BY <1>17, ReturnTask DEF D5PostValidate, In, At, Transition, LoopOrEscalate, Escalate
<1>18. ASSUME NEW t \in Tasks, D6Check(t) PROVE TasksOK'
  <2>1. CASE output[Slug(W(t))] = None \/ docs[Slug(W(t))] # None
    BY <1>18, <2>1, DropTask DEF D6Check, End
  <2>2. CASE output[Slug(W(t))] # None /\ docs[Slug(W(t))] = None
    <3> DEFINE r == [tasks[t] EXCEPT !.pc = "put", !.text = output[Slug(W(t))]]
    <3>1. W(t) \in Works /\ Begun(W(t)) /\ Slug(W(t)) \in Slugs
      BY <1>18, BeganTask DEF D6Check, In, At, IInv, RowsOK
    <3>2. tasks[t] \in TaskType /\ output[Slug(W(t))] \in Text
          /\ Seen(t).state = "PERSIST"
      BY <1>18, <2>2, <3>1 DEF D6Check, In, Seen, IInv, TasksOK, FilesOK
    <3>3. [tasks[t] EXCEPT !.text = output[Slug(W(t))]] \in TaskType
      BY <3>2 DEF TaskType
    <3>4. r \in TaskType /\ r.pc = "put" /\ r.w = W(t) /\ r.text # None /\ Placed(r)
      BY <2>2, <3>2, <3>3 DEF TaskType, W, Placed, Seen
    <3>5. tasks' = [tasks EXCEPT ![t] = r]
      BY <1>18, <2>2 DEF D6Check, IInv, TasksOK
    <3>6. Fine(t)'
      BY <3>1, <3>4, <3>5 DEF Fine, W, RowsKept, IInv, TasksOK, Begun
    <3> QED
      BY <3>4, <3>5, <3>6, SetTask
  <2> QED
    BY <2>1, <2>2
<1>19. ASSUME NEW t \in Tasks, D6Put(t) PROVE TasksOK'
  <2> DEFINE r == [tasks[t] EXCEPT !.pc = "insert"]
  <2>1. r \in TaskType /\ r.pc = "insert" /\ r.w = W(t) /\ r.text = tasks[t].text
        /\ r.row = tasks[t].row
    BY DEF IInv, TasksOK, TaskType, W
  <2>2. tasks' = [tasks EXCEPT ![t] = r] /\ tasks[t].pc = "put"
    BY <1>19 DEF D6Put, At, Goto, IInv, TasksOK
  <2>3. W(t) \in Works /\ Begun(W(t)) /\ tasks[t].text # None
    BY <2>2 DEF IInv, TasksOK, Fine
  <2>4. Fine(t)'
    BY <2>1, <2>2, <2>3 DEF Fine, Placed, W, RowsKept, IInv, TasksOK, Begun
  <2> QED
    BY <2>1, <2>2, <2>4, SetTask
<1>20. ASSUME NEW t \in Tasks, D6Insert(t) PROVE TasksOK'
  <2>1. CASE docs[Slug(W(t))] # None
    BY <1>20, <2>1, DropTask DEF D6Insert, End
  <2>2. CASE docs[Slug(W(t))] = None
    <3> DEFINE r == [tasks[t] EXCEPT !.pc = "publish"]
    <3>1. r \in TaskType /\ r.pc = "publish" /\ r.w = W(t) /\ r.row = tasks[t].row
      BY DEF IInv, TasksOK, TaskType, W
    <3>2. tasks' = [tasks EXCEPT ![t] = r] /\ tasks[t].pc = "insert"
      BY <1>20, <2>2 DEF D6Insert, At, Goto, IInv, TasksOK
    <3>3. W(t) \in Works /\ Begun(W(t)) /\ Slug(W(t)) \in Slugs /\ W(t)' = W(t)
      BY <3>1, <3>2, BeganTask DEF IInv, RowsOK, TasksOK, W
    <3>4. Begun(W(t))' /\ Slug(W(t))' = Slug(W(t))
      BY <3>3 DEF RowsKept, Begun, Slug
    <3>5. docs'[Slug(W(t))] # None /\ docs'[Slug(W(t))].by = W(t)
      <4>1. docs' = [docs EXCEPT ![Slug(W(t))] =
                            [text |-> tasks[t].text, by |-> W(t), status |-> "draft"]]
        BY <1>20, <2>2 DEF D6Insert
      <4>2. docs'[Slug(W(t))] = [text |-> tasks[t].text, by |-> W(t), status |-> "draft"]
        BY <3>3, <4>1 DEF IInv, FilesOK
      <4>3. docs'[Slug(W(t))] \in DocType
        BY <3>2, <3>3, <4>2 DEF IInv, TasksOK, TaskType, Fine, DocType
      <4>4. docs'[Slug(W(t))] # None
        BY <4>3, DesignWorkAssumption
      <4> QED
        BY <4>2, <4>4
    <3>6. Fine(t)'
      BY <3>1, <3>2, <3>3, <3>4, <3>5 DEF Fine, Placed, IInv, TasksOK
    <3> QED
      BY <3>1, <3>2, <3>6, SetTask
  <2> QED
    BY <2>1, <2>2
<1>21. ASSUME NEW t \in Tasks, D6Publish(t) PROVE TasksOK'
  <2> DEFINE r == [tasks[t] EXCEPT !.pc = "complete"]
  <2>1. r \in TaskType /\ r.pc = "complete" /\ r.w = W(t) /\ r.row = tasks[t].row
    BY DEF IInv, TasksOK, TaskType, W
  <2>2. tasks' = [tasks EXCEPT ![t] = r] /\ tasks[t].pc = "publish"
    BY <1>21 DEF D6Publish, At, Goto, IInv, TasksOK
  <2>3. W(t) \in Works /\ Begun(W(t)) /\ Slug(W(t)) \in Slugs /\ W(t)' = W(t)
        /\ docs[Slug(W(t))] # None /\ docs[Slug(W(t))].by = W(t)
    BY <2>1, <2>2, BeganTask DEF IInv, RowsOK, TasksOK, W, Fine
  <2>4. Begun(W(t))' /\ Slug(W(t))' = Slug(W(t)) /\ (Exists(W(t))' => Exists(W(t)))
    BY <2>3 DEF RowsKept, Begun, Slug, Exists
  <2>5. docs'[Slug(W(t))] # None /\ docs'[Slug(W(t))].by = W(t)
    BY <2>3 DEF DocsKept
  <2>6. docs'[Slug(W(t))].status = "published"
    BY <1>21, <2>3 DEF D6Publish, IInv, FilesOK, DocType
  <2>7. Exists(W(t)) => rows'[W(t)].doc
    BY <1>21, <2>3 DEF D6Publish, Update, IInv, RowsOK, RowType
  <2>8. Fine(t)'
    BY <2>1, <2>2, <2>3, <2>4, <2>5, <2>6, <2>7 DEF Fine, Placed, IInv, TasksOK
  <2> QED
    BY <2>1, <2>2, <2>8, SetTask
<1>22. ASSUME NEW t \in Tasks, D6Complete(t) PROVE TasksOK'
  BY <1>22, ReturnTask DEF D6Complete, In, At, Transition, Escalate
<1>23. ASSUME NEW t \in Tasks, NEW w \in Works, RequestTick(t, w) PROVE TasksOK'
  <2> DEFINE r == [NoTask EXCEPT !.pc = "handler", !.w = w, !.row = Snap(w)]
  <2>1. Snap(w) \in SnapType /\ Begun(w) /\ Begun(w)'
    BY <1>23, SnapTyped DEF RequestTick, Exists, IInv, RowsOK, Begun, RowsKept
  <2>2. [NoTask EXCEPT !.pc = "handler"] \in TaskType
    BY NoTaskIs DEF TaskType
  <2>3. [NoTask EXCEPT !.pc = "handler", !.w = w] \in TaskType
    BY <2>2 DEF TaskType
  <2>4. r \in TaskType /\ r.pc = "handler" /\ r.w = w /\ Placed(r)
    BY <2>1, <2>3 DEF TaskType, Placed
  <2>5. tasks' = [tasks EXCEPT ![t] = r]
    BY <1>23 DEF RequestTick
  <2>6. Fine(t)'
    BY <2>1, <2>4, <2>5 DEF Fine, W, IInv, TasksOK
  <2> QED
    BY <2>4, <2>5, <2>6, SetTask
<1>24. ASSUME NEW c \in Clients, NEW w \in Works, Create(c, w) PROVE TasksOK'
  BY <1>24, SameTasks DEF Create
<1>25. ASSUME NEW c \in Clients, NEW w \in Works, CancelRead(c, w) PROVE TasksOK'
  BY <1>25, SameTasks DEF CancelRead
<1>26. ASSUME NEW c \in Clients, NEW w \in Works, RerunRead(c, w) PROVE TasksOK'
  BY <1>26, SameTasks DEF RerunRead
<1>27. ASSUME NEW c \in Clients, NEW w \in Works, DeleteRead(c, w) PROVE TasksOK'
  BY <1>27, SameTasks DEF DeleteRead
<1>28. ASSUME NEW c \in Clients, NEW source \in Works, NEW w \in Works, Retry(c, source, w)
       PROVE  TasksOK'
  BY <1>28, SameTasks DEF Retry
<1>29. ASSUME NEW c \in Clients, Schedule(c) PROVE TasksOK'
  <2>1. Of(c) \in Works /\ Begun(Of(c))
    BY <1>29, BeganCall DEF Schedule, CallAt, IInv
  <2> QED
    BY <1>29, <2>1, StartDriver, SameTasks DEF Schedule
<1>30. ASSUME NEW c \in Clients, CancelWrite(c) PROVE TasksOK'
  BY <1>30, SameTasks DEF CancelWrite
<1>31. ASSUME NEW c \in Clients, CancelKill(c) PROVE TasksOK'
  <2>1. ASSUME NEW u \in Tasks PROVE tasks'[u] \in TaskType /\ Fine(u)'
    <3>1. CASE running[Of(c)] = u
      BY <1>31, <3>1, NoTaskIs DEF CancelKill, Fine
    <3>2. CASE running[Of(c)] # u
      BY <1>31, <3>2, KeptFine DEF CancelKill, IInv, TasksOK
    <3> QED
      BY <3>1, <3>2
  <2>2. tasks' = [u \in Tasks |-> tasks'[u]]
    BY <1>31 DEF CancelKill
  <2> QED
    BY <2>1, <2>2 DEF TasksOK
<1>32. ASSUME NEW c \in Clients, RerunWrite(c) PROVE TasksOK'
  BY <1>32, SameTasks DEF RerunWrite
<1>33. ASSUME NEW c \in Clients, DeleteFiles(c) PROVE TasksOK'
  BY <1>33, SameTasks DEF DeleteFiles
<1>34. ASSUME NEW c \in Clients, DeleteRows(c) PROVE TasksOK'
  BY <1>34, SameTasks DEF DeleteRows
<1>35. CASE Crash
  BY <1>35, NoTaskIs DEF Crash, TasksOK, Fine
<1>36. ASSUME NEW w \in Works, LateWrite(w) PROVE TasksOK'
  BY <1>36, SameTasks DEF LateWrite
<1>37. ASSUME NEW w \in Works, PromptLost(w) PROVE TasksOK'
  BY <1>37, SameTasks DEF PromptLost
<1>38. CASE UNCHANGED vars
  BY <1>38, SameTasks DEF vars
<1> QED
  BY <1>1, <1>2, <1>3, <1>4, <1>5, <1>6, <1>7, <1>8, <1>9, <1>10, <1>11, <1>12, <1>13,
     <1>14, <1>15, <1>16, <1>17, <1>18, <1>19, <1>20, <1>21, <1>22, <1>23, <1>24,
     <1>25, <1>26, <1>27, <1>28, <1>29, <1>30, <1>31, <1>32, <1>33, <1>34, <1>35,
     <1>36, <1>37, <1>38
  DEF Next, Handler, Call

(* A task touches no call and no orphaned agent, and what it does to the   *)
(* register is to leave it or take a name out of it.                       *)
LEMMA TaskKeeps ==
    ASSUME RestOK, NEW t \in Tasks, Get(t) \/ Handler(t)
    PROVE  UNCHANGED <<calls, agents, spent>>
    /\ running' \in [Works -> Tasks \cup {None}]
  BY DEF RestOK, Get, Handler, Noop, D0Init, D1ModeBranch, D2PreValidate, D3PutPrompt,
     D3ReadGates, D3WriteGates, D3Transition, D4Redo, D4Recovered, D4Run, D4AgentWrites,
     D4Succeeded, D4Failed, D45Mockup, D5PostValidate, D6Check, D6Put, D6Insert, D6Publish,
     D6Complete, End

(* A call that a step leaves alone is still about a DesignWork.            *)
LEMMA KeptPosed ==
    ASSUME IInv, RowsKept, NEW u \in Clients, calls'[u] = calls[u]
    PROVE  Posed(u)'
  BY DEF IInv, CallsOK, Posed, Of, RowsKept, Begun

(* A step of none of the calls.                                            *)
LEMMA SameCalls == IInv /\ RowsKept /\ calls' = calls => CallsOK'
  BY KeptPosed DEF IInv, CallsOK

(* A step of one call.                                                     *)
LEMMA SetCall ==
    ASSUME IInv, RowsKept, NEW c \in Clients, NEW r \in CallType,
           calls' = [calls EXCEPT ![c] = r], Posed(c)'
    PROVE  CallsOK'
<1>1. ASSUME NEW u \in Clients PROVE Posed(u)'
  <2>1. CASE u = c
    BY <2>1
  <2>2. CASE u # c
    BY <2>2, KeptPosed DEF IInv, CallsOK
  <2> QED
    BY <2>1, <2>2
<1> QED
  BY <1>1 DEF CallsOK, IInv

(* An empty slot for calls.                                                *)
LEMMA NoCallIs == NoCall \in CallType /\ NoCall.pc = "idle"
  BY NoTaskIs DEF NoCall, CallType

(* The end of one call.                                                    *)
LEMMA DropCall ==
    ASSUME IInv, RowsKept, NEW c \in Clients, Done(c)
    PROVE  CallsOK'
  BY SetCall, NoCallIs DEF Done, Posed, IInv, CallsOK

(* A call that has read its row.                                           *)
LEMMA AskCall ==
    ASSUME IInv, RowsKept, NEW c \in Clients, NEW w \in Works, Begun(w)',
           NEW pc \in {"schedule", "cancel", "rerun", "delete"}, Ask(c, pc, w),
           pc = "cancel" => rows[w].state \in Active
    PROVE  CallsOK'
<1> DEFINE r == [pc |-> pc, w |-> w, row |-> Snap(w)]
<1>1. r \in CallType /\ r.w = w /\ r.pc = pc /\ r.row.state = rows[w].state
  BY SnapTyped DEF IInv, RowsOK, CallType
<1>2. Posed(c)'
  BY <1>1 DEF Ask, Posed, Of, IInv, CallsOK
<1> QED
  BY <1>1, <1>2, SetCall DEF Ask

(* A call that goes on.                                                    *)
LEMMA MoveCall ==
    ASSUME IInv, RowsKept, NEW c \in Clients, calls[c].pc # "idle",
           NEW pc \in {"kill", "schedule", "delete_rows"},
           calls' = [calls EXCEPT ![c].pc = pc]
    PROVE  CallsOK'
<1> DEFINE r == [calls[c] EXCEPT !.pc = pc]
<1>1. r \in CallType /\ r.w = Of(c) /\ r.pc = pc /\ calls' = [calls EXCEPT ![c] = r]
  BY DEF IInv, CallsOK, CallType, Of
<1>2. Of(c) \in Works /\ Begun(Of(c)) /\ Of(c)' = Of(c)
  BY <1>1, BeganCall DEF IInv, CallsOK, Of
<1>3. Begun(Of(c))'
  BY <1>2 DEF RowsKept, Begun
<1>4. Posed(c)'
  BY <1>1, <1>2, <1>3 DEF Posed, Of, IInv, CallsOK
<1> QED
  BY <1>1, <1>4, SetCall

(* Every step keeps the calls posed.                                       *)
LEMMA CallsStep == IInv /\ RowsKept /\ [Next]_vars => CallsOK'
<1> SUFFICES ASSUME IInv, RowsKept, [Next]_vars PROVE CallsOK'
  OBVIOUS
<1>1. ASSUME NEW t \in Tasks, Get(t) \/ Handler(t) PROVE CallsOK'
  BY <1>1, TaskKeeps, SameCalls DEF IInv
<1>2. ASSUME NEW t \in Tasks, NEW w \in Works, RequestTick(t, w) PROVE CallsOK'
  BY <1>2, SameCalls DEF RequestTick
<1>3. ASSUME NEW c \in Clients, NEW w \in Works, Create(c, w) PROVE CallsOK'
  <2>1. PICK s \in Slugs, optimize \in BOOLEAN :
           rows' = [rows EXCEPT ![w] = NewRow(s, optimize)]
    BY <1>3 DEF Create
  <2>2. Begun(w)'
    BY <2>1, NewRowIs DEF Begun, IInv, RowsOK
  <2> QED
    BY <1>3, <2>2, AskCall DEF Create
<1>4. ASSUME NEW c \in Clients, NEW w \in Works, CancelRead(c, w) PROVE CallsOK'
  <2>1. Begun(w)'
    BY <1>4, ActiveIs DEF CancelRead, Begun, Deletable
  <2> QED
    BY <1>4, <2>1, AskCall DEF CancelRead
<1>5. ASSUME NEW c \in Clients, NEW w \in Works, RerunRead(c, w) PROVE CallsOK'
  <2>1. Begun(w)'
    BY <1>5, ActiveIs DEF RerunRead, Begun, Deletable
  <2> QED
    BY <1>5, <2>1, AskCall DEF RerunRead
<1>6. ASSUME NEW c \in Clients, NEW w \in Works, DeleteRead(c, w) PROVE CallsOK'
  <2>1. Begun(w)'
    BY <1>6, ActiveIs DEF DeleteRead, Begun, Deletable
  <2> QED
    BY <1>6, <2>1, AskCall DEF DeleteRead
<1>7. ASSUME NEW c \in Clients, NEW source \in Works, NEW w \in Works, Retry(c, source, w)
      PROVE  CallsOK'
  <2>1. Slug(source) \in Slugs
    BY <1>7 DEF Retry, IInv, RowsOK, Begun
  <2>2. Begun(w)'
    BY <1>7, <2>1, NewRowIs DEF Retry, Begun, IInv, RowsOK
  <2> QED
    BY <1>7, <2>2, AskCall DEF Retry
<1>8. ASSUME NEW c \in Clients, Schedule(c) PROVE CallsOK'
  BY <1>8, DropCall DEF Schedule
<1>9. ASSUME NEW c \in Clients, CancelWrite(c) PROVE CallsOK'
  BY <1>9, DropCall, MoveCall DEF CancelWrite, CallAt
<1>10. ASSUME NEW c \in Clients, CancelKill(c) PROVE CallsOK'
  BY <1>10, DropCall DEF CancelKill
<1>11. ASSUME NEW c \in Clients, RerunWrite(c) PROVE CallsOK'
  BY <1>11, DropCall, MoveCall DEF RerunWrite, CallAt
<1>12. ASSUME NEW c \in Clients, DeleteFiles(c) PROVE CallsOK'
  BY <1>12, DropCall, MoveCall DEF DeleteFiles, CallAt
<1>13. ASSUME NEW c \in Clients, DeleteRows(c) PROVE CallsOK'
  BY <1>13, DropCall DEF DeleteRows
<1>14. CASE Crash
  BY <1>14, NoCallIs DEF Crash, CallsOK, Posed
<1>15. ASSUME NEW w \in Works, LateWrite(w) PROVE CallsOK'
  BY <1>15, SameCalls DEF LateWrite
<1>16. ASSUME NEW w \in Works, PromptLost(w) PROVE CallsOK'
  BY <1>16, SameCalls DEF PromptLost
<1>17. CASE UNCHANGED vars
  BY <1>17, SameCalls DEF vars
<1> QED
  BY <1>1, <1>2, <1>3, <1>4, <1>5, <1>6, <1>7, <1>8, <1>9, <1>10, <1>11, <1>12, <1>13,
     <1>14, <1>15, <1>16, <1>17
  DEF Next, Call

(* Orphaned agents stay those of DesignWorks that have begun.              *)
LEMMA AgentsKept == RestOK /\ RowsKept => \A w \in agents : w \in Works /\ Begun(w)'
  BY DEF RestOK, RowsKept, Begun

(* What operators and restarts do stays within the bound, and neither      *)
(* ticks nor writes late.                                                  *)
LEMMA EventTyped == RestOK /\ Event =>
    /\ spent' \in [events : 0..MaxEvents, ticked : BOOLEAN, late : BOOLEAN]
    /\ spent'.ticked = spent.ticked /\ spent'.late = spent.late
<1> SUFFICES ASSUME RestOK, Event
             PROVE  /\ spent' \in [events : 0..MaxEvents, ticked : BOOLEAN, late : BOOLEAN]
                    /\ spent'.ticked = spent.ticked /\ spent'.late = spent.late
  OBVIOUS
<1>1. spent.events + 1 \in 0..MaxEvents
      /\ spent' = [spent EXCEPT !.events = spent.events + 1]
  BY DesignWorkAssumption DEF RestOK, Event
<1> QED
  BY <1>1 DEF RestOK

(* Every step keeps the register, the agents and the bounds.               *)
LEMMA RestStep == IInv /\ RowsKept /\ [Next]_vars => RestOK'
<1> SUFFICES ASSUME IInv, RowsKept, [Next]_vars PROVE RestOK'
  OBVIOUS
<1> USE DEF IInv, RestOK
<1>1. ASSUME NEW t \in Tasks, Get(t) \/ Handler(t) PROVE RestOK'
  BY <1>1, TaskKeeps, AgentsKept
<1>2. ASSUME NEW t \in Tasks, NEW w \in Works, RequestTick(t, w) PROVE RestOK'
  <2>1. spent.events + 1 \in 0..MaxEvents
    BY <1>2, DesignWorkAssumption DEF RequestTick
  <2>2. [spent EXCEPT !.events = spent.events + 1]
           \in [events : 0..MaxEvents, ticked : BOOLEAN, late : BOOLEAN]
    BY <2>1
  <2> QED
    BY <1>2, <2>2, AgentsKept DEF RequestTick
<1>3. ASSUME NEW c \in Clients, NEW w \in Works, Create(c, w) PROVE RestOK'
  BY <1>3, AgentsKept DEF Create
<1>4. ASSUME NEW c \in Clients, NEW w \in Works, CancelRead(c, w) PROVE RestOK'
  BY <1>4, AgentsKept, EventTyped DEF CancelRead
<1>5. ASSUME NEW c \in Clients, NEW w \in Works, RerunRead(c, w) PROVE RestOK'
  BY <1>5, AgentsKept, EventTyped DEF RerunRead
<1>6. ASSUME NEW c \in Clients, NEW w \in Works, DeleteRead(c, w) PROVE RestOK'
  BY <1>6, AgentsKept, EventTyped DEF DeleteRead
<1>7. ASSUME NEW c \in Clients, NEW source \in Works, NEW w \in Works, Retry(c, source, w)
      PROVE  RestOK'
  BY <1>7, AgentsKept DEF Retry
<1>8. ASSUME NEW c \in Clients, Schedule(c) PROVE RestOK'
  BY <1>8, AgentsKept DEF Schedule
<1>9. ASSUME NEW c \in Clients, CancelWrite(c) PROVE RestOK'
  BY <1>9, AgentsKept DEF CancelWrite
<1>10. ASSUME NEW c \in Clients, CancelKill(c) PROVE RestOK'
  <2> DEFINE gone == {running[Of(c)]} \cap Tasks
  <2>1. \A t \in gone : At(t, "llm") => W(t) \in Works /\ Begun(W(t))
    BY BeganTask DEF At
  <2>2. Orphans(gone) \subseteq Works /\ \A w \in Orphans(gone) : Begun(w)
    BY <2>1 DEF Orphans
  <2>3. agents' \subseteq Works /\ \A w \in agents' : Begun(w)'
    BY <1>10, <2>2 DEF CancelKill, RowsKept, Begun
  <2> QED
    BY <1>10, <2>3 DEF CancelKill
<1>11. ASSUME NEW c \in Clients, RerunWrite(c) PROVE RestOK'
  BY <1>11, AgentsKept DEF RerunWrite
<1>12. ASSUME NEW c \in Clients, DeleteFiles(c) PROVE RestOK'
  BY <1>12, AgentsKept DEF DeleteFiles
<1>13. ASSUME NEW c \in Clients, DeleteRows(c) PROVE RestOK'
  BY <1>13, AgentsKept DEF DeleteRows
<1>14. CASE Crash
  <2>1. \A t \in Tasks : At(t, "llm") => W(t) \in Works /\ Begun(W(t))
    BY BeganTask DEF At
  <2>2. Orphans(Tasks) \subseteq Works /\ \A w \in Orphans(Tasks) : Begun(w)
    BY <2>1 DEF Orphans
  <2>3. agents' \subseteq Works /\ \A w \in agents' : Begun(w)'
    BY <1>14, <2>2 DEF Crash, RowsKept, Begun
  <2> QED
    BY <1>14, <2>3, EventTyped DEF Crash
<1>15. ASSUME NEW w \in Works, LateWrite(w) PROVE RestOK'
  BY <1>15, AgentsKept DEF LateWrite
<1>16. ASSUME NEW w \in Works, PromptLost(w) PROVE RestOK'
  BY <1>16, AgentsKept, EventTyped DEF PromptLost
<1>17. CASE UNCHANGED vars
  BY <1>17, AgentsKept DEF vars
<1> QED
  BY <1>1, <1>2, <1>3, <1>4, <1>5, <1>6, <1>7, <1>8, <1>9, <1>10, <1>11, <1>12, <1>13,
     <1>14, <1>15, <1>16, <1>17
  DEF Next, Call

(* The invariant is inductive: together, the four lemmas on rows, files,   *)
(* tasks and calls, and the rest.                                          *)
LEMMA IStep == IInv /\ [Next]_vars => IInv' /\ RowsKept /\ DocsKept
  BY RowsStep, FilesStep, TasksStep, CallsStep, RestStep DEF IInv

(* It holds before the first DesignWork is created.                        *)
LEMMA IInit == Init => IInv
<1> SUFFICES ASSUME Init PROVE IInv
  OBVIOUS
<1>1. RowsOK
  <2>1. NoRow \in RowType /\ NoRow.state = "NONE" /\ NoRow.slug = None
    BY DesignWorkAssumption DEF NoRow, RowType
  <2> QED
    BY <2>1, DesignWorkAssumption DEF Init, RowsOK, Begun, Slug
<1>2. FilesOK
  BY DEF Init, FilesOK
<1>3. TasksOK
  BY NoTaskIs DEF Init, TasksOK, Fine
<1>4. CallsOK
  BY NoCallIs DEF Init, CallsOK, Posed
<1>5. RestOK
  BY DesignWorkAssumption DEF Init, RestOK
<1> QED
  BY <1>1, <1>2, <1>3, <1>4, <1>5 DEF IInv

(* It holds throughout: whatever tasks, requests to /tick, calls, restarts *)
(* and orphaned agents do to the rows, files and documents of              *)
(* design_work_sm.py.                                                      *)
THEOREM Invariance == Spec => []IInv
<1>1. Init => IInv
  BY IInit
<1>2. IInv /\ [Next]_vars => IInv'
  BY IStep
<1> QED
  BY <1>1, <1>2, PTL DEF Spec

(* Rows, files, documents, the register, tasks and calls keep their types, *)
(* for any number of DesignWorks, slugs, tasks and calls.                  *)
THEOREM TypeCorrect == Spec => []TypeOK
<1>1. IInv => TypeOK
  BY DEF IInv, TypeOK, RowsOK, FilesOK, TasksOK, CallsOK, RestOK
<1> QED
  BY <1>1, Invariance, PTL

(* Inside a handler of the state machine.                                  *)
Working(t) == tasks[t].pc \notin {"off", "get"}

(* A handler that returns touches its own task only, which is then in no   *)
(* handler.                                                                *)
LEMMA ReturnStops ==
    ASSUME TasksOK, NEW t \in Tasks, W(t) \in Works, Return(t)
    PROVE  /\ ~Working(t)' /\ \A u \in Tasks \ {t} : tasks'[u] = tasks[u]
           /\ IF tasks[t].driver THEN tasks'[t] = NewDriver(W(t)) ELSE tasks'[t] = NoTask
  BY NewDriverIs, NoTaskIs DEF Return, Returned, TasksOK, Working

(* The edges of the state diagram that tick() follows by _transition.      *)
Edges == {<<"INIT", "MODE_BRANCH">>, <<"MODE_BRANCH", "PRE_VALIDATE">>,
    <<"PRE_VALIDATE", "PROMPT_COMPOSE">>, <<"PROMPT_COMPOSE", "LLM_GENERATE">>,
    <<"LLM_GENERATE", "PROMPT_COMPOSE">>, <<"LLM_GENERATE", "MOCKUP">>,
    <<"LLM_GENERATE", "POST_VALIDATE">>, <<"MOCKUP", "POST_VALIDATE">>,
    <<"POST_VALIDATE", "PERSIST">>}

(* Loop count and origin of a cancel stay; so does the state in Same.      *)
Keeps(w) == rows'[w].loop = rows[w].loop /\ rows'[w].from = rows[w].from
Same(w) == rows'[w].state = rows[w].state /\ Keeps(w)

(* How a task writes its row.  _transition: the state still is the one it  *)
(* has read, and POST_VALIDATE goes to PERSIST only if the file passes the *)
(* validator at that moment.                                               *)
Advances(t, w) == /\ At(t, "handler") \/ At(t, "composed") \/ At(t, "llm")
                  /\ rows[w].state = Seen(t).state
                  /\ <<Seen(t).state, rows'[w].state>> \in Edges /\ Keeps(w)
                  /\ rows'[w].state = "PERSIST" =>
                         Passes(output[Slug(w)]) /\ output' = output /\ ~Working(t)'

(* _update_gates_field: the origin it read back, over whatever is there.   *)
Regates(t, w) == /\ At(t, "write_gates")
                 /\ rows'[w].state = rows[w].state /\ rows'[w].loop = rows[w].loop
                 /\ rows'[w].from = Seen(t).from

(* An escalation, which compares no state; D6 has none.                    *)
GivesUp(t, w) == /\ At(t, "handler") \/ At(t, "llm")
                 /\ Seen(t).state # "PERSIST"
                 /\ rows'[w].state = "ESCALATED" /\ Keeps(w)

(* Another loop, counted from the loop that the task has read.             *)
Loops(t, w) == /\ In(t, "POST_VALIDATE") /\ rows'[w].state = "PROMPT_COMPOSE"
               /\ rows'[w].loop = Seen(t).loop + 1 /\ rows'[w].from = rows[w].from
               /\ ~Working(t)'

(* The end of D6.                                                          *)
Completes(t, w) == At(t, "complete") /\ rows'[w].state = "COMPLETED" /\ Keeps(w)

(* Any of these, by a task of that DesignWork that is in a handler.        *)
TaskMoves(t, w) ==
    /\ Working(t) /\ W(t) = w /\ Exists(w)
    /\ Advances(t, w) \/ Regates(t, w) \/ GivesUp(t, w) \/ Loops(t, w) \/ Completes(t, w)

(* How a call writes its row: the three operator calls.                    *)
Cancels(c, w) == /\ CallAt(c, "cancel") /\ rows[w].state \in Active
                 /\ rows'[w].state = "CANCELLED" /\ rows'[w].from = calls[c].row.state
                 /\ rows'[w].loop = rows[w].loop
Reruns(c, w) == /\ CallAt(c, "rerun") /\ rows[w].state = "CANCELLED"
                /\ rows'[w].state = ResumeState(calls[c].row) /\ rows'[w].from = None
                /\ rows'[w].loop = rows[w].loop /\ calls'[c].pc = "schedule"
Deletes(c, w) == /\ CallAt(c, "delete_rows")
                 /\ rows'[w].state = "DELETED" /\ rows'[w].from = None

(* Any of these, by a call about that DesignWork.                          *)
CallMoves(c, w) == Of(c) = w /\ (Cancels(c, w) \/ Reruns(c, w) \/ Deletes(c, w))

(* Create or retry.                                                        *)
Born(w) == ~Begun(w) /\ rows'[w].state = "INIT" /\ rows'[w].from = None

(* Nothing else writes state, loop count and origin.                       *)
RowMoves == \A w \in Works :
    \/ Same(w) \/ Born(w)
    \/ \E t \in Tasks : TaskMoves(t, w)
    \/ \E c \in Clients : CallMoves(c, w)

(* An UPDATE changes its own row and, if that is deleted, nothing.         *)
LEMMA UpdateIs ==
    ASSUME RowsOK, NEW v \in Works, NEW r, Update(v, r)
    PROVE  /\ \A w \in Works \ {v} : Same(w)
           /\ Same(v) \/ (Exists(v) /\ rows'[v] = r)
  BY DEF RowsOK, Update, Same, Keeps

(* An UPDATE of other columns changes no state, loop count or origin.      *)
LEMMA KeptUpdate ==
    ASSUME RowsOK, NEW v \in Works, NEW r, Update(v, r),
           r.state = rows[v].state, r.loop = rows[v].loop, r.from = rows[v].from
    PROVE  \A w \in Works : Same(w)
<1>1. (\A w \in Works \ {v} : Same(w)) /\ (Same(v) \/ rows'[v] = r)
  BY UpdateIs
<1>2. rows'[v] = r => Same(v)
  BY DEF Same, Keeps
<1> QED
  BY <1>1, <1>2

(* The UPDATE of the state keeps loop count and origin.                    *)
LEMMA SetStateIs ==
    ASSUME RowsOK, NEW v \in Works, NEW s, SetState(v, s)
    PROVE  /\ \A w \in Works \ {v} : Same(w)
           /\ Same(v) \/ (Exists(v) /\ rows'[v].state = s /\ Keeps(v))
<1>1. rows[v] \in RowType
  BY DEF RowsOK
<1>2. LET r == [rows[v] EXCEPT !.state = s] IN
      r.state = s /\ r.loop = rows[v].loop /\ r.from = rows[v].from
  BY <1>1 DEF RowType
<1> QED
  BY <1>2, UpdateIs DEF SetState, Keeps

(* _transition writes only when the state is the one the task has read.    *)
LEMMA TransitionIs ==
    ASSUME RowsOK, NEW t \in Tasks, W(t) \in Works, NEW to, Transition(t, to)
    PROVE  /\ \A w \in Works \ {W(t)} : Same(w)
           /\ \/ Same(W(t))
              \/ /\ Exists(W(t)) /\ rows[W(t)].state = Seen(t).state
                 /\ rows'[W(t)].state = to /\ Keeps(W(t))
<1>1. CASE rows' = rows
  BY <1>1 DEF Same, Keeps
<1>2. CASE rows[W(t)].state = Seen(t).state /\ SetState(W(t), to)
  BY <1>2, SetStateIs
<1> QED
  BY <1>1, <1>2 DEF Transition

(* _loop_or_escalate writes the loop count it has read plus one, or        *)
(* escalates.                                                              *)
LEMMA LoopIs ==
    ASSUME RowsOK, NEW t \in Tasks, W(t) \in Works, LoopOrEscalate(t)
    PROVE  /\ \A w \in Works \ {W(t)} : Same(w)
           /\ \/ Same(W(t))
              \/ Exists(W(t)) /\ rows'[W(t)].state = "ESCALATED" /\ Keeps(W(t))
              \/ /\ Exists(W(t)) /\ rows'[W(t)].state = "PROMPT_COMPOSE"
                 /\ rows'[W(t)].loop = Seen(t).loop + 1 /\ rows'[W(t)].from = rows[W(t)].from
<1> DEFINE r == [rows[W(t)] EXCEPT !.loop = Seen(t).loop + 1, !.state = "PROMPT_COMPOSE"]
<1>1. rows[W(t)] \in RowType
  BY DEF RowsOK
<1>2. r.state = "PROMPT_COMPOSE" /\ r.loop = Seen(t).loop + 1
      /\ r.from = rows[W(t)].from
  BY <1>1 DEF RowType
<1>3. CASE SetState(W(t), "ESCALATED")
  BY <1>3, SetStateIs
<1>4. CASE Update(W(t), r)
  BY <1>2, <1>4, UpdateIs
<1> QED
  BY <1>3, <1>4 DEF LoopOrEscalate, Escalate

(* Writing a file changes no state, loop count or origin.                  *)
LEMMA WriteIs ==
    ASSUME RowsOK, NEW s, NEW text, Write(s, text)
    PROVE  \A w \in Works : Same(w)
  BY DEF RowsOK, RowType, Write, Same, Keeps

(* Rows untouched do not move.                                             *)
LEMMA SameMoves == rows' = rows => \A w \in Works : Same(w)
  BY DEF Same, Keeps

(* Every step of the system moves a row in one of these ways.              *)
LEMMA HowRowsMove == IInv /\ [Next]_vars => RowMoves
<1> SUFFICES ASSUME IInv, [Next]_vars PROVE RowMoves
  OBVIOUS
<1> USE DEF IInv, RowsOK, RowMoves
<1>1. ASSUME NEW t \in Tasks, Get(t) PROVE RowMoves
  BY <1>1, SameMoves DEF Get
<1>2. ASSUME NEW t \in Tasks, Noop(t) PROVE RowMoves
  BY <1>2, SameMoves DEF Noop
<1>3. ASSUME NEW t \in Tasks, D0Init(t) PROVE RowMoves
  <2>1. W(t) \in Works /\ Placed(tasks[t])
    BY <1>3, BeganTask DEF D0Init, In, At, TasksOK, Fine
  <2> QED
    BY <1>3, <2>1, TransitionIs DEF D0Init, In, At, AfterLLM, TaskMoves, Advances,
       Edges, Working, Placed, Seen
<1>4. ASSUME NEW t \in Tasks, D1ModeBranch(t) PROVE RowMoves
  <2>1. W(t) \in Works
    BY <1>4, BeganTask DEF D1ModeBranch, In, At
  <2> QED
    BY <1>4, <2>1, TransitionIs, SetStateIs
    DEF D1ModeBranch, In, At, Escalate, TaskMoves, Advances, GivesUp, Edges, Working, Seen
<1>5. ASSUME NEW t \in Tasks, D2PreValidate(t) PROVE RowMoves
  <2>1. W(t) \in Works
    BY <1>5, BeganTask DEF D2PreValidate, In, At
  <2> QED
    BY <1>5, <2>1, TransitionIs, SetStateIs
    DEF D2PreValidate, In, At, Escalate, TaskMoves, Advances, GivesUp, Edges, Working, Seen
<1>6. ASSUME NEW t \in Tasks, D3PutPrompt(t) PROVE RowMoves
  <2> DEFINE r == [rows[W(t)] EXCEPT !.file = "newer"]
  <2>1. W(t) \in Works
    BY <1>6, BeganTask DEF D3PutPrompt, In, At
  <2>2. r.state = rows[W(t)].state /\ r.loop = rows[W(t)].loop
        /\ r.from = rows[W(t)].from
    BY <2>1 DEF RowsOK, RowType
  <2>3. CASE UNCHANGED rows
    BY <1>6, <2>3, SameMoves DEF D3PutPrompt
  <2>4. CASE Update(W(t), r)
    BY <1>6, <2>1, <2>2, <2>4, KeptUpdate DEF D3PutPrompt
  <2> QED
    BY <1>6, <2>3, <2>4 DEF D3PutPrompt
<1>7. ASSUME NEW t \in Tasks, D3ReadGates(t) PROVE RowMoves
  BY <1>7, SameMoves DEF D3ReadGates
<1>8. ASSUME NEW t \in Tasks, D3WriteGates(t) PROVE RowMoves
  <2> DEFINE r == [rows[W(t)] EXCEPT !.prompt = TRUE, !.from = Seen(t).from]
  <2>1. W(t) \in Works
    BY <1>8, BeganTask DEF D3WriteGates, At
  <2>2. r.state = rows[W(t)].state /\ r.loop = rows[W(t)].loop /\ r.from = Seen(t).from
    BY <2>1 DEF RowsOK, RowType
  <2>3. \A w \in Works : Same(w) \/ (w = W(t) /\ Exists(w) /\ Regates(t, w))
    BY <1>8, <2>1, <2>2, UpdateIs DEF D3WriteGates, Regates
  <2> QED
    BY <1>8, <2>3 DEF D3WriteGates, At, TaskMoves, Working
<1>9. ASSUME NEW t \in Tasks, D3Transition(t) PROVE RowMoves
  <2>1. W(t) \in Works /\ Placed(tasks[t])
    BY <1>9, BeganTask DEF D3Transition, In, At, TasksOK, Fine
  <2> QED
    BY <1>9, <2>1, TransitionIs DEF D3Transition, In, At, AfterLLM, TaskMoves,
       Advances, Edges, Working, Placed, Seen
<1>10. ASSUME NEW t \in Tasks, D4Redo(t) PROVE RowMoves
  <2>1. W(t) \in Works /\ Placed(tasks[t])
    BY <1>10, BeganTask DEF D4Redo, In, At, TasksOK, Fine
  <2> QED
    BY <1>10, <2>1, TransitionIs DEF D4Redo, In, At, AfterLLM, TaskMoves, Advances,
       Edges, Working, Placed, Seen
<1>11. ASSUME NEW t \in Tasks, D4Recovered(t) PROVE RowMoves
  <2>1. W(t) \in Works /\ Placed(tasks[t])
    BY <1>11, BeganTask DEF D4Recovered, In, At, TasksOK, Fine
  <2> QED
    BY <1>11, <2>1, TransitionIs DEF D4Recovered, In, At, AfterLLM, TaskMoves,
       Advances, Edges, Working, Placed, Seen
<1>12. ASSUME NEW t \in Tasks, D4Run(t) PROVE RowMoves
  BY <1>12, SameMoves DEF D4Run
<1>13. ASSUME NEW t \in Tasks, D4AgentWrites(t) PROVE RowMoves
  BY <1>13, WriteIs DEF D4AgentWrites
<1>14. ASSUME NEW t \in Tasks, D4Succeeded(t) PROVE RowMoves
  <2>1. W(t) \in Works /\ Placed(tasks[t])
    BY <1>14, BeganTask DEF D4Succeeded, In, At, TasksOK, Fine
  <2> QED
    BY <1>14, <2>1, TransitionIs DEF D4Succeeded, In, At, AfterLLM, TaskMoves,
       Advances, Edges, Working, Placed, Seen
<1>15. ASSUME NEW t \in Tasks, D4Failed(t) PROVE RowMoves
  <2>1. W(t) \in Works /\ Placed(tasks[t])
    BY <1>15, BeganTask DEF D4Failed, At, TasksOK, Fine
  <2> QED
    BY <1>15, <2>1, SetStateIs DEF D4Failed, At, Escalate, TaskMoves, GivesUp, Working,
       Placed, Seen
<1>16. ASSUME NEW t \in Tasks, D45Mockup(t) PROVE RowMoves
  <2>1. W(t) \in Works /\ Placed(tasks[t])
    BY <1>16, BeganTask DEF D45Mockup, In, At, TasksOK, Fine
  <2> QED
    BY <1>16, <2>1, TransitionIs DEF D45Mockup, In, At, AfterLLM, TaskMoves, Advances,
       Edges, Working, Placed, Seen
<1>17. ASSUME NEW t \in Tasks, D5PostValidate(t) PROVE RowMoves
  <2>1. W(t) \in Works
    BY <1>17, BeganTask DEF D5PostValidate, In, At
  <2>2. ~Working(t)'
    BY <1>17, <2>1, ReturnStops DEF D5PostValidate, LoopOrEscalate, Escalate, Transition
  <2> QED
    BY <1>17, <2>1, <2>2, TransitionIs, LoopIs
    DEF D5PostValidate, In, At, TaskMoves, Advances, GivesUp, Loops, Edges, Working, Seen
<1>18. ASSUME NEW t \in Tasks, D6Check(t) PROVE RowMoves
  BY <1>18, SameMoves DEF D6Check
<1>19. ASSUME NEW t \in Tasks, D6Put(t) PROVE RowMoves
  BY <1>19, WriteIs DEF D6Put
<1>20. ASSUME NEW t \in Tasks, D6Insert(t) PROVE RowMoves
  BY <1>20, SameMoves DEF D6Insert
<1>21. ASSUME NEW t \in Tasks, D6Publish(t) PROVE RowMoves
  <2> DEFINE r == [rows[W(t)] EXCEPT !.doc = TRUE]
  <2>1. W(t) \in Works
    BY <1>21, BeganTask DEF D6Publish, At
  <2>2. r.state = rows[W(t)].state /\ r.loop = rows[W(t)].loop
        /\ r.from = rows[W(t)].from
    BY <2>1 DEF RowsOK, RowType
  <2> QED
    BY <1>21, <2>1, <2>2, KeptUpdate DEF D6Publish
<1>22. ASSUME NEW t \in Tasks, D6Complete(t) PROVE RowMoves
  <2>1. W(t) \in Works
    BY <1>22, BeganTask DEF D6Complete, At
  <2> QED
    BY <1>22, <2>1, SetStateIs DEF D6Complete, At, TaskMoves, Completes, Working
<1>23. ASSUME NEW t \in Tasks, NEW w \in Works, RequestTick(t, w) PROVE RowMoves
  BY <1>23, SameMoves DEF RequestTick
<1>24. ASSUME NEW c \in Clients, NEW w \in Works, Create(c, w) PROVE RowMoves
  <2>1. PICK s \in Slugs, optimize \in BOOLEAN :
           rows' = [rows EXCEPT ![w] = NewRow(s, optimize)]
    BY <1>24 DEF Create
  <2>2. \A v \in Works : Same(v) \/ Born(v)
    BY <1>24, <2>1, NewRowIs DEF Create, Same, Keeps, Born, Begun
  <2> QED
    BY <2>2
<1>25. ASSUME NEW c \in Clients, NEW w \in Works, CancelRead(c, w) PROVE RowMoves
  BY <1>25, SameMoves DEF CancelRead
<1>26. ASSUME NEW c \in Clients, NEW w \in Works, RerunRead(c, w) PROVE RowMoves
  BY <1>26, SameMoves DEF RerunRead
<1>27. ASSUME NEW c \in Clients, NEW w \in Works, DeleteRead(c, w) PROVE RowMoves
  BY <1>27, SameMoves DEF DeleteRead
<1>28. ASSUME NEW c \in Clients, NEW source \in Works, NEW w \in Works, Retry(c, source, w)
       PROVE  RowMoves
  <2>1. Slug(source) \in Slugs
    BY <1>28 DEF Retry, Begun
  <2>2. \A v \in Works : Same(v) \/ Born(v)
    BY <1>28, <2>1, NewRowIs DEF Retry, Same, Keeps, Born, Begun
  <2> QED
    BY <2>2
<1>29. ASSUME NEW c \in Clients, Schedule(c) PROVE RowMoves
  BY <1>29, SameMoves DEF Schedule
<1>30. ASSUME NEW c \in Clients, CancelWrite(c) PROVE RowMoves
  <2> DEFINE r == [rows[Of(c)] EXCEPT !.state = "CANCELLED", !.from = calls[c].row.state,
                                      !.prompt = calls[c].row.prompt]
  <2>1. Of(c) \in Works
    BY <1>30, BeganCall DEF CancelWrite, CallAt
  <2>2. r.state = "CANCELLED" /\ r.loop = rows[Of(c)].loop
        /\ r.from = calls[c].row.state
    BY <2>1 DEF RowsOK, RowType
  <2>3. \A w \in Works : Same(w) \/ CallMoves(c, w)
    BY <1>30, <2>1, <2>2, UpdateIs, SameMoves DEF CancelWrite, CallMoves, Cancels
  <2> QED
    BY <2>3
<1>31. ASSUME NEW c \in Clients, CancelKill(c) PROVE RowMoves
  BY <1>31, SameMoves DEF CancelKill
<1>32. ASSUME NEW c \in Clients, RerunWrite(c) PROVE RowMoves
  <2> DEFINE r == [rows[Of(c)] EXCEPT !.state = ResumeState(calls[c].row), !.from = None,
                                      !.prompt = calls[c].row.prompt]
  <2>1. Of(c) \in Works
    BY <1>32, BeganCall DEF RerunWrite, CallAt
  <2>2. r.state = ResumeState(calls[c].row) /\ r.loop = rows[Of(c)].loop
        /\ r.from = None
    BY <2>1 DEF RowsOK, RowType
  <2>3. CASE rows' = rows
    BY <2>3, SameMoves
  <2>4. CASE rows[Of(c)].state = "CANCELLED" /\ Update(Of(c), r)
        /\ calls' = [calls EXCEPT ![c].pc = "schedule"]
    <3>1. calls'[c].pc = "schedule"
      BY <2>4 DEF CallsOK, CallType
    <3>2. (\A w \in Works \ {Of(c)} : Same(w)) /\ (Same(Of(c)) \/ rows'[Of(c)] = r)
      BY <2>1, <2>4, UpdateIs
    <3>3. Same(Of(c)) \/ CallMoves(c, Of(c))
      BY <1>32, <2>2, <2>4, <3>1, <3>2 DEF RerunWrite, CallMoves, Reruns
    <3> QED
      BY <3>2, <3>3
  <2> QED
    BY <1>32, <2>3, <2>4 DEF RerunWrite
<1>33. ASSUME NEW c \in Clients, DeleteFiles(c) PROVE RowMoves
  <2> DEFINE r == [rows[Of(c)] EXCEPT !.file = "gone"]
  <2>1. Of(c) \in Works
    BY <1>33, BeganCall DEF DeleteFiles, CallAt
  <2>2. r.state = rows[Of(c)].state /\ r.loop = rows[Of(c)].loop
        /\ r.from = rows[Of(c)].from
    BY <2>1 DEF RowsOK, RowType
  <2> QED
    BY <1>33, <2>1, <2>2, KeptUpdate DEF DeleteFiles
<1>34. ASSUME NEW c \in Clients, DeleteRows(c) PROVE RowMoves
  <2> DEFINE r == [NoRow EXCEPT !.state = "DELETED", !.slug = Slug(Of(c))]
  <2>1. Of(c) \in Works /\ Slug(Of(c)) \in Slugs
    BY <1>34, BeganCall DEF DeleteRows, CallAt
  <2>2. r.state = "DELETED" /\ r.from = None
    BY <2>1, GoneRowIs
  <2>3. \A w \in Works : Same(w) \/ CallMoves(c, w)
    BY <1>34, <2>1, <2>2 DEF DeleteRows, CallMoves, Deletes, Same, Keeps
  <2> QED
    BY <2>3
<1>35. CASE Crash
  BY <1>35, SameMoves DEF Crash
<1>36. ASSUME NEW w \in Works, LateWrite(w) PROVE RowMoves
  BY <1>36, WriteIs DEF LateWrite
<1>37. ASSUME NEW w \in Works, PromptLost(w) PROVE RowMoves
  <2> DEFINE r == [rows[w] EXCEPT !.file = "gone"]
  <2>1. Update(w, r)
    BY <1>37 DEF PromptLost
  <2>2. r.state = rows[w].state /\ r.loop = rows[w].loop /\ r.from = rows[w].from
    BY DEF RowsOK, RowType
  <2> QED
    BY <2>1, <2>2, KeptUpdate
<1>38. CASE UNCHANGED vars
  BY <1>38, SameMoves DEF vars
<1> QED
  BY <1>1, <1>2, <1>3, <1>4, <1>5, <1>6, <1>7, <1>8, <1>9, <1>10, <1>11, <1>12, <1>13,
     <1>14, <1>15, <1>16, <1>17, <1>18, <1>19, <1>20, <1>21, <1>22, <1>23, <1>24,
     <1>25, <1>26, <1>27, <1>28, <1>29, <1>30, <1>31, <1>32, <1>33, <1>34, <1>35,
     <1>36, <1>37, <1>38
  DEF Next, Handler, Call

(* A COMPLETED DesignWork is linked to a document that exists, is          *)
(* published and is its own.                                               *)
Linked == \A w \in Works : rows[w].state = "COMPLETED" =>
    /\ rows[w].doc /\ docs[Slug(w)] # None
    /\ docs[Slug(w)].by = w /\ docs[Slug(w)].status = "published"

(* Only the end of D6 completes a DesignWork, and by then the task has     *)
(* inserted and published its own document (Fine); nothing replaces or     *)
(* unlinks it afterwards.                                                  *)
LEMMA LinkedStep == IInv /\ Linked /\ [Next]_vars => Linked'
<1> SUFFICES ASSUME IInv, Linked, [Next]_vars, NEW w \in Works, rows'[w].state = "COMPLETED"
             PROVE  /\ rows'[w].doc /\ docs'[Slug(w)'] # None
                    /\ docs'[Slug(w)'].by = w /\ docs'[Slug(w)'].status = "published"
  BY DEF Linked
<1>1. RowsKept /\ DocsKept /\ RowMoves
  BY IStep, HowRowsMove
<1>2. \/ rows[w].state = "COMPLETED"
      \/ \E t \in Tasks : At(t, "complete") /\ W(t) = w /\ Exists(w)
  <2>1. ASSUME NEW t \in Tasks, TaskMoves(t, w), rows[w].state # "COMPLETED"
        PROVE  At(t, "complete") /\ W(t) = w /\ Exists(w)
    BY <2>1 DEF TaskMoves, Advances, Regates, GivesUp, Loops, Completes, Edges
  <2>2. ASSUME NEW c \in Clients, CallMoves(c, w) PROVE FALSE
    BY <2>2, ActiveIs DEF CallMoves, Cancels, Reruns, Deletes, ResumeState, IInv,
       CallsOK, CallType, SnapType
  <2> QED
    BY <1>1, <2>1, <2>2 DEF RowMoves, Same, Born
<1>3. /\ Begun(w) /\ Exists(w) /\ rows[w].doc /\ docs[Slug(w)] # None
      /\ docs[Slug(w)].by = w /\ docs[Slug(w)].status = "published"
  <2>1. CASE rows[w].state = "COMPLETED"
    BY <2>1 DEF Linked, Begun, Exists
  <2>2. ASSUME NEW t \in Tasks, At(t, "complete"), W(t) = w, Exists(w) PROVE <1>3
    BY <2>2 DEF IInv, TasksOK, Fine, At
  <2> QED
    BY <1>2, <2>1, <2>2
<1>4. Slug(w) \in Slugs /\ Slug(w)' = Slug(w) /\ rows'[w].doc
  BY <1>1, <1>3 DEF IInv, RowsOK, RowsKept, Exists, Slug
<1> QED
  BY <1>1, <1>3, <1>4 DEF DocsKept

(* _d6_persist: whoever races for a slug, with whatever cancels, reruns,   *)
(* deletes, restarts and late agents in between, a COMPLETED DesignWork is *)
(* linked to a published document that it made itself.                     *)
THEOREM CompletedIsLinked == Spec => []CompletedHasDoc
<1>1. Init => Linked
  BY DEF Init, Linked, NoRow
<1>2. IInv /\ Linked /\ [Next]_vars => Linked'
  BY LinkedStep
<1>3. Linked => CompletedHasDoc
  BY DEF Linked, CompletedHasDoc
<1> QED
  BY <1>1, <1>2, <1>3, Invariance, PTL DEF Spec

(* A task that stays in its handler keeps the state and loop it has read;  *)
(* the text of D6 is the file as it was when D6 read it.                   *)
Carries(u) == /\ Working(u) /\ tasks'[u].w = tasks[u].w
              /\ tasks'[u].driver = tasks[u].driver
              /\ tasks'[u].row.state = tasks[u].row.state
              /\ tasks'[u].row.loop = tasks[u].row.loop
              /\ tasks'[u].row.from \in {tasks[u].row.from, rows[W(u)].from}
              /\ tasks'[u].pc \in {"put", "insert"} =>
                     \/ tasks[u].pc = "put" /\ tasks'[u].text = tasks[u].text
                     \/ tasks'[u].text = output[Slug(W(u))]
                     \/ tasks'[u] = tasks[u]

(* A driver reads its row and enters a handler in one step.                *)
Starts(u) == /\ At(u, "get") /\ rows' = rows /\ rows[W(u)].state \in Active
             /\ running' = running /\ tasks'[u].pc = "handler"
             /\ tasks'[u].w = tasks[u].w
             /\ tasks'[u].driver = tasks[u].driver /\ tasks'[u].row = Snap(W(u))
             /\ \A v \in Tasks \ {u} : tasks'[v] = tasks[v]

(* A task that was there, and one that a call schedules in this step.      *)
Lives(u) == tasks[u].pc # "off" /\ tasks'[u].w = tasks[u].w
Scheduled(u) == /\ \E c \in Clients : /\ CallAt(c, "schedule") /\ tasks'[u].w = Of(c)
                                       /\ calls' = [calls EXCEPT ![c] = NoCall]
                /\ \A v \in Tasks \ {u} : tasks'[v] = tasks[v]

(* Nothing else brings a task into a handler, or to life.                  *)
TaskMove(u) == /\ Working(u)' => Carries(u) \/ Starts(u)
               /\ tasks'[u].pc # "off" => Lives(u) \/ Scheduled(u)
TasksMove == \A u \in Tasks : TaskMove(u)

(* A task left alone.                                                      *)
LEMMA SameCarries == ASSUME NEW u \in Tasks, tasks'[u] = tasks[u] PROVE TaskMove(u)
  BY DEF TaskMove, Working, Carries, Lives

(* A handler that returns is in no handler and, if a driver, lives on.     *)
LEMMA ReturnMoves ==
    ASSUME TasksOK, NEW t \in Tasks, tasks[t].pc # "off", Return(t)
    PROVE  TasksMove
<1>1. W(t) \in Works
  BY BeganTask
<1>2. TaskMove(t)
  BY <1>1, ReturnStops, NewDriverIs, NoTaskIs DEF TaskMove, Lives, W
<1>3. \A u \in Tasks \ {t} : TaskMove(u)
  BY <1>1, ReturnStops, SameCarries
<1> QED
  BY <1>2, <1>3 DEF TasksMove

(* A task that ends.                                                       *)
LEMMA EndMoves ==
    ASSUME TasksOK, NEW t \in Tasks, tasks' = [tasks EXCEPT ![t] = NoTask]
    PROVE  TasksMove
<1>1. TaskMove(t)
  BY NoTaskIs DEF TaskMove, Working, TasksOK
<1>2. \A u \in Tasks \ {t} : TaskMove(u)
  BY SameCarries DEF TasksOK
<1> QED
  BY <1>1, <1>2 DEF TasksMove

(* A step of one task.                                                     *)
LEMMA OneMoves ==
    ASSUME NEW t \in Tasks, TaskMove(t), \A u \in Tasks \ {t} : tasks'[u] = tasks[u]
    PROVE  TasksMove
  BY SameCarries DEF TasksMove

(* Every step, unless it is a request to /tick, moves each task in one of  *)
(* these ways.                                                             *)
LEMMA HowTasksMove == IInv /\ ~Ticked' /\ [Next]_vars => TasksMove
<1> SUFFICES ASSUME IInv, ~Ticked', [Next]_vars PROVE TasksMove
  OBVIOUS
<1> USE DEF IInv, TasksMove
<1>1. ASSUME NEW t \in Tasks, Get(t) PROVE TasksMove
  <2>1. CASE rows[W(t)].state \in Active
    <3>1. \A u \in Tasks \ {t} : tasks'[u] = tasks[u]
      BY <1>1, <2>1 DEF Get, TasksOK
    <3>2. Starts(t)
      BY <1>1, <2>1, <3>1 DEF Get, Starts, At, TasksOK, TaskType
    <3> QED
      BY <3>1, <3>2, OneMoves DEF TaskMove, Starts, Lives, At
  <2>2. CASE rows[W(t)].state \notin Active
    BY <1>1, <2>2, EndMoves DEF Get, End
  <2> QED
    BY <2>1, <2>2
<1>2. ASSUME NEW t \in Tasks, Noop(t) PROVE TasksMove
  BY <1>2, ReturnMoves DEF Noop, In, At, Transition, Escalate
<1>3. ASSUME NEW t \in Tasks, D0Init(t) PROVE TasksMove
  BY <1>3, ReturnMoves DEF D0Init, In, At, Transition, Escalate
<1>4. ASSUME NEW t \in Tasks, D1ModeBranch(t) PROVE TasksMove
  BY <1>4, ReturnMoves, EndMoves DEF D1ModeBranch, In, At, Transition, End
<1>5. ASSUME NEW t \in Tasks, D2PreValidate(t) PROVE TasksMove
  BY <1>5, ReturnMoves DEF D2PreValidate, In, At, Transition, Escalate
<1>6. ASSUME NEW t \in Tasks, D3PutPrompt(t) PROVE TasksMove
  <2>1. CASE End(t)
    BY <1>6, <2>1, EndMoves DEF D3PutPrompt, End
  <2>2. CASE Goto(t, "gates")
    <3>1. \A u \in Tasks \ {t} : tasks'[u] = tasks[u]
      BY <2>2 DEF Goto, TasksOK
    <3>2. Carries(t) /\ tasks[t].pc # "off"
      BY <1>6, <2>2
      DEF D3PutPrompt, Goto, In, At, TasksOK, TaskType, SnapType, Working, Carries
    <3> QED
      BY <3>1, <3>2, OneMoves DEF TaskMove, Carries, Lives
  <2> QED
    BY <1>6, <2>1, <2>2 DEF D3PutPrompt
<1>7. ASSUME NEW t \in Tasks, D3ReadGates(t) PROVE TasksMove
  <2>1. \A u \in Tasks \ {t} : tasks'[u] = tasks[u]
    BY <1>7 DEF D3ReadGates, Goto, TasksOK
  <2>2. Carries(t) /\ tasks[t].pc # "off"
    BY <1>7 DEF D3ReadGates, Goto, In, At, TasksOK, TaskType, SnapType, Working, Carries
  <2> QED
    BY <2>1, <2>2, OneMoves DEF TaskMove, Carries, Lives
<1>8. ASSUME NEW t \in Tasks, D3WriteGates(t) PROVE TasksMove
  <2>1. \A u \in Tasks \ {t} : tasks'[u] = tasks[u]
    BY <1>8 DEF D3WriteGates, Goto, TasksOK
  <2>2. Carries(t) /\ tasks[t].pc # "off"
    BY <1>8 DEF D3WriteGates, Goto, In, At, TasksOK, TaskType, SnapType, Working, Carries
  <2> QED
    BY <2>1, <2>2, OneMoves DEF TaskMove, Carries, Lives
<1>9. ASSUME NEW t \in Tasks, D3Transition(t) PROVE TasksMove
  BY <1>9, ReturnMoves DEF D3Transition, In, At, Transition, Escalate
<1>10. ASSUME NEW t \in Tasks, D4Redo(t) PROVE TasksMove
  BY <1>10, ReturnMoves DEF D4Redo, In, At, Transition, Escalate
<1>11. ASSUME NEW t \in Tasks, D4Recovered(t) PROVE TasksMove
  BY <1>11, ReturnMoves DEF D4Recovered, In, At, Transition, Escalate
<1>12. ASSUME NEW t \in Tasks, D4Run(t) PROVE TasksMove
  <2>1. \A u \in Tasks \ {t} : tasks'[u] = tasks[u]
    BY <1>12 DEF D4Run, Goto, TasksOK
  <2>2. Carries(t) /\ tasks[t].pc # "off"
    BY <1>12 DEF D4Run, Goto, In, At, TasksOK, TaskType, SnapType, Working, Carries
  <2> QED
    BY <2>1, <2>2, OneMoves DEF TaskMove, Carries, Lives
<1>13. ASSUME NEW t \in Tasks, D4AgentWrites(t) PROVE TasksMove
  BY <1>13, SameCarries DEF D4AgentWrites
<1>14. ASSUME NEW t \in Tasks, D4Succeeded(t) PROVE TasksMove
  BY <1>14, ReturnMoves DEF D4Succeeded, In, At, Transition, Escalate
<1>15. ASSUME NEW t \in Tasks, D4Failed(t) PROVE TasksMove
  BY <1>15, ReturnMoves DEF D4Failed, In, At, Transition, Escalate
<1>16. ASSUME NEW t \in Tasks, D45Mockup(t) PROVE TasksMove
  BY <1>16, ReturnMoves DEF D45Mockup, In, At, Transition, Escalate
<1>17. ASSUME NEW t \in Tasks, D5PostValidate(t) PROVE TasksMove
  BY <1>17, ReturnMoves DEF D5PostValidate, In, At, Transition, LoopOrEscalate, Escalate
<1>18. ASSUME NEW t \in Tasks, D6Check(t) PROVE TasksMove
  <2>1. CASE output[Slug(W(t))] = None \/ docs[Slug(W(t))] # None
    BY <1>18, <2>1, EndMoves DEF D6Check, End
  <2>2. CASE ~(output[Slug(W(t))] = None \/ docs[Slug(W(t))] # None)
    <3>1. \A u \in Tasks \ {t} : tasks'[u] = tasks[u]
      BY <1>18, <2>2 DEF D6Check, TasksOK
    <3>2. Carries(t) /\ tasks[t].pc # "off"
      BY <1>18, <2>2 DEF D6Check, In, At, TasksOK, TaskType, SnapType, Working, Carries
    <3> QED
      BY <3>1, <3>2, OneMoves DEF TaskMove, Carries, Lives
  <2> QED
    BY <2>1, <2>2
<1>19. ASSUME NEW t \in Tasks, D6Put(t) PROVE TasksMove
  <2>1. \A u \in Tasks \ {t} : tasks'[u] = tasks[u]
    BY <1>19 DEF D6Put, Goto, TasksOK
  <2>2. Carries(t) /\ tasks[t].pc # "off"
    BY <1>19 DEF D6Put, Goto, In, At, TasksOK, TaskType, SnapType, Working, Carries
  <2> QED
    BY <2>1, <2>2, OneMoves DEF TaskMove, Carries, Lives
<1>20. ASSUME NEW t \in Tasks, D6Insert(t) PROVE TasksMove
  <2>1. CASE docs[Slug(W(t))] # None
    BY <1>20, <2>1, EndMoves DEF D6Insert, End
  <2>2. CASE docs[Slug(W(t))] = None
    <3>1. \A u \in Tasks \ {t} : tasks'[u] = tasks[u]
      BY <1>20, <2>2 DEF D6Insert, Goto, TasksOK
    <3>2. Carries(t) /\ tasks[t].pc # "off"
      BY <1>20, <2>2 DEF D6Insert, Goto, At, TasksOK, TaskType, SnapType, Working, Carries
    <3> QED
      BY <3>1, <3>2, OneMoves DEF TaskMove, Carries, Lives
  <2> QED
    BY <2>1, <2>2
<1>21. ASSUME NEW t \in Tasks, D6Publish(t) PROVE TasksMove
  <2>1. \A u \in Tasks \ {t} : tasks'[u] = tasks[u]
    BY <1>21 DEF D6Publish, Goto, TasksOK
  <2>2. Carries(t) /\ tasks[t].pc # "off"
    BY <1>21 DEF D6Publish, Goto, In, At, TasksOK, TaskType, SnapType, Working, Carries
  <2> QED
    BY <2>1, <2>2, OneMoves DEF TaskMove, Carries, Lives
<1>22. ASSUME NEW t \in Tasks, D6Complete(t) PROVE TasksMove
  BY <1>22, ReturnMoves DEF D6Complete, In, At, Transition, Escalate
<1>23. ASSUME NEW t \in Tasks, NEW w \in Works, RequestTick(t, w) PROVE TasksMove
  BY <1>23 DEF RequestTick, RestOK, Ticked
<1>24. ASSUME NEW c \in Clients, NEW w \in Works, Create(c, w) PROVE TasksMove
  BY <1>24, SameCarries DEF Create
<1>25. ASSUME NEW c \in Clients, NEW w \in Works, CancelRead(c, w) PROVE TasksMove
  BY <1>25, SameCarries DEF CancelRead
<1>26. ASSUME NEW c \in Clients, NEW w \in Works, RerunRead(c, w) PROVE TasksMove
  BY <1>26, SameCarries DEF RerunRead
<1>27. ASSUME NEW c \in Clients, NEW w \in Works, DeleteRead(c, w) PROVE TasksMove
  BY <1>27, SameCarries DEF DeleteRead
<1>28. ASSUME NEW c \in Clients, NEW source \in Works, NEW w \in Works, Retry(c, source, w)
       PROVE  TasksMove
  BY <1>28, SameCarries DEF Retry
<1>29. ASSUME NEW c \in Clients, Schedule(c) PROVE TasksMove
  <2>1. ASSUME NEW t \in Tasks, tasks' = [tasks EXCEPT ![t] = NewDriver(Of(c))]
        PROVE  TasksMove
    <3>1. Of(c) \in Works
      BY <1>29, BeganCall DEF Schedule, CallAt
    <3>2. (\A u \in Tasks \ {t} : tasks'[u] = tasks[u]) /\ tasks'[t] = NewDriver(Of(c))
      BY <2>1 DEF TasksOK
    <3>3. Scheduled(t)
      BY <1>29, <3>1, <3>2, NewDriverIs DEF Schedule, Done, Scheduled
    <3>4. ~Working(t)'
      BY <3>1, <3>2, NewDriverIs DEF Working
    <3> QED
      BY <3>2, <3>3, <3>4, OneMoves DEF TaskMove
  <2>2. CASE tasks' = tasks
    BY <2>2, SameCarries DEF TasksMove
  <2> QED
    BY <1>29, <2>1, <2>2 DEF Schedule, TasksMove
<1>30. ASSUME NEW c \in Clients, CancelWrite(c) PROVE TasksMove
  BY <1>30, SameCarries DEF CancelWrite
<1>31. ASSUME NEW c \in Clients, CancelKill(c) PROVE TasksMove
  <2>1. \A u \in Tasks : tasks'[u] \in {tasks[u], NoTask}
    BY <1>31 DEF CancelKill
  <2> QED
    BY <2>1, SameCarries, NoTaskIs DEF TaskMove, Working
<1>32. ASSUME NEW c \in Clients, RerunWrite(c) PROVE TasksMove
  BY <1>32, SameCarries DEF RerunWrite
<1>33. ASSUME NEW c \in Clients, DeleteFiles(c) PROVE TasksMove
  BY <1>33, SameCarries DEF DeleteFiles
<1>34. ASSUME NEW c \in Clients, DeleteRows(c) PROVE TasksMove
  BY <1>34, SameCarries DEF DeleteRows
<1>35. CASE Crash
  BY <1>35, NoTaskIs DEF Crash, TaskMove, Working
<1>36. ASSUME NEW w \in Works, LateWrite(w) PROVE TasksMove
  BY <1>36, SameCarries DEF LateWrite
<1>37. ASSUME NEW w \in Works, PromptLost(w) PROVE TasksMove
  BY <1>37, SameCarries DEF PromptLost
<1>38. CASE UNCHANGED vars
  BY <1>38, SameCarries DEF vars
<1> QED
  BY <1>1, <1>2, <1>3, <1>4, <1>5, <1>6, <1>7, <1>8, <1>9, <1>10, <1>11, <1>12, <1>13,
     <1>14, <1>15, <1>16, <1>17, <1>18, <1>19, <1>20, <1>21, <1>22, <1>23, <1>24,
     <1>25, <1>26, <1>27, <1>28, <1>29, <1>30, <1>31, <1>32, <1>33, <1>34, <1>35,
     <1>36, <1>37, <1>38
  DEF Next, Handler, Call

(* A driver that D6 has unregistered before its last tick: its DesignWork  *)
(* is over and nobody is at work on it.                                    *)
Left(t) == /\ At(t, "get") /\ rows[W(t)].state \in {"COMPLETED", "DELETED"}
           /\ \A u \in Tasks : Working(u) => W(u) # W(t)

(* Without requests to /tick, every task is a driver and _running has it,  *)
(* apart from those that have left.                                        *)
Registered == ~Ticked => \A t \in Tasks : tasks[t].pc # "off" =>
    tasks[t].driver /\ (running[W(t)] = t \/ Left(t))

(* Without requests to /tick, a driver in a handler has the current loop.  *)
Counted == ~Ticked => \A t \in Tasks : Working(t) /\ Exists(W(t)) =>
    Seen(t).loop = rows[W(t)].loop

(* A driver that has left has nothing to do: a COMPLETED DesignWork is     *)
(* neither cancelled nor rerun.                                            *)
LEMMA LeftStays ==
    ASSUME IInv, RowMoves, TasksMove, NEW t \in Tasks, Left(t), tasks'[t] = tasks[t]
    PROVE  Left(t)'
<1> DEFINE w == W(t)
<1>1. w \in Works /\ w' = w
  BY BeganTask DEF Left, At, IInv, W
<1>2. ~\E u \in Tasks : TaskMoves(u, w)
  BY DEF Left, TaskMoves
<1>3. ASSUME NEW c \in Clients, CallMoves(c, w)
      PROVE  rows'[w].state \in {"COMPLETED", "DELETED"}
  BY <1>3, ActiveIs DEF Left, CallMoves, Cancels, Reruns, Deletes
<1>4. rows'[w].state \in {"COMPLETED", "DELETED"}
  BY <1>1, <1>2, <1>3 DEF RowMoves, Same, Born, Left, Begun
<1>5. ASSUME NEW u \in Tasks, Working(u)', W(u)' = w PROVE FALSE
  BY <1>5, ActiveIs DEF TasksMove, TaskMove, Carries, Starts, Left, W
<1> QED
  BY <1>1, <1>4, <1>5 DEF Left, At

(* A driver that a step leaves alone, and whose register it leaves alone,  *)
(* stays registered.                                                       *)
LEMMA LeftAgain ==
    ASSUME IInv, Registered, ~Ticked, RowMoves, TasksMove, NEW t \in Tasks, NEW u \in Tasks,
           tasks[u].pc # "off", tasks'[u] = tasks[u],
           running'[W(u)] = running[W(u)]
    PROVE  (tasks[u].driver /\ (running[W(u)] = u \/ Left(u)))'
  BY LeftStays DEF Registered, W

(* A step that leaves the register alone and starts nobody.                *)
LEMMA SameRegister ==
    ASSUME IInv, Registered, ~Ticked, RowMoves, TasksMove, running' = running,
           \A u \in Tasks : tasks'[u].pc # "off" =>
               /\ tasks[u].pc # "off" /\ tasks'[u].w = tasks[u].w
               /\ tasks[u].driver => tasks'[u].driver
               /\ Working(u) \/ tasks'[u] = tasks[u]
    PROVE  Registered'
<1>1. ASSUME NEW u \in Tasks, tasks'[u].pc # "off"
      PROVE  (tasks[u].driver /\ (running[W(u)] = u \/ Left(u)))'
  <2>1. CASE tasks'[u] = tasks[u]
    BY <1>1, <2>1, LeftAgain
  <2>2. CASE Working(u)
    BY <1>1, <2>2 DEF Registered, Left, Working, At, W
  <2> QED
    BY <1>1, <2>1, <2>2
<1> QED
  BY <1>1 DEF Registered

(* A handler that returns.                                                 *)
LEMMA ReturnRegister ==
    ASSUME IInv, Registered, ~Ticked, RowMoves, TasksMove, running' = running,
           NEW t \in Tasks, Working(t), Return(t)
    PROVE  Registered'
<1>1. W(t) \in Works /\ tasks[t].driver
  BY BeganTask DEF IInv, Registered, Working
<1>2. tasks'[t] = NewDriver(W(t)) /\ \A u \in Tasks \ {t} : tasks'[u] = tasks[u]
  BY <1>1, ReturnStops DEF IInv
<1>3. \A u \in Tasks : tasks'[u].pc # "off" =>
               /\ tasks[u].pc # "off" /\ tasks'[u].w = tasks[u].w
               /\ tasks[u].driver => tasks'[u].driver
               /\ Working(u) \/ tasks'[u] = tasks[u]
  BY <1>1, <1>2, NewDriverIs DEF Working, W
<1> QED
  BY <1>3, SameRegister

(* A driver that ends takes only its own name from _running.               *)
LEMMA EndRegister ==
    ASSUME IInv, Registered, ~Ticked, RowMoves, TasksMove, NEW t \in Tasks, End(t)
    PROVE  Registered'
<1>1. tasks'[t].pc = "off" /\ \A u \in Tasks \ {t} : tasks'[u] = tasks[u]
  BY NoTaskIs DEF End, IInv, TasksOK
<1>2. ASSUME NEW u \in Tasks, tasks'[u].pc # "off"
      PROVE  (tasks[u].driver /\ (running[W(u)] = u \/ Left(u)))'
  <2>1. u # t /\ tasks[u].pc # "off" /\ tasks'[u] = tasks[u] /\ W(u) \in Works
    BY <1>1, <1>2, BeganTask DEF IInv
  <2>2. CASE running[W(u)] = u
    BY <2>1, <2>2 DEF End, Registered, W
  <2>3. CASE Left(u)
    BY <2>1, <2>3, LeftStays DEF Registered
  <2> QED
    BY <2>1, <2>2, <2>3 DEF Registered
<1> QED
  BY <1>2 DEF Registered

(* No step loses a driver from _running that may still write: the kill of  *)
(* a cancel also ends the task, schedule_driver starts one only where none *)
(* is registered, and after D6 nothing is left to write.                   *)
LEMMA RegisteredStep ==
    IInv /\ Registered /\ ~Ticked /\ ~Ticked' /\ RowMoves /\ TasksMove
    /\ [Next]_vars => Registered'
<1> SUFFICES ASSUME IInv, Registered, ~Ticked, ~Ticked', RowMoves, TasksMove, [Next]_vars
             PROVE  Registered'
  OBVIOUS
<1>1. ASSUME NEW t \in Tasks, Get(t) PROVE Registered'
  <2>1. CASE rows[W(t)].state \notin Active
    BY <1>1, <2>1, EndRegister DEF Get
  <2>2. CASE rows[W(t)].state \in Active
    <3>1. tasks[t].driver /\ running[W(t)] = t
      BY <1>1, <2>2, ActiveIs DEF Get, At, Registered, Left
    <3>2. tasks'[t].w = W(t) /\ tasks'[t].driver
          /\ \A u \in Tasks \ {t} : tasks'[u] = tasks[u]
      BY <1>1, <2>2, <3>1 DEF Get, IInv, TasksOK, TaskType, W
    <3>3. ASSUME NEW u \in Tasks, tasks'[u].pc # "off"
          PROVE  (tasks[u].driver /\ (running[W(u)] = u \/ Left(u)))'
      BY <1>1, <2>2, <3>1, <3>2, <3>3, LeftAgain DEF Get, W
    <3> QED
      BY <3>3 DEF Registered
  <2> QED
    BY <2>1, <2>2
<1>2. ASSUME NEW t \in Tasks, Noop(t) PROVE Registered'
  BY <1>2, ReturnRegister DEF Noop, In, At, Transition, Escalate, Working
<1>3. ASSUME NEW t \in Tasks, D0Init(t) PROVE Registered'
  BY <1>3, ReturnRegister DEF D0Init, In, At, Transition, Escalate, Working
<1>4. ASSUME NEW t \in Tasks, D1ModeBranch(t) PROVE Registered'
  BY <1>4, ReturnRegister, EndRegister DEF D1ModeBranch, In, At, Transition, Working
<1>5. ASSUME NEW t \in Tasks, D2PreValidate(t) PROVE Registered'
  BY <1>5, ReturnRegister DEF D2PreValidate, In, At, Transition, Escalate, Working
<1>6. ASSUME NEW t \in Tasks, D3PutPrompt(t) PROVE Registered'
  <2>1. CASE End(t)
    BY <1>6, <2>1, EndRegister DEF D3PutPrompt
  <2>2. CASE Goto(t, "gates") /\ UNCHANGED running
    <3>1. (\A u \in Tasks \ {t} : tasks'[u] = tasks[u]) /\ running' = running
      BY <2>2 DEF Goto, IInv, TasksOK
    <3>2. Working(t) /\ tasks'[t].w = tasks[t].w /\ tasks'[t].driver = tasks[t].driver
      BY <1>6, <2>2 DEF D3PutPrompt, Goto, In, At, IInv, TasksOK, TaskType, Working
    <3> QED
      BY <3>1, <3>2, SameRegister DEF Working
  <2> QED
    BY <1>6, <2>1, <2>2 DEF D3PutPrompt
<1>7. ASSUME NEW t \in Tasks, D3ReadGates(t) PROVE Registered'
  <2>1. \A u \in Tasks \ {t} : tasks'[u] = tasks[u]
    BY <1>7 DEF D3ReadGates, Goto, IInv, TasksOK
  <2>2. Working(t) /\ tasks'[t].w = tasks[t].w /\ tasks'[t].driver = tasks[t].driver
    BY <1>7 DEF D3ReadGates, Goto, In, At, IInv, TasksOK, TaskType, Working
  <2>3. running' = running
    BY <1>7 DEF D3ReadGates
  <2> QED
    BY <2>1, <2>2, <2>3, SameRegister DEF Working
<1>8. ASSUME NEW t \in Tasks, D3WriteGates(t) PROVE Registered'
  <2>1. \A u \in Tasks \ {t} : tasks'[u] = tasks[u]
    BY <1>8 DEF D3WriteGates, Goto, IInv, TasksOK
  <2>2. Working(t) /\ tasks'[t].w = tasks[t].w /\ tasks'[t].driver = tasks[t].driver
    BY <1>8 DEF D3WriteGates, Goto, In, At, IInv, TasksOK, TaskType, Working
  <2>3. running' = running
    BY <1>8 DEF D3WriteGates
  <2> QED
    BY <2>1, <2>2, <2>3, SameRegister DEF Working
<1>9. ASSUME NEW t \in Tasks, D3Transition(t) PROVE Registered'
  BY <1>9, ReturnRegister DEF D3Transition, In, At, Transition, Escalate, Working
<1>10. ASSUME NEW t \in Tasks, D4Redo(t) PROVE Registered'
  BY <1>10, ReturnRegister DEF D4Redo, In, At, Transition, Escalate, Working
<1>11. ASSUME NEW t \in Tasks, D4Recovered(t) PROVE Registered'
  BY <1>11, ReturnRegister DEF D4Recovered, In, At, Transition, Escalate, Working
<1>12. ASSUME NEW t \in Tasks, D4Run(t) PROVE Registered'
  <2>1. \A u \in Tasks \ {t} : tasks'[u] = tasks[u]
    BY <1>12 DEF D4Run, Goto, IInv, TasksOK
  <2>2. Working(t) /\ tasks'[t].w = tasks[t].w /\ tasks'[t].driver = tasks[t].driver
    BY <1>12 DEF D4Run, Goto, In, At, IInv, TasksOK, TaskType, Working
  <2>3. running' = running
    BY <1>12 DEF D4Run
  <2> QED
    BY <2>1, <2>2, <2>3, SameRegister DEF Working
<1>13. ASSUME NEW t \in Tasks, D4AgentWrites(t) PROVE Registered'
  BY <1>13, SameRegister DEF D4AgentWrites
<1>14. ASSUME NEW t \in Tasks, D4Succeeded(t) PROVE Registered'
  BY <1>14, ReturnRegister DEF D4Succeeded, In, At, Transition, Escalate, Working
<1>15. ASSUME NEW t \in Tasks, D4Failed(t) PROVE Registered'
  BY <1>15, ReturnRegister DEF D4Failed, In, At, Transition, Escalate, Working
<1>16. ASSUME NEW t \in Tasks, D45Mockup(t) PROVE Registered'
  BY <1>16, ReturnRegister DEF D45Mockup, In, At, Transition, Escalate, Working
<1>17. ASSUME NEW t \in Tasks, D5PostValidate(t) PROVE Registered'
  BY <1>17, ReturnRegister DEF D5PostValidate, In, At, Transition, LoopOrEscalate,
     Escalate, Working
<1>18. ASSUME NEW t \in Tasks, D6Check(t) PROVE Registered'
  <2>1. CASE output[Slug(W(t))] = None \/ docs[Slug(W(t))] # None
    BY <1>18, <2>1, EndRegister DEF D6Check
  <2>2. CASE ~(output[Slug(W(t))] = None \/ docs[Slug(W(t))] # None)
    <3>1. (\A u \in Tasks \ {t} : tasks'[u] = tasks[u]) /\ running' = running
      BY <1>18, <2>2 DEF D6Check, IInv, TasksOK
    <3>2. Working(t) /\ tasks'[t].w = tasks[t].w /\ tasks'[t].driver = tasks[t].driver
      BY <1>18, <2>2 DEF D6Check, In, At, IInv, TasksOK, TaskType, Working
    <3> QED
      BY <3>1, <3>2, SameRegister DEF Working
  <2> QED
    BY <2>1, <2>2
<1>19. ASSUME NEW t \in Tasks, D6Put(t) PROVE Registered'
  <2>1. \A u \in Tasks \ {t} : tasks'[u] = tasks[u]
    BY <1>19 DEF D6Put, Goto, IInv, TasksOK
  <2>2. Working(t) /\ tasks'[t].w = tasks[t].w /\ tasks'[t].driver = tasks[t].driver
    BY <1>19 DEF D6Put, Goto, In, At, IInv, TasksOK, TaskType, Working
  <2>3. running' = running
    BY <1>19 DEF D6Put
  <2> QED
    BY <2>1, <2>2, <2>3, SameRegister DEF Working
<1>20. ASSUME NEW t \in Tasks, D6Insert(t) PROVE Registered'
  <2>1. CASE docs[Slug(W(t))] # None
    BY <1>20, <2>1, EndRegister DEF D6Insert
  <2>2. CASE docs[Slug(W(t))] = None
    <3>1. (\A u \in Tasks \ {t} : tasks'[u] = tasks[u]) /\ running' = running
      BY <1>20, <2>2 DEF D6Insert, Goto, IInv, TasksOK
    <3>2. Working(t) /\ tasks'[t].w = tasks[t].w /\ tasks'[t].driver = tasks[t].driver
      BY <1>20, <2>2 DEF D6Insert, Goto, At, IInv, TasksOK, TaskType, Working
    <3> QED
      BY <3>1, <3>2, SameRegister DEF Working
  <2> QED
    BY <2>1, <2>2
<1>21. ASSUME NEW t \in Tasks, D6Publish(t) PROVE Registered'
  <2>1. \A u \in Tasks \ {t} : tasks'[u] = tasks[u]
    BY <1>21 DEF D6Publish, Goto, IInv, TasksOK
  <2>2. Working(t) /\ tasks'[t].w = tasks[t].w /\ tasks'[t].driver = tasks[t].driver
    BY <1>21 DEF D6Publish, Goto, In, At, IInv, TasksOK, TaskType, Working
  <2>3. running' = running
    BY <1>21 DEF D6Publish
  <2> QED
    BY <2>1, <2>2, <2>3, SameRegister DEF Working
<1>22. ASSUME NEW t \in Tasks, D6Complete(t) PROVE Registered'
  <2>1. Working(t) /\ W(t) \in Works /\ tasks[t].driver /\ running[W(t)] = t
    BY <1>22, BeganTask DEF D6Complete, At, Working, IInv, Registered, Left
  <2>2. tasks'[t] = NewDriver(W(t)) /\ \A u \in Tasks \ {t} : tasks'[u] = tasks[u]
    BY <1>22, <2>1, ReturnStops DEF D6Complete, IInv
  <2>3. rows'[W(t)].state \in {"COMPLETED", "DELETED"}
    BY <1>22, <2>1, SetStateIs, BeganTask
    DEF D6Complete, At, IInv, RowsOK, RowType, SetState, Update, Exists, Begun, Working
  <2>4. \A u \in Tasks \ {t} : Working(u) => W(u) # W(t)
    BY <2>1 DEF Registered, Left, At, Working
  <2>5. Left(t)'
    BY <2>1, <2>2, <2>3, <2>4, NewDriverIs DEF Left, At, W, Working
  <2>6. ASSUME NEW u \in Tasks, tasks'[u].pc # "off"
        PROVE  (tasks[u].driver /\ (running[W(u)] = u \/ Left(u)))'
    <3>1. CASE u = t
      BY <2>1, <2>2, <2>5, <3>1, NewDriverIs
    <3>2. CASE u # t
      <4>1. tasks'[u] = tasks[u] /\ tasks[u].pc # "off" /\ W(u) \in Works
        BY <2>2, <2>6, <3>2, BeganTask DEF IInv
      <4>2. CASE Left(u)
        BY <4>1, <4>2, LeftStays DEF Registered
      <4>3. CASE running[W(u)] = u
        <5>1. W(u) # W(t)
          BY <2>1, <3>2, <4>3
        <5> QED
          BY <1>22, <4>1, <4>3, <5>1 DEF D6Complete, Registered, W, IInv, RestOK
      <4> QED
        BY <4>1, <4>2, <4>3 DEF Registered
    <3> QED
      BY <3>1, <3>2
  <2> QED
    BY <2>6 DEF Registered
<1>23. ASSUME NEW t \in Tasks, NEW w \in Works, RequestTick(t, w) PROVE Registered'
  BY <1>23 DEF RequestTick, IInv, RestOK, Ticked
<1>24. ASSUME NEW c \in Clients, NEW w \in Works, Create(c, w) PROVE Registered'
  BY <1>24, SameRegister DEF Create
<1>25. ASSUME NEW c \in Clients, NEW w \in Works, CancelRead(c, w) PROVE Registered'
  BY <1>25, SameRegister DEF CancelRead
<1>26. ASSUME NEW c \in Clients, NEW w \in Works, RerunRead(c, w) PROVE Registered'
  BY <1>26, SameRegister DEF RerunRead
<1>27. ASSUME NEW c \in Clients, NEW w \in Works, DeleteRead(c, w) PROVE Registered'
  BY <1>27, SameRegister DEF DeleteRead
<1>28. ASSUME NEW c \in Clients, NEW source \in Works, NEW w \in Works, Retry(c, source, w)
       PROVE  Registered'
  BY <1>28, SameRegister DEF Retry
<1>29. ASSUME NEW c \in Clients, Schedule(c) PROVE Registered'
  <2>1. CASE IsRunning(Of(c))
    BY <1>29, <2>1, SameRegister DEF Schedule
  <2>2. ASSUME NEW t \in Tasks, At(t, "off"),
               tasks' = [tasks EXCEPT ![t] = NewDriver(Of(c))],
               running' = [running EXCEPT ![Of(c)] = t], running[Of(c)] = None
        PROVE  Registered'
    <3>1. Of(c) \in Works
      BY <1>29, BeganCall DEF Schedule, CallAt, IInv
    <3>2. ASSUME NEW u \in Tasks, tasks'[u].pc # "off"
          PROVE  (tasks[u].driver /\ (running[W(u)] = u \/ Left(u)))'
      <4>1. CASE u = t
        BY <2>2, <3>1, <4>1, NewDriverIs DEF W, IInv, TasksOK, RestOK
      <4>2. CASE u # t
        <5>1. tasks'[u] = tasks[u] /\ tasks[u].pc # "off" /\ W(u) \in Works
          BY <2>2, <3>2, <4>2, BeganTask DEF IInv, TasksOK
        <5>2. CASE Left(u)
          BY <5>1, <5>2, LeftStays DEF Registered
        <5>3. CASE running[W(u)] = u
          BY <2>2, <3>1, <5>1, <5>3, DesignWorkAssumption DEF Registered, W, IInv, RestOK
        <5> QED
          BY <5>1, <5>2, <5>3 DEF Registered
      <4> QED
        BY <4>1, <4>2
    <3> QED
      BY <3>2 DEF Registered
  <2> QED
    BY <1>29, <2>1, <2>2 DEF Schedule, IsRunning
<1>30. ASSUME NEW c \in Clients, CancelWrite(c) PROVE Registered'
  BY <1>30, SameRegister DEF CancelWrite
<1>31. ASSUME NEW c \in Clients, CancelKill(c) PROVE Registered'
  <2>1. Of(c) \in Works
    BY <1>31, BeganCall DEF CancelKill, CallAt, IInv
  <2>2. ASSUME NEW u \in Tasks, tasks'[u].pc # "off"
        PROVE  (tasks[u].driver /\ (running[W(u)] = u \/ Left(u)))'
    <3>1. running[Of(c)] # u /\ tasks'[u] = tasks[u]
      BY <1>31, <2>2, NoTaskIs DEF CancelKill
    <3>2. tasks[u].pc # "off" /\ W(u) \in Works
      BY <2>2, <3>1, BeganTask DEF IInv
    <3>3. CASE Left(u)
      BY <3>1, <3>2, <3>3, LeftStays DEF Registered
    <3>4. CASE running[W(u)] = u
      <4>1. W(u) # Of(c)
        BY <3>1, <3>4
      <4> QED
        BY <1>31, <3>1, <3>2, <3>4, <4>1 DEF CancelKill, Registered, W, IInv, RestOK
    <3> QED
      BY <3>2, <3>3, <3>4 DEF Registered
  <2> QED
    BY <2>2 DEF Registered
<1>32. ASSUME NEW c \in Clients, RerunWrite(c) PROVE Registered'
  BY <1>32, SameRegister DEF RerunWrite
<1>33. ASSUME NEW c \in Clients, DeleteFiles(c) PROVE Registered'
  BY <1>33, SameRegister DEF DeleteFiles
<1>34. ASSUME NEW c \in Clients, DeleteRows(c) PROVE Registered'
  BY <1>34, SameRegister DEF DeleteRows
<1>35. CASE Crash
  BY <1>35, NoTaskIs DEF Crash, Registered
<1>36. ASSUME NEW w \in Works, LateWrite(w) PROVE Registered'
  BY <1>36, SameRegister DEF LateWrite
<1>37. ASSUME NEW w \in Works, PromptLost(w) PROVE Registered'
  BY <1>37, SameRegister DEF PromptLost
<1>38. CASE UNCHANGED vars
  BY <1>38, SameRegister DEF vars
<1> QED
  BY <1>1, <1>2, <1>3, <1>4, <1>5, <1>6, <1>7, <1>8, <1>9, <1>10, <1>11, <1>12, <1>13,
     <1>14, <1>15, <1>16, <1>17, <1>18, <1>19, <1>20, <1>21, <1>22, <1>23, <1>24,
     <1>25, <1>26, <1>27, <1>28, <1>29, <1>30, <1>31, <1>32, <1>33, <1>34, <1>35,
     <1>36, <1>37, <1>38
  DEF Next, Handler, Call

(* A loop is counted by the one driver there is, and only a driver counts. *)
LEMMA CountedStep ==
    IInv /\ Registered /\ Counted /\ RowMoves /\ TasksMove /\ ~Ticked => Counted'
<1> SUFFICES ASSUME IInv, Registered, Counted, RowMoves, TasksMove, ~Ticked,
                    NEW t \in Tasks, Working(t)', Exists(W(t))'
             PROVE  (Seen(t).loop = rows[W(t)].loop)'
  BY DEF Counted
<1>1. CASE Starts(t)
  <2>1. W(t) \in Works /\ W(t)' = W(t)
    BY <1>1, BeganTask DEF Starts, At, IInv, W
  <2> QED
    BY <1>1, <2>1, SnapIs DEF Starts, IInv, RowsOK, Seen
<1>2. CASE Carries(t)
  <2> DEFINE w == W(t)
  <2>1. w \in Works /\ w' = w /\ Begun(w) /\ running[w] = t
    BY <1>2, BeganTask DEF Carries, Working, IInv, W, Registered, Left, At
  <2>2. Seen(t)'.loop = Seen(t).loop
    BY <1>2 DEF Carries, Seen
  <2>3. CASE Same(w)
    BY <1>2, <2>1, <2>2, <2>3 DEF Same, Keeps, Exists, Carries, Counted
  <2>4. ASSUME NEW u \in Tasks, TaskMoves(u, w) PROVE rows'[w].loop = Seen(t).loop
    <3>1. u = t
      BY <2>1, <2>4 DEF TaskMoves, Working, Registered, Left, At
    <3>2. ~Loops(u, w)
      BY <1>2, <3>1 DEF Loops
    <3>3. Seen(t).loop = rows[w].loop
      BY <1>2, <2>4 DEF TaskMoves, Carries, Counted
    <3> QED
      BY <2>4, <3>2, <3>3 DEF TaskMoves, Advances, Regates, GivesUp, Completes, Keeps
  <2>5. ASSUME NEW c \in Clients, CallMoves(c, w) PROVE rows'[w].loop = Seen(t).loop
    BY <1>2, <2>1, <2>5, ActiveIs DEF CallMoves, Cancels, Reruns, Deletes, Exists,
       Carries, Counted
  <2> QED
    BY <2>1, <2>2, <2>3, <2>4, <2>5 DEF RowMoves, Born, Seen
<1> QED
  BY <1>1, <1>2 DEF TasksMove, TaskMove

(* The stages in their order.                                              *)
LEMMA RankIs ==
    /\ Rank("INIT") = 1 /\ Rank("MODE_BRANCH") = 2 /\ Rank("PRE_VALIDATE") = 3
    /\ Rank("PROMPT_COMPOSE") = 4 /\ Rank("LLM_GENERATE") = 5 /\ Rank("MOCKUP") = 6
    /\ Rank("POST_VALIDATE") = 7 /\ Rank("PERSIST") = 8
  BY DEF Rank, Stages

(* The state diagram goes forward, except from LLM_GENERATE back to        *)
(* PROMPT_COMPOSE.                                                         *)
LEMMA EdgesForward == \A e \in Edges :
    \/ Rank(e[2]) >= Rank(e[1])
    \/ e[1] = "LLM_GENERATE" /\ e[2] = "PROMPT_COMPOSE"
  BY RankIs DEF Edges

(* A write by the driver goes forward; a cancel, a rerun or a delete does  *)
(* not go from one active state to another.                                *)
LEMMA ForwardStep ==
    ASSUME IInv, Counted, RowMoves, ~Ticked, NEW w \in Works,
           rows[w].state \in Active, rows'[w].state \in Active
    PROVE  Forward(rows[w], rows'[w])
<1>1. rows[w].loop \in Nat /\ Rank(rows[w].state) \in Nat
  BY RankIs, ActiveIs DEF IInv, RowsOK, RowType
<1>2. CASE Same(w)
  BY <1>1, <1>2 DEF Same, Keeps, Forward
<1>3. ASSUME NEW t \in Tasks, TaskMoves(t, w) PROVE Forward(rows[w], rows'[w])
  <2>1. Seen(t).loop = rows[w].loop
    BY <1>3 DEF TaskMoves, Counted
  <2>2. CASE Advances(t, w)
    <3>1. <<rows[w].state, rows'[w].state>> \in Edges
      BY <2>2 DEF Advances
    <3> QED
      BY <2>2, <3>1, EdgesForward DEF Advances, Keeps, Forward
  <2>3. CASE Loops(t, w)
    BY <1>1, <2>1, <2>3 DEF Loops, Forward
  <2>4. CASE Regates(t, w)
    BY <1>1, <2>4 DEF Regates, Forward
  <2>5. ~GivesUp(t, w) /\ ~Completes(t, w)
    BY ActiveIs DEF GivesUp, Completes
  <2> QED
    BY <1>3, <2>2, <2>3, <2>4, <2>5 DEF TaskMoves
<1>4. ASSUME NEW c \in Clients PROVE ~CallMoves(c, w)
  BY ActiveIs DEF CallMoves, Cancels, Reruns, Deletes
<1> QED
  BY <1>2, <1>3, <1>4, ActiveIs DEF RowMoves, Born, Begun

(* A request to /tick is remembered, and so is a late write.               *)
LEMMA SpentStays ==
    IInv /\ [Next]_vars => (Ticked => Ticked') /\ (spent.late => spent'.late)
<1> SUFFICES ASSUME IInv, [Next]_vars
             PROVE  (Ticked => Ticked') /\ (spent.late => spent'.late)
  OBVIOUS
<1> USE DEF IInv, RestOK, Ticked
<1>1. ASSUME NEW t \in Tasks, Get(t)
      PROVE  (Ticked => Ticked') /\ (spent.late => spent'.late)
  BY <1>1 DEF Get
<1>2. ASSUME NEW t \in Tasks, Noop(t)
      PROVE  (Ticked => Ticked') /\ (spent.late => spent'.late)
  BY <1>2 DEF Noop
<1>3. ASSUME NEW t \in Tasks, D0Init(t)
      PROVE  (Ticked => Ticked') /\ (spent.late => spent'.late)
  BY <1>3 DEF D0Init
<1>4. ASSUME NEW t \in Tasks, D1ModeBranch(t)
      PROVE  (Ticked => Ticked') /\ (spent.late => spent'.late)
  BY <1>4 DEF D1ModeBranch
<1>5. ASSUME NEW t \in Tasks, D2PreValidate(t)
      PROVE  (Ticked => Ticked') /\ (spent.late => spent'.late)
  BY <1>5 DEF D2PreValidate
<1>6. ASSUME NEW t \in Tasks, D3PutPrompt(t)
      PROVE  (Ticked => Ticked') /\ (spent.late => spent'.late)
  BY <1>6 DEF D3PutPrompt
<1>7. ASSUME NEW t \in Tasks, D3ReadGates(t)
      PROVE  (Ticked => Ticked') /\ (spent.late => spent'.late)
  BY <1>7 DEF D3ReadGates
<1>8. ASSUME NEW t \in Tasks, D3WriteGates(t)
      PROVE  (Ticked => Ticked') /\ (spent.late => spent'.late)
  BY <1>8 DEF D3WriteGates
<1>9. ASSUME NEW t \in Tasks, D3Transition(t)
      PROVE  (Ticked => Ticked') /\ (spent.late => spent'.late)
  BY <1>9 DEF D3Transition
<1>10. ASSUME NEW t \in Tasks, D4Redo(t)
       PROVE  (Ticked => Ticked') /\ (spent.late => spent'.late)
  BY <1>10 DEF D4Redo
<1>11. ASSUME NEW t \in Tasks, D4Recovered(t)
       PROVE  (Ticked => Ticked') /\ (spent.late => spent'.late)
  BY <1>11 DEF D4Recovered
<1>12. ASSUME NEW t \in Tasks, D4Run(t)
       PROVE  (Ticked => Ticked') /\ (spent.late => spent'.late)
  BY <1>12 DEF D4Run
<1>13. ASSUME NEW t \in Tasks, D4AgentWrites(t)
       PROVE  (Ticked => Ticked') /\ (spent.late => spent'.late)
  BY <1>13 DEF D4AgentWrites
<1>14. ASSUME NEW t \in Tasks, D4Succeeded(t)
       PROVE  (Ticked => Ticked') /\ (spent.late => spent'.late)
  BY <1>14 DEF D4Succeeded
<1>15. ASSUME NEW t \in Tasks, D4Failed(t)
       PROVE  (Ticked => Ticked') /\ (spent.late => spent'.late)
  BY <1>15 DEF D4Failed
<1>16. ASSUME NEW t \in Tasks, D45Mockup(t)
       PROVE  (Ticked => Ticked') /\ (spent.late => spent'.late)
  BY <1>16 DEF D45Mockup
<1>17. ASSUME NEW t \in Tasks, D5PostValidate(t)
       PROVE  (Ticked => Ticked') /\ (spent.late => spent'.late)
  BY <1>17 DEF D5PostValidate
<1>18. ASSUME NEW t \in Tasks, D6Check(t)
       PROVE  (Ticked => Ticked') /\ (spent.late => spent'.late)
  BY <1>18 DEF D6Check
<1>19. ASSUME NEW t \in Tasks, D6Put(t)
       PROVE  (Ticked => Ticked') /\ (spent.late => spent'.late)
  BY <1>19 DEF D6Put
<1>20. ASSUME NEW t \in Tasks, D6Insert(t)
       PROVE  (Ticked => Ticked') /\ (spent.late => spent'.late)
  BY <1>20 DEF D6Insert
<1>21. ASSUME NEW t \in Tasks, D6Publish(t)
       PROVE  (Ticked => Ticked') /\ (spent.late => spent'.late)
  BY <1>21 DEF D6Publish
<1>22. ASSUME NEW t \in Tasks, D6Complete(t)
       PROVE  (Ticked => Ticked') /\ (spent.late => spent'.late)
  BY <1>22 DEF D6Complete
<1>23. ASSUME NEW t \in Tasks, NEW w \in Works, RequestTick(t, w)
       PROVE  (Ticked => Ticked') /\ (spent.late => spent'.late)
  BY <1>23 DEF RequestTick
<1>24. ASSUME NEW c \in Clients, NEW w \in Works, Create(c, w)
       PROVE  (Ticked => Ticked') /\ (spent.late => spent'.late)
  BY <1>24 DEF Create
<1>25. ASSUME NEW c \in Clients, NEW w \in Works, CancelRead(c, w)
       PROVE  (Ticked => Ticked') /\ (spent.late => spent'.late)
  BY <1>25, EventTyped DEF CancelRead
<1>26. ASSUME NEW c \in Clients, NEW w \in Works, RerunRead(c, w)
       PROVE  (Ticked => Ticked') /\ (spent.late => spent'.late)
  BY <1>26, EventTyped DEF RerunRead
<1>27. ASSUME NEW c \in Clients, NEW w \in Works, DeleteRead(c, w)
       PROVE  (Ticked => Ticked') /\ (spent.late => spent'.late)
  BY <1>27, EventTyped DEF DeleteRead
<1>28. ASSUME NEW c \in Clients, NEW source \in Works, NEW w \in Works, Retry(c, source, w)
       PROVE  (Ticked => Ticked') /\ (spent.late => spent'.late)
  BY <1>28 DEF Retry
<1>29. ASSUME NEW c \in Clients, Schedule(c)
       PROVE  (Ticked => Ticked') /\ (spent.late => spent'.late)
  BY <1>29 DEF Schedule
<1>30. ASSUME NEW c \in Clients, CancelWrite(c)
       PROVE  (Ticked => Ticked') /\ (spent.late => spent'.late)
  BY <1>30 DEF CancelWrite
<1>31. ASSUME NEW c \in Clients, CancelKill(c)
       PROVE  (Ticked => Ticked') /\ (spent.late => spent'.late)
  BY <1>31 DEF CancelKill
<1>32. ASSUME NEW c \in Clients, RerunWrite(c)
       PROVE  (Ticked => Ticked') /\ (spent.late => spent'.late)
  BY <1>32 DEF RerunWrite
<1>33. ASSUME NEW c \in Clients, DeleteFiles(c)
       PROVE  (Ticked => Ticked') /\ (spent.late => spent'.late)
  BY <1>33 DEF DeleteFiles
<1>34. ASSUME NEW c \in Clients, DeleteRows(c)
       PROVE  (Ticked => Ticked') /\ (spent.late => spent'.late)
  BY <1>34 DEF DeleteRows
<1>35. CASE Crash
  BY <1>35, EventTyped DEF Crash
<1>36. ASSUME NEW w \in Works, LateWrite(w)
       PROVE  (Ticked => Ticked') /\ (spent.late => spent'.late)
  BY <1>36 DEF LateWrite
<1>37. ASSUME NEW w \in Works, PromptLost(w)
       PROVE  (Ticked => Ticked') /\ (spent.late => spent'.late)
  BY <1>37, EventTyped DEF PromptLost
<1>38. CASE UNCHANGED vars
  BY <1>38 DEF vars
<1> QED
  BY <1>1, <1>2, <1>3, <1>4, <1>5, <1>6, <1>7, <1>8, <1>9, <1>10, <1>11, <1>12, <1>13,
     <1>14, <1>15, <1>16, <1>17, <1>18, <1>19, <1>20, <1>21, <1>22, <1>23, <1>24,
     <1>25, <1>26, <1>27, <1>28, <1>29, <1>30, <1>31, <1>32, <1>33, <1>34, <1>35,
     <1>36, <1>37, <1>38
  DEF Next, Handler, Call

(* cancel, schedule_driver and _on_done keep the register true for any     *)
(* number of DesignWorks and calls: while no request to /tick has been     *)
(* made, no driver works behind the back of _running, nor on a loop count  *)
(* that has changed.                                                       *)
THEOREM DriversRegistered == Spec => [](Registered /\ Counted)
<1>1. Init => Registered /\ Counted
  BY NoTaskIs DEF Init, Registered, Counted, Working
<1>2. IInv /\ Registered /\ Counted /\ [Next]_vars => (Registered /\ Counted)'
  <2> SUFFICES ASSUME IInv, Registered, Counted, [Next]_vars PROVE (Registered
  /\ Counted)'
    OBVIOUS
  <2>1. CASE Ticked'
    BY <2>1 DEF Registered, Counted
  <2>2. CASE ~Ticked'
    <3>1. ~Ticked
      BY <2>2, SpentStays
    <3>2. RowMoves /\ TasksMove
      BY <2>2, <3>1, HowRowsMove, HowTasksMove
    <3> QED
      BY <3>1, <3>2, <2>2, RegisteredStep, CountedStep
  <2> QED
    BY <2>1, <2>2
<1> QED
  BY <1>1, <1>2, Invariance, PTL DEF Spec

(* _transition and _loop_or_escalate: between cancels, an active           *)
(* DesignWork never goes back to an earlier stage of the same loop, other  *)
(* than for a lost prompt, while no request to /tick has been made.        *)
THEOREM StagesForward == Spec => StagesMoveForward
<1>1. IInv /\ Counted /\ [Next]_vars => [\A w \in Works :
        {rows[w].state, rows'[w].state} \subseteq Active /\ ~Ticked
        => Forward(rows[w], rows'[w])]_vars
  BY HowRowsMove, ForwardStep
<1> QED
  BY <1>1, Invariance, DriversRegistered, PTL DEF Spec, StagesMoveForward

(* A call that goes on keeps what it has read; one that begins reads the   *)
(* row as it is, and a rerun finds it CANCELLED and no driver registered.  *)
Holds(c) == /\ calls[c].pc # "idle" /\ calls'[c].w = calls[c].w
            /\ calls'[c].row = calls[c].row
            /\ \/ calls'[c].pc = calls[c].pc
               \/ calls[c].pc = "rerun" /\ calls'[c].pc = "schedule"
               \/ calls'[c].pc \in {"kill", "delete_rows"}
Asks(c) == /\ tasks' = tasks
           /\ \/ calls'[c].pc = "schedule" /\ ~Begun(calls'[c].w)
              \/ /\ calls'[c].pc \in {"cancel", "rerun", "delete"} /\ rows' = rows
                 /\ calls'[c].w \in Works /\ calls'[c].row = Snap(calls'[c].w)
                 /\ calls'[c].pc = "rerun" =>
                        /\ rows[calls'[c].w].state = "CANCELLED"
                        /\ running[calls'[c].w] = None

(* Nothing else moves a call.                                              *)
CallMove(c) == calls'[c].pc # "idle" => Holds(c) \/ Asks(c)
CallsMove == \A c \in Clients : CallMove(c)

(* A call left alone.                                                      *)
LEMMA SameHolds == ASSUME NEW c \in Clients, calls'[c] = calls[c] PROVE CallMove(c)
  BY DEF CallMove, Holds

(* A step of one call.                                                     *)
LEMMA OneCallMoves ==
    ASSUME NEW c \in Clients, CallMove(c), \A d \in Clients \ {c} : calls'[d] = calls[d]
    PROVE  CallsMove
  BY SameHolds DEF CallsMove

(* A call that ends.                                                       *)
LEMMA DoneMoves == ASSUME CallsOK, NEW c \in Clients, Done(c) PROVE CallsMove
<1>1. CallMove(c) /\ \A d \in Clients \ {c} : calls'[d] = calls[d]
  BY NoCallIs DEF Done, CallsOK, CallMove
<1> QED
  BY <1>1, OneCallMoves

(* Every step moves each call in one of these ways.                        *)
LEMMA HowCallsMove == IInv /\ [Next]_vars => CallsMove
<1> SUFFICES ASSUME IInv, [Next]_vars PROVE CallsMove
  OBVIOUS
<1> USE DEF IInv, CallsMove
<1>1. ASSUME NEW t \in Tasks, Get(t) \/ Handler(t) PROVE CallsMove
  BY <1>1, TaskKeeps, SameHolds
<1>2. ASSUME NEW t \in Tasks, NEW w \in Works, RequestTick(t, w) PROVE CallsMove
  BY <1>2, SameHolds DEF RequestTick
<1>3. ASSUME NEW c \in Clients, NEW w \in Works, Create(c, w) PROVE CallsMove
  <2>1. \A d \in Clients \ {c} : calls'[d] = calls[d]
    BY <1>3 DEF Create, Ask, CallsOK
  <2>2. Asks(c)
    BY <1>3 DEF Create, Ask, Asks, Begun, CallsOK, IsRunning
  <2> QED
    BY <2>1, <2>2, OneCallMoves DEF CallMove
<1>4. ASSUME NEW c \in Clients, NEW w \in Works, CancelRead(c, w) PROVE CallsMove
  <2>1. \A d \in Clients \ {c} : calls'[d] = calls[d]
    BY <1>4 DEF CancelRead, Ask, CallsOK
  <2>2. Asks(c)
    BY <1>4 DEF CancelRead, Ask, Asks, Begun, CallsOK, IsRunning
  <2> QED
    BY <2>1, <2>2, OneCallMoves DEF CallMove
<1>5. ASSUME NEW c \in Clients, NEW w \in Works, RerunRead(c, w) PROVE CallsMove
  <2>1. \A d \in Clients \ {c} : calls'[d] = calls[d]
    BY <1>5 DEF RerunRead, Ask, CallsOK
  <2>2. Asks(c)
    BY <1>5 DEF RerunRead, Ask, Asks, Begun, CallsOK, IsRunning
  <2> QED
    BY <2>1, <2>2, OneCallMoves DEF CallMove
<1>6. ASSUME NEW c \in Clients, NEW w \in Works, DeleteRead(c, w) PROVE CallsMove
  <2>1. \A d \in Clients \ {c} : calls'[d] = calls[d]
    BY <1>6 DEF DeleteRead, Ask, CallsOK
  <2>2. Asks(c)
    BY <1>6 DEF DeleteRead, Ask, Asks, Begun, CallsOK, IsRunning
  <2> QED
    BY <2>1, <2>2, OneCallMoves DEF CallMove
<1>7. ASSUME NEW c \in Clients, NEW source \in Works, NEW w \in Works, Retry(c, source, w)
      PROVE  CallsMove
  <2>1. \A d \in Clients \ {c} : calls'[d] = calls[d]
    BY <1>7 DEF Retry, Ask, CallsOK
  <2>2. Asks(c)
    BY <1>7 DEF Retry, Ask, Asks, Begun, CallsOK, IsRunning
  <2> QED
    BY <2>1, <2>2, OneCallMoves DEF CallMove
<1>8. ASSUME NEW c \in Clients, Schedule(c) PROVE CallsMove
  BY <1>8, DoneMoves DEF Schedule, CallsMove
<1>9. ASSUME NEW c \in Clients, CancelWrite(c) PROVE CallsMove
  <2>1. CASE Done(c)
    BY <2>1, DoneMoves DEF CallsMove
  <2>2. CASE ~Done(c)
    <3>1. \A d \in Clients \ {c} : calls'[d] = calls[d]
      BY <1>9, <2>2 DEF CancelWrite, CallsOK
    <3>2. Holds(c)
      BY <1>9, <2>2 DEF CancelWrite, CallAt, Holds, CallsOK, CallType
    <3> QED
      BY <3>1, <3>2, OneCallMoves DEF CallMove
  <2> QED
    BY <2>1, <2>2
<1>10. ASSUME NEW c \in Clients, CancelKill(c) PROVE CallsMove
  BY <1>10, DoneMoves DEF CancelKill, CallsMove
<1>11. ASSUME NEW c \in Clients, RerunWrite(c) PROVE CallsMove
  <2>1. CASE Done(c)
    BY <2>1, DoneMoves DEF CallsMove
  <2>2. CASE ~Done(c)
    <3>1. \A d \in Clients \ {c} : calls'[d] = calls[d]
      BY <1>11, <2>2 DEF RerunWrite, CallsOK
    <3>2. Holds(c)
      BY <1>11, <2>2 DEF RerunWrite, CallAt, Holds, CallsOK, CallType
    <3> QED
      BY <3>1, <3>2, OneCallMoves DEF CallMove
  <2> QED
    BY <2>1, <2>2
<1>12. ASSUME NEW c \in Clients, DeleteFiles(c) PROVE CallsMove
  <2>1. CASE Done(c)
    BY <2>1, DoneMoves DEF CallsMove
  <2>2. CASE ~Done(c)
    <3>1. \A d \in Clients \ {c} : calls'[d] = calls[d]
      BY <1>12, <2>2 DEF DeleteFiles, CallsOK
    <3>2. Holds(c)
      BY <1>12, <2>2 DEF DeleteFiles, CallAt, Holds, CallsOK, CallType
    <3> QED
      BY <3>1, <3>2, OneCallMoves DEF CallMove
  <2> QED
    BY <2>1, <2>2
<1>13. ASSUME NEW c \in Clients, DeleteRows(c) PROVE CallsMove
  BY <1>13, DoneMoves DEF DeleteRows, CallsMove
<1>14. CASE Crash
  BY <1>14, NoCallIs DEF Crash, CallMove
<1>15. ASSUME NEW w \in Works, LateWrite(w) PROVE CallsMove
  BY <1>15, SameHolds DEF LateWrite
<1>16. ASSUME NEW w \in Works, PromptLost(w) PROVE CallsMove
  BY <1>16, SameHolds DEF PromptLost
<1>17. CASE UNCHANGED vars
  BY <1>17, SameHolds DEF vars
<1> QED
  BY <1>1, <1>2, <1>3, <1>4, <1>5, <1>6, <1>7, <1>8, <1>9, <1>10, <1>11, <1>12, <1>13,
     <1>14, <1>15, <1>16, <1>17
  DEF Next, Call

(* Output files come from an agent that a task awaits, or from the         *)
(* put_markdown of D6; documents from its INSERT.                          *)
Rewritten(s) == \E t \in Tasks : Working(t) /\ Slug(W(t)) = s /\
    (At(t, "llm") \/ (At(t, "put") /\ output'[s] = tasks[t].text))
Inserted(s) == \E t \in Tasks : /\ At(t, "insert") /\ Slug(W(t)) = s
                                /\ docs'[s].by = W(t) /\ docs'[s].text = tasks[t].text

(* Apart from late agents, nothing else writes either.                     *)
FilesMove == \A s \in Slugs :
    /\ spent'.late \/ output'[s] \in {output[s], None} \/ Rewritten(s)
    /\ \/ docs'[s] = docs[s]
       \/ docs[s] # None /\ docs'[s].by = docs[s].by /\ docs'[s].text = docs[s].text
       \/ Inserted(s)

(* Every step writes files and documents in one of these ways.             *)
LEMMA HowFilesMove == IInv /\ [Next]_vars => FilesMove
<1> SUFFICES ASSUME IInv, [Next]_vars PROVE FilesMove
  OBVIOUS
<1> USE DEF IInv, FilesOK, FilesMove
<1>1. ASSUME NEW t \in Tasks, Get(t) PROVE FilesMove
  BY <1>1 DEF Get
<1>2. ASSUME NEW t \in Tasks, Noop(t) PROVE FilesMove
  BY <1>2 DEF Noop
<1>3. ASSUME NEW t \in Tasks, D0Init(t) PROVE FilesMove
  BY <1>3 DEF D0Init
<1>4. ASSUME NEW t \in Tasks, D1ModeBranch(t) PROVE FilesMove
  BY <1>4 DEF D1ModeBranch
<1>5. ASSUME NEW t \in Tasks, D2PreValidate(t) PROVE FilesMove
  BY <1>5 DEF D2PreValidate
<1>6. ASSUME NEW t \in Tasks, D3PutPrompt(t) PROVE FilesMove
  BY <1>6 DEF D3PutPrompt
<1>7. ASSUME NEW t \in Tasks, D3ReadGates(t) PROVE FilesMove
  BY <1>7 DEF D3ReadGates
<1>8. ASSUME NEW t \in Tasks, D3WriteGates(t) PROVE FilesMove
  BY <1>8 DEF D3WriteGates
<1>9. ASSUME NEW t \in Tasks, D3Transition(t) PROVE FilesMove
  BY <1>9 DEF D3Transition
<1>10. ASSUME NEW t \in Tasks, D4Redo(t) PROVE FilesMove
  BY <1>10 DEF D4Redo
<1>11. ASSUME NEW t \in Tasks, D4Recovered(t) PROVE FilesMove
  BY <1>11 DEF D4Recovered
<1>12. ASSUME NEW t \in Tasks, D4Run(t) PROVE FilesMove
  BY <1>12 DEF D4Run
<1>13. ASSUME NEW t \in Tasks, D4AgentWrites(t) PROVE FilesMove
  BY <1>13 DEF D4AgentWrites, Write, At, Rewritten, Working
<1>14. ASSUME NEW t \in Tasks, D4Succeeded(t) PROVE FilesMove
  BY <1>14 DEF D4Succeeded
<1>15. ASSUME NEW t \in Tasks, D4Failed(t) PROVE FilesMove
  BY <1>15 DEF D4Failed
<1>16. ASSUME NEW t \in Tasks, D45Mockup(t) PROVE FilesMove
  BY <1>16 DEF D45Mockup
<1>17. ASSUME NEW t \in Tasks, D5PostValidate(t) PROVE FilesMove
  BY <1>17 DEF D5PostValidate
<1>18. ASSUME NEW t \in Tasks, D6Check(t) PROVE FilesMove
  BY <1>18 DEF D6Check
<1>19. ASSUME NEW t \in Tasks, D6Put(t) PROVE FilesMove
  BY <1>19 DEF D6Put, Write, At, Rewritten, Working
<1>20. ASSUME NEW t \in Tasks, D6Insert(t) PROVE FilesMove
  <2>1. CASE docs[Slug(W(t))] = None
    <3> DEFINE s == Slug(W(t))
               d == [text |-> tasks[t].text, by |-> W(t), status |-> "draft"]
    <3>1. docs' = [docs EXCEPT ![s] = d] /\ output' = output /\ At(t, "insert")
      BY <1>20, <2>1 DEF D6Insert
    <3>2. d.by = W(t) /\ d.text = tasks[t].text
      OBVIOUS
    <3>3. s \in Slugs
      BY <3>1, BeganTask DEF RowsOK, At
    <3>4. docs'[s] = d /\ \A r \in Slugs \ {s} : docs'[r] = docs[r]
      BY <3>1, <3>3
    <3>5. Inserted(s)
      BY <3>1, <3>2, <3>4 DEF Inserted
    <3> QED
      BY <3>1, <3>4, <3>5
  <2>2. CASE docs[Slug(W(t))] # None
    BY <1>20, <2>2 DEF D6Insert
  <2> QED
    BY <2>1, <2>2
<1>21. ASSUME NEW t \in Tasks, D6Publish(t) PROVE FilesMove
  <2>1. W(t) \in Works /\ Slug(W(t)) \in Slugs /\ docs[Slug(W(t))] \in DocType
    BY <1>21, BeganTask DEF D6Publish, At, TasksOK, Fine, RowsOK
  <2> DEFINE d == [docs[Slug(W(t))] EXCEPT !.status = "published"]
  <2>2. /\ docs[Slug(W(t))] # None
        /\ d.by = docs[Slug(W(t))].by /\ d.text = docs[Slug(W(t))].text
    BY <2>1, DesignWorkAssumption DEF DocType
  <2>3. docs' = [docs EXCEPT ![Slug(W(t))] = d] /\ output' = output
    BY <1>21, <2>1 DEF D6Publish
  <2>4. docs'[Slug(W(t))] = d /\ \A s \in Slugs \ {Slug(W(t))} : docs'[s] = docs[s]
    BY <2>1, <2>3
  <2> QED
    BY <2>2, <2>3, <2>4
<1>22. ASSUME NEW t \in Tasks, D6Complete(t) PROVE FilesMove
  BY <1>22 DEF D6Complete
<1>23. ASSUME NEW t \in Tasks, NEW w \in Works, RequestTick(t, w) PROVE FilesMove
  BY <1>23 DEF RequestTick
<1>24. ASSUME NEW c \in Clients, NEW w \in Works, Create(c, w) PROVE FilesMove
  BY <1>24 DEF Create
<1>25. ASSUME NEW c \in Clients, NEW w \in Works, CancelRead(c, w) PROVE FilesMove
  BY <1>25 DEF CancelRead
<1>26. ASSUME NEW c \in Clients, NEW w \in Works, RerunRead(c, w) PROVE FilesMove
  BY <1>26 DEF RerunRead
<1>27. ASSUME NEW c \in Clients, NEW w \in Works, DeleteRead(c, w) PROVE FilesMove
  BY <1>27 DEF DeleteRead
<1>28. ASSUME NEW c \in Clients, NEW source \in Works, NEW w \in Works, Retry(c, source, w)
       PROVE  FilesMove
  BY <1>28 DEF Retry
<1>29. ASSUME NEW c \in Clients, Schedule(c) PROVE FilesMove
  BY <1>29 DEF Schedule
<1>30. ASSUME NEW c \in Clients, CancelWrite(c) PROVE FilesMove
  BY <1>30 DEF CancelWrite
<1>31. ASSUME NEW c \in Clients, CancelKill(c) PROVE FilesMove
  BY <1>31 DEF CancelKill
<1>32. ASSUME NEW c \in Clients, RerunWrite(c) PROVE FilesMove
  BY <1>32 DEF RerunWrite
<1>33. ASSUME NEW c \in Clients, DeleteFiles(c) PROVE FilesMove
  BY <1>33 DEF DeleteFiles
<1>34. ASSUME NEW c \in Clients, DeleteRows(c) PROVE FilesMove
  BY <1>34 DEF DeleteRows
<1>35. CASE Crash
  BY <1>35 DEF Crash
<1>36. ASSUME NEW w \in Works, LateWrite(w) PROVE FilesMove
  BY <1>36 DEF LateWrite, RestOK
<1>37. ASSUME NEW w \in Works, PromptLost(w) PROVE FilesMove
  BY <1>37 DEF PromptLost
<1>38. CASE UNCHANGED vars
  BY <1>38 DEF vars
<1> QED
  BY <1>1, <1>2, <1>3, <1>4, <1>5, <1>6, <1>7, <1>8, <1>9, <1>10, <1>11, <1>12, <1>13,
     <1>14, <1>15, <1>16, <1>17, <1>18, <1>19, <1>20, <1>21, <1>22, <1>23, <1>24,
     <1>25, <1>26, <1>27, <1>28, <1>29, <1>30, <1>31, <1>32, <1>33, <1>34, <1>35,
     <1>36, <1>37, <1>38
  DEF Next, Handler, Call

(* From here on: one operator call at a time, requests to /tick excluded.  *)
(* With two, a schedule that is delayed past another rerun starts a driver *)
(* beside the one that D6 has unregistered.                                *)
OneCall == \E c \in Clients : Clients = {c}

(* A document names the DesignWork that wrote it, whose slug it has.       *)
Signed == \A s \in Slugs : docs[s] # None =>
    docs[s].by \in Works /\ Begun(docs[s].by) /\ Slug(docs[s].by) = s

(* What a rerun relies on until its driver is started: no task of the      *)
(* DesignWork is alive, the row is still as it was read, and tasks of one  *)
(* DesignWork are one task.                                                *)
Fresh == \A c \in Clients : calls[c].pc \in {"rerun", "schedule"} =>
    \A t \in Tasks : tasks[t].pc # "off" => W(t) # Of(c)
Asked == \A c \in Clients : CallAt(c, "rerun") =>
    rows[Of(c)].state = "CANCELLED" /\ calls[c].row.from = rows[Of(c)].from
Sole == \A t, u \in Tasks :
    tasks[t].pc # "off" /\ tasks[u].pc # "off" /\ W(t) = W(u) => t = u
Calm == ~Ticked => Fresh /\ Asked /\ Sole

(* The DesignWork has passed D5: its row, a task or a cancel under way     *)
(* says PERSIST, as the state or as where a rerun will go back to.         *)
Arrived(w) == /\ Begun(w)
              /\ \/ "PERSIST" \in {rows[w].state, rows[w].from}
                 \/ \E t \in Tasks : /\ Working(t) /\ W(t) = w
                                     /\ "PERSIST" \in {Seen(t).state, Seen(t).from}
                 \/ \E c \in Clients : /\ CallAt(c, "cancel") /\ Of(c) = w
                                       /\ calls[c].row.state = "PERSIST"

(* What follows from there: it stays in PERSIST or is over, its task is in *)
(* D6, and what is on the disk and in the task's hands has passed.         *)
Ready(w) ==
    /\ rows[w].state \in {"PERSIST", "DELETED"} \cup Terminal
    /\ \A t \in Tasks : Working(t) /\ W(t) = w =>
           /\ Seen(t).state = "PERSIST"
           /\ tasks[t].pc \in {"put", "insert"} => tasks[t].text.valid
    /\ output[Slug(w)] # None => output[Slug(w)].valid

(* A DesignWork whose slug no other one shares is ready once it has        *)
(* arrived, and what it publishes is valid.                                *)
Settled == ~Ticked /\ ~spent.late => \A w \in Works : Own(w) /\ Arrived(w) => Ready(w)
Valid == ~Ticked /\ ~spent.late =>
    \A s \in Slugs : docs[s] # None /\ Own(docs[s].by) => docs[s].text.valid

(* All that a step does.                                                   *)
Moves == RowsKept /\ RowMoves /\ TasksMove /\ CallsMove /\ FilesMove

(* Every step, unless it is a request to /tick, does only that.            *)
LEMMA HowStepsMove == IInv /\ ~Ticked' /\ [Next]_vars => Moves
  BY IStep, HowRowsMove, HowTasksMove, HowCallsMove, HowFilesMove DEF Moves

(* Documents stay signed: D6 inserts its own.                              *)
LEMMA SignedStep == IInv /\ Signed /\ [Next]_vars => Signed'
<1> SUFFICES ASSUME IInv, Signed, [Next]_vars, NEW s \in Slugs, docs'[s] # None
             PROVE  (docs[s].by \in Works /\ Begun(docs[s].by) /\ Slug(docs[s].by) = s)'
  BY DEF Signed
<1>1. RowsKept /\ FilesMove
  BY IStep, HowFilesMove
<1>2. docs'[s].by \in Works /\ Begun(docs'[s].by) /\ Slug(docs'[s].by) = s
  <2>1. CASE docs'[s] = docs[s] \/ (docs[s] # None /\ docs'[s].by = docs[s].by)
    BY <2>1 DEF Signed
  <2>2. CASE Inserted(s)
    BY <2>2, BeganTask DEF Inserted, At, IInv
  <2> QED
    BY <1>1, <2>1, <2>2 DEF FilesMove
<1> QED
  BY <1>1, <1>2 DEF RowsKept, Begun, Slug

(* A task is started by a schedule only, and then no other of the          *)
(* DesignWork is alive.                                                    *)
LEMMA SoleStep ==
    ASSUME IInv, Fresh, Sole, TasksMove
    PROVE  Sole'
<1> SUFFICES ASSUME NEW t \in Tasks, NEW u \in Tasks,
                    tasks'[t].pc # "off", tasks'[u].pc # "off",
                    tasks'[t].w = tasks'[u].w
             PROVE  t = u
  BY DEF Sole, W
<1>1. ASSUME NEW x \in Tasks, NEW y \in Tasks, Scheduled(x), x # y, tasks'[y].pc # "off",
             tasks'[x].w = tasks'[y].w
      PROVE  FALSE
  BY <1>1 DEF Scheduled, Fresh, CallAt, W
<1>2. CASE Lives(t) /\ Lives(u)
  BY <1>2 DEF Lives, Sole, W
<1> QED
  BY <1>1, <1>2 DEF TasksMove, TaskMove

(* A rerun that begins finds no driver registered and the state CANCELLED, *)
(* so no task of the DesignWork is alive, not even one that has left; none *)
(* starts before the call itself starts it.                                *)
LEMMA FreshStep ==
    ASSUME OneCall, IInv, Registered, ~Ticked, Fresh, TasksMove, CallsMove
    PROVE  Fresh'
<1> SUFFICES ASSUME NEW c \in Clients, calls'[c].pc \in {"rerun", "schedule"},
                    NEW t \in Tasks, tasks'[t].pc # "off", tasks'[t].w = calls'[c].w
             PROVE  FALSE
  BY DEF Fresh, W, Of
<1>1. CASE Holds(c)
  <2>1. calls[c].pc \in {"rerun", "schedule"} /\ calls'[c].w = Of(c)
    BY <1>1 DEF Holds, Of
  <2>2. CASE Lives(t)
    BY <2>1, <2>2 DEF Lives, Fresh, W
  <2>3. CASE Scheduled(t)
    <3>1. calls' = [calls EXCEPT ![c] = NoCall]
      BY <2>3 DEF OneCall, Scheduled
    <3> QED
      BY <3>1, NoCallIs DEF IInv, CallsOK
  <2> QED
    BY <2>2, <2>3 DEF TasksMove, TaskMove
<1>2. CASE Asks(c)
  <2>1. tasks[t].pc # "off" /\ W(t) = calls'[c].w
    BY <1>2 DEF Asks, W
  <2>2. W(t) \in Works /\ Begun(W(t))
    BY <2>1, BeganTask DEF IInv
  <2>3. rows[W(t)].state = "CANCELLED" /\ running[W(t)] = None
    BY <1>2, <2>1, <2>2 DEF Asks
  <2> QED
    BY <2>1, <2>3, DesignWorkAssumption DEF Registered, Left
<1> QED
  BY <1>1, <1>2 DEF CallsMove, CallMove

(* Nobody writes the row of a CANCELLED DesignWork without a task.         *)
LEMMA AskedStep ==
    ASSUME OneCall, IInv, Fresh, Asked, RowMoves, CallsMove
    PROVE  Asked'
<1> SUFFICES ASSUME NEW c \in Clients, calls'[c].pc = "rerun"
             PROVE  LET w == calls'[c].w IN
                    rows'[w].state = "CANCELLED" /\ calls'[c].row.from = rows'[w].from
  BY DEF Asked, CallAt, Of
<1>1. CASE Holds(c)
  <2> DEFINE w == Of(c)
  <2>1. CallAt(c, "rerun") /\ calls'[c].w = w /\ calls'[c].row = calls[c].row
        /\ w \in Works
    BY <1>1, BeganCall DEF Holds, CallAt, Of, IInv
  <2>2. \A t \in Tasks : ~TaskMoves(t, w)
    BY <2>1 DEF Fresh, TaskMoves, Working, CallAt
  <2>3. \A d \in Clients : ~CallMoves(d, w)
    BY <2>1 DEF OneCall, CallMoves, CallAt, Cancels, Reruns, Deletes
  <2>4. Same(w)
    BY <2>1, <2>2, <2>3 DEF RowMoves, Born, Asked, Begun
  <2> QED
    BY <2>1, <2>4 DEF Same, Keeps, Asked
<1>2. CASE Asks(c)
  BY <1>2, SnapIs DEF Asks, IInv, RowsOK
<1> QED
  BY <1>1, <1>2 DEF CallsMove, CallMove

(* So the calm is kept, one call at a time.                                *)
LEMMA CalmStep == OneCall /\ IInv /\ Registered /\ Calm /\ [Next]_vars => Calm'
<1> SUFFICES ASSUME OneCall, IInv, Registered, Calm, [Next]_vars, ~Ticked'
             PROVE  (Fresh /\ Asked /\ Sole)'
  BY DEF Calm
<1>1. ~Ticked /\ Moves
  BY SpentStays, HowStepsMove
<1> QED
  BY <1>1, SoleStep, FreshStep, AskedStep DEF Calm, Moves

(* A slug that is the DesignWork's own now was its own before.             *)
LEMMA OwnBefore ==
    ASSUME IInv, RowsKept, NEW w \in Works, Begun(w), Own(w)'
    PROVE  Own(w)
<1> SUFFICES ASSUME NEW v \in Works \ {w}, Slug(v) = Slug(w) PROVE FALSE
  BY DEF Own
<1>1. Begun(v)
  BY DEF IInv, RowsOK
<1> QED
  BY <1>1 DEF RowsKept, Own, Slug

(* A DesignWork arrives by D5 only: by a task of its own that moves it to  *)
(* PERSIST.  A rerun goes back to PERSIST only where it was cancelled      *)
(* there.                                                                  *)
LEMMA ArrivesNow ==
    ASSUME IInv, Moves, Asked, NEW w \in Works, ~Arrived(w), Arrived(w)'
    PROVE  Begun(w) /\ \E t \in Tasks : TaskMoves(t, w) /\ Advances(t, w)
                                        /\ rows'[w].state = "PERSIST"
<1>1. ASSUME NEW t \in Tasks, Working(t)', tasks'[t].w = w,
             "PERSIST" \in {tasks'[t].row.state, tasks'[t].row.from}
      PROVE  FALSE
  <2>1. tasks[t].pc # "off" /\ W(t) = w /\ Begun(w)
    BY <1>1, BeganTask DEF Moves, TasksMove, TaskMove, Carries, Starts, At, W, Working, IInv
  <2>2. CASE Carries(t)
    BY <1>1, <2>1, <2>2 DEF Carries, Arrived, Seen
  <2>3. CASE Starts(t)
    <3>1. tasks'[t].row = Snap(w)
      BY <2>1, <2>3 DEF Starts
    <3>2. Snap(w).state = rows[w].state /\ Snap(w).from = rows[w].from
      BY SnapIs DEF IInv, RowsOK
    <3> QED
      BY <1>1, <2>1, <3>1, <3>2 DEF Arrived
  <2> QED
    BY <1>1, <2>2, <2>3 DEF Moves, TasksMove, TaskMove
<1>2. ASSUME NEW c \in Clients, calls'[c].pc = "cancel", calls'[c].w = w,
             calls'[c].row.state = "PERSIST"
      PROVE  FALSE
  <2>1. CASE Holds(c)
    BY <1>2, <2>1, BeganCall DEF Holds, Arrived, CallAt, Of, IInv
  <2>2. CASE Asks(c)
    BY <1>2, <2>2, SnapTyped, ActiveIs DEF Asks, Arrived, IInv, RowsOK, Begun
  <2> QED
    BY <1>2, <2>1, <2>2 DEF Moves, CallsMove, CallMove
<1>3. "PERSIST" \in {rows'[w].state, rows'[w].from}
  BY <1>1, <1>2 DEF Arrived, CallAt, Of, W, Seen
<1>4. ~Same(w)
  BY <1>3 DEF Same, Keeps, Arrived, Begun
<1>5. ~Born(w)
  BY <1>3, ActiveIs, DesignWorkAssumption DEF Born, States
<1>6. ASSUME NEW c \in Clients, CallMoves(c, w) PROVE FALSE
  <2>1. calls[c].pc # "idle" /\ Of(c) = w /\ Begun(w)
    BY <1>6, BeganCall DEF CallMoves, Cancels, Reruns, Deletes, CallAt, IInv
  <2>2. "PERSIST" # None
    BY ActiveIs, DesignWorkAssumption DEF States
  <2>3. CASE Cancels(c, w)
    BY <1>3, <2>1, <2>3 DEF Cancels, Arrived
  <2>4. CASE Reruns(c, w)
    BY <1>3, <2>1, <2>2, <2>4 DEF Reruns, Asked, ResumeState, Arrived
  <2>5. CASE Deletes(c, w)
    BY <1>3, <2>2, <2>5 DEF Deletes
  <2> QED
    BY <1>6, <2>3, <2>4, <2>5 DEF CallMoves
<1>7. PICK t \in Tasks : TaskMoves(t, w)
  BY <1>4, <1>5, <1>6 DEF Moves, RowMoves
<1>8. Begun(w)
  BY <1>7, BeganTask DEF TaskMoves, Working, IInv
<1>9. Advances(t, w) /\ rows'[w].state = "PERSIST"
  BY <1>3, <1>7, <1>8 DEF TaskMoves, Advances, Regates, GivesUp, Loops, Completes,
     Keeps, Arrived
<1> QED
  BY <1>7, <1>8, <1>9

(* It is ready then: the file has just passed, and the task that moved it, *)
(* its only one, is in no handler.                                         *)
LEMMA ReadyWhenArriving ==
    ASSUME IInv, Moves, Sole, NEW w \in Works, Begun(w), NEW t \in Tasks, TaskMoves(t, w),
           Advances(t, w), rows'[w].state = "PERSIST"
    PROVE  Ready(w)'
<1>1. Working(t) /\ W(t) = w /\ ~Working(t)' /\ Passes(output[Slug(w)])
      /\ output' = output
  BY DEF TaskMoves, Advances
<1>2. ASSUME NEW u \in Tasks, Working(u)', tasks'[u].w = w PROVE FALSE
  <2>1. CASE Carries(u)
    BY <1>1, <1>2, <2>1 DEF Carries, Sole, W, Working
  <2>2. CASE Starts(u)
    BY <1>1, <1>2, <2>2 DEF Starts, Sole, W, Working, At
  <2> QED
    BY <1>2, <2>1, <2>2 DEF Moves, TasksMove, TaskMove
<1>3. Slug(w)' = Slug(w)
  BY DEF Moves, RowsKept
<1> QED
  BY <1>1, <1>2, <1>3 DEF Ready, Passes, W

(* It stays ready: nobody else writes to its slug, its task is in D6 and   *)
(* writes back the text that has passed, and a rerun resumes in PERSIST.   *)
LEMMA ReadyStays ==
    ASSUME OneCall, IInv, IInv', Moves, Fresh, Asked, ~spent'.late,
           NEW w \in Works, Own(w), Arrived(w), Ready(w)
    PROVE  Ready(w)'
<1>1. Begun(w) /\ Slug(w)' = Slug(w) /\ Slug(w) \in Slugs
  BY DEF Arrived, Moves, RowsKept, IInv, RowsOK
<1>2. \A t \in Tasks : Working(t) /\ W(t) = w
      => Seen(t).state = "PERSIST" /\ Placed(tasks[t])
  BY DEF Ready, IInv, TasksOK, Fine, Working
<1>3. rows'[w].state \in {"PERSIST", "DELETED"} \cup Terminal
  <2>1. ASSUME NEW t \in Tasks, TaskMoves(t, w) PROVE rows'[w].state = "COMPLETED"
    BY <1>2, <2>1 DEF TaskMoves, Advances, Regates, GivesUp, Loops, Completes, Edges,
       Placed,
        In, At, Seen
  <2>2. ASSUME NEW c \in Clients, Reruns(c, w), Of(c) = w
        PROVE  rows'[w].state = "PERSIST"
    <3>1. rows[w].from = "PERSIST"
      BY <2>2 DEF Arrived, Reruns, CallAt, Fresh, OneCall, Working
    <3>2. "PERSIST" # None
      BY ActiveIs, DesignWorkAssumption DEF States
    <3> QED
      BY <2>2, <3>1, <3>2 DEF Reruns, Asked, ResumeState
  <2>3. ASSUME NEW c \in Clients, CallMoves(c, w)
        PROVE  rows'[w].state \in {"PERSIST", "DELETED", "CANCELLED"}
    BY <2>2, <2>3 DEF CallMoves, Cancels, Deletes
  <2> QED
    BY <1>1, <2>1, <2>3 DEF Moves, RowMoves, Same, Born, Ready, Terminal
<1>4. ASSUME NEW u \in Tasks, Working(u)', tasks'[u].w = w
      PROVE  /\ tasks'[u].row.state = "PERSIST"
             /\ tasks'[u].pc \in {"put", "insert"} => tasks'[u].text.valid
  <2>1. CASE Carries(u)
    <3>1. Working(u) /\ W(u) = w
      BY <1>4, <2>1 DEF Carries, W
    <3>2. ASSUME tasks'[u].pc \in {"put", "insert"} PROVE tasks'[u].text.valid
      <4>1. tasks'[u].text # None
        BY <3>2 DEF IInv, TasksOK, Fine
      <4>2. CASE tasks'[u] = tasks[u]
        BY <3>1, <3>2, <4>2 DEF Ready
      <4>3. CASE tasks[u].pc = "put" /\ tasks'[u].text = tasks[u].text
        BY <3>1, <4>3 DEF Ready
      <4>4. CASE tasks'[u].text = output[Slug(w)]
        BY <4>1, <4>4 DEF Ready
      <4> QED
        BY <2>1, <3>1, <3>2, <4>2, <4>3, <4>4 DEF Carries
    <3> QED
      BY <1>2, <2>1, <3>1, <3>2 DEF Carries, Seen
  <2>2. CASE Starts(u)
    <3>1. W(u) = w /\ rows[w].state = "PERSIST"
      BY <1>4, <2>2, ActiveIs DEF Starts, W, Ready, Terminal
    <3> QED
      BY <2>2, <3>1, SnapTyped DEF Starts, IInv, RowsOK
  <2> QED
    BY <1>4, <2>1, <2>2 DEF Moves, TasksMove, TaskMove
<1>5. ASSUME output'[Slug(w)] # None PROVE output'[Slug(w)].valid
  <2>1. CASE output'[Slug(w)] = output[Slug(w)]
    BY <1>5, <2>1 DEF Ready
  <2>2. CASE Rewritten(Slug(w))
    <3>1. PICK t \in Tasks : Working(t) /\ Slug(W(t)) = Slug(w)
              /\ (At(t, "llm") \/ (At(t, "put") /\ output'[Slug(w)] = tasks[t].text))
      BY <2>2 DEF Rewritten
    <3>2. W(t) = w
      BY <3>1, BeganTask DEF Own, Working, IInv
    <3>3. ~At(t, "llm")
      BY <1>2, <3>1, <3>2 DEF Placed, At, Seen
    <3> QED
      BY <3>1, <3>2, <3>3 DEF Ready, At
  <2> QED
    BY <1>1, <1>5, <2>1, <2>2 DEF Moves, FilesMove
<1> QED
  BY <1>1, <1>3, <1>4, <1>5 DEF Ready, W, Seen

(* So what has arrived is ready after every step.                          *)
LEMMA SettledStep ==
    OneCall /\ IInv /\ Registered /\ Calm /\ Settled /\ [Next]_vars => Settled'
<1> SUFFICES ASSUME OneCall, IInv, Registered, Calm, Settled, [Next]_vars,
                    ~Ticked', ~spent'.late,
                    NEW w \in Works, Own(w)', Arrived(w)'
             PROVE  Ready(w)'
  BY DEF Settled
<1>1. ~Ticked /\ ~spent.late /\ Moves /\ IInv'
  BY SpentStays, HowStepsMove, IStep
<1>2. CASE Arrived(w)
  <2>1. Own(w)
    BY <1>1, <1>2, OwnBefore DEF Arrived, Moves
  <2> QED
    BY <1>1, <1>2, <2>1, ReadyStays DEF Settled, Calm
<1>3. CASE ~Arrived(w)
  BY <1>1, <1>3, ArrivesNow, ReadyWhenArriving DEF Calm
<1> QED
  BY <1>2, <1>3

(* D6 inserts the text that has passed; documents keep their text.         *)
LEMMA ValidStep == IInv /\ Signed /\ Settled /\ Valid /\ [Next]_vars => Valid'
<1> SUFFICES ASSUME IInv, Signed, Settled, Valid, [Next]_vars, ~Ticked', ~spent'.late
             PROVE  (\A s \in Slugs : docs[s] # None /\ Own(docs[s].by)
             => docs[s].text.valid)'
  BY DEF Valid
<1> SUFFICES ASSUME NEW s \in Slugs, docs'[s] # None,
                    \A v \in Works \ {docs'[s].by} : rows'[v].slug # rows'[docs'[s].by].slug
             PROVE  docs'[s].text.valid
  BY DEF Own, Slug
<1>1. ~Ticked /\ ~spent.late /\ Moves
  BY SpentStays, HowStepsMove
<1>0. ASSUME NEW w \in Works, Begun(w), docs'[s].by = w PROVE Own(w)
  <2>1. Own(w)'
    BY <1>0 DEF Own, Slug
  <2> QED
    BY <1>0, <1>1, <2>1, OwnBefore DEF Moves
<1>2. CASE /\ docs[s] # None
           /\ docs'[s].by = docs[s].by /\ docs'[s].text = docs[s].text
  <2> DEFINE w == docs[s].by
  <2>1. w \in Works /\ Begun(w)
    BY <1>2 DEF Signed
  <2>2. Own(w)
    BY <1>0, <1>2, <2>1
  <2> QED
    BY <1>1, <1>2, <2>2 DEF Valid
<1>3. CASE Inserted(s)
  <2>1. PICK t \in Tasks : At(t, "insert") /\ Slug(W(t)) = s
            /\ docs'[s].by = W(t) /\ docs'[s].text = tasks[t].text
    BY <1>3 DEF Inserted
  <2> DEFINE w == W(t)
  <2>2. w \in Works /\ Begun(w) /\ Working(t) /\ Seen(t).state = "PERSIST"
    BY <2>1 DEF At, IInv, TasksOK, Fine, Placed, Working, Seen
  <2>3. Own(w)
    BY <1>0, <2>1, <2>2
  <2>4. Arrived(w)
    BY <2>2 DEF Arrived
  <2>5. Ready(w)
    BY <1>1, <2>2, <2>3, <2>4 DEF Settled
  <2> QED
    BY <2>1, <2>2, <2>5 DEF Ready, At
<1> QED
  BY <1>1, <1>2, <1>3 DEF Moves, FilesMove

(* All of it holds at the start.                                           *)
LEMMA CalmInit == Init => Calm /\ Signed /\ Settled /\ Valid
<1> SUFFICES ASSUME Init PROVE Calm /\ Signed /\ Settled /\ Valid
  OBVIOUS
<1>1. Calm
  BY NoTaskIs, NoCallIs DEF Init, Calm, Fresh, Asked, Sole, CallAt
<1>2. Signed /\ Valid
  BY DEF Init, Signed, Valid
<1>3. \A w \in Works : ~Begun(w)
  BY DEF Init, Begun, NoRow
<1> QED
  BY <1>1, <1>2, <1>3 DEF Settled, Arrived

(* cancel's pop and kill, schedule_driver's look at _running: with one     *)
(* operator call at a time and no request to /tick, no DesignWork has two  *)
(* drivers, for any number of DesignWorks and restarts.                    *)
THEOREM OneDriverAtATime == ASSUME OneCall PROVE Spec => []OneDriver
<1>1. Init => Calm
  BY CalmInit
<1>2. IInv /\ Registered /\ Calm /\ [Next]_vars => Calm'
  BY CalmStep
<1>3. IInv /\ Calm => OneDriver
  <2> SUFFICES ASSUME IInv, Calm, ~Ticked, NEW t \in Tasks, NEW u \in Tasks,
                      tasks[t].driver, tasks[u].driver, W(t) = W(u)
               PROVE  t = u
    BY DEF OneDriver
  <2>1. tasks[t].pc # "off" /\ tasks[u].pc # "off"
    BY DEF IInv, TasksOK, Fine
  <2> QED
    BY <2>1 DEF Calm, Sole
<1> QED
  BY <1>1, <1>2, <1>3, Invariance, DriversRegistered, PTL DEF Spec

(* _d5_post_validate before _d6_persist: with one operator call at a time, *)
(* whatever is cancelled, rerun or restarted in between, a published       *)
(* document has passed the validator, unless there was a request to /tick, *)
(* another DesignWork with the same slug or an agent that outlived its     *)
(* task.                                                                   *)
THEOREM PublishedPassed == ASSUME OneCall PROVE Spec => []PublishedValidated
<1>1. Init => Calm /\ Signed /\ Settled /\ Valid
  BY CalmInit
<1>2. IInv /\ Registered /\ Calm /\ Signed /\ Settled /\ Valid /\ [Next]_vars
          => (Calm /\ Signed /\ Settled /\ Valid)'
  BY CalmStep, SignedStep, SettledStep, ValidStep
<1>3. IInv /\ Signed /\ Valid => PublishedValidated
  <2> SUFFICES ASSUME IInv, Signed, Valid, NEW w \in Works, Slug(w) # None,
                      ~Ticked, ~spent.late,
                      Own(w), docs[Slug(w)] # None
               PROVE  docs[Slug(w)].text.valid
    BY DEF PublishedValidated
  <2>1. Slug(w) \in Slugs
    BY DEF IInv, RowsOK, RowType, Slug
  <2>2. docs[Slug(w)].by = w
    BY <2>1 DEF Signed, Own
  <2> QED
    BY <2>1, <2>2 DEF Valid
<1> QED
  BY <1>1, <1>2, <1>3, Invariance, DriversRegistered, PTL DEF Spec

=============================================================================
