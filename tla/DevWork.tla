------------------------------ MODULE DevWork ------------------------------
(***************************************************************************)
(* One DevWork of src/dev_work_sm.py: its row in dev_works, the notes and  *)
(* reviews it owns, the task that advances it and the operator's calls.    *)
(*                                                                         *)
(* A step handler is cut at its awaits wherever something it has written   *)
(* so far would be found again by whoever resumes the row, because a       *)
(* restart of the server, an operator's cancel or an exception can end it  *)
(* there.  In this module at most one task works on the row at a time and  *)
(* an operator's call is not interleaved with it.                          *)
(***************************************************************************)
EXTENDS Integers, FiniteSets

CONSTANTS
    MaxRounds,   \* config.devwork.max_rounds
    HardMax,     \* _HARD_MAX_ROUNDS
    MaxTicks,    \* _MAX_TICKS
    RoundCap     \* bound of the model: nobody restarts a row beyond this round

ASSUME DevWorkAssumption ==
    /\ HardMax \in Nat \ {0}
    /\ MaxRounds \in 0..HardMax
    /\ MaxTicks \in Nat \ {0}
    /\ RoundCap \in Nat

VARIABLES
    step,     \* dev_works.current_step ("DELETED": the row is gone)
    rounds,   \* dev_works.iteration_rounds
    gates,    \* what steers control in dev_works.gates_json
    notes,    \* rounds that have a dev_iteration_notes row
    reviews,  \* verdicts of the reviews rows of the current round
    fps,      \* dev_works.first_pass_success ("null", "yes", "no")
    worker,   \* the task inside tick(): who it is and how far it got
    ticks,    \* ticks the driver has made of its _MAX_TICKS, 0 without driver
    sess,     \* _active_sessions[dev_id]: role -> round of the session, 0: none
    sched,    \* an HTTP call has changed the row and will call schedule_driver
    cause     \* why the row is escalated

rowVars == <<step, rounds, gates, notes, reviews, fps, cause>>
vars == <<rowVars, worker, ticks, sess, sched>>

----------------------------------------------------------------------------
Work == {"INIT", "STEP1_VALIDATE", "STEP2_ITERATION", "STEP3_CONTEXT",
         "STEP4_DEVELOP", "STEP5_REVIEW"}
Terminal == {"COMPLETED", "ESCALATED", "CANCELLED"}
Retryable == {"STEP2_ITERATION", "STEP3_CONTEXT", "STEP4_DEVELOP", "STEP5_REVIEW"}
Roles == {"plan", "build", "review"}

(* "pass": score >= threshold and no problem category; "gap": req_gap or   *)
(* impl_gap; "hollow": design_hollow, or no category below the threshold.  *)
Verdicts == {"pass", "gap", "hollow"}
Causes == {"none", "init", "hollow", "step_failure", "max_rounds", "note_insert",
           "note_conflict", "note_mismatch", "preflight", "cleanup", "persist",
           "exception", "ticks"}

NoResume == [kind |-> "none"]
StepResume(s, r) == [kind |-> "step", back_to |-> s, round |-> r]
\* A fault: the key names the round before the one just completed.
MaxResumeOffByOne(r) == [kind |-> "max", back_to |-> "STEP2_ITERATION", completed |-> r - 1]
MaxResume(r) == [kind |-> "max", back_to |-> "STEP2_ITERATION", completed |-> r]

NoWorker == [kind |-> "none", pc |-> "off", arg |-> "none"]
NoSessions == [r \in Roles |-> 0]

Round == rounds + 1

\* A fault: STEP5 does not compare the note's round with its own.
LatestNoteUnchecked == Round
\* latest_for
LatestNote == CHOOSE n \in notes : \A m \in notes : m =< n

(* The number of rounds the row may use: the override in gates_json, which *)
(* create and continue store, else the configured one.                     *)
NoOverride == -1
ResolvedMax == IF gates.override # NoOverride THEN gates.override ELSE MaxRounds

----------------------------------------------------------------------------
(* create() has committed the row; the route has not yet called            *)
(* schedule_driver.                                                        *)
Init ==
    /\ step = "INIT"
    /\ rounds = 0
    /\ \E o \in {NoOverride} \cup (0..MaxRounds) :
          gates = [retried |-> {}, override |-> o, maxResume |-> NoResume,
                   stepResume |-> NoResume, cancelledFrom |-> "none"]
    /\ notes = {} /\ reviews = {} /\ fps = "null" /\ cause = "none"
    /\ worker = NoWorker /\ ticks = 0 /\ sess = NoSessions
    /\ sched = TRUE

----------------------------------------------------------------------------
(* How a task enters and leaves a handler.                                 *)

IsDriver == worker.kind = "driver"

(* tick() reads the row and dispatches on its step: the driver's next      *)
(* turn, or a request to /tick when no driver is registered.               *)
CanTick(s) ==
    /\ step = s
    /\ \/ IsDriver /\ worker.pc = "tick" /\ ticks < MaxTicks
       \/ worker = NoWorker /\ ~sched /\ rounds =< RoundCap

Count == ticks' = IF IsDriver THEN ticks + 1 ELSE ticks

At(s, p) == step = s /\ worker.pc = p

Goto(p, a) == worker' = [kind |-> IF IsDriver THEN "driver" ELSE "ticker",
                         pc |-> p, arg |-> a]

(* The handler returns: the driver loops, a /tick request is answered.     *)
Return == worker' = IF IsDriver
                    THEN [kind |-> "driver", pc |-> "tick", arg |-> "none"]
                    ELSE NoWorker

Escalating(c) == Goto("escalate", c)

\* A fault: a finished role keeps its session.
CloseLeaks(role) == sess

Close(role) == [sess EXCEPT ![role] = IF @ = Round THEN 0 ELSE @]
CloseRound == [r \in Roles |-> IF sess[r] = Round THEN 0 ELSE sess[r]]

(* _run_llm_session: the role's session for this round is cached, unless   *)
(* start_session failed and the call returns rc 124.                       *)
OpenSession(role, s) == sess' \in {s, [s EXCEPT ![role] = Round]}

(* The counter moves on.  Retry keys and reviews of the rounds before are  *)
(* never read again and are not kept.                                      *)
NextRound(g) ==
    /\ rounds' = Round
    /\ gates' = [g EXCEPT !.retried = {}]
    /\ reviews' = {}

(* _loop_or_escalate with back_to = STEP2: one more round, or the end of   *)
(* the budget.                                                             *)
Loop ==
    \/ /\ Round < ResolvedMax
       /\ NextRound(gates)
       /\ step' = "STEP2_ITERATION"
       /\ sess' = CloseRound
       /\ Return
    \/ /\ Round >= ResolvedMax
       /\ gates' = [gates EXCEPT !.maxResume = MaxResume(Round)]
       /\ Goto("maxStored", "none")
       /\ UNCHANGED <<rounds, reviews, step, sess>>

\* A fault: the row escalates before its resume key is stored.
StoreStepResumeForgets(s) == Escalating("step_failure") /\ UNCHANGED gates

StoreStepResume(s) ==
    /\ gates' = [gates EXCEPT !.stepResume = StepResume(s, Round)]
    /\ Escalating("step_failure")

\* A fault: a retry leaves no mark.
MarkForgets(s) == s \in Retryable /\ UNCHANGED gates

\* The retry keys of gates_json carry the round: step2_retry_round3.
Mark(s) == gates' = [gates EXCEPT !.retried = @ \cup {s}]
Retried(s) == s \in gates.retried

(* _loop_or_escalate with back_to = STEP4.  The row keeps its step until   *)
(* Retry4Commit: after a failed preflight that step is STEP5.              *)
Retry4 ==
    /\ \/ Retried("STEP4_DEVELOP") /\ StoreStepResume("STEP4_DEVELOP")
       \/ /\ ~Retried("STEP4_DEVELOP")
          /\ \/ Mark("STEP4_DEVELOP") /\ Goto("retry4", "none")
             \/ Escalating("cleanup") /\ UNCHANGED gates
    /\ UNCHANGED <<rounds, step>>

----------------------------------------------------------------------------
(* INIT and STEP1_VALIDATE: nothing of theirs that a resumed handler would *)
(* find again precedes their transition.                                   *)

S0Init ==
    /\ CanTick("INIT") /\ Count
    /\ \/ step' = "STEP1_VALIDATE" /\ Return
       \/ Escalating("init") /\ UNCHANGED step
    /\ UNCHANGED <<rounds, gates, notes, reviews, fps, cause, sess, sched>>

S1Validate ==
    /\ CanTick("STEP1_VALIDATE") /\ Count
    /\ \/ step' = "STEP2_ITERATION" /\ Return
       \/ Escalating("hollow") /\ UNCHANGED step
    /\ UNCHANGED <<rounds, gates, notes, reviews, fps, cause, sess, sched>>

----------------------------------------------------------------------------
(* STEP2_ITERATION: plan the round and record its note.                    *)

S2Begin ==
    /\ CanTick("STEP2_ITERATION") /\ Count
    /\ \/ Goto("llm", "none") /\ OpenSession("plan", sess)
       \/ Escalating("hollow") /\ UNCHANGED sess
    /\ UNCHANGED <<rowVars, sched>>

\* _retry_step2_same_round_or_escalate
S2Failed ==
    /\ At("STEP2_ITERATION", "llm")
    /\ \/ /\ ~Retried("STEP2_ITERATION") /\ Mark("STEP2_ITERATION")
          /\ Return /\ sess' = Close("plan")
       \/ /\ Retried("STEP2_ITERATION") /\ StoreStepResume("STEP2_ITERATION")
          /\ UNCHANGED sess
    /\ UNCHANGED <<step, rounds, notes, reviews, fps, cause, ticks, sched>>

\* The note is unreadable or lacks a required section.
S2Invalid ==
    /\ At("STEP2_ITERATION", "llm")
    /\ Loop
    /\ UNCHANGED <<notes, fps, cause, ticks, sched>>

\* A fault: a failed INSERT is logged and the round goes on without a note.
S2RecordLenient ==
    /\ At("STEP2_ITERATION", "llm")
    /\ \/ Round \notin notes /\ notes' = notes \cup {Round}
       \/ UNCHANGED notes
    /\ Goto("noted", "none")
    /\ UNCHANGED <<step, rounds, gates, reviews, fps, cause, ticks, sess, sched>>

\* record_round: the INSERT is refused for a round that already has a note.
S2Record ==
    /\ At("STEP2_ITERATION", "llm")
    /\ \/ Round \notin notes /\ notes' = notes \cup {Round} /\ Goto("noted", "none")
       \/ Round \in notes /\ Escalating("note_conflict") /\ UNCHANGED notes
       \/ Escalating("note_insert") /\ UNCHANGED notes
    /\ UNCHANGED <<step, rounds, gates, reviews, fps, cause, ticks, sess, sched>>

S2Transition ==
    /\ At("STEP2_ITERATION", "noted")
    /\ step' = "STEP3_CONTEXT" /\ Return /\ sess' = Close("plan")
    /\ UNCHANGED <<rounds, gates, notes, reviews, fps, cause, ticks, sched>>

----------------------------------------------------------------------------
(* STEP3_CONTEXT, retried once in place.                                   *)

S3Begin ==
    /\ CanTick("STEP3_CONTEXT") /\ Count
    /\ Goto("llm", "none") /\ OpenSession("build", sess)
    /\ UNCHANGED <<rowVars, sched>>

S3Succeeded ==
    /\ At("STEP3_CONTEXT", "llm")
    /\ step' = "STEP4_DEVELOP" /\ Return
    /\ UNCHANGED <<rounds, gates, notes, reviews, fps, cause, ticks, sess, sched>>

S3Failed ==
    /\ At("STEP3_CONTEXT", "llm")
    /\ \/ /\ ~Retried("STEP3_CONTEXT") /\ Mark("STEP3_CONTEXT") /\ Return
          /\ UNCHANGED <<step, rounds, reviews, sess>>
       \/ Retried("STEP3_CONTEXT") /\ Loop
    /\ UNCHANGED <<notes, fps, cause, ticks, sched>>

----------------------------------------------------------------------------
(* STEP4_DEVELOP starts from a cold build session.                         *)

S4Begin ==
    /\ CanTick("STEP4_DEVELOP") /\ Count
    /\ Goto("llm", "none") /\ OpenSession("build", Close("build"))
    /\ UNCHANGED <<rowVars, sched>>

S4Succeeded ==
    /\ At("STEP4_DEVELOP", "llm")
    /\ step' = "STEP5_REVIEW" /\ Return
    /\ UNCHANGED <<rounds, gates, notes, reviews, fps, cause, ticks, sess, sched>>

\* A non-zero exit, or findings that stay missing or malformed after repair.
S4Failed ==
    /\ At("STEP4_DEVELOP", "llm")
    /\ Retry4
    /\ UNCHANGED <<notes, reviews, fps, cause, ticks, sess, sched>>

Retry4Commit ==
    /\ worker.pc = "retry4"
    /\ step' = "STEP4_DEVELOP" /\ Return /\ sess' = CloseRound
    /\ UNCHANGED <<rounds, gates, notes, reviews, fps, cause, ticks, sched>>

----------------------------------------------------------------------------
(* STEP5_REVIEW: preflight, review, verdict.                               *)

S5Begin ==
    /\ CanTick("STEP5_REVIEW") /\ Count
    /\ \/ /\ Escalating("hollow") /\ sess' = Close("build")
          /\ UNCHANGED <<step, rounds, gates, reviews>>
       \/ /\ LatestNote # Round
          /\ Escalating("note_mismatch") /\ sess' = Close("build")
          /\ UNCHANGED <<step, rounds, gates, reviews>>
       \/ /\ LatestNote = Round
          /\ \/ Loop                                     \* note file unreadable
             \/ /\ \/ Escalating("preflight") /\ UNCHANGED <<step, rounds, gates>>
                   \/ Retry4                            \* other preflight failure
                /\ sess' = Close("build") /\ UNCHANGED reviews
             \/ /\ Goto("llm", "none") /\ OpenSession("review", Close("build"))
                /\ UNCHANGED <<step, rounds, gates, reviews>>
    /\ UNCHANGED <<notes, fps, cause, sched>>

\* No outcome could be read, repaired, or matched with the plan.  The retry
\* of _retry_step5_same_round_or_escalate leaves the row at STEP5.
S5Unparseable ==
    /\ At("STEP5_REVIEW", "llm")
    /\ \/ /\ ~Retried("STEP5_REVIEW") /\ Mark("STEP5_REVIEW")
          /\ Return /\ sess' = Close("review")
       \/ /\ \/ Retried("STEP5_REVIEW") /\ StoreStepResume("STEP5_REVIEW")
             \/ \E c \in {"persist", "cleanup"} : Escalating(c) /\ UNCHANGED gates
          /\ UNCHANGED sess
    /\ UNCHANGED <<step, rounds, notes, reviews, fps, cause, ticks, sched>>

\* _record_review
S5Record ==
    /\ At("STEP5_REVIEW", "llm")
    /\ \E v \in Verdicts :
          /\ reviews' = reviews \cup {v}
          /\ Goto("reviewed", v)
    /\ UNCHANGED <<step, rounds, gates, notes, fps, cause, ticks, sess, sched>>

S5Passed ==
    /\ At("STEP5_REVIEW", "reviewed") /\ worker.arg = "pass"
    /\ step' = "COMPLETED"
    /\ fps' = IF rounds = 0 THEN "yes" ELSE "no"
    /\ Return /\ sess' = Close("review")
    /\ UNCHANGED <<rounds, gates, notes, reviews, cause, ticks, sched>>

S5Gap ==
    /\ At("STEP5_REVIEW", "reviewed") /\ worker.arg = "gap"
    /\ Loop
    /\ UNCHANGED <<notes, fps, cause, ticks, sched>>

\* A hollow design, or the plan checkboxes could not be written back.
S5Abandoned ==
    /\ At("STEP5_REVIEW", "reviewed")
    /\ \/ worker.arg = "hollow" /\ Escalating("hollow")
       \/ Escalating("persist")
    /\ UNCHANGED <<rowVars, ticks, sess, sched>>

----------------------------------------------------------------------------
(* The end of the budget and the end of a run.                             *)

BumpRounds ==
    /\ worker.pc = "maxStored"
    /\ NextRound(gates)
    /\ Escalating("max_rounds")
    /\ UNCHANGED <<step, notes, fps, cause, ticks, sess, sched>>

\* A fault: the sessions are closed and the row is left where it is.
EscalateInPlace ==
    /\ worker.pc = "escalate"
    /\ cause' = worker.arg
    /\ sess' = NoSessions /\ Return
    /\ UNCHANGED <<step, rounds, gates, notes, reviews, fps, ticks, sched>>

Escalate ==
    /\ worker.pc = "escalate"
    /\ step' = "ESCALATED" /\ cause' = worker.arg
    /\ sess' = NoSessions /\ Return
    /\ UNCHANGED <<rounds, gates, notes, reviews, fps, ticks, sched>>

\* run_to_completion has used up its ticks.
Breaker ==
    /\ IsDriver /\ worker.pc = "tick" /\ ticks = MaxTicks /\ step \in Work
    /\ Escalating("ticks")
    /\ UNCHANGED <<rowVars, ticks, sess, sched>>

DriverEnds ==
    /\ IsDriver /\ worker.pc = "tick" /\ step \notin Work
    /\ worker' = NoWorker /\ ticks' = 0
    /\ UNCHANGED <<rowVars, sess, sched>>

\* An exception leaves tick().  run_to_completion escalates the open row; if
\* that fails too the task dies.  A /tick request just ends, after the
\* finally blocks of STEP2 and STEP5.
Exception ==
    /\ worker.kind # "none" /\ step \in Work
    /\ \/ /\ IsDriver /\ worker # [kind |-> "driver", pc |-> "escalate", arg |-> "exception"]
          /\ Escalating("exception") /\ UNCHANGED <<ticks, sess>>
       \/ /\ worker = [kind |-> "driver", pc |-> "escalate", arg |-> "exception"]
          /\ worker' = NoWorker /\ ticks' = 0 /\ sess' = NoSessions
       \/ /\ ~IsDriver
          /\ worker' = NoWorker /\ ticks' = 0
          /\ sess' = IF worker.pc = "escalate" THEN NoSessions
                     ELSE [Close("plan") EXCEPT !["review"] = 0]
    /\ UNCHANGED <<rowVars, sched>>

----------------------------------------------------------------------------
(* The operator and the server.                                            *)

ScheduleDriver ==
    /\ sched /\ worker = NoWorker
    /\ sched' = FALSE
    /\ worker' = [kind |-> "driver", pc |-> "tick", arg |-> "none"]
    /\ ticks' = 0
    /\ UNCHANGED <<rowVars, sess>>

\* A fault: the UPDATE of cancel does not exclude the terminal steps.
CancelAnything ==
    /\ step # "DELETED" /\ worker.kind # "ticker"
    /\ step' = "CANCELLED"
    /\ gates' = [gates EXCEPT !.cancelledFrom = step]
    /\ worker' = NoWorker /\ ticks' = 0
    /\ sess' = NoSessions
    /\ UNCHANGED <<rounds, notes, reviews, fps, cause, sched>>

Cancel ==
    /\ step \in Work /\ worker.kind # "ticker"
    /\ step' = "CANCELLED"
    /\ gates' = [gates EXCEPT !.cancelledFrom = step]
    /\ worker' = NoWorker /\ ticks' = 0
    /\ sess' = NoSessions
    /\ UNCHANGED <<rounds, notes, reviews, fps, cause, sched>>

RerunCancelled ==
    /\ worker = NoWorker /\ step = "CANCELLED" /\ rounds =< RoundCap
    /\ step' = gates.cancelledFrom
    /\ gates' = [gates EXCEPT !.cancelledFrom = "none"]
    /\ sched' = TRUE
    /\ UNCHANGED <<rounds, notes, reviews, fps, cause, worker, ticks, sess>>

\* A fault: no hard limit on the continued budget.
ContinueUnlimited(additional) ==
    /\ worker = NoWorker /\ step = "ESCALATED" /\ gates.maxResume # NoResume
    /\ gates' = [gates EXCEPT !.maxResume = NoResume,
                              !.override = rounds + additional]
    /\ step' = "STEP2_ITERATION" /\ cause' = "none"
    /\ sched' = TRUE
    /\ UNCHANGED <<rounds, reviews, notes, fps, worker, ticks, sess>>

ContinueAfterEscalation(additional) ==
    /\ worker = NoWorker /\ step = "ESCALATED" /\ gates.maxResume # NoResume
    /\ LET done == IF gates.maxResume.completed > rounds
                   THEN gates.maxResume.completed ELSE rounds
           g == [gates EXCEPT !.override = done + additional, !.maxResume = NoResume]
       IN /\ done + additional =< HardMax
          /\ \/ done = rounds /\ gates' = g /\ UNCHANGED <<rounds, reviews>>
             \/ done = Round /\ NextRound(g)
    /\ step' = gates.maxResume.back_to /\ cause' = "none"
    /\ sched' = TRUE
    /\ UNCHANGED <<notes, fps, worker, ticks, sess>>

ResumeStepAfterEscalation ==
    /\ worker = NoWorker /\ step = "ESCALATED" /\ gates.stepResume # NoResume
    /\ step' = gates.stepResume.back_to
    /\ gates' = [gates EXCEPT !.stepResume = NoResume]
    /\ cause' = "none" /\ sched' = TRUE
    /\ UNCHANGED <<rounds, notes, reviews, fps, worker, ticks, sess>>

DeleteTerminal ==
    /\ worker = NoWorker /\ step \in {"CANCELLED", "ESCALATED"}
    /\ step' = "DELETED" /\ notes' = {} /\ reviews' = {}
    /\ sess' = NoSessions
    /\ UNCHANGED <<rounds, gates, fps, cause, worker, ticks, sched>>

\* The server stops: tasks and the session cache are gone, the boot sweep
\* closes the sessions, and nothing reschedules the row.
Restart ==
    /\ worker # NoWorker \/ sched
    /\ worker' = NoWorker /\ ticks' = 0 /\ sess' = NoSessions /\ sched' = FALSE
    /\ UNCHANGED rowVars

----------------------------------------------------------------------------
DriverStep ==
    \/ S0Init \/ S1Validate
    \/ S2Begin \/ S2Failed \/ S2Invalid \/ S2Record \/ S2Transition
    \/ S3Begin \/ S3Succeeded \/ S3Failed
    \/ S4Begin \/ S4Succeeded \/ S4Failed \/ Retry4Commit
    \/ S5Begin \/ S5Unparseable \/ S5Record \/ S5Passed \/ S5Gap \/ S5Abandoned
    \/ BumpRounds \/ Escalate \/ Breaker \/ DriverEnds

Operator ==
    \/ Cancel \/ RerunCancelled \/ ResumeStepAfterEscalation \/ DeleteTerminal
    \/ \E k \in 1..HardMax : ContinueAfterEscalation(k)

Next == DriverStep \/ ScheduleDriver \/ Exception \/ Operator \/ Restart

Spec == Init /\ [][Next]_vars

(* What has begun goes on: every await of a task ends, LLM calls by their  *)
(* timeouts, and the route that changed the row goes on to schedule_driver.*)
(* Nobody owes the system a /tick, a cancel or a rerun.                    *)
Progress == worker # NoWorker /\ DriverStep
LiveSpec == Spec /\ WF_vars(Progress) /\ WF_vars(ScheduleDriver)

----------------------------------------------------------------------------
(* Properties.                                                             *)

Rounds == Nat \ {0}
StepResumes == [kind : {"step"}, back_to : Retryable, round : Rounds]
MaxResumes == [kind : {"max"}, back_to : Retryable, completed : Rounds]

Gates == [retried : SUBSET Retryable,
          override : {NoOverride} \cup (0..HardMax),
          maxResume : {NoResume} \cup MaxResumes,
          stepResume : {NoResume} \cup StepResumes,
          cancelledFrom : Work \cup {"none"}]
Workers == [kind : {"none", "driver", "ticker"},
            pc : {"off", "tick", "llm", "noted", "retry4", "reviewed",
                  "maxStored", "escalate"},
            arg : Causes \cup Verdicts]

TypeOK ==
    /\ step \in Work \cup Terminal \cup {"DELETED"}
    /\ rounds \in Nat
    /\ gates \in Gates
    /\ notes \in SUBSET Rounds
    /\ reviews \in SUBSET Verdicts
    /\ fps \in {"null", "yes", "no"} /\ cause \in Causes
    /\ worker \in Workers
    /\ ticks \in 0..MaxTicks
    /\ sess \in [Roles -> Nat]
    /\ sched \in BOOLEAN

(* The comment at _MAX_TICKS: the ceiling leaves headroom over the ticks a *)
(* run can need, so it stops runaways only and never a legitimate run.     *)
BreakerUnused ==
    ~(IsDriver /\ worker.pc = "tick" /\ ticks = MaxTicks /\ step \in Work)

(* A DevWork is COMPLETED only by a passing review of the round it is in,  *)
(* and that round is the one its latest note plans, whatever interruptions *)
(* and resumptions came before.                                            *)
CompletedEarned ==
    step = "COMPLETED" => /\ "pass" \in reviews
                          /\ Round \in notes /\ \A n \in notes : n =< Round

(* Whoever reads that a row was escalated at its budget, or after a failed *)
(* retry, can always continue or resume it: the key is in gates_json.      *)
EscalationKeepsResume ==
    step = "ESCALATED" =>
        /\ cause = "max_rounds" => /\ gates.maxResume # NoResume
                                   /\ gates.maxResume.completed = rounds
        /\ cause = "step_failure" => gates.stepResume # NoResume

(* _delete_all_sessions and the COMPLETED branch of STEP5: once the row is *)
(* terminal and nobody works on it, no session is left open.               *)
SessionsClosed ==
    worker = NoWorker /\ step \notin Work => sess = NoSessions

(* The cold reviewer of _s5_review: while a review runs, the sessions that *)
(* planned and wrote the code are closed.                                  *)
ColdReviewer ==
    At("STEP5_REVIEW", "llm") => sess["build"] = 0 /\ sess["plan"] = 0

(* No note runs ahead of the round counter, and the steps that need a note *)
(* have some: the branches "found no iteration note" are never taken.      *)
NotesTrackRounds ==
    /\ \A n \in notes : n =< Round
    /\ step \in {"STEP3_CONTEXT", "STEP4_DEVELOP", "STEP5_REVIEW"} => notes # {}

(* The state diagram, the budget and the promises of the calls, over       *)
(* this row: every step of every handler is one of its moves or a stutter. *)
Lifecycle == INSTANCE DevWorkLifecycle
                 WITH budget <- ResolvedMax, from <- gates.cancelledFrom
LifecycleSpec == Lifecycle!Spec

(* Continue trusts completed_round of the stored key only through a max()  *)
(* with the row's counter; the two never differ by more than the round     *)
(* that an interrupted escalation has not counted.                         *)
MaxResumeCurrent ==
    gates.maxResume # NoResume => gates.maxResume.completed \in {rounds, Round}

(* A run that was scheduled, or is on its way, comes to an end: the row    *)
(* reaches a terminal step, unless a restart or a second exception ends    *)
(* the driver before, and with it the schedule.                            *)
RunsSettle ==
    (sched \/ IsDriver) ~> (step \notin Work \/ (worker = NoWorker /\ ~sched))
=============================================================================
