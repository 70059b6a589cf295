--------------------------- MODULE DevWork_proofs ---------------------------
(***************************************************************************)
(* Proofs about DevWork for every value of its constants: the row's types, *)
(* the refinement of DevWorkLifecycle, that a driver never runs into       *)
(* _MAX_TICKS, and that the notes and the sessions follow the round.       *)
(***************************************************************************)
EXTENDS DevWork, TLAPS

EndsRound == {"STEP2_ITERATION", "STEP3_CONTEXT", "STEP5_REVIEW"}

(* Where a handler can be, by how far its worker got.                      *)
Control ==
    /\ worker.kind = "none" => worker = NoWorker
    /\ worker.pc = "off" => worker.kind = "none"
    /\ IsDriver \/ ticks = 0
    /\ sched => worker = NoWorker
    /\ worker.pc = "llm" => step \in Retryable
    /\ worker.pc = "noted" => step = "STEP2_ITERATION"
    /\ worker.pc = "retry4" => step \in {"STEP4_DEVELOP", "STEP5_REVIEW"}
    /\ worker.pc = "reviewed" => step = "STEP5_REVIEW"
    /\ worker.pc = "maxStored" => step \in EndsRound /\ Round >= ResolvedMax
    /\ worker.pc = "escalate" => step \in Work /\ worker.arg \in Causes

(* What the keys of gates_json say of the row that holds them.             *)
Keys ==
    /\ step = "CANCELLED" => gates.cancelledFrom # "none"
    /\ step \in Work \cup {"COMPLETED", "ESCALATED"} => gates.cancelledFrom = "none"
    /\ gates.maxResume # NoResume => gates.maxResume.back_to = "STEP2_ITERATION"
    /\ gates.stepResume # NoResume => gates.stepResume.back_to # "STEP3_CONTEXT"
    /\ MaxResumeCurrent
    /\ gates.maxResume # NoResume => gates.maxResume.completed >= ResolvedMax
    /\ worker.pc = "maxStored" =>
           gates.maxResume # NoResume /\ gates.maxResume.completed = Round
    /\ worker.pc = "escalate" =>
           /\ worker.arg = "max_rounds" =>
                  gates.maxResume # NoResume /\ gates.maxResume.completed = rounds
           /\ worker.arg = "step_failure" => gates.stepResume # NoResume
    /\ EscalationKeepsResume

(* The ticks a driver can still need in the round it is in, from a step:   *)
(* each step once, each retry once, and the way back from STEP5 to STEP4.  *)
Unused(s, n) == IF s \in gates.retried THEN 0 ELSE n
FromStep5 == 1 + Unused("STEP4_DEVELOP", 2) + Unused("STEP5_REVIEW", 1)
FromStep4 == 1 + FromStep5
FromStep3 == 1 + Unused("STEP3_CONTEXT", 1) + FromStep4
FromStep2 == 1 + Unused("STEP2_ITERATION", 1) + FromStep3
FromStep(s) == CASE s = "INIT" -> 11
                 [] s = "STEP1_VALIDATE" -> 10
                 [] s = "STEP2_ITERATION" -> FromStep2
                 [] s = "STEP3_CONTEXT" -> FromStep3
                 [] s = "STEP4_DEVELOP" -> FromStep4
                 [] s = "STEP5_REVIEW" -> FromStep5
                 [] OTHER -> 0
TicksPerRound == 9

InRound == CASE worker.pc = "tick" -> FromStep(step)
             [] worker.pc = "llm" -> FromStep(step) - 1
             [] worker.pc = "noted" -> FromStep3
             [] worker.pc = "retry4" -> FromStep4
             [] OTHER -> 0

RoundsLeft == IF Round < ResolvedMax THEN ResolvedMax - Round ELSE 0

TickBudget ==
    IsDriver => ticks + InRound + TicksPerRound * RoundsLeft
                    =< 2 + TicksPerRound * HardMax

IInv == TypeOK /\ Control /\ Keys /\ TickBudget

(* What each step knows of the notes and the reviews.  STEP3 to STEP5 have *)
(* a note, also when they are reached by a rerun or a resume; the worker   *)
(* that runs a review has compared the newest note with its round.         *)
NeedsNote == {"STEP3_CONTEXT", "STEP4_DEVELOP", "STEP5_REVIEW"}

Recorded ==
    /\ notes # {} => LatestNote \in notes /\ \A n \in notes : n =< LatestNote
    /\ NotesTrackRounds
    /\ step = "CANCELLED" /\ gates.cancelledFrom \in NeedsNote => notes # {}
    /\ step # "DELETED" /\ gates.stepResume # NoResume
          /\ gates.stepResume.back_to \in NeedsNote => notes # {}
    /\ worker.pc = "noted" => Round \in notes
    /\ worker.pc \in {"llm", "reviewed"} /\ step = "STEP5_REVIEW" => Round \in notes
    /\ worker.pc = "reviewed" => worker.arg \in reviews
    /\ CompletedEarned

(* Where a session can be open.  Only an escalation has sessions of a      *)
(* round it has already counted, and it closes all of them.                *)
Sessions ==
    /\ worker.pc # "escalate" => \A r \in Roles : sess[r] \in {0, Round}
    /\ sess["plan"] # 0 =>
           /\ step = "STEP2_ITERATION"
           /\ worker.pc \in {"llm", "noted", "maxStored", "escalate"}
    /\ sess["build"] # 0 =>
           /\ step \in NeedsNote
           /\ step = "STEP5_REVIEW" =>
                  worker.pc \in {"off", "tick", "maxStored", "escalate"}
    /\ sess["review"] # 0 =>
           /\ step = "STEP5_REVIEW"
           /\ worker.pc \in {"llm", "reviewed", "maxStored", "escalate"}

----------------------------------------------------------------------------
(* The keys that continue rewrites keep their types.                       *)
LEMMA ContinuedGates ==
    ASSUME NEW g \in Gates, NEW n \in 0..HardMax
    PROVE  [g EXCEPT !.override = n, !.maxResume = NoResume] \in Gates
BY DEF Gates

(* The note of a round is recorded under its number.                       *)
LEMMA NotesRecorded == ASSUME TypeOK, S2Record PROVE notes' \in SUBSET Rounds
<1>1. notes \subseteq Rounds /\ Round \in Rounds
  BY DEF TypeOK, Round, Rounds
<1> QED
  BY <1>1 DEF S2Record

(* Types: every action writes values of the declared sets.                 *)
LEMMA TypeStep == IInv /\ [Next]_vars => TypeOK'
<1> SUFFICES ASSUME IInv, [Next]_vars PROVE TypeOK'
  OBVIOUS
<1> USE DevWorkAssumption DEF IInv, TypeOK, Control, IsDriver, Round, NoWorker,
     NoSessions, NoResume, Roles, Verdicts, Causes, Work, Terminal, Retryable,
     Rounds, NoOverride, StepResumes, MaxResumes, Gates, Workers
<1>1. CASE S0Init
  BY <1>1 DEF S0Init, CanTick, Count, Return, Escalating, Goto
<1>2. CASE S1Validate
  BY <1>2 DEF S1Validate, CanTick, Count, Return, Escalating, Goto
<1>3. CASE S2Begin
  BY <1>3 DEF S2Begin, CanTick, Count, Goto, OpenSession, Escalating, rowVars
<1>4. CASE S2Failed
  BY <1>4 DEF S2Failed, At, Retried, Mark, Return, Close, StoreStepResume,
       StepResume, Escalating, Goto
<1>5. CASE S2Invalid
  BY <1>5 DEF S2Invalid, At, Loop, NextRound, CloseRound, Return, MaxResume,
       Goto
<1>6. CASE S2Record
  <2> Round \in Rounds
    OBVIOUS
  <2>1. notes' \in SUBSET Rounds
    BY <1>6, NotesRecorded
  <2>2. worker' \in Workers
    BY <1>6 DEF S2Record, Goto, Escalating
  <2> QED
  BY <2>1, <2>2, <1>6 DEF S2Record, At, Goto, Escalating
<1>7. CASE S2Transition
  BY <1>7 DEF S2Transition, At, Return, Close
<1>8. CASE S3Begin
  BY <1>8 DEF S3Begin, CanTick, Count, Goto, OpenSession, rowVars
<1>9. CASE S3Succeeded
  BY <1>9 DEF S3Succeeded, At, Return
<1>10. CASE S3Failed
  BY <1>10 DEF S3Failed, At, Retried, Mark, Return, Loop, NextRound, CloseRound,
       MaxResume, Goto
<1>11. CASE S4Begin
  BY <1>11 DEF S4Begin, CanTick, Count, Goto, OpenSession, Close, rowVars
<1>12. CASE S4Succeeded
  BY <1>12 DEF S4Succeeded, At, Return
<1>13. CASE S4Failed
  BY <1>13 DEF S4Failed, At, Retry4, Retried, StoreStepResume, StepResume, Mark,
       Goto, Escalating
<1>14. CASE Retry4Commit
  BY <1>14 DEF Retry4Commit, Return, CloseRound
<1>15. CASE S5Begin
  BY <1>15 DEF S5Begin, CanTick, Count, Escalating, Goto, Close, Loop,
       NextRound, CloseRound, Return, MaxResume, Retry4, Retried,
       StoreStepResume, StepResume, Mark, OpenSession
<1>16. CASE S5Unparseable
  BY <1>16 DEF S5Unparseable, At, Retried, Mark, Return, Close, StoreStepResume,
       StepResume, Escalating, Goto
<1>17. CASE S5Record
  BY <1>17 DEF S5Record, At, Goto
<1>18. CASE S5Passed
  BY <1>18 DEF S5Passed, At, Return, Close
<1>19. CASE S5Gap
  BY <1>19 DEF S5Gap, At, Loop, NextRound, CloseRound, Return, MaxResume, Goto
<1>20. CASE S5Abandoned
  BY <1>20 DEF S5Abandoned, At, Escalating, Goto, rowVars
<1>21. CASE BumpRounds
  BY <1>21 DEF BumpRounds, NextRound, Escalating, Goto
<1>22. CASE Escalate
  BY <1>22 DEF Escalate, Return
<1>23. CASE Breaker
  BY <1>23 DEF Breaker, Escalating, Goto, rowVars
<1>24. CASE DriverEnds
  BY <1>24 DEF DriverEnds, rowVars
<1>25. CASE ScheduleDriver
  <2>1. worker' \in Workers
    BY <1>25 DEF ScheduleDriver
  <2>2. sched' \in BOOLEAN /\ ticks' \in 0..MaxTicks
    BY <1>25 DEF ScheduleDriver
  <2> QED
    BY <2>1, <2>2, <1>25 DEF ScheduleDriver, rowVars
<1>26. CASE Exception
  BY <1>26 DEF Exception, Escalating, Goto, Close, rowVars
<1>27. CASE Cancel
  BY <1>27 DEF Cancel
<1>28. CASE RerunCancelled
  BY <1>28 DEF RerunCancelled, Keys
<1>29. CASE ResumeStepAfterEscalation
  BY <1>29 DEF ResumeStepAfterEscalation
<1>30. CASE DeleteTerminal
  BY <1>30 DEF DeleteTerminal
<1>31. CASE Restart
  <2>1. worker' \in Workers /\ sched' \in BOOLEAN
    BY <1>31 DEF Restart
  <2>2. ticks' \in 0..MaxTicks /\ sess' \in [Roles -> Nat]
    BY <1>31 DEF Restart
  <2> QED
    BY <2>1, <2>2, <1>31 DEF Restart, rowVars
<1>32. ASSUME NEW k \in 1..HardMax, ContinueAfterEscalation(k) PROVE TypeOK'
  <2> DEFINE done == IF gates.maxResume.completed > rounds
                     THEN gates.maxResume.completed ELSE rounds
             g == [gates EXCEPT !.override = done + k, !.maxResume = NoResume]
  <2>1. gates.maxResume \in MaxResumes
    BY <1>32 DEF ContinueAfterEscalation
  <2>2. done \in Nat
    BY <2>1
  <2>3. done + k \in 0..HardMax
    BY <1>32, <2>2 DEF ContinueAfterEscalation
  <2> HIDE DEF done
  <2>4. g \in Gates
    <3>1. gates \in Gates
      OBVIOUS
    <3> QED
      BY ONLY <3>1, <2>3, ContinuedGates
  <2>5. gates' = g \/ gates' = [g EXCEPT !.retried = {}]
    BY <1>32 DEF ContinueAfterEscalation, NextRound, done
  <2> HIDE DEF g
  <2>8. gates' \in Gates
    BY <2>4, <2>5
  <2>6. rounds' \in Nat /\ reviews' \in SUBSET Verdicts
    BY <1>32 DEF ContinueAfterEscalation, NextRound
  <2>7. step' \in Work
    BY <1>32 DEF ContinueAfterEscalation, Keys
  <2> QED
    BY <2>8, <2>6, <2>7, <1>32 DEF ContinueAfterEscalation
<1>33. CASE UNCHANGED vars
  BY <1>33 DEF vars, rowVars
<1> QED
  BY <1>1, <1>2, <1>3, <1>4, <1>5, <1>6, <1>7, <1>8, <1>9, <1>10, <1>11, <1>12,
       <1>13, <1>14, <1>15, <1>16, <1>17, <1>18, <1>19, <1>20, <1>21, <1>22,
       <1>23, <1>24, <1>25, <1>26, <1>27, <1>28, <1>29, <1>30, <1>31, <1>32,
       <1>33 DEF Next, DriverStep, Operator

(* Each await of a handler is reached only from the step it belongs to.    *)
LEMMA ControlStep == IInv /\ [Next]_vars => Control'
<1> SUFFICES ASSUME IInv, [Next]_vars PROVE Control'
  OBVIOUS
<1> USE DevWorkAssumption DEF IInv, TypeOK, Control, IsDriver, Round, NoWorker,
     Causes, Work, Terminal, Retryable, EndsRound, Verdicts, Workers, Gates,
     NoResume, NoOverride
<1>1. CASE S0Init
  BY <1>1 DEF S0Init, CanTick, Count, Return, Escalating, Goto
<1>2. CASE S1Validate
  BY <1>2 DEF S1Validate, CanTick, Count, Return, Escalating, Goto
<1>3. CASE S2Begin
  BY <1>3 DEF S2Begin, CanTick, Count, Goto, OpenSession, Escalating, rowVars
<1>4. CASE S2Failed
  BY <1>4 DEF S2Failed, At, Retried, Mark, Return, Close, StoreStepResume,
       StepResume, Escalating, Goto
<1>5. CASE S2Invalid
  BY <1>5 DEF S2Invalid, At, Loop, NextRound, CloseRound, Return, MaxResume,
       ResolvedMax, Goto
<1>6. CASE S2Record
  BY <1>6 DEF S2Record, At, Goto, Escalating
<1>7. CASE S2Transition
  BY <1>7 DEF S2Transition, At, Return, Close
<1>8. CASE S3Begin
  BY <1>8 DEF S3Begin, CanTick, Count, Goto, OpenSession, rowVars
<1>9. CASE S3Succeeded
  BY <1>9 DEF S3Succeeded, At, Return
<1>10. CASE S3Failed
  BY <1>10 DEF S3Failed, At, Retried, Mark, Return, Loop, NextRound, CloseRound,
       MaxResume, ResolvedMax, Goto
<1>11. CASE S4Begin
  BY <1>11 DEF S4Begin, CanTick, Count, Goto, OpenSession, Close, rowVars
<1>12. CASE S4Succeeded
  BY <1>12 DEF S4Succeeded, At, Return
<1>13. CASE S4Failed
  BY <1>13 DEF S4Failed, At, Retry4, Retried, StoreStepResume, StepResume, Mark,
       Goto, Escalating
<1>14. CASE Retry4Commit
  BY <1>14 DEF Retry4Commit, Return, CloseRound
<1>15. CASE S5Begin
  BY <1>15 DEF S5Begin, CanTick, Count, Escalating, Goto, Close, Loop,
       NextRound, CloseRound, Return, MaxResume, ResolvedMax, Retry4, Retried,
       StoreStepResume, StepResume, Mark, OpenSession
<1>16. CASE S5Unparseable
  BY <1>16 DEF S5Unparseable, At, Retried, Mark, Return, Close, StoreStepResume,
       StepResume, Escalating, Goto
<1>17. CASE S5Record
  BY <1>17 DEF S5Record, At, Goto
<1>18. CASE S5Passed
  BY <1>18 DEF S5Passed, At, Return, Close
<1>19. CASE S5Gap
  BY <1>19 DEF S5Gap, At, Loop, NextRound, CloseRound, Return, MaxResume,
       ResolvedMax, Goto
<1>20. CASE S5Abandoned
  BY <1>20 DEF S5Abandoned, At, Escalating, Goto, rowVars
<1>21. CASE BumpRounds
  BY <1>21 DEF BumpRounds, NextRound, Escalating, Goto
<1>22. CASE Escalate
  BY <1>22 DEF Escalate, Return
<1>23. CASE Breaker
  BY <1>23 DEF Breaker, Escalating, Goto, rowVars
<1>24. CASE DriverEnds
  BY <1>24 DEF DriverEnds, rowVars
<1>25. CASE ScheduleDriver
  BY <1>25 DEF ScheduleDriver, rowVars
<1>26. CASE Exception
  BY <1>26 DEF Exception, Escalating, Goto, Close, rowVars
<1>27. CASE Cancel
  BY <1>27 DEF Cancel
<1>28. CASE RerunCancelled
  BY <1>28 DEF RerunCancelled
<1>29. CASE ResumeStepAfterEscalation
  BY <1>29 DEF ResumeStepAfterEscalation
<1>30. CASE DeleteTerminal
  BY <1>30 DEF DeleteTerminal
<1>31. CASE Restart
  BY <1>31 DEF Restart, rowVars
<1>32. ASSUME NEW k \in 1..HardMax, ContinueAfterEscalation(k) PROVE Control'
  BY <1>32 DEF ContinueAfterEscalation, NextRound
<1>33. CASE UNCHANGED vars
  BY <1>33 DEF vars, rowVars, ResolvedMax
<1> QED
  BY <1>1, <1>2, <1>3, <1>4, <1>5, <1>6, <1>7, <1>8, <1>9, <1>10, <1>11, <1>12,
       <1>13, <1>14, <1>15, <1>16, <1>17, <1>18, <1>19, <1>20, <1>21, <1>22,
       <1>23, <1>24, <1>25, <1>26, <1>27, <1>28, <1>29, <1>30, <1>31, <1>32,
       <1>33 DEF Next, DriverStep, Operator

(* Continue takes its key away, touches no other, and goes back to STEP2.   *)
LEMMA ContinueKeys ==
    ASSUME IInv, NEW k \in 1..HardMax, ContinueAfterEscalation(k)
    PROVE  /\ worker = NoWorker /\ worker' = NoWorker
           /\ step = "ESCALATED" /\ step' = "STEP2_ITERATION"
           /\ gates'.maxResume = NoResume /\ gates'.stepResume = gates.stepResume
           /\ gates'.cancelledFrom = gates.cancelledFrom
           /\ notes' = notes /\ rounds' \in {rounds, Round}
<1> DEFINE done == IF gates.maxResume.completed > rounds
                   THEN gates.maxResume.completed ELSE rounds
           g == [gates EXCEPT !.override = done + k, !.maxResume = NoResume]
<1> HIDE DEF done, g
<1>1. step = "ESCALATED" /\ gates.maxResume # NoResume /\ worker = NoWorker
      /\ step' = gates.maxResume.back_to /\ worker' = worker
  BY DEF ContinueAfterEscalation
<1>2. step' = "STEP2_ITERATION"
  BY <1>1 DEF IInv, Keys
<1>3. gates \in Gates
  BY DEF IInv, TypeOK
<1>4. /\ notes' = notes
      /\ \/ done = rounds /\ gates' = g /\ UNCHANGED <<rounds, reviews>>
         \/ done = Round /\ NextRound(g)
  BY DEF ContinueAfterEscalation, done, g
<1>5. notes' = notes /\ rounds' \in {rounds, Round}
  BY <1>4 DEF NextRound
<1>6. gates'.maxResume = NoResume /\ gates'.stepResume = gates.stepResume
      /\ gates'.cancelledFrom = gates.cancelledFrom
  <2>1. gates' = g \/ gates' = [g EXCEPT !.retried = {}]
    BY <1>4 DEF NextRound
  <2> QED
    BY <2>1, <1>3 DEF Gates, g
<1> QED
  BY <1>1, <1>2, <1>5, <1>6

(* So what Keys says of the row is true after it.                          *)
LEMMA KeysAfterContinue ==
    ASSUME IInv, NEW k \in 1..HardMax, ContinueAfterEscalation(k)
    PROVE  Keys'
<1>1. gates.cancelledFrom = "none"
  BY ContinueKeys DEF IInv, Keys
<1>2. worker'.pc = "off"
  BY ContinueKeys DEF NoWorker
<1> QED
  BY <1>1, <1>2, ContinueKeys
  DEF IInv, Keys, MaxResumeCurrent, EscalationKeepsResume

(* The resume keys are written before the escalation they explain, and are *)
(* taken away by the call that uses them.                                  *)
LEMMA KeysStep == IInv /\ [Next]_vars => Keys'
<1> SUFFICES ASSUME IInv, [Next]_vars PROVE Keys'
  OBVIOUS
<1> USE DevWorkAssumption DEF IInv, TypeOK, Control, IsDriver, Round, NoWorker,
     Causes, Work, Terminal, Retryable, EndsRound, Verdicts, Workers, Gates,
     NoResume, NoOverride, Keys, MaxResumeCurrent, StepResumes, MaxResumes,
     Rounds, EscalationKeepsResume, ResolvedMax
<1>1. CASE S0Init
  BY <1>1 DEF S0Init, CanTick, Count, Return, Escalating, Goto
<1>2. CASE S1Validate
  BY <1>2 DEF S1Validate, CanTick, Count, Return, Escalating, Goto
<1>3. CASE S2Begin
  BY <1>3 DEF S2Begin, CanTick, Count, Goto, OpenSession, Escalating, rowVars
<1>4. CASE S2Failed
  BY <1>4 DEF S2Failed, At, Retried, Mark, Return, Close, StoreStepResume,
       StepResume, Escalating, Goto
<1>5. CASE S2Invalid
  BY <1>5 DEF S2Invalid, At, Loop, NextRound, CloseRound, Return, MaxResume,
       ResolvedMax, Goto
<1>6. CASE S2Record
  BY <1>6 DEF S2Record, At, Goto, Escalating
<1>7. CASE S2Transition
  BY <1>7 DEF S2Transition, At, Return, Close
<1>8. CASE S3Begin
  BY <1>8 DEF S3Begin, CanTick, Count, Goto, OpenSession, rowVars
<1>9. CASE S3Succeeded
  BY <1>9 DEF S3Succeeded, At, Return
<1>10. CASE S3Failed
  BY <1>10 DEF S3Failed, At, Retried, Mark, Return, Loop, NextRound, CloseRound,
       MaxResume, ResolvedMax, Goto
<1>11. CASE S4Begin
  BY <1>11 DEF S4Begin, CanTick, Count, Goto, OpenSession, Close, rowVars
<1>12. CASE S4Succeeded
  BY <1>12 DEF S4Succeeded, At, Return
<1>13. CASE S4Failed
  BY <1>13 DEF S4Failed, At, Retry4, Retried, StoreStepResume, StepResume, Mark,
       Goto, Escalating
<1>14. CASE Retry4Commit
  BY <1>14 DEF Retry4Commit, Return, CloseRound
<1>15. CASE S5Begin
  BY <1>15 DEF S5Begin, CanTick, Count, Escalating, Goto, Close, Loop,
       NextRound, CloseRound, Return, MaxResume, ResolvedMax, Retry4, Retried,
       StoreStepResume, StepResume, Mark, OpenSession
<1>16. CASE S5Unparseable
  BY <1>16 DEF S5Unparseable, At, Retried, Mark, Return, Close, StoreStepResume,
       StepResume, Escalating, Goto
<1>17. CASE S5Record
  BY <1>17 DEF S5Record, At, Goto
<1>18. CASE S5Passed
  BY <1>18 DEF S5Passed, At, Return, Close
<1>19. CASE S5Gap
  BY <1>19 DEF S5Gap, At, Loop, NextRound, CloseRound, Return, MaxResume,
       ResolvedMax, Goto
<1>20. CASE S5Abandoned
  BY <1>20 DEF S5Abandoned, At, Escalating, Goto, rowVars
<1>21. CASE BumpRounds
  BY <1>21 DEF BumpRounds, NextRound, Escalating, Goto
<1>22. CASE Escalate
  BY <1>22 DEF Escalate, Return
<1>23. CASE Breaker
  BY <1>23 DEF Breaker, Escalating, Goto, rowVars
<1>24. CASE DriverEnds
  BY <1>24 DEF DriverEnds, rowVars
<1>25. CASE ScheduleDriver
  BY <1>25 DEF ScheduleDriver, rowVars
<1>26. CASE Exception
  BY <1>26 DEF Exception, Escalating, Goto, Close, rowVars
<1>27. CASE Cancel
  BY <1>27 DEF Cancel
<1>28. CASE RerunCancelled
  BY <1>28 DEF RerunCancelled
<1>29. CASE ResumeStepAfterEscalation
  BY <1>29 DEF ResumeStepAfterEscalation
<1>30. CASE DeleteTerminal
  BY <1>30 DEF DeleteTerminal
<1>31. CASE Restart
  BY <1>31 DEF Restart, rowVars
<1>32. ASSUME NEW k \in 1..HardMax, ContinueAfterEscalation(k) PROVE Keys'
  BY <1>32, KeysAfterContinue
<1>33. CASE UNCHANGED vars
  BY <1>33 DEF vars, rowVars
<1> QED
  BY <1>1, <1>2, <1>3, <1>4, <1>5, <1>6, <1>7, <1>8, <1>9, <1>10, <1>11, <1>12,
       <1>13, <1>14, <1>15, <1>16, <1>17, <1>18, <1>19, <1>20, <1>21, <1>22,
       <1>23, <1>24, <1>25, <1>26, <1>27, <1>28, <1>29, <1>30, <1>31, <1>32,
       <1>33 DEF Next, DriverStep, Operator

(* Every tick is paid for: it consumes a step of the round, a retry mark,  *)
(* or a round.                                                             *)
LEMMA BudgetStep == IInv /\ [Next]_vars => TickBudget'
<1> SUFFICES ASSUME IInv, [Next]_vars PROVE TickBudget'
  OBVIOUS
<1> USE DevWorkAssumption DEF IInv, TypeOK, Control, IsDriver, Round, NoWorker,
     Work, Terminal, Retryable, EndsRound, Workers, Gates, NoOverride,
     TickBudget, InRound, FromStep, FromStep2, FromStep3, FromStep4, FromStep5,
     Unused, RoundsLeft, TicksPerRound, ResolvedMax
<1>1. CASE S0Init
  BY <1>1 DEF S0Init, CanTick, Count, Return, Escalating, Goto
<1>2. CASE S1Validate
  BY <1>2 DEF S1Validate, CanTick, Count, Return, Escalating, Goto
<1>3. CASE S2Begin
  BY <1>3 DEF S2Begin, CanTick, Count, Goto, OpenSession, Escalating, rowVars
<1>4. CASE S2Failed
  BY <1>4 DEF S2Failed, At, Retried, Mark, Return, Close, StoreStepResume,
       StepResume, Escalating, Goto
<1>5. CASE S2Invalid
  BY <1>5 DEF S2Invalid, At, Loop, NextRound, CloseRound, Return, MaxResume,
       ResolvedMax, Goto
<1>6. CASE S2Record
  BY <1>6 DEF S2Record, At, Goto, Escalating
<1>7. CASE S2Transition
  BY <1>7 DEF S2Transition, At, Return, Close
<1>8. CASE S3Begin
  BY <1>8 DEF S3Begin, CanTick, Count, Goto, OpenSession, rowVars
<1>9. CASE S3Succeeded
  BY <1>9 DEF S3Succeeded, At, Return
<1>10. CASE S3Failed
  BY <1>10 DEF S3Failed, At, Retried, Mark, Return, Loop, NextRound, CloseRound,
       MaxResume, ResolvedMax, Goto
<1>11. CASE S4Begin
  BY <1>11 DEF S4Begin, CanTick, Count, Goto, OpenSession, Close, rowVars
<1>12. CASE S4Succeeded
  BY <1>12 DEF S4Succeeded, At, Return
<1>13. CASE S4Failed
  BY <1>13 DEF S4Failed, At, Retry4, Retried, StoreStepResume, StepResume, Mark,
       Goto, Escalating
<1>14. CASE Retry4Commit
  BY <1>14 DEF Retry4Commit, Return, CloseRound
<1>15. CASE S5Begin
  BY <1>15 DEF S5Begin, CanTick, Count, Escalating, Goto, Close, Loop,
       NextRound, CloseRound, Return, MaxResume, ResolvedMax, Retry4, Retried,
       StoreStepResume, StepResume, Mark, OpenSession
<1>16. CASE S5Unparseable
  BY <1>16 DEF S5Unparseable, At, Retried, Mark, Return, Close, StoreStepResume,
       StepResume, Escalating, Goto
<1>17. CASE S5Record
  BY <1>17 DEF S5Record, At, Goto
<1>18. CASE S5Passed
  BY <1>18 DEF S5Passed, At, Return, Close
<1>19. CASE S5Gap
  BY <1>19 DEF S5Gap, At, Loop, NextRound, CloseRound, Return, MaxResume,
       ResolvedMax, Goto
<1>20. CASE S5Abandoned
  BY <1>20 DEF S5Abandoned, At, Escalating, Goto, rowVars
<1>21. CASE BumpRounds
  BY <1>21 DEF BumpRounds, NextRound, Escalating, Goto
<1>22. CASE Escalate
  BY <1>22 DEF Escalate, Return
<1>23. CASE Breaker
  BY <1>23 DEF Breaker, Escalating, Goto, rowVars
<1>24. CASE DriverEnds
  BY <1>24 DEF DriverEnds, rowVars
<1>25. CASE ScheduleDriver
  BY <1>25 DEF ScheduleDriver, rowVars
<1>26. CASE Exception
  BY <1>26 DEF Exception, Escalating, Goto, Close, rowVars
<1>27. CASE Cancel
  BY <1>27 DEF Cancel
<1>28. CASE RerunCancelled
  BY <1>28 DEF RerunCancelled
<1>29. CASE ResumeStepAfterEscalation
  BY <1>29 DEF ResumeStepAfterEscalation
<1>30. CASE DeleteTerminal
  BY <1>30 DEF DeleteTerminal
<1>31. CASE Restart
  BY <1>31 DEF Restart, rowVars
<1>32. ASSUME NEW k \in 1..HardMax, ContinueAfterEscalation(k) PROVE TickBudget'
  BY <1>32 DEF ContinueAfterEscalation, NextRound
<1>33. CASE UNCHANGED vars
  BY <1>33 DEF vars, rowVars, ResolvedMax
<1> QED
  BY <1>1, <1>2, <1>3, <1>4, <1>5, <1>6, <1>7, <1>8, <1>9, <1>10, <1>11, <1>12,
       <1>13, <1>14, <1>15, <1>16, <1>17, <1>18, <1>19, <1>20, <1>21, <1>22,
       <1>23, <1>24, <1>25, <1>26, <1>27, <1>28, <1>29, <1>30, <1>31, <1>32,
       <1>33 DEF Next, DriverStep, Operator

(* latest_for returns the largest round that has a note.                   *)
LEMMA MaxChosen ==
    ASSUME NEW S \in SUBSET Nat, NEW x \in S, \A n \in S : n =< x
    PROVE  (CHOOSE n \in S : \A m \in S : m =< n) = x
<1>1. \A y \in S : (\A m \in S : m =< y) => y = x
  OBVIOUS
<1> QED
  BY <1>1

(* record_round adds a note only to a round that has none, as the newest.  *)
LEMMA RecordedByS2 == ASSUME IInv, Recorded, S2Record PROVE Recorded'
<1>1. notes \in SUBSET Nat /\ Round \in Nat /\ (\A n \in notes : n =< Round)
  BY DEF IInv, TypeOK, Rounds, Round, Recorded, NotesTrackRounds
<1>2. At("STEP2_ITERATION", "llm") /\ UNCHANGED <<step, rounds, gates, reviews>>
  BY DEF S2Record
<1>3. /\ worker'.pc \in {"noted", "escalate"}
      /\ notes' \in {notes, notes \cup {Round}}
      /\ worker'.pc = "noted" => Round \in notes'
  BY DEF S2Record, Goto, Escalating
<1>4. notes' # {} => LatestNote' \in notes' /\ \A n \in notes' : n =< LatestNote'
  <2>1. CASE notes' = notes
    BY <2>1 DEF Recorded, LatestNote
  <2>2. CASE notes' = notes \cup {Round}
    <3>1. Round \in notes' /\ (\A n \in notes' : n =< Round) /\ notes' \in SUBSET Nat
      BY <2>2, <1>1
    <3>2. LatestNote' = Round
      BY <3>1, MaxChosen DEF LatestNote
    <3> QED
      BY <3>1, <3>2
  <2> QED
    BY <1>3, <2>1, <2>2
<1>5. /\ \A n \in notes' : n =< Round'
      /\ notes # {} => notes' # {}
      /\ worker'.pc = "noted" => Round' \in notes'
  BY <1>1, <1>2, <1>3 DEF Round
<1> QED
  BY <1>2, <1>3, <1>4, <1>5 DEF At, Recorded, NotesTrackRounds, CompletedEarned, NeedsNote

(* A continued row keeps its notes and at most counts the round it is in.  *)
LEMMA RecordedByContinue ==
    ASSUME IInv, Recorded, NEW k \in 1..HardMax, ContinueAfterEscalation(k)
    PROVE  Recorded'
<1>1. notes' = notes /\ LatestNote' = LatestNote /\ worker'.pc = "off"
      /\ step = "ESCALATED" /\ step' = "STEP2_ITERATION"
      /\ gates'.stepResume = gates.stepResume
  BY ContinueKeys DEF LatestNote, NoWorker
<1>2. \A n \in notes : n =< Round'
  <2>1. rounds \in Nat /\ notes \in SUBSET Nat /\ \A n \in notes : n =< rounds + 1
    BY DEF IInv, TypeOK, Rounds, Recorded, NotesTrackRounds, Round
  <2>2. rounds' = rounds \/ rounds' = rounds + 1
    BY ContinueKeys DEF Round
  <2> QED
    BY <2>1, <2>2, SMT DEF Round
<1> QED
  BY <1>1, <1>2 DEF Recorded, NotesTrackRounds, CompletedEarned, NeedsNote

(* Every other action keeps what is recorded, or records for the round.    *)
LEMMA RecordedStep == IInv /\ Recorded /\ [Next]_vars => Recorded'
<1> SUFFICES ASSUME IInv, Recorded, [Next]_vars PROVE Recorded'
  OBVIOUS
<1> USE DevWorkAssumption DEF IInv, TypeOK, Control, Keys, IsDriver, Round, NoWorker,
     Work, Terminal, Retryable, EndsRound, NeedsNote, Workers, Gates, Rounds,
     NoResume, NotesTrackRounds, CompletedEarned, LatestNote, Recorded
<1>1. CASE S0Init
  BY <1>1 DEF S0Init, CanTick, Count, Return, Escalating, Goto
<1>2. CASE S1Validate
  BY <1>2 DEF S1Validate, CanTick, Count, Return, Escalating, Goto
<1>3. CASE S2Begin
  BY <1>3 DEF S2Begin, CanTick, Count, Goto, OpenSession, Escalating, rowVars
<1>4. CASE S2Failed
  BY <1>4 DEF S2Failed, At, Retried, Mark, Return, Close, StoreStepResume,
       StepResume, Escalating, Goto
<1>5. CASE S2Invalid
  BY <1>5 DEF S2Invalid, At, Loop, NextRound, CloseRound, Return, MaxResume,
       ResolvedMax, Goto
<1>6. CASE S2Record
  BY <1>6, RecordedByS2
<1>7. CASE S2Transition
  BY <1>7 DEF S2Transition, At, Return, Close
<1>8. CASE S3Begin
  BY <1>8 DEF S3Begin, CanTick, Count, Goto, OpenSession, rowVars
<1>9. CASE S3Succeeded
  BY <1>9 DEF S3Succeeded, At, Return
<1>10. CASE S3Failed
  BY <1>10 DEF S3Failed, At, Retried, Mark, Return, Loop, NextRound, CloseRound,
       MaxResume, ResolvedMax, Goto
<1>11. CASE S4Begin
  BY <1>11 DEF S4Begin, CanTick, Count, Goto, OpenSession, Close, rowVars
<1>12. CASE S4Succeeded
  BY <1>12 DEF S4Succeeded, At, Return
<1>13. CASE S4Failed
  BY <1>13 DEF S4Failed, At, Retry4, Retried, StoreStepResume, StepResume, Mark,
       Goto, Escalating
<1>14. CASE Retry4Commit
  BY <1>14 DEF Retry4Commit, Return, CloseRound
<1>15. CASE S5Begin
  BY <1>15 DEF S5Begin, CanTick, Count, Escalating, Goto, Close, Loop,
       NextRound, CloseRound, Return, MaxResume, ResolvedMax, Retry4, Retried,
       StoreStepResume, StepResume, Mark, OpenSession
<1>16. CASE S5Unparseable
  BY <1>16 DEF S5Unparseable, At, Retried, Mark, Return, Close, StoreStepResume,
       StepResume, Escalating, Goto
<1>17. CASE S5Record
  BY <1>17 DEF S5Record, At, Goto
<1>18. CASE S5Passed
  BY <1>18 DEF S5Passed, At, Return, Close
<1>19. CASE S5Gap
  BY <1>19 DEF S5Gap, At, Loop, NextRound, CloseRound, Return, MaxResume,
       ResolvedMax, Goto
<1>20. CASE S5Abandoned
  BY <1>20 DEF S5Abandoned, At, Escalating, Goto, rowVars
<1>21. CASE BumpRounds
  BY <1>21 DEF BumpRounds, NextRound, Escalating, Goto
<1>22. CASE Escalate
  BY <1>22 DEF Escalate, Return
<1>23. CASE Breaker
  BY <1>23 DEF Breaker, Escalating, Goto, rowVars
<1>24. CASE DriverEnds
  BY <1>24 DEF DriverEnds, rowVars
<1>25. CASE ScheduleDriver
  BY <1>25 DEF ScheduleDriver, rowVars
<1>26. CASE Exception
  BY <1>26 DEF Exception, Escalating, Goto, Close, rowVars
<1>27. CASE Cancel
  BY <1>27 DEF Cancel
<1>28. CASE RerunCancelled
  BY <1>28 DEF RerunCancelled
<1>29. CASE ResumeStepAfterEscalation
  BY <1>29 DEF ResumeStepAfterEscalation, StepResumes
<1>30. CASE DeleteTerminal
  BY <1>30 DEF DeleteTerminal
<1>31. CASE Restart
  BY <1>31 DEF Restart, rowVars
<1>32. ASSUME NEW k \in 1..HardMax, ContinueAfterEscalation(k) PROVE Recorded'
  BY <1>32, RecordedByContinue
<1>33. CASE UNCHANGED vars
  BY <1>33 DEF vars, rowVars
<1> QED
  BY <1>1, <1>2, <1>3, <1>4, <1>5, <1>6, <1>7, <1>8, <1>9, <1>10, <1>11, <1>12,
       <1>13, <1>14, <1>15, <1>16, <1>17, <1>18, <1>19, <1>20, <1>21, <1>22,
       <1>23, <1>24, <1>25, <1>26, <1>27, <1>28, <1>29, <1>30, <1>31, <1>32,
       <1>33 DEF Next, DriverStep, Operator

(* A role's session is opened in its own steps, for the round the row is  *)
(* in, and is closed before another role takes over.                       *)
LEMMA SessionsStep == IInv /\ Sessions /\ [Next]_vars => Sessions'
<1> SUFFICES ASSUME IInv, Sessions, [Next]_vars PROVE Sessions'
  OBVIOUS
<1> USE DevWorkAssumption DEF IInv, TypeOK, Control, IsDriver, Round, NoWorker,
     Work, Terminal, Retryable, EndsRound, NeedsNote, Workers, NoSessions, Roles,
     Sessions
<1>1. CASE S0Init
  BY <1>1 DEF S0Init, CanTick, Count, Return, Escalating, Goto
<1>2. CASE S1Validate
  BY <1>2 DEF S1Validate, CanTick, Count, Return, Escalating, Goto
<1>3. CASE S2Begin
  BY <1>3 DEF S2Begin, CanTick, Count, Goto, OpenSession, Escalating, rowVars
<1>4. CASE S2Failed
  BY <1>4 DEF S2Failed, At, Retried, Mark, Return, Close, StoreStepResume,
       StepResume, Escalating, Goto
<1>5. CASE S2Invalid
  BY <1>5 DEF S2Invalid, At, Loop, NextRound, CloseRound, Return, MaxResume,
       ResolvedMax, Goto
<1>6. CASE S2Record
  BY <1>6 DEF S2Record, At, Goto, Escalating
<1>7. CASE S2Transition
  BY <1>7 DEF S2Transition, At, Return, Close
<1>8. CASE S3Begin
  BY <1>8 DEF S3Begin, CanTick, Count, Goto, OpenSession, rowVars
<1>9. CASE S3Succeeded
  BY <1>9 DEF S3Succeeded, At, Return
<1>10. CASE S3Failed
  BY <1>10 DEF S3Failed, At, Retried, Mark, Return, Loop, NextRound, CloseRound,
       MaxResume, ResolvedMax, Goto
<1>11. CASE S4Begin
  BY <1>11 DEF S4Begin, CanTick, Count, Goto, OpenSession, Close, rowVars
<1>12. CASE S4Succeeded
  BY <1>12 DEF S4Succeeded, At, Return
<1>13. CASE S4Failed
  BY <1>13 DEF S4Failed, At, Retry4, Retried, StoreStepResume, StepResume, Mark,
       Goto, Escalating
<1>14. CASE Retry4Commit
  BY <1>14 DEF Retry4Commit, Return, CloseRound
<1>15. CASE S5Begin
  BY <1>15 DEF S5Begin, CanTick, Count, Escalating, Goto, Close, Loop,
       NextRound, CloseRound, Return, MaxResume, ResolvedMax, Retry4, Retried,
       StoreStepResume, StepResume, Mark, OpenSession
<1>16. CASE S5Unparseable
  BY <1>16 DEF S5Unparseable, At, Retried, Mark, Return, Close, StoreStepResume,
       StepResume, Escalating, Goto
<1>17. CASE S5Record
  BY <1>17 DEF S5Record, At, Goto
<1>18. CASE S5Passed
  BY <1>18 DEF S5Passed, At, Return, Close
<1>19. CASE S5Gap
  BY <1>19 DEF S5Gap, At, Loop, NextRound, CloseRound, Return, MaxResume,
       ResolvedMax, Goto
<1>20. CASE S5Abandoned
  BY <1>20 DEF S5Abandoned, At, Escalating, Goto, rowVars
<1>21. CASE BumpRounds
  BY <1>21 DEF BumpRounds, NextRound, Escalating, Goto
<1>22. CASE Escalate
  BY <1>22 DEF Escalate, Return
<1>23. CASE Breaker
  BY <1>23 DEF Breaker, Escalating, Goto, rowVars
<1>24. CASE DriverEnds
  BY <1>24 DEF DriverEnds, rowVars
<1>25. CASE ScheduleDriver
  BY <1>25 DEF ScheduleDriver, rowVars
<1>26. CASE Exception
  BY <1>26 DEF Exception, Escalating, Goto, Close, rowVars
<1>27. CASE Cancel
  BY <1>27 DEF Cancel
<1>28. CASE RerunCancelled
  BY <1>28 DEF RerunCancelled
<1>29. CASE ResumeStepAfterEscalation
  BY <1>29 DEF ResumeStepAfterEscalation
<1>30. CASE DeleteTerminal
  BY <1>30 DEF DeleteTerminal
<1>31. CASE Restart
  BY <1>31 DEF Restart, rowVars
<1>32. ASSUME NEW k \in 1..HardMax, ContinueAfterEscalation(k) PROVE Sessions'
  BY <1>32 DEF ContinueAfterEscalation, NextRound
<1>33. CASE UNCHANGED vars
  BY <1>33 DEF vars, rowVars
<1> QED
  BY <1>1, <1>2, <1>3, <1>4, <1>5, <1>6, <1>7, <1>8, <1>9, <1>10, <1>11, <1>12,
       <1>13, <1>14, <1>15, <1>16, <1>17, <1>18, <1>19, <1>20, <1>21, <1>22,
       <1>23, <1>24, <1>25, <1>26, <1>27, <1>28, <1>29, <1>30, <1>31, <1>32,
       <1>33 DEF Next, DriverStep, Operator

(* Every action is a move of the state diagram or leaves it alone.         *)
LEMMA LifecycleStep == IInv /\ [Next]_vars => [Lifecycle!Next]_Lifecycle!vars
<1> SUFFICES ASSUME IInv, [Next]_vars PROVE [Lifecycle!Next]_Lifecycle!vars
  OBVIOUS
<1> USE DevWorkAssumption DEF IInv, TypeOK, Control, Keys, Round, NoWorker,
     Work, Retryable, EndsRound, Gates, NoOverride, ResolvedMax, Lifecycle!vars,
     Lifecycle!Next, Lifecycle!Work, Lifecycle!EndsRound
<1>1. CASE S0Init
  BY <1>1 DEF S0Init, CanTick, Count, Return, Escalating, Goto,
       Lifecycle!Advance, Lifecycle!Forward
<1>2. CASE S1Validate
  BY <1>2 DEF S1Validate, CanTick, Count, Return, Escalating, Goto,
       Lifecycle!Advance, Lifecycle!Forward
<1>3. CASE S2Begin
  BY <1>3 DEF S2Begin, CanTick, Count, Goto, OpenSession, Escalating, rowVars
<1>4. CASE S2Failed
  BY <1>4 DEF S2Failed, At, Retried, Mark, Return, Close, StoreStepResume,
       StepResume, Escalating, Goto
<1>5. CASE S2Invalid
  BY <1>5 DEF S2Invalid, At, Loop, NextRound, CloseRound, Return, MaxResume,
       ResolvedMax, Goto, Lifecycle!NextRound
<1>6. CASE S2Record
  BY <1>6 DEF S2Record, At, Goto, Escalating
<1>7. CASE S2Transition
  BY <1>7 DEF S2Transition, At, Return, Close, Lifecycle!Advance,
       Lifecycle!Forward
<1>8. CASE S3Begin
  BY <1>8 DEF S3Begin, CanTick, Count, Goto, OpenSession, rowVars
<1>9. CASE S3Succeeded
  BY <1>9 DEF S3Succeeded, At, Return, Lifecycle!Advance, Lifecycle!Forward
<1>10. CASE S3Failed
  BY <1>10 DEF S3Failed, At, Retried, Mark, Return, Loop, NextRound, CloseRound,
       MaxResume, ResolvedMax, Goto, Lifecycle!NextRound
<1>11. CASE S4Begin
  BY <1>11 DEF S4Begin, CanTick, Count, Goto, OpenSession, Close, rowVars
<1>12. CASE S4Succeeded
  BY <1>12 DEF S4Succeeded, At, Return, Lifecycle!Advance, Lifecycle!Forward
<1>13. CASE S4Failed
  BY <1>13 DEF S4Failed, At, Retry4, Retried, StoreStepResume, StepResume, Mark,
       Goto, Escalating
<1>14. CASE Retry4Commit
  BY <1>14 DEF Retry4Commit, Return, CloseRound, Lifecycle!Redevelop
<1>15. CASE S5Begin
  BY <1>15 DEF S5Begin, CanTick, Count, Escalating, Goto, Close, Loop,
       NextRound, CloseRound, Return, MaxResume, ResolvedMax, Retry4, Retried,
       StoreStepResume, StepResume, Mark, OpenSession, Lifecycle!NextRound
<1>16. CASE S5Unparseable
  BY <1>16 DEF S5Unparseable, At, Retried, Mark, Return, Close, StoreStepResume,
       StepResume, Escalating, Goto
<1>17. CASE S5Record
  BY <1>17 DEF S5Record, At, Goto
<1>18. CASE S5Passed
  BY <1>18 DEF S5Passed, At, Return, Close, Lifecycle!Advance, Lifecycle!Forward
<1>19. CASE S5Gap
  BY <1>19 DEF S5Gap, At, Loop, NextRound, CloseRound, Return, MaxResume,
       ResolvedMax, Goto, Lifecycle!NextRound
<1>20. CASE S5Abandoned
  BY <1>20 DEF S5Abandoned, At, Escalating, Goto, rowVars
<1>21. CASE BumpRounds
  BY <1>21 DEF BumpRounds, NextRound, Escalating, Goto, Lifecycle!SpendBudget
<1>22. CASE Escalate
  BY <1>22 DEF Escalate, Return, Lifecycle!Escalate
<1>23. CASE Breaker
  BY <1>23 DEF Breaker, Escalating, Goto, rowVars
<1>24. CASE DriverEnds
  BY <1>24 DEF DriverEnds, rowVars
<1>25. CASE ScheduleDriver
  BY <1>25 DEF ScheduleDriver, rowVars
<1>26. CASE Exception
  BY <1>26 DEF Exception, Escalating, Goto, Close, rowVars
<1>27. CASE Cancel
  BY <1>27 DEF Cancel, Lifecycle!Cancel
<1>28. CASE RerunCancelled
  BY <1>28 DEF RerunCancelled, Lifecycle!Rerun
<1>29. CASE ResumeStepAfterEscalation
  BY <1>29 DEF ResumeStepAfterEscalation, Lifecycle!ResumeStep, StepResumes,
       Gates
<1>30. CASE DeleteTerminal
  BY <1>30 DEF DeleteTerminal, Lifecycle!Delete
<1>31. CASE Restart
  BY <1>31 DEF Restart, rowVars
<1>32. ASSUME NEW k \in 1..HardMax, ContinueAfterEscalation(k) PROVE [Lifecycle!Next]_Lifecycle!vars
  <2> DEFINE done == IF gates.maxResume.completed > rounds
                     THEN gates.maxResume.completed ELSE rounds
  <2>1. done \in {rounds, rounds + 1} /\ rounds' = done
    BY <1>32 DEF ContinueAfterEscalation, NextRound, MaxResumeCurrent
  <2>2. gates'.override = done + k /\ gates'.cancelledFrom = gates.cancelledFrom
    BY <1>32 DEF ContinueAfterEscalation, NextRound
  <2>3. done + k \in (done + 1)..HardMax
    BY <1>32, <2>1 DEF ContinueAfterEscalation
  <2>4. ResolvedMax' = done + k
    BY <2>1, <2>2
  <2>5. step = "ESCALATED" /\ step' = "STEP2_ITERATION"
    BY <1>32 DEF ContinueAfterEscalation
  <2> HIDE DEF done
  <2>6. Lifecycle!Continue
    BY <2>1, <2>2, <2>3, <2>4, <2>5 DEF Lifecycle!Continue
  <2> QED
    BY <2>6
<1>33. CASE UNCHANGED vars
  BY <1>33 DEF vars, rowVars, ResolvedMax
<1> QED
  BY <1>1, <1>2, <1>3, <1>4, <1>5, <1>6, <1>7, <1>8, <1>9, <1>10, <1>11, <1>12,
       <1>13, <1>14, <1>15, <1>16, <1>17, <1>18, <1>19, <1>20, <1>21, <1>22,
       <1>23, <1>24, <1>25, <1>26, <1>27, <1>28, <1>29, <1>30, <1>31, <1>32,
       <1>33 DEF Next, DriverStep, Operator

----------------------------------------------------------------------------
(* IInv is an inductive invariant: create establishes it.                  *)
LEMMA InitIInv == Init => IInv
<1> SUFFICES ASSUME Init PROVE IInv
  OBVIOUS
<1> USE DevWorkAssumption DEF Init, IsDriver, Round, NoWorker, NoResume,
     NoOverride,
    Work, Causes, Retryable
<1>1. TypeOK
  BY DEF TypeOK, Gates, Workers, NoSessions, Roles, Rounds
<1>2. Control
  BY DEF Control
<1>3. Keys
  BY DEF Keys, MaxResumeCurrent, EscalationKeepsResume
<1>4. TickBudget
  BY DEF TickBudget
<1> QED
  BY <1>1, <1>2, <1>3, <1>4 DEF IInv

(* Every step keeps the types, the control, the keys and the tick budget.  *)
LEMMA NextIInv == IInv /\ [Next]_vars => IInv'
BY TypeStep, ControlStep, KeysStep, BudgetStep DEF IInv

(* So IInv holds in every behaviour.                                       *)
LEMMA Invariance == Spec => []IInv
<1>1. Init => IInv
  BY InitIInv
<1>2. IInv /\ [Next]_vars => IInv'
  BY NextIInv
<1> QED
  BY <1>1, <1>2, PTL DEF Spec

(* The row, its gates and its worker keep their types, whatever the order  *)
(* of handler steps, interruptions and calls.                              *)
THEOREM TypeCorrect == Spec => []TypeOK
<1>1. IInv => TypeOK
  BY DEF IInv
<1> QED
  BY <1>1, Invariance, PTL

(* _MAX_TICKS only stops runaways: a driver needs at most 9 ticks a round  *)
(* and 2 before the first, so with 600 ticks and 50 rounds the circuit     *)
(* breaker of run_to_completion never fires.                               *)
THEOREM BreakerNeverFires ==
    ASSUME MaxTicks >= 2 + TicksPerRound * HardMax
    PROVE  Spec => []BreakerUnused
<1>1. IInv => BreakerUnused
  BY DevWorkAssumption DEF IInv, TypeOK, TickBudget, InRound, FromStep,
       FromStep2,
     FromStep3, FromStep4, FromStep5, Unused, RoundsLeft, TicksPerRound, Round,
     ResolvedMax, Gates, NoOverride, Work, BreakerUnused
<1> QED
  BY <1>1, Invariance, PTL

(* A row that was escalated by its budget or by a failed retry always      *)
(* holds the key that lets the operator continue or resume it.             *)
THEOREM EscalationResumable == Spec => []EscalationKeepsResume
<1>1. IInv => EscalationKeepsResume
  BY DEF IInv, Keys
<1> QED
  BY <1>1, Invariance, PTL

(* The completed_round that continue reads is never stale.                 *)
THEOREM ResumeKeyCurrent == Spec => []MaxResumeCurrent
<1>1. IInv => MaxResumeCurrent
  BY DEF IInv, Keys
<1> QED
  BY <1>1, Invariance, PTL

(* The same for the notes and for the sessions, on top of IInv.            *)
LEMMA RecordedInvariance == Spec => []Recorded
<1>1. Init => Recorded
  BY DEF Init, Recorded, NotesTrackRounds, CompletedEarned, NoWorker, NoResume
<1>2. IInv /\ Recorded /\ [Next]_vars => Recorded'
  BY RecordedStep
<1> QED
  BY <1>1, <1>2, Invariance, PTL DEF Spec

(* No handler, interruption or call leaves a session where none may be.    *)
LEMMA SessionsInvariance == Spec => []Sessions
<1>1. Init => Sessions
  BY DEF Init, Sessions, NoSessions, Roles
<1>2. IInv /\ Sessions /\ [Next]_vars => Sessions'
  BY SessionsStep
<1> QED
  BY <1>1, <1>2, Invariance, PTL DEF Spec

(* No note is ahead of the round counter, and from STEP3 to STEP5 there is *)
(* some note, whatever cancels, reruns and resumes came first.  (A round   *)
(* whose note was invalid has none.)                                       *)
THEOREM NotesFollowRounds == Spec => []NotesTrackRounds
<1>1. Recorded => NotesTrackRounds
  BY DEF Recorded
<1> QED
  BY <1>1, RecordedInvariance, PTL

(* _s5_review completes a DevWork only with a passing review, and in the   *)
(* round that its newest note plans.                                       *)
THEOREM CompletionEarned == Spec => []CompletedEarned
<1>1. Recorded => CompletedEarned
  BY DEF Recorded
<1> QED
  BY <1>1, RecordedInvariance, PTL

(* A terminal row that nobody works on has no open session, whichever of   *)
(* completion, escalation, cancel, exception or restart ended the work.    *)
THEOREM TerminalSessionsClosed == Spec => []SessionsClosed
<1>1. IInv /\ Sessions => SessionsClosed
  <2> SUFFICES ASSUME IInv, Sessions, worker = NoWorker, step \notin Work
               PROVE  sess = NoSessions
    BY DEF SessionsClosed
  <2>1. sess \in [Roles -> Nat]
    BY DEF IInv, TypeOK
  <2>2. \A r \in Roles : sess[r] = 0
    BY DEF Sessions, NeedsNote, Work, Roles
  <2> QED
    BY <2>1, <2>2 DEF NoSessions
<1> QED
  BY <1>1, Invariance, SessionsInvariance, PTL

(* While the review of _s5_review runs, the sessions that planned and      *)
(* wrote the code are closed.                                              *)
THEOREM ReviewerIsCold == Spec => []ColdReviewer
<1>1. Sessions => ColdReviewer
  BY DEF Sessions, ColdReviewer, At
<1> QED
  BY <1>1, SessionsInvariance, PTL

(* Handlers, driver, calls and restarts together do only what the state    *)
(* diagram allows, within the budget of rounds.                            *)
THEOREM ImplementsLifecycle == Spec => LifecycleSpec
<1>1. Init => Lifecycle!Init
  BY DevWorkAssumption DEF Init, Lifecycle!Init, ResolvedMax, NoOverride
<1>2. IInv /\ [Next]_vars => [Lifecycle!Next]_Lifecycle!vars
  BY LifecycleStep
<1> QED
  BY <1>1, <1>2, Invariance, PTL DEF Spec, LifecycleSpec, Lifecycle!Spec
=============================================================================
