-------------------------- MODULE DevWorkLifecycle --------------------------
(***************************************************************************)
(* What a DevWork promises its operator, without handlers, tasks, sessions *)
(* or gates_json: the writes of dev_work_sm.py to current_step and         *)
(* iteration_rounds, who may make them when, and the budget they obey.     *)
(***************************************************************************)
EXTENDS Integers

CONSTANTS
    MaxRounds,  \* config.devwork.max_rounds, the largest budget create grants
    HardMax     \* _HARD_MAX_ROUNDS, the largest budget a continue grants

VARIABLES
    step,       \* dev_works.current_step
    rounds,     \* rounds completed
    budget,     \* rounds the row may complete
    from        \* where a CANCELLED row resumes, "none" otherwise

vars == <<step, rounds, budget, from>>

Work == {"INIT", "STEP1_VALIDATE", "STEP2_ITERATION", "STEP3_CONTEXT",
         "STEP4_DEVELOP", "STEP5_REVIEW"}

(* The way through a round that goes well.                                 *)
Forward == {<<"INIT", "STEP1_VALIDATE">>,
            <<"STEP1_VALIDATE", "STEP2_ITERATION">>,
            <<"STEP2_ITERATION", "STEP3_CONTEXT">>,
            <<"STEP3_CONTEXT", "STEP4_DEVELOP">>,
            <<"STEP4_DEVELOP", "STEP5_REVIEW">>,
            <<"STEP5_REVIEW", "COMPLETED">>}

(* The steps that can end a round: STEP4 only retries or escalates.        *)
EndsRound == {"STEP2_ITERATION", "STEP3_CONTEXT", "STEP5_REVIEW"}

Init ==
    /\ step = "INIT" /\ rounds = 0 /\ from = "none"
    /\ budget \in 0..MaxRounds

Advance ==
    /\ \E e \in Forward : step = e[1] /\ step' = e[2]
    /\ UNCHANGED <<rounds, budget, from>>

\* A failed preflight sends the same round back to STEP4.
Redevelop ==
    /\ step = "STEP5_REVIEW" /\ step' = "STEP4_DEVELOP"
    /\ UNCHANGED <<rounds, budget, from>>

NextRound ==
    /\ step \in EndsRound /\ rounds + 1 < budget
    /\ step' = "STEP2_ITERATION" /\ rounds' = rounds + 1
    /\ UNCHANGED <<budget, from>>

\* The last round is counted before the row is escalated.
SpendBudget ==
    /\ step \in EndsRound /\ rounds + 1 >= budget
    /\ rounds' = rounds + 1
    /\ UNCHANGED <<step, budget, from>>

Escalate ==
    /\ step \in Work /\ step' = "ESCALATED"
    /\ UNCHANGED <<rounds, budget, from>>

Cancel ==
    /\ step \in Work /\ step' = "CANCELLED" /\ from' = step
    /\ UNCHANGED <<rounds, budget>>

Rerun ==
    /\ step = "CANCELLED" /\ step' = from /\ from' = "none"
    /\ UNCHANGED <<rounds, budget>>

\* An escalation that interrupted SpendBudget has the round counted here.
Continue ==
    /\ step = "ESCALATED" /\ step' = "STEP2_ITERATION"
    /\ rounds' \in {rounds, rounds + 1}
    /\ budget' \in (rounds' + 1)..HardMax
    /\ UNCHANGED from

ResumeStep ==
    /\ step = "ESCALATED"
    /\ step' \in {"STEP2_ITERATION", "STEP4_DEVELOP", "STEP5_REVIEW"}
    /\ UNCHANGED <<rounds, budget, from>>

Delete ==
    /\ step \in {"CANCELLED", "ESCALATED"} /\ step' = "DELETED"
    /\ UNCHANGED <<rounds, budget, from>>

Next ==
    \/ Advance \/ Redevelop \/ NextRound \/ SpendBudget \/ Escalate
    \/ Cancel \/ Rerun \/ Continue \/ ResumeStep \/ Delete

Spec == Init /\ [][Next]_vars
=============================================================================
