--------------------------- MODULE Database_proofs ---------------------------
(***************************************************************************)
(* What database.py promises to a call that nobody runs beside, for any    *)
(* tasks, any overlap of the others and any of the faults: acknowledged    *)
(* writes are kept and transactions are all or nothing.                    *)
(*                                                                         *)
(* The two promises are not inductive.  An acknowledged write that is only *)
(* pending lies in a connection that can neither commit nor roll back any  *)
(* more (Wedged); and while a transaction has the connection to itself,    *)
(* the flag is up and what is pending is its own (Inside).                 *)
(***************************************************************************)
EXTENDS Database, TLAPS

\* The flag is up over an open transaction and nobody is inside to lower it.
Wedged == inTransaction /\ open /\ \A t \in Transactions : ~Active(t)

Safe(t) == \/ WritesOf(t) \subseteq stored
           \/ Wedged /\ WritesOf(t) \subseteq stored \cup pending

\* What a task has handed to the connection.
Made(t) == {t} \X (1..(IF pc[t] = "executed" THEN written[t] + 1 ELSE written[t]))

Progress(t) ==
    /\ pc[t] = "idle" => written[t] = 0 /\ WritesOf(t) \cap (stored \cup pending) = {}
    /\ pc[t] = "executed" => written[t] < NeededBy(t)
    /\ t \in Singles => pc[t] \in {"idle", "executed", "locked", "retry", "end"}
    /\ pc[t] # "end" => outcome[t] = "none"

\* A transaction that nobody runs beside.
Inside(t) ==
    /\ Active(t) => inTransaction
    /\ pc[t] \in {"begun", "body", "executed", "locked", "retry", "except"} =>
           open /\ pending = Made(t) /\ WritesOf(t) \cap stored = {}
    /\ pc[t] = "committed" => WritesOf(t) \subseteq stored
    /\ pc[t] = "rolledBack" => WritesOf(t) \cap (stored \cup pending) = {}
    /\ outcome[t] = "ok" => WritesOf(t) \subseteq stored
    /\ outcome[t] = "failed" => WritesOf(t) \cap (stored \cup pending) = {}

\* A single statement that nobody runs beside, with its retries.
Outside(t) ==
    /\ pc[t] = "executed" => open /\ <<t, 1>> \in pending /\ written[t] = 0
    /\ outcome[t] = "ok" => Safe(t)

Inv ==
    /\ TypeOK
    /\ \A t, u \in Tasks : Active(t) /\ Active(u) /\ t # u => t \in shared
    /\ ~open => pending = {}
    /\ \A t \in Tasks : Progress(t)
    /\ \A t \in Transactions \ shared : Inside(t)
    /\ \A t \in Singles \ shared : Outside(t)

LEMMA InitInv == Init => Inv
<1> SUFFICES ASSUME Init PROVE Inv
  OBVIOUS
<1> USE DatabaseAssumption DEF Init, Tasks
<1>1. TypeOK
  <2>1. inTransaction \in BOOLEAN /\ open \in BOOLEAN
    OBVIOUS
  <2>2. pending \subseteq Tasks \X (1..2) /\ stored \subseteq Tasks \X (1..2)
    OBVIOUS
  <2>3. pc \in [Tasks -> {"idle", "begun", "body", "executed", "locked", "retry",
                          "committed", "except", "rolledBack", "end"}]
    OBVIOUS
  <2>4. written \in [Tasks -> 0..2]
        /\ outcome \in [Tasks -> {"none", "ok", "failed", "cancelled"}]
    OBVIOUS
  <2>5. patient \subseteq Tasks /\ shared \subseteq Tasks
    OBVIOUS
  <2> QED
    BY <2>1, <2>2, <2>3, <2>4, <2>5 DEF TypeOK
<1>2. \A t \in Tasks : ~Active(t) /\ Progress(t)
  BY DEF Active, Progress
<1>3. \A t \in Transactions \ shared : Inside(t)
  BY <1>2 DEF Inside
<1>4. \A t \in Singles \ shared : Outside(t)
  BY DEF Outside
<1> QED
  BY <1>1, <1>2, <1>3, <1>4 DEF Inv

(* A step of t as the others see it: their own records stay, nothing       *)
(* stored is taken back, only t's writes are added, and a wedged           *)
(* connection stays so.                                                    *)
Frame(t) ==
    /\ TypeOK'
    /\ \A u \in Tasks \ {t} :
           pc'[u] = pc[u] /\ written'[u] = written[u] /\ outcome'[u] = outcome[u]
    /\ stored \subseteq stored'
    /\ \A x \in stored' \cup pending' : x \in stored \cup pending \/ x[1] = t
    /\ Wedged => Wedged' /\ pending \subseteq pending'
    /\ ~open' => pending' = {}

\* And as t sees it.
Own(t) ==
    /\ Progress(t)'
    /\ t \in Transactions \ shared' => Inside(t)'
    /\ t \in Singles \ shared' => Outside(t)'

\* Who is not seen beside others has the connection to itself.
LEMMA ActsAlone ==
    ASSUME Inv, NEW t \in Tasks, Observe(t), t \notin shared'
    PROVE  t \notin shared /\ \A u \in Tasks \ {t} : ~Active(u)
BY DEF Observe

LEMMA OthersKept ==
    ASSUME Inv, NEW t \in Tasks, Observe(t), Frame(t), NEW u \in Tasks, u # t
    PROVE  /\ Progress(u)'
           /\ u \in Transactions \ shared' => Inside(u)'
           /\ u \in Singles \ shared' => Outside(u)'
<1>1. pc'[u] = pc[u] /\ written'[u] = written[u] /\ outcome'[u] = outcome[u]
  BY DEF Frame
<1>2. \A x \in WritesOf(u) : x \in stored' \cup pending' => x \in stored \cup pending
  BY DEF Frame, WritesOf
<1>3. WritesOf(u)' = WritesOf(u)
  BY DEF WritesOf, NeededBy
<1>4. Progress(u)'
  <2>1. Progress(u)
    BY DEF Inv
  <2>2. WritesOf(u) \cap (stored \cup pending) = {}
        => WritesOf(u) \cap (stored' \cup pending') = {}
    BY <1>2
  <2> QED
    BY <1>1, <1>3, <2>1, <2>2 DEF Progress, NeededBy
<1>5. ASSUME u \notin shared' PROVE u \notin shared /\ pc[u] \in {"idle", "end"}
  BY <1>5 DEF Observe, Active
<1>6. ASSUME u \in Transactions \ shared' PROVE Inside(u)'
  <2>1. Inside(u) /\ pc[u] \in {"idle", "end"}
    BY <1>5, <1>6 DEF Inv
  <2> QED
    BY <1>1, <1>2, <1>3, <2>1 DEF Inside, Frame, Active
<1>7. ASSUME u \in Singles \ shared' PROVE Outside(u)'
  <2>1. Outside(u) /\ pc[u] \in {"idle", "end"}
    BY <1>5, <1>7 DEF Inv
  <2>2. Safe(u) => Safe(u)'
    BY <1>3 DEF Safe, Frame
  <2> QED
    BY <1>1, <2>1, <2>2 DEF Outside
<1> QED
  BY <1>4, <1>6, <1>7

\* So a step needs a look at its own task only.
LEMMA OneStep ==
    ASSUME Inv, NEW t \in Tasks, Observe(t), Frame(t), Own(t) PROVE Inv'
<1>1. ASSUME NEW a \in Tasks, NEW b \in Tasks, Active(a)', Active(b)', a # b
      PROVE  a \in shared'
  <2>1. \A c \in Tasks \ {t} : Active(c)' => Active(c)
    BY DEF Frame, Active
  <2>2. shared \subseteq shared'
    BY DEF Observe
  <2>3. CASE a = t
    BY <1>1, <2>1, <2>3 DEF Observe
  <2>4. CASE b = t
    BY <1>1, <2>1, <2>4 DEF Observe
  <2>5. CASE a # t /\ b # t
    BY <1>1, <2>1, <2>2, <2>5 DEF Inv
  <2> QED
    BY <2>3, <2>4, <2>5
<1>2. \A u \in Tasks : Progress(u)'
  BY OthersKept DEF Own
<1>3. \A u \in Transactions \ shared' : Inside(u)'
  BY OthersKept DEF Own, Tasks
<1>4. \A u \in Singles \ shared' : Outside(u)'
  BY OthersKept DEF Own, Tasks
<1>5. TypeOK' /\ (~open' => pending' = {})
  BY DEF Frame
<1> QED
  BY <1>1, <1>2, <1>3, <1>4, <1>5 DEF Inv

\* A transaction inside keeps the connection from being wedged.
LEMMA InsideNotWedged ==
    ASSUME NEW t \in Transactions, Active(t) PROVE ~Wedged
BY DEF Wedged

LEMMA SharedTyped == ASSUME Inv, NEW t \in Tasks, Observe(t) PROVE shared' \subseteq Tasks
BY DEF Observe, Inv, TypeOK

LEMMA BeginKept == ASSUME Inv, NEW t \in Tasks, Begin(t), Observe(t) PROVE Inv'
<1>1. /\ t \in Transactions /\ t \notin Singles /\ pc[t] = "idle" /\ Progress(t)
      /\ pending' = pending /\ stored' = stored /\ written' = written /\ patient' = patient
      /\ inTransaction' /\ open' /\ inTransaction' \in BOOLEAN /\ open' \in BOOLEAN
  BY DatabaseAssumption DEF Begin, MayStart, Inv
<1>2. \/ open /\ pc' = [pc EXCEPT ![t] = "end"] /\ outcome' = [outcome EXCEPT ![t] = "failed"]
      \/ ~open /\ pc' = [pc EXCEPT ![t] = "begun"] /\ outcome' = outcome
  BY DEF Begin, Finish, Move
<1>3. Frame(t)
  <2>1. TypeOK'
    BY <1>1, <1>2, SharedTyped DEF Inv, TypeOK
  <2>2. \A u \in Tasks \ {t} :
           pc'[u] = pc[u] /\ written'[u] = written[u] /\ outcome'[u] = outcome[u]
    BY <1>1, <1>2 DEF Inv, TypeOK
  <2>3. Wedged => Wedged'
    <3> SUFFICES ASSUME Wedged PROVE Wedged'
      OBVIOUS
    <3>1. pc'[t] = "end"
      BY <1>1, <1>2 DEF Wedged, Inv, TypeOK
    <3> QED
      BY <1>1, <2>2, <3>1 DEF Wedged, Active, Tasks
  <2> QED
    BY <1>1, <2>1, <2>2, <2>3 DEF Frame
<1>4. Own(t)
  <2>1. WritesOf(t) \cap (stored' \cup pending') = {} /\ written'[t] = 0 /\ outcome[t] = "none"
    BY <1>1 DEF Progress
  <2>2. WritesOf(t)' = WritesOf(t)
    BY DEF WritesOf, NeededBy
  <2>3. CASE open
    <3>1. pc'[t] = "end" /\ outcome'[t] = "failed"
      BY <1>2, <2>3 DEF Inv, TypeOK
    <3> QED
      BY <1>1, <2>1, <2>2, <3>1 DEF Own, Progress, Inside, Active
  <2>4. CASE ~open
    <3>1. pc'[t] = "begun" /\ outcome'[t] = "none" /\ pending' = {}
      BY <1>1, <1>2, <2>1, <2>4 DEF Inv, TypeOK
    <3>2. Made(t)' = {}
      BY <2>1, <3>1 DEF Made
    <3> QED
      BY <1>1, <2>1, <2>2, <3>1, <3>2 DEF Own, Progress, Inside, Active
  <2> QED
    BY <2>3, <2>4
<1> QED
  BY OneStep, <1>3, <1>4

(* The rest of transaction(): the connection is the task's own until       *)
(* Finally.                                                                *)

LEMMA CommitKept == ASSUME Inv, NEW t \in Tasks, Commit(t), Observe(t) PROVE Inv'
<1>1. /\ t \in Transactions /\ t \notin Singles /\ Active(t) /\ pc[t] = "body"
      /\ written[t] = 2 /\ outcome[t] = "none"
      /\ written' = written /\ outcome' = outcome /\ patient' = patient
      /\ inTransaction' = inTransaction
  BY DatabaseAssumption DEF Commit, Inv, Active, NeededBy, Progress
<1>2. \/ /\ stored' = stored \cup pending /\ pending' = {} /\ open' = FALSE
         /\ pc' = [pc EXCEPT ![t] = IF open THEN "committed" ELSE "except"]
      \/ /\ UNCHANGED <<stored, pending, open>>
         /\ pc' = [pc EXCEPT ![t] = "except"]
  BY DEF Commit, DoCommit, Move
<1>3. Frame(t)
  <2>1. TypeOK'
    <3>1. pending' \subseteq Tasks \X (1..2) /\ stored' \subseteq Tasks \X (1..2) /\ open' \in BOOLEAN
      BY <1>2 DEF Inv, TypeOK
    <3>2. pc' \in [Tasks -> {"idle", "begun", "body", "executed", "locked", "retry",
                             "committed", "except", "rolledBack", "end"}]
      BY <1>2 DEF Inv, TypeOK
    <3> QED
      BY <1>1, <3>1, <3>2, SharedTyped DEF Inv, TypeOK
  <2>2. \A u \in Tasks \ {t} : pc'[u] = pc[u]
    BY <1>2 DEF Inv, TypeOK
  <2>3. ~Wedged
    BY <1>1, InsideNotWedged
  <2>4. stored \subseteq stored' /\ stored' \cup pending' \subseteq stored \cup pending
        /\ (~open' => pending' = {})
    BY <1>2 DEF Inv
  <2> QED
    BY <1>1, <2>1, <2>2, <2>3, <2>4 DEF Frame
<1>4. Own(t)
  <2>1. pc'[t] \in {"committed", "except"}
    BY <1>2 DEF Inv, TypeOK
  <2>2. Progress(t)'
    BY <1>1, <2>1 DEF Progress
  <2>3. ASSUME t \notin shared' PROVE Inside(t)'
    <3>1. Inside(t)
      BY <1>1, <2>3, ActsAlone DEF Inv
    <3>2. open /\ pending = Made(t) /\ WritesOf(t) \cap stored = {} /\ inTransaction
      BY <1>1, <3>1 DEF Inside
    <3>3. Made(t) = WritesOf(t) /\ WritesOf(t)' = WritesOf(t)
      BY <1>1 DEF Made, WritesOf, NeededBy
    <3>4. CASE pc'[t] = "committed"
      <4>1. stored' = stored \cup pending
        BY <1>2, <3>4 DEF Inv, TypeOK
      <4> QED
        BY <1>1, <3>2, <3>3, <3>4, <4>1 DEF Inside
    <3>5. CASE pc'[t] = "except"
      <4>1. UNCHANGED <<stored, pending, open>>
        BY <1>2, <3>2, <3>5 DEF Inv, TypeOK
      <4>2. Made(t)' = Made(t)
        BY <1>1, <3>5 DEF Made
      <4> QED
        BY <1>1, <3>2, <3>3, <3>5, <4>1, <4>2 DEF Inside
    <3> QED
      BY <2>1, <3>4, <3>5
  <2> QED
    BY <1>1, <2>2, <2>3 DEF Own
<1> QED
  BY OneStep, <1>3, <1>4

LEMMA RollbackKept == ASSUME Inv, NEW t \in Tasks, Rollback(t), Observe(t) PROVE Inv'
<1>1. /\ t \in Transactions /\ t \notin Singles /\ Active(t) /\ pc[t] = "except"
      /\ outcome[t] = "none"
  BY DatabaseAssumption DEF Rollback, Inv, Progress, Active, Tasks
<1>2. /\ stored' = stored /\ pending' = {} /\ open' = FALSE /\ inTransaction' = inTransaction
      /\ pc' = [pc EXCEPT ![t] = "rolledBack"]
      /\ written' = written /\ outcome' = outcome /\ patient' = patient
  BY DEF Rollback, DoRollback, Move
<1>3. Frame(t)
  <2>1. TypeOK'
    BY <1>2, SharedTyped DEF Inv, TypeOK
  <2>2. \A u \in Tasks \ {t} : pc'[u] = pc[u]
    BY <1>2 DEF Inv, TypeOK
  <2>3. ~Wedged
    BY <1>1, InsideNotWedged
  <2> QED
    BY <1>2, <2>1, <2>2, <2>3 DEF Frame
<1>4. Own(t)
  <2>1. pc'[t] = "rolledBack"
    BY <1>2 DEF Inv, TypeOK
  <2>2. Progress(t)'
    BY <1>1, <1>2, <2>1 DEF Progress
  <2>3. ASSUME t \notin shared' PROVE Inside(t)'
    <3>1. Inside(t)
      BY <1>1, <2>3, ActsAlone DEF Inv
    <3>2. WritesOf(t) \cap stored = {} /\ inTransaction
      BY <1>1, <3>1 DEF Inside
    <3> QED
      BY <1>1, <1>2, <2>1, <3>2 DEF Inside, WritesOf, NeededBy
  <2> QED
    BY <1>1, <2>2, <2>3 DEF Own
<1> QED
  BY OneStep, <1>3, <1>4

LEMMA FinallyKept == ASSUME Inv, NEW t \in Tasks, Finally(t), Observe(t) PROVE Inv'
<1>1. /\ t \in Transactions /\ t \notin Singles /\ Active(t)
      /\ pc[t] \in {"committed", "rolledBack"}
  BY DatabaseAssumption DEF Finally, Inv, Progress, Active, Tasks
<1>2. /\ stored' = stored /\ pending' = pending /\ open' = open /\ inTransaction' = FALSE
      /\ pc' = [pc EXCEPT ![t] = "end"] /\ written' = written /\ patient' = patient
      /\ outcome' = [outcome EXCEPT ![t] = IF pc[t] = "committed" THEN "ok" ELSE "failed"]
  BY DEF Finally, Finish, Move
<1>3. Frame(t)
  <2>1. TypeOK'
    BY <1>2, SharedTyped DEF Inv, TypeOK
  <2>2. \A u \in Tasks \ {t} : pc'[u] = pc[u] /\ outcome'[u] = outcome[u]
    BY <1>2 DEF Inv, TypeOK
  <2>3. ~Wedged
    BY <1>1, InsideNotWedged
  <2>4. ~open' => pending' = {}
    BY <1>2 DEF Inv
  <2> QED
    BY <1>2, <2>1, <2>2, <2>3, <2>4 DEF Frame
<1>4. Own(t)
  <2>1. pc'[t] = "end" /\ outcome'[t] = IF pc[t] = "committed" THEN "ok" ELSE "failed"
    BY <1>2 DEF Inv, TypeOK
  <2>2. Progress(t)'
    BY <1>1, <2>1 DEF Progress
  <2>3. ASSUME t \notin shared' PROVE Inside(t)'
    <3>1. Inside(t)
      BY <1>1, <2>3, ActsAlone DEF Inv
    <3> QED
      BY <1>1, <1>2, <2>1, <3>1 DEF Inside, Active, WritesOf, NeededBy
  <2> QED
    BY <1>1, <2>2, <2>3 DEF Own
<1> QED
  BY OneStep, <1>3, <1>4

(* execute().                                                              *)

LEMMA ExecuteKept == ASSUME Inv, NEW t \in Tasks, Execute(t), Observe(t) PROVE Inv'
<1>1. /\ stored' = stored /\ outcome' = outcome /\ inTransaction' = inTransaction
      /\ open' = TRUE /\ written' = written /\ pc' = [pc EXCEPT ![t] = "executed"]
      /\ pending' = pending \cup {<<t, written[t] + 1>>}
      /\ written[t] < NeededBy(t) /\ Progress(t)
  BY DEF Execute, CanExecute, Move, Inv
<1>2. pc[t] \in {"idle", "retry", "begun", "body"} /\ outcome[t] = "none"
      /\ (t \in Transactions => Active(t))
  BY <1>1, DatabaseAssumption DEF Execute, CanExecute, MayStart, Progress, Active
<1>3. written[t] \in 0..2 /\ written[t] + 1 \in 1..2
  BY <1>1 DEF Inv, TypeOK, NeededBy
<1>4. Frame(t)
  <2>1. TypeOK'
    <3>1. patient' \subseteq Tasks
      BY DEF Execute, Attempts, Inv, TypeOK
    <3>2. pending' \subseteq Tasks \X (1..2)
      BY <1>1, <1>3 DEF Inv, TypeOK
    <3> QED
      BY <1>1, <3>1, <3>2, SharedTyped DEF Inv, TypeOK
  <2>2. \A u \in Tasks \ {t} : pc'[u] = pc[u]
    BY <1>1 DEF Inv, TypeOK
  <2>3. Wedged => Wedged'
    <3> SUFFICES ASSUME Wedged PROVE Wedged'
      OBVIOUS
    <3>1. t \notin Transactions
      BY <1>2, InsideNotWedged
    <3> QED
      BY <1>1, <2>2, <3>1 DEF Wedged, Active, Tasks
  <2> QED
    BY <1>1, <2>1, <2>2, <2>3 DEF Frame
<1>5. pc'[t] = "executed"
  BY <1>1 DEF Inv, TypeOK
<1>6. Progress(t)'
  BY <1>1, <1>2, <1>5 DEF Progress, NeededBy
<1>7. ASSUME t \in Transactions, t \notin shared' PROVE Inside(t)'
  <2>1. Inside(t)
    BY <1>7, ActsAlone DEF Inv
  <2>2. open /\ pending = {t} \X (1..written[t]) /\ WritesOf(t) \cap stored = {} /\ inTransaction
    BY <1>2, <1>7, <2>1 DEF Inside, Active, Made
  <2>3. Made(t)' = {t} \X (1..(written[t] + 1))
    BY <1>1, <1>5 DEF Made
  <2>4. pending' = Made(t)'
    <3>1. \A i : i \in 1..(written[t] + 1) <=> i \in 1..written[t] \/ i = written[t] + 1
      BY <1>3
    <3> QED
      BY <1>1, <2>2, <2>3, <3>1
  <2>5. WritesOf(t)' \cap stored' = {}
    BY <1>1, <2>2 DEF WritesOf, NeededBy
  <2> QED
    BY <1>1, <1>2, <1>5, <2>2, <2>4, <2>5 DEF Inside
<1>8. ASSUME t \in Singles PROVE Outside(t)'
  <2>1. written[t] = 0
    BY <1>1, <1>3, <1>8, DatabaseAssumption DEF NeededBy
  <2> QED
    BY <1>1, <1>2, <1>5, <2>1 DEF Outside
<1> QED
  BY OneStep, <1>4, <1>6, <1>7, <1>8 DEF Own

LEMMA SettleKept == ASSUME Inv, NEW t \in Tasks, Settle(t), Observe(t) PROVE Inv'
<1>1. /\ pc[t] = "executed" /\ Active(t) /\ inTransaction' = inTransaction
      /\ written' = [written EXCEPT ![t] = @ + 1] /\ patient' = patient
      /\ written[t] < NeededBy(t) /\ outcome[t] = "none" /\ written[t] \in 0..2
  BY DEF Settle, Active, Inv, Progress, TypeOK
<1>2. \/ inTransaction /\ UNCHANGED <<stored, pending, open>>
      \/ ~inTransaction /\ stored' = stored \cup pending /\ pending' = {} /\ open' = FALSE
  BY DEF Settle, DoCommit
<1>3. /\ t \in Transactions => pc' = [pc EXCEPT ![t] = "body"] /\ outcome' = outcome
      /\ t \in Singles => /\ pc' = [pc EXCEPT ![t] = "end"]
                          /\ outcome' = [outcome EXCEPT ![t] = "ok"]
  BY DatabaseAssumption DEF Settle, Move, Finish
<1>4. written[t] + 1 \in 0..2
  BY <1>1 DEF NeededBy
<1>5. Frame(t)
  <2>1. TypeOK'
    <3>1. pending' \subseteq Tasks \X (1..2) /\ stored' \subseteq Tasks \X (1..2) /\ open' \in BOOLEAN
      BY <1>2 DEF Inv, TypeOK
    <3>2. pc' \in [Tasks -> {"idle", "begun", "body", "executed", "locked", "retry",
                             "committed", "except", "rolledBack", "end"}]
          /\ outcome' \in [Tasks -> {"none", "ok", "failed", "cancelled"}]
      BY <1>3 DEF Inv, TypeOK, Tasks
    <3>3. written' \in [Tasks -> 0..2]
      BY <1>1, <1>4 DEF Inv, TypeOK
    <3> QED
      BY <1>1, <3>1, <3>2, <3>3, SharedTyped DEF Inv, TypeOK
  <2>2. \A u \in Tasks \ {t} :
           pc'[u] = pc[u] /\ written'[u] = written[u] /\ outcome'[u] = outcome[u]
    BY <1>1, <1>3 DEF Inv, TypeOK, Tasks
  <2>3. Wedged => Wedged' /\ pending' = pending
    <3> SUFFICES ASSUME Wedged PROVE Wedged' /\ pending' = pending
      OBVIOUS
    <3>1. t \notin Transactions
      BY <1>1, InsideNotWedged
    <3> QED
      BY <1>1, <1>2, <2>2, <3>1 DEF Wedged, Active, Tasks
  <2>4. stored \subseteq stored' /\ stored' \cup pending' \subseteq stored \cup pending
        /\ (~open' => pending' = {})
    BY <1>2 DEF Inv
  <2> QED
    BY <2>1, <2>2, <2>3, <2>4 DEF Frame
<1>6. Progress(t)'
  BY <1>1, <1>3 DEF Progress, Inv, TypeOK, Tasks
<1>7. ASSUME t \in Transactions, t \notin shared' PROVE Inside(t)'
  <2>1. Inside(t)
    BY <1>7, ActsAlone DEF Inv
  <2>2. /\ open /\ pending = {t} \X (1..(written[t] + 1)) /\ WritesOf(t) \cap stored = {}
        /\ inTransaction
    BY <1>1, <2>1 DEF Inside, Made
  <2>3. UNCHANGED <<stored, pending, open>> /\ pc'[t] = "body" /\ outcome'[t] = "none"
        /\ written'[t] = written[t] + 1
    BY <1>1, <1>2, <1>3, <1>7, <2>2 DEF Inv, TypeOK
  <2>4. pending' = Made(t)'
    BY <2>2, <2>3 DEF Made
  <2>5. WritesOf(t)' \cap stored' = {}
    BY <2>2, <2>3 DEF WritesOf, NeededBy
  <2> QED
    BY <1>1, <2>2, <2>3, <2>4, <2>5 DEF Inside
<1>8. ASSUME t \in Singles, t \notin shared' PROVE Outside(t)'
  <2>1. Outside(t) /\ t \notin Transactions
    BY <1>8, ActsAlone, DatabaseAssumption DEF Inv
  <2>2. open /\ <<t, 1>> \in pending /\ WritesOf(t)' = {<<t, 1>>}
    BY <1>1, <2>1 DEF Outside, WritesOf, NeededBy
  <2>3. pc'[t] = "end" /\ \A u \in Tasks : ~Active(u)'
    <3>1. pc'[t] = "end"
      BY <1>3, <1>8 DEF Inv, TypeOK
    <3>2. \A u \in Tasks \ {t} : ~Active(u) /\ pc'[u] = pc[u]
      BY <1>3, <1>8, ActsAlone DEF Inv, TypeOK
    <3> QED
      BY <3>1, <3>2 DEF Active
  <2>4. Safe(t)'
    <3>1. CASE inTransaction
      <4>1. Wedged'
        BY <1>1, <1>2, <2>2, <2>3, <3>1 DEF Wedged, Tasks
      <4> QED
        BY <1>2, <2>2, <3>1, <4>1 DEF Safe
    <3>2. CASE ~inTransaction
      BY <1>2, <2>2, <3>2 DEF Safe
    <3> QED
      BY <3>1, <3>2
  <2> QED
    BY <2>3, <2>4 DEF Outside
<1> QED
  BY OneStep, <1>5, <1>6, <1>7, <1>8 DEF Own

LEMMA RaiseOutcome ==
    ASSUME Inv, NEW t \in Tasks, Raise(t)
    PROVE  /\ t \in Transactions => pc' = [pc EXCEPT ![t] = "except"] /\ outcome' = outcome
           /\ t \in Singles => /\ pc' = [pc EXCEPT ![t] = "end"]
                               /\ outcome' = [outcome EXCEPT ![t] = "failed"]
BY DatabaseAssumption DEF Raise, Finish, Move

\* A single statement that raises has no claim, whatever it has left open.
LEMMA RefusedKept == ASSUME Inv, NEW t \in Tasks, Refused(t), Observe(t) PROVE Inv'
<1>1. /\ stored' = stored /\ pending' = pending /\ written' = written /\ patient' = patient
      /\ inTransaction' = inTransaction /\ open' = TRUE
      /\ pc[t] \in {"idle", "retry", "begun", "body"} /\ Progress(t) /\ outcome[t] = "none"
      /\ (t \in Transactions => Active(t))
  BY DatabaseAssumption DEF Refused, CanExecute, MayStart, Inv, Progress, Active
<1>2. /\ t \in Transactions => pc' = [pc EXCEPT ![t] = "except"] /\ outcome' = outcome
      /\ t \in Singles => /\ pc' = [pc EXCEPT ![t] = "end"]
                          /\ outcome' = [outcome EXCEPT ![t] = "failed"]
  BY RaiseOutcome DEF Refused
<1>3. Frame(t)
  <2>1. TypeOK'
    <3>1. pc' \in [Tasks -> {"idle", "begun", "body", "executed", "locked", "retry",
                             "committed", "except", "rolledBack", "end"}]
          /\ outcome' \in [Tasks -> {"none", "ok", "failed", "cancelled"}]
      BY <1>2 DEF Inv, TypeOK, Tasks
    <3> QED
      BY <1>1, <3>1, SharedTyped DEF Inv, TypeOK
  <2>2. \A u \in Tasks \ {t} : pc'[u] = pc[u] /\ outcome'[u] = outcome[u]
    BY <1>2 DEF Inv, TypeOK, Tasks
  <2>3. Wedged => Wedged'
    <3> SUFFICES ASSUME Wedged PROVE Wedged'
      OBVIOUS
    <3>1. t \notin Transactions
      BY <1>1, InsideNotWedged
    <3> QED
      BY <1>1, <2>2, <3>1 DEF Wedged, Active, Tasks
  <2> QED
    BY <1>1, <2>1, <2>2, <2>3 DEF Frame
<1>4. Progress(t)'
  BY <1>1, <1>2, DatabaseAssumption DEF Progress, Inv, TypeOK, Tasks
<1>5. ASSUME t \in Transactions, t \notin shared' PROVE Inside(t)'
  <2>1. Inside(t)
    BY <1>5, ActsAlone DEF Inv
  <2>2. pending = Made(t) /\ WritesOf(t) \cap stored = {} /\ inTransaction
    BY <1>1, <1>5, <2>1 DEF Inside, Active
  <2>3. pc'[t] = "except" /\ outcome'[t] = "none"
    BY <1>1, <1>2, <1>5 DEF Inv, TypeOK
  <2>4. pending' = Made(t)' /\ WritesOf(t)' \cap stored' = {}
    BY <1>1, <2>2, <2>3 DEF Made, WritesOf, NeededBy
  <2> QED
    BY <1>1, <2>2, <2>3, <2>4 DEF Inside
<1>6. ASSUME t \in Singles PROVE Outside(t)'
  BY <1>2, <1>6 DEF Outside, Inv, TypeOK
<1> QED
  BY OneStep, <1>3, <1>4, <1>5, <1>6 DEF Own

LEMMA LockedKept == ASSUME Inv, NEW t \in Tasks, Locked(t), Observe(t) PROVE Inv'
<1>1. /\ stored' = stored /\ pending' = pending /\ written' = written /\ outcome' = outcome
      /\ inTransaction' = inTransaction /\ open' = TRUE
      /\ pc' = [pc EXCEPT ![t] = "locked"]
  BY DEF Locked, Move
<1>2. /\ pc[t] \in {"idle", "retry", "begun", "body"} \/ (pc[t] = "executed" /\ ~inTransaction)
      /\ outcome[t] = "none" /\ (t \in Transactions => Active(t))
  <2>1. CanExecute(t) \/ (pc[t] = "executed" /\ ~inTransaction)
    BY DEF Locked
  <2>2. t \in Transactions => t \notin Singles
    BY DatabaseAssumption
  <2>3. Progress(t)
    BY DEF Inv
  <2>4. CASE CanExecute(t)
    BY <2>2, <2>3, <2>4 DEF CanExecute, MayStart, Progress, Active
  <2>5. CASE pc[t] = "executed" /\ ~inTransaction
    BY <2>3, <2>5 DEF Progress, Active
  <2> QED
    BY <2>1, <2>4, <2>5
<1>3. Frame(t)
  <2>1. TypeOK'
    <3>1. patient' \subseteq Tasks
      BY DEF Locked, Attempts, Inv, TypeOK
    <3> QED
      BY <1>1, <3>1, SharedTyped DEF Inv, TypeOK
  <2>2. \A u \in Tasks \ {t} : pc'[u] = pc[u]
    BY <1>1 DEF Inv, TypeOK
  <2>3. Wedged => Wedged'
    <3> SUFFICES ASSUME Wedged PROVE Wedged'
      OBVIOUS
    <3>1. t \notin Transactions
      BY <1>2, InsideNotWedged
    <3> QED
      BY <1>1, <2>2, <3>1 DEF Wedged, Active, Tasks
  <2> QED
    BY <1>1, <2>1, <2>2, <2>3 DEF Frame
<1>4. pc'[t] = "locked"
  BY <1>1 DEF Inv, TypeOK
<1>5. Progress(t)'
  BY <1>1, <1>2, <1>4 DEF Progress
<1>6. ASSUME t \in Transactions, t \notin shared' PROVE Inside(t)'
  <2>1. Inside(t)
    BY <1>6, ActsAlone DEF Inv
  <2>2. inTransaction /\ pc[t] \in {"retry", "begun", "body"}
    BY <1>2, <1>6, <2>1 DEF Inside, Active
  <2>3. pending = Made(t) /\ WritesOf(t) \cap stored = {}
    BY <2>1, <2>2 DEF Inside
  <2>4. pending' = Made(t)' /\ WritesOf(t)' \cap stored' = {}
    BY <1>1, <1>4, <2>2, <2>3 DEF Made, WritesOf, NeededBy
  <2> QED
    BY <1>1, <1>2, <1>4, <2>2, <2>4 DEF Inside
<1>7. Outside(t)'
  BY <1>1, <1>2, <1>4 DEF Outside
<1> QED
  BY OneStep, <1>3, <1>5, <1>6, <1>7 DEF Own

\* Rolled back only with the flag down, when nothing acknowledged is pending.
LEMMA UndoKept == ASSUME Inv, NEW t \in Tasks, Undo(t), Observe(t) PROVE Inv'
<1>1. /\ pc[t] = "locked" /\ Active(t) /\ outcome[t] = "none"
      /\ written' = written /\ patient' = patient /\ inTransaction' = inTransaction
  BY DEF Undo, Active, Inv, Progress
<1>2. \/ inTransaction /\ UNCHANGED <<stored, pending, open>>
      \/ ~inTransaction /\ stored' = stored /\ pending' = {} /\ open' = FALSE
  BY DEF Undo, DoRollback
<1>3. \/ pc' = [pc EXCEPT ![t] = "retry"] /\ outcome' = outcome
      \/ t \in Transactions /\ pc' = [pc EXCEPT ![t] = "except"] /\ outcome' = outcome
      \/ /\ t \in Singles /\ pc' = [pc EXCEPT ![t] = "end"]
         /\ outcome' = [outcome EXCEPT ![t] = "failed"]
  BY RaiseOutcome DEF Undo, Move, Tasks
<1>4. Frame(t)
  <2>1. TypeOK'
    <3>1. pending' \subseteq Tasks \X (1..2) /\ stored' \subseteq Tasks \X (1..2) /\ open' \in BOOLEAN
      BY <1>2 DEF Inv, TypeOK
    <3>2. pc' \in [Tasks -> {"idle", "begun", "body", "executed", "locked", "retry",
                             "committed", "except", "rolledBack", "end"}]
          /\ outcome' \in [Tasks -> {"none", "ok", "failed", "cancelled"}]
      BY <1>3 DEF Inv, TypeOK
    <3> QED
      BY <1>1, <3>1, <3>2, SharedTyped DEF Inv, TypeOK
  <2>2. \A u \in Tasks \ {t} : pc'[u] = pc[u] /\ outcome'[u] = outcome[u]
    BY <1>3 DEF Inv, TypeOK
  <2>3. Wedged => Wedged' /\ pending' = pending
    <3> SUFFICES ASSUME Wedged PROVE Wedged' /\ pending' = pending
      OBVIOUS
    <3>1. t \notin Transactions
      BY <1>1, InsideNotWedged
    <3> QED
      BY <1>1, <1>2, <2>2, <3>1 DEF Wedged, Active, Tasks
  <2>4. stored' = stored /\ pending' \subseteq pending /\ (~open' => pending' = {})
    BY <1>2 DEF Inv
  <2> QED
    BY <1>1, <2>1, <2>2, <2>3, <2>4 DEF Frame
<1>5. Progress(t)'
  BY <1>1, <1>3, DatabaseAssumption DEF Progress, Inv, TypeOK
<1>6. ASSUME t \in Transactions, t \notin shared' PROVE Inside(t)'
  <2>1. Inside(t)
    BY <1>6, ActsAlone DEF Inv
  <2>2. inTransaction /\ open /\ pending = Made(t) /\ WritesOf(t) \cap stored = {}
    BY <1>1, <2>1 DEF Inside
  <2>3. UNCHANGED <<stored, pending, open>>
    BY <1>2, <2>2
  <2>4. pc'[t] \in {"retry", "except"} /\ outcome'[t] = "none"
    BY <1>1, <1>3, <1>6, DatabaseAssumption DEF Inv, TypeOK
  <2>5. pending' = Made(t)' /\ WritesOf(t)' \cap stored' = {}
    BY <1>1, <2>2, <2>3, <2>4 DEF Made, WritesOf, NeededBy
  <2> QED
    BY <1>1, <2>2, <2>3, <2>4, <2>5 DEF Inside
<1>7. ASSUME t \in Singles PROVE Outside(t)'
  BY <1>1, <1>3 DEF Outside, Inv, TypeOK
<1> QED
  BY OneStep, <1>4, <1>5, <1>6, <1>7 DEF Own

\* What a cancelled task leaves open is nobody's success and nobody's failure.
LEMMA CancelledKept == ASSUME Inv, NEW t \in Tasks, Cancelled(t), Observe(t) PROVE Inv'
<1>1. /\ stored' = stored /\ pending' = pending /\ open' = open /\ written' = written
      /\ patient' = patient /\ Active(t) /\ (t \notin Transactions => inTransaction' = inTransaction)
      /\ pc' = [pc EXCEPT ![t] = "end"] /\ outcome' = [outcome EXCEPT ![t] = "cancelled"]
  BY DEF Cancelled, Finish, Move, Active
<1>2. Frame(t)
  <2>1. TypeOK'
    <3>1. inTransaction' \in BOOLEAN
      BY DEF Cancelled, Inv, TypeOK
    <3> QED
      BY <1>1, <3>1, SharedTyped DEF Inv, TypeOK
  <2>2. \A u \in Tasks \ {t} : pc'[u] = pc[u] /\ outcome'[u] = outcome[u]
    BY <1>1 DEF Inv, TypeOK
  <2>3. Wedged => Wedged'
    <3> SUFFICES ASSUME Wedged PROVE Wedged'
      OBVIOUS
    <3>1. t \notin Transactions
      BY <1>1, InsideNotWedged
    <3> QED
      BY <1>1, <2>2, <3>1 DEF Wedged, Active, Tasks
  <2>4. ~open' => pending' = {}
    BY <1>1 DEF Inv
  <2> QED
    BY <1>1, <2>1, <2>2, <2>3, <2>4 DEF Frame
<1>3. pc'[t] = "end" /\ outcome'[t] = "cancelled"
  BY <1>1 DEF Inv, TypeOK
<1>4. Own(t)
  BY <1>3 DEF Own, Progress, Inside, Outside, Active
<1> QED
  BY OneStep, <1>2, <1>4

LEMMA Invariance == Spec => []Inv
<1>1. Inv /\ [Next]_vars => Inv'
  <2> SUFFICES ASSUME Inv, [Next]_vars PROVE Inv'
    OBVIOUS
  <2>1. CASE Next
    <3>1. PICK t \in Tasks : Step(t) /\ Observe(t)
      BY <2>1 DEF Next
    <3> QED
      BY <3>1, BeginKept, CommitKept, RollbackKept, FinallyKept, ExecuteKept, SettleKept,
         RefusedKept, LockedKept, UndoKept, CancelledKept DEF Step
  <2>2. CASE UNCHANGED vars
    <3>1. TypeOK' /\ (\A t \in Tasks : (Active(t)' <=> Active(t)) /\ Progress(t)')
      BY <2>2 DEF vars, Inv, TypeOK, Active, Progress, WritesOf, NeededBy
    <3>2. \A t \in Transactions \ shared' : Inside(t)'
      BY <2>2 DEF vars, Inv, Inside, Active, Made, WritesOf, NeededBy
    <3>3. \A t \in Singles \ shared' : Outside(t)'
      BY <2>2 DEF vars, Inv, Outside, Safe, Wedged, Active, WritesOf, NeededBy
    <3> QED
      BY <2>2, <3>1, <3>2, <3>3 DEF vars, Inv
  <2> QED
    BY <2>1, <2>2
<1> QED
  BY InitInv, <1>1, PTL DEF Spec

(* execute, transaction: what database.py has acknowledged to a call that    *)
(* nobody ran beside is kept, whatever is refused, locked or cancelled and   *)
(* however the other calls overlap.                                          *)
THEOREM AckedKept == Spec => []AckedWriteKept
<1>1. Inv => AckedWriteKept
  BY DEF Inv, AckedWriteKept, Inside, Outside, Safe, Tasks
<1> QED
  BY Invariance, <1>1, PTL

(* transaction(): one that nobody ran beside is stored as a whole when it    *)
(* returns, and has left nothing in the connection or on disk when it raises.*)
THEOREM TransactionsWhole == Spec => []AllOrNothing
<1>1. Inv => AllOrNothing
  BY DEF Inv, AllOrNothing, Inside
<1> QED
  BY Invariance, <1>1, PTL

=============================================================================
