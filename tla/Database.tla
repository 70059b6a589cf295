------------------------------ MODULE Database ------------------------------
(***************************************************************************)
(* src/database.py: one SQLite connection shared by all tasks of the       *)
(* server.  execute() commits by itself unless the flag _in_transaction    *)
(* says that somebody is inside transaction().                             *)
(*                                                                         *)
(* An action is what a task does from one await to the next.  Statements   *)
(* take effect in the order in which tasks hand them to aiosqlite's thread,*)
(* so each takes effect within the action that issues it.  Python's        *)
(* sqlite3 opens a transaction before the first writing statement, even if *)
(* that statement then fails.                                              *)
(***************************************************************************)
EXTENDS Naturals, FiniteSets

CONSTANTS
    Transactions, \* tasks that enter transaction() and write twice inside
    Singles,      \* tasks that call execute() once, outside
    Overlap,      \* whether a task may start while another is at an await
    Faults        \* what can go wrong: "locked", "integrity", "cancel"

ASSUME DatabaseAssumption ==
    /\ Transactions \cap Singles = {}
    /\ Overlap \in BOOLEAN
    /\ Faults \subseteq {"locked", "integrity", "cancel"}

Tasks == Transactions \cup Singles

VARIABLES
    inTransaction, \* Database._in_transaction
    open,          \* the connection has a transaction open
    pending,       \* writes of the open transaction
    stored,        \* committed writes
    pc,            \* where a task is
    written,       \* statements of a task that have returned
    patient,       \* calls that try a locked statement again
    outcome,       \* how a task's call returned
    shared         \* history: calls that others ran beside

vars == <<inTransaction, open, pending, stored, pc, written, patient, outcome, shared>>

NeededBy(t) == IF t \in Transactions THEN 2 ELSE 1
WritesOf(t) == {t} \X (1..NeededBy(t))

Init ==
    /\ inTransaction = FALSE /\ open = FALSE
    /\ pending = {} /\ stored = {}
    /\ pc = [t \in Tasks |-> "idle"]
    /\ written = [t \in Tasks |-> 0]
    /\ patient = {} /\ shared = {}
    /\ outcome = [t \in Tasks |-> "none"]

----------------------------------------------------------------------------
Active(t) == pc[t] \notin {"idle", "end"}

Move(t, p) == pc' = [pc EXCEPT ![t] = p]

Finish(t, result) ==
    /\ Move(t, "end")
    /\ outcome' = [outcome EXCEPT ![t] = result]

MayStart(t) ==
    /\ pc[t] = "idle"
    /\ Overlap \/ \A u \in Tasks : ~Active(u)

DoCommit == stored' = stored \cup pending /\ pending' = {} /\ open' = FALSE

\* A fault: the failure is re-raised without a ROLLBACK.
DoRollbackSkipped == UNCHANGED <<stored, pending, open>>

\* Without an open transaction ROLLBACK fails and rollback() does nothing.
DoRollback == pending' = {} /\ open' = FALSE /\ UNCHANGED stored

----------------------------------------------------------------------------
(* transaction()                                                           *)

\* The flag is set before BEGIN, and BEGIN is outside the try: when it is
\* refused, neither except nor finally runs.
Begin(t) ==
    /\ t \in Transactions /\ MayStart(t)
    /\ inTransaction' = TRUE
    /\ open' = TRUE
    /\ IF open THEN Finish(t, "failed")
               ELSE Move(t, "begun") /\ UNCHANGED outcome
    /\ UNCHANGED <<pending, stored, written, patient>>

Commit(t) ==
    /\ t \in Transactions /\ pc[t] = "body" /\ written[t] = NeededBy(t)
    /\ \/ /\ DoCommit
          /\ Move(t, IF open THEN "committed" ELSE "except")
       \/ /\ "locked" \in Faults
          /\ Move(t, "except")
          /\ UNCHANGED <<stored, pending, open>>
    /\ UNCHANGED <<inTransaction, written, patient, outcome>>

Rollback(t) ==
    /\ pc[t] = "except"
    /\ DoRollback
    /\ Move(t, "rolledBack")
    /\ UNCHANGED <<inTransaction, written, patient, outcome>>

Finally(t) ==
    /\ pc[t] \in {"committed", "rolledBack"}
    /\ inTransaction' = FALSE
    /\ Finish(t, IF pc[t] = "committed" THEN "ok" ELSE "failed")
    /\ UNCHANGED <<open, pending, stored, written, patient>>

----------------------------------------------------------------------------
(* execute() and execute_rowcount()                                        *)

CanExecute(t) ==
    /\ \/ pc[t] = "retry"
       \/ t \in Singles /\ MayStart(t)
       \/ t \in Transactions /\ pc[t] \in {"begun", "body"}
    /\ written[t] < NeededBy(t)

\* The number of attempts is fixed when the call is made.
Attempts(t) ==
    patient' = IF pc[t] = "retry" THEN patient
               ELSE IF inTransaction THEN patient \ {t} ELSE patient \cup {t}

Execute(t) ==
    /\ CanExecute(t)
    /\ open' = TRUE
    /\ pending' = pending \cup {<<t, written[t] + 1>>}
    /\ Attempts(t)
    /\ Move(t, "executed")
    /\ UNCHANGED <<inTransaction, stored, written, outcome>>

\* The statement's reply has come; the flag is looked at only now.
Settle(t) ==
    /\ pc[t] = "executed"
    /\ IF inTransaction THEN UNCHANGED <<stored, pending, open>> ELSE DoCommit
    /\ written' = [written EXCEPT ![t] = @ + 1]
    /\ IF t \in Transactions THEN Move(t, "body") /\ UNCHANGED outcome
                             ELSE Finish(t, "ok")
    /\ UNCHANGED <<inTransaction, patient>>

\* A fault: an error of the statement is logged and swallowed.
RaiseSwallowed(t) == IF t \in Transactions THEN Move(t, "except") /\ UNCHANGED outcome
                                           ELSE Finish(t, "ok")

\* The call raises: inside transaction() its except clause runs.
Raise(t) == IF t \in Transactions THEN Move(t, "except") /\ UNCHANGED outcome
                                  ELSE Finish(t, "failed")

\* An IntegrityError is not caught and leaves the implicit transaction open.
Refused(t) ==
    /\ "integrity" \in Faults
    /\ CanExecute(t)
    /\ open' = TRUE
    /\ Raise(t)
    /\ UNCHANGED <<inTransaction, pending, stored, written, patient>>

\* "database is locked", from the statement or from its commit.
Locked(t) ==
    /\ "locked" \in Faults
    /\ \/ CanExecute(t) /\ Attempts(t)
       \/ pc[t] = "executed" /\ ~inTransaction /\ open /\ UNCHANGED patient
    /\ open' = TRUE
    /\ Move(t, "locked")
    /\ UNCHANGED <<inTransaction, pending, stored, written, outcome>>

\* Rolled back, if the flag is down by then, and tried again or given up.
Undo(t) ==
    /\ pc[t] = "locked"
    /\ IF inTransaction THEN UNCHANGED <<stored, pending, open>> ELSE DoRollback
    /\ \/ Raise(t)
       \/ t \in patient /\ Move(t, "retry") /\ UNCHANGED outcome
    /\ UNCHANGED <<inTransaction, written, patient>>

\* The task is cancelled at an await.  CancelledError is no Exception, so in
\* transaction() only the finally clause runs, and not even that one at BEGIN.
Cancelled(t) ==
    /\ "cancel" \in Faults
    /\ pc[t] \notin {"idle", "end"}
    /\ inTransaction' =
           IF t \in Transactions /\ pc[t] # "begun" THEN FALSE ELSE inTransaction
    /\ Finish(t, "cancelled")
    /\ UNCHANGED <<open, pending, stored, written, patient>>

----------------------------------------------------------------------------
\* History only: whoever acts while others are at an await shares with them.
Observe(t) ==
    LET beside == {u \in Tasks \ {t} : Active(u)}
    IN  shared' = IF beside = {} THEN shared ELSE shared \cup beside \cup {t}

Step(t) ==
    \/ Begin(t) \/ Commit(t) \/ Rollback(t) \/ Finally(t)
    \/ Execute(t) \/ Settle(t) \/ Refused(t) \/ Locked(t) \/ Undo(t) \/ Cancelled(t)

Next == \E t \in Tasks : Step(t) /\ Observe(t)

Spec == Init /\ [][Next]_vars

----------------------------------------------------------------------------
(* Properties.                                                             *)

\* The connection and the tasks; its proof is in Database_proofs.
TypeOK ==
    /\ inTransaction \in BOOLEAN /\ open \in BOOLEAN
    /\ pending \subseteq Tasks \X (1..2)
    /\ stored \subseteq Tasks \X (1..2)
    /\ pc \in [Tasks -> {"idle", "begun", "body", "executed", "locked", "retry",
                         "committed", "except", "rolledBack", "end"}]
    /\ written \in [Tasks -> 0..2]
    /\ patient \subseteq Tasks /\ shared \subseteq Tasks
    /\ outcome \in [Tasks -> {"none", "ok", "failed", "cancelled"}]

(* A write acknowledged to a call that nobody ran beside, of execute() or  *)
(* of a transaction, is one that every later reader of the connection      *)
(* finds, whatever overlapping calls were and will be made.                *)
AckedWriteKept ==
    \A t \in Tasks \ shared :
        outcome[t] = "ok" => WritesOf(t) \subseteq stored \cup pending

(* Such a transaction that reports success is on disk, and one that raises *)
(* has left nothing behind for a later commit to store.                    *)
AllOrNothing ==
    \A t \in Transactions \ shared :
        /\ outcome[t] = "ok" => WritesOf(t) \subseteq stored
        /\ outcome[t] = "failed" => WritesOf(t) \cap (stored \cup pending) = {}

(* execute(): "Auto-commit only when we are NOT inside an explicit         *)
(* transaction block": with nobody inside, what it acknowledged is stored. *)
AutoCommitOutside ==
    (\A t \in Transactions : pc[t] \in {"idle", "end"}) =>
        \A t \in Singles : outcome[t] = "ok" => WritesOf(t) \subseteq stored
=============================================================================
