------------------------- MODULE Executions_proofs -------------------------
(***************************************************************************)
(* Theorems about Executions, for every set of calls, every limit of the   *)
(* janitors' lists and every bound on the events.                          *)
(***************************************************************************)
EXTENDS Executions, SequenceTheorems, TLAPS

CallType ==
    [pc : {"idle", "queued", "open", "spawn", "record", "wait",
           "exited", "abandon", "close", "done", "lost"},
     turn : {"ensure", "prompt"}, outcome : Outcomes]
ProcType == [gen : Nat, st : {"none", "alive", "succeeded", "failed"}]

(* The types of what the calls own.                                        *)
CallsOK ==
    /\ calls \in [Execs -> CallType]
    /\ procs \in [Execs -> ProcType]
    /\ dispatch \in [Execs -> {"none", "queued", "running"} \cup Outcomes]
    /\ ssh \subseteq Workers

(* A process runs while its call records it or waits for it, or has been   *)
(* lost; one that is waited for has been spawned.                          *)
ProcOfCall(x) ==
    /\ Alive(x) => calls[x].pc \in {"record", "wait", "lost"}
    /\ calls[x].pc \in {"record", "wait"} => procs[x].st # "none"

(* An outcome of success is that of the process, until the dispatch has it.*)
OutcomeOfCall(x) ==
    /\ calls[x].outcome = "succeeded" => procs[x].st = "succeeded"
    /\ calls[x].pc \in {"idle", "queued", "open", "spawn", "record", "wait"} =>
           calls[x].outcome = "failed"
    /\ dispatch[x] = "succeeded" => At(x, "done") /\ procs[x].st = "succeeded"

(* A call of the server closes its dispatch last; who is awaited over SSH  *)
(* is not done.                                                            *)
ClosedLast(x) ==
    /\ x \in Sessions /\ dispatch[x] \in Outcomes => At(x, "done")
    /\ x \in ssh => ~At(x, "done")

CallInv(x) == ProcOfCall(x) /\ OutcomeOfCall(x) /\ ClosedLast(x)
Inv == CallsOK /\ \A x \in Execs : CallInv(x)

LEMMA InitInv == Init => Inv
BY DEF Init, Inv, CallsOK, CallType, ProcType, CallInv, ProcOfCall, OutcomeOfCall, ClosedLast,
       NoCall, NoProc, Outcomes, Alive, At

----------------------------------------------------------------------------
(* Steps of one call leave the others alone.                               *)
Others(x) ==
    \A y \in Execs \ {x} :
        /\ calls'[y] = calls[y] /\ procs'[y] = procs[y] /\ dispatch'[y] = dispatch[y]
        /\ y \in ssh' <=> y \in ssh

LEMMA OneCall ==
    ASSUME Inv, NEW x \in Execs, Others(x), CallsOK', CallInv(x)'
    PROVE  Inv'
BY DEF Inv, Others, CallInv, ProcOfCall, OutcomeOfCall, ClosedLast, Alive, At

LEMMA CallStep ==
    ASSUME Inv, NEW x \in Execs, Call(x)
    PROVE  Others(x) /\ CallsOK' /\ CallInv(x)'
<1>0. /\ calls \in [Execs -> CallType] /\ procs \in [Execs -> ProcType]
      /\ dispatch \in [Execs -> {"none", "queued", "running"} \cup Outcomes]
      /\ ssh \subseteq Workers /\ calls[x] \in CallType /\ procs[x] \in ProcType
      /\ ProcOfCall(x) /\ OutcomeOfCall(x) /\ ClosedLast(x) /\ CallsOK
  BY DEF Inv, CallsOK, CallInv
<1> USE DEF CallType, ProcType, CallsOK, CallInv, ProcOfCall, OutcomeOfCall, ClosedLast, Outcomes,
            Others, At, Alive, Enter, NoCall
<1>1. CASE OpenDispatch(x)
  BY <1>0, <1>1 DEF OpenDispatch
<1>2. CASE MarkRunning(x)
  BY <1>0, <1>2 DEF MarkRunning
<1>3. CASE OpenExecution(x)
  <2>1. PICK turn \in {"ensure", "prompt"} :
            calls' = [calls EXCEPT ![x].pc = "spawn", ![x].turn = turn]
    BY <1>3 DEF OpenExecution
  <2>2. At(x, "open") /\ UNCHANGED <<procs, dispatch>>
        /\ ssh' = IF x \in Workers THEN ssh \cup {x} ELSE ssh
    BY <1>3 DEF OpenExecution
  <2> QED
    BY <1>0, <2>1, <2>2
<1>4. CASE Spawn(x)
  <2>1. /\ At(x, "spawn") /\ UNCHANGED <<ssh, dispatch>>
        /\ procs' = [procs EXCEPT ![x] = [gen |-> procs[x].gen + 1, st |-> "alive"]]
        /\ calls' = [calls EXCEPT ![x].pc = "record"]
    BY <1>0, <1>4 DEF Spawn
  <2>2. [gen |-> procs[x].gen + 1, st |-> "alive"] \in ProcType
    BY <1>0
  <2>3. [calls[x] EXCEPT !.pc = "record"] \in CallType
    BY <1>0
  <2>4. Others(x) /\ CallsOK'
    BY <1>0, <2>1, <2>2, <2>3
  <2>5. calls'[x].pc = "record" /\ calls'[x].outcome = calls[x].outcome /\ procs'[x].st = "alive"
    BY <1>0, <2>1
  <2>6. CallInv(x)'
    BY <1>0, <2>1, <2>5
  <2> QED
    BY <2>4, <2>6
<1>5. CASE SpawnFails(x)
  BY <1>0, <1>5 DEF SpawnFails
<1>6. CASE RecordStart(x) \/ RecordStartFails(x)
  <2>1. At(x, "record") /\ Enter(x, "wait") /\ UNCHANGED <<procs, dispatch, ssh>>
    BY <1>6 DEF RecordStart, RecordStartFails
  <2> QED
    BY <1>0, <2>1
<1>7. CASE Heartbeat(x)
  BY <1>0, <1>7 DEF Heartbeat
<1>8. CASE ProcessReaped(x)
  BY <1>0, <1>8 DEF ProcessReaped
<1>9. CASE GiveUp(x)
  BY <1>0, <1>9 DEF GiveUp, TimesOut, Signalled
<1>10. CASE RecordExit(x) \/ RecordExitFails(x)
  <2>1. At(x, "exited") /\ AfterExit(x) /\ UNCHANGED <<procs, dispatch, ssh>>
    BY <1>10 DEF RecordExit, RecordExitFails
  <2>2. CASE calls[x].turn = "prompt"
    <3>1. calls' = [calls EXCEPT ![x] = [calls[x] EXCEPT !.pc = "close"]]
      BY <1>0, <2>1, <2>2 DEF AfterExit
    <3> QED
      BY <1>0, <2>1, <3>1
  <2>3. CASE calls[x].turn # "prompt"
    <3>1. PICK pc \in {"spawn", "abandon"} :
              calls' = [calls EXCEPT ![x] = [NoCall EXCEPT !.pc = pc]]
      BY <1>0, <2>1, <2>3 DEF AfterExit
    <3> QED
      BY <1>0, <2>1, <3>1
  <2> QED
    BY <2>2, <2>3
<1>11. CASE Abandon(x)
  BY <1>0, <1>11 DEF Abandon
<1>12. CASE Close(x)
  BY <1>0, <1>12 DEF Close, CloseDispatch
<1> QED
  BY <1>1, <1>2, <1>3, <1>4, <1>5, <1>6, <1>7, <1>8, <1>9, <1>10, <1>11, <1>12 DEF Call

LEMMA CallKept == ASSUME Inv, NEW x \in Execs, Call(x) PROVE Inv'
BY CallStep, OneCall

LEMMA OtherKept ==
    ASSUME Inv, NEW x \in Execs,
           ProcessExits(x) \/ LeaseExpires(x) \/ SshTimesOut(x) \/ WorkerDies(x)
               \/ CallCancelled(x)
    PROVE  Inv'
<1>0. /\ calls \in [Execs -> CallType] /\ procs \in [Execs -> ProcType]
      /\ dispatch \in [Execs -> {"none", "queued", "running"} \cup Outcomes]
      /\ ssh \subseteq Workers /\ calls[x] \in CallType /\ procs[x] \in ProcType
      /\ ProcOfCall(x) /\ OutcomeOfCall(x) /\ ClosedLast(x) /\ CallsOK
  BY DEF Inv, CallsOK, CallInv
<1>1. Others(x) /\ CallsOK' /\ CallInv(x)'
  <2> USE DEF CallType, ProcType, CallsOK, CallInv, ProcOfCall, OutcomeOfCall, ClosedLast,
              Outcomes, Others, At, Alive, NoCall
  <2>1. CASE ProcessExits(x)
    BY <1>0, <2>1 DEF ProcessExits
  <2>2. CASE LeaseExpires(x)
    BY <1>0, <2>2 DEF LeaseExpires
  <2>3. CASE SshTimesOut(x)
    BY <1>0, <2>3, ExecutionsAssumption DEF SshTimesOut
  <2>4. CASE WorkerDies(x)
    BY <1>0, <2>4, ExecutionsAssumption DEF WorkerDies, Lose
  <2>5. CASE CallCancelled(x)
    BY <1>0, <2>5 DEF CallCancelled, Lose
  <2> QED
    BY <2>1, <2>2, <2>3, <2>4, <2>5
<1> QED
  BY <1>1, OneCall

LEMMA RestartKept == ASSUME Inv, Restart PROVE Inv'
<1> SUFFICES ASSUME NEW x \in Execs PROVE CallInv(x)'
  BY DEF Inv, CallsOK, CallType, Restart, Lose, NoCall, Outcomes
<1>1. CallsOK /\ CallInv(x)
  BY DEF Inv
<1>2. \/ calls'[x] = calls[x]
      \/ ~At(x, "done") /\ calls'[x] = [NoCall EXCEPT !.pc = "lost"]
  <2>1. PICK dead : calls' = Lose(dead)
    BY DEF Restart
  <2> QED
    BY <2>1 DEF Lose
<1>3. UNCHANGED <<procs, dispatch>> /\ ssh' = {}
  BY DEF Restart
<1> QED
  BY <1>1, <1>2, <1>3
  DEF CallInv, ProcOfCall, OutcomeOfCall, ClosedLast, At, Alive, NoCall, CallsOK, CallType

(* A janitor signals a process that runs, and touches nothing else of the  *)
(* calls.                                                                  *)
LEMMA JanitorKept == ASSUME Inv, NEW h \in Hosts, Janitor(h) PROVE Inv'
<1>1. UNCHANGED <<calls, dispatch, ssh>>
  BY DEF Janitor, CleanupOnce, Validate, Term, Grace, Killed, Claim
<1>2. UNCHANGED procs \/ (~Gone(h) /\ Signalled(Subject(h).exec))
  BY DEF Janitor, CleanupOnce, Validate, Term, Grace, Killed, Claim, KillGroup
<1>3. CASE UNCHANGED procs
  BY <1>1, <1>3 DEF Inv, CallsOK, CallInv, ProcOfCall, OutcomeOfCall, ClosedLast, Alive, At
<1>4. CASE ~Gone(h) /\ Signalled(Subject(h).exec)
  <2> DEFINE e == Subject(h).exec
  <2>1. Alive(e) /\ procs' = [procs EXCEPT ![e].st = "failed"]
    BY <1>4 DEF Gone, Signalled
  <2> HIDE DEF e
  <2>2. procs \in [Execs -> ProcType]
    BY DEF Inv, CallsOK
  <2>3. procs' \in [Execs -> ProcType]
    BY <2>1, <2>2 DEF ProcType
  <2>4. ASSUME NEW x \in Execs PROVE CallInv(x)'
    <3>1. CallInv(x)
      BY DEF Inv
    <3>2. CASE x = e
      BY <1>1, <2>1, <2>2, <3>1, <3>2
      DEF CallInv, ProcOfCall, OutcomeOfCall, ClosedLast, Alive, At, ProcType
    <3>3. CASE x # e
      <4>1. procs'[x] = procs[x]
        BY <2>1, <2>2, <3>3
      <4> QED
        BY <1>1, <3>1, <4>1 DEF CallInv, ProcOfCall, OutcomeOfCall, ClosedLast, Alive, At
    <3> QED
      BY <3>2, <3>3
  <2> QED
    BY <1>1, <2>3, <2>4 DEF Inv, CallsOK
<1> QED
  BY <1>2, <1>3, <1>4

LEMMA InvCorrect == Spec => []Inv
<1>1. Inv /\ [Next]_vars => Inv'
  <2> SUFFICES ASSUME Inv, [Next]_vars PROVE Inv'
    OBVIOUS
  <2>1. CASE Next
    BY <2>1, CallKept, OtherKept, RestartKept, JanitorKept DEF Next
  <2>2. CASE UNCHANGED vars
    BY <2>2 DEF vars, Inv, CallsOK, CallInv, ProcOfCall, OutcomeOfCall, ClosedLast, Alive, At
  <2> QED
    BY <2>1, <2>2
<1> QED
  BY InitInv, <1>1, PTL DEF Spec

\* _run_llm, _run_llm_session: a dispatch of the server closes when its process
\* has ended, whatever timeouts, cancels, crashes and janitors came before.
THEOREM NobodyAtWork == Spec => []EndedBeforeClose
<1>1. Inv => EndedBeforeClose
  BY DEF Inv, CallInv, ProcOfCall, ClosedLast, EndedBeforeClose, Execs, At
<1> QED
  BY <1>1, InvCorrect, PTL

\* _close_dispatch: success is recorded of a process that ended by itself.
THEOREM SuccessEarned == Spec => []SuccessIsTheProcess
<1>1. Inv => SuccessIsTheProcess
  BY DEF Inv, CallInv, OutcomeOfCall, SuccessIsTheProcess
<1> QED
  BY <1>1, InvCorrect, PTL

----------------------------------------------------------------------------
(* The types of the whole state.  They are not inductive by themselves:    *)
(* that a call spawns no third process depends on the turn it is in and on *)
(* where it is in that turn.                                               *)
RowType == [state : {"none"} \cup LiveStates \cup Terminal, gen : 0..2]
JanitorPcs == {"rest", "validate", "claim", "term", "grace", "killed"}

(* AgentExecutionRepo's rows, and those whose lease has expired, each once.*)
RowsOK ==
    /\ rows \in [Execs -> RowType]
    /\ lapsed \in Seq(Execs) /\ IsInjective(lapsed)

(* What a janitor keeps between two awaits.                                *)
JanitorsOK ==
    /\ DOMAIN janitors = Hosts
    /\ \A h \in Hosts :
           /\ Jan(h) = [pc |-> Jan(h).pc, list |-> Jan(h).list, gen |-> Jan(h).gen]
           /\ Jan(h).pc \in JanitorPcs

(* One process per turn: sessions ensure, then prompt.                     *)
Spawned(x) ==
    /\ procs[x].gen \in 0..2
    /\ calls[x].pc \in {"idle", "queued", "open"} => procs[x].gen = 0
    /\ calls[x].pc = "spawn" =>
           procs[x].gen =< (IF calls[x].turn = "prompt" THEN 1 ELSE 0)
    /\ calls[x].pc \in {"record", "wait", "exited"} /\ calls[x].turn = "ensure" =>
           procs[x].gen =< 1

TypeInv ==
    /\ RowsOK /\ JanitorsOK
    /\ \A x \in Execs : Spawned(x)
    /\ kill \in BOOLEAN /\ events \in 0..MaxEvents

LEMMA InitTypes == Init => TypeInv
<1> SUFFICES ASSUME Init PROVE TypeInv
  OBVIOUS
<1>1. RowsOK
  BY DEF Init, RowsOK, RowType, NoRow, IsInjective
<1>2. JanitorsOK
  BY DEF Init, JanitorsOK, Jan, JanitorPcs, Resting
<1>3. ASSUME NEW x \in Execs PROVE Spawned(x)
  BY DEF Init, Spawned, NoProc, NoCall
<1>4. kill \in BOOLEAN /\ events \in 0..MaxEvents
  BY ExecutionsAssumption DEF Init
<1> QED
  BY <1>1, <1>2, <1>3, <1>4 DEF TypeInv

(* RenewLease takes a row out of those whose lease has expired.            *)
LEMMA RemovedOne ==
    ASSUME NEW S, NEW s \in Seq(S), IsInjective(s), NEW e
    PROVE  RemoveFirst(s, e) \in Seq(S) /\ IsInjective(RemoveFirst(s, e))
<1>1. CASE ~ \E i \in 1..Len(s) : s[i] = e
  BY <1>1 DEF RemoveFirst
<1>2. CASE \E i \in 1..Len(s) : s[i] = e
  <2>1. PICK k \in 1..Len(s) : s[k] = e
    BY <1>2
  <2>2. {i \in 1..Len(s) : s[i] = e} = {k}
    BY <2>1 DEF IsInjective
  <2>3. Min({k}) = k
    BY DEF Min
  <2>4. SelectInSeq(s, LAMBDA v : v = e) = k
    BY <2>2, <2>3 DEF SelectInSeq
  <2>5. RemoveFirst(s, e) = SubSeq(s, 1, k - 1) \o SubSeq(s, k + 1, Len(s))
    BY <1>2, <2>4 DEF RemoveFirst, RemoveAt
  <2> DEFINE a == SubSeq(s, 1, k - 1)
             b == SubSeq(s, k + 1, Len(s))
             t == a \o b
  <2>6. a \in Seq(S) /\ Len(a) = k - 1 /\ \A i \in 1..(k - 1) : a[i] = s[i]
    BY <2>1
  <2>7. b \in Seq(S) /\ Len(b) = Len(s) - k /\ \A i \in 1..(Len(s) - k) : b[i] = s[k + i]
    BY <2>1
  <2> HIDE DEF a, b
  <2>8. t \in Seq(S) /\ Len(t) = Len(s) - 1
    BY <2>1, <2>6, <2>7, ConcatProperties
  <2>9. \A i \in 1..Len(t) : t[i] = s[IF i < k THEN i ELSE i + 1]
    <3> SUFFICES ASSUME NEW i \in 1..Len(t) PROVE t[i] = s[IF i < k THEN i ELSE i + 1]
      OBVIOUS
    <3>1. t[i] = IF i =< Len(a) THEN a[i] ELSE b[i - Len(a)]
      BY <2>6, <2>7, <2>8, ConcatProperties
    <3>2. CASE i < k
      BY <2>1, <2>6, <3>1, <3>2
    <3>3. CASE ~(i < k)
      <4>1. t[i] = b[i - (k - 1)]
        BY <2>1, <2>6, <3>1, <3>3
      <4>2. i - (k - 1) \in 1..(Len(s) - k) /\ k + (i - (k - 1)) = i + 1
        BY <2>1, <2>8, <3>3
      <4> QED
        BY <2>7, <3>3, <4>1, <4>2
    <3> QED
      BY <3>2, <3>3
  <2> HIDE DEF t
  <2>10. IsInjective(t)
    <3> SUFFICES ASSUME NEW i \in 1..Len(t), NEW j \in 1..Len(t), t[i] = t[j] PROVE i = j
      BY <2>8 DEF IsInjective
    <3> DEFINE at(n) == IF n < k THEN n ELSE n + 1
    <3>1. at(i) \in 1..Len(s) /\ at(j) \in 1..Len(s) /\ s[at(i)] = s[at(j)]
      BY <2>1, <2>8, <2>9
    <3>2. at(i) = at(j)
      BY <3>1 DEF IsInjective
    <3> QED
      BY <2>1, <2>8, <3>2
  <2> QED
    BY <2>5, <2>8, <2>10 DEF t, a, b
<1> QED
  BY <1>1, <1>2

(* mark_process_started, mark_state, and the other UPDATEs of a row.       *)
LEMMA MarkedRow ==
    ASSUME RowsOK, NEW x, NEW s \in {"none"} \cup LiveStates \cup Terminal, MarkState(x, s)
    PROVE  rows' \in [Execs -> RowType]
BY DEF RowsOK, RowType, MarkState

LEMMA SameRows == RowsOK /\ UNCHANGED <<rows, lapsed>> => RowsOK'
BY DEF RowsOK

(* A call renews the lease of its own row, or marks that row.              *)
LEMMA CallRows == ASSUME Inv, TypeInv, NEW x \in Execs, Call(x) PROVE RowsOK'
<1>0. RowsOK /\ rows \in [Execs -> RowType] /\ lapsed \in Seq(Execs) /\ IsInjective(lapsed)
  BY DEF TypeInv, RowsOK
<1> DEFINE Same == UNCHANGED lapsed /\ rows' \in [Execs -> RowType]
<1>1. ASSUME Same PROVE RowsOK'
  BY <1>0, <1>1 DEF RowsOK
<1>2. CASE OpenExecution(x)
  <2>1. UNCHANGED lapsed /\ \E s \in {"none", "starting"} : MarkState(x, s)
    BY <1>2 DEF OpenExecution, MarkState
  <2> QED
    BY <1>0, <1>1, <2>1, MarkedRow DEF LiveStates
<1>3. CASE RecordStart(x) /\ rows[x].state # "none"
  <2>1. /\ lapsed' = RemoveFirst(lapsed, x)
        /\ rows' = [rows EXCEPT ![x] = [state |-> "running", gen |-> procs[x].gen]]
    BY <1>3 DEF RecordStart, MarkProcessStarted, RenewLease
  <2>2. procs[x].gen \in 0..2
    BY DEF TypeInv, Spawned
  <2>3. rows' \in [Execs -> RowType]
    BY <1>0, <2>1, <2>2 DEF RowType, LiveStates
  <2>4. lapsed' \in Seq(Execs) /\ IsInjective(lapsed')
    BY <1>0, <2>1, RemovedOne
  <2> QED
    BY <2>3, <2>4 DEF RowsOK
<1>4. CASE RecordStart(x) /\ rows[x].state = "none"
  BY <1>0, <1>4, SameRows DEF RecordStart
<1>5. CASE Heartbeat(x)
  <2>1. lapsed' = RemoveFirst(lapsed, x) /\ UNCHANGED rows
    BY <1>5 DEF Heartbeat, RenewLease
  <2>2. lapsed' \in Seq(Execs) /\ IsInjective(lapsed')
    BY <1>0, <2>1, RemovedOne
  <2> QED
    BY <1>0, <2>1, <2>2 DEF RowsOK
<1>6. CASE RecordExit(x)
  <2>1. UNCHANGED lapsed /\ (UNCHANGED rows \/ MarkState(x, "exited"))
    BY <1>6 DEF RecordExit, MarkExited
  <2> QED
    BY <1>0, <1>1, <2>1, MarkedRow DEF Terminal
<1>7. CASE Abandon(x)
  BY <1>0, <1>1, <1>7, MarkedRow DEF Abandon, Terminal
<1>8. CASE \/ OpenDispatch(x) \/ MarkRunning(x) \/ Spawn(x) \/ SpawnFails(x)
           \/ RecordStartFails(x) \/ ProcessReaped(x) \/ GiveUp(x)
           \/ RecordExitFails(x) \/ Close(x)
  <2>1. UNCHANGED <<rows, lapsed>>
    BY <1>8 DEF OpenDispatch, MarkRunning, Spawn, SpawnFails, RecordStartFails, ProcessReaped,
                GiveUp, TimesOut, RecordExitFails, Close, CloseDispatch
  <2> QED
    BY <1>0, <2>1, SameRows
<1> QED
  BY <1>2, <1>3, <1>4, <1>5, <1>6, <1>7, <1>8 DEF Call

(* A lease lapses once; of the rest only a cancel marks a row.             *)
LEMMA OtherRows ==
    ASSUME TypeInv, NEW x \in Execs,
           ProcessExits(x) \/ LeaseExpires(x) \/ SshTimesOut(x) \/ WorkerDies(x)
               \/ CallCancelled(x)
    PROVE  RowsOK'
<1>0. RowsOK /\ rows \in [Execs -> RowType] /\ lapsed \in Seq(Execs) /\ IsInjective(lapsed)
  BY DEF TypeInv, RowsOK
<1>1. CASE LeaseExpires(x)
  <2>1. lapsed' = Append(lapsed, x) /\ UNCHANGED rows /\ x \notin Range(lapsed)
    BY <1>1 DEF LeaseExpires, Lapsed
  <2>2. lapsed' \in Seq(Execs)
    BY <1>0, <2>1
  <2>3. \A i \in DOMAIN lapsed : lapsed[i] # x
    BY <2>1 DEF Range
  <2>4. IsInjective(lapsed')
    BY <1>0, <2>1, <2>3 DEF IsInjective
  <2> QED
    BY <1>0, <2>1, <2>2, <2>4 DEF RowsOK
<1>2. CASE CallCancelled(x)
  <2>1. UNCHANGED lapsed /\ (UNCHANGED rows \/ MarkState(x, "exited"))
    BY <1>2 DEF CallCancelled, MarkExited
  <2>2. rows' \in [Execs -> RowType]
    BY <1>0, <2>1, MarkedRow DEF Terminal
  <2> QED
    BY <1>0, <2>1, <2>2 DEF RowsOK
<1>3. CASE ProcessExits(x) \/ SshTimesOut(x) \/ WorkerDies(x)
  <2>1. UNCHANGED <<rows, lapsed>>
    BY <1>3 DEF ProcessExits, SshTimesOut, WorkerDies
  <2> QED
    BY <1>0, <2>1, SameRows
<1> QED
  BY <1>1, <1>2, <1>3

(* A janitor writes nothing of a row but its state.                        *)
LEMMA JanitorRows == ASSUME TypeInv, NEW h \in Hosts, Janitor(h) PROVE RowsOK'
<1>0. RowsOK /\ rows \in [Execs -> RowType] /\ lapsed \in Seq(Execs) /\ IsInjective(lapsed)
  BY DEF TypeInv, RowsOK
<1>1. UNCHANGED lapsed
  BY DEF Janitor, CleanupOnce, Validate, Term, Grace, Killed, Claim
<1>2. ASSUME NEW s \in {"none"} \cup LiveStates \cup Terminal, Report(h, s)
      PROVE  rows' \in [Execs -> RowType]
  <2>1. UNCHANGED rows \/ MarkState(Subject(h).exec, s)
    BY <1>2 DEF Report
  <2> QED
    BY <1>0, <2>1, MarkedRow
<1>3. rows' \in [Execs -> RowType]
  <2>1. CASE CleanupOnce(h) \/ Validate(h)
    BY <1>0, <2>1 DEF CleanupOnce, Validate
  <2>2. CASE Claim
    <3>1. MarkState(Subject(Local).exec, "cancelling")
      BY <2>2 DEF Claim, MarkCleanupStarted, MarkState
    <3> QED
      BY <1>0, <3>1, MarkedRow DEF LiveStates
  <2>3. CASE Term(h)
    <3>1. \/ UNCHANGED rows
          \/ \E s \in {"stale", "abandoned", "terminated"} : Report(h, s)
      BY <2>3 DEF Term, TermGroup
    <3> QED
      BY <1>0, <1>2, <3>1 DEF LiveStates, Terminal
  <2>4. CASE Grace(h)
    <3>1. UNCHANGED rows \/ \E s \in {"stale", "terminated"} : Report(h, s)
      BY <2>4 DEF Grace, KillGroup
    <3> QED
      BY <1>0, <1>2, <3>1 DEF LiveStates, Terminal
  <2>5. CASE Killed(h)
    BY <1>0, <1>2, <2>5 DEF Killed, Terminal
  <2> QED
    BY <2>1, <2>2, <2>3, <2>4, <2>5 DEF Janitor
<1> QED
  BY <1>0, <1>1, <1>3 DEF RowsOK

(* Any record that a janitor sets keeps the types of the janitors.         *)
LEMMA JanitorSet ==
    ASSUME JanitorsOK, NEW h \in Hosts, NEW pc \in JanitorPcs, NEW list, NEW gen,
           SetJan(h, [pc |-> pc, list |-> list, gen |-> gen])
    PROVE  JanitorsOK'
<1>1. DOMAIN janitors' = Hosts
  BY DEF JanitorsOK, SetJan
<1>2. janitors'[h] = [pc |-> pc, list |-> list, gen |-> gen]
  BY DEF JanitorsOK, SetJan
<1>3. \A g \in Hosts \ {h} : janitors'[g] = janitors[g]
  BY DEF JanitorsOK, SetJan
<1> QED
  BY <1>1, <1>2, <1>3 DEF JanitorsOK, Jan

LEMMA JanitorNext ==
    ASSUME JanitorsOK, NEW h \in Hosts, SetJan(h, Following(h))
    PROVE  JanitorsOK'
<1>1. CASE Tail(Jan(h).list) = <<>>
  BY <1>1, JanitorSet DEF Following, Resting, JanitorPcs
<1>2. CASE Tail(Jan(h).list) # <<>>
  BY <1>2, JanitorSet DEF Following, JanitorPcs
<1> QED
  BY <1>1, <1>2

LEMMA JanitorMoves ==
    ASSUME JanitorsOK, NEW h \in Hosts, NEW pc \in JanitorPcs,
           SetJan(h, [Jan(h) EXCEPT !.pc = pc])
    PROVE  JanitorsOK'
<1>1. [Jan(h) EXCEPT !.pc = pc] = [pc |-> pc, list |-> Jan(h).list, gen |-> Jan(h).gen]
  BY DEF JanitorsOK
<1> QED
  BY <1>1, JanitorSet

(* What a janitor sets is a pc with a list of rows and a process.          *)
LEMMA JanitorTypes == ASSUME TypeInv, NEW h \in Hosts, Janitor(h) PROVE JanitorsOK'
<1>0. JanitorsOK /\ Local \in Hosts
  BY DEF TypeInv, Hosts
<1>1. CASE CleanupOnce(h)
  <2>1. PICK list : SetJan(h, [pc |-> "validate", list |-> list, gen |-> 0])
    BY <1>1 DEF CleanupOnce
  <2> QED
    BY <1>0, <2>1, JanitorSet DEF JanitorPcs
<1>2. CASE Validate(h)
  <2> DEFINE s == Subject(h)
             pc == IF h = Local THEN "claim" ELSE "term"
  <2>1. CASE ~ValidateRow(s)
    BY <1>0, <1>2, <2>1, JanitorNext DEF Validate
  <2>2. CASE ValidateRow(s)
    <3>1. SetJan(h, [pc |-> pc, list |-> Jan(h).list, gen |-> procs[s.exec].gen])
      BY <1>2, <2>2 DEF Validate
    <3>2. pc \in JanitorPcs
      BY DEF JanitorPcs
    <3> HIDE DEF pc, s
    <3> QED
      BY <1>0, <3>1, <3>2, JanitorSet
  <2> QED
    BY <2>1, <2>2
<1>3. CASE Claim
  BY <1>0, <1>3, JanitorMoves DEF Claim, JanitorPcs
<1>4. CASE Term(h) \/ Grace(h) \/ Killed(h)
  <2>1. \/ SetJan(h, Following(h))
        \/ \E pc \in JanitorPcs : SetJan(h, [Jan(h) EXCEPT !.pc = pc])
    BY <1>4 DEF Term, TermGroup, Grace, KillGroup, Killed, Report, JanitorPcs
  <2> QED
    BY <1>0, <2>1, JanitorNext, JanitorMoves
<1> QED
  BY <1>1, <1>2, <1>3, <1>4 DEF Janitor

(* The worker or LLMRunner spawns once per turn: two processes at most.    *)
LEMMA SpawnedStep ==
    ASSUME Inv, TypeInv, [Next]_vars, NEW y \in Execs
    PROVE  Spawned(y)'
<1>0. /\ calls \in [Execs -> CallType] /\ procs \in [Execs -> ProcType]
      /\ calls[y] \in CallType /\ procs[y] \in ProcType /\ Spawned(y)
  BY DEF Inv, CallsOK, TypeInv
<1>1. ASSUME calls'[y] = calls[y], procs'[y].gen = procs[y].gen PROVE Spawned(y)'
  BY <1>0, <1>1 DEF Spawned
<1>2. ASSUME NEW x \in Execs, Call(x) PROVE Spawned(y)'
  <2>1. CASE x # y
    <3>1. Others(x)
      BY <1>2, CallStep
    <3> QED
      BY <1>1, <2>1, <3>1 DEF Others
  <2> SUFFICES ASSUME x = y PROVE Spawned(y)'
    BY <2>1
  <2> USE DEF Spawned, At, Enter, CallType, NoCall
  <2>2. CASE Spawn(x)
    <3>1. /\ At(y, "spawn") /\ calls' = [calls EXCEPT ![y].pc = "record"]
          /\ procs' = [procs EXCEPT ![y] = [gen |-> procs[y].gen + 1, st |-> "alive"]]
      BY <1>0, <2>2 DEF Spawn
    <3>2. calls'[y].pc = "record" /\ calls'[y].turn = calls[y].turn
      BY <1>0, <3>1
    <3>3. procs'[y].gen = procs[y].gen + 1
      BY <1>0, <3>1
    <3> QED
      BY <1>0, <3>1, <3>2, <3>3
  <2>3. CASE OpenDispatch(x) \/ MarkRunning(x)
    BY <1>0, <2>3 DEF OpenDispatch, MarkRunning
  <2>4. CASE OpenExecution(x)
    <3>1. PICK turn \in {"ensure", "prompt"} :
              calls' = [calls EXCEPT ![y].pc = "spawn", ![y].turn = turn]
      BY <2>4 DEF OpenExecution
    <3>2. procs' = procs /\ procs[y].gen = 0
      BY <1>0, <2>4 DEF OpenExecution
    <3> QED
      BY <1>0, <3>1, <3>2
  <2>5. CASE RecordExit(x) \/ RecordExitFails(x)
    <3>1. At(y, "exited") /\ AfterExit(y) /\ procs' = procs
      BY <2>5 DEF RecordExit, RecordExitFails
    <3>2. CASE calls[y].turn = "prompt"
      BY <1>0, <3>1, <3>2 DEF AfterExit
    <3>3. CASE calls[y].turn = "ensure"
      <4>1. calls'[y].pc \in {"spawn", "abandon"} /\ calls'[y].turn = "prompt"
        BY <1>0, <3>1, <3>3 DEF AfterExit
      <4> QED
        BY <1>0, <3>1, <3>3, <4>1
    <3> QED
      BY <1>0, <3>2, <3>3
  <2>6. CASE RecordStart(x) \/ RecordStartFails(x) \/ Heartbeat(x) \/ ProcessReaped(x)
    BY <1>0, <2>6 DEF RecordStart, RecordStartFails, Heartbeat, ProcessReaped
  <2>7. CASE GiveUp(x)
    BY <1>0, <2>7 DEF GiveUp, TimesOut, Signalled
  <2>8. CASE SpawnFails(x) \/ Abandon(x) \/ Close(x)
    BY <1>0, <2>8 DEF SpawnFails, Abandon, Close, CloseDispatch
  <2> QED
    BY <1>2, <2>2, <2>3, <2>4, <2>5, <2>6, <2>7, <2>8 DEF Call
<1>3. ASSUME NEW dead, calls' = Lose(dead), procs' = procs PROVE Spawned(y)'
  BY <1>0, <1>3 DEF Lose, Spawned, NoCall
<1>4. ASSUME NEW x \in Execs, ProcessExits(x) PROVE Spawned(y)'
  BY <1>0, <1>1, <1>4 DEF ProcessExits, ProcType
<1>5. ASSUME NEW x \in Execs, LeaseExpires(x) \/ SshTimesOut(x) PROVE Spawned(y)'
  BY <1>1, <1>5 DEF LeaseExpires, SshTimesOut
<1>6. ASSUME NEW x \in Execs, WorkerDies(x) \/ CallCancelled(x) PROVE Spawned(y)'
  BY <1>3, <1>6 DEF WorkerDies, CallCancelled
<1>7. CASE Restart
  <2>1. procs' = procs /\ \E dead : calls' = Lose(dead)
    BY <1>7 DEF Restart
  <2> QED
    BY <1>3, <2>1
<1>8. ASSUME NEW h \in Hosts, Janitor(h) PROVE Spawned(y)'
  <2>1. calls' = calls
    BY <1>8 DEF Janitor, CleanupOnce, Validate, Term, Grace, Killed, Claim
  <2>2. UNCHANGED procs \/ Signalled(Subject(h).exec)
    BY <1>8 DEF Janitor, CleanupOnce, Validate, Term, Grace, Killed, Claim, KillGroup
  <2>3. procs'[y].gen = procs[y].gen
    BY <1>0, <2>2 DEF Signalled, ProcType
  <2> QED
    BY <1>1, <2>1, <2>3
<1>9. CASE UNCHANGED vars
  BY <1>1, <1>9 DEF vars
<1> QED
  BY <1>2, <1>4, <1>5, <1>6, <1>7, <1>8, <1>9 DEF Next

(* The bound on the events holds; whether kills are enabled is fixed.      *)
LEMMA EventsStep ==
    ASSUME TypeInv, [Next]_vars
    PROVE  kill' \in BOOLEAN /\ events' \in 0..MaxEvents
<1>0. kill \in BOOLEAN /\ events \in 0..MaxEvents /\ MaxEvents \in Nat
  BY ExecutionsAssumption DEF TypeInv
<1>1. ASSUME Event PROVE events' \in 0..MaxEvents
  BY <1>0, <1>1 DEF Event
<1> DEFINE Counted == UNCHANGED kill /\ (UNCHANGED events \/ Event)
<1>2. Counted
  <2>1. ASSUME NEW x \in Execs, Call(x) PROVE Counted
    BY <2>1 DEF Call, OpenDispatch, MarkRunning, OpenExecution, Spawn, SpawnFails, RecordStart,
         RecordStartFails, Heartbeat, ProcessReaped, GiveUp, TimesOut, RecordExit,
         RecordExitFails, Abandon, Close, CloseDispatch
  <2>2. ASSUME NEW h \in Hosts, Janitor(h) PROVE Counted
    BY <2>2 DEF Janitor, CleanupOnce, Validate, Term, TermGroup, Grace, KillGroup, Killed,
         Claim, Report
  <2>3. ASSUME NEW x \in Execs, LeaseExpires(x) \/ ProcessExits(x) \/ SshTimesOut(x)
                   \/ WorkerDies(x) \/ CallCancelled(x)
        PROVE  Counted
    BY <2>3 DEF LeaseExpires, ProcessExits, SshTimesOut, WorkerDies, CallCancelled
  <2>4. CASE Restart
    BY <2>4 DEF Restart
  <2>5. CASE UNCHANGED vars
    BY <2>5 DEF vars
  <2> QED
    BY <2>1, <2>2, <2>3, <2>4, <2>5 DEF Next
<1> QED
  BY <1>0, <1>1, <1>2

LEMMA TypeStep == Inv /\ TypeInv /\ [Next]_vars => TypeInv'
<1> SUFFICES ASSUME Inv, TypeInv, [Next]_vars PROVE TypeInv'
  OBVIOUS
<1>1. RowsOK /\ JanitorsOK
  BY DEF TypeInv
<1>2. RowsOK'
  <2>1. CASE Restart \/ UNCHANGED vars
    BY <1>1, <2>1, SameRows DEF Restart, vars
  <2> QED
    BY <2>1, CallRows, OtherRows, JanitorRows DEF Next
<1>3. JanitorsOK'
  <2>1. CASE Restart
    BY <1>1, <2>1, JanitorSet DEF Restart, SetJan, Resting, JanitorPcs, Hosts
  <2>2. ASSUME UNCHANGED janitors PROVE JanitorsOK'
    BY <1>1, <2>2 DEF JanitorsOK, Jan
  <2>3. ASSUME NEW x \in Execs, Call(x) PROVE UNCHANGED janitors
    BY <2>3 DEF Call, OpenDispatch, MarkRunning, OpenExecution, Spawn, SpawnFails, RecordStart,
         RecordStartFails, Heartbeat, ProcessReaped, GiveUp, TimesOut, RecordExit,
         RecordExitFails, Abandon, Close, CloseDispatch
  <2>4. ASSUME NEW x \in Execs, LeaseExpires(x) \/ ProcessExits(x) \/ SshTimesOut(x)
                   \/ WorkerDies(x) \/ CallCancelled(x)
        PROVE  UNCHANGED janitors
    BY <2>4 DEF LeaseExpires, ProcessExits, SshTimesOut, WorkerDies, CallCancelled
  <2>5. CASE UNCHANGED vars
    BY <2>2, <2>5 DEF vars
  <2> QED
    BY <2>1, <2>2, <2>3, <2>4, <2>5, JanitorTypes DEF Next
<1> QED
  BY <1>2, <1>3, SpawnedStep, EventsStep DEF TypeInv

\* AgentExecutionRepo, LLMRunner and the janitors: every row, process, lease
\* and call keeps its type, no call spawns more than one process per turn, and
\* no row's lease expires twice without a renewal.
THEOREM TypeCorrect == Spec => []TypeOK
<1>1. Inv /\ TypeInv => TypeOK
  <2> SUFFICES ASSUME Inv, TypeInv PROVE TypeOK
    OBVIOUS
  <2>1. Range(lapsed) \subseteq Execs
    BY DEF TypeInv, RowsOK, Range
  <2>2. procs \in [Execs -> [gen : 0..2, st : {"none", "alive", "succeeded", "failed"}]]
    BY DEF Inv, CallsOK, ProcType, TypeInv, Spawned
  <2> QED
    BY <2>1, <2>2 DEF Inv, CallsOK, CallType, TypeInv, RowsOK, RowType, JanitorsOK, JanitorPcs,
                      TypeOK
<1>2. Spec => []TypeInv
  BY InitTypes, TypeStep, InvCorrect, PTL DEF Spec
<1> QED
  BY <1>1, <1>2, InvCorrect, PTL
=============================================================================
