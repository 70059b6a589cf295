-------------------------- MODULE Registry_proofs --------------------------
(***************************************************************************)
(* Theorems about Registry, for every set of rows, addresses and clients   *)
(* and every bound on the events.                                          *)
(***************************************************************************)
EXTENDS Registry, TLAPS

(* A request in flight knows its row and, where it needs one, an address.  *)
Aimed ==
    \A c \in Clients :
        /\ calls[c].op \in {"upsert", "delete", "probe", "bind", "pushed", "failed"}
               => Row(c) \in Rows
        /\ calls[c].op \in {"upsert", "probe"} => calls[c].url \in Urls

(* What the writers of the table and of the requests produce.              *)

LEMMA UpsertedType ==
    ASSUME TypeOK, NEW r \in Rows, NEW u \in Urls
    PROVE  Upserted(r, u) \in RowSet
BY DEF TypeOK, Upserted, There, RowSet, NewRow, Statuses

(* A write of the status columns keeps a row a row.                        *)
LEMMA UpdateStatusType ==
    ASSUME TypeOK, NEW r \in Rows, NEW s \in Statuses, NEW u \in Urls \cup {None},
           UpdateStatus(r, s, u)
    PROVE  /\ table' \in [Rows -> RowSet \cup {None}]
           /\ \A q \in Rows : There(q) => table'[q] \in RowSet
<1>1. table \in [Rows -> RowSet \cup {None}] /\ (There(r) => table[r] \in RowSet)
  BY DEF TypeOK, There
<1>2. There(r) => [table[r] EXCEPT !.status = s, !.about = u] \in RowSet
  BY <1>1 DEF RowSet
<1>3. table' = IF There(r) THEN [table EXCEPT ![r] = [table[r] EXCEPT !.status = s, !.about = u]]
               ELSE table
  BY <1>1 DEF UpdateStatus
<1> QED
  BY <1>1, <1>2, <1>3 DEF There

LEMMA AskType ==
    ASSUME TypeOK, NEW c \in Clients, NEW op \in {"upsert", "delete", "probe", "bind"},
           NEW r \in Rows \cup {None}, NEW u \in Urls \cup {None}, Ask(c, op, r, u)
    PROVE  /\ calls' \in [Clients -> CallSet] /\ events' \in 0..MaxEvents
           /\ calls'[c].op = op /\ calls'[c].row = r /\ calls'[c].url = u
           /\ \A d \in Clients \ {c} : calls'[d] = calls[d]
<1> DEFINE call == [NoCall EXCEPT !.op = op, !.row = r, !.url = u]
<1>1. call \in CallSet
  BY DEF CallSet, NoCall
<1>2. calls' \in [Clients -> CallSet]
  BY <1>1 DEF TypeOK, Ask
<1>3. events' \in 0..MaxEvents
  BY RegistryAssumption DEF TypeOK, Ask, Event
<1>4. call.op = op /\ call.row = r /\ call.url = u
  BY DEF NoCall
<1>5. calls'[c] = call /\ \A d \in Clients \ {c} : calls'[d] = calls[d]
  BY DEF Ask, TypeOK
<1> QED
  BY <1>2, <1>3, <1>4, <1>5

LEMMA LeaveType ==
    ASSUME TypeOK, NEW c \in Clients, Leave(c)
    PROVE  calls' \in [Clients -> CallSet]
<1>1. NoCall \in CallSet
  BY DEF CallSet, NoCall
<1> QED
  BY <1>1 DEF TypeOK, Leave

LEMMA ProbeType ==
    ASSUME TypeOK, NEW r \in Rows, NEW u \in Urls, NEW ok \in BOOLEAN, Probe(r, u, ok)
    PROVE  /\ table' \in [Rows -> RowSet \cup {None}]
           /\ clone' \in [Rows -> Urls \cup {None}]
           /\ \A q \in Rows : There(q) => table'[q] \in RowSet
<1> DEFINE about == IF kind = "hosts" \/ clone[r] = None THEN u ELSE clone[r]
           status == IF ok THEN "healthy" ELSE "failing"
<1>1. UpdateStatus(r, status, about)
  BY DEF Probe, Healthcheck, FetchOrClone
<1>2. about \in Urls /\ status \in Statuses
  BY DEF TypeOK, Statuses
<1>3. /\ table' \in [Rows -> RowSet \cup {None}]
      /\ \A q \in Rows : There(q) => table'[q] \in RowSet
  BY <1>1, <1>2, UpdateStatusType
<1>4. clone' \in [Rows -> Urls \cup {None}]
  BY DEF Probe, Healthcheck, FetchOrClone, TypeOK
<1> QED
  BY <1>3, <1>4

----------------------------------------------------------------------------

LEMMA InitType == Init => TypeOK /\ Aimed
BY RegistryAssumption
DEF Init, TypeOK, RowSet, NewRow, Statuses, RefStates, NoCall, CallSet, Aimed

LEMMA RequestType ==
    ASSUME TypeOK, Aimed, NEW c \in Clients, Request(c)
    PROVE  TypeOK' /\ Aimed'
<1> USE RegistryAssumption
<1>1. ASSUME NEW r \in Rows, Delete(c, r) \/ ProbeRequest(c, r) \/ Bind(c, r)
      PROVE  TypeOK' /\ Aimed'
  <2>1. ProbeRequest(c, r) => table[r].url \in Urls
    BY DEF TypeOK, There, RowSet, ProbeRequest
  <2>2. /\ calls' \in [Clients -> CallSet] /\ events' \in 0..MaxEvents
        /\ calls'[c].row = r /\ calls'[c].op \in {"delete", "probe", "bind"}
        /\ calls'[c].op = "probe" => calls'[c].url \in Urls
        /\ \A d \in Clients \ {c} : calls'[d] = calls[d]
    BY <1>1, <2>1, AskType DEF Delete, ProbeRequest, Bind
  <2>3. TypeOK'
    BY <1>1, <2>2 DEF Delete, ProbeRequest, Bind, TypeOK
  <2>4. Aimed'
    BY <2>2 DEF Aimed, Row
  <2> QED
    BY <2>3, <2>4
<1>2. ASSUME NEW r \in Rows, NEW u \in Urls, Create(c, r, u) \/ Patch(c, r, u)
      PROVE  TypeOK' /\ Aimed'
  <2>1. /\ calls' \in [Clients -> CallSet] /\ events' \in 0..MaxEvents
        /\ calls'[c].row = r /\ calls'[c].url = u
        /\ \A d \in Clients \ {c} : calls'[d] = calls[d]
    BY <1>2, AskType DEF Create, Patch
  <2>2. TypeOK'
    BY <1>2, <2>1 DEF Create, Patch, TypeOK
  <2>3. Aimed'
    BY <2>1 DEF Aimed, Row
  <2> QED
    BY <2>2, <2>3
<1>3. CASE Sync(c)
  <2> DEFINE call == [NoCall EXCEPT !.op = "sync", !.todo = Listed]
  <2>0. call \in CallSet
    BY DEF CallSet, NoCall
  <2>1. TypeOK'
    <3> HIDE DEF call
    <3>1. calls' = [calls EXCEPT ![c] = call]
      BY <1>3 DEF Sync, call
    <3> QED
      BY <1>3, <2>0, <3>1 DEF Sync, TypeOK, Event
  <2>2. Aimed'
    BY <1>3 DEF Sync, NoCall, Aimed, Row, TypeOK
  <2> QED
    BY <2>1, <2>2
<1>4. CASE Publish(c)
  <2> DEFINE todo == {r \in Rows : refs[r] \in {"pending", "failed"}}
             call == [NoCall EXCEPT !.op = "push", !.todo = todo]
  <2>0. call \in CallSet
    BY DEF CallSet, NoCall
  <2>1. TypeOK'
    <3> HIDE DEF call
    <3>1. calls' = [calls EXCEPT ![c] = call]
      BY <1>4 DEF Publish, call
    <3> QED
      BY <1>4, <2>0, <3>1 DEF Publish, TypeOK, Event
  <2>2. Aimed'
    BY <1>4 DEF Publish, NoCall, Aimed, Row, TypeOK
  <2> QED
    BY <2>1, <2>2
<1> QED
  BY <1>1, <1>2, <1>3, <1>4 DEF Request

LEMMA StepType ==
    ASSUME TypeOK, Aimed, NEW c \in Clients, Step(c)
    PROVE  TypeOK' /\ Aimed'
<1>0. calls[c] \in CallSet
  BY DEF TypeOK
<1>1. CASE UpsertDone(c)
  <2> DEFINE r == Row(c)  u == calls[c].url
  <2>1. r \in Rows /\ u \in Urls
    BY <1>1 DEF UpsertDone, At, Aimed
  <2>2. table' \in [Rows -> RowSet \cup {None}]
    BY <1>1, <2>1, UpsertedType DEF UpsertDone, Upsert, TypeOK
  <2>3. TypeOK'
    BY <1>1, <2>2, LeaveType DEF UpsertDone, TypeOK
  <2> QED
    BY <1>1, <2>3 DEF UpsertDone, Leave, NoCall, Aimed, Row, TypeOK
<1>2. CASE DeleteDone(c)
  <2>1. TypeOK'
    BY <1>2, LeaveType DEF DeleteDone, DeleteRow, TypeOK
  <2> QED
    BY <1>2, <2>1 DEF DeleteDone, DeleteRow, Leave, NoCall, Aimed, Row, TypeOK
<1>3. CASE SyncSelect(c)
  <2>1. calls' \in [Clients -> CallSet]
    BY <1>0, <1>3 DEF SyncSelect, CallSet, TypeOK
  <2>2. TypeOK'
    BY <1>3, <2>1 DEF SyncSelect, TypeOK
  <2> QED
    BY <1>3, <2>2 DEF SyncSelect, Aimed, Row, TypeOK
<1>8. CASE SyncDone(c)
  <2>1. TypeOK'
    BY <1>8, LeaveType DEF SyncDone, TypeOK
  <2> QED
    BY <1>8, <2>1 DEF SyncDone, Leave, NoCall, Aimed, Row, TypeOK
<1>9. ASSUME NEW r \in Rows, SyncListed(c, r) \/ SyncStale(c, r) PROVE TypeOK' /\ Aimed'
  <2>1. calls' \in [Clients -> CallSet]
    BY <1>0, <1>9 DEF SyncListed, SyncStale, Served, CallSet, TypeOK
  <2>2. table' \in [Rows -> RowSet \cup {None}]
    <3>1. CASE SyncListed(c, r)
      BY <3>1, UpsertedType, RegistryAssumption DEF SyncListed, Upsert, TypeOK
    <3>2. CASE SyncStale(c, r)
      BY <3>2, UpdateStatusType DEF SyncStale, Statuses
    <3> QED
      BY <1>9, <3>1, <3>2
  <2>3. TypeOK'
    BY <1>9, <2>1, <2>2 DEF SyncListed, SyncStale, TypeOK
  <2>4. calls[c].op \in {"sync", "stale"} /\ calls'[c].op = calls[c].op
        /\ \A d \in Clients \ {c} : calls'[d] = calls[d]
    BY <1>0, <1>9 DEF SyncListed, SyncStale, Served, At, TypeOK, CallSet
  <2> QED
    BY <2>3, <2>4 DEF Aimed, Row
<1>4. CASE ProbeRequestDone(c)
  <2>1. Row(c) \in Rows /\ calls[c].url \in Urls
    BY <1>4 DEF ProbeRequestDone, At, Aimed
  <2>2. table' \in [Rows -> RowSet \cup {None}] /\ clone' \in [Rows -> Urls \cup {None}]
    BY <1>4, <2>1, ProbeType DEF ProbeRequestDone
  <2>3. TypeOK'
    BY <1>4, <2>2, LeaveType DEF ProbeRequestDone, TypeOK
  <2> QED
    BY <1>4, <2>3 DEF ProbeRequestDone, Leave, NoCall, Aimed, Row, TypeOK
<1>5. CASE BindDone(c)
  <2>1. TypeOK'
    BY <1>5, LeaveType, RegistryAssumption DEF BindDone, TypeOK, RefStates
  <2> QED
    BY <1>5, <2>1 DEF BindDone, Leave, NoCall, Aimed, Row, TypeOK
<1>6. CASE RecordPush(c)
  <2>1. calls' \in [Clients -> CallSet]
    BY <1>0, <1>6 DEF RecordPush, NoCall, CallSet, TypeOK
  <2>2. TypeOK'
    BY <1>6, <2>1 DEF RecordPush, UpdatePushState, TypeOK, RefStates
  <2>3. Aimed'
    BY <1>6 DEF RecordPush, NoCall, Aimed, Row, TypeOK
  <2> QED
    BY <2>2, <2>3
<1>7. ASSUME NEW r \in Rows, PublishMount(c, r) PROVE TypeOK' /\ Aimed'
  <2>1. calls' \in [Clients -> CallSet]
    <3>1. PICK op \in {"pushed", "failed"} :
              calls' = [calls EXCEPT ![c].todo = @ \ {r}, ![c].row = r, ![c].op = op]
      BY <1>7 DEF PublishMount, PublishOne
    <3>2. [calls[c] EXCEPT !.todo = @ \ {r}, !.row = r, !.op = op] \in CallSet
      BY <1>0 DEF CallSet
    <3> QED
      BY <3>1, <3>2 DEF TypeOK
  <2>2. TypeOK'
    BY <1>7, <2>1 DEF PublishMount, PublishOne, TypeOK
  <2>3. Aimed'
    BY <1>7 DEF PublishMount, PublishOne, Aimed, Row, TypeOK
  <2> QED
    BY <2>2, <2>3
<1> QED
  BY <1>1, <1>2, <1>3, <1>4, <1>5, <1>6, <1>7, <1>8, <1>9 DEF Step

LEMMA OtherType ==
    ASSUME TypeOK, Aimed,
           \/ \E r \in Rows : ProbeOne(r) \/ DispatchEnds(r)
           \/ \E r \in Rows, s \in {"pushed", "failed"} : UpdateRepoPushState(r, s)
           \/ ProbeOnce \/ DeleteWork \/ Restart
    PROVE  TypeOK' /\ Aimed'
<1> USE RegistryAssumption
<1>1. ASSUME NEW r \in Rows, ProbeOne(r) PROVE TypeOK' /\ Aimed'
  <2>1. loop[r] \in Urls
    BY <1>1 DEF ProbeOne, TypeOK
  <2>2. table' \in [Rows -> RowSet \cup {None}] /\ clone' \in [Rows -> Urls \cup {None}]
    BY <1>1, <2>1, ProbeType DEF ProbeOne
  <2> QED
    BY <1>1, <2>2 DEF ProbeOne, TypeOK, Aimed, Row
<1>2. ASSUME NEW r \in Rows, DispatchEnds(r) PROVE TypeOK' /\ Aimed'
  BY <1>2 DEF DispatchEnds, TypeOK, Aimed, Row, RefStates
<1>3. ASSUME NEW r \in Rows, NEW s \in {"pushed", "failed"}, UpdateRepoPushState(r, s)
      PROVE  TypeOK' /\ Aimed'
  BY <1>3 DEF UpdateRepoPushState, UpdatePushState, Event, TypeOK, Aimed, Row, RefStates
<1>4. CASE ProbeOnce
  BY <1>4 DEF ProbeOnce, ToProbe, There, RowSet, TypeOK, Aimed, Row
<1>5. CASE DeleteWork
  BY <1>5 DEF DeleteWork, Event, TypeOK, Aimed, Row, RefStates
<1>6. CASE Restart
  <2>0. \A r \in Rows : There(r) =>
            [table[r] EXCEPT !.status = "unknown", !.about = None] \in RowSet
    BY DEF TypeOK, There, RowSet, Statuses
  <2>1. table' \in [Rows -> RowSet \cup {None}]
    BY <1>6, <2>0, UpsertedType DEF Restart, TypeOK
  <2>2. NoCall \in CallSet /\ NoCall.op = "idle"
    BY DEF NoCall, CallSet
  <2>3. TypeOK'
    <3>1. calls' \in [Clients -> CallSet]
      BY <1>6, <2>2 DEF Restart
    <3>2. loop' \in [Rows -> Urls \cup {None}]
      BY <1>6 DEF Restart
    <3>3. events' \in 0..MaxEvents
      <4>1. events < MaxEvents /\ events' = events + 1
        BY <1>6 DEF Restart, Event
      <4>2. events \in 0..MaxEvents
        BY DEF TypeOK
      <4> QED
        BY <4>1, <4>2
    <3> QED
      BY <1>6, <2>1, <3>1, <3>2, <3>3 DEF Restart, TypeOK
  <2>4. Aimed'
    BY <1>6, <2>2 DEF Restart, Aimed, Row
  <2> QED
    BY <2>3, <2>4
<1> QED
  BY <1>1, <1>2, <1>3, <1>4, <1>5, <1>6

\* Every handler, probe and publisher leaves rows, statuses, origins,
\* references and requests of their types, however they overlap.
THEOREM TypeCorrect == Spec => [](TypeOK /\ Aimed)
<1>1. TypeOK /\ Aimed /\ [Next]_vars => TypeOK' /\ Aimed'
  <2> SUFFICES ASSUME TypeOK, Aimed, [Next]_vars PROVE TypeOK' /\ Aimed'
    OBVIOUS
  <2>1. CASE Next
    BY <2>1, RequestType, StepType, OtherType DEF Next
  <2>2. CASE UNCHANGED vars
    BY <2>2 DEF vars, TypeOK, Aimed, Row
  <2> QED
    BY <2>1, <2>2
<1> QED
  BY InitType, <1>1, PTL DEF Spec

----------------------------------------------------------------------------
(* References.                                                             *)

LEMMA ReferencesKept ==
    ASSUME TypeOK, Aimed, NoDanglingRef, [Next]_vars
    PROVE  NoDanglingRef'
<1> SUFFICES ASSUME NEW r \in Rows, Refers(r)' PROVE There(r)'
  BY DEF NoDanglingRef
<1>0. table[r] \in RowSet \cup {None} /\ (Refers(r) => There(r))
  BY DEF TypeOK, NoDanglingRef
<1>1. ASSUME NEW q \in Rows, NEW u \in Urls, Upsert(q, u), UNCHANGED refs PROVE There(r)'
  BY <1>0, <1>1, UpsertedType, RegistryAssumption DEF Upsert, There, Refers, TypeOK
<1>2. UNCHANGED <<table, refs>> => There(r)'
  BY <1>0 DEF There, Refers
<1>3. ASSUME NEW c \in Clients, DeleteDone(c) PROVE There(r)'
  BY <1>0, <1>3 DEF DeleteDone, DeleteRow, There, Refers, TypeOK
<1>4. ASSUME NEW c \in Clients, NEW q \in Rows, SyncListed(c, q) PROVE There(r)'
  BY <1>1, <1>4, RegistryAssumption DEF SyncListed
<1>5. ASSUME NEW c \in Clients, NEW q \in Rows, SyncStale(c, q) PROVE There(r)'
  BY <1>0, <1>5, UpdateStatusType, RegistryAssumption DEF SyncStale, Statuses, There, Refers
<1>6. ASSUME NEW q \in Rows, NEW u \in Urls, NEW ok \in BOOLEAN, Probe(q, u, ok),
             UNCHANGED refs
      PROVE  There(r)'
  BY <1>0, <1>6, ProbeType, RegistryAssumption DEF There, Refers
<1>7. ASSUME NEW c \in Clients, BindDone(c) PROVE There(r)'
  BY <1>0, <1>7 DEF BindDone, There, Refers, TypeOK
<1>8. ASSUME NEW q \in Rows, NEW s, UpdatePushState(q, s), UNCHANGED table PROVE There(r)'
  BY <1>0, <1>8 DEF UpdatePushState, There, Refers, TypeOK
<1>9. CASE Restart
  <2>1. There(r) /\ [table[r] EXCEPT !.status = "unknown", !.about = None] \in RowSet
    BY <1>0, <1>9 DEF Restart, There, Refers, RowSet, Statuses
  <2> QED
    BY <1>9, <2>1, UpsertedType, RegistryAssumption DEF Restart, There
<1>10. CASE DeleteWork
  BY <1>10 DEF DeleteWork, Refers, TypeOK
<1>11. ASSUME NEW q \in Rows, DispatchEnds(q) PROVE There(r)'
  BY <1>0, <1>11 DEF DispatchEnds, There, Refers, TypeOK
<1>12. ASSUME NEW c \in Clients, Request(c) PROVE There(r)'
  BY <1>2, <1>12
  DEF Request, Delete, ProbeRequest, Bind, Create, Patch, Sync, Publish
<1>13. ASSUME NEW c \in Clients, Step(c) PROVE There(r)'
  <2>1. CASE UpsertDone(c)
    BY <1>1, <2>1 DEF UpsertDone, At, Aimed
  <2>2. CASE ProbeRequestDone(c)
    BY <1>6, <2>2 DEF ProbeRequestDone, At, Aimed
  <2>3. CASE RecordPush(c)
    BY <1>8, <2>3 DEF RecordPush, Aimed
  <2>4. ASSUME NEW q \in Rows, PublishMount(c, q) PROVE There(r)'
    BY <1>2, <2>4 DEF PublishMount, PublishOne
  <2> QED
    BY <1>2, <1>3, <1>4, <1>5, <1>7, <1>13, <2>1, <2>2, <2>3, <2>4
    DEF Step, SyncSelect, SyncDone
<1>14. ASSUME NEW q \in Rows, ProbeOne(q) PROVE There(r)'
  BY <1>6, <1>14 DEF ProbeOne, TypeOK
<1>15. ASSUME NEW q \in Rows, NEW s, UpdateRepoPushState(q, s) PROVE There(r)'
  BY <1>8, <1>15 DEF UpdateRepoPushState
<1>16. ProbeOnce \/ UNCHANGED vars => There(r)'
  BY <1>2 DEF ProbeOnce, vars
<1> QED
  BY <1>9, <1>10, <1>11, <1>12, <1>13, <1>14, <1>15, <1>16 DEF Next

\* AgentHostRepo.delete, RepoRegistryRepo.delete: no work refers to a row that
\* is gone, with any number of requests that count, read and write in between.
THEOREM NoDangling == Spec => []NoDanglingRef
<1>1. Init => NoDanglingRef
  BY DEF Init, NoDanglingRef, Refers
<1> QED
  BY <1>1, TypeCorrect, ReferencesKept, PTL DEF Spec

----------------------------------------------------------------------------
(* Push states.                                                            *)

(* A push that git has acknowledged and that is not recorded yet is on the *)
(* remote: what _publish_one knows when it calls update_push_state.        *)
AckedIsOnRemote == \A c \in Clients : calls[c].op = "pushed" => Row(c) \in remote

(* The writers of push states.                                             *)
Writes(r, s) ==
    \/ \E c \in Clients : RecordPush(c) /\ r = Row(c) /\ s = calls[c].op
    \/ UpdateRepoPushState(r, s)

\* What becomes of the push state of a mount in one step.
LEMMA PushStates ==
    ASSUME TypeOK, Aimed, [Next]_vars, NEW r \in Rows
    PROVE  \/ refs'[r] = refs[r]
           \/ refs'[r] \in {"deleted", "active", "past", "pending"} /\ refs[r] # "pushed"
           \/ refs'[r] = "deleted"
           \/ \E s \in {"pushed", "failed"} :
                  Writes(r, s) /\ refs'[r] = s /\ ~(refs[r] = "pushed" /\ s = "failed")
<1> DEFINE Goal == \/ refs'[r] = refs[r]
                   \/ refs'[r] \in {"deleted", "active", "past", "pending"} /\ refs[r] # "pushed"
                   \/ refs'[r] = "deleted"
                   \/ \E s \in {"pushed", "failed"} :
                          /\ Writes(r, s) /\ refs'[r] = s
                          /\ ~(refs[r] = "pushed" /\ s = "failed")
<1>1. ASSUME NEW c \in Clients, RecordPush(c) PROVE Goal
  <2>1. Row(c) \in Rows /\ calls[c].op \in {"pushed", "failed"}
        /\ UpdatePushState(Row(c), calls[c].op)
    BY <1>1 DEF RecordPush, Aimed
  <2>2. CASE refs'[r] # refs[r]
    <3>1. r = Row(c) /\ refs'[r] = calls[c].op
          /\ ~(refs[r] = "pushed" /\ calls[c].op = "failed")
      BY <2>1, <2>2 DEF UpdatePushState, TypeOK
    <3> QED
      BY <1>1, <2>1, <3>1 DEF Writes
  <2> QED
    BY <2>2
<1>2. ASSUME NEW q \in Rows, NEW s \in {"pushed", "failed"}, UpdateRepoPushState(q, s)
      PROVE  Goal
  <2>1. CASE refs'[r] # refs[r]
    <3>1. r = q /\ refs'[r] = s /\ ~(refs[r] = "pushed" /\ s = "failed")
      BY <1>2, <2>1 DEF UpdateRepoPushState, UpdatePushState, TypeOK
    <3> QED
      BY <1>2, <3>1 DEF Writes
  <2> QED
    BY <2>1
<1>3. ASSUME NEW c \in Clients, BindDone(c) PROVE Goal
  BY <1>3 DEF BindDone, TypeOK
<1>4. ASSUME NEW q \in Rows, DispatchEnds(q) PROVE Goal
  BY <1>4 DEF DispatchEnds, TypeOK
<1>5. CASE DeleteWork
  BY <1>5 DEF DeleteWork
<1>6. CASE UNCHANGED refs
  BY <1>6
<1>7. ASSUME NEW c \in Clients, Request(c) PROVE UNCHANGED refs
  BY <1>7 DEF Request, Delete, ProbeRequest, Bind, Create, Patch, Sync, Publish
<1>8. ASSUME NEW c \in Clients, Step(c) PROVE Goal
  BY <1>1, <1>3, <1>6, <1>8
  DEF Step, UpsertDone, DeleteDone, DeleteRow, SyncListed, SyncSelect, SyncStale, SyncDone,
      ProbeRequestDone, PublishMount, PublishOne
<1>9. (\E q \in Rows : ProbeOne(q)) \/ ProbeOnce \/ Restart \/ UNCHANGED vars => UNCHANGED refs
  BY DEF ProbeOne, ProbeOnce, Restart, vars
<1> QED
  BY <1>2, <1>4, <1>5, <1>6, <1>7, <1>8, <1>9 DEF Next

\* update_push_state: a mount that is 'pushed' stays so until the DevWork is
\* deleted, whatever publishers and workers report late.
THEOREM PushedFinal == Spec => PushedIsFinal
<1>1. TypeOK /\ Aimed /\ [Next]_vars
          => [\A r \in Rows : refs[r] = "pushed" => refs'[r] \in {"pushed", "deleted"}]_refs
  BY PushStates
<1> QED
  BY <1>1, TypeCorrect, PTL DEF Spec, PushedIsFinal

LEMMA RemoteGrows == ASSUME [Next]_vars PROVE remote \subseteq remote'
<1>1. ASSUME NEW c \in Clients, Request(c) PROVE UNCHANGED remote
  BY <1>1 DEF Request, Delete, ProbeRequest, Bind, Create, Patch, Sync, Publish
<1>2. ASSUME NEW c \in Clients, Step(c) PROVE remote \subseteq remote'
  BY <1>2 DEF Step, UpsertDone, DeleteDone, DeleteRow, SyncListed, SyncSelect, SyncStale,
              SyncDone, ProbeRequestDone, BindDone, RecordPush, PublishMount, PublishOne
<1> QED
  BY <1>1, <1>2
  DEF Next, ProbeOne, DispatchEnds, UpdateRepoPushState, ProbeOnce, DeleteWork, Restart, vars

LEMMA AckedKept ==
    ASSUME TypeOK, Aimed, AckedIsOnRemote, [Next]_vars
    PROVE  AckedIsOnRemote'
<1> SUFFICES ASSUME NEW d \in Clients, calls'[d].op = "pushed" PROVE calls'[d].row \in remote'
  BY DEF AckedIsOnRemote, Row
<1>0. calls[d].op = "pushed" => calls[d].row \in remote'
  BY RemoteGrows DEF AckedIsOnRemote, Row
<1>1. ASSUME NEW c \in Clients, NEW op \in {"upsert", "delete", "probe", "bind"},
             NEW r \in Rows \cup {None}, NEW u \in Urls \cup {None}, Ask(c, op, r, u)
      PROVE  calls'[d].row \in remote'
  BY <1>0, <1>1, AskType
<1>2. ASSUME NEW c \in Clients, Leave(c) PROVE calls'[d].row \in remote'
  BY <1>0, <1>2 DEF Leave, NoCall, TypeOK
<1>3. ASSUME NEW c \in Clients, Request(c) PROVE calls'[d].row \in remote'
  <2>1. CASE Publish(c)
    BY <1>0, <2>1 DEF Publish, NoCall, TypeOK
  <2>2. ASSUME NEW r \in Rows, ProbeRequest(c, r) PROVE calls'[d].row \in remote'
    <3>1. table[r].url \in Urls
      BY <2>2 DEF ProbeRequest, There, TypeOK, RowSet
    <3> QED
      BY <1>1, <2>2, <3>1 DEF ProbeRequest
  <2>3. CASE Sync(c)
    BY <1>0, <2>3 DEF Sync, NoCall, TypeOK
  <2> QED
    BY <1>1, <1>3, <2>1, <2>2, <2>3 DEF Request, Delete, Bind, Create, Patch
<1>4. ASSUME NEW c \in Clients, RecordPush(c) PROVE calls'[d].row \in remote'
  BY <1>0, <1>4 DEF RecordPush, NoCall, TypeOK, CallSet
<1>5. ASSUME NEW c \in Clients, NEW r \in Rows, PublishMount(c, r)
      PROVE  calls'[d].row \in remote'
  BY <1>0, <1>5 DEF PublishMount, PublishOne, TypeOK, CallSet
<1>6. CASE Restart
  BY <1>6 DEF Restart, NoCall
<1>7. CASE UNCHANGED calls
  BY <1>0, <1>7
<1>9. ASSUME NEW c \in Clients, NEW r \in Rows,
             SyncListed(c, r) \/ SyncStale(c, r)
      PROVE  calls'[d].row \in remote'
  BY <1>0, <1>9 DEF SyncListed, SyncStale, Served, At, TypeOK, CallSet
<1>8. ASSUME NEW c \in Clients, Step(c) PROVE calls'[d].row \in remote'
  <2>1. CASE SyncSelect(c)
    BY <1>0, <2>1 DEF SyncSelect, TypeOK, CallSet
  <2> QED
    BY <1>2, <1>4, <1>5, <1>8, <1>9, <2>1
    DEF Step, UpsertDone, DeleteDone, DeleteRow, SyncDone, ProbeRequestDone, BindDone
<1> QED
  BY <1>3, <1>6, <1>7, <1>8
  DEF Next, ProbeOne, DispatchEnds, UpdateRepoPushState, ProbeOnce, DeleteWork, vars

\* DevWorkPublisher, update_push_state: what a mount reports as pushed is on
\* the remote, with any number of publishers, late reports and restarts.
THEOREM PushedOnRemote == Spec => []PushedIsOnRemote
<1> DEFINE Inv == PushedIsOnRemote /\ AckedIsOnRemote
<1>1. Init => Inv
  BY DEF Init, PushedIsOnRemote, AckedIsOnRemote, NoCall
<1>2. TypeOK /\ Aimed /\ Inv /\ [Next]_vars => Inv'
  <2> SUFFICES ASSUME TypeOK, Aimed, Inv, [Next]_vars PROVE Inv'
    OBVIOUS
  <2>1. ASSUME NEW r \in Rows, refs'[r] = "pushed" PROVE r \in remote'
    <3>1. CASE Writes(r, "pushed")
      BY <3>1, RemoteGrows DEF Writes, AckedIsOnRemote, UpdateRepoPushState
    <3>2. CASE refs[r] = "pushed"
      BY <3>2, RemoteGrows DEF PushedIsOnRemote
    <3> QED
      BY <2>1, <3>1, <3>2, PushStates
  <2> QED
    BY <2>1, AckedKept DEF PushedIsOnRemote
<1> QED
  BY <1>1, <1>2, TypeCorrect, PTL DEF Spec
=============================================================================
