----------------------- MODULE WorkspaceFiles_proofs -----------------------
(***************************************************************************)
(* Theorems about WorkspaceFiles, for every set of files, contents,        *)
(* clients and hosts and every bound on the events.                        *)
(***************************************************************************)
EXTENDS WorkspaceFiles, TLAPS

(* What a run has left to post is on its host.                             *)
PostsWhatIsThere ==
    \A k \in Hosts : In(k, "post") => \A p \in Run(k).todo : tree[k][p] # None

TypeInv == TypeOK /\ PostsWhatIsThere

LEMMA InitType == Init => TypeInv
BY WorkspaceFilesAssumption
DEF Init, TypeInv, TypeOK, Aimed, PostsWhatIsThere, Nothing, NoCall, NoRun, Content, CallSet,
    RunSet, CallPcs, In, Run, Paths

(* How a request starts, goes on and ends.                                 *)

LEMMA AskType ==
    ASSUME TypeInv, NEW c \in Callers, NEW pc \in CallPcs \ {"stat", "put", "upsert", "cite"},
           NEW p \in Paths, NEW h \in Content, NEW g \in BOOLEAN, NEW cas \in Content \cup {NotSet},
           Ask(c, pc, p, h, g, cas)
    PROVE  calls' \in [Callers -> CallSet] /\ Aimed'
BY DEF TypeInv, TypeOK, Aimed, Ask, CallSet

LEMMA AskWriteType ==
    ASSUME TypeInv, NEW c \in Callers, NEW pc \in {"stat", "put", "upsert"},
           NEW p \in Paths, NEW h \in Hashes, NEW g \in BOOLEAN, NEW cas \in Content \cup {NotSet},
           Ask(c, pc, p, h, g, cas)
    PROVE  calls' \in [Callers -> CallSet] /\ Aimed'
BY DEF TypeInv, TypeOK, Aimed, Ask, CallSet, CallPcs, Content

LEMMA AskCiteType ==
    ASSUME TypeInv, NEW c \in Callers, NEW p \in Paths, Ask(c, "cite", p, None, FALSE, NotSet)
    PROVE  calls' \in [Callers -> CallSet] /\ Aimed'
BY DEF TypeInv, TypeOK, Aimed, Ask, CallSet, CallPcs, Content, Paths

LEMMA EnterType ==
    ASSUME TypeInv, NEW c \in Callers, NEW pc \in CallPcs \ {"stat", "cite"}, Enter(c, pc),
           pc \in {"put", "upsert"} => calls[c].pc \in {"put", "upsert", "stat"}
    PROVE  calls' \in [Callers -> CallSet] /\ Aimed'
<1>0. calls[c] \in CallSet
  BY DEF TypeInv, TypeOK
<1>1. [calls[c] EXCEPT !.pc = pc] \in CallSet
  BY <1>0 DEF CallSet
<1>2. calls' = [calls EXCEPT ![c] = [calls[c] EXCEPT !.pc = pc]]
  BY DEF Enter
<1>3. calls' \in [Callers -> CallSet]
  BY <1>1, <1>2 DEF TypeInv, TypeOK
<1>4. /\ calls'[c].pc = pc /\ calls'[c].path = calls[c].path /\ calls'[c].hash = calls[c].hash
      /\ \A d \in Callers \ {c} : calls'[d] = calls[d]
  BY <1>2 DEF TypeInv, TypeOK, CallSet
<1>5. Aimed'
  BY <1>4 DEF TypeInv, TypeOK, Aimed
<1> QED
  BY <1>3, <1>5

LEMMA LeaveType ==
    ASSUME TypeInv, NEW c \in Callers, Leave(c)
    PROVE  calls' \in [Callers -> CallSet] /\ Aimed'
BY DEF TypeInv, TypeOK, Aimed, Leave, NoCall, CallSet, CallPcs, Content

LEMMA ReplyType ==
    ASSUME TypeInv, NEW c \in Callers, NEW pc \in {"accepted", "refused"}, Reply(c, pc)
    PROVE  calls' \in [Callers -> CallSet] /\ Aimed'
BY EnterType, LeaveType DEF Reply, CallPcs

----------------------------------------------------------------------------
(* What every step keeps.                                                  *)

LEMMA StoreTypes ==
    ASSUME TypeInv, NEW p, NEW h \in Content
    PROVE  /\ StorePut(p, h) => /\ store' \in [Paths -> Content]
                                /\ ws' \in [row : {"none", "active", "archived"}, dir : BOOLEAN]
           /\ StoreDelete(p) => store' \in [Paths -> Content]
           /\ \A row \in {"none", "active", "archived"} : SafeRmtree(row) =>
                  /\ store' \in [Paths -> Content]
                  /\ ws' \in [row : {"none", "active", "archived"}, dir : BOOLEAN]
<1>0. /\ store \in [Paths -> Content]
      /\ ws \in [row : {"none", "active", "archived"}, dir : BOOLEAN] /\ oss \in BOOLEAN
  BY DEF TypeInv, TypeOK
<1>1. ASSUME StorePut(p, h)
      PROVE  /\ store' \in [Paths -> Content]
             /\ ws' \in [row : {"none", "active", "archived"}, dir : BOOLEAN]
  <2>1. store' \in [Paths -> Content]
    BY <1>0, <1>1 DEF StorePut
  <2>2. PICK d \in BOOLEAN : ws' = [ws EXCEPT !.dir = d]
    BY <1>0, <1>1, Zenon DEF StorePut
  <2> QED
    BY <1>0, <2>1, <2>2
<1>2. StoreDelete(p) => store' \in [Paths -> Content]
  BY <1>0 DEF StoreDelete, Content
<1>3. ASSUME NEW row \in {"none", "active", "archived"}, SafeRmtree(row)
      PROVE  /\ store' \in [Paths -> Content]
             /\ ws' \in [row : {"none", "active", "archived"}, dir : BOOLEAN]
  BY <1>0, <1>3 DEF SafeRmtree, Nothing, Content
<1> QED
  BY <1>1, <1>2, <1>3

(* The part of TypeInv that a step of the control plane can disturb.       *)
LEMMA ServerFrame ==
    ASSUME TypeInv, UNCHANGED <<oss, tree, runs>>, events' \in 0..MaxEvents,
           store' \in [Paths -> Content], index' \in [Paths -> Content],
           protected' \subseteq Paths, refs' \subseteq Paths,
           ws' \in [row : {"none", "active", "archived"}, dir : BOOLEAN],
           calls' \in [Callers -> CallSet], Aimed'
    PROVE  TypeInv'
BY DEF TypeInv, TypeOK, PostsWhatIsThere, In, Run

LEMMA Counted == ASSUME TypeInv, Event \/ UNCHANGED events PROVE events' \in 0..MaxEvents
BY WorkspaceFilesAssumption DEF TypeInv, TypeOK, Event

LEMMA RegistryType == ASSUME TypeInv, NEW c \in Callers, Registry(c) PROVE TypeInv'
<1> USE DEF server, remote
<1>0. /\ calls[c] \in CallSet /\ store \in [Paths -> Content] /\ index \in [Paths -> Content]
      /\ protected \subseteq Paths /\ refs \subseteq Paths
      /\ ws \in [row : {"none", "active", "archived"}, dir : BOOLEAN]
  BY DEF TypeInv, TypeOK
<1>1. CASE RegisterPut(c)
  <2>1. calls[c].pc = "put" /\ calls[c].hash \in Content
    BY <1>0, <1>1 DEF RegisterPut, At, CallSet
  <2>2. calls' \in [Callers -> CallSet] /\ Aimed'
    BY <1>1, <2>1, EnterType, ReplyType DEF RegisterPut, CallPcs
  <2>3. store' \in [Paths -> Content]
        /\ ws' \in [row : {"none", "active", "archived"}, dir : BOOLEAN]
    BY <1>0, <1>1, <2>1, StoreTypes DEF RegisterPut
  <2> QED
    BY <1>0, <1>1, <2>2, <2>3, ServerFrame, Counted DEF RegisterPut
<1>2. CASE Upsert(c)
  <2>1. calls' \in [Callers -> CallSet] /\ Aimed'
    BY <1>2, ReplyType DEF Upsert
  <2>2. index' \in [Paths -> Content] /\ protected' \subseteq Paths
    <3>1. Path(c) \in Paths /\ calls[c].hash \in Content
      BY <1>0, <1>2 DEF Upsert, At, Path, TypeInv, TypeOK, Aimed, CallSet
    <3> QED
      BY <1>0, <1>2, <3>1 DEF Upsert
  <2> QED
    BY <1>0, <1>2, <2>1, <2>2, ServerFrame, Counted DEF Upsert
<1>4. CASE RegistryDelete(c)
  <2>1. calls' \in [Callers -> CallSet] /\ Aimed'
    BY <1>4, EnterType DEF RegistryDelete, CallPcs
  <2>2. store' \in [Paths -> Content]
    BY <1>4, StoreTypes DEF RegistryDelete, Content
  <2> QED
    BY <1>0, <1>4, <2>1, <2>2, ServerFrame, Counted DEF RegistryDelete
<1>5. CASE DeleteRow(c)
  <2>1. index' \in [Paths -> Content] /\ protected' \subseteq Paths
    BY <1>0, <1>5 DEF DeleteRow, Content
  <2> QED
    BY <1>0, <1>5, <2>1, LeaveType, ServerFrame, Counted DEF DeleteRow
<1> QED
  BY <1>1, <1>2, <1>4, <1>5 DEF Registry

LEMMA RequestType == ASSUME TypeInv, NEW c \in Clients, Request(c) PROVE TypeInv'
<1> USE DEF server, remote
<1>0. /\ store \in [Paths -> Content] /\ index \in [Paths -> Content]
      /\ protected \subseteq Paths /\ refs \subseteq Paths
      /\ ws \in [row : {"none", "active", "archived"}, dir : BOOLEAN]
      /\ c \in Callers /\ Files \subseteq Paths /\ Hashes \subseteq Content
  BY DEF TypeInv, TypeOK, Callers, Paths, Content
<1>1. ASSUME NEW p \in Paths, IndexExisting(c, p) PROVE TypeInv'
  <2>1. store[p] \in Hashes
    BY <1>0, <1>1 DEF IndexExisting, Content
  <2>2. calls' \in [Callers -> CallSet] /\ Aimed'
    BY <1>0, <1>1, <2>1, AskWriteType DEF IndexExisting
  <2> QED
    BY <1>0, <1>1, <2>2, ServerFrame, Counted DEF IndexExisting
<1>2. ASSUME NEW p \in Files, NEW h \in Hashes, UploadWorkspaceFile(c, p, h) PROVE TypeInv'
  <2>1. calls' \in [Callers -> CallSet] /\ Aimed'
    BY <1>0, <1>2, AskWriteType DEF UploadWorkspaceFile
  <2> QED
    BY <1>0, <1>2, <2>1, ServerFrame, Counted DEF UploadWorkspaceFile
<1>3. ASSUME NEW p \in Paths, NEW h \in Hashes, NEW g \in BOOLEAN, NEW cas \in Content,
             WriteWorkspaceFile(c, p, h, g, cas)
      PROVE  TypeInv'
  <2>1. calls' \in [Callers -> CallSet] /\ Aimed'
    BY <1>0, <1>3, AskWriteType DEF WriteWorkspaceFile
  <2> QED
    BY <1>0, <1>3, <2>1, ServerFrame, Counted DEF WriteWorkspaceFile
<1>4. ASSUME NEW p \in Paths, DeleteWorkspaceFile(c, p) PROVE TypeInv'
  <2>1. calls' \in [Callers -> CallSet] /\ Aimed'
    BY <1>0, <1>4, AskType DEF DeleteWorkspaceFile, CallPcs, Content
  <2> QED
    BY <1>0, <1>4, <2>1, ServerFrame, Counted DEF DeleteWorkspaceFile
<1>5. ASSUME NEW p \in Paths, ValidateWorkspaceFileRefs(c, p) PROVE TypeInv'
  <2>1. calls' \in [Callers -> CallSet] /\ Aimed'
    BY <1>0, <1>5, AskCiteType DEF ValidateWorkspaceFileRefs
  <2> QED
    BY <1>0, <1>5, <2>1, ServerFrame, Counted DEF ValidateWorkspaceFileRefs
<1>6. CASE InsertWorkspaceFileRefs(c)
  <2>1. Path(c) \in Paths
    BY <1>0, <1>6 DEF InsertWorkspaceFileRefs, At, Path, TypeInv, TypeOK, Aimed
  <2>2. calls' \in [Callers -> CallSet] /\ Aimed'
    BY <1>0, <1>6, LeaveType DEF InsertWorkspaceFileRefs
  <2> QED
    BY <1>0, <1>6, <2>1, <2>2, ServerFrame, Counted DEF InsertWorkspaceFileRefs
<1> QED
  BY <1>1, <1>2, <1>3, <1>4, <1>5, <1>6 DEF Request

LEMMA ManagerType == ASSUME TypeInv, NEW c \in Clients, Manager(c) PROVE TypeInv'
<1> USE DEF server, remote
<1> DEFINE Ws == [row : {"none", "active", "archived"}, dir : BOOLEAN]
<1>0. /\ store \in [Paths -> Content] /\ index \in [Paths -> Content]
      /\ protected \subseteq Paths /\ refs \subseteq Paths
      /\ ws \in Ws /\ calls \in [Callers -> CallSet] /\ Aimed
      /\ c \in Callers /\ Md \in Paths /\ Hashes \subseteq Content
  BY DEF TypeInv, TypeOK, Callers, Paths, Content
<1>1. CASE CreateWithScaffold(c)
  <2>1. calls' \in [Callers -> CallSet] /\ Aimed'
    BY <1>0, <1>1, EnterType DEF CreateWithScaffold, CallPcs
  <2> QED
    BY <1>0, <1>1, <2>1, ServerFrame, Counted DEF CreateWithScaffold
<1>2. ASSUME NEW h \in Hashes, CreateMkdir(c, h) PROVE TypeInv'
  <2>1. calls' \in [Callers -> CallSet] /\ Aimed'
    BY <1>0, <1>2, EnterType, LeaveType DEF CreateMkdir, CallPcs
  <2>2. store' \in [Paths -> Content] /\ ws' \in Ws
    BY <1>0, <1>2, StoreTypes DEF CreateMkdir
  <2> QED
    BY <1>0, <1>2, <2>1, <2>2, ServerFrame, Counted DEF CreateMkdir
<1>3. CASE CreateInsert(c)
  <2>1. calls' \in [Callers -> CallSet] /\ Aimed'
    BY <1>0, <1>3, EnterType, LeaveType DEF CreateInsert, CallPcs
  <2>2. store' \in [Paths -> Content] /\ ws' \in Ws
    BY <1>0, <1>3, StoreTypes DEF CreateInsert
  <2> QED
    BY <1>0, <1>3, <2>1, <2>2, ServerFrame, Counted DEF CreateInsert
<1>4. CASE CreateIndex(c)
  <2>1. store[Md] # None => store[Md] \in Hashes
    BY <1>0 DEF Content
  <2>2. calls' \in [Callers -> CallSet] /\ Aimed'
    BY <1>0, <1>4, <2>1, AskWriteType, LeaveType DEF CreateIndex
  <2>3. store' \in [Paths -> Content] /\ ws' \in Ws
    BY <1>0, <1>4, StoreTypes DEF CreateIndex, RolledBack
  <2> QED
    BY <1>0, <1>4, <2>2, <2>3, ServerFrame, Counted DEF CreateIndex
<1>5. ASSUME NEW h \in Hashes, RegenerateWorkspaceMd(c, h) PROVE TypeInv'
  <2>1. calls' \in [Callers -> CallSet] /\ Aimed'
    BY <1>0, <1>5, AskWriteType DEF RegenerateWorkspaceMd
  <2> QED
    BY <1>0, <1>5, <2>1, ServerFrame, Counted DEF RegenerateWorkspaceMd
<1>6. ASSUME NEW h \in Hashes, ArchiveWithScaffold(c, h) PROVE TypeInv'
  <2>1. calls' \in [Callers -> CallSet] /\ Aimed'
    BY <1>0, <1>6, AskWriteType DEF ArchiveWithScaffold
  <2>2. ws' \in Ws
    BY <1>0, <1>6 DEF ArchiveWithScaffold
  <2> QED
    BY <1>0, <1>6, <2>1, <2>2, ServerFrame, Counted DEF ArchiveWithScaffold
<1>7. CASE ArchiveRewrite(c)
  <2>1. calls' \in [Callers -> CallSet] /\ Aimed'
    BY <1>0, <1>7, EnterType, LeaveType DEF ArchiveRewrite, At, CallPcs
  <2> QED
    BY <1>0, <1>7, <2>1, ServerFrame, Counted DEF ArchiveRewrite
<1>8. CASE Reconcile(c)
  <2>1. calls' \in [Callers -> CallSet] /\ Aimed'
    BY <1>0, <1>8, EnterType DEF Reconcile, CallPcs
  <2> QED
    BY <1>0, <1>8, <2>1, ServerFrame, Counted DEF Reconcile
<1>9. CASE ReconcileAdopt(c) \/ ReconcileRetire(c)
  <2>1. calls' \in [Callers -> CallSet] /\ Aimed'
    BY <1>0, <1>9, LeaveType DEF ReconcileAdopt, ReconcileRetire
  <2>2. ws' \in Ws
    BY <1>0, <1>9 DEF ReconcileAdopt, ReconcileRetire
  <2> QED
    BY <1>0, <1>9, <2>1, <2>2, ServerFrame, Counted DEF ReconcileAdopt, ReconcileRetire
<1> QED
  BY <1>1, <1>2, <1>3, <1>4, <1>5, <1>6, <1>7, <1>8, <1>9 DEF Manager

LEMMA WorkerType == ASSUME TypeInv, NEW k \in Hosts, Worker(k) PROVE TypeInv'
<1> USE DEF server, remote
<1>0. /\ oss \in BOOLEAN /\ ws \in [row : {"none", "active", "archived"}, dir : BOOLEAN]
      /\ store \in [Paths -> Content] /\ index \in [Paths -> Content]
      /\ protected \subseteq Paths /\ refs \subseteq Paths
      /\ calls \in [Callers -> CallSet] /\ Aimed /\ tree \in [Hosts -> [Paths -> Content]]
      /\ runs \in [Hosts -> RunSet] /\ runs[k] \in RunSet /\ tree[k] \in [Paths -> Content]
      /\ PostsWhatIsThere
      /\ k \in Callers /\ NoRun \in RunSet
  BY DEF TypeInv, TypeOK, Callers, NoRun, RunSet, Nothing, Content
<1>1. ASSUME events' \in 0..MaxEvents, UNCHANGED <<oss, server>>,
             calls' \in [Callers -> CallSet], Aimed', tree' \in [Hosts -> [Paths -> Content]],
             runs' \in [Hosts -> RunSet], PostsWhatIsThere'
      PROVE  TypeInv'
  BY <1>0, <1>1 DEF TypeInv, TypeOK
<1>2. UNCHANGED calls => calls' \in [Callers -> CallSet] /\ Aimed'
  BY <1>0 DEF Aimed
<1>3. ASSUME Exit(k), UNCHANGED tree PROVE runs' \in [Hosts -> RunSet] /\ PostsWhatIsThere'
  BY <1>0, <1>3 DEF Exit, PostsWhatIsThere, In, Run, NoRun
<1>4. ASSUME NEW run \in RunSet, runs' = [runs EXCEPT ![k] = run], UNCHANGED tree,
             run.pc = "post" => \A p \in run.todo : tree[k][p] # None
      PROVE  runs' \in [Hosts -> RunSet] /\ PostsWhatIsThere'
  BY <1>0, <1>4 DEF PostsWhatIsThere, In, Run
<1>5. CASE GetFilesIndex(k)
  <2> DEFINE run == [NoRun EXCEPT !.pc = "scan", !.base = index, !.kept = protected]
  <2>1. run \in RunSet
    BY <1>0 DEF RunSet
  <2>2. run.pc # "post"
    BY DEF NoRun
  <2> QED
    BY <1>0, <1>1, <1>2, <1>4, <1>5, <2>1, <2>2, Counted DEF GetFilesIndex
<1>6. CASE RecoveryScan(k)
  <2> DEFINE run == [Run(k) EXCEPT !.pc = "pull", !.start = tree[k], !.todo = DbOnlyMissing(k)]
  <2>1. run \in RunSet /\ run.pc # "post"
    BY <1>0 DEF RunSet, Run, DbOnlyMissing, Indexed
  <2>2. Exit(k) \/ runs' = [runs EXCEPT ![k] = run]
    BY <1>0, <1>6 DEF RecoveryScan, Run
  <2> QED
    BY <1>0, <1>1, <1>2, <1>3, <1>4, <1>6, <2>1, <2>2, Counted DEF RecoveryScan
<1>7. CASE RunAcpx(k)
  <2> DEFINE run == [Run(k) EXCEPT !.pc = "acpx", !.start = tree[k]]
  <2>1. run \in RunSet /\ run.pc # "post"
    BY <1>0 DEF RunSet, Run
  <2>2. Exit(k) \/ runs' = [runs EXCEPT ![k] = run]
    BY <1>0, <1>7 DEF RunAcpx, Run
  <2> QED
    BY <1>0, <1>1, <1>2, <1>3, <1>4, <1>7, <2>1, <2>2, Counted DEF RunAcpx
<1>8. CASE AcpxExits(k)
  <2> DEFINE todo == {p \in Present(k) : tree[k][p] # PreIndex(k)[p]}
             run == [Run(k) EXCEPT !.pc = "post", !.todo = todo]
  <2>1. run \in RunSet /\ \A p \in run.todo : tree[k][p] # None
    BY <1>0 DEF RunSet, Run, Present
  <2>2. runs' = [runs EXCEPT ![k] = run]
    BY <1>0, <1>8 DEF AcpxExits, Run
  <2> QED
    BY <1>0, <1>1, <1>2, <1>4, <1>8, <2>1, <2>2, Counted DEF AcpxExits
<1>9. CASE PostAnswered(k)
  <2>1. PICK failed \in BOOLEAN :
            runs' = [runs EXCEPT ![k].todo = @ \ {Path(k)}, ![k].failed = failed]
    BY <1>0, <1>9, Zenon DEF PostAnswered, Run, RunSet
  <2> DEFINE run == [Run(k) EXCEPT !.todo = @ \ {Path(k)}, !.failed = failed]
  <2>2. run \in RunSet /\ (run.pc = "post" => \A p \in run.todo : tree[k][p] # None)
    BY <1>0 DEF RunSet, Run, PostsWhatIsThere, In
  <2>3. runs' = [runs EXCEPT ![k] = run]
    BY <1>0, <2>1 DEF Run
  <2> QED
    BY <1>0, <1>1, <1>4, <1>9, <2>2, <2>3, LeaveType, Counted DEF PostAnswered
<1>10. CASE RunExits(k) \/ WorkerDies(k)
  BY <1>0, <1>1, <1>2, <1>3, <1>10, Counted DEF RunExits, WorkerDies
<1>11. CASE Orphaned(k)
  BY <1>0, <1>1, <1>11, LeaveType, Counted DEF Orphaned, PostsWhatIsThere, In, Run
<1>12. ASSUME NEW p \in Paths, Materialize(k, p) PROVE TypeInv'
  <2>1. tree' \in [Hosts -> [Paths -> Content]]
    BY <1>0, <1>12 DEF Materialize
  <2>2. PICK failed \in BOOLEAN :
            runs' = [runs EXCEPT ![k].todo = @ \ {p}, ![k].failed = failed]
    BY <1>0, <1>12, Zenon DEF Materialize, Run, RunSet
  <2>3. runs' \in [Hosts -> RunSet]
    BY <1>0, <2>2 DEF RunSet
  <2>4. runs'[k].pc = "pull" /\ \A j \in Hosts \ {k} : runs'[j] = runs[j] /\ tree'[j] = tree[j]
    BY <1>0, <1>12, <2>2 DEF Materialize, In, Run, RunSet
  <2>5. PostsWhatIsThere'
    BY <1>0, <2>4 DEF PostsWhatIsThere, In, Run
  <2> QED
    BY <1>0, <1>1, <1>2, <1>12, <2>1, <2>3, <2>5, Counted DEF Materialize
<1>13. ASSUME NEW p \in Paths, PostDiff(k, p) PROVE TypeInv'
  <2>1. tree[k][p] \in Hashes
    BY <1>0, <1>13 DEF PostDiff, PostsWhatIsThere, Content
  <2>2. PreIndex(k)[p] \in Content
    BY <1>0 DEF PreIndex, Run, RunSet
  <2>3. CASE Active
    <3>0. KindGuarded(k, p) \in BOOLEAN
      BY DEF KindGuarded
    <3>1. calls' \in [Callers -> CallSet] /\ Aimed'
      BY <1>0, <1>13, <2>1, <2>2, <2>3, <3>0, AskWriteType DEF PostDiff
    <3> QED
      BY <1>0, <1>1, <1>13, <2>3, <3>1, Counted DEF PostDiff, PostsWhatIsThere, In, Run
  <2>4. CASE ~Active
    <3> DEFINE run == [Run(k) EXCEPT !.todo = @ \ {p}, !.failed = TRUE]
    <3>1. run \in RunSet /\ (run.pc = "post" => \A q \in run.todo : tree[k][q] # None)
      BY <1>0 DEF RunSet, Run, PostsWhatIsThere, In
    <3>2. runs' = [runs EXCEPT ![k] = run]
      BY <1>0, <1>13, <2>4 DEF PostDiff, Run
    <3> QED
      BY <1>0, <1>1, <1>2, <1>4, <1>13, <2>4, <3>1, <3>2, Counted DEF PostDiff
  <2> QED
    BY <2>3, <2>4
<1>14. ASSUME NEW p \in Paths, NEW h \in Content, AcpxEdits(k, p, h) \/ OperatorEdits(k, p, h)
       PROVE  TypeInv'
  <2>1. tree' = [tree EXCEPT ![k][p] = h] /\ ~In(k, "post")
    BY <1>14 DEF AcpxEdits, OperatorEdits, In, Run
  <2>2. PICK edited \in SUBSET Paths : runs' = [runs EXCEPT ![k].edited = edited]
    <3>1. CASE AcpxEdits(k, p, h)
      <4>1. runs[k].edited \in SUBSET Paths /\ runs' = [runs EXCEPT ![k].edited = runs[k].edited]
        BY <1>0, <3>1 DEF AcpxEdits, RunSet
      <4> QED
        BY <4>1
    <3>2. CASE OperatorEdits(k, p, h)
      <4>1. (IF In(k, "pull") THEN runs[k].edited \cup {p} ELSE runs[k].edited) \in SUBSET Paths
        BY <1>0 DEF RunSet
      <4> QED
        BY <3>2, <4>1, Zenon DEF OperatorEdits
    <3> QED
      BY <1>14, <3>1, <3>2
  <2>3. tree' \in [Hosts -> [Paths -> Content]] /\ runs' \in [Hosts -> RunSet]
    BY <1>0, <2>1, <2>2 DEF RunSet
  <2>4. PostsWhatIsThere'
    <3>1. runs'[k].pc # "post" /\ \A j \in Hosts \ {k} : runs'[j] = runs[j] /\ tree'[j] = tree[j]
      BY <1>0, <2>1, <2>2 DEF In, Run, RunSet
    <3> QED
      BY <1>0, <3>1 DEF PostsWhatIsThere, In, Run
  <2> QED
    BY <1>0, <1>1, <1>2, <1>14, <2>3, <2>4, Counted DEF AcpxEdits, OperatorEdits
<1> QED
  BY <1>5, <1>6, <1>7, <1>8, <1>9, <1>10, <1>11, <1>12, <1>13, <1>14 DEF Worker

LEMMA OtherType ==
    ASSUME TypeInv,
           \/ \E p \in Paths : DeleteWorkspaceFileRefs(p)
           \/ \E p \in Paths, h \in Content : SessionWrites(p, h)
           \/ Restart
    PROVE  TypeInv'
<1> USE DEF server, remote
<1>1. ASSUME NEW p \in Paths, DeleteWorkspaceFileRefs(p) PROVE TypeInv'
  BY <1>1, Counted DEF DeleteWorkspaceFileRefs, TypeInv, TypeOK, Aimed, PostsWhatIsThere, In, Run
<1>2. ASSUME NEW p \in Paths, NEW h \in Content, SessionWrites(p, h) PROVE TypeInv'
  BY <1>2, Counted DEF SessionWrites, TypeInv, TypeOK, Aimed, PostsWhatIsThere, In, Run
<1>3. CASE Restart
  <2>1. NoCall \in CallSet /\ NoRun \in RunSet
    BY DEF NoCall, CallSet, CallPcs, NoRun, RunSet, Nothing, Content
  <2>2. calls' \in [Callers -> CallSet] /\ Aimed'
    BY <1>3, <2>1 DEF Restart, Aimed, NoCall
  <2>3. runs' \in [Hosts -> RunSet] /\ PostsWhatIsThere'
    BY <1>3, <2>1 DEF Restart, TypeInv, TypeOK, PostsWhatIsThere, In, Run, NoRun
  <2> QED
    BY <1>3, <2>2, <2>3, Counted DEF Restart, TypeInv, TypeOK
<1> QED
  BY <1>1, <1>2, <1>3

\* Requests, worker runs, edits and restarts leave bytes, rows, references,
\* copies and runs of their types, and no run posts what its host lacks.
THEOREM TypeCorrect == Spec => []TypeInv
<1>1. TypeInv /\ [Next]_vars => TypeInv'
  <2> SUFFICES ASSUME TypeInv, [Next]_vars PROVE TypeInv'
    OBVIOUS
  <2>1. CASE Next
    BY <2>1, RegistryType, RequestType, ManagerType, WorkerType, OtherType DEF Next
  <2>2. CASE UNCHANGED vars
    BY <2>2 DEF vars, server, remote, TypeInv, TypeOK, Aimed, PostsWhatIsThere, In, Run
  <2> QED
    BY <2>1, <2>2
<1> QED
  BY InitType, <1>1, PTL DEF Spec

(* The types alone: what the requests of the control plane, the workers     *)
(* and the restarts leave in the store, the index and the trees is typed.   *)
THEOREM TypesHold == Spec => []TypeOK
BY TypeCorrect, PTL DEF TypeInv

----------------------------------------------------------------------------
(* Worker runs.                                                            *)

(* While a run pulls: what is left the scan has not found, and if nothing  *)
(* failed the rest is as the index says, but for what others have edited.  *)
Pulls(k) ==
    In(k, "pull") =>
        /\ \A p \in Run(k).todo : p \in Indexed(k) /\ Run(k).start[p] = None
        /\ Run(k).failed \/ \A p \in (Indexed(k) \ Run(k).todo) \ Run(k).edited :
                                 tree[k][p] = Run(k).base[p]

Starts(k) ==
    Run(k).pc \in {"acpx", "post"} =>
        \A p \in Indexed(k) \ Run(k).edited : Run(k).start[p] = Run(k).base[p]

(* A POST of a run carries the content of pre_index as its predicate.      *)
Pending(k) == calls[k].pc \in {"put", "upsert"}
Posts(k) ==
    In(k, "post") /\ Pending(k) =>
        calls[k].path \in Paths /\ calls[k].cas = PreIndex(k)[calls[k].path]

RunInv == \A k \in Hosts : Pulls(k) /\ Starts(k) /\ Posts(k)

(* Steps of the control plane, sessions and works.                         *)
ServerStep ==
    \/ \E c \in Callers : Registry(c)
    \/ \E c \in Clients : Request(c) \/ Manager(c)
    \/ \E p \in Paths : DeleteWorkspaceFileRefs(p)
    \/ \E p \in Paths, h \in Content : SessionWrites(p, h)

LEMMA ServerKeepsRuns ==
    ASSUME TypeInv, ServerStep
    PROVE  /\ UNCHANGED <<tree, runs>>
           /\ \A k \in Hosts :
                  calls'[k].pc \in {"put", "upsert"} =>
                      Pending(k) /\ calls'[k].path = calls[k].path /\ calls'[k].cas = calls[k].cas
<1> USE DEF remote
<1> DEFINE Goal == \A k \in Hosts :
                      calls'[k].pc \in {"put", "upsert"} =>
                          /\ Pending(k) /\ calls'[k].path = calls[k].path
                          /\ calls'[k].cas = calls[k].cas
<1>0. calls \in [Callers -> CallSet] /\ \A c \in Clients : c \in Callers /\ c \notin Hosts
  BY WorkspaceFilesAssumption DEF TypeInv, TypeOK, Callers
<1>1. ASSUME NEW c \in Callers, Registry(c) PROVE UNCHANGED <<tree, runs>> /\ Goal
  <2>1. CASE RegisterPut(c)
    BY <1>0, <2>1 DEF RegisterPut, At, Reply, Enter, Leave, NoCall, Pending, Callers, CallSet
  <2>2. CASE Upsert(c)
    BY <1>0, <2>2 DEF Upsert, At, Reply, Enter, Leave, NoCall, Pending, Callers, CallSet
  <2>3. CASE DeleteRow(c)
    BY <1>0, <2>3 DEF DeleteRow, Leave, NoCall, Pending, Callers
  <2>4. CASE RegistryDelete(c)
    BY <1>0, <2>4 DEF RegistryDelete, Enter, Pending, Callers, CallSet
  <2> QED
    BY <1>1, <2>1, <2>2, <2>3, <2>4 DEF Registry
<1>2. ASSUME NEW c \in Clients, \A d \in Callers \ {c} : calls'[d] = calls[d] PROVE Goal
  BY <1>0, <1>2 DEF Pending, Callers
<1>3. ASSUME NEW c \in Clients, NEW call, calls' = [calls EXCEPT ![c] = call]
      PROVE \A d \in Callers \ {c} : calls'[d] = calls[d]
  BY <1>0, <1>3
<1>4. ASSUME NEW c \in Clients, Request(c) PROVE UNCHANGED <<tree, runs>> /\ Goal
  <2>1. UNCHANGED <<tree, runs>>
    BY <1>4 DEF Request, IndexExisting, UploadWorkspaceFile, WriteWorkspaceFile,
                DeleteWorkspaceFile, ValidateWorkspaceFileRefs, InsertWorkspaceFileRefs
  <2>2. \E call : calls' = [calls EXCEPT ![c] = call]
    BY <1>4 DEF Request, IndexExisting, UploadWorkspaceFile, WriteWorkspaceFile,
                DeleteWorkspaceFile, ValidateWorkspaceFileRefs, InsertWorkspaceFileRefs, Ask, Leave
  <2> QED
    BY <1>2, <1>3, <2>1, <2>2
<1>5. ASSUME NEW c \in Clients, Manager(c) PROVE UNCHANGED <<tree, runs>> /\ Goal
  <2>1. UNCHANGED <<tree, runs>>
    BY <1>5 DEF Manager, CreateWithScaffold, CreateMkdir, CreateInsert, CreateIndex,
                RegenerateWorkspaceMd, ArchiveWithScaffold, ArchiveRewrite, Reconcile,
                ReconcileAdopt, ReconcileRetire
  <2>2. \A d \in Callers \ {c} : calls'[d] = calls[d]
    BY <1>0, <1>5 DEF Manager, CreateWithScaffold, CreateMkdir, CreateInsert, CreateIndex,
                RegenerateWorkspaceMd, ArchiveWithScaffold, ArchiveRewrite, Reconcile,
                ReconcileAdopt, ReconcileRetire, Ask, Enter, Leave
  <2> QED
    BY <1>2, <2>1, <2>2
<1>6. ASSUME UNCHANGED <<calls, tree, runs>> PROVE UNCHANGED <<tree, runs>> /\ Goal
  BY <1>6 DEF Pending
<1> QED
  BY <1>1, <1>4, <1>5, <1>6 DEF ServerStep, DeleteWorkspaceFileRefs, SessionWrites

(* A step of host k says nothing of the others.                            *)
LEMMA WorkersApart ==
    ASSUME TypeInv, NEW k \in Hosts, Worker(k), NEW j \in Hosts \ {k}
    PROVE  runs'[j] = runs[j] /\ tree'[j] = tree[j] /\ calls'[j] = calls[j]
<1> USE DEF server, remote
<1>0. /\ calls \in [Callers -> CallSet] /\ runs \in [Hosts -> RunSet]
      /\ tree \in [Hosts -> [Paths -> Content]] /\ j \in Callers
  BY DEF TypeInv, TypeOK, Callers
<1>1. runs'[j] = runs[j]
  <2>1. CASE UNCHANGED runs \/ \E run : runs' = [runs EXCEPT ![k] = run]
    BY <1>0, <2>1
  <2>2. ASSUME NEW p \in Paths, Materialize(k, p) \/ PostDiff(k, p) PROVE runs'[j] = runs[j]
    BY <1>0, <2>2 DEF Materialize, PostDiff
  <2>3. GetFilesIndex(k) \/ RunExits(k) \/ WorkerDies(k) \/ Orphaned(k) => runs'[j] = runs[j]
    BY <1>0 DEF GetFilesIndex, RunExits, WorkerDies, Orphaned, Exit
  <2>4. RecoveryScan(k) \/ RunAcpx(k) \/ AcpxExits(k) \/ PostAnswered(k) => runs'[j] = runs[j]
    BY <1>0 DEF RecoveryScan, RunAcpx, AcpxExits, PostAnswered, Exit
  <2>5. ASSUME NEW p \in Paths, NEW h \in Content, OperatorEdits(k, p, h)
        PROVE  runs'[j] = runs[j]
    BY <1>0, <2>5 DEF OperatorEdits
  <2> QED
    BY <2>1, <2>2, <2>3, <2>4, <2>5 DEF Worker, AcpxEdits
<1>2. tree'[j] = tree[j]
  BY <1>0 DEF Worker, GetFilesIndex, RecoveryScan, RunAcpx, AcpxExits, PostAnswered, RunExits,
              WorkerDies, Orphaned, Materialize, PostDiff, AcpxEdits, OperatorEdits
<1>3. calls'[j] = calls[j]
  BY <1>0 DEF Worker, GetFilesIndex, RecoveryScan, RunAcpx, AcpxExits, PostAnswered, RunExits,
              WorkerDies, Orphaned, Materialize, PostDiff, AcpxEdits, OperatorEdits, Ask, Leave
<1> QED
  BY <1>1, <1>2, <1>3

LEMMA RunKept ==
    ASSUME TypeInv, NEW k \in Hosts, Pulls(k), Starts(k), Posts(k), Worker(k)
    PROVE  Pulls(k)' /\ Starts(k)' /\ Posts(k)'
<1> USE DEF server, remote
<1>0. /\ calls \in [Callers -> CallSet] /\ calls[k] \in CallSet
      /\ tree \in [Hosts -> [Paths -> Content]] /\ tree[k] \in [Paths -> Content]
      /\ runs \in [Hosts -> RunSet] /\ runs[k] \in RunSet
      /\ k \in Callers /\ k \notin Clients
  BY WorkspaceFilesAssumption DEF TypeInv, TypeOK, Callers
<1>1. ASSUME Exit(k) PROVE Pulls(k)' /\ Starts(k)' /\ Posts(k)'
  BY <1>0, <1>1 DEF Exit, NoRun, Pulls, Starts, Posts, In, Run
<1>2. CASE GetFilesIndex(k)
  BY <1>0, <1>2 DEF GetFilesIndex, NoRun, Pulls, Starts, Posts, In, Run
<1>3. CASE RecoveryScan(k)
  <2>1. CASE HashMismatch(k) = {}
    <3>1. /\ runs'[k].pc = "pull" /\ runs'[k].base = runs[k].base
          /\ runs'[k].todo = DbOnlyMissing(k) /\ runs'[k].start = tree[k] /\ UNCHANGED tree
      BY <1>0, <1>3, <2>1 DEF RecoveryScan, RunSet
    <3>2. \A p \in Indexed(k) \ DbOnlyMissing(k) : tree[k][p] = Run(k).base[p]
      BY <2>1 DEF HashMismatch, DbOnlyMissing
    <3>3. \A p \in DbOnlyMissing(k) : p \in Indexed(k) /\ tree[k][p] = None
      BY DEF DbOnlyMissing, Indexed, Present
    <3> QED
      BY <3>1, <3>2, <3>3 DEF Pulls, Starts, Posts, In, Run, Indexed
  <2>2. CASE HashMismatch(k) # {}
    BY <1>1, <1>3, <2>2 DEF RecoveryScan
  <2> QED
    BY <2>1, <2>2
<1>4. CASE RunAcpx(k)
  <2>1. CASE ~Run(k).failed
    <3>1. /\ runs'[k].pc = "acpx" /\ runs'[k].base = runs[k].base
          /\ runs'[k].edited = runs[k].edited /\ runs'[k].start = tree[k]
      BY <1>0, <1>4, <2>1 DEF RunAcpx, Run, RunSet
    <3>2. \A p \in Indexed(k) \ Run(k).edited : tree[k][p] = Run(k).base[p]
      BY <1>4, <2>1 DEF RunAcpx, Pulls
    <3> QED
      BY <3>1, <3>2 DEF Pulls, Starts, Posts, In, Run, Indexed
  <2>2. CASE Run(k).failed
    BY <1>1, <1>4, <2>2 DEF RunAcpx
  <2> QED
    BY <2>1, <2>2
<1>5. CASE AcpxExits(k)
  <2>1. /\ runs'[k].pc = "post" /\ runs'[k].base = runs[k].base
        /\ runs'[k].start = runs[k].start /\ runs'[k].edited = runs[k].edited /\ UNCHANGED calls
        /\ ~Pending(k) /\ In(k, "acpx")
    BY <1>0, <1>5 DEF AcpxExits, At, Pending, RunSet
  <2> QED
    BY <2>1 DEF Pulls, Starts, Posts, Pending, In, Run, Indexed
<1>6. CASE PostAnswered(k)
  <2>1. /\ runs'[k].pc = "post" /\ runs'[k].base = runs[k].base
        /\ runs'[k].start = runs[k].start /\ runs'[k].edited = runs[k].edited
        /\ calls'[k].pc = "idle"
    BY <1>0, <1>6 DEF PostAnswered, In, Run, Leave, NoCall, RunSet
  <2>2. Run(k).pc = "post"
    BY <1>6 DEF PostAnswered, In, Run
  <2> QED
    BY <2>1, <2>2 DEF Pulls, Starts, Posts, Pending, In, Run, Indexed
<1>7. CASE RunExits(k) \/ WorkerDies(k)
  BY <1>1, <1>7 DEF RunExits, WorkerDies
<1>8. CASE Orphaned(k)
  BY <1>0, <1>8 DEF Orphaned, Leave, NoCall, Pulls, Starts, Posts, Pending, In, Run, Indexed
<1>9. ASSUME NEW p \in Paths, Materialize(k, p) PROVE Pulls(k)' /\ Starts(k)' /\ Posts(k)'
  <2> DEFINE good == store[p] = Run(k).base[p]
  <2>1. /\ Run(k).pc = "pull" /\ runs'[k].pc = "pull" /\ runs'[k].base = runs[k].base
        /\ runs'[k].todo = runs[k].todo \ {p} /\ p \in runs[k].todo
        /\ runs'[k].start = runs[k].start /\ runs'[k].edited = runs[k].edited
    BY <1>0, <1>9 DEF Materialize, In, Run, RunSet
  <2>2. good \/ runs'[k].failed
    BY <1>0, <1>9 DEF Materialize, Run, RunSet
  <2>3. good => tree'[k][p] = Run(k).base[p]
    BY <1>0, <1>9 DEF Materialize, Run
  <2>4. \A q \in Paths \ {p} : tree'[k][q] = tree[k][q]
    BY <1>0, <1>9 DEF Materialize
  <2>5. runs[k].failed => runs'[k].failed
    BY <1>0, <1>9 DEF Materialize, Run, RunSet
  <2>6. Run(k).todo \subseteq Paths /\ Indexed(k) \subseteq Paths
    BY <1>0 DEF Run, RunSet, Indexed
  <2>7. Indexed(k)' = Indexed(k)
    BY <2>1 DEF Indexed, Run
  <2> HIDE DEF good
  <2>8. Pulls(k)'
    BY <2>1, <2>2, <2>3, <2>4, <2>5, <2>6, <2>7 DEF Pulls, In, Run
  <2> QED
    BY <2>1, <2>8 DEF Starts, Posts, In, Run
<1>10. ASSUME NEW p \in Paths, PostDiff(k, p) PROVE Pulls(k)' /\ Starts(k)' /\ Posts(k)'
  <2>1. Run(k).pc = "post"
    BY <1>10 DEF PostDiff, In, Run
  <2>2. /\ runs'[k].pc = "post" /\ runs'[k].base = runs[k].base
        /\ runs'[k].start = runs[k].start /\ runs'[k].edited = runs[k].edited
    BY <1>0, <1>10, <2>1 DEF PostDiff, Run, RunSet
  <2>3. PreIndex(k)' = PreIndex(k)
    BY <2>2 DEF PreIndex, Indexed, Run
  <2>4. Posts(k)'
    <3>1. CASE Active
      <4>1. calls'[k].path = p /\ calls'[k].cas = PreIndex(k)[p]
        BY <1>0, <1>10, <3>1 DEF PostDiff, Ask
      <4> QED
        BY <2>3, <4>1 DEF Posts
    <3>2. CASE ~Active
      BY <1>10, <2>1, <2>3, <3>2 DEF PostDiff, Posts, Pending, In, Run
    <3> QED
      BY <3>1, <3>2
  <2> QED
    BY <2>1, <2>2, <2>4 DEF Pulls, Starts, In, Run, Indexed
<1>11. ASSUME NEW p \in Paths, NEW h \in Content, AcpxEdits(k, p, h)
       PROVE  Pulls(k)' /\ Starts(k)' /\ Posts(k)'
  BY <1>11 DEF AcpxEdits, Pulls, Starts, Posts, Pending, In, Run, Indexed
<1>12. ASSUME NEW p \in Paths, NEW h \in Content, OperatorEdits(k, p, h)
       PROVE  Pulls(k)' /\ Starts(k)' /\ Posts(k)'
  <2>1. /\ runs'[k].pc = runs[k].pc /\ runs'[k].base = runs[k].base
        /\ runs'[k].start = runs[k].start /\ runs'[k].todo = runs[k].todo
        /\ runs'[k].failed = runs[k].failed /\ Run(k).pc \in {"off", "pull"}
        /\ In(k, "pull") => runs'[k].edited = runs[k].edited \cup {p}
    BY <1>0, <1>12 DEF OperatorEdits, RunSet, Run
  <2>2. \A q \in Paths \ {p} : tree'[k][q] = tree[k][q]
    BY <1>0, <1>12 DEF OperatorEdits
  <2>3. Indexed(k)' = Indexed(k) /\ Indexed(k) \subseteq Paths
    BY <2>1 DEF Indexed, Run
  <2>4. Pulls(k)'
    BY <2>1, <2>2, <2>3 DEF Pulls, In, Run
  <2> QED
    BY <2>1, <2>4 DEF Starts, Posts, In, Run
<1> QED
  BY <1>2, <1>3, <1>4, <1>5, <1>6, <1>7, <1>8, <1>9, <1>10, <1>11, <1>12 DEF Worker

LEMMA RunsKept == ASSUME TypeInv, RunInv, [Next]_vars PROVE RunInv'
<1> SUFFICES ASSUME NEW k \in Hosts PROVE Pulls(k)' /\ Starts(k)' /\ Posts(k)'
  BY DEF RunInv
<1>0. Pulls(k) /\ Starts(k) /\ Posts(k)
  BY DEF RunInv
<1>1. CASE ServerStep
  <2>1. /\ UNCHANGED <<tree, runs>>
        /\ calls'[k].pc \in {"put", "upsert"} =>
               Pending(k) /\ calls'[k].path = calls[k].path /\ calls'[k].cas = calls[k].cas
    BY <1>1, ServerKeepsRuns
  <2> QED
    BY <1>0, <2>1 DEF Pulls, Starts, Posts, Pending, In, Run, Indexed, PreIndex
<1>2. CASE Worker(k)
  BY <1>0, <1>2, RunKept
<1>3. ASSUME NEW j \in Hosts \ {k}, Worker(j) PROVE Pulls(k)' /\ Starts(k)' /\ Posts(k)'
  BY <1>0, <1>3, WorkersApart DEF Pulls, Starts, Posts, Pending, In, Run, Indexed, PreIndex
<1>4. CASE Restart
  <2>1. (runs'[k] = runs[k] \/ runs'[k] = NoRun) /\ tree'[k] = tree[k] /\ calls'[k].pc = "idle"
    BY <1>4 DEF Restart, TypeInv, TypeOK, NoCall, Callers
  <2> QED
    BY <1>0, <2>1 DEF NoRun, Pulls, Starts, Posts, Pending, In, Run, Indexed, PreIndex
<1>5. CASE UNCHANGED vars
  BY <1>0, <1>5 DEF vars, remote, Pulls, Starts, Posts, Pending, In, Run, Indexed, PreIndex
<1> QED
  BY <1>1, <1>2, <1>3, <1>4, <1>5 DEF Next, ServerStep

\* RunInv holds throughout.
LEMMA RunsCorrect == Spec => []RunInv
<1>1. Init => RunInv
  BY DEF Init, RunInv, NoRun, Pulls, Starts, Posts, In, Run
<1> QED
  BY <1>1, TypeCorrect, RunsKept, PTL DEF Spec

\* materialize.py: on every host, acpx starts on a tree that has each file of
\* the index the run has read, with the content of its row.
THEOREM AcpxStartsOnIndex == Spec => []AcpxSeesIndex
<1>1. RunInv => AcpxSeesIndex
  BY DEF RunInv, Starts, AcpxSeesIndex
<1> QED
  BY <1>1, RunsCorrect, PTL

\* Only the upsert of a POST turns it into an accepted one.
LEMMA CommitIsUpsert ==
    ASSUME TypeInv, [Next]_vars, NEW k \in Hosts, Commits(k)
    PROVE  Upsert(k)
<1> USE DEF server, remote
<1>0. /\ calls \in [Callers -> CallSet] /\ k \in Callers /\ calls[k].pc = "upsert"
      /\ calls'[k].pc = "accepted" /\ \A c \in Clients : c \in Callers /\ c # k
  BY WorkspaceFilesAssumption DEF TypeInv, TypeOK, Callers, Commits, At
<1>1. ASSUME NEW c \in Callers, Registry(c) PROVE Upsert(k)
  <2>1. RegisterPut(c) \/ RegistryDelete(c) \/ DeleteRow(c) => FALSE
    BY <1>0 DEF RegisterPut, RegistryDelete, DeleteRow, Reply, Enter, Leave, NoCall, CallSet
  <2>2. Upsert(c) => c = k
    BY <1>0 DEF Upsert, Reply, Enter, Leave
  <2> QED
    BY <1>1, <2>1, <2>2 DEF Registry
<1>2. ASSUME NEW c \in Clients, Request(c) PROVE FALSE
  BY <1>0, <1>2 DEF Request, IndexExisting, UploadWorkspaceFile, WriteWorkspaceFile,
      DeleteWorkspaceFile, ValidateWorkspaceFileRefs, InsertWorkspaceFileRefs, Ask, Leave
<1>3. ASSUME NEW c \in Clients, Manager(c) PROVE FALSE
  BY <1>0, <1>3 DEF Manager, CreateWithScaffold, CreateMkdir, CreateInsert, CreateIndex,
      RegenerateWorkspaceMd, ArchiveWithScaffold, ArchiveRewrite, Reconcile,
      ReconcileAdopt, ReconcileRetire, Ask, Enter, Leave
<1>4. ASSUME NEW j \in Hosts, Worker(j) PROVE FALSE
  <2>1. j = k
    BY <1>0, <1>4, WorkersApart
  <2> QED
    BY <1>0, <1>4, <2>1
    DEF Worker, GetFilesIndex, RecoveryScan, RunAcpx, AcpxExits, PostAnswered, RunExits, NoCall,
        WorkerDies, Orphaned, Materialize, PostDiff, AcpxEdits, OperatorEdits, Ask, Leave, At
<1>5. (\E p \in Paths : DeleteWorkspaceFileRefs(p)) \/ Restart \/ UNCHANGED vars
          \/ (\E p \in Paths, h \in Content : SessionWrites(p, h)) => FALSE
  BY <1>0 DEF DeleteWorkspaceFileRefs, Restart, NoCall, SessionWrites, vars
<1> QED
  BY <1>1, <1>2, <1>3, <1>4, <1>5 DEF Next

\* cli.py _post_diff, registry.py _enforce_cas: no run replaces in the index
\* what it has not started on, or not read there if the file was edited under
\* it, with any number of hosts, clients and edits.
THEOREM RunReplacesStart == Spec => RunReplacesItsStart
<1>1. ASSUME TypeInv, RunInv, [Next]_vars, NEW k \in Hosts, Commits(k), In(k, "post")
      PROVE  \/ index[Path(k)] = Run(k).start[Path(k)]
             \/ Path(k) \in Run(k).edited /\ index[Path(k)] = Run(k).base[Path(k)]
  <2>1. Upsert(k) /\ CasHolds(k)
    <3>1. Upsert(k)
      BY <1>1, CommitIsUpsert
    <3>2. calls'[k].pc = "accepted" /\ k \in Callers /\ calls \in [Callers -> CallSet]
      BY <1>1 DEF Commits, TypeInv, TypeOK, Callers
    <3> QED
      BY <3>1, <3>2 DEF Upsert, Reply, Enter, CallSet
  <2>2. Path(k) \in Paths /\ calls[k].cas = PreIndex(k)[Path(k)]
    BY <1>1, <2>1 DEF RunInv, Posts, Pending, Upsert, At, Path
  <2>3. calls[k].cas \in Content
    BY <1>1, <2>2 DEF TypeInv, TypeOK, Run, RunSet, PreIndex
  <2>4. calls[k].cas # NotSet
    BY <2>3, WorkspaceFilesAssumption DEF Content
  <2>5. index[Path(k)] = PreIndex(k)[Path(k)]
    BY <2>1, <2>2, <2>4 DEF CasHolds, EnforceCas
  <2>6. \A p \in Indexed(k) \ Run(k).edited : Run(k).start[p] = Run(k).base[p]
    BY <1>1 DEF RunInv, Starts, In, Run
  <2> QED
    BY <2>2, <2>5, <2>6 DEF PreIndex
<1>2. TypeInv /\ RunInv /\ [Next]_vars =>
          [\A k \in Hosts : Commits(k) /\ In(k, "post") =>
              \/ index[Path(k)] = Run(k).start[Path(k)]
              \/ Path(k) \in Run(k).edited /\ index[Path(k)] = Run(k).base[Path(k)]]_vars
  BY <1>1
<1> QED
  BY <1>2, TypeCorrect, RunsCorrect, PTL DEF Spec, RunReplacesItsStart

\* recovery.py: no pull of a run changes a file that the run's scan has found,
\* whatever the operator and other runs do to the directory meanwhile.
THEOREM LocalKept == Spec => LocalFilesKept
<1>1. ASSUME TypeInv, RunInv, [Next]_vars, NEW k \in Hosts, In(k, "pull"),
             runs'[k].todo # Run(k).todo, NEW p \in Paths, Run(k).start[p] # None
      PROVE  tree'[k][p] = tree[k][p]
  <2> USE DEF server, remote
  <2>0. tree \in [Hosts -> [Paths -> Content]] /\ runs \in [Hosts -> RunSet]
    BY <1>1 DEF TypeInv, TypeOK
  <2>1. CASE Worker(k)
    <3>1. ASSUME NEW q \in Paths, Materialize(k, q) PROVE tree'[k][p] = tree[k][p]
      <4>1. q # p
        BY <1>1, <2>0, <3>1 DEF Materialize, RunInv, Pulls
      <4> QED
        BY <2>0, <3>1, <4>1 DEF Materialize
    <3>2. ASSUME NEW q \in Paths, NEW h \in Content, OperatorEdits(k, q, h) PROVE FALSE
      BY <1>1, <2>0, <3>2 DEF OperatorEdits, Run, RunSet
    <3> QED
      BY <1>1, <2>1, <3>1, <3>2
      DEF Worker, GetFilesIndex, RecoveryScan, RunAcpx, AcpxExits, PostAnswered, RunExits, In,
          WorkerDies, Orphaned, PostDiff, AcpxEdits
  <2>2. ASSUME NEW j \in Hosts \ {k}, Worker(j) PROVE tree'[k][p] = tree[k][p]
    BY <1>1, <2>2, WorkersApart
  <2>3. CASE ServerStep
    BY <1>1, <2>3, ServerKeepsRuns
  <2>4. CASE Restart \/ UNCHANGED vars
    BY <2>4 DEF Restart, vars
  <2> QED
    BY <1>1, <2>1, <2>2, <2>3, <2>4 DEF Next, ServerStep
<1>2. TypeInv /\ RunInv /\ [Next]_vars =>
          [\A k \in Hosts : In(k, "pull") /\ runs'[k].todo # Run(k).todo =>
              \A p \in Paths : Run(k).start[p] # None => tree'[k][p] = tree[k][p]]_vars
  BY <1>1
<1> QED
  BY <1>2, TypeCorrect, RunsCorrect, PTL DEF Spec, LocalFilesKept

----------------------------------------------------------------------------
(* Rows.                                                                   *)

LEMMA KeysKept ==
    ASSUME TypeInv, ForeignKeysHold, [Next]_vars
    PROVE  ForeignKeysHold'
<1> USE DEF server, remote
<1>0. /\ index \in [Paths -> Content] /\ refs \subseteq Paths
      /\ \A p \in refs : index[p] # None
      /\ index # Nothing => ws.row # "none"
      /\ ws \in [row : {"none", "active", "archived"}, dir : BOOLEAN]
      /\ None \notin Hashes /\ Clients \subseteq Callers
  BY WorkspaceFilesAssumption DEF TypeInv, TypeOK, ForeignKeysHold, Paths, Callers
<1>1. ASSUME UNCHANGED <<index, refs>>, ws'.row = ws.row \/ ws'.row # "none" \/ index = Nothing
      PROVE  ForeignKeysHold'
  BY <1>0, <1>1 DEF ForeignKeysHold, Nothing
<1>2. ASSUME NEW c \in Callers, Registry(c) PROVE ForeignKeysHold'
  <2>1. CASE RegisterPut(c)
    BY <1>0, <1>1, <2>1 DEF RegisterPut, StorePut
  <2>2. CASE Upsert(c)
    <3>1. calls[c].hash \in Hashes
      BY <2>2 DEF Upsert, At, TypeInv, TypeOK, Aimed
    <3> QED
      BY <1>0, <2>2, <3>1 DEF Upsert, ForeignKeysHold
  <2>3. CASE RegistryDelete(c)
    BY <1>1, <2>3 DEF RegistryDelete
  <2>4. CASE DeleteRow(c)
    <3>1. index' = Nothing \/ index # Nothing
      BY <1>0, <2>4 DEF DeleteRow, Nothing
    <3> QED
      BY <1>0, <2>4, <3>1 DEF DeleteRow, ForeignKeysHold
  <2> QED
    BY <1>2, <2>1, <2>2, <2>3, <2>4 DEF Registry
<1>3. ASSUME NEW c \in Clients, Request(c) PROVE ForeignKeysHold'
  <2>1. CASE InsertWorkspaceFileRefs(c)
    BY <1>0, <2>1 DEF InsertWorkspaceFileRefs, ForeignKeysHold
  <2> QED
    BY <1>1, <1>3, <2>1 DEF Request, IndexExisting, UploadWorkspaceFile, WriteWorkspaceFile,
        DeleteWorkspaceFile, ValidateWorkspaceFileRefs
<1>4. ASSUME NEW c \in Clients, Manager(c) PROVE ForeignKeysHold'
  <2>1. ASSUME NEW h \in Hashes, CreateMkdir(c, h) PROVE ForeignKeysHold'
    BY <1>0, <1>1, <2>1 DEF CreateMkdir, SafeRmtree
  <2>2. CASE CreateInsert(c)
    BY <1>0, <1>1, <2>2 DEF CreateInsert, SafeRmtree
  <2>5. CASE CreateIndex(c)
    <3>1. CASE UNCHANGED <<ws, store>>
      BY <1>0, <1>1, <2>5, <3>1 DEF CreateIndex
    <3>2. CASE SafeRmtree(RolledBack)
      BY <1>0, <1>1, <2>5, <3>2 DEF CreateIndex, SafeRmtree, RolledBack, ForeignKeysHold, Nothing
    <3> QED
      BY <2>5, <3>1, <3>2 DEF CreateIndex
  <2>3. CASE ReconcileAdopt(c) \/ ReconcileRetire(c)
    BY <1>0, <1>1, <2>3 DEF ReconcileAdopt, ReconcileRetire
  <2>4. ASSUME NEW h \in Hashes, ArchiveWithScaffold(c, h) PROVE ForeignKeysHold'
    BY <1>0, <1>1, <2>4 DEF ArchiveWithScaffold
  <2> QED
    BY <1>1, <1>4, <2>1, <2>2, <2>3, <2>4, <2>5 DEF Manager, CreateWithScaffold,
        RegenerateWorkspaceMd, ArchiveRewrite, Reconcile
<1>5. ASSUME NEW k \in Hosts, Worker(k) PROVE ForeignKeysHold'
  BY <1>1, <1>5 DEF Worker, GetFilesIndex, RecoveryScan, RunAcpx, AcpxExits, PostAnswered,
      RunExits, WorkerDies, Orphaned, Materialize, PostDiff, AcpxEdits, OperatorEdits
<1>6. ASSUME NEW p \in Paths, DeleteWorkspaceFileRefs(p) PROVE ForeignKeysHold'
  BY <1>0, <1>6 DEF DeleteWorkspaceFileRefs, ForeignKeysHold
<1>7. (\E p \in Paths, h \in Content : SessionWrites(p, h)) \/ Restart \/ UNCHANGED vars
          => ForeignKeysHold'
  BY <1>1 DEF SessionWrites, Restart, vars
<1> QED
  BY <1>2, <1>3, <1>4, <1>5, <1>6, <1>7 DEF Next

\* schema.sql: every reference has its file and every file its workspace,
\* whatever deletions, citations and rollbacks overlap.
THEOREM KeysHold == Spec => []ForeignKeysHold
<1>1. Init => ForeignKeysHold
  BY DEF Init, ForeignKeysHold
<1> QED
  BY <1>1, TypeCorrect, KeysKept, PTL DEF Spec

\* workspace_manager.py, reconcile: an archived workspace is not revived by a
\* sync that has seen its directory before its row.
THEOREM ArchivedFinal == Spec => ArchivedIsFinal
<1>1. ASSUME TypeInv, [Next]_vars, ws.row = "archived" PROVE ws'.row # "active"
  <2> USE DEF server, remote
  <2>0. ws \in [row : {"none", "active", "archived"}, dir : BOOLEAN]
    BY <1>1 DEF TypeInv, TypeOK
  <2>1. UNCHANGED ws => ws'.row # "active"
    BY <1>1
  <2>2. ASSUME NEW c \in Callers, Registry(c) PROVE ws'.row # "active"
    BY <1>1, <2>0, <2>1, <2>2
    DEF Registry, RegisterPut, StorePut, Upsert, RegistryDelete, DeleteRow
  <2>3. ASSUME NEW c \in Clients, Request(c) PROVE ws'.row # "active"
    BY <2>1, <2>3 DEF Request, IndexExisting, UploadWorkspaceFile, WriteWorkspaceFile,
        DeleteWorkspaceFile, ValidateWorkspaceFileRefs, InsertWorkspaceFileRefs
  <2>4. ASSUME NEW c \in Clients, Manager(c) PROVE ws'.row # "active"
    <3>1. ASSUME NEW h \in Hashes, CreateMkdir(c, h) PROVE ws'.row # "active"
      BY <1>1, <2>1, <3>1 DEF CreateMkdir
    <3>2. CreateInsert(c) => ws'.row # "active"
      BY <1>1, <2>1 DEF CreateInsert, SafeRmtree
    <3>5. CreateIndex(c) => ws'.row # "active"
      <4>1. SafeRmtree(RolledBack) => ws'.row # "active"
        BY <1>1 DEF SafeRmtree, RolledBack
      <4> QED
        BY <2>1, <4>1 DEF CreateIndex
    <3>3. ReconcileAdopt(c) \/ ReconcileRetire(c) => ws'.row # "active"
      BY <1>1, <2>0 DEF ReconcileAdopt, ReconcileRetire
    <3>4. ASSUME NEW h \in Hashes, ArchiveWithScaffold(c, h) PROVE ws'.row # "active"
      BY <1>1, <3>4 DEF ArchiveWithScaffold, Active
    <3> QED
      BY <2>1, <2>4, <3>1, <3>2, <3>3, <3>4, <3>5 DEF Manager, CreateWithScaffold,
          RegenerateWorkspaceMd, ArchiveRewrite, Reconcile
  <2>5. ASSUME NEW k \in Hosts, Worker(k) PROVE ws'.row # "active"
    BY <2>1, <2>5 DEF Worker, GetFilesIndex, RecoveryScan, RunAcpx, AcpxExits, PostAnswered,
        RunExits, WorkerDies, Orphaned, Materialize, PostDiff, AcpxEdits, OperatorEdits
  <2>6. ASSUME NEW p \in Paths, NEW h \in Content, SessionWrites(p, h) PROVE ws'.row # "active"
    BY <2>1, <2>6 DEF SessionWrites
  <2> QED
    BY <1>1, <2>1, <2>2, <2>3, <2>4, <2>5, <2>6 DEF Next, DeleteWorkspaceFileRefs, Restart, vars
<1>2. TypeInv /\ [Next]_vars => [ws.row = "archived" => ws'.row # "active"]_vars
  BY <1>1
<1> QED
  BY <1>2, TypeCorrect, PTL DEF Spec, ArchivedIsFinal
=============================================================================
