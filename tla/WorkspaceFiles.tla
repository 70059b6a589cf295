--------------------------- MODULE WorkspaceFiles ---------------------------
(***************************************************************************)
(* One slug: its directory and workspaces row, the bytes of its files in   *)
(* the FileStore, their rows in workspace_files, references to them, and   *)
(* the agent hosts that work on copies.  Requests to the control plane     *)
(* interleave at their awaits: bytes are put first and the row is upserted *)
(* in a transaction of its own.  cooagents-worker runs on a host: index,   *)
(* recovery scan, materialize, acpx, then one POST for each changed file.  *)
(*                                                                         *)
(* A file's content is its hash.  The deployment has either a bucket that  *)
(* hosts read too (oss) or the local store, where the bytes lie in the     *)
(* slug's directory, sessions write into it and no host takes part.        *)
(***************************************************************************)
EXTENDS FiniteSets, Naturals

CONSTANTS
    Md,         \* workspace.md, which the server registers with a protected kind
    Files,      \* other files, which it registers with selectable kinds
    Hashes,     \* contents
    Clients,    \* slots for requests of the control plane
    Hosts,      \* agent hosts, each with at most one worker run
    MaxEvents,  \* bound of the model: requests, runs, edits and restarts
    NotSet, None   \* no CAS predicate; no row, no object, no file

ASSUME WorkspaceFilesAssumption ==
    /\ Md \notin Files /\ NotSet # None /\ {NotSet, None} \cap Hashes = {}
    /\ Clients \cap Hosts = {}
    /\ MaxEvents \in Nat

VARIABLES
    oss,      \* settings.storage.oss.enabled
    ws,       \* the workspaces row's status, and whether the directory exists
    store,    \* FileStore
    index,    \* workspace_files: content_hash
    protected,\* workspace_files: the rows of a protected kind
    refs,     \* files with a row in workspace_file_refs
    calls,    \* requests in flight; a host has one slot for its POSTs
    tree,     \* WORKSPACES_ROOT/<slug> of each host
    runs,     \* cooagents-worker run of each host
    events    \* events so far

vars == <<oss, ws, store, index, protected, refs, calls, tree, runs, events>>
server == <<ws, store, index, protected, refs>>
remote == <<tree, runs>>

Paths == {Md} \cup Files
Content == Hashes \cup {None}
Nothing == [p \in Paths |-> None]
Callers == Clients \cup Hosts

\* guarded: of a protected kind; cas: NotSet for NOT_SET, None for a first
\* write, or the hash expected.
NoCall == [pc |-> "idle", path |-> None, hash |-> None, guarded |-> FALSE, cas |-> NotSet]
\* base, kept: hashes and protected rows of files_index; start: the tree that
\* the scan has found, then the one acpx is launched on; todo: paths left;
\* edited: history, files that others changed between those two.
NoRun == [pc |-> "off", base |-> Nothing, kept |-> {}, start |-> Nothing, todo |-> {},
          edited |-> {}, failed |-> FALSE]

Init ==
    /\ oss \in BOOLEAN
    /\ ws = [row |-> "none", dir |-> FALSE]
    /\ store = Nothing /\ index = Nothing /\ protected = {} /\ refs = {}
    /\ calls = [c \in Callers |-> NoCall]
    /\ tree = [k \in Hosts |-> Nothing]
    /\ runs = [k \in Hosts |-> NoRun]
    /\ events = 0

Event == events < MaxEvents /\ events' = events + 1

At(c, pc) == calls[c].pc = pc
Enter(c, pc) == calls' = [calls EXCEPT ![c].pc = pc]
Leave(c) == calls' = [calls EXCEPT ![c] = NoCall]
Ask(c, pc, p, h, g, cas) ==
    calls' = [calls EXCEPT ![c] =
                 [pc |-> pc, path |-> p, hash |-> h, guarded |-> g, cas |-> cas]]
\* The answer: a worker waits for it, a client's slot is free again.
Reply(c, pc) == IF c \in Hosts THEN Enter(c, pc) ELSE Leave(c)
Path(c) == calls[c].path
Active == ws.row = "active"

----------------------------------------------------------------------------
(* FileStore.  The local one makes the directory it writes to.             *)

StorePut(p, h) ==
    /\ store' = [store EXCEPT ![p] = h]
    /\ ws' = [ws EXCEPT !.dir = @ \/ ~oss]
StoreDelete(p) == store' = [store EXCEPT ![p] = None]
Conditional == oss
SafeRmtree(row) ==
    /\ ws' = [row |-> row, dir |-> FALSE]
    /\ store' = IF oss THEN store ELSE Nothing

----------------------------------------------------------------------------
(* WorkspaceFileRegistry.register, put_bytes, put_markdown, put_json.      *)

RegisterPut(c) ==
    /\ At(c, "put")
    /\ IF Conditional /\ calls[c].cas = None /\ store[Path(c)] # None
       THEN Reply(c, "refused") /\ UNCHANGED <<store, ws>>
       ELSE StorePut(Path(c), calls[c].hash) /\ Enter(c, "upsert")
    /\ UNCHANGED <<oss, index, protected, refs, remote, events>>

EnforceCas(c) ==
    calls[c].cas = NotSet \/ calls[c].cas = index[Path(c)]

\* A fault: a first write that finds a row updates it.
EnforceHashOnly(c) ==
    calls[c].cas \in {NotSet, None} \/ calls[c].cas = index[Path(c)]

CasHolds(c) == EnforceCas(c)

\* One transaction; the row's workspace_id must exist.  An update takes the
\* caller's kind, whatever the row's was.
Upsert(c) ==
    /\ At(c, "upsert")
    /\ IF CasHolds(c) /\ ws.row # "none"
       THEN /\ index' = [index EXCEPT ![Path(c)] = calls[c].hash]
            /\ protected' = IF calls[c].guarded THEN protected \cup {Path(c)}
                                               ELSE protected \ {Path(c)}
            /\ Reply(c, "accepted")
       ELSE Reply(c, "refused") /\ UNCHANGED <<index, protected>>
    /\ UNCHANGED <<oss, ws, store, refs, remote, events>>

\* index_existing: the file is read, then upserted without a predicate.
IndexExisting(c, p) ==
    /\ Event /\ At(c, "idle") /\ store[p] # None /\ ws.row # "none"
    /\ Ask(c, "upsert", p, store[p], p = Md, NotSet)
    /\ UNCHANGED <<oss, server, remote>>

\* POST /attachments and /files/upload: a name no one else has.
UploadWorkspaceFile(c, p, h) ==
    /\ Event /\ At(c, "idle") /\ Active
    /\ index[p] = None /\ store[p] = None /\ \A d \in Callers : Path(d) # p
    /\ Ask(c, "put", p, h, FALSE, NotSet)
    /\ UNCHANGED <<oss, server, remote>>

\* POST /files: the client gives the kind and, in the header, the predicate.
WriteWorkspaceFile(c, p, h, g, cas) ==
    /\ Event /\ At(c, "idle") /\ Active
    /\ Ask(c, "put", p, h, g, cas)
    /\ UNCHANGED <<oss, server, remote>>

\* A session beside the local store writes where it likes.
SessionWrites(p, h) ==
    /\ Event /\ ~oss /\ ws.dir
    /\ store' = [store EXCEPT ![p] = h]
    /\ UNCHANGED <<oss, ws, index, protected, refs, calls, remote>>

----------------------------------------------------------------------------
(* DELETE /files: the row, its kind and its references, then the object,   *)
(* then the row.                                                           *)

DeleteWorkspaceFile(c, p) ==
    /\ Event /\ At(c, "idle") /\ Active
    /\ index[p] # None /\ p \notin protected /\ p \notin refs
    /\ Ask(c, "unlink", p, None, FALSE, NotSet)
    /\ UNCHANGED <<oss, server, remote>>

RegistryDelete(c) ==
    /\ At(c, "unlink")
    /\ StoreDelete(Path(c)) /\ Enter(c, "delete_row")
    /\ UNCHANGED <<oss, ws, index, protected, refs, remote, events>>

\* A fault: the foreign key of workspace_file_refs does not restrict.
DeleteAnyRow(c) ==
    /\ At(c, "delete_row")
    /\ index' = [index EXCEPT ![Path(c)] = None]
    /\ protected' = protected \ {Path(c)}
    /\ Leave(c)
    /\ UNCHANGED <<oss, ws, store, refs, remote, events>>

DeleteRow(c) ==
    /\ At(c, "delete_row")
    /\ IF Path(c) \in refs
       THEN UNCHANGED <<index, protected>>
       ELSE /\ index' = [index EXCEPT ![Path(c)] = None]
            /\ protected' = protected \ {Path(c)}
    /\ Leave(c)
    /\ UNCHANGED <<oss, ws, store, refs, remote, events>>

(* A work that cites p: validated first, inserted with the work's row.     *)

ValidateWorkspaceFileRefs(c, p) ==
    /\ Event /\ At(c, "idle") /\ Active
    /\ index[p] # None /\ p \notin protected
    /\ Ask(c, "cite", p, None, FALSE, NotSet)
    /\ UNCHANGED <<oss, server, remote>>

InsertWorkspaceFileRefs(c) ==
    /\ At(c, "cite")
    /\ refs' = IF index[Path(c)] = None THEN refs ELSE refs \cup {Path(c)}
    /\ Leave(c)
    /\ UNCHANGED <<oss, ws, store, index, protected, remote, events>>

DeleteWorkspaceFileRefs(p) ==
    /\ Event /\ p \in refs
    /\ refs' = refs \ {p}
    /\ UNCHANGED <<oss, ws, store, index, protected, calls, remote>>

----------------------------------------------------------------------------
(* WorkspaceManager.                                                       *)

CreateWithScaffold(c) ==
    /\ Event /\ At(c, "idle") /\ ~ws.dir
    /\ Enter(c, "mkdir")
    /\ UNCHANGED <<oss, server, remote>>

\* FileExistsError is an OSError: the directory found is removed.
CreateMkdir(c, h) ==
    /\ At(c, "mkdir")
    /\ CASE ws.row # "none" -> Leave(c) /\ UNCHANGED <<ws, store>>
         [] ws.row = "none" /\ ws.dir -> SafeRmtree("none") /\ Leave(c)
         [] OTHER -> /\ ws' = [ws EXCEPT !.dir = TRUE]
                     /\ store' = [store EXCEPT ![Md] = h]
                     /\ Enter(c, "insert")
    /\ UNCHANGED <<oss, index, protected, refs, remote, events>>

CreateInsert(c) ==
    /\ At(c, "insert")
    /\ IF ws.row = "none"
       THEN ws' = [ws EXCEPT !.row = "active"] /\ Enter(c, "index") /\ UNCHANGED store
       ELSE SafeRmtree(ws.row) /\ Leave(c)
    /\ UNCHANGED <<oss, index, protected, refs, remote, events>>

\* DELETE FROM workspaces fails while files refer to the row.
RolledBack == IF index = Nothing THEN "none" ELSE ws.row

\* Without the file, or when its upsert fails, the creation is rolled back.
CreateIndex(c) ==
    /\ At(c, "index")
    /\ \/ store[Md] # None /\ Ask(c, "upsert", Md, store[Md], TRUE, NotSet)
          /\ UNCHANGED <<ws, store>>
       \/ SafeRmtree(RolledBack) /\ Leave(c)
    /\ UNCHANGED <<oss, index, protected, refs, remote, events>>

RegenerateWorkspaceMd(c, h) ==
    /\ Event /\ At(c, "idle") /\ ws.row # "none"
    /\ Ask(c, "put", Md, h, TRUE, NotSet)
    /\ UNCHANGED <<oss, server, remote>>

\* workspace.md is rewritten only where it exists.
ArchiveWithScaffold(c, h) ==
    /\ Event /\ At(c, "idle") /\ Active
    /\ ws' = [ws EXCEPT !.row = "archived"]
    /\ Ask(c, "stat", Md, h, TRUE, NotSet)
    /\ UNCHANGED <<oss, store, index, protected, refs, remote>>

ArchiveRewrite(c) ==
    /\ At(c, "stat")
    /\ IF store[Md] # None THEN Enter(c, "put") ELSE Leave(c)
    /\ UNCHANGED <<oss, server, remote, events>>

\* The rows are listed, then the directories.
Reconcile(c) ==
    /\ Event /\ At(c, "idle")
    /\ \/ ws.dir /\ ws.row = "none" /\ Enter(c, "adopt")
       \/ ~ws.dir /\ Active /\ Enter(c, "retire")
    /\ UNCHANGED <<oss, server, remote>>

\* A fault: INSERT OR REPLACE.
AdoptAnyway(c) ==
    /\ At(c, "adopt")
    /\ ws' = [ws EXCEPT !.row = "active"]
    /\ Leave(c)
    /\ UNCHANGED <<oss, store, index, protected, refs, remote, events>>

ReconcileAdopt(c) ==
    /\ At(c, "adopt")
    /\ ws' = [ws EXCEPT !.row = IF @ = "none" THEN "active" ELSE @]
    /\ Leave(c)
    /\ UNCHANGED <<oss, store, index, protected, refs, remote, events>>

ReconcileRetire(c) ==
    /\ At(c, "retire")
    /\ ws' = [ws EXCEPT !.row = IF @ = "active" THEN "archived" ELSE @]
    /\ Leave(c)
    /\ UNCHANGED <<oss, store, index, protected, refs, remote, events>>

----------------------------------------------------------------------------
(* cooagents-worker run, on host k.                                        *)

Run(k) == runs[k]
In(k, pc) == runs[k].pc = pc
Exit(k) == runs' = [runs EXCEPT ![k] = NoRun]
Indexed(k) == {p \in Paths : Run(k).base[p] # None}
Present(k) == {p \in Paths : tree[k][p] # None}

\* GET /files.  The status that comes with the index is not looked at.
GetFilesIndex(k) ==
    /\ Event /\ oss /\ In(k, "off") /\ ws.row # "none"
    /\ runs' = [runs EXCEPT ![k] =
                    [NoRun EXCEPT !.pc = "scan", !.base = index, !.kept = protected]]
    /\ UNCHANGED <<oss, server, calls, tree>>

HashMismatch(k) == {p \in Indexed(k) \cap Present(k) : tree[k][p] # Run(k).base[p]}
DbOnlyMissing(k) == Indexed(k) \ Present(k)

\* A fault: a diverging file is pulled again.
ScanRepairs(k) ==
    /\ In(k, "scan")
    /\ runs' = [runs EXCEPT ![k].pc = "pull", ![k].start = tree[k],
                            ![k].todo = DbOnlyMissing(k) \cup HashMismatch(k)]
    /\ UNCHANGED <<oss, server, calls, tree, events>>

\* Exit 2 on any mismatch.
RecoveryScan(k) ==
    /\ In(k, "scan")
    /\ IF HashMismatch(k) # {}
       THEN Exit(k)
       ELSE runs' = [runs EXCEPT ![k].pc = "pull", ![k].start = tree[k],
                                 ![k].todo = DbOnlyMissing(k)]
    /\ UNCHANGED <<oss, server, calls, tree, events>>

\* A fault: what the bucket holds is taken for what the row says.
MaterializeBlindly(k, p) ==
    /\ In(k, "pull") /\ p \in Run(k).todo
    /\ tree' = [tree EXCEPT ![k][p] = store[p]]
    /\ runs' = [runs EXCEPT ![k].todo = @ \ {p}, ![k].failed = @ \/ store[p] = None]
    /\ UNCHANGED <<oss, server, calls, events>>

\* Absent, or not the content of the row: failed, and nothing is written.
\* What lies at the path by now is replaced.
Materialize(k, p) ==
    /\ In(k, "pull") /\ p \in Run(k).todo
    /\ LET good == store[p] = Run(k).base[p] IN
       /\ tree' = IF good THEN [tree EXCEPT ![k][p] = store[p]] ELSE tree
       /\ runs' = [runs EXCEPT ![k].todo = @ \ {p}, ![k].failed = @ \/ ~good]
    /\ UNCHANGED <<oss, server, calls, events>>

\* Exit 3 if a pull failed; else pre_files is collected and acpx launched.
RunAcpx(k) ==
    /\ In(k, "pull") /\ Run(k).todo = {}
    /\ IF Run(k).failed
       THEN Exit(k)
       ELSE runs' = [runs EXCEPT ![k].pc = "acpx", ![k].start = tree[k]]
    /\ UNCHANGED <<oss, server, calls, tree, events>>

\* acpx, or anybody else on the host.
AcpxEdits(k, p, h) ==
    /\ Event /\ In(k, "acpx") /\ tree[k][p] # h
    /\ tree' = [tree EXCEPT ![k][p] = h]
    /\ UNCHANGED <<oss, server, calls, runs>>

\* The row's hash, or for a file without a row that of the file found.
PreIndex(k) ==
    [p \in Paths |-> IF p \in Indexed(k) THEN Run(k).base[p] ELSE Run(k).start[p]]

\* A fault: files that are gone are posted too.
AcpxPostsDeletions(k) ==
    /\ In(k, "acpx") /\ At(k, "idle")
    /\ runs' = [runs EXCEPT ![k].pc = "post",
                            ![k].todo = {p \in Paths : tree[k][p] # PreIndex(k)[p]}]
    /\ UNCHANGED <<oss, server, calls, tree, events>>

\* post_files is collected.  A POST left by an earlier run of the host has
\* been answered by now.
AcpxExits(k) ==
    /\ In(k, "acpx") /\ At(k, "idle")
    /\ runs' = [runs EXCEPT ![k].pc = "post",
                            ![k].todo = {p \in Present(k) : tree[k][p] # PreIndex(k)[p]}]
    /\ UNCHANGED <<oss, server, calls, tree, events>>

\* The kind of the row the run has read, or _infer_kind.
KindGuarded(k, p) == p \in Run(k).kept \/ (p = Md /\ p \notin Indexed(k))

\* An archived workspace answers 400, which is a failure like a 412.
PostDiff(k, p) ==
    /\ In(k, "post") /\ At(k, "idle") /\ p \in Run(k).todo
    /\ IF Active
       THEN /\ Ask(k, "put", p, tree[k][p], KindGuarded(k, p), PreIndex(k)[p])
            /\ UNCHANGED runs
       ELSE /\ runs' = [runs EXCEPT ![k].todo = @ \ {p}, ![k].failed = TRUE]
            /\ UNCHANGED calls
    /\ UNCHANGED <<oss, server, tree, events>>

PostAnswered(k) ==
    /\ In(k, "post") /\ calls[k].pc \in {"accepted", "refused"}
    /\ runs' = [runs EXCEPT ![k].todo = @ \ {Path(k)},
                            ![k].failed = @ \/ At(k, "refused")]
    /\ Leave(k)
    /\ UNCHANGED <<oss, server, tree, events>>

\* Exit 4 if a POST failed, else acpx's code.
RunExits(k) ==
    /\ In(k, "post") /\ Run(k).todo = {} /\ At(k, "idle")
    /\ Exit(k)
    /\ UNCHANGED <<oss, server, calls, tree, events>>

\* The ssh connection or the host goes; a POST that was sent goes on.
WorkerDies(k) ==
    /\ Event /\ ~In(k, "off") /\ Exit(k)
    /\ UNCHANGED <<oss, server, calls, tree>>
Orphaned(k) ==
    /\ ~In(k, "post") /\ calls[k].pc \in {"accepted", "refused"}
    /\ Leave(k)
    /\ UNCHANGED <<oss, server, remote, events>>

\* The operator of the host, or a run of another work in the same directory,
\* changes a file between runs or under one.  Before the scan that is as
\* before the run, and during the POSTs, for which it has read its files, as
\* after it.
OperatorEdits(k, p, h) ==
    /\ Event /\ oss /\ Run(k).pc \in {"off", "pull"} /\ tree[k][p] # h
    /\ tree' = [tree EXCEPT ![k][p] = h]
    /\ runs' = [runs EXCEPT ![k].edited = IF In(k, "pull") THEN @ \cup {p} ELSE @]
    /\ UNCHANGED <<oss, server, calls>>

\* The control plane stops: every request is lost, and a worker that was
\* waiting for an answer stops with a connection error.
Restart ==
    /\ Event /\ \E c \in Callers : ~At(c, "idle")
    /\ calls' = [c \in Callers |-> NoCall]
    /\ runs' = [k \in Hosts |-> IF At(k, "idle") THEN runs[k] ELSE NoRun]
    /\ UNCHANGED <<oss, server, tree>>

----------------------------------------------------------------------------

Registry(c) == RegisterPut(c) \/ Upsert(c) \/ RegistryDelete(c) \/ DeleteRow(c)

Request(c) ==
    \/ \E p \in Paths : IndexExisting(c, p)
    \/ \E p \in Files, h \in Hashes : UploadWorkspaceFile(c, p, h)
    \/ \E p \in Paths, h \in Hashes, g \in BOOLEAN, cas \in Content :
          WriteWorkspaceFile(c, p, h, g, cas)
    \/ \E p \in Paths : DeleteWorkspaceFile(c, p) \/ ValidateWorkspaceFileRefs(c, p)
    \/ InsertWorkspaceFileRefs(c)

Manager(c) ==
    \/ CreateWithScaffold(c) \/ CreateInsert(c) \/ CreateIndex(c)
    \/ ArchiveRewrite(c) \/ Reconcile(c) \/ ReconcileAdopt(c) \/ ReconcileRetire(c)
    \/ \E h \in Hashes :
          CreateMkdir(c, h) \/ RegenerateWorkspaceMd(c, h) \/ ArchiveWithScaffold(c, h)

Worker(k) ==
    \/ GetFilesIndex(k) \/ RecoveryScan(k) \/ RunAcpx(k) \/ AcpxExits(k)
    \/ PostAnswered(k) \/ RunExits(k) \/ WorkerDies(k) \/ Orphaned(k)
    \/ \E p \in Paths : Materialize(k, p) \/ PostDiff(k, p)
    \/ \E p \in Paths, h \in Content : AcpxEdits(k, p, h) \/ OperatorEdits(k, p, h)

Next ==
    \/ \E c \in Callers : Registry(c)
    \/ \E c \in Clients : Request(c) \/ Manager(c)
    \/ \E k \in Hosts : Worker(k)
    \/ \E p \in Paths : DeleteWorkspaceFileRefs(p)
    \/ \E p \in Paths, h \in Content : SessionWrites(p, h)
    \/ Restart

Spec == Init /\ [][Next]_vars

----------------------------------------------------------------------------

CallPcs == {"idle", "put", "upsert", "accepted", "refused", "unlink", "delete_row",
            "cite", "mkdir", "insert", "index", "stat", "adopt", "retire"}
CallSet == [pc : CallPcs, path : Paths \cup {None}, hash : Content, guarded : BOOLEAN,
            cas : Content \cup {NotSet}]
RunSet ==
    [pc : {"off", "scan", "pull", "acpx", "post"}, base : [Paths -> Content],
     kept : SUBSET Paths, start : [Paths -> Content], todo : SUBSET Paths,
     edited : SUBSET Paths, failed : BOOLEAN]

\* A request on its way to write has a file and a content.
Aimed ==
    \A c \in Callers :
        /\ calls[c].pc \in {"stat", "put", "upsert"} =>
               calls[c].path \in Paths /\ calls[c].hash \in Hashes
        /\ calls[c].pc = "cite" => calls[c].path \in Paths

\* Types, and Aimed: the routes refuse an empty payload (workspaces.py:558-559)
\* and a run posts no file that is gone (cli.py, _collect_local_files).
TypeOK ==
    /\ oss \in BOOLEAN
    /\ ws \in [row : {"none", "active", "archived"}, dir : BOOLEAN]
    /\ store \in [Paths -> Content] /\ index \in [Paths -> Content]
    /\ protected \subseteq Paths /\ refs \subseteq Paths
    /\ calls \in [Callers -> CallSet]
    /\ Aimed
    /\ tree \in [Hosts -> [Paths -> Content]]
    /\ runs \in [Hosts -> RunSet]
    /\ events \in 0..MaxEvents

(* schema.sql:291-321: files belong to a workspace, references to files,   *)
(* through the race of a deletion with a citation and of the rollback of a *)
(* creation with whatever has used the row since.                          *)
ForeignKeysHold ==
    /\ \A p \in refs : index[p] # None
    /\ index # Nothing => ws.row # "none"

(* materialize.py:1-6: whatever is written to the bucket meanwhile, acpx   *)
(* starts on a tree that has every file of the index the run has read,     *)
(* with the content of its row, but for what others edit on the host       *)
(* between the scan and the launch.                                        *)
AcpxSeesIndex ==
    \A k \in Hosts : Run(k).pc \in {"acpx", "post"} =>
        \A p \in Indexed(k) \ Run(k).edited : Run(k).start[p] = Run(k).base[p]

(* cli.py, _post_diff, and registry.py, _enforce_cas: a run replaces in    *)
(* the index nothing but the content it started on (or, of a file edited   *)
(* under it, the content it has read there), and adds a file only where    *)
(* there is none, through any writes of others since.                      *)
Commits(k) == At(k, "upsert") /\ calls'[k].pc = "accepted"
RunReplacesItsStart == [][
    \A k \in Hosts : Commits(k) /\ In(k, "post") =>
        \/ index[Path(k)] = Run(k).start[Path(k)]
        \/ Path(k) \in Run(k).edited /\ index[Path(k)] = Run(k).base[Path(k)]]_vars

(* recovery.py:8-10: a run's pulls never change a file that its scan has   *)
(* found on the host, whatever others do to the directory meanwhile.       *)
LocalFilesKept == [][
    \A k \in Hosts : In(k, "pull") /\ runs'[k].todo # Run(k).todo =>
        \A p \in Paths : Run(k).start[p] # None => tree'[k][p] = tree[k][p]]_vars

(* workspace_manager.py, reconcile: a sync that has listed the directory   *)
(* before the workspace was created and archived does not revive it.       *)
ArchivedIsFinal == [][ws.row = "archived" => ws'.row # "active"]_vars

(* routes/workspaces.py:517-519: a client whose predicate does not hold    *)
(* when the bytes are put cannot clobber the file.                         *)
RefusedWriteKeepsBytes == [][
    \A c \in Clients :
        /\ At(c, "put") /\ calls'[c].pc = "upsert"
        /\ index[Path(c)] # None /\ calls[c].cas \notin {NotSet, index[Path(c)]}
        => store' = store]_vars
=============================================================================
