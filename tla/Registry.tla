------------------------------ MODULE Registry ------------------------------
(***************************************************************************)
(* The two registries that are built on one pattern: agent_hosts           *)
(* (AgentHostRepo, HealthProbeLoop, SshDispatcher) and repos               *)
(* (RepoRegistryRepo, RepoHealthLoop, RepoFetcher).  Each is a table that  *)
(* operators edit, that a config file is synchronised into, whose status   *)
(* column a background loop and a route keep up, and to which the rows of  *)
(* works refer.  A behaviour of this module is one of the registry kind    *)
(* that is chosen at the start; where the two differ, the action says so.  *)
(*                                                                         *)
(* Every request reads first and writes after an await.  The references    *)
(* to a repository are those of one DevWork, with a push_state each, and   *)
(* DevWorkPublisher and the workers write it.                              *)
(***************************************************************************)
EXTENDS FiniteSets, Naturals

CONSTANTS
    Rows,       \* ids of hosts or repositories
    Kinds,      \* registries among which the behaviours choose
    Urls,       \* addresses: agent_hosts.host, repos.url
    Listed,     \* ids in config/agents.yaml, and local, or in config/repos.yaml
    ListedUrl,  \* their address there
    Clients,    \* slots for requests
    MaxEvents,  \* bound: requests of operators and workers, and restarts
    None

Statuses == {"unknown", "healthy", "failing"}   \* 'unhealthy' or 'error'
RowSet == [url : Urls, status : Statuses, about : Urls \cup {None}]

ASSUME RegistryAssumption ==
    /\ Listed \subseteq Rows /\ ListedUrl \in Urls
    /\ None \notin Urls /\ None \notin RowSet
    /\ Kinds \subseteq {"hosts", "repos"} /\ MaxEvents \in Nat

VARIABLES
    kind,     \* which registry
    table,    \* its rows; about is the address the status is about (a ghost)
    loop,     \* the rows the loop has read and not yet reported on
    clone,    \* origin of <registry>/repos/<id>.git, None if there is none
    refs,     \* the references of works to each row
    remote,   \* mounts whose DevWork branch is on the git remote
    calls,    \* requests in flight
    events    \* events so far

vars == <<kind, table, loop, clone, refs, remote, calls, events>>

NewRow(u) == [url |-> u, status |-> "unknown", about |-> None]
RefStates == {"none", "active", "past", "pending", "pushed", "failed", "deleted"}
NoCall == [op |-> "idle", row |-> None, url |-> None, todo |-> {}]

Init ==
    /\ kind \in Kinds
    /\ table = [r \in Rows |-> IF r \in Listed THEN NewRow(ListedUrl) ELSE None]
    /\ loop = [r \in Rows |-> None]
    /\ clone = [r \in Rows |-> None]
    /\ refs = [r \in Rows |-> "none"]
    /\ remote = {}
    /\ calls = [c \in Clients |-> NoCall]
    /\ events = 0

Event == events < MaxEvents /\ events' = events + 1
There(r) == table[r] # None
Refers(r) == refs[r] \notin {"none", "deleted"}
At(c, op) == calls[c].op = op
Row(c) == calls[c].row
Ask(c, op, r, u) ==
    /\ Event /\ At(c, "idle")
    /\ calls' = [calls EXCEPT ![c] = [NoCall EXCEPT !.op = op, !.row = r, !.url = u]]
Leave(c) == calls' = [calls EXCEPT ![c] = NoCall]

----------------------------------------------------------------------------
(* upsert, in one transaction: the status columns of a row that exists are *)
(* left alone.                                                             *)

\* A fault: it writes what it was given, the status column included.
UpsertedBlank(r, u) == [url |-> u, status |-> None, about |-> None]

Upserted(r, u) ==
    IF There(r) THEN [table[r] EXCEPT !.url = u] ELSE NewRow(u)

Upsert(r, u) == table' = [table EXCEPT ![r] = Upserted(r, u)]

\* POST: an id that is taken is refused before the upsert.
Create(c, r, u) ==
    /\ ~There(r)
    /\ Ask(c, "upsert", r, u)
    /\ UNCHANGED <<kind, table, loop, clone, refs, remote>>

\* PATCH: the row is read, merged with the payload, and written whole.
Patch(c, r, u) ==
    /\ There(r)
    /\ Ask(c, "upsert", r, u)
    /\ UNCHANGED <<kind, table, loop, clone, refs, remote>>

UpsertDone(c) ==
    /\ At(c, "upsert")
    /\ Upsert(Row(c), calls[c].url)
    /\ Leave(c)
    /\ UNCHANGED <<kind, loop, clone, refs, remote, events>>

\* DELETE: hosts count the queued and running dispatches, repositories the
\* references of works.
DeleteHost(r) == kind = "hosts" /\ refs[r] # "active"
DeleteRepo(r) == kind = "repos" /\ ~Refers(r)

Delete(c, r) ==
    /\ There(r) /\ (DeleteHost(r) \/ DeleteRepo(r))
    /\ Ask(c, "delete", r, None)
    /\ UNCHANGED <<kind, table, loop, clone, refs, remote>>

\* A fault: the foreign keys are not enforced.
DeleteUnguarded(c) ==
    /\ At(c, "delete")
    /\ table' = [table EXCEPT ![Row(c)] = None]
    /\ Leave(c)
    /\ UNCHANGED <<kind, loop, clone, refs, remote, events>>

\* The foreign keys hold for every row that refers to it, of any state.
DeleteRow(c) ==
    /\ At(c, "delete")
    /\ table' = IF ~Refers(Row(c)) THEN [table EXCEPT ![Row(c)] = None] ELSE table
    /\ Leave(c)
    /\ UNCHANGED <<kind, loop, clone, refs, remote, events>>

DeleteDone(c) == DeleteRow(c)

\* sync_from_config upserts the rows of the file, one by one, ...
Sync(c) ==
    /\ Event /\ At(c, "idle")
    /\ calls' = [calls EXCEPT ![c] = [NoCall EXCEPT !.op = "sync", !.todo = Listed]]
    /\ UNCHANGED <<kind, table, loop, clone, refs, remote>>

Served(c, r) == calls' = [calls EXCEPT ![c].todo = @ \ {r}]

SyncListed(c, r) ==
    /\ At(c, "sync") /\ r \in calls[c].todo
    /\ Upsert(r, ListedUrl)
    /\ Served(c, r)
    /\ UNCHANGED <<kind, loop, clone, refs, remote, events>>

\* ... then it reads which rows the file lacks, ...
SyncSelect(c) ==
    /\ At(c, "sync") /\ calls[c].todo = {}
    /\ calls' = [calls EXCEPT ![c].op = "stale",
                              ![c].todo = {r \in Rows \ Listed : There(r)}]
    /\ UNCHANGED <<kind, table, loop, clone, refs, remote, events>>

\* update_health, update_fetch_status: no row is made.
UpdateStatus(r, s, u) ==
    table' = IF There(r) THEN [table EXCEPT ![r].status = s, ![r].about = u] ELSE table

\* ... and marks them.
SyncStale(c, r) ==
    /\ At(c, "stale") /\ r \in calls[c].todo
    /\ UpdateStatus(r, "unknown", None)
    /\ Served(c, r)
    /\ UNCHANGED <<kind, loop, clone, refs, remote, events>>

SyncDone(c) ==
    /\ At(c, "stale") /\ calls[c].todo = {}
    /\ Leave(c)
    /\ UNCHANGED <<kind, table, loop, clone, refs, remote, events>>

----------------------------------------------------------------------------
(* The status: probe_once of the loop, and the route that does the same    *)
(* for one row.                                                            *)

\* fetch_or_clone: a clone is made from the row's url, a fetch asks the
\* origin that the clone has.  A clone that is killed at its timeout may
\* leave a directory, which the next call takes for a clone.
FetchOrClone(r, u, ok) ==
    /\ \/ clone' = [clone EXCEPT ![r] = IF @ = None THEN u ELSE @]
       \/ ~ok /\ UNCHANGED clone
    /\ UpdateStatus(r, IF ok THEN "healthy" ELSE "failing",
                    IF clone[r] = None THEN u ELSE clone[r])

\* SshDispatcher.healthcheck asks the address it has read.
Healthcheck(r, u, ok) ==
    /\ UpdateStatus(r, IF ok THEN "healthy" ELSE "failing", u)
    /\ UNCHANGED clone

Probe(r, u, ok) ==
    IF kind = "hosts" THEN Healthcheck(r, u, ok) ELSE FetchOrClone(r, u, ok)

\* A fault: a healthy row is left alone.
ProbeUnhealthy == {r \in Rows : There(r) /\ table[r].status # "healthy"}

\* list_all: every row.
ToProbe == {r \in Rows : There(r)}

ProbeOnce ==
    /\ \A r \in Rows : loop[r] = None
    /\ \E r \in ToProbe : loop' = [q \in Rows |-> IF q \in ToProbe THEN table[q].url ELSE None]
    /\ UNCHANGED <<kind, table, clone, refs, remote, calls, events>>

\* The answer for one row, after which its status is written.
ProbeOne(r) ==
    /\ loop[r] # None
    /\ \E ok \in BOOLEAN : Probe(r, loop[r], ok)
    /\ loop' = [loop EXCEPT ![r] = None]
    /\ UNCHANGED <<kind, refs, remote, calls, events>>

\* POST /agent-hosts/{id}/healthcheck, POST /repos/{id}/fetch.
ProbeRequest(c, r) ==
    /\ There(r)
    /\ Ask(c, "probe", r, table[r].url)
    /\ UNCHANGED <<kind, table, loop, clone, refs, remote>>

ProbeRequestDone(c) ==
    /\ At(c, "probe")
    /\ \E ok \in BOOLEAN : Probe(Row(c), calls[c].url, ok)
    /\ Leave(c)
    /\ UNCHANGED <<kind, loop, refs, remote, events>>

----------------------------------------------------------------------------
(* Works.                                                                  *)

\* choose_configured_host: a healthy host if there is one.
ChooseHost(r) ==
    /\ kind = "hosts" /\ There(r)
    /\ table[r].status = "healthy" \/ \A q \in Rows : There(q) => table[q].status # "healthy"

\* validate_dev_repo_refs and rev_parse: the row is healthy, with a clone.
ValidateRepoRefs(r) ==
    /\ kind = "repos" /\ There(r)
    /\ table[r].status = "healthy" /\ clone[r] # None

Bind(c, r) ==
    /\ refs[r] = "none" /\ (ChooseHost(r) \/ ValidateRepoRefs(r))
    /\ Ask(c, "bind", r, None)
    /\ UNCHANGED <<kind, table, loop, clone, refs, remote>>

\* The INSERT fails if the row is gone, or if the DevWork has the mount.
BindDone(c) ==
    /\ At(c, "bind")
    /\ refs' = IF There(Row(c)) /\ refs[Row(c)] = "none"
               THEN [refs EXCEPT ![Row(c)] = IF kind = "hosts" THEN "active" ELSE "pending"]
               ELSE refs
    /\ Leave(c)
    /\ UNCHANGED <<kind, table, loop, clone, remote, events>>

\* mark_finished: the dispatch row stays.
DispatchEnds(r) ==
    /\ refs[r] = "active"
    /\ refs' = [refs EXCEPT ![r] = "past"]
    /\ UNCHANGED <<kind, table, loop, clone, remote, calls, events>>

\* delete_terminal, delete: the work goes with its mounts and dispatches.
DeleteWork ==
    /\ Event
    /\ \E r \in Rows : Refers(r)
    /\ refs' = [r \in Rows |-> "deleted"]
    /\ UNCHANGED <<kind, table, loop, clone, remote, calls>>

----------------------------------------------------------------------------
(* POST /dev-works/{id}/push: DevWorkPublisher.                            *)

\* publish reads every row first; pushed ones are skipped.
Publish(c) ==
    LET todo == {r \in Rows : refs[r] \in {"pending", "failed"}}
    IN  /\ kind = "repos" /\ todo # {}
        /\ Event /\ At(c, "idle")
        /\ calls' = [calls EXCEPT ![c] = [NoCall EXCEPT !.op = "push", !.todo = todo]]
        /\ UNCHANGED <<kind, table, loop, clone, refs, remote>>

\* _publish_one: the branch reaches the remote or not, and git says that it
\* did or (a timeout included) that it did not.  A work that is gone has no
\* worktree.
PublishOne(c, r) ==
    /\ At(c, "push") /\ r \in calls[c].todo
    /\ \E reached, ok \in BOOLEAN :
        /\ ok => reached
        /\ reached => Refers(r)
        /\ remote' = IF reached THEN remote \cup {r} ELSE remote
        /\ calls' = [calls EXCEPT ![c].todo = @ \ {r}, ![c].row = r,
                         ![c].op = IF ok THEN "pushed" ELSE "failed"]
    /\ UNCHANGED <<kind, table, loop, clone, refs, events>>

\* A fault: the outcome is taken from the check of the base, before the push.
PublishUnpushed(c, r) ==
    /\ At(c, "push") /\ r \in calls[c].todo
    /\ calls' = [calls EXCEPT ![c].todo = @ \ {r}, ![c].row = r, ![c].op = "pushed"]
    /\ UNCHANGED <<kind, table, loop, clone, refs, remote, events>>

PublishMount(c, r) == PublishOne(c, r)

\* A fault: the guard is a check before the UPDATE, so late for it.
UpdateAnyPushState(r, s) ==
    refs' = IF Refers(r) THEN [refs EXCEPT ![r] = s] ELSE refs

\* update_push_state: one UPDATE with the guard in its WHERE clause.
UpdatePushState(r, s) ==
    refs' = IF Refers(r) /\ ~(refs[r] = "pushed" /\ s = "failed")
            THEN [refs EXCEPT ![r] = s] ELSE refs

\* After a push the error of the writeback ends the request; after a failed
\* push it is logged and the next mount follows.
RecordPush(c) ==
    /\ calls[c].op \in {"pushed", "failed"}
    /\ UpdatePushState(Row(c), calls[c].op)
    /\ calls' = [calls EXCEPT ![c] =
           IF @.todo = {} \/ (@.op = "pushed" /\ ~Refers(@.row))
           THEN NoCall ELSE [@ EXCEPT !.op = "push", !.row = None]]
    /\ UNCHANGED <<kind, table, loop, clone, remote, events>>

\* POST .../push-state of a worker that pushed, or not; reports are late and
\* come twice.
UpdateRepoPushState(r, s) ==
    /\ kind = "repos" /\ Event
    /\ Refers(r) /\ (s = "pushed" => r \in remote)
    /\ UpdatePushState(r, s)
    /\ UNCHANGED <<kind, table, loop, clone, remote, calls>>

----------------------------------------------------------------------------
(* Requests and the loop end with the process; at boot, sync.              *)
Restart ==
    /\ Event
    /\ loop' = [r \in Rows |-> None]
    /\ calls' = [c \in Clients |-> NoCall]
    /\ table' = [r \in Rows |->
           IF r \in Listed THEN Upserted(r, ListedUrl)
           ELSE IF There(r)
                THEN [table[r] EXCEPT !.status = "unknown", !.about = None] ELSE None]
    /\ UNCHANGED <<kind, clone, refs, remote>>

Request(c) ==
    \/ \E r \in Rows : Delete(c, r) \/ ProbeRequest(c, r) \/ Bind(c, r)
    \/ \E r \in Rows, u \in Urls : Create(c, r, u) \/ Patch(c, r, u)
    \/ Sync(c) \/ Publish(c)

Step(c) ==
    \/ UpsertDone(c) \/ DeleteDone(c) \/ SyncSelect(c) \/ SyncDone(c)
    \/ ProbeRequestDone(c) \/ BindDone(c) \/ RecordPush(c)
    \/ \E r \in Rows : SyncListed(c, r) \/ SyncStale(c, r) \/ PublishMount(c, r)

Next ==
    \/ \E c \in Clients : Request(c) \/ Step(c)
    \/ \E r \in Rows : ProbeOne(r) \/ DispatchEnds(r)
    \/ \E r \in Rows, s \in {"pushed", "failed"} : UpdateRepoPushState(r, s)
    \/ ProbeOnce \/ DeleteWork \/ Restart

\* The loop goes on (every error is caught per row and per tick), each probe
\* has a timeout, and requests that have begun end.
Spec ==
    /\ Init /\ [][Next]_vars
    /\ WF_vars(ProbeOnce)
    /\ \A r \in Rows : WF_vars(ProbeOne(r))
    /\ \A c \in Clients : WF_vars(Step(c))

----------------------------------------------------------------------------
(* Properties.                                                             *)

CallSet ==
    [op : {"idle", "upsert", "delete", "sync", "stale", "probe", "bind", "push",
           "pushed", "failed"},
     row : Rows \cup {None}, url : Urls \cup {None}, todo : SUBSET Rows]

TypeOK ==
    /\ kind \in Kinds
    /\ table \in [Rows -> RowSet \cup {None}]
    /\ loop \in [Rows -> Urls \cup {None}] /\ clone \in [Rows -> Urls \cup {None}]
    /\ refs \in [Rows -> RefStates] /\ remote \subseteq Rows
    /\ \A r \in Rows : refs[r] \in {"active", "past"} => kind = "hosts"
    /\ calls \in [Clients -> CallSet]
    /\ events \in 0..MaxEvents

\* AgentHostRepo.delete, RepoRegistryRepo.delete, the creation of works: no
\* work, dispatch or mount refers to a row that is gone, however a deletion
\* that has counted the references overlaps a creation that has read the row.
NoDanglingRef == \A r \in Rows : Refers(r) => There(r)

\* update_push_state: what a mount reports as pushed is on the remote, also
\* after two publishers and late reports of workers.
PushedIsOnRemote == \A r \in Rows : refs[r] = "pushed" => r \in remote

\* Push outcomes do not regress while the DevWork is there.
PushedIsFinal ==
    [][\A r \in Rows : refs[r] = "pushed" => refs'[r] \in {"pushed", "deleted"}]_refs

\* HealthProbeLoop, agent_hosts/repo.py: whatever edits, deletions and probes
\* in flight overlap, the status of a host comes to be about its address.
StatusOfHosts ==
    kind = "hosts" => \A r \in Rows : []<>(There(r) => table[r].about = table[r].url)
=============================================================================
