# Formal models of cooagents

cooagents is a FastAPI server that turns requirements into design documents
(DesignWork) and design documents into reviewed code (DevWork) by driving LLM
agents. One asyncio event loop, one SQLite connection, a file store that is
mirrored to agent hosts, and acpx processes for the agents. Nothing in the server
runs in parallel, and nearly everything in it interleaves: every `await` gives way
to other requests, to driver tasks and to background loops, and a restart drops all
tasks while rows, files and processes stay.

Paths below are those of the repository.

## 1. Inventory

| Component | State | Operations | Interacts with |
|---|---|---|---|
| DevWork machine (`src/dev_work_sm.py`, `src/dev_work_steps.py`, `src/dev_iteration_note_manager.py`, `routes/dev_works.py`) | `dev_works` row (step, rounds, `gates_json`), `dev_iteration_notes`, `reviews`; in memory `_running`, `_active_sessions` | create, tick, run_to_completion, six step handlers, retries, escalate, cancel, rerun, continue, resume-step, delete | database, LLM runner, file registry |
| Database (`src/database.py`) | connection, `_in_transaction` | execute, execute_rowcount, fetch, transaction, lock retry, migrations | everyone |
| DesignWork machine (`src/design_work_sm.py`) and documents (`src/design_doc_manager.py`) | `design_works`, `design_docs`, the output file; in memory `_running` | create, retry, tick, handlers D0 to D6, cancel, rerun, delete, persist, publish | LLM runner, validator, file registry |
| Workspaces and files (`src/storage/*`, `src/workspace_manager.py`, `src/workspace_file_refs.py`, `routes/workspaces.py`) | directory and row of a slug, objects in the store, `workspace_files`, references | register (store, then row), index_existing, delete, compare hash, create, archive, reconcile | machines, workers |
| Agent worker (`src/agent_worker/*`) | a host's copy of a workspace | index, recovery scan, materialise, acpx, diff and posts, exit codes | workspace files and executions over HTTP |
| Executions and janitors (`src/agent_hosts/execution_repo.py`, `src/acpx_janitor.py`, `src/acpx_remote_janitor.py`) | `agent_executions` (state, lease, process) | create, heartbeat, process started, mark state, clean-up | LLM runner, hosts |
| Hosts and dispatch (`src/agent_hosts/*`) | `agent_hosts`, `agent_dispatches` | CRUD, sync, probe, choose, SSH run, dispatch states | LLM runner |
| LLM runner (`src/llm_runner.py`, `src/acpx_executor.py`) | acpx sessions and processes | ensure, prompt with progress and idle timeout, one-shot, delete, boot sweep | machines |
| Repositories (`src/repos/*`) | `repos`, bare clones | CRUD, sync, fetch or clone, health loop, inspect | DevWork |
| Push state (`src/repos/dev_work_repo_state.py`, `publisher.py`) | `dev_work_repos.push_state`, the git remote | pending, pushed, failed | worker, DevWork |
| Events, webhooks | rows and deliveries | emit, deliver | machines |
| Reviewer, plan audit, validators, prompts | none | pure functions | machines |
| app, auth, config, deployment, web, scripts | wiring | lifespan, boot sweep | all |

What is hard about it:

* **interleaving at awaits**: handlers, requests and loops write from rows they have read
  before; cancel, delete, `/tick` and edits run meanwhile;
* **several writes that belong together**: resume key, counter and escalation of a
  DevWork; object and row of a file; document, publication and completion of a
  DesignWork; statements inside `transaction()`;
* **parties that outlive each other**: acpx processes without an owner, a worker whose SSH
  command has timed out, POSTs of a dead worker, late push reports;
* **restarts**: tasks and caches go, rows stay, nothing is rescheduled;
* **read-modify-write of `gates_json`** by handlers and calls alike;
* **bounds**: max_rounds, max_loops, one retry per step and round, `_MAX_TICKS`, lock
  retries, the LIMIT of the janitor's list.

What makes each part correct: a DevWork is completed only by a passing review of the round
its latest note plans, never runs two live drivers, can be resumed after an escalation
that says so, and closes its sessions; an acknowledged write is kept and a transaction is
whole; a completed DesignWork has the document it published itself; a worker's run
replaces only what it started on; a closed call has no process at work, and an orphan comes
to an end; references keep their row; a push that is reported is on the remote.

## 2. Modules

| Module | Models | Kind |
|---|---|---|
| `DevWorkLifecycle` | what an operator is promised: moves between steps, the budget of rounds, the calls | abstract specification |
| `DevWork` | one DevWork in detail: every handler cut where an interruption can be observed, retries, escalation, driver, restart, exceptions, calls, sessions | implements `DevWorkLifecycle` |
| `DevWorkActors` | who works on one DevWork at once: drivers, `/tick` requests, overlapping calls | await-to-await interleaving |
| `Database` | one connection and one flag shared by all tasks | await-to-await interleaving |
| `DesignWork` | DesignWorks that may share a slug: handlers, drivers, `/tick`, calls, documents, agents that outlive their task, restarts | await-to-await interleaving |
| `WorkspaceFiles` | one slug: directory, row, store, index, references, requests, a worker's run on each host | server composed with workers |
| `Executions` | LLM calls: dispatch row, execution row, processes, both janitors, crashes | server composed with workers and janitors |
| `Registry` | hosts and repositories, which are built on one pattern, with probes, references of works and push states | await-to-await interleaving |
| `MCDevWorkActors`, `MCDesignWork`, `MCWorkspaceFiles` | symmetry, and for `MCDevWorkActors` a bound, for TLC | model-checking modules |
| `DevWork_proofs`, `DevWorkActors_proofs`, `Database_proofs`, `DesignWork_proofs`, `WorkspaceFiles_proofs`, `Executions_proofs`, `Registry_proofs` | theorems | TLAPS |

In every module an action is what one task does between two awaits (in `DevWork`: between
two points where an interruption can be observed). A statement takes effect in the action
that issues it, because aiosqlite serves its queue in order; what a task has read before
is in its own record. Operators under the comment "A fault" are not part of any behaviour:
each is the next definition with a plausible mistake, and shows that a property can fail.

### DevWork and the code

| Variable | Code |
|---|---|
| `step`, `rounds` | `dev_works.current_step`, `iteration_rounds`; `"DELETED"` when the row is gone |
| `gates` | keys of `gates_json` that steer control: `retried` (`step2_retry_round<n>`, ...), `max_rounds_override`, `resume_after_max_rounds`, `resume_after_step_failure`, `cancelled_from_step` |
| `notes`, `reviews` | rounds with a note; verdicts recorded for the current round |
| `worker` | the task inside `tick()`: driver or request, and the await it is at (`llm`, `noted`, `retry4`, `reviewed`, `maxStored`, `escalate`) |
| `ticks` | iterations of the loop in `run_to_completion` |
| `sess` | `_active_sessions[dev_id]` |
| `sched` | a call has committed and its route has not reached `schedule_driver` |
| `cause` | the `reason` of the escalation |

One action per piece of a handler (`S2Begin`, `S2Failed`, `S2Record`, ...), one per
call. Contents of prompts, notes, findings and reviews are reduced to the branch the
handler takes on them. Retry keys and reviews of earlier rounds are dropped because the code
never reads them again. One simplification: preparing worktrees and artifacts, which a
second run repeats, is part of the action that follows it.

### DevWorkActors and the code

`DevWork` and `DevWorkActors` split one machine in two on purpose. `DevWork` keeps
all control of the handlers and lets one task at a time work on the row.
`DevWorkActors` keeps all interleavings and reduces a handler to the writes that
its step can make: the guarded transition, the unguarded writes (`Overwrite`,
`CountRound`, `Escalate`) and the read-modify-write of `gates_json`.

`row` is the database row, `running` is `_running[dev_id]`, a record of `tasks` holds
what a task has read (its `dw` or the `gates_json` it will write back) and whether a
CancelledError is on its way (`hit`); a record of `calls` likewise for cancel, revive
(rerun, continue, resume-step) and delete. Checks happen when a reply arrives, in the action
of the next statement. `ghost` remembers a cancel that no rerun has followed, and whether the
behaviour has `/tick` requests.

### Database and the code

`inTransaction` is the flag, `open` and `pending` the connection's transaction,
`stored` what is committed, `pc` where a task is in `execute` or `transaction`. Python's
sqlite3 opens a transaction before a writing statement, also before one that is then
refused. `patient` are the calls whose number of attempts was fixed while the flag was down,
`Undo` is the rollback and retry of a locked statement. `Faults` selects what may go wrong: a
lock, a refused statement, a cancelled task. `Overlap` lets tasks start while others are at an
await, as tasks of one event loop do; `shared` is history, the calls that others ran beside.

### DesignWork and the code

| Variable | Code |
|---|---|
| `rows` | `design_works`: state, loop, slug, mode, whether `gates_json` has a prompt, `cancelled_from_state`, the prompt file compared by mtime with the output, the link to the document |
| `output` | the file at the output path, which follows from the slug alone |
| `docs` | the row of `design_docs` for slug and version, with its text |
| `running`, `tasks` | `_running`; drivers and `/tick` requests with the row they have read |
| `calls` | create, retry, cancel, rerun and delete between two awaits |
| `agents` | acpx processes whose task was cancelled or lost; nobody kills them |

A text is its author and whether the validator accepts it. `D0Init` to `D6Complete` are the
handlers; `LateWrite` is an agent that nobody awaits any more.

### WorkspaceFiles and the code

| Variable | Code |
|---|---|
| `oss` | `settings.storage.oss.enabled`: a bucket that hosts read too, or the local store |
| `ws` | the `workspaces` row and the directory |
| `store`, `index`, `refs` | FileStore, `workspace_files`, `workspace_file_refs` |
| `protected` | the rows of `workspace_files` with a protected kind: what the last writer said, whatever the path |
| `calls` | requests between two awaits; a host has one slot, for its POSTs |
| `tree`, `runs` | WORKSPACES_ROOT of a host; `run` of `cooagents-worker` (`pre_index`, `pre_files`, what is left to do, and, as history, the files edited under it between scan and launch) |

A content is its hash. `RegisterPut` and `Upsert` are the two halves of `register`; the
actions named after functions of `workspace_manager.py`, `materialize.py`, `recovery.py` and
`cli.py` are what these do up to the next await.

### Executions and the code

| Variable | Code |
|---|---|
| `calls` | where the owner is: `LLMRunner` in the server, or `cooagents-worker` |
| `ssh` | delegated calls whose SSH command the server still awaits |
| `dispatch`, `rows` | `agent_dispatches.state`; `agent_executions` (state and the process it names) |
| `lapsed` | rows past `lease_expires_at`, the oldest first |
| `procs` | the last process of a call and how it ended |
| `janitors` | `AcpxJanitor` and `cleanup-once`, with the rows they have read |
| `kill` | `settings.acpx.cleanup_kill_enabled` |

### Registry and the code

`kind` is chosen once: `agent_hosts` or `repos`. `table` has their rows (`about` is a ghost:
the address the status is about), `loop` what `probe_once` has read, `clone` the origin of a
bare clone, `refs` the dispatches of a host or the mounts of one DevWork with their
`push_state`, `remote` the branches on the git remote, `calls` the requests of operators and
the publisher between two awaits. A synchronisation works row by row. A failed clone may leave a
directory or not. Where hosts and repositories differ (`DeleteHost` and
`DeleteRepo`, `Healthcheck` and `FetchOrClone`, `ChooseHost` and `ValidateRepoRefs`) there is
an operator for each.

## 3. Runs

| Run | Checks | Result |
|---|---|---|
| `devwork_safety` | `TypeOK`, `BreakerUnused`, `CompletedEarned`, `EscalationKeepsResume`, `SessionsClosed`, `ColdReviewer`, `NotesTrackRounds`, `MaxResumeCurrent`, refinement `LifecycleSpec` | hold |
| `devwork_liveness` | `RunsSettle` | holds |
| `actors_calls` | `TypeOK`, `OneDriver`, `CompletedIsFinal`, `TickYieldsToDriver` | hold |
| `actors_driver` | `SnapshotCurrent`, `NoTornSession`, `RoundsGrow`, `CancelReturns` | hold |
| `actors_reopened` | `CancelSticks` | violated |
| `database_serial` | `AckedWriteKept`, `AllOrNothing` | hold |
| `database_wedged` | `AutoCommitOutside` | violated |
| `design_race` | `TypeOK`, `CompletedHasDoc`, `OneDriver`, `PublishedValidated`, `StagesMoveForward` | hold |
| `files` | `TypeOK`, `ForeignKeysHold`, `AcpxSeesIndex`, `RunReplacesItsStart`, `LocalFilesKept`, `ArchivedIsFinal` | hold |
| `files_clobbered` | `RefusedWriteKeepsBytes` | violated |
| `executions` | `TypeOK`, `EndedBeforeClose`, `SuccessIsTheProcess`, `OrphansEnd` | hold |
| `registry` | `TypeOK`, `NoDanglingRef`, `PushedIsOnRemote`, `PushedIsFinal`, `StatusOfHosts` | hold |

### What the violated properties show

* `CancelSticks`: all writes of a handler except `_transition` ignore the current step,
  so one that is issued between cancel's UPDATE and `task.cancel()` undoes the cancel.
* `AutoCommitOutside`: a refused statement leaves an implicit transaction open, the next
  `BEGIN` fails before the `try`, and the flag stays set: what is acknowledged from then on
  is not committed.
* `RefusedWriteKeepsBytes`: `register` puts the bytes before `upsert` compares the hash. A
  POST that is answered 412 has replaced the object, and its row goes on to describe the bytes
  that were there. (Only a first write to the bucket is conditional.)

### Where a property stops

Each exclusion in a property is a behaviour of the code that the property would not survive.

* `SnapshotCurrent`: no `/tick`, and the step and the round only: `gates_json` does go stale. (It
  survives any number of operator calls: the proof needs no bound on them, and the run that
  checks it has one only because it shares its cfg with the next two.)
* `RoundsGrow`: no `/tick`, and one operator call at a time. With a second call, an update that
  lock retries delay over a whole cancel and rerun succeeds with the counter it had read,
  because it compares the step only.
* `NoTornSession`: lost with two calls, when a delete passes its checks while a cancel still
  awaits the driver.
* `AckedWriteKept`, `AllOrNothing`: calls that nobody ran beside. Overlapping calls have no
  promise: a write joins an open `transaction()` of somebody else and goes with its ROLLBACK,
  the retry of one locked `execute()` rolls back what another has pending, and the `finally` of
  one transaction lowers the flag under the next. All of it is in the model, so the promise is
  kept to the others through whatever it leaves behind. A task cancelled inside `transaction()`
  rolls nothing back; its outcome is neither success nor failure, and `AllOrNothing` says nothing
  of it.
* `OneDriver` of `DesignWork`: without `/tick`, because D6 unregisters whoever is registered;
  and one operator call at a time. A rerun whose `schedule_driver` is delayed over a whole
  cancel and rerun by somebody else starts a driver beside theirs once D6 has taken that one
  from the register (TLC shows it as soon as `Clients` has two members).
* `PublishedValidated`: one operator call at a time, without `/tick`, a second DesignWork of
  the slug, or an agent that writes between D5 and D6: D6 publishes what it finds and ignores
  its own report.
* `AcpxSeesIndex`, `RunReplacesItsStart`: not for files that the operator of a host, or another
  run in its directory, edits between a run's scan and its launch. `LocalFilesKept`: the files that
  the scan has found. `_atomic_write` looks at nothing, so one that appears later is replaced.
* Nothing is said of which files may be deleted or cited: `POST /files` writes any kind over a
  row's, `workspace.md` included. What is kept are the references (`ForeignKeysHold`).
* `OrphansEnd`: only with kills enabled, for a process that its live row names, and not while
  a janitor is at work on an earlier process of the same row (`Outdated`).
* `StatusOfHosts`: a repository's status may stay about the url before a PATCH, because an
  existing clone keeps its origin.

Disagreements between code and text that no run states: STEP2 is not idempotent (the module
docstring says the handlers are; a second INSERT of the note is refused, and the row
escalates without a resume key); the checks of `delete_terminal` are old by the time of its
DELETE; `README.md` draws the escalation of a DesignWork one loop earlier than the code;
`agent_worker/__init__.py` says that diverging files are pulled, and the worker refuses to run; the
docstring of `POST /files` has 409 for an archived workspace, and the route answers 400.

### Bounds

* `devwork_safety`: `MaxRounds = 1`, `HardMax = 2`, `RoundCap = 1`, `MaxTicks = 20`.
  Two continued rounds, overrides 0 to 2, a round resumed beyond the budget, and every
  order of interruptions in each. `RoundCap` stops restarts of a row beyond that round.
  20 ticks equal `2 + 9 * HardMax`, the bound the proof shows to suffice, so the run
  examines that bound exactly.
* `devwork_liveness`: `MaxTicks = 7` makes the circuit breaker fire, `RoundCap = 0`.
* `actors_*`: two driver slots (one unwinding, one registered), one request slot, one or
  two call slots. Slots are used again and again, so the number of calls is unbounded.
  `MaxRound` is the last round that is worked on. The specification lets any calls and
  `/tick` requests overlap; in `actors_calls` the constraint `TickBound` of the model-checking
  module explores the behaviours with `/tick` requests (`ghost.ticks`) with one call at a time and
  in the first round. The theorems do not have this bound.
* `database_*`: two transactions of two statements and two single writes: one that breaks,
  one that meets what it left, and a single write on each side. In `database_serial` all four
  overlap in any way; `database_wedged` needs no overlap.
* `design_race`: two DesignWorks and one slug, so that they share path and document; two
  slots for drivers and requests, one for calls, `MaxLoops = 1`. `MaxEvents = 4` counts
  cancels, reruns, deletes, `/tick`s, lost prompts and restarts of one DesignWork,
  `MaxShared = 1` those once there are two; agents' late writes are not counted.
* `files`: `workspace.md` and one other file, two contents, two clients, one host,
  `MaxEvents = 5`: a creation, a write, a run, an edit in or under it and another event; awaits
  within them are not counted. `files_clobbered` needs one client.
* `executions`: one call of the server and one of a worker, each with its janitor,
  `MaxEvents = 2`: two of the lost callbacks, stalls, timeouts, cancels and crashes, so that
  one can hit the recovery from another, and one when kills are disabled. Each janitor lists the
  rows of its own host, of which there is one here, so that `ListLimit` never bites. A call
  spawns at most two processes.
* `registry`: two rows of which one is in the config file, two addresses, two clients,
  `MaxEvents = 4`. With two clients every check can be old when its write comes.

`CHECK_DEADLOCK FALSE` everywhere: a DevWork that is completed or deleted, a task
that has returned, a call that is done and a model that has used up its events really stop.

### Fairness

* `devwork_liveness` assumes that what has begun goes on: weak fairness of the handler
  steps of the task that is working and of the route that will call `schedule_driver`. LLM
  calls end by their timeouts. Nobody owes the system a `/tick`, a rerun or a cancel, so
  those have no fairness, and neither has an interruption. `RunsSettle` therefore says
  that a scheduled run starts and that a driver's row settles, and excuses a run that is
  cancelled, killed, or dies of an exception while it handles another.
* `actors_driver` assumes that the event loop runs every task and call that has begun.
* `executions`: each janitor's loop goes on (errors are caught per row and per round), and a
  lease that nobody renews expires. No process is promised to end and no call to go on.
* `registry`: the health loop goes on (errors are caught per row and per tick), each probe has a
  timeout, and requests that have begun end. Nobody owes a request.
* `design_race`, `files` and the database runs check safety only. In particular nothing
  schedules the drivers of DesignWorks after a restart, so their progress is not promised.

## 4. Proofs

All theorems are for every value of the constants that the module's named assumption allows.

| Module | Theorem | States |
|---|---|---|
| `DevWork_proofs` | `TypeCorrect` | `Spec => []TypeOK` |
| | `BreakerNeverFires` | `MaxTicks >= 2 + 9 * HardMax` implies `Spec => []BreakerUnused` |
| | `EscalationResumable` | `Spec => []EscalationKeepsResume` |
| | `ResumeKeyCurrent` | `Spec => []MaxResumeCurrent` |
| | `ImplementsLifecycle` | `Spec => LifecycleSpec` |
| | `NotesFollowRounds` | `Spec => []NotesTrackRounds` |
| | `CompletionEarned` | `Spec => []CompletedEarned` |
| | `TerminalSessionsClosed` | `Spec => []SessionsClosed` |
| | `ReviewerIsCold` | `Spec => []ColdReviewer` |
| `DevWorkActors_proofs` | `TypeCorrect` | `Spec => []TypeOK` |
| | `OneDriverAtATime` | `Spec => []OneDriver` |
| | `SnapshotStaysCurrent` | `Spec => []SnapshotCurrent` |
| | `CompletedStaysFinal` | `Spec => CompletedIsFinal` |
| | `TickYields` | `Spec => TickYieldsToDriver` |
| | `SessionsNotTorn` | `OneCall` implies `Spec => []NoTornSession` |
| | `RoundsOnlyGrow` | `OneCall` implies `Spec => RoundsGrow` |
| `DesignWork_proofs` | `TypeCorrect` | `Spec => []TypeOK` |
| | `CompletedIsLinked` | `Spec => []CompletedHasDoc` |
| | `DriversRegistered` | `Spec => [](Registered /\ Counted)` |
| | `StagesForward` | `Spec => StagesMoveForward` |
| | `OneDriverAtATime` | `OneCall` implies `Spec => []OneDriver` |
| | `PublishedPassed` | `OneCall` implies `Spec => []PublishedValidated` |
| `Database_proofs` | `AckedKept` | `Spec => []AckedWriteKept` |
| | `TransactionsWhole` | `Spec => []AllOrNothing` |
| `WorkspaceFiles_proofs` | `TypesHold` | `Spec => []TypeOK` |
| | `AcpxStartsOnIndex` | `Spec => []AcpxSeesIndex` |
| | `RunReplacesStart` | `Spec => RunReplacesItsStart` |
| | `LocalKept` | `Spec => LocalFilesKept` |
| | `KeysHold` | `Spec => []ForeignKeysHold` |
| | `ArchivedFinal` | `Spec => ArchivedIsFinal` |
| `Executions_proofs` | `TypeCorrect` | `Spec => []TypeOK` |
| | `NobodyAtWork` | `Spec => []EndedBeforeClose` |
| | `SuccessEarned` | `Spec => []SuccessIsTheProcess` |
| `Registry_proofs` | `TypeCorrect` | `Spec => [](TypeOK /\ Aimed)` |
| | `NoDangling` | `Spec => []NoDanglingRef` |
| | `PushedFinal` | `Spec => PushedIsFinal` |
| | `PushedOnRemote` | `Spec => []PushedIsOnRemote` |

**DevWork.** `BreakerNeverFires` adds its inequality, which the code satisfies (600 against
452).

* `IInv == TypeOK /\ Control /\ Keys /\ TickBudget` is inductive. `TypeOK` alone is not:
  that `Escalate` or `BumpRounds` does the right thing depends on which step the worker
  can be at (`Control`) and on which key was stored on the way there (`Keys`).
* `Keys` holds that a resume key is stored before the escalation it explains, that
  `completed_round` is the row's counter or one more, and that it is not below the budget;
  without the last the refinement of `Continue` fails.
* `TickBudget` is the variant of the driver: ticks made, plus those the round can still
  need from where it is (each step once, each unused retry once, the way back from STEP5 to
  STEP4), plus nine for each round left, never exceed `2 + 9 * HardMax`. A tick pays
  one from the round, a retry its mark, a new round nine.
* The refinement maps `budget` to `ResolvedMax` and `from` to `gates.cancelledFrom`.
* `CompletedEarned` needs `Recorded`: from STEP3 on, and wherever a cancel or an escalation
  can send the work back there, there is a note; and while STEP5 awaits its reviewer or acts on
  the verdict, the round under review has its own. `NotesTrackRounds` is a part of it.
* `SessionsClosed` and `ColdReviewer` need `Sessions`: which role can have a session open at
  which step and await, and that only an escalation holds one of a round already counted.

**DevWorkActors.** Everything rests on `IInv == TypeOK /\ Checked /\ Registered`: a task that
writes has passed the checks of its handler, and what `_running` holds is alive and not
cancelled. `OneDriver` is a part of `Registered`, and `/tick` yields because of it.

* `Snapshot` is why one driver is enough: without `/tick`, the row that a driver has read
  changes in step and round under it only by a cancel whose `task.cancel()` is still to come (its call is at
  `kill`) or by a delete. It holds for any number of calls. `CompletedIsFinal` follows: nobody who
  can still write the step holds a row that is COMPLETED.
* `Serial` is what one call at a time adds (`OneCall`): a cancelled task is awaited by its
  cancel, no driver is registered meanwhile, and what a rerun has read is current. It is inductive
  only together with `NoTornSession`.

**DesignWork.** `IInv == RowsOK /\ FilesOK /\ TasksOK /\ CallsOK /\ RestOK`. Apart from types,
`TasksOK` says what a task has done before it got where it is (`Fine`): past the INSERT the
document of the slug is its own, past `publish` it is published and linked. That a row keeps its
slug and its link, and a document its author (`RowsKept`, `DocsKept`), is proved of every
step, and used by the rest.

* Tasks write a row in five ways, calls in three. The lemmas
  `HowRowsMove`, `HowTasksMove`, `HowCallsMove` and `HowFilesMove` reduce each step, once, to a few
  relations between old and new state (`RowMoves`, `TasksMove`, `CallsMove`, `FilesMove`); every
  invariant below is proved from these.
* `CompletedHasDoc` from `Linked`, which `Fine` keeps.
* `Registered`: every driver is in `_running`, except one that has `Left`, has nothing to do and
  can never have again. `Counted`: a driver at work has the loop of the row, so that an UPDATE of
  the loop takes it forward: `StagesMoveForward`.
* With one call at a time, `Calm`: while a rerun is under way no task of the DesignWork is
  alive (`Fresh`), its row is as it was read (`Asked`), and tasks of one DesignWork are one task
  (`Sole`, which is `OneDriver`).
* `PublishedValidated` says something of the end of D6 that was decided at D5, with cancels and
  reruns in between. `Settled` carries it: once anything says PERSIST (the row, where a rerun
  goes back to, what a task or a cancel has read: `Arrived`), the DesignWork stays there, its
  task is in D6, and the file on the disk and the text in the task's hands have passed (`Ready`).
  `Signed` says whose document it is, `Valid` is the result.

**Database.** The two promises are not inductive: a rollback may meet a transaction that
somebody else has left open. `Inv` adds that tasks at an await beside others are in `shared`,
that while a transaction has the connection to itself the flag is up and what is pending is
its own (`Inside`), and what holds of a single statement (`Outside`): once acknowledged, it is
`Safe`, stored, or pending in a connection that is `Wedged`, with the flag up over an open
transaction and nobody inside to lower it, and so can neither commit nor roll back. A step is
proved once as the others see it (`Frame`, `OthersKept`) and once as the acting task does (`Own`,
`OneStep`). Both theorems cover any overlap and all three faults.

**WorkspaceFiles.** `TypeOK` includes that a request that will write knows file and content
(`Aimed`); `TypeInv` adds that a run posts only files that are there. `RunInv` follows a run:
what is not left to pull has the content of its row, unless it was edited under the run
(`Pulls`), acpx starts on the whole index, with the same exception (`Starts`), and a POST's
predicate is what the run started on (`Posts`). That other writers leave a run alone
(`WorkersApart`) is what makes it inductive. Keys and archiving follow from the conditions of
`Upsert`, `DeleteRow` and `RolledBack`; the kinds of rows play no part in them.

**Executions.** `Inv` says of each call whose process may be alive at which point of its owner
(`ProcOfCall`), that an outcome of success stands for the process's own end (`OutcomeOfCall`),
and that a dispatch of the server is closed last (`ClosedLast`). Janitors only signal, which
keeps all three. The types need more than themselves: that a call has two processes at most
follows from the turn it is in and from how far it is (`Spawned`), and that a row is listed as
lapsed once from `RemovedOne`. For that proof `RenewLease` takes out the first occurrence
(`RemoveFirst`, written with `SubSeq`) and not all of them (`SelectSeq`, which the provers
cannot expand); in a list without duplicates the two are the same.

**Registry.** References are kept by the foreign keys alone: `ReferencesKept` never uses the
counts of the deletions. `PushedIsOnRemote` needs that a publisher that is about to write `pushed`
has seen the branch arrive.

Every invariant and every action property that the passing runs check is a theorem.
Model-checked only is liveness (`RunsSettle`, `CancelReturns`, `OrphansEnd`, `StatusOfHosts`).
Liveness under fairness, `ENABLED`, induction over data and `RECURSIVE` operators are beyond the
installed provers and stay with TLC; no module declares a `RECURSIVE` operator. What a theorem
assumes (`OneCall`, no `/tick`) is also what its run is limited to; section 3 says what
goes wrong without it.

## 5. Not modelled

* Contents of prompts, notes, findings, reviews and feedback: `src/reviewer.py`,
  `src/dev_plan_audit.py`, `src/design_validator.py` and the composers are functions of
  text, and the machines take their verdicts as nondeterministic.
* Events, webhooks and `workspace.md`'s contents: no branch of a machine depends on them.
* DevWork: the unique index that allows one active DevWork per design document, several
  DevWorks at once, the progress snapshot. DesignWork: mode=optimize beyond its
  pre-validation, attachments, dispatch rows.
* Files: listing and paging, mtime bookkeeping, conversion of uploads. Abstracted in executions:
  reuse of a pid, the cwd check of the validation, counters of attempts. Hosts: `max_concurrent`,
  which nothing enforces. Repositories: the inspector, which only reads.
* Two server processes on one database, and a crash of SQLite itself; migrations.
* Authentication, deployment, file conversion, user interface, scripts.
* An `asyncio` task that swallows its CancelledError: none of the handlers does.

Modelled with every operation that changes state: design documents, executions and
janitors, hosts and dispatch, repositories, push state and publisher. The other modelled
components leave out an operation of those above.

## 6. Plan

1. Theorems: what remains of `OneDriver` and `PublishedValidated` of `DesignWork`, and of
   `RoundsGrow` and `NoTornSession` of `DevWorkActors`, with several calls at once.
2. `ActiveDevWork`: create, rerun and continue of several DevWorks of one design document
   against the partial unique index.
3. `SessionCache`: `_run_llm_session` holds a reference to the per-work dictionary across
   awaits in which `_delete_all_sessions` replaces it.
4. Score coercion and plan audit as operators against reference definitions.
