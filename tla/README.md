# A TLA+ model of WVS, the workspace version service

WVS keeps versioned workspaces on a JuiceFS volume. Clients ask for a
workspace, for a snapshot of it, for a snapshot to be dropped or to become the
current one; every such request becomes a row of a task table in PostgreSQL,
which workers take and carry out through an executor that owns the volume.

This directory holds the specifications of that machinery, the TLC
configurations that check them and the proofs that TLAPS checks. Paths are
relative to the root of the repository (`src/` in PROJECT.json).

## 1. Inventory

| Part | Code | State | Operations |
|---|---|---|---|
| Task store | `internal/store/tasks.sql.go`, `migrations/` | `wvs.tasks`: status, attempt, next_run_at, cancel_requested | insert, dequeue (`FOR UPDATE SKIP LOCKED`), complete, fail, mark dead, two cancellations, counts |
| Workspace and snapshot tables | `internal/store/workspaces.sql.go`, `snapshots.sql.go` | state, current_snapshot_id; deleted_at | insert, set state, set current, mark deleted |
| API | `internal/api/*_handler.go` | none but what an invocation has read | create, retry-init, disable; snapshot create, drop; set current; cancel; read-only listings |
| Worker | `internal/worker` | the dequeued row, the lock transaction | `Run`, `executeWithLock`, `dispatch`, `onSuccess`, `failTask` |
| Executor | `internal/executor` | `/ws/<wsid>`: `live/`, `snapshots/`, the `current` link, `.wvs/control.json` | init, snapshot create, drop, set current; quiesce and resume |
| Guest agent | outside the repository | what it has acknowledged in control.json | freeze, thaw |
| Core | `internal/core` | none | statuses, request hash, ids |
| CLI | `cmd/wvsctl` | none | requests, `task watch` |
| The rest | observability, middleware, audit, mains, deployment | none that a decision depends on | |

**Interaction.** API and workers share nothing but the database. A handler
runs several statements in autocommit mode: it reads the workspace, maybe a
snapshot, and inserts a task. A worker polls: it dequeues the oldest task that
is due (one statement, which increments `attempt`), looks at
`cancel_requested` in the row it got, opens a transaction, takes the advisory
lock of the workspace, for a drop re-checks references and marks the snapshot
deleted, commits, *then* calls the executor over gRPC, and finally writes the
result in one or two statements whose errors it discards. The executor works
on the volume; snapshot and set_current first ask the guest to stop writing.

**What is hard.** Several workers and API processes interleave between
statements; values read are used later (the worker's copy of the row, the
handler's copy of the workspace); calls are repeated up to `max_attempts`
times after partial effects; a process or a statement can fail anywhere; the
database and the file system are updated one after the other. The list
`hazards` of PROJECT.json names each place with its line and the properties
that watch it.

**What makes each part correct.**

- Task engine: a task has one owner; its status follows the life cycle;
  attempts are bounded; a terminal row is final; a cancellation's answer stays
  true and stops retries; a task that was accepted ends.
- Snapshots: a row that is visible has its directory; a dropped one is gone.
- Workspaces: ACTIVE means initialised; PROVISIONING has somebody who will end
  it; DISABLED is final.
- Executor: a repeated operation has the effect of one; the link always names a
  complete directory; a clone is taken of a frozen workspace, and the guest is
  let go afterwards.
- API: one key, one task, one answer; a listing is in order and loses nothing.

## 2. Modules

```
Store  <-  TaskLifecycle
  ^              ^ (refinement)
  |              |
TaskEngine ------+  <-  TaskEngineProofs
  ^                           ^
ControlPlane  <-  ControlPlaneProofs  <-  ControlPlaneSnapshotProofs
  |     |                                            ^
  |     +--> SnapshotLifecycle (refinement)   ControlPlaneInitProofs
  v
WorkspaceFs
  ^
  | (every step on the volume is one of its steps)
  |
Executor  <-  ExecutorProofs
  |
  v
Quiesce

Idempotency <- IdempotencyProofs      Pagination <- PaginationProofs
```

Arrows lead to the module that is extended, or to the abstract specification.
Each `MC<module>` extends its module and gives the constants of the runs.

**Store** — the rows of `wvs.tasks` and one operator per SQL statement: the
WHERE clause as a predicate on a row, the SET clause as a function from table
to table. Task ids are numbered in the order of `created_at`, so the dequeue's
`ORDER BY created_at` is `<`. `next_run_at <= now()` is the Boolean `due`:
FailTask puts it in the future, time passes in `TaskEngine!BackoffElapsed`.
`attempt < max_attempts` appears in `CountedActive` as in the SQL: a task
RUNNING its last attempt is *not* counted.

**TaskLifecycle** — the abstract specification: what a client may see happen
to the status and the attempt of a task. Nothing in it says who does it.

**TaskEngine** — the table, the workers (where `Run` is and the copy of the row
it works on) and the invocations of `CancelTask`. One action per statement or
decision:

| Action | Code |
|---|---|
| `Dequeue`, `CancelObserved`, `Begin` | `worker.go` 47-81 |
| `ExecuteOk`, `ExecuteFail` | the answer of lock, checks and executor, refined by ControlPlane |
| `Complete`, `Fail`, `Dead` | `dispatch.go` 125-132, 134-154 |
| `CancelRead`, `CancelPending`, `RequestCancel`, `CancelMissed` | `task_handler.go` 88-126 |
| `LoseWrite`, `LoseDequeued`, `LoseCancel` | a statement fails, before or after it took effect |
| `Crash`, `Restart` | the worker process |

**ControlPlane** — extends TaskEngine: every engine action is joined with what
it does to workspaces, snapshots, locks and the file system, and the handlers
and the steps between two engine actions are added.

| Variable | Code |
|---|---|
| `jobs` | the columns wsid, op, params of a task, fixed at the INSERT |
| `workspaces`, `snapshots` | the two tables |
| `handlers` | one record per concurrent invocation: next statement, what it has read |
| `stage` | where `executeWithLock` and `dispatch` are |
| `owed` | `failTask` has written DEAD for an init task and not yet INIT_FAILED |
| `locks` | the holder of each advisory lock; released by a commit, by the server as soon as a failed statement or commit has ended the transaction or else by the deferred Rollback after `failTask` (`TxFails` has both), or with the connection of a process that dies |
| `fs` | per workspace: `init`, the link exists; `current`, the live directory it names; `cloned`, `whole`, `metas`, the directories that exist, those whose clone has ended, those with a `.wvs/snapshot.json`; `premature`, the snapshots that had one before their clone had ended |
| `forgotten` | the tasks a call of which was given up and may still be running |

A snapshot's id is the number of the task that creates it and a live
directory's id the number of the set_current task that clones it, as both are
minted with the task. The commit of a drop is a single step with its mark;
`TxFails` covers a commit that took effect and reported an error.

A call of the executor is one step with the outcomes of WorkspaceFs: it does
what it is to do (`Executed`), or it fails and has done nothing, a part or all of
it (`Interrupted`). Two things are not one step, because others see them:

- set_current clones (`CloneSnapshot`) and then switches (`SwitchLink`). Nothing
  keeps two switches of a workspace apart, and all use the one name
  `current.tmp`: what a switch puts in place is the live directory of any switch
  that is under way (`Switching`, `Links`), given-up calls included, and a switch
  that fails may have its own or another's link in place.
- A call whose connection breaks, or whose worker dies, goes on. `AnswerLost` and
  `WorkerCrash` put its task among the `forgotten`, and from then on `Outlive` lets
  it take any of the steps a call of its kind has (`WorkspaceFs!Outlived`), while
  its task is retried and later tasks of the workspace run, and after they have
  ended.

`PlaneNext` has every fault, `Calm` none.

**WorkspaceFs** — what the calls of the four operations do to the directory of a
workspace, as functions from file systems to sets of file systems. `Executed` and
`Interrupted` are whole calls, `Outlived` a single step of one. A clone copies the
`snapshot.json` of its source, and a live directory that set_current has made has
one: from the first switch on a snapshot's clone may bring the file along, early
or late (`BegunWithMeta`, `CloneStep`), and `SnapshotCreate` answers success when
it finds the file, whatever else is there.

**SnapshotLifecycle** — the abstract specification of a snapshot, its row and its
directory taken together: the directory is completed, then the row inserted, then
marked, then the directory removed, and no step is taken back. A snapshot may
come *loose*; then its directory may come and go, but its row keeps its order and
no other snapshot is affected. ControlPlane implements it with the directories of
all workspaces in one set (`Directories`), so a drop sent to another workspace
than the snapshot's is included: it marks the row and removes nothing. Loose are
the snapshots whose creating call was given up and those whose metadata came
early, since of these the code does not keep the order (section 4). It may begin
with snapshots that exist, as a service does that is started on its database.

**Quiesce** — `control.json` and the guest. The agent is not in the repository;
it does what `quiesce.go` and the protocol expect, in the most favourable way
(it looks at the file and acts in one step).

**Executor** — the executor at work on one workspace. `calls` has one record
per `ExecuteTask` in progress: where it is, its task, the result it has settled,
whether its worker still waits. `link`, `tmp`, `dirs`, `whole` and `metas` are
the volume: what `current` and `current.tmp` point to, the directories that
exist, those whose clone is complete, those with a `snapshot.json` of their own
or copied from the source. `premature` is there for the properties: the snapshots
that had one before their clone had ended.

| Action | Code |
|---|---|
| `Start`, `Finish` | `dispatch.go` 53-67, `server.go` |
| `TestDone`, `FindSource` | the idempotency test at the head of each operation; `EvalSymlinks`, `Stat` |
| `MakeDirs`, `LinkInitial` | `init_workspace.go` |
| `Remove` | `snapshot_drop.go` |
| `ReadControl`, `AssumeFrozen`, `RequestFreeze`, `Acknowledged`, `GiveUp`, `Resume` | `quiesce.go` |
| `CloneBegins`, `CloneEnds`, `CloneFails` | `juicefs clone` as `clone.go` runs it: not atomic; the source's `snapshot.json` may arrive before the rest |
| `WriteMeta` | `snapshot_create.go` 57-70; the write may fail with the file there |
| `RemoveTmp`, `MakeTmp`, `Rename`, `CleanUp` | `switch.go` |
| `LoseAnswer` | the connection breaks, the worker fails the attempt, the call goes on |
| `ControlWriteFails` | `control.json` is not written, or left empty |
| `ExecutorCrash` | the process dies with all its calls |

The advisory lock is released before the executor is called, so nothing
restricts which calls of a workspace overlap: `ExecSpec` and `SteadySpec` (no
crash, no lost answer, `control.json` can be written) have them all.
`SerialSpec` has one call after the other and is used for the two
counterexamples only, which do not need more. A reader may find `control.json`
truncated while another call writes it (`Readable`). `lone` marks a call that
began with the workspace to itself, and is there for `LoneCallWorksFrozen` only.

**Idempotency** — one workspace, clients that send a request until they are
answered, invocations of the four handlers, statement by statement: the tests
before the lookup, `GetTaskByIdempotencyKey`, the inserts. A 500 or a lost
answer leaves the client without one. `Elsewhere` lets workers and other
requests change what the tests look at. `HashOf` stands for SHA-256 of the
sorted body, method and path, taken to be injective.

**Pagination** — the three listings. `List` is one request: the limit is
parsed, the page selected by `created_at < cursor`, the next cursor taken from
its last row. `created_at` is the time a statement began and may be older than
a page already read; rows with the same time come in any order.

## 3. Runs and what they show

Bounds are the CONSTANTS of each cfg; `NTasks` bounds the rows ever inserted
(`Room` keeps handlers from asking for more), `MaxAttempts` stands for the 5 of
the handlers: 2 is the least that has both a retry and a last attempt, 1 is
used in the run `executor_unfrozen`, whose counterexample needs no retry.

| Run | Shows | Bounds |
|---|---|---|
| `task_engine` | `SingleOwner`, `AttemptBudget`, `RepliesHold`, `CancelStopsRetries`, `EveryStepCounts`, `TerminalIsFinal`, `ImplementsLifecycle`, with every fault | 2 tasks, 2 attempts, 2 workers, 2 cancellations: two workers compete for one row while two cancellations race them, and a second task separates the queue's order |
| `task_engine_live` | `NothingIsStranded`, `EveryTaskEnds`, `ImplementsFairLifecycle`, no faults | 3 tasks, 2 attempts, 2 workers, 1 cancellation |
| `control_plane_faults` | `VisibleSnapshotHasDirectory`, `SucceededDropIsComplete`, `SucceededCreateIsThere`, `LockDiscipline`, `ImplementsSnapshots` | 2 workspaces and one snapshot exist, two more tasks of two attempts, 2 handlers, 2 workers, every fault: two operations with their retries and given-up calls overlap in any order, and a drop may come under the name of the other workspace (`DropsInB`, the constraint of the cfg: nothing else is asked for there) |
| `control_plane_init` | `ActiveIsInitialised`, `DisabledIsFinal`, `DeciderIsKept` | from the empty service, create, retry-init and disable by 2 handlers, 1 cancellation, 2 tasks, 2 attempts, 2 workers, every fault: a retry-init that began before a disable finishes after it, an init task is retried, cancelled or lost, and a second one runs beside it |
| `control_plane_live` | `ProvisioningIsPending`, `AcceptedTaskEnds`, `WorkspaceIsDecided` | every request but disable by 2 handlers, 3 tasks, 2 attempts, 2 workers, no faults, no cancellation |
| `executor_faults` | `LinkNeverDangles`, `SnapshotIsThere`, `InitialIsNotRestored`, `VolumeStepsAreKnown`, every fault | 2 calls at a time; a workspace with a snapshot, two switches to it, a second snapshot and its drop, each called up to twice: two switches share `current.tmp`, a forgotten call meets its retry, a snapshot is taken after a switch and dropped while a given-up call for it still runs |
| `executor_steady` | `FreezeIsOwed`, `LoneCallWorksFrozen`, `GuestIsResumed` | 2 calls; an init, two snapshots and a switch to the first, each called up to twice, overlapping in any way |
| `idempotency` | `OneTaskPerKey`, `RepliesAreTrue`, `MismatchIsTrue`, `EveryoneIsAnswered` | 4 clients with one key: two set_current that differ in the body, a drop, a create; 2 invocations, 1 fault. snapshot_create runs the statements of a drop without those about the snapshot |
| `pagination` | `NewestFirst`, `NothingIsMissed`, `ListingEnds` | 4 rows on 3 times, every limit up to the maximum of 3: rows share a time within a page, across its end, and outnumber a page |

`Prepared` (MCControlPlane) starts from a workspace that has been created and
has one snapshot, and from a second workspace where the run has one: the state
the service is in after its first two or three tasks, so that the bounds are
spent on what follows. A drop or a switch of a snapshot is a third task at the
earliest, which is why the run of the empty service leaves them to the others.
`Prepared` (MCExecutor) does the same for `executor_faults`: the workspace exists
and has a snapshot, a first call for its init task may still be about to make the
link, and each switch has been called once without effect. The other executor
runs begin with an empty volume.

The run of `ProvisioningIsPending` and `WorkspaceIsDecided` has no cancellation
because cancelling an init task does strand a workspace (below).
`control_plane_live` leaves out disable to keep it to a few minutes: that a
disable which races with retry-init leaves nobody undecided is `DeciderIsKept`,
checked in `control_plane_init` and proved without bounds.

`DeciderIsKept` is what holds of PROVISIONING with every fault, every request and
cancellations: a workspace that has a decider (`Decider`: a handler about to
insert its init task, the task in the queue, the worker that has it, one about to
write INIT_FAILED) keeps one until it has been decided, unless something in
`Orphaned` happens. That list is the code's own: the INSERT after the row or the
reset (not in one transaction with it), `CancelTask` on an init task, a result,
status or INIT_FAILED whose write is lost, a worker that dies.

Three properties on snapshots name an exception, since the code breaks them
without it. `VisibleSnapshotHasDirectory`, `SucceededCreateIsThere` and, in
Executor, `SnapshotIsThere` except snapshots whose metadata came before the end
of their clone (`premature`), and the first and the last say that there are none
in a workspace that has not switched; `executor_partial` shows the exception is
needed. `SucceededDropIsComplete` excepts a snapshot whose creating call was given
up, which may clone, or make the directory again with MkdirAll, after the drop.

`VolumeStepsAreKnown` ties Executor to ControlPlane: seen through `Volume`, each
file-system step of the executor is a step that `WorkspaceFs!Outlived` knows of a
call of that kind, or a switch that puts a whole live directory in place, which is
what `Outlive` and `SwitchLink` do. A crash of the executor may be a step of
several calls at once and is left out.

`EveryStepCounts` and `NothingIsStranded` are what `EveryTaskEnds` rests on, and
can be proved. The first attaches a number to each task (`StepsLeft`: five for
each attempt left, the stage of the one that runs, one for the flag and one for
a backoff) and says that every step on the task or by its worker lowers it, with
faults as without. The second says that a task which has not ended always has
somebody or something to move it on. It is false with faults, where a task may
stay RUNNING with nobody (section 4).

`DisabledIsFinal` is as much as holds of "disabled": from the moment that no
handler is past retry-init's test, no init task is active and no worker owes
INIT_FAILED (`Retired`), the workspace stays DISABLED, whatever is requested or
fails afterwards.

Deadlock is checked where faults let every worker crash and restart; without
faults the bounded service stops when its last task has ended, and so do the
bounded executor, the clients of Idempotency and a listing; their cfgs say so.

**Fairness.** Liveness of the engine and of the service is claimed without
faults only. Then a worker's loop never stops (`Run` returns on shutdown only),
every statement and call returns, an invocation of the API goes on with what it
has begun, and time passes the `next_run_at` of a failed task: weak fairness of
`Work`/`WorkStep`, of the handlers' `Finishing` steps and of `BackoffElapsed`.
Nobody has to send a request or a cancellation. Weak fairness suffices for the
advisory lock: a waiting worker's lock is let go and stays free unless another
task of the same workspace takes it, and tasks are bounded in attempts. In the
executor a call goes on (its poll has a deadline, its clone a context), weakly
fair per call; that the guest acts is the agent's duty, weakly fair as well, and
only `GuestIsResumed` needs it. In Idempotency an invocation goes on, and a
client without an answer sends again: strongly fair, because the bound on
concurrent invocations is the model's and a server takes every request in the
end. `EveryoneIsAnswered` leaves out init_workspace, whose request is answered
500 for ever once its workspace exists and its task does not. A client that
pages asks on while it is given a cursor.

## 4. Where the code and the documents disagree

Three of the disagreements have a run that expects a violation and an entry under
`findings`.

| Run | The document says | The code does |
|---|---|---|
| `plane_protected_deleted` | a drop deletes neither the current snapshot nor one that an active task refers to | set_current inserts its task without the lock, between the drop's check and its commit; one worker is enough |
| `executor_unfrozen` | snapshot and set_current work on a frozen guest only | REQUEST_RESUME, not yet acted on, is taken for the absence of a guest; one call after the other and a guest that always confirms are enough |
| `executor_partial` | snapshot_create takes a snapshot for done when its directory is there and its `snapshot.json` is complete | the file alone is looked at, and a workspace that has switched passes the file of the snapshot it came from on to every clone: a clone that fails half way is taken for done by the retry. One call after the other and one failed clone are enough |

Others were met on the way and are left to the reader of the code, since they
need a step or two only:

- A drop that waits in the queue behind a set_current of the same snapshot
  deletes what has become the current one: its handler compared the two when
  the request arrived, and the worker's re-check asks about tasks only.
- A result that cannot be written leaves its task RUNNING for ever;
  `timeout_seconds` is stored and never read. The architecture review says it
  times out and is retried.
- Two set_current tasks of one workspace run in parallel, since the lock is
  released before the executor is called: link and row may end on different
  snapshots. The technical document (line 828) and the review call them
  serialised. So does a set_current whose switch succeeds when its answer or its
  UPDATE is lost.
- A call goes on when its connection breaks: a late snapshot_create may bring
  back the directory of a snapshot that was dropped in between.
- Cancelling a PENDING init task, or losing the second statement of create,
  retry-init or `failTask`, leaves a workspace PROVISIONING: no request leads
  out of it.
- `CountActiveTasks` does not count a task in its last attempt, so a workspace
  is disabled under it; if it is the init task its success makes the workspace
  ACTIVE again, although a disabled one is to refuse every write. A retry-init
  past its test does the same with PROVISIONING. `DisabledIsFinal` names
  everything that can undo a disable.

The model behaves as the code does where the documents say something simpler,
without a run for it: a running task whose cancellation was requested may end
SUCCEEDED, because the flag is read once, at the dequeue (the document: it is
set to CANCELED); an init task is DEAD and its workspace PROVISIONING when the
second of `failTask`'s statements is lost; set_current does not compare the
snapshot's workspace; a snapshot request is accepted while the workspace is
PROVISIONING or INIT_FAILED.

## 5. Proofs

`TaskEngineProofs` proves, for every `NTasks` in Nat, every positive
`MaxAttempts` and any sets of workers and cancellations, the safety properties
of the run `task_engine`: `TypeCorrect`, `OneOwner`, `Budget`,
`RepliesStayTrue`, `NoRetryAfterCancel`, `TerminalRowsAreFinal` and
`EngineImplementsLifecycle`, and of the run `task_engine_live`
`NobodyIsForgotten`. The only assumptions are the two on the constants
(`NTasksAssumption`, `MaxAttemptsAssumption` in Store).

The argument is one inductive invariant, `IInv`. `SingleOwner` alone is nearly
inductive: the dequeue takes PENDING and FAILED rows only, and an owner's row is
RUNNING. The others lean on it: `AttemptBudget` needs that the worker's copy of
the attempt is the row's; `CancelStopsRetries` needs that an acknowledged
cancellation is in the row and therefore in the copy of any worker that dequeues
it later (`CancelsOK`), and that a worker which executes has seen none
(`ExecutorsUncancelled`); `RepliesHold` needs that a PENDING row has never run
(`RowsOK`). First come lemmas that say what each statement does to the row it
names; then the invariant, with one lemma for each action; then the action
property and the refinement, one step for each action again.

`EveryStepIsProgress` proves `EveryStepCounts`: `IInv` gives each busy worker a
task of its own, so who holds a task, and with it `StepsOfAttempt`, changes only
by that worker's step; an attempt is counted when it is taken, which pays for the
steps within it. `NobodyIsForgotten` is about `FaultFreeNext`: beside `IInv`
(which knows of the attempts left) `WaitingOK` says that a PENDING row is due and
that a RUNNING one has a worker.

`ControlPlaneProofs` does the same for the whole service, for any sets of
workspaces, handlers and requests as well. `PlaneIsEngine`, a lemma, says that
ControlPlane has been put together as it should: each of its steps is a step of
the engine or leaves its variables alone, so `IInv` holds of the service too.
`PlaneInv` adds what the theorems (`PlaneTypes`, `VisibleIsComplete`,
`ActiveHasDirectories`, `DropIsForGood`) need to be inductive.

- `CreatorsOK` is its heart: once a snapshot has a row, the task that created it
  is beyond its executor call for good, because the row is written by a worker
  that has succeeded, its row says RUNNING, and nothing makes a RUNNING row due
  again except a worker that failed with it. Therefore no attempt recreates a
  directory whose drop has marked the row; only a call that was given up can.
- `FilesOK`: metadata are in a complete directory, or came early, or belong to a
  snapshot whose row is marked. It is what makes the `Stat` of snapshot_create
  mean anything, and `premature` is exactly where it does not.
- `ForgottenOK`: a drop whose call was given up had committed its mark, so what
  such a call removes is no longer visible.
- `WorkerOK` ties the stage of a worker to the data (a drop calls the executor
  only after its mark is committed; what a success is about to record is on the
  file system) and `HandlerOK` what an invocation has checked to what still
  holds when it inserts its task.

The proof first states once what any step may do (`EngineFrame`, `PlaneFrame`),
derives the safety properties from that, and leaves to the single actions that
they fit the frame and keep their own worker's or handler's part. All calls,
whole ones, failed ones and steps of those given up, are covered by `Touches`:
whatever they do, but for the switch of the link (`LinkFrame`), is done to one
snapshot or live directory, and takes away from it only where a drop's mark or an
unfinished clone allows. TLC finds `PlaneInv`, and `OwedOK`,
`OneOwed` and `LookupOK` below, to hold on the instances of `control_plane_faults`
and `control_plane_init`. The one thing the proof rests on that would change if the
code were repaired is that no RUNNING row is ever retried: a reaper of stuck
tasks would need a new argument for `CreatorsOK`.

`ExecutorProofs` has no bound on calls, tasks or attempts, and assumes only what
Executor's ASSUMEs say: tasks are numbered from 1, and what is dropped or made
current is a snapshot. `ExecInv` is inductive for every step of `ExecSpec`. Its
parts: `CallsFit` (a call is where its operation can be, and its task has been
called), `CloneOK` (the clone of a directory nobody removes is the affair of one
call, because `juicefs clone` refuses a destination that exists; what the call
has achieved, the whole directory and then the metadata, stays), `VolumeOK` (a
link, `current.tmp` included, names whole live directories), `SourceOK` (a
snapshot is cloned from the initial content, or the workspace has switched) and
`AnswersOK`. `Spared` names the directories this is about: live ones, and
snapshots no drop of which has begun; `Kept` leaves out those whose metadata
came early. `StepKeeps` proves the invariant once for any step that moves one
call and is `Gentle` to the volume, and each action is shown to be such a step;
a start, a lost answer and a crash are done by themselves. From it follow
`ExecutorTypes`, `LinkIsSound`, `SnapshotStays` and `NoWayBack`. For
`SteadySpec`, which `executor_steady` checks with fairness, `SteadyInv` adds to
`FreezeIsOwed` that the file is never left empty and, for a lone call, where the
file and the guest are in each of its phases: `FreezeIsAlwaysOwed`,
`LoneCallIsSafe`.

`IdempotencyProofs` proves the safety properties of the run `idempotency` for
any clients, invocations, ids and faults (`IdTypes`, `KeyIsOneTask`,
`AcceptedIsTrue`, `MismatchIsReal`): rows are only ever added, so what an answer
says of a row stays true; each row was asked for by some client.
`PaginationProofs` proves `PageTypes`, `ListingIsOrdered` and
`ListingIsComplete` for any finite set of rows, any times and limits: what has
been listed is not older than the cursor, and every row that was there all the
time is older than the cursor, or has been listed, or shares its time with one
that has.

`ControlPlaneSnapshotProofs` goes on from `PlaneInv`, every fault included.
`LocksAreReleased`: the invariant `LockInv` adds that a worker which owes
INIT_FAILED is idle (`OwedOK`). A worker in its transaction (`InLock`) has its
lock for certain; one that has failed there, or owes INIT_FAILED, may have it or
not, as the server may have ended the transaction before the Rollback
(`MayHold`), and nobody else has one. One lemma (`LockStep`) covers every step
that takes no lock, and the two that take or keep one are done by themselves.
`HoldersDoNotWait`: who waits for a lock is in the stage `begin` and holds none,
so no circle of workers can form; with `LocksAreReleased` it is the safety half
of `AcceptedTaskEnds`.

`PlaneImplementsSnapshots`: as each directory belongs to one workspace
(`OneDirectory`), the union of all of them behaves as one place. Few kinds of step
touch rows or directories (`DataStepKinds`): a mark is `MarkDeleted` or nothing,
`onSuccess` is `List` or nothing, a call is `Clone`, `Remove` or nothing, or a
`LooseStep` when its snapshot is loose or becomes so (`TouchIsStep`), and so is a
worker's giving up (`GivingUpIsStep`) and each step of a call after that
(`OutliveIsStep`). That a call never clones twice or after the mark is
`CreatorsOK` again. `CreatedIsKept` is a part of `PlaneInv`: from the end of the
call that made it, a directory is reduced only by a call for a drop of it, after
the row has been marked.

As every step of the service is one of the engine, what is proved of the engine
holds of the service: `ServiceStepsCount` with every fault and
`ServiceForgetsNobody` without faults (`CalmIsFaultFree`).

`ControlPlaneInitProofs` is about the state of a workspace, every fault included.

- `DisabledStaysDisabled`: each of the writers of a workspace's state has to begin
  with something that `Retired` excludes (an init task that is RUNNING, a debt of
  INIT_FAILED, a handler past retry-init's test), and each of these begins with
  one of the others, or with a workspace that is INIT_FAILED or does not exist.
  `LookupOK` adds that a handler which looks a snapshot up inserts no init task.
- `DecidersAreKept`: the witness moves, from the handler to the task
  (`InsertingIsKept`), from the task to the worker that dequeues it
  (`QueuedStep`, `QueuedIsKept`), from the worker to the next attempt or to the
  debt of INIT_FAILED (`DecidingIsKept`), and ends with the write of ACTIVE or
  INIT_FAILED (`OwedIsKept`). It needs `LockInv`, since a worker that had a task
  and a debt at once would forget one, and that a worker owes one workspace at a
  time (`OneOwed`). The case that is easy to overlook is a worker that has written
  ACTIVE and not yet SUCCEEDED: its task still says RUNNING, but after another
  retry-init it would decide nothing, and `Deciding` leaves it out.

Only model-checked are:

- liveness, since fairness and ENABLED are beyond the prover: `EveryTaskEnds`,
  `ImplementsFairLifecycle`, `AcceptedTaskEnds`, `WorkspaceIsDecided`,
  `GuestIsResumed`, `EveryoneIsAnswered`, `ListingEnds`;
- `ProvisioningIsPending`, the plain form without faults or cancellations of what
  `DecidersAreKept` proves with them;
- `VolumeStepsAreKnown`, the tie between Executor and WorkspaceFs.

Every other invariant, action property and refinement that a passing run checks
is also a theorem. The types of Idempotency and Pagination (`IdTypes`,
`PageTypes`) are proved only: no run repeats them.

## 6. Not modelled

- The CLI sends one request and prints the answer. `task watch` stops at FAILED,
  although the task may be retried (see `hazards`).
- Validation and formatting of requests, audit rows, metrics, logs, middleware,
  the handlers that return one row, deployment: no decision modelled here
  depends on them.
- The request hash bit by bit. `sortedJSON` has a unit test for each of its
  cases; what Idempotency needs of it is that equal requests have equal hashes
  and different ones different hashes.
- The executor's operations on several workspaces: they share no file.

PostgreSQL, JuiceFS and gRPC are taken to do what the code relies on: a
statement is atomic, an advisory lock excludes and goes with its transaction or
connection, `rename` is atomic, `symlink` fails for a name that exists, a clone
fails for a destination that exists and changes nothing, and it needs no more of
its source than that the directory exists when it begins. The volume keeps what
was written to it.
