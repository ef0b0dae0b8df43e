---------------------------- MODULE ControlPlane -----------------------------
(***************************************************************************)
(* The service around the task engine: the API handlers that insert tasks   *)
(* (internal/api), what the worker does while it executes one               *)
(* (executeWithLock, dispatch, onSuccess, failTask) and the effect of the   *)
(* executor on the file system of a workspace (internal/executor).          *)
(*                                                                          *)
(* The module extends TaskEngine: every step on a task or a worker is a     *)
(* step of the engine, joined with what it does to the workspaces, the      *)
(* snapshots, the advisory locks and the file system.  Each statement,      *)
(* transaction and executor call is one step, but that a set_current clones *)
(* in one and switches in the next.  A call may outlive the attempt that    *)
(* made it.                                                                 *)
(*                                                                          *)
(* A snapshot id is the number of the task that creates it and a live       *)
(* directory's id the number of the set_current task that clones it: both   *)
(* are minted by the handler together with the task id.                     *)
(***************************************************************************)
EXTENDS TaskEngine, WorkspaceFs, FiniteSets

CONSTANTS
  Workspace,   \* workspace ids
  Handler,     \* concurrent invocations of the API
  Requests     \* which requests clients make, a subset of Request

Op      == {"init_workspace", "snapshot_create", "snapshot_drop", "set_current"}
Request == {"create", "retry_init", "disable", "snapshot", "drop", "set_current"}

ASSUME RequestsAssumption == Requests \subseteq Request

VARIABLES
  jobs,        \* columns wsid, op and params.snapshot_id of every task
  workspaces,  \* wvs.workspaces: state and current_snapshot_id
  snapshots,   \* wvs.snapshots: "absent", "present" or "deleted" (deleted_at)
  handlers,    \* per invocation: where it is and what it has read
  stage,       \* per worker: where executeWithLock and dispatch are
  owed,        \* per worker: workspaces whose INIT_FAILED it has yet to write
  locks,       \* the advisory lock of each workspace: who holds it
  fs,          \* what is on the file system of each workspace
  forgotten    \* tasks a call of which was given up and may still be running

planeVars ==
  <<jobs, workspaces, snapshots, handlers, stage, owed, locks, fs, forgotten>>
vars == <<engineVars, planeVars>>

WsState  == {"PROVISIONING", "ACTIVE", "INIT_FAILED", "DISABLED"}
SnapID   == TaskID \cup {NoTask}      \* NoTask: NULL
Job      == [op : Op, ws : Workspace, snap : SnapID]
NoJob    == [op |-> "none", ws |-> Absent, snap |-> NoTask]

Stage ==
  { "none",      \* not executing
    "begin",     \* waiting for the advisory lock
    "locked",    \* holds it
    "checked",   \* snapshot_drop: the references have been checked
    "dispatch",  \* set_current, the lock is released: the noop check
    "call",      \* the executor call
    "switch",    \* set_current's call has cloned and switches the link
    "post",      \* the executor has answered: onSuccess's first statement
    "complete" } \* CompleteTask is what is left

HandlerPc == {"idle", "insert", "reset", "count", "disable", "lookup"}
IdleHandler == [pc |-> "idle", op |-> "none", ws |-> Absent,
                snap |-> NoTask, current |-> NoTask]

WsRow == [state : WsState \cup {Absent}, current : SnapID]
HandlerState == [pc : HandlerPc, op : Op \cup {"none", "disable"},
                 ws : Workspace \cup {Absent}, snap : SnapID, current : SnapID]

(* What the operations of WorkspaceFs work on. *)
FsState == [init : BOOLEAN, current : SnapID, cloned : SUBSET TaskID,
            whole : SUBSET TaskID, metas : SUBSET TaskID, premature : SUBSET TaskID]
NewFs == [init |-> FALSE, current |-> NoTask, cloned |-> {},
          whole |-> {}, metas |-> {}, premature |-> {}]

PlaneTypeOK ==
  /\ TypeOK
  /\ jobs \in [TaskID -> Job \cup {NoJob}]
  /\ workspaces \in [Workspace -> WsRow]
  /\ snapshots \in [TaskID -> {"absent", "present", "deleted"}]
  /\ handlers \in [Handler -> HandlerState]
  /\ stage \in [Worker -> Stage]
  /\ owed \in [Worker -> SUBSET Workspace]
  /\ locks \in [Workspace -> SUBSET Worker]
  /\ fs \in [Workspace -> FsState]
  /\ forgotten \subseteq TaskID

PlaneInit ==
  /\ EngineInit
  /\ jobs       = [t \in TaskID |-> NoJob]
  /\ workspaces = [ws \in Workspace |-> [state |-> Absent, current |-> NoTask]]
  /\ snapshots  = [s \in TaskID |-> "absent"]
  /\ handlers   = [h \in Handler |-> IdleHandler]
  /\ stage      = [w \in Worker |-> "none"]
  /\ owed       = [w \in Worker |-> {}]
  /\ locks      = [ws \in Workspace |-> {}]
  /\ fs         = [ws \in Workspace |-> NewFs]
  /\ forgotten  = {}

-----------------------------------------------------------------------------
(* Handlers.  Idempotency keys are all different here. *)

HandlerOnly == UNCHANGED <<engineVars, jobs, snapshots, stage, owed, locks, fs, forgotten>>

(* An invocation starts, having read the current snapshot of ws or not. *)
Enter(h, p, op, ws, s, cur) ==
  handlers' = [handlers EXCEPT ![h] =
    [pc |-> p, op |-> op, ws |-> ws, snap |-> s, current |-> cur]]
Continue(h, p) == handlers' = [handlers EXCEPT ![h].pc = p]
Return(h)      == handlers' = [handlers EXCEPT ![h] = IdleHandler]

SetState(ws, st) == workspaces' = [workspaces EXCEPT ![ws].state = st]

(* The bound NTasks: no request is accepted for which no row would be left. *)
Room ==
  Cardinality({g \in Handler : handlers[g].pc \in {"insert", "reset", "lookup"}})
    < Cardinality({t \in TaskID : ~Exists(tasks[t])})

(* CreateWorkspace: the row first, the init task in a later statement. *)
InsertWorkspace(h, ws) ==
  /\ "create" \in Requests /\ Room
  /\ handlers[h].pc = "idle"
  /\ workspaces[ws].state = Absent
  /\ SetState(ws, "PROVISIONING")
  /\ Enter(h, "insert", "init_workspace", ws, NoTask, NoTask)
  /\ HandlerOnly

(* Mutant: any workspace that exists can be initialised again. *)
RetryInitReadAny(h, ws) ==
  /\ "retry_init" \in Requests /\ Room
  /\ handlers[h].pc = "idle"
  /\ workspaces[ws].state # Absent
  /\ Enter(h, "reset", "init_workspace", ws, NoTask, NoTask)
  /\ UNCHANGED workspaces /\ HandlerOnly

(* RetryInit: reads the state, resets it, inserts the task. *)
RetryInitRead(h, ws) ==
  /\ "retry_init" \in Requests /\ Room
  /\ handlers[h].pc = "idle"
  /\ workspaces[ws].state = "INIT_FAILED"
  /\ Enter(h, "reset", "init_workspace", ws, NoTask, NoTask)
  /\ UNCHANGED workspaces /\ HandlerOnly

RetryInitReset(h) ==
  /\ handlers[h].pc = "reset"
  /\ SetState(handlers[h].ws, "PROVISIONING")
  /\ Continue(h, "insert")
  /\ HandlerOnly

(* DisableWorkspace: reads the state, counts the active tasks, disables. *)
DisableRead(h, ws) ==
  /\ "disable" \in Requests
  /\ handlers[h].pc = "idle"
  /\ workspaces[ws].state \notin {Absent, "DISABLED"}
  /\ Enter(h, "count", "disable", ws, NoTask, NoTask)
  /\ UNCHANGED workspaces /\ HandlerOnly

ActiveTasks(ws) == {t \in TaskID : CountedActive(tasks[t]) /\ jobs[t].ws = ws}

DisableCount(h) ==
  /\ handlers[h].pc = "count"
  /\ IF ActiveTasks(handlers[h].ws) = {}
       THEN Continue(h, "disable")
       ELSE Return(h)                  \* 409
  /\ UNCHANGED workspaces /\ HandlerOnly

Disable(h) ==
  /\ handlers[h].pc = "disable"
  /\ SetState(handlers[h].ws, "DISABLED")
  /\ Return(h)
  /\ HandlerOnly

(* CreateSnapshot, DropSnapshot and SetCurrent start with GetWorkspace and  *)
(* refuse a workspace that is DISABLED, but none that is not ACTIVE.        *)
Serving(ws) == workspaces[ws].state \notin {Absent, "DISABLED"}

SnapshotRead(h, ws) ==
  /\ "snapshot" \in Requests /\ Room
  /\ handlers[h].pc = "idle" /\ Serving(ws)
  /\ Enter(h, "insert", "snapshot_create", ws, NoTask, NoTask)
  /\ UNCHANGED workspaces /\ HandlerOnly

ReadForSnapshot(h, ws, s, op) ==
  /\ handlers[h].pc = "idle" /\ Room /\ Serving(ws)
  /\ Enter(h, "lookup", op, ws, s, workspaces[ws].current)
  /\ UNCHANGED workspaces /\ HandlerOnly

DropRead(h, ws, s) ==
  "drop" \in Requests /\ ReadForSnapshot(h, ws, s, "snapshot_drop")
SetCurrentRead(h, ws, s) ==
  "set_current" \in Requests /\ ReadForSnapshot(h, ws, s, "set_current")

(* GetSnapshot: unknown or deleted is refused, and so is the snapshot that  *)
(* was current when the workspace was read.  Whose it is is not checked.    *)
Lookup(h) ==
  /\ handlers[h].pc = "lookup"
  /\ LET s == handlers[h].snap IN
       IF snapshots[s] = "present" /\ handlers[h].current # s
         THEN Continue(h, "insert")
         ELSE Return(h)
  /\ UNCHANGED workspaces /\ HandlerOnly

(* CreateTask; a snapshot_create task also names the snapshot it mints. *)
JobFor(h, t) ==
  [op |-> handlers[h].op, ws |-> handlers[h].ws,
   snap |-> IF handlers[h].op = "snapshot_create" THEN t ELSE handlers[h].snap]

InsertJob(h) ==
  /\ handlers[h].pc = "insert"
  /\ \E t \in TaskID : CreateTask(t) /\ jobs' = [jobs EXCEPT ![t] = JobFor(h, t)]
  /\ Return(h)
  /\ UNCHANGED <<workspaces, snapshots, stage, owed, locks, fs, forgotten>>

-----------------------------------------------------------------------------
(* The worker.  The engine's Dequeue and CancelObserved touch nothing else. *)

JobOf(w) == jobs[workers[w].task]
At(w, s) == workers[w].pc = "executing" /\ stage[w] = s
Proceed(w, s) == stage' = [stage EXCEPT ![w] = s]
Unlock(w) == locks' = [ws \in Workspace |-> locks[ws] \ {w}]

Take(w) ==
  /\ owed[w] = {}
  /\ Dequeue(w)
  /\ UNCHANGED planeVars

SkipCanceled(w) ==
  /\ CancelObserved(w)
  /\ UNCHANGED planeVars

BeginTx(w) ==
  /\ Begin(w)
  /\ Proceed(w, "begin")
  /\ UNCHANGED <<jobs, workspaces, snapshots, handlers, owed, locks, fs, forgotten>>

(* pg_advisory_xact_lock waits until nobody holds the workspace. *)
AcquireWorkspaceLock(w) ==
  /\ At(w, "begin")
  /\ locks[JobOf(w).ws] = {}
  /\ locks' = [locks EXCEPT ![JobOf(w).ws] = {w}]
  /\ Proceed(w, "locked")
  /\ UNCHANGED <<engineVars, jobs, workspaces, snapshots, handlers, owed, fs, forgotten>>

(* Mutant: the transaction is left open. *)
CommitForgotten(w) ==
  /\ At(w, "locked") /\ JobOf(w).op # "snapshot_drop"
  /\ Proceed(w, IF JobOf(w).op = "set_current" THEN "dispatch" ELSE "call")
  /\ UNCHANGED <<engineVars, jobs, workspaces, snapshots, handlers, owed, locks, fs, forgotten>>

(* Everything but a drop commits at once, which releases the lock. *)
CommitEmpty(w) ==
  /\ At(w, "locked") /\ JobOf(w).op # "snapshot_drop"
  /\ Unlock(w)
  /\ Proceed(w, IF JobOf(w).op = "set_current" THEN "dispatch" ELSE "call")
  /\ UNCHANGED <<engineVars, jobs, workspaces, snapshots, handlers, owed, fs, forgotten>>

IsSnapshotReferencedByTasks(ws, s) ==
  \E t \in TaskID : /\ CountedActive(tasks[t])
                    /\ jobs[t].ws = ws
                    /\ jobs[t].op # "snapshot_drop"
                    /\ jobs[t].snap = s

(* The re-check of a drop; a drop of a referenced snapshot fails. *)
CheckReferences(w) ==
  /\ At(w, "locked") /\ JobOf(w).op = "snapshot_drop"
  /\ IF IsSnapshotReferencedByTasks(JobOf(w).ws, JobOf(w).snap)
       THEN ExecuteFail(w) /\ UNCHANGED stage
       ELSE Proceed(w, "checked") /\ UNCHANGED engineVars
  /\ UNCHANGED <<jobs, workspaces, snapshots, handlers, owed, locks, fs, forgotten>>

(* Mutant: the directory is removed, the row is not marked. *)
CommitUnmarked(w) ==
  /\ At(w, "checked")
  /\ Unlock(w)
  /\ Proceed(w, "call")
  /\ UNCHANGED <<engineVars, jobs, workspaces, snapshots, handlers, owed, fs, forgotten>>

(* MarkSnapshotDeleted becomes visible with the commit. *)
CommitDeleted(w) ==
  /\ At(w, "checked")
  /\ snapshots' = [snapshots EXCEPT ![JobOf(w).snap] = "deleted"]
  /\ Unlock(w)
  /\ Proceed(w, "call")
  /\ UNCHANGED <<engineVars, jobs, workspaces, handlers, owed, fs, forgotten>>

(* checkSetCurrentNoop reads the workspace: CompleteTask is next if the     *)
(* snapshot is current already, the executor call if it is not.             *)
IsNoop(job) == workspaces[job.ws].current = job.snap

Noop(w) ==
  /\ At(w, "dispatch") /\ IsNoop(JobOf(w))
  /\ ExecuteOk(w)
  /\ Proceed(w, "complete")
  /\ UNCHANGED <<jobs, workspaces, snapshots, handlers, owed, locks, fs, forgotten>>

NotNoop(w) ==
  /\ At(w, "dispatch") /\ ~IsNoop(JobOf(w))
  /\ Proceed(w, "call")
  /\ UNCHANGED <<engineVars, jobs, workspaces, snapshots, handlers, owed, locks, fs, forgotten>>

-----------------------------------------------------------------------------
(* The executor call: it succeeds, or fails half way.                       *)

ExecutedBy(w)    == Executed(workers[w].task, JobOf(w), fs[JobOf(w).ws])
InterruptedBy(w) == Interrupted(workers[w].task, JobOf(w), fs[JobOf(w).ws])

FsBecomes(w, outcomes) ==
  \E f \in outcomes : fs' = [fs EXCEPT ![JobOf(w).ws] = f]

CallExecutor(w) ==
  /\ At(w, "call") /\ JobOf(w).op # "set_current"
  /\ FsBecomes(w, ExecutedBy(w))
  /\ ExecuteOk(w)
  /\ Proceed(w, "post")
  /\ UNCHANGED <<jobs, workspaces, snapshots, handlers, owed, locks, forgotten>>

(* set_current: the link names the live directory of this task already. *)
FindCurrent(w) ==
  /\ At(w, "call") /\ JobOf(w).op = "set_current"
  /\ fs[JobOf(w).ws].current = workers[w].task
  /\ ExecuteOk(w)
  /\ Proceed(w, "post")
  /\ UNCHANGED <<jobs, workspaces, snapshots, handlers, owed, locks, fs, forgotten>>

CloneSnapshot(w) ==
  /\ At(w, "call") /\ JobOf(w).op = "set_current"
  /\ fs[JobOf(w).ws].current # workers[w].task
  /\ FsBecomes(w, ExecutedBy(w))
  /\ Proceed(w, "switch")
  /\ UNCHANGED <<engineVars, jobs, workspaces, snapshots, handlers, owed, locks, forgotten>>

(* The calls that may have their link in current.tmp, which all switches of *)
(* a workspace share: what one renames into place may be another's link,    *)
(* and the other then fails or finds itself current.                        *)
Switching(ws) ==
  {workers[w].task : w \in {v \in Worker : At(v, "switch") /\ JobOf(v).ws = ws}}
  \cup {t \in forgotten : /\ jobs[t].op = "set_current" /\ jobs[t].ws = ws
                          /\ t \in fs[ws].whole}

Links(ws) == {[fs[ws] EXCEPT !.current = t] : t \in Switching(ws)}

SwitchLink(w) ==
  /\ At(w, "switch")
  /\ FsBecomes(w, Links(JobOf(w).ws))
  /\ ExecuteOk(w)
  /\ Proceed(w, "post")
  /\ UNCHANGED <<jobs, workspaces, snapshots, handlers, owed, locks, forgotten>>

(* Mutant: resp.Success is not looked at. *)
FailureUnnoticed(w) ==
  /\ At(w, "call")
  /\ ExecuteOk(w)
  /\ Proceed(w, "post")
  /\ UNCHANGED <<jobs, workspaces, snapshots, handlers, owed, locks, fs, forgotten>>

ExecutorFails(w) ==
  /\ \/ At(w, "call") /\ FsBecomes(w, InterruptedBy(w))
     \/ At(w, "switch") /\ FsBecomes(w, {fs[JobOf(w).ws]} \cup Links(JobOf(w).ws))
  /\ ExecuteFail(w)
  /\ UNCHANGED <<jobs, workspaces, snapshots, handlers, stage, owed, locks, forgotten>>

-----------------------------------------------------------------------------
(* onSuccess writes the result of the operation, then the task's status;    *)
(* failTask the status, then INIT_FAILED.  No error is looked at.           *)

(* A plain INSERT whose error is dropped: a row that was there stays. *)
CreateSnapshotRow(s) ==
  snapshots' = IF snapshots[s] = "absent"
                 THEN [snapshots EXCEPT ![s] = "present"] ELSE snapshots

RecordResult(job) ==
  \/ /\ job.op = "init_workspace"
     /\ SetState(job.ws, "ACTIVE") /\ UNCHANGED snapshots
  \/ /\ job.op = "snapshot_create"
     /\ CreateSnapshotRow(job.snap) /\ UNCHANGED workspaces
  \/ /\ job.op = "set_current"
     /\ workspaces' = [workspaces EXCEPT ![job.ws].current = job.snap]
     /\ UNCHANGED snapshots
  \/ /\ job.op = "snapshot_drop"
     /\ UNCHANGED <<workspaces, snapshots>>

PostWrite(w) ==
  /\ workers[w].pc = "succeeded" /\ stage[w] = "post"
  /\ RecordResult(JobOf(w))
  /\ Proceed(w, "complete")
  /\ UNCHANGED <<engineVars, jobs, handlers, owed, locks, fs, forgotten>>

WriteSucceeded(w) ==
  /\ stage[w] = "complete"
  /\ Complete(w)
  /\ Proceed(w, "none")
  /\ UNCHANGED <<jobs, workspaces, snapshots, handlers, owed, locks, fs, forgotten>>

(* Mutant: INIT_FAILED is forgotten. *)
AfterFailTaskSilent(w) ==
  /\ Unlock(w)
  /\ Proceed(w, "none")
  /\ UNCHANGED <<jobs, workspaces, snapshots, handlers, owed, fs, forgotten>>

(* failTask; executeWithLock's deferred Rollback releases the lock after it, *)
(* INIT_FAILED included.                                                    *)
OwedBy(w) ==
  IF LastAttempt(w) /\ JobOf(w).op = "init_workspace" THEN {JobOf(w).ws} ELSE {}

AfterFailTask(w) ==
  /\ owed' = [owed EXCEPT ![w] = OwedBy(w)]
  /\ IF OwedBy(w) = {} THEN Unlock(w) ELSE UNCHANGED locks
  /\ Proceed(w, "none")
  /\ UNCHANGED <<jobs, workspaces, snapshots, handlers, fs, forgotten>>

WriteFailed(w) == (Fail(w) \/ Dead(w)) /\ AfterFailTask(w)

WriteInitFailed(w) ==
  \E ws \in owed[w] :
    /\ SetState(ws, "INIT_FAILED")
    /\ owed' = [owed EXCEPT ![w] = {}]
    /\ Unlock(w)
    /\ UNCHANGED <<engineVars, jobs, snapshots, handlers, stage, fs, forgotten>>

-----------------------------------------------------------------------------
(* Faults: a statement, a call or a process fails. *)

(* Beginning, locking, checking, marking or committing fails; a commit may  *)
(* have happened all the same.  The lock goes when the server ends the      *)
(* transaction; the worker's own Rollback is deferred beyond failTask.      *)
TxFails(w) ==
  /\ stage[w] \in {"begin", "locked", "checked"}
  /\ \/ UNCHANGED <<snapshots, locks>>
     \/ UNCHANGED snapshots /\ Unlock(w)
     \/ /\ stage[w] = "checked"
        /\ snapshots' = [snapshots EXCEPT ![JobOf(w).snap] = "deleted"]
        /\ Unlock(w)
  /\ ExecuteFail(w)
  /\ UNCHANGED <<jobs, workspaces, handlers, stage, owed, fs, forgotten>>

(* GetWorkspace fails: the noop check is skipped. *)
NoopUnread(w) ==
  /\ At(w, "dispatch")
  /\ Proceed(w, "call")
  /\ UNCHANGED <<engineVars, jobs, workspaces, snapshots, handlers, owed, locks, fs, forgotten>>

(* The connection breaks or the worker is stopped: the attempt is failed,   *)
(* the call goes on.                                                        *)
Calling(w) == At(w, "call") \/ At(w, "switch")

AnswerLost(w) ==
  /\ Calling(w)
  /\ forgotten' = forgotten \cup {workers[w].task}
  /\ ExecuteFail(w)
  /\ UNCHANGED <<jobs, workspaces, snapshots, handlers, stage, owed, locks, fs>>

(* A step of such a call, while others have the lock, the row or the task.  *)
Outlive(t) ==
  LET ws == jobs[t].ws IN
  /\ t \in forgotten
  /\ \E f \in Outlived(t, jobs[t], fs[ws], snapshots[t] = "deleted")
            \cup (IF t \in Switching(ws) THEN Links(ws) ELSE {}) :
       fs' = [fs EXCEPT ![ws] = f]
  /\ UNCHANGED <<engineVars, jobs, workspaces, snapshots, handlers, stage, owed, locks, forgotten>>

(* A write of onSuccess or failTask fails: `_ ='. *)
LosePost(w) ==
  /\ workers[w].pc = "succeeded" /\ stage[w] = "post"
  /\ Proceed(w, "complete")
  /\ UNCHANGED <<engineVars, jobs, workspaces, snapshots, handlers, owed, locks, fs, forgotten>>

LoseStatus(w) ==
  /\ LoseWrite(w)
  /\ \/ workers[w].pc = "dequeued" /\ UNCHANGED planeVars
     \/ /\ workers[w].pc = "succeeded" /\ stage[w] = "complete"
        /\ Proceed(w, "none")
        /\ UNCHANGED <<jobs, workspaces, snapshots, handlers, owed, locks, fs, forgotten>>
     \/ workers[w].pc = "failed" /\ AfterFailTask(w)

LoseInitFailed(w) ==
  /\ owed[w] # {}
  /\ owed' = [owed EXCEPT ![w] = {}]
  /\ Unlock(w)
  /\ UNCHANGED <<engineVars, jobs, workspaces, snapshots, handlers, stage, fs, forgotten>>

LoseTaken(w) == owed[w] = {} /\ LoseDequeued(w) /\ UNCHANGED planeVars

(* The connection drops with the process and with it the lock; a call of    *)
(* the executor goes on.                                                    *)
WorkerCrash(w) ==
  /\ Crash(w)
  /\ Proceed(w, "none")
  /\ Unlock(w)
  /\ owed' = [owed EXCEPT ![w] = {}]
  /\ forgotten' = IF Calling(w) THEN forgotten \cup {workers[w].task} ELSE forgotten
  /\ UNCHANGED <<jobs, workspaces, snapshots, handlers, fs>>

WorkerRestart(w) == Restart(w) /\ UNCHANGED planeVars

(* A handler's statement fails, or its process dies before it. *)
HandlerFails(h) ==
  /\ handlers[h].pc # "idle"
  /\ Return(h)
  /\ UNCHANGED workspaces /\ HandlerOnly

(* RetryInit goes on when its UPDATE fails, DisableWorkspace when its count *)
(* does.                                                                    *)
HandlerIgnores(h) ==
  /\ \/ handlers[h].pc = "reset" /\ Continue(h, "insert")
     \/ handlers[h].pc = "count" /\ Continue(h, "disable")
  /\ UNCHANGED workspaces /\ HandlerOnly

-----------------------------------------------------------------------------
Handle(h) ==
  \/ \E ws \in Workspace :
       \/ InsertWorkspace(h, ws) \/ RetryInitRead(h, ws) \/ DisableRead(h, ws)
       \/ SnapshotRead(h, ws)
       \/ \E s \in TaskID : DropRead(h, ws, s) \/ SetCurrentRead(h, ws, s)
  \/ RetryInitReset(h) \/ DisableCount(h) \/ Disable(h) \/ Lookup(h)
  \/ InsertJob(h)

WorkStep(w) ==
  \/ Take(w) \/ SkipCanceled(w) \/ BeginTx(w) \/ AcquireWorkspaceLock(w)
  \/ CommitEmpty(w) \/ CheckReferences(w) \/ CommitDeleted(w)
  \/ Noop(w) \/ NotNoop(w) \/ CallExecutor(w) \/ ExecutorFails(w)
  \/ FindCurrent(w) \/ CloneSnapshot(w) \/ SwitchLink(w)
  \/ PostWrite(w) \/ WriteSucceeded(w) \/ WriteFailed(w) \/ WriteInitFailed(w)

Calm ==
  \/ \E h \in Handler : Handle(h)
  \/ \E w \in Worker : WorkStep(w)
  \/ \E c \in Canceller : Cancel(c) /\ UNCHANGED planeVars
  \/ \E t \in TaskID : BackoffElapsed(t) /\ UNCHANGED planeVars

WorkerFault(w) ==
  \/ TxFails(w) \/ NoopUnread(w) \/ AnswerLost(w) \/ LosePost(w) \/ LoseStatus(w)
  \/ LoseInitFailed(w) \/ LoseTaken(w) \/ WorkerCrash(w) \/ WorkerRestart(w)

PlaneNext ==
  \/ Calm
  \/ \E w \in Worker : WorkerFault(w)
  \/ \E t \in TaskID : Outlive(t)
  \/ \E h \in Handler : HandlerFails(h) \/ HandlerIgnores(h)
  \/ \E c \in Canceller : LoseCancel(c) /\ UNCHANGED planeVars

Initialising(h, ws) ==
  /\ handlers[h].pc = "insert"
  /\ handlers[h].ws = ws
  /\ handlers[h].op = "init_workspace"

(* With every fault, and with none. *)
PlaneSpec == PlaneInit /\ [][PlaneNext]_vars
CalmSpec  == PlaneInit /\ [][Calm]_vars

(* Every process goes on with what it has begun, every call returns, time   *)
(* passes; nobody has to make a request.                                    *)
Finishing(h) ==
  RetryInitReset(h) \/ DisableCount(h) \/ Disable(h) \/ Lookup(h) \/ InsertJob(h)
PlaneFairness ==
  /\ \A w \in Worker  : WF_vars(WorkStep(w))
  /\ \A h \in Handler : WF_vars(Finishing(h))
  /\ \A t \in TaskID  : WF_vars(BackoffElapsed(t) /\ UNCHANGED planeVars)
CalmFairSpec == CalmSpec /\ PlaneFairness

-----------------------------------------------------------------------------
(* Safety, faults included.                                                 *)
(*                                                                          *)
(* A snapshot whose metadata was there before its clone had ended (a half   *)
(* copied live directory that brought a snapshot.json along) is excepted:   *)
(* the retry finds the file and takes the rest for granted.  Executor has   *)
(* the steps (DoneIsComplete), f.premature names these snapshots.           *)
Intact(s)    == LET f == fs[jobs[s].ws] IN s \in f.cloned \cap f.whole \cap f.metas
Premature(s) == s \in fs[jobs[s].ws].premature

(* A snapshot that can be listed and restored has its complete directory:   *)
(* the row is inserted after the clone, and deleted_at is committed before  *)
(* the directory is removed, by whatever call, given up or not.  The        *)
(* exception needs a workspace that has switched.                           *)
VisibleSnapshotHasDirectory ==
  /\ \A s \in TaskID : snapshots[s] = "present" => Intact(s) \/ Premature(s)
  /\ \A ws \in Workspace : fs[ws].premature # {} => fs[ws].current # NoTask

(* A workspace is ACTIVE only once its directories and link exist. *)
ActiveIsInitialised ==
  \A ws \in Workspace : workspaces[ws].state = "ACTIVE" => fs[ws].init

(* A drop that SUCCEEDED has deleted the row and, in the workspace it was   *)
(* asked for, the whole directory, for good: no retry or concurrent task    *)
(* brings it back, but a call of the creating task that was given up while  *)
(* it ran still can.                                                        *)
SucceededDropIsComplete ==
  \A t \in TaskID :
    tasks[t].status = "SUCCEEDED" /\ jobs[t].op = "snapshot_drop" =>
      /\ snapshots[jobs[t].snap] = "deleted"
      /\ jobs[t].snap \in fs[jobs[t].ws].cloned => jobs[t].snap \in forgotten

(* A snapshot task that SUCCEEDED has its complete directory until a drop   *)
(* has marked the row: nothing else, no retry of a drop and no call that    *)
(* was given up, removes it or a part of it.                                *)
SucceededCreateIsThere ==
  \A t \in TaskID :
    tasks[t].status = "SUCCEEDED" /\ jobs[t].op = "snapshot_create" =>
      Intact(t) \/ Premature(t) \/ snapshots[t] = "deleted"

(* A disabled workspace stays disabled from the moment that nobody is       *)
(* initialising it: no handler past the first test of retry-init, no init   *)
(* task that has not ended, no worker that owes INIT_FAILED.  Whatever is   *)
(* under way when DisableWorkspace counts may undo it; nothing begun later. *)
Retired(ws) ==
  /\ workspaces[ws].state = "DISABLED"
  /\ \A h \in Handler : ~(handlers[h].pc = "reset" /\ handlers[h].ws = ws)
                        /\ ~Initialising(h, ws)
  /\ \A t \in TaskID : jobs[t].op = "init_workspace" /\ jobs[t].ws = ws
                         => tasks[t].status \notin Active
  /\ \A w \in Worker : ws \notin owed[w]
DisabledIsFinal ==
  [][\A ws \in Workspace : Retired(ws) => Retired(ws)']_vars

(* Whoever re-checks or marks a snapshot holds the workspace's lock, so no  *)
(* two workers do.  A lock has one holder: a worker in its transaction on   *)
(* that workspace, or one that has failed there and has not rolled back, in *)
(* failTask or about to write INIT_FAILED.  No path, a crash included,      *)
(* leaves a lock behind.                                                    *)
AtLock(w) == stage[w] \in {"locked", "checked"}

LockDiscipline ==
  /\ \A w \in Worker :
       workers[w].pc = "executing" /\ AtLock(w) => locks[JobOf(w).ws] = {w}
  /\ \A ws \in Workspace : \A w \in locks[ws] :
       /\ locks[ws] = {w}
       /\ \/ workers[w].pc \in {"executing", "failed"} /\ AtLock(w) /\ JobOf(w).ws = ws
          \/ ws \in owed[w]

(* SnapshotLifecycle, a directory being the one of whichever workspace has  *)
(* it: rows and directories change in an order that never shows a snapshot  *)
(* without its directory, and no retry, repeated answer or drop asked for   *)
(* under another workspace's name takes a step back.  It is not promised of *)
(* a snapshot whose creating call was given up or whose metadata came       *)
(* early: these are loose.                                                  *)
Directories ==
  UNION {fs[ws].cloned \cap fs[ws].whole \cap fs[ws].metas : ws \in Workspace}
Loose == forgotten \cup UNION {fs[ws].premature : ws \in Workspace}
Snapshots == INSTANCE SnapshotLifecycle WITH
  Snapshot <- TaskID, rows <- snapshots, dirs <- Directories, loose <- Loose
ImplementsSnapshots == Snapshots!SnapshotSpec

(* Who will decide a workspace that is PROVISIONING: a handler about to     *)
(* insert its init task, the task in the queue, the worker that has it, or  *)
(* one about to write INIT_FAILED.                                          *)
InitTask(t, ws) == jobs[t].op = "init_workspace" /\ jobs[t].ws = ws

Deciding(w) == \/ workers[w].pc \in {"dequeued", "executing", "failed"}
               \/ workers[w].pc = "succeeded" /\ stage[w] = "post"

Decider(ws) ==
  \/ \E h \in Handler : Initialising(h, ws)
  \/ \E t \in TaskID : InitTask(t, ws) /\ tasks[t].status \in {"PENDING", "FAILED"}
  \/ \E w \in Worker : Deciding(w) /\ InitTask(workers[w].task, ws)
  \/ \E w \in Worker : ws \in owed[w]

(* The ways to lose it that the code leaves open: nothing repeats the       *)
(* handler's INSERT or the worker's UPDATE, and cancelling a task does not  *)
(* touch its workspace.                                                     *)
Orphaned(ws) ==
  \/ \E h \in Handler : Initialising(h, ws) /\ HandlerFails(h)
  \/ \E t \in TaskID : /\ InitTask(t, ws) /\ tasks[t].status # "CANCELED"
                       /\ tasks'[t].status = "CANCELED"
  \/ \E w \in Worker :
       LosePost(w) \/ LoseStatus(w) \/ LoseInitFailed(w) \/ LoseTaken(w) \/ WorkerCrash(w)

(* And no other: whatever else fails or races, a failed transaction or      *)
(* call, a lost answer, a retry, a second retry-init, a disable, somebody   *)
(* goes on to decide the workspace or it has been decided.                  *)
DeciderIsKept ==
  [][\A ws \in Workspace :
       workspaces[ws].state = "PROVISIONING" /\ Decider(ws) =>
         workspaces'[ws].state # "PROVISIONING" \/ Decider(ws)' \/ Orphaned(ws)]_vars

-----------------------------------------------------------------------------
(* Without faults. *)

(* A workspace that is PROVISIONING has somebody who will decide it: a      *)
(* handler about to insert its init task, the task itself, or a worker      *)
(* about to write INIT_FAILED.                                              *)
ProvisioningIsPending ==
  \A ws \in Workspace : workspaces[ws].state = "PROVISIONING" =>
    \/ \E h \in Handler : Initialising(h, ws)
    \/ \E t \in TaskID : /\ jobs[t].op = "init_workspace" /\ jobs[t].ws = ws
                         /\ tasks[t].status \in Active
    \/ \E w \in Worker : ws \in owed[w]

(* Liveness without faults: whatever waits for a lock or behind other tasks *)
(* in the queue, a task that was accepted ends and a workspace is decided.  *)
AcceptedTaskEnds ==
  \A t \in TaskID : Exists(tasks[t]) ~> IsTerminal(tasks[t])
WorkspaceIsDecided ==
  \A ws \in Workspace :
    workspaces[ws].state = "PROVISIONING" ~> workspaces[ws].state # "PROVISIONING"

-----------------------------------------------------------------------------
(* What the documents promise and the code does not keep. *)

(* wvs-tech-docs: a snapshot is not deleted while it is current, nor while  *)
(* a PENDING, RUNNING or retryable FAILED task refers to it.                *)
Protected(s) ==
  \/ \E ws \in Workspace : workspaces[ws].current = s
  \/ \E t \in TaskID : /\ jobs[t].op = "set_current" /\ jobs[t].snap = s
                       /\ tasks[t].status \in Active

ProtectedIsNotDeleted ==
  [][\A s \in TaskID :
       snapshots[s] = "present" /\ Protected(s) => snapshots'[s] # "deleted"]_vars
=============================================================================
