----------------------- MODULE ControlPlaneInitProofs ------------------------
(***************************************************************************)
(* Proofs about the state of a workspace, every fault included: one that is *)
(* disabled and that nobody initialises stays DISABLED, and one that is     *)
(* PROVISIONING does not lose whoever will decide it, but in the ways that  *)
(* Orphaned names.                                                          *)
(***************************************************************************)
EXTENDS ControlPlaneSnapshotProofs

(* Who changes a row of wvs.workspaces, what is owed, and what handlers do. *)

(* What changes a row of wvs.workspaces. *)
LEMMA WorkspaceStepKinds ==
  ASSUME [PlaneNext]_vars
  PROVE  \/ UNCHANGED workspaces
         \/ \E w \in Worker : PostWrite(w) \/ WriteInitFailed(w)
         \/ \E h \in Handler : \/ RetryInitReset(h) \/ Disable(h)
                               \/ \E ws \in Workspace : InsertWorkspace(h, ws)
<1>1. ASSUME NEW w \in Worker, WorkStep(w) \/ WorkerFault(w)
      PROVE  UNCHANGED workspaces \/ PostWrite(w) \/ WriteInitFailed(w)
  <2>1. CASE \/ Take(w) \/ SkipCanceled(w) \/ BeginTx(w) \/ AcquireWorkspaceLock(w)
             \/ CommitEmpty(w) \/ CheckReferences(w) \/ CommitDeleted(w)
    BY <2>1 DEF Take, SkipCanceled, BeginTx, AcquireWorkspaceLock, CommitEmpty,
      CheckReferences, CommitDeleted, planeVars
  <2>2. CASE \/ Noop(w) \/ NotNoop(w) \/ CallExecutor(w) \/ ExecutorFails(w)
             \/ FindCurrent(w) \/ CloneSnapshot(w) \/ SwitchLink(w)
             \/ WriteSucceeded(w) \/ WriteFailed(w)
    BY <2>2 DEF Noop, NotNoop, CallExecutor, ExecutorFails,
      FindCurrent, CloneSnapshot, SwitchLink, WriteSucceeded,
      WriteFailed, AfterFailTask
  <2>3. CASE WorkerFault(w)
    BY <2>3 DEF WorkerFault, TxFails, NoopUnread, AnswerLost, LosePost, LoseStatus,
      AfterFailTask, LoseInitFailed, LoseTaken, WorkerCrash, WorkerRestart, planeVars
  <2> QED
    BY <1>1, <2>1, <2>2, <2>3 DEF WorkStep
<1>2. ASSUME NEW h \in Handler, Handle(h) \/ HandlerFails(h) \/ HandlerIgnores(h)
      PROVE  \/ UNCHANGED workspaces
             \/ RetryInitReset(h) \/ Disable(h)
             \/ \E ws \in Workspace : InsertWorkspace(h, ws)
  BY <1>2 DEF Handle, HandlerFails, HandlerIgnores, RetryInitRead, DisableRead,
    SnapshotRead, DropRead, SetCurrentRead, ReadForSnapshot, DisableCount, Lookup,
    InsertJob
<1> QED
  BY <1>1, <1>2 DEF PlaneNext, Calm, Outlive, planeVars, vars

(* What a worker owes it keeps, has written or has taken over just now. *)
LEMMA OwedChanges ==
  ASSUME PlaneInv, NEW w \in Worker, WorkStep(w) \/ WorkerFault(w)
  PROVE  \/ owed'[w] = owed[w] \/ owed'[w] = {}
         \/ owed'[w] = OwedBy(w) /\ workers[w].pc \in Busy
<1>0. owed \in [Worker -> SUBSET Workspace]
  BY DEF PlaneInv, PlaneTypeOK
<1>1. CASE \/ Take(w) \/ SkipCanceled(w) \/ BeginTx(w) \/ AcquireWorkspaceLock(w)
           \/ CommitEmpty(w) \/ CheckReferences(w) \/ CommitDeleted(w)
  BY <1>1 DEF Take, SkipCanceled, BeginTx, AcquireWorkspaceLock, CommitEmpty,
    CheckReferences, CommitDeleted, planeVars
<1>2. CASE \/ Noop(w) \/ NotNoop(w) \/ CallExecutor(w) \/ ExecutorFails(w)
           \/ FindCurrent(w) \/ CloneSnapshot(w) \/ SwitchLink(w)
           \/ PostWrite(w) \/ WriteSucceeded(w) \/ WriteInitFailed(w)
  BY <1>0, <1>2 DEF Noop, NotNoop, CallExecutor, ExecutorFails,
      FindCurrent, CloneSnapshot, SwitchLink, PostWrite,
    WriteSucceeded, WriteInitFailed
<1>3. CASE WriteFailed(w)
  BY <1>0, <1>3 DEF WriteFailed, Fail, Dead, AfterFailTask, Busy
<1>4. CASE WorkerFault(w)
  BY <1>0, <1>4 DEF WorkerFault, TxFails, NoopUnread, AnswerLost, LosePost, LoseStatus,
    AfterFailTask, LoseInitFailed, LoseTaken, WorkerCrash, WorkerRestart, planeVars, Busy
<1> QED
  BY <1>1, <1>2, <1>3, <1>4 DEF WorkStep

(* A handler's step is about that handler, and no other step is about one. *)
LEMMA HandlersMove ==
  ASSUME PlaneInv, [PlaneNext]_vars
  PROVE  \/ UNCHANGED handlers
         \/ \E h \in Handler : /\ Handle(h) \/ HandlerFails(h) \/ HandlerIgnores(h)
                               /\ \A g \in Handler \ {h} : handlers'[g] = handlers[g]
<1>0. handlers \in [Handler -> HandlerState]
  BY DEF PlaneInv, PlaneTypeOK
<1>1. ASSUME NEW h \in Handler, Handle(h) \/ HandlerFails(h) \/ HandlerIgnores(h)
      PROVE  \A g \in Handler \ {h} : handlers'[g] = handlers[g]
  BY <1>0, <1>1 DEF Handle, InsertWorkspace, RetryInitRead, DisableRead, SnapshotRead,
    DropRead, SetCurrentRead, ReadForSnapshot, RetryInitReset, DisableCount, Disable,
    Lookup, InsertJob, HandlerFails, HandlerIgnores, Enter, Continue, Return
<1>2. ASSUME NEW w \in Worker, WorkStep(w) \/ WorkerFault(w) PROVE UNCHANGED handlers
  <2>1. CASE \/ Take(w) \/ SkipCanceled(w) \/ BeginTx(w) \/ AcquireWorkspaceLock(w)
             \/ CommitEmpty(w) \/ CheckReferences(w) \/ CommitDeleted(w)
    BY <2>1 DEF Take, SkipCanceled, BeginTx, AcquireWorkspaceLock, CommitEmpty,
      CheckReferences, CommitDeleted, planeVars
  <2>2. CASE \/ Noop(w) \/ NotNoop(w) \/ CallExecutor(w) \/ ExecutorFails(w)
             \/ FindCurrent(w) \/ CloneSnapshot(w) \/ SwitchLink(w)
             \/ PostWrite(w) \/ WriteSucceeded(w) \/ WriteFailed(w) \/ WriteInitFailed(w)
    BY <2>2 DEF Noop, NotNoop, CallExecutor, ExecutorFails,
      FindCurrent, CloneSnapshot, SwitchLink, PostWrite, WriteSucceeded,
      WriteFailed, AfterFailTask, WriteInitFailed
  <2>3. CASE WorkerFault(w)
    BY <2>3 DEF WorkerFault, TxFails, NoopUnread, AnswerLost, LosePost, LoseStatus,
      AfterFailTask, LoseInitFailed, LoseTaken, WorkerCrash, WorkerRestart, planeVars
  <2> QED
    BY <1>2, <2>1, <2>2, <2>3 DEF WorkStep
<1> QED
  BY <1>1, <1>2 DEF PlaneNext, Calm, Outlive, planeVars, vars

-----------------------------------------------------------------------------
(* A disabled workspace that nobody is initialising stays as it is. *)

(* Whoever looks a snapshot up is not initialising a workspace. *)
LookupOK ==
  \A h \in Handler : handlers[h].pc = "lookup" => handlers[h].op # "init_workspace"

RetireInv == PlaneInv /\ LookupOK

LEMMA LookupStep == ASSUME PlaneInv, LookupOK, [PlaneNext]_vars PROVE LookupOK'
<1>0. handlers \in [Handler -> HandlerState]
  BY DEF PlaneInv, PlaneTypeOK
<1>1. ASSUME NEW h \in Handler, Handle(h) \/ HandlerFails(h) \/ HandlerIgnores(h),
             handlers'[h].pc = "lookup"
      PROVE  handlers'[h].op # "init_workspace"
  BY <1>0, <1>1 DEF Handle, InsertWorkspace, RetryInitRead, DisableRead, SnapshotRead,
    DropRead, SetCurrentRead, ReadForSnapshot, RetryInitReset, DisableCount, Disable,
    Lookup, InsertJob, HandlerFails, HandlerIgnores, Enter, Continue, Return,
    HandlerState, IdleHandler
<1> QED
  BY <1>1, HandlersMove DEF LookupOK

LEMMA RetireInductive == ASSUME RetireInv, [PlaneNext]_vars PROVE RetireInv'
  BY PlaneInductive, LookupStep DEF RetireInv

(* Whoever works on a task of a retired workspace does not initialise it. *)
LEMMA RetiredJobs ==
  ASSUME PlaneInv, NEW ws \in Workspace, Retired(ws),
         NEW w \in Worker, workers[w].pc \in Busy
  PROVE  ~(JobOf(w).op = "init_workspace" /\ JobOf(w).ws = ws)
  BY BusyJob DEF Retired, Active

LEMMA RetiredState ==
  ASSUME PlaneInv, [PlaneNext]_vars, NEW ws \in Workspace, Retired(ws)
  PROVE  workspaces'[ws].state = "DISABLED"
<1>0. /\ workspaces \in [Workspace -> WsRow]
      /\ owed \in [Worker -> SUBSET Workspace]
      /\ \A h \in Handler : HandlerOK(h)
      /\ workspaces[ws].state = "DISABLED"
  BY DEF PlaneInv, PlaneTypeOK, Retired
<1>1. ASSUME NEW x \in Workspace, NEW st, SetState(x, st), x # ws \/ st = "DISABLED"
      PROVE  workspaces'[ws].state = "DISABLED"
  BY <1>0, <1>1 DEF SetState, WsRow
<1>2. ASSUME NEW w \in Worker, PostWrite(w) PROVE workspaces'[ws].state = "DISABLED"
  <2>1. /\ JobOf(w).ws \in Workspace
        /\ ~(JobOf(w).op = "init_workspace" /\ JobOf(w).ws = ws)
    BY <1>2, BusyJob, RetiredJobs DEF PostWrite, Busy
  <2>2. CASE JobOf(w).op = "init_workspace"
    BY <1>1, <1>2, <2>1, <2>2 DEF PostWrite, RecordResult
  <2>3. CASE JobOf(w).op # "init_workspace"
    BY <1>0, <1>2, <2>3 DEF PostWrite, RecordResult, WsRow
  <2> QED
    BY <2>2, <2>3
<1>3. ASSUME NEW w \in Worker, WriteInitFailed(w)
      PROVE  workspaces'[ws].state = "DISABLED"
  <2>1. PICK x \in owed[w] : SetState(x, "INIT_FAILED")
    BY <1>3 DEF WriteInitFailed
  <2>2. x \in Workspace /\ x # ws
    BY <1>0, <2>1 DEF Retired
  <2> QED
    BY <1>1, <2>1, <2>2
<1>4. ASSUME NEW h \in Handler, RetryInitReset(h) \/ Disable(h)
      PROVE  workspaces'[ws].state = "DISABLED"
  <2>1. handlers[h].ws \in Workspace
    BY <1>0, <1>4 DEF RetryInitReset, Disable, HandlerOK
  <2> QED
    BY <1>1, <1>4, <2>1 DEF RetryInitReset, Disable, Retired
<1>5. ASSUME NEW h \in Handler, NEW x \in Workspace, InsertWorkspace(h, x)
      PROVE  workspaces'[ws].state = "DISABLED"
  BY <1>0, <1>1, <1>5 DEF InsertWorkspace, Absent
<1> QED
  BY <1>0, <1>2, <1>3, <1>4, <1>5, WorkspaceStepKinds

LEMMA RetiredHandlers ==
  ASSUME RetireInv, [PlaneNext]_vars, NEW ws \in Workspace, Retired(ws),
         NEW h \in Handler
  PROVE  /\ ~(handlers'[h].pc = "reset" /\ handlers'[h].ws = ws)
         /\ ~Initialising(h, ws)'
<1>0. /\ PlaneInv /\ LookupOK
      /\ handlers \in [Handler -> HandlerState]
      /\ workspaces[ws].state = "DISABLED"
      /\ ~(handlers[h].pc = "reset" /\ handlers[h].ws = ws)
      /\ ~Initialising(h, ws)
  BY DEF RetireInv, PlaneInv, PlaneTypeOK, Retired
<1>1. CASE handlers'[h] = handlers[h]
  BY <1>0, <1>1 DEF Initialising
<1>2. ASSUME NEW p, NEW op, NEW x \in Workspace, NEW s, NEW cur, Enter(h, p, op, x, s, cur),
             p \notin {"reset", "insert"} \/ op # "init_workspace" \/ x # ws
      PROVE  ~Initialising(h, ws)' /\ (p # "reset" \/ x # ws
               => ~(handlers'[h].pc = "reset" /\ handlers'[h].ws = ws))
  BY <1>0, <1>2 DEF Enter, Initialising
<1>3. CASE \E x \in Workspace : \/ InsertWorkspace(h, x) \/ RetryInitRead(h, x)
                                \/ DisableRead(h, x) \/ SnapshotRead(h, x)
  BY <1>0, <1>2, <1>3 DEF InsertWorkspace, RetryInitRead, DisableRead, SnapshotRead, Absent
<1>4. CASE \E x \in Workspace, s \in TaskID : DropRead(h, x, s) \/ SetCurrentRead(h, x, s)
  BY <1>2, <1>4 DEF DropRead, SetCurrentRead, ReadForSnapshot
<1>5. ASSUME NEW p, Continue(h, p)
      PROVE  /\ handlers'[h].pc = p /\ handlers'[h].ws = handlers[h].ws
             /\ handlers'[h].op = handlers[h].op
  BY <1>0, <1>5 DEF Continue, HandlerState
<1>6. CASE Return(h)
  BY <1>0, <1>6 DEF Return, IdleHandler, Initialising
<1>7. CASE RetryInitReset(h) \/ HandlerIgnores(h)
  BY <1>0, <1>5, <1>7 DEF RetryInitReset, HandlerIgnores, Initialising
<1>8. CASE DisableCount(h) \/ Disable(h) \/ InsertJob(h) \/ HandlerFails(h)
  BY <1>0, <1>5, <1>6, <1>8 DEF DisableCount, Disable, InsertJob, HandlerFails, Initialising
<1>9. CASE Lookup(h)
  <2>1. handlers[h].op # "init_workspace"
    BY <1>0, <1>9 DEF Lookup, LookupOK
  <2> QED
    BY <1>5, <1>6, <1>9, <2>1 DEF Lookup, Initialising
<1> QED
  BY <1>0, <1>1, <1>3, <1>4, <1>6, <1>7, <1>8, <1>9, HandlersMove DEF Handle

LEMMA RetiredTasks ==
  ASSUME PlaneInv, [PlaneNext]_vars, NEW ws \in Workspace, Retired(ws), NEW t \in TaskID,
         jobs'[t].op = "init_workspace", jobs'[t].ws = ws
  PROVE  tasks'[t].status \notin Active
<1>1. CASE UNCHANGED jobs /\ EngineRest
  <2>1. tasks[t].status \notin Active
    BY <1>1 DEF Retired
  <2>2. CASE tasks[t].status = Absent
    <3>1. RowFrame(t)
      BY <1>1, EngineFrameHolds DEF PlaneInv, EngineFrame
    <3> QED
      BY <2>2, <3>1 DEF RowFrame, Exists, Absent, Active
  <2>3. CASE tasks[t].status # Absent
    <3>1. IInv /\ [EngineNext]_engineVars /\ tasks[t] \in TaskRow
      BY PlaneStepIsEngineStep DEF PlaneInv, IInv, TypeOK, Table
    <3>2. IsTerminal(tasks[t])
      BY <2>1, <2>3, <3>1 DEF TaskRow, Status, IsTerminal
    <3>3. tasks'[t].status = tasks[t].status
      BY <3>1, <3>2, EveryStepIsARowStep DEF RowStep, SameLife, OneRow, Created, Started,
        Finished, CanceledNew, IsTerminal, Terminal, Absent
    <3> QED
      BY <2>1, <3>3
  <2> QED
    BY <2>2, <2>3
<1>2. ASSUME NEW h \in Handler, InsertJob(h) PROVE tasks'[t].status \notin Active
  <2>0. tasks \in Table /\ jobs \in [TaskID -> Job \cup {NoJob}]
    BY DEF PlaneInv, PlaneTypeOK, IInv, TypeOK
  <2>1. PICK u \in TaskID : CreateTask(u) /\ jobs' = [jobs EXCEPT ![u] = JobFor(h, u)]
    BY <1>2 DEF InsertJob
  <2>2. t # u
    BY <1>2, <2>0, <2>1 DEF InsertJob, JobFor, Retired, Initialising
  <2>3. jobs'[t] = jobs[t]
    BY <2>0, <2>1, <2>2
  <2>4. \A x \in TaskID \ {u} : tasks'[x] = tasks[x]
    BY <2>0, <2>1, InsertTaskRow DEF CreateTask
  <2>5. tasks'[t] = tasks[t]
    BY <2>2, <2>4
  <2> QED
    BY <2>3, <2>5 DEF Retired
<1> QED
  BY <1>1, <1>2, PlaneStepKinds

LEMMA RetiredOwed ==
  ASSUME PlaneInv, [PlaneNext]_vars, NEW ws \in Workspace, Retired(ws), NEW w \in Worker
  PROVE  ws \notin owed'[w]
<1>0. ws \notin owed[w]
  BY DEF Retired
<1>1. ASSUME WorkStep(w) \/ WorkerFault(w) PROVE ws \notin owed'[w]
  <2>1. CASE owed'[w] = OwedBy(w) /\ workers[w].pc \in Busy
    BY <2>1, RetiredJobs DEF OwedBy
  <2> QED
    BY <1>0, <1>1, <2>1, OwedChanges
<1>2. ASSUME NEW v \in Worker, v # w, WorkStep(v) \/ WorkerFault(v)
      PROVE  ws \notin owed'[w]
  BY <1>0, <1>2, OthersRest
<1> QED
  BY <1>0, <1>1, <1>2, OtherStepKinds

(* Whatever the workers, the handlers and the faults do: a workspace that   *)
(* is disabled when nobody initialises it is so for good.                   *)
THEOREM DisabledStaysDisabled == PlaneSpec => DisabledIsFinal
<1>1. PlaneInit => RetireInv
  BY PlaneInitInv DEF PlaneInit, RetireInv, LookupOK, IdleHandler
<1>2. RetireInv /\ [PlaneNext]_vars => RetireInv'
  BY RetireInductive
<1>3. RetireInv /\ [PlaneNext]_vars
        => [\A ws \in Workspace : Retired(ws) => Retired(ws)']_vars
  <2> SUFFICES ASSUME RetireInv, [PlaneNext]_vars, NEW ws \in Workspace, Retired(ws)
               PROVE  Retired(ws)'
    OBVIOUS
  <2>1. PlaneInv
    BY DEF RetireInv
  <2> QED
    BY <2>1, RetiredState, RetiredHandlers, RetiredTasks, RetiredOwed DEF Retired
<1> QED
  BY <1>1, <1>2, <1>3, PTL DEF PlaneSpec, DisabledIsFinal

-----------------------------------------------------------------------------
(* Who decides a workspace that is PROVISIONING. *)

(* At most one workspace is owed INIT_FAILED by a worker. *)
OneOwed == \A w \in Worker : \A x, y \in owed[w] : x = y

DeciderInv == LockInv /\ OneOwed

LEMMA DeciderInductive ==
  ASSUME DeciderInv, [PlaneNext]_vars PROVE DeciderInv'
<1>0. PlaneInv /\ LockInv'
  BY LockInductive DEF DeciderInv, LockInv
<1>1. ASSUME NEW w \in Worker PROVE \A x, y \in owed'[w] : x = y
  <2>0. \A x, y \in owed[w] : x = y
    BY DEF DeciderInv, OneOwed
  <2>1. CASE WorkStep(w) \/ WorkerFault(w)
    <3>1. \/ owed'[w] = owed[w] \/ owed'[w] = {} \/ owed'[w] = OwedBy(w)
      BY <1>0, <2>1, OwedChanges
    <3> QED
      BY <2>0, <3>1 DEF OwedBy
  <2>2. CASE owed'[w] = owed[w]
    BY <2>0, <2>2
  <2>3. ASSUME NEW v \in Worker, v # w, WorkStep(v) \/ WorkerFault(v)
        PROVE  owed'[w] = owed[w]
    BY <1>0, <2>3, OthersRest
  <2> QED
    BY <2>1, <2>2, <2>3, OtherStepKinds
<1> QED
  BY <1>0, <1>1 DEF DeciderInv, OneOwed

(* The row of a task changes at the hands of the worker that has it, or is  *)
(* taken from the queue.                                                    *)
LEMMA WorkerWrites ==
  ASSUME PlaneInv, NEW w \in Worker, WorkStep(w) \/ WorkerFault(w)
  PROVE  \/ UNCHANGED tasks \/ Take(w) \/ LoseTaken(w)
         \/ /\ workers[w].pc \in Busy
            /\ \A u \in TaskID \ {workers[w].task} : tasks'[u] = tasks[u]
<1> DEFINE t == workers[w].task
<1>0. tasks \in Table /\ (workers[w].pc \in Busy => t \in TaskID)
  BY DEF PlaneInv, IInv, TypeOK, SingleOwner
<1>1. CASE SkipCanceled(w) \/ WriteSucceeded(w)
  <2>1. PICK st \in Status : workers[w].pc \in Busy /\ tasks' = CompleteTask(tasks, t, st)
    BY <1>1 DEF SkipCanceled, CancelObserved, WriteSucceeded, Complete, Busy, Status, Terminal
  <2> QED
    BY <1>0, <2>1, CompleteTaskRow
<1>2. CASE WriteFailed(w)
  <2>1. CASE Fail(w)
    BY <1>0, <2>1, FailTaskRow DEF Fail, Busy
  <2>2. CASE Dead(w)
    BY <1>0, <2>2, MarkTaskDeadRow DEF Dead, Busy
  <2> QED
    BY <1>2, <2>1, <2>2 DEF WriteFailed
<1>3. CASE \/ BeginTx(w) \/ AcquireWorkspaceLock(w)
           \/ CommitEmpty(w) \/ CheckReferences(w) \/ CommitDeleted(w)
           \/ Noop(w) \/ NotNoop(w) \/ CallExecutor(w) \/ ExecutorFails(w)
           \/ FindCurrent(w) \/ CloneSnapshot(w) \/ SwitchLink(w)
           \/ PostWrite(w) \/ WriteInitFailed(w)
  BY <1>3 DEF BeginTx, Begin, AcquireWorkspaceLock, CommitEmpty, CheckReferences,
    CommitDeleted, Noop, NotNoop, CallExecutor, ExecutorFails, FindCurrent,
    CloneSnapshot, SwitchLink, ExecuteOk, ExecuteFail, PostWrite, WriteInitFailed, engineVars
<1>4. CASE WorkerFault(w) /\ ~LoseTaken(w)
  BY <1>4 DEF WorkerFault, TxFails, NoopUnread, AnswerLost, LosePost, LoseStatus,
    LoseWrite, LoseInitFailed, WorkerCrash, Crash, WorkerRestart, Restart, ExecuteFail,
    engineVars
<1> QED
  BY <1>1, <1>2, <1>3, <1>4 DEF WorkStep

(* A task in the queue stays there until it is canceled or taken. *)
LEMMA QueuedStep ==
  ASSUME PlaneInv, [PlaneNext]_vars, NEW t \in TaskID,
         tasks[t].status \in {"PENDING", "FAILED"}
  PROVE  \/ tasks'[t].status \in {"PENDING", "FAILED", "CANCELED"}
         \/ \E w \in Worker : \/ LoseTaken(w)
                              \/ workers'[w].pc = "dequeued" /\ workers'[w].task = t
<1> DEFINE Queued == tasks'[t].status \in {"PENDING", "FAILED", "CANCELED"}
<1>0. tasks \in Table /\ workers \in [Worker -> WorkerState]
  BY DEF PlaneInv, IInv, TypeOK
<1>1. ASSUME NEW w \in Worker, WorkStep(w) \/ WorkerFault(w)
      PROVE  Queued \/ LoseTaken(w) \/ (workers'[w].pc = "dequeued" /\ workers'[w].task = t)
  <2>1. CASE Take(w)
    <3>1. CASE UNCHANGED tasks
      BY <3>1
    <3>2. PICK u \in TaskID : /\ tasks' = DequeueTask(tasks, u)
                              /\ workers'[w].pc = "dequeued" /\ workers'[w].task = u
      BY <1>0, <2>1 DEF Take, Dequeue
    <3>3. \A x \in TaskID \ {u} : tasks'[x] = tasks[x]
      BY <1>0, <3>2, DequeueTaskRow
    <3> QED
      BY <3>2, <3>3
  <2>2. CASE /\ workers[w].pc \in Busy
             /\ \A u \in TaskID \ {workers[w].task} : tasks'[u] = tasks[u]
    <3>1. tasks[workers[w].task].status = "RUNNING"
      BY <2>2, BusyJob
    <3> QED
      BY <2>2, <3>1
  <2> QED
    BY <1>1, <2>1, <2>2, WorkerWrites
<1>2. ASSUME NEW h \in Handler, Handle(h) \/ HandlerFails(h) \/ HandlerIgnores(h)
      PROVE  Queued
  <2>1. CASE InsertJob(h)
    <3>1. PICK u \in TaskID : CreateTask(u)
      BY <2>1 DEF InsertJob
    <3>2. \A x \in TaskID \ {u} : tasks'[x] = tasks[x]
      BY <1>0, <3>1, InsertTaskRow DEF CreateTask
    <3> QED
      BY <3>1, <3>2 DEF CreateTask, Exists, Absent
  <2>2. CASE ~InsertJob(h)
    BY <1>2, <2>2, HandlerSteps DEF HandlerOnly, engineVars
  <2> QED
    BY <2>1, <2>2
<1>3. ASSUME NEW c \in Canceller, Cancel(c) \/ LoseCancel(c) PROVE Queued
  <2> DEFINE u == cancels[c].task
  <2>1. CASE UNCHANGED tasks
    BY <2>1
  <2>2. CASE cancels[c].pc = "read" /\ tasks' = CancelPendingTask(tasks, u)
    <3>1. u \in TaskID
      BY <2>2 DEF PlaneInv, IInv, CancelsOK
    <3> QED
      BY <1>0, <2>2, <3>1, CancelPendingTaskRow
  <2>3. CASE cancels[c].pc = "read" /\ tasks' = RequestCancelRunningTask(tasks, u)
    <3>1. u \in TaskID
      BY <2>3 DEF PlaneInv, IInv, CancelsOK
    <3>2. /\ \A x \in TaskID \ {u} : tasks'[x] = tasks[x]
          /\ tasks'[u].status = tasks[u].status
      BY <1>0, <2>3, <3>1, RequestCancelRunningTaskRow
    <3> QED
      BY <3>2
  <2> QED
    BY <1>3, <2>1, <2>2, <2>3
    DEF Cancel, CancelRead, CancelPending, RequestCancel, CancelMissed, LoseCancel
<1>4. ASSUME NEW u \in TaskID, BackoffElapsed(u) PROVE Queued
  BY <1>0, <1>4 DEF BackoffElapsed, Table, TaskRow
<1>5. CASE UNCHANGED tasks
  BY <1>5
<1> QED
  BY <1>1, <1>2, <1>3, <1>4, <1>5 DEF PlaneNext, Calm, Outlive, vars, engineVars

(* What is left of DeciderIsKept for one workspace. *)
Kept(ws) ==
  workspaces'[ws].state # "PROVISIONING" \/ Decider(ws)' \/ Orphaned(ws)

LEMMA InsertingIsKept ==
  ASSUME PlaneInv, [PlaneNext]_vars, NEW ws \in Workspace, NEW h \in Handler,
         Initialising(h, ws)
  PROVE  Kept(ws)
<1>1. CASE UNCHANGED handlers
  BY <1>1 DEF Kept, Decider, Initialising
<1>2. CASE HandlerFails(h)
  BY <1>2 DEF Kept, Orphaned
<1>3. CASE InsertJob(h)
  <2>1. PICK t \in TaskID : CreateTask(t) /\ jobs' = [jobs EXCEPT ![t] = JobFor(h, t)]
    BY <1>3 DEF InsertJob
  <2>2. tasks'[t].status = "PENDING"
    BY <2>1, InsertTaskRow DEF CreateTask, PlaneInv, IInv, TypeOK
  <2>3. jobs'[t] = JobFor(h, t)
    BY <2>1 DEF PlaneInv, PlaneTypeOK
  <2>4. InitTask(t, ws)'
    BY <2>3 DEF InitTask, JobFor, Initialising
  <2> QED
    BY <2>2, <2>4 DEF Kept, Decider
<1>4. CASE (Handle(h) /\ ~InsertJob(h)) \/ HandlerIgnores(h)
  BY <1>4 DEF Initialising, Handle, InsertWorkspace, RetryInitRead, DisableRead,
    SnapshotRead, DropRead, SetCurrentRead, ReadForSnapshot, RetryInitReset, DisableCount,
    Disable, Lookup, HandlerIgnores
<1>5. CASE handlers'[h] = handlers[h]
  BY <1>5 DEF Kept, Decider, Initialising
<1> QED
  BY <1>1, <1>2, <1>3, <1>4, <1>5, HandlersMove

LEMMA QueuedIsKept ==
  ASSUME PlaneInv, [PlaneNext]_vars, NEW ws \in Workspace, NEW t \in TaskID,
         InitTask(t, ws), tasks[t].status \in {"PENDING", "FAILED"}
  PROVE  Kept(ws)
<1>1. InitTask(t, ws)'
  BY RowsStay DEF InitTask, Exists, Absent
<1>2. CASE tasks'[t].status \in {"PENDING", "FAILED"}
  BY <1>1, <1>2 DEF Kept, Decider
<1>3. CASE tasks'[t].status = "CANCELED"
  BY <1>3 DEF Kept, Orphaned
<1>4. ASSUME NEW w \in Worker, LoseTaken(w) PROVE Kept(ws)
  BY <1>4 DEF Kept, Orphaned
<1>5. ASSUME NEW w \in Worker, workers'[w].pc = "dequeued", workers'[w].task = t
      PROVE  Kept(ws)
  <2>1. Deciding(w)' /\ InitTask(workers[w].task, ws)'
    BY <1>1, <1>5 DEF Deciding, InitTask
  <2> QED
    BY <2>1 DEF Kept, Decider
<1> QED
  BY <1>2, <1>3, <1>4, <1>5, QueuedStep

(* A worker that goes on deciding. *)
LEMMA HandedOn ==
  ASSUME PlaneInv, [PlaneNext]_vars, NEW ws \in Workspace, NEW w \in Worker,
         workers[w].pc \in Busy, InitTask(workers[w].task, ws),
         workers'[w].task = workers[w].task, Deciding(w)'
  PROVE  Kept(ws)
<1>1. jobs'[workers[w].task] = jobs[workers[w].task]
  BY BusyJob, RowsStay DEF Exists, Absent
<1>2. InitTask(workers[w].task, ws)'
  BY <1>1 DEF InitTask
<1> QED
  BY <1>2 DEF Kept, Decider

LEMMA DecidingIsKept ==
  ASSUME PlaneInv, [PlaneNext]_vars, NEW ws \in Workspace, NEW w \in Worker,
         Deciding(w), InitTask(workers[w].task, ws)
  PROVE  Kept(ws)
<1>0. PICK t \in TaskID :
      /\ t = workers[w].task /\ workers[w].pc \in Busy /\ tasks[t].status = "RUNNING"
      /\ JobOf(w).op = "init_workspace" /\ JobOf(w).ws = ws
      /\ workers \in [Worker -> WorkerState] /\ stage \in [Worker -> Stage]
      /\ tasks \in Table /\ owed \in [Worker -> SUBSET Workspace]
      /\ workspaces \in [Workspace -> WsRow]
  <2>1. workers[w].pc \in Busy
    BY DEF Deciding, Busy
  <2> QED
    BY <2>1, BusyJob DEF InitTask, PlaneInv, PlaneTypeOK, TypeOK
<1>1. ASSUME workers'[w].task = t, Deciding(w)' PROVE Kept(ws)
  BY <1>0, <1>1, HandedOn
<1>2. CASE workers'[w] = workers[w] /\ stage'[w] = stage[w]
  <2>1. Deciding(w)'
    BY <1>2 DEF Deciding
  <2> QED
    BY <1>0, <1>1, <1>2, <2>1
<1>3. CASE \/ Take(w) \/ WriteSucceeded(w) \/ Noop(w) \/ FindCurrent(w)
           \/ SwitchLink(w) \/ WorkerRestart(w)
  <2>1. ~WriteSucceeded(w)
    BY DEF WriteSucceeded, Complete, Deciding
  <2>2. ~(Noop(w) \/ SwitchLink(w) \/ FindCurrent(w))
    BY <1>0 DEF Noop, SwitchLink, FindCurrent, PlaneInv, WorkerOK
  <2>3. ~(Take(w) \/ WorkerRestart(w))
    BY <1>0 DEF Take, Dequeue, WorkerRestart, Restart, Busy
  <2> QED
    BY <1>3, <2>1, <2>2, <2>3
<1>4. CASE SkipCanceled(w)
  <2>1. tasks'[t].status = "CANCELED"
    BY <1>0, <1>4, CompleteTaskRow DEF SkipCanceled, CancelObserved, Status, Terminal
  <2> QED
    BY <1>0, <2>1 DEF Kept, Orphaned, InitTask, JobOf
<1>5. CASE \/ BeginTx(w) \/ AcquireWorkspaceLock(w) \/ CommitEmpty(w)
           \/ CheckReferences(w) \/ CommitDeleted(w) \/ NotNoop(w)
           \/ CloneSnapshot(w) \/ NoopUnread(w)
  <2>1. workers'[w].pc \in {"executing", "failed"} /\ workers'[w].task = t
    BY <1>0, <1>5, WorkerGoto DEF BeginTx, Begin, AcquireWorkspaceLock, CommitEmpty,
      CheckReferences, ExecuteFail, CommitDeleted, NotNoop, CloneSnapshot, NoopUnread,
      At, engineVars, Pc
  <2> QED
    BY <1>1, <2>1 DEF Deciding
<1>6. CASE ExecutorFails(w) \/ TxFails(w) \/ AnswerLost(w)
  <2>1. workers'[w].pc = "failed" /\ workers'[w].task = t
    BY <1>0, <1>6, WorkerGoto DEF ExecutorFails, TxFails, AnswerLost, ExecuteFail, Pc
  <2> QED
    BY <1>1, <2>1 DEF Deciding
<1>7. CASE CallExecutor(w)
  <2>1. workers'[w].pc = "succeeded" /\ workers'[w].task = t /\ stage'[w] = "post"
    BY <1>0, <1>7, WorkerGoto DEF CallExecutor, ExecuteOk, Proceed, Pc
  <2> QED
    BY <1>1, <2>1 DEF Deciding
<1>8. CASE PostWrite(w)
  <2>1. workspaces'[ws].state = "ACTIVE"
    BY <1>0, <1>8 DEF PostWrite, RecordResult, SetState, WsRow
  <2> QED
    BY <2>1 DEF Kept
<1>9. CASE WriteFailed(w)
  <2>1. CASE Fail(w)
    <3>1. tasks'[t].status = "FAILED"
      BY <1>0, <2>1, FailTaskRow DEF Fail
    <3>2. InitTask(t, ws)'
      BY <1>0, RowsStay DEF InitTask, JobOf, Exists, Absent
    <3> QED
      BY <1>0, <3>1, <3>2 DEF Kept, Decider
  <2>2. CASE Dead(w)
    <3>1. owed'[w] = {ws}
      BY <1>0, <1>9, <2>2 DEF WriteFailed, AfterFailTask, OwedBy, Dead
    <3> QED
      BY <3>1 DEF Kept, Decider
  <2> QED
    BY <1>9, <2>1, <2>2 DEF WriteFailed
<1>10. CASE WriteInitFailed(w)
  BY <1>2, <1>10 DEF WriteInitFailed, engineVars
<1>11. CASE LosePost(w) \/ LoseStatus(w) \/ LoseInitFailed(w) \/ LoseTaken(w) \/ WorkerCrash(w)
  BY <1>11 DEF Kept, Orphaned
<1>12. ASSUME NEW v \in Worker, v # w, WorkStep(v) \/ WorkerFault(v)
       PROVE  workers'[w] = workers[w] /\ stage'[w] = stage[w]
  BY <1>12, OthersRest
<1>13. CASE WorkStep(w) \/ WorkerFault(w)
  BY <1>3, <1>4, <1>5, <1>6, <1>7, <1>8, <1>9, <1>10, <1>11, <1>13 DEF WorkStep, WorkerFault
<1> QED
  BY <1>2, <1>12, <1>13, OtherStepKinds

LEMMA OwedIsKept ==
  ASSUME DeciderInv, [PlaneNext]_vars, NEW ws \in Workspace, NEW w \in Worker,
         ws \in owed[w]
  PROVE  Kept(ws)
<1>0. /\ PlaneInv /\ workers[w].pc \notin Busy
      /\ \A x \in owed[w] : x = ws
      /\ workspaces \in [Workspace -> WsRow]
  BY DEF DeciderInv, LockInv, OwedOK, OneOwed, PlaneInv, PlaneTypeOK
<1>1. CASE owed'[w] = owed[w]
  BY <1>1 DEF Kept, Decider
<1>2. CASE WriteInitFailed(w)
  <2>1. workspaces'[ws].state = "INIT_FAILED"
    BY <1>0, <1>2 DEF WriteInitFailed, SetState, WsRow
  <2> QED
    BY <2>1 DEF Kept
<1>3. CASE LosePost(w) \/ LoseStatus(w) \/ LoseInitFailed(w) \/ LoseTaken(w) \/ WorkerCrash(w)
  BY <1>3 DEF Kept, Orphaned
<1>4. CASE \/ Take(w) \/ SkipCanceled(w) \/ BeginTx(w) \/ AcquireWorkspaceLock(w)
           \/ CommitEmpty(w) \/ CheckReferences(w) \/ CommitDeleted(w)
  BY <1>1, <1>4 DEF Take, SkipCanceled, BeginTx, AcquireWorkspaceLock, CommitEmpty,
    CheckReferences, CommitDeleted, planeVars
<1>5. CASE \/ Noop(w) \/ NotNoop(w) \/ CallExecutor(w) \/ ExecutorFails(w)
           \/ FindCurrent(w) \/ CloneSnapshot(w) \/ SwitchLink(w)
           \/ PostWrite(w) \/ WriteSucceeded(w)
  BY <1>1, <1>5 DEF Noop, NotNoop, CallExecutor, ExecutorFails,
    FindCurrent, CloneSnapshot, SwitchLink, PostWrite, WriteSucceeded
<1>6. CASE WriteFailed(w)
  BY <1>0, <1>6 DEF WriteFailed, Fail, Dead, Busy
<1>7. CASE TxFails(w) \/ NoopUnread(w) \/ AnswerLost(w) \/ WorkerRestart(w)
  BY <1>1, <1>7 DEF TxFails, NoopUnread, AnswerLost, WorkerRestart, planeVars
<1>8. ASSUME NEW v \in Worker, v # w, WorkStep(v) \/ WorkerFault(v)
      PROVE  owed'[w] = owed[w]
  BY <1>0, <1>8, OthersRest
<1>9. CASE WorkStep(w) \/ WorkerFault(w)
  BY <1>2, <1>3, <1>4, <1>5, <1>6, <1>7, <1>9 DEF WorkStep, WorkerFault
<1> QED
  BY <1>1, <1>8, <1>9, OtherStepKinds

(* A workspace that is PROVISIONING loses whoever will decide it only where *)
(* the code gives up: no failed transaction or call, no retry, no second    *)
(* retry-init, no disable and no other task does it.                        *)
THEOREM DecidersAreKept == PlaneSpec => DeciderIsKept
<1>1. PlaneInit => DeciderInv
  BY LockInit DEF PlaneInit, DeciderInv, OneOwed
<1>2. DeciderInv /\ [PlaneNext]_vars => DeciderInv'
  BY DeciderInductive
<1>3. DeciderInv /\ [PlaneNext]_vars
        => [\A ws \in Workspace :
              workspaces[ws].state = "PROVISIONING" /\ Decider(ws) =>
                workspaces'[ws].state # "PROVISIONING" \/ Decider(ws)' \/ Orphaned(ws)]_vars
  <2> SUFFICES ASSUME DeciderInv, [PlaneNext]_vars, NEW ws \in Workspace, Decider(ws)
               PROVE  Kept(ws)
    BY DEF Kept
  <2>1. PlaneInv
    BY DEF DeciderInv, LockInv
  <2> QED
    BY <2>1, InsertingIsKept, QueuedIsKept, DecidingIsKept, OwedIsKept DEF Decider
<1> QED
  BY <1>1, <1>2, <1>3, PTL DEF PlaneSpec, DeciderIsKept

=============================================================================
