------------------------- MODULE ControlPlaneProofs --------------------------
(***************************************************************************)
(* Proofs about ControlPlane for every number of tasks, attempts, workers,  *)
(* workspaces, handlers and cancellations, every fault included.            *)
(*                                                                          *)
(* First, the service is an engine: TaskEngineProofs' invariant IInv holds  *)
(* of it.  Then PlaneInv strengthens the safety invariants on rows and      *)
(* directories until they are inductive.                                    *)
(***************************************************************************)
EXTENDS ControlPlane, TaskEngineProofs

(* Every row has its job; a drop names a snapshot that has been visible. *)
JobsOK ==
  \A t \in TaskID :
    /\ Exists(tasks[t]) => jobs[t] \in Job
    /\ jobs[t].op = "snapshot_create" => jobs[t].snap = t
    /\ jobs[t].op = "snapshot_drop" =>
         jobs[t].snap \in TaskID /\ snapshots[jobs[t].snap] # "absent"

(* The task that created a snapshot which is or was visible is beyond its   *)
(* executor call, for good: no attempt of it will clone the directory again. *)
CreatorsOK ==
  \A s \in TaskID : snapshots[s] # "absent" =>
    /\ jobs[s].op = "snapshot_create"
    /\ tasks[s].status \notin {Absent, "PENDING", "FAILED"}
    /\ \A w \in Worker : workers[w].pc \in Busy /\ workers[w].task = s
                           => workers[w].pc = "succeeded"

HandlerOK(h) ==
  LET r == handlers[h] IN
  /\ r.pc # "idle" => r.ws \in Workspace
  /\ r.pc \in {"reset", "insert", "lookup"} => r.op \in Op
  /\ r.pc = "reset" => r.op = "init_workspace"
  /\ r.pc = "lookup" => r.snap \in TaskID
  /\ r.pc = "insert" /\ r.op = "snapshot_drop" =>
       r.snap \in TaskID /\ snapshots[r.snap] # "absent"

(* A directory that can be taken for snapshot s: it is complete, or had its *)
(* metadata early.                                                          *)
Good(s, f) == s \in f.cloned \cap f.whole \cap f.metas \/ s \in f.premature

(* Metadata belong to such a directory, unless a drop is removing it; only  *)
(* a workspace that has switched can have metadata early.                   *)
FilesOK ==
  \A ws \in Workspace :
    /\ \A s \in TaskID : s \in fs[ws].metas => Good(s, fs[ws]) \/ snapshots[s] = "deleted"
    /\ fs[ws].premature # {} => fs[ws].current # NoTask

(* A drop whose call was given up had committed its mark. *)
ForgottenOK ==
  \A t \in forgotten :
    /\ Exists(tasks[t])
    /\ jobs[t].op = "snapshot_drop" => snapshots[jobs[t].snap] = "deleted"

WorkerOK(w) ==
  LET job == JobOf(w) IN
  /\ At(w, "checked") => job.op = "snapshot_drop"
  /\ At(w, "dispatch") => job.op = "set_current"
  /\ At(w, "switch") => job.op = "set_current"
  /\ At(w, "call") /\ job.op = "snapshot_drop" => snapshots[job.snap] = "deleted"
  /\ workers[w].pc = "succeeded" =>
       /\ job.op = "snapshot_drop" =>
            /\ snapshots[job.snap] = "deleted"
            /\ job.snap \in fs[job.ws].cloned => job.snap \in forgotten
       /\ stage[w] = "post" /\ job.op = "init_workspace" => fs[job.ws].init
       /\ job.op = "snapshot_create" =>
            Good(job.snap, fs[job.ws]) \/ snapshots[job.snap] = "deleted"

PlaneInv ==
  /\ IInv /\ PlaneTypeOK /\ JobsOK /\ CreatorsOK /\ FilesOK /\ ForgottenOK
  /\ \A h \in Handler : HandlerOK(h)
  /\ \A w \in Worker : WorkerOK(w)
  /\ VisibleSnapshotHasDirectory /\ ActiveIsInitialised
  /\ SucceededDropIsComplete /\ SucceededCreateIsThere

-----------------------------------------------------------------------------
(* The service is an engine. *)

(* The engine's steps that insert no row. *)
EngineRest ==
  \/ \E t \in TaskID : BackoffElapsed(t)
  \/ \E w \in Worker : Work(w) \/ Fault(w) \/ Restart(w)
  \/ \E c \in Canceller : Cancel(c) \/ LoseCancel(c)
  \/ UNCHANGED engineVars

LEMMA HandlerSteps ==
  ASSUME NEW h \in Handler,
         (Handle(h) /\ ~InsertJob(h)) \/ HandlerFails(h) \/ HandlerIgnores(h)
  PROVE  HandlerOnly
  BY DEF Handle, HandlerFails, HandlerIgnores, InsertWorkspace, RetryInitRead,
         DisableRead, SnapshotRead, DropRead, SetCurrentRead, ReadForSnapshot,
         RetryInitReset, DisableCount, Disable, Lookup

LEMMA WorkSteps ==
  ASSUME NEW w \in Worker, WorkStep(w) \/ WorkerFault(w)
  PROVE  (Work(w) \/ Fault(w) \/ Restart(w) \/ UNCHANGED engineVars) /\ UNCHANGED jobs
<1>1. CASE Take(w) \/ SkipCanceled(w) \/ BeginTx(w) \/ AcquireWorkspaceLock(w)
           \/ CommitEmpty(w) \/ CheckReferences(w) \/ CommitDeleted(w)
  BY <1>1 DEF Take, SkipCanceled, BeginTx, AcquireWorkspaceLock, CommitEmpty,
              CheckReferences, CommitDeleted, Work, planeVars
<1>2. CASE Noop(w) \/ NotNoop(w) \/ CallExecutor(w) \/ ExecutorFails(w)
           \/ FindCurrent(w) \/ CloneSnapshot(w) \/ SwitchLink(w)
           \/ PostWrite(w) \/ WriteSucceeded(w) \/ WriteFailed(w) \/ WriteInitFailed(w)
  BY <1>2 DEF Noop, NotNoop, CallExecutor, ExecutorFails, FindCurrent, CloneSnapshot,
              SwitchLink, PostWrite, WriteSucceeded, WriteFailed, AfterFailTask,
              WriteInitFailed, Work
<1>3. CASE WorkerFault(w)
  BY <1>3 DEF WorkerFault, TxFails, NoopUnread, AnswerLost, LosePost, LoseStatus,
              AfterFailTask, LoseInitFailed, LoseTaken, WorkerCrash, WorkerRestart,
              Work, Fault, planeVars
<1> QED
  BY <1>1, <1>2, <1>3 DEF WorkStep

LEMMA PlaneStepKinds ==
  ASSUME [PlaneNext]_vars
  PROVE  (\E h \in Handler : InsertJob(h)) \/ (UNCHANGED jobs /\ EngineRest)
<1>1. ASSUME NEW h \in Handler, Handle(h) \/ HandlerFails(h) \/ HandlerIgnores(h)
      PROVE  InsertJob(h) \/ (UNCHANGED jobs /\ EngineRest)
  BY <1>1, HandlerSteps DEF HandlerOnly, EngineRest, engineVars
<1>2. ASSUME NEW w \in Worker, WorkStep(w) \/ WorkerFault(w)
      PROVE  UNCHANGED jobs /\ EngineRest
  BY <1>2, WorkSteps DEF EngineRest
<1>3. ASSUME NEW c \in Canceller, (Cancel(c) \/ LoseCancel(c)) /\ UNCHANGED planeVars
      PROVE  UNCHANGED jobs /\ EngineRest
  BY <1>3 DEF planeVars, EngineRest
<1>4. ASSUME NEW t \in TaskID, BackoffElapsed(t) /\ UNCHANGED planeVars
      PROVE  UNCHANGED jobs /\ EngineRest
  BY <1>4 DEF planeVars, EngineRest
<1>5. ASSUME NEW t \in TaskID, Outlive(t) PROVE UNCHANGED jobs /\ EngineRest
  BY <1>5 DEF Outlive, EngineRest
<1>6. CASE UNCHANGED vars
  BY <1>6 DEF vars, planeVars, EngineRest
<1> QED
  BY <1>1, <1>2, <1>3, <1>4, <1>5, <1>6 DEF PlaneNext, Calm

LEMMA PlaneStepIsEngineStep ==
  ASSUME [PlaneNext]_vars PROVE [EngineNext]_engineVars
<1>1. ASSUME NEW h \in Handler, InsertJob(h) PROVE EngineNext
  BY <1>1 DEF InsertJob, EngineNext, FaultFreeNext
<1>2. EngineRest => [EngineNext]_engineVars
  BY DEF EngineRest, EngineNext, FaultFreeNext
<1> QED
  BY <1>1, <1>2, PlaneStepKinds

LEMMA PlaneIsEngine == PlaneSpec => EngineSpec
<1>1. PlaneInit => EngineInit
  BY DEF PlaneInit
<1>2. [PlaneNext]_vars => [EngineNext]_engineVars
  BY PlaneStepIsEngineStep
<1> QED
  BY <1>1, <1>2, PTL DEF PlaneSpec, EngineSpec

(* So everything proved of the engine holds of the service. *)
LEMMA PlaneKeepsIInv == PlaneSpec => []IInv
  BY PlaneIsEngine, Inductive, PTL

-----------------------------------------------------------------------------
(* What a step of the engine does, as far as the service depends on it. *)

(* Rows stay; a row is to be taken again only if it was before or a worker  *)
(* failed with it; it has SUCCEEDED only if a worker succeeded with it.     *)
RowFrame(t) ==
  /\ Exists(tasks'[t]) <=> Exists(tasks[t])
  /\ tasks'[t].status \in {"PENDING", "FAILED"} =>
       \/ tasks[t].status \in {"PENDING", "FAILED"}
       \/ \E w \in Worker : workers[w].pc = "failed" /\ workers[w].task = t
  /\ tasks'[t].status = "SUCCEEDED" =>
       \/ tasks[t].status = "SUCCEEDED"
       \/ \E w \in Worker : workers[w].pc = "succeeded" /\ workers[w].task = t

(* A busy worker stays with its task, and with its success, or has just     *)
(* taken a row that was to be taken.                                        *)
BusyFrame(w) ==
  workers'[w].pc \in Busy =>
    \/ /\ workers[w].pc \in Busy /\ workers'[w].task = workers[w].task
       /\ workers[w].pc = "succeeded" => workers'[w].pc = "succeeded"
    \/ workers'[w].pc = "dequeued"
       /\ tasks[workers'[w].task].status \in {"PENDING", "FAILED"}

EngineFrame ==
  /\ \A t \in TaskID : RowFrame(t)
  /\ \A w \in Worker : BusyFrame(w)

LEMMA SameRows == ASSUME UNCHANGED tasks PROVE \A t \in TaskID : RowFrame(t)
  BY DEF RowFrame, Exists

LEMMA OneRowFrame ==
  ASSUME NEW t \in TaskID, \A u \in TaskID \ {t} : tasks'[u] = tasks[u], RowFrame(t)
  PROVE  \A u \in TaskID : RowFrame(u)
  BY DEF RowFrame, Exists

LEMMA OneWorkerFrame ==
  ASSUME NEW w \in Worker, \A v \in Worker \ {w} : workers'[v] = workers[v],
         BusyFrame(w)
  PROVE  \A v \in Worker : BusyFrame(v)
  BY DEF BusyFrame

LEMMA IdleFrame ==
  ASSUME NEW w \in Worker, \A v \in Worker \ {w} : workers'[v] = workers[v],
         workers'[w].pc \in {"idle", "down"}
  PROVE  \A v \in Worker : BusyFrame(v)
  BY DEF BusyFrame, Busy

LEMMA GotoFrame ==
  ASSUME IInv, NEW w \in Worker, NEW p \in Running, Goto(w, p),
         workers[w].pc \in {"dequeued", "executing"}, UNCHANGED tasks
  PROVE  EngineFrame
<1>1. /\ \A v \in Worker \ {w} : workers'[v] = workers[v]
      /\ workers'[w].task = workers[w].task
  BY WorkerGoto DEF IInv, TypeOK, Running, Pc
<1>2. BusyFrame(w)
  BY <1>1 DEF BusyFrame, Busy
<1> QED
  BY <1>1, <1>2, OneWorkerFrame, SameRows DEF EngineFrame

LEMMA TakenFrame ==
  ASSUME IInv, NEW t \in TaskID, Dequeueable(tasks[t]), tasks' = DequeueTask(tasks, t)
  PROVE  /\ \A u \in TaskID : RowFrame(u)
         /\ tasks[t].status \in {"PENDING", "FAILED"}
<1>1. /\ \A u \in TaskID \ {t} : tasks'[u] = tasks[u]
      /\ tasks'[t].status = "RUNNING"
  BY DequeueTaskRow DEF IInv, TypeOK
<1>2. tasks[t].status \in {"PENDING", "FAILED"}
  BY DEF Dequeueable
<1>3. RowFrame(t)
  BY <1>1, <1>2 DEF RowFrame, Exists, Absent
<1> QED
  BY <1>1, <1>2, <1>3, OneRowFrame

LEMMA EngineFrameHolds == ASSUME IInv, EngineRest PROVE EngineFrame
<1> USE DEF EngineFrame
<1>1. CASE UNCHANGED engineVars
  BY <1>1, SameRows DEF engineVars, BusyFrame
<1>2. ASSUME NEW t \in TaskID, BackoffElapsed(t) PROVE EngineFrame
  <2>1. /\ \A u \in TaskID \ {t} : tasks'[u] = tasks[u]
        /\ tasks'[t].status = tasks[t].status
        /\ UNCHANGED workers
    BY <1>2 DEF BackoffElapsed, IInv, TypeOK, Table, TaskRow
  <2>2. RowFrame(t)
    BY <2>1 DEF RowFrame, Exists
  <2> QED
    BY <2>1, <2>2, OneRowFrame DEF BusyFrame
<1>3. ASSUME NEW w \in Worker, Dequeue(w) PROVE EngineFrame
  <2>1. PICK t \in TaskID :
          /\ Dequeueable(tasks[t])
          /\ tasks' = DequeueTask(tasks, t)
          /\ workers' = [workers EXCEPT ![w] =
               [pc |-> "dequeued", task |-> t, attempt |-> tasks[t].attempt + 1,
                cancel |-> tasks[t].cancel_requested]]
    BY <1>3 DEF Dequeue, IsNext
  <2>2. /\ workers'[w].pc = "dequeued" /\ workers'[w].task = t
        /\ \A v \in Worker \ {w} : workers'[v] = workers[v]
    BY <2>1 DEF IInv, TypeOK
  <2>3. BusyFrame(w)
    BY <2>1, <2>2, TakenFrame DEF BusyFrame
  <2> QED
    BY <2>1, <2>2, <2>3, TakenFrame, OneWorkerFrame
<1>4. ASSUME NEW w \in Worker, LoseDequeued(w) PROVE EngineFrame
  <2>1. PICK t \in TaskID : Dequeueable(tasks[t]) /\ tasks' = DequeueTask(tasks, t)
    BY <1>4 DEF LoseDequeued, IsNext
  <2> QED
    BY <1>4, <2>1, TakenFrame DEF LoseDequeued, BusyFrame
<1>5. ASSUME NEW w \in Worker, Begin(w) \/ ExecuteOk(w) \/ ExecuteFail(w)
      PROVE  EngineFrame
  BY <1>5, GotoFrame DEF Begin, ExecuteOk, ExecuteFail, Running
<1>6. ASSUME NEW w \in Worker, CancelObserved(w) \/ Complete(w) \/ Fail(w) \/ Dead(w)
      PROVE  EngineFrame
  <2> DEFINE t == workers[w].task
  <2>1. Leave(w) /\ workers[w].pc \in Busy
    BY <1>6 DEF CancelObserved, Complete, Fail, Dead, Busy
  <2>2. t \in TaskID /\ tasks[t].status = "RUNNING" /\ tasks \in Table
    BY <2>1 DEF IInv, SingleOwner, TypeOK
  <2>3. /\ \A v \in Worker \ {w} : workers'[v] = workers[v]
        /\ workers'[w].pc = "idle"
    BY <2>1, WorkerLeave DEF IInv, TypeOK
  <2>4. CASE CancelObserved(w)
    <3>1. /\ \A u \in TaskID \ {t} : tasks'[u] = tasks[u]
          /\ tasks'[t].status = "CANCELED"
      BY <2>2, <2>4, CompleteTaskRow DEF CancelObserved, Status, Terminal
    <3>2. RowFrame(t)
      BY <2>2, <3>1 DEF RowFrame, Exists, Absent
    <3> QED
      BY <2>2, <2>3, <3>1, <3>2, OneRowFrame, IdleFrame
  <2>5. CASE Complete(w)
    <3>1. /\ \A u \in TaskID \ {t} : tasks'[u] = tasks[u]
          /\ tasks'[t].status = "SUCCEEDED"
          /\ workers[w].pc = "succeeded"
      BY <2>2, <2>5, CompleteTaskRow DEF Complete, Status, Terminal
    <3>2. RowFrame(t)
      BY <2>2, <3>1 DEF RowFrame, Exists, Absent
    <3> QED
      BY <2>2, <2>3, <3>1, <3>2, OneRowFrame, IdleFrame
  <2>6. CASE Fail(w)
    <3>1. /\ \A u \in TaskID \ {t} : tasks'[u] = tasks[u]
          /\ tasks'[t].status = "FAILED"
          /\ workers[w].pc = "failed"
      BY <2>2, <2>6, FailTaskRow DEF Fail
    <3>2. RowFrame(t)
      BY <2>2, <3>1 DEF RowFrame, Exists, Absent
    <3> QED
      BY <2>2, <2>3, <3>1, <3>2, OneRowFrame, IdleFrame
  <2>7. CASE Dead(w)
    <3>1. /\ \A u \in TaskID \ {t} : tasks'[u] = tasks[u]
          /\ tasks'[t].status = "DEAD"
      BY <2>2, <2>7, MarkTaskDeadRow DEF Dead
    <3>2. RowFrame(t)
      BY <2>2, <3>1 DEF RowFrame, Exists, Absent
    <3> QED
      BY <2>2, <2>3, <3>1, <3>2, OneRowFrame, IdleFrame
  <2> QED
    BY <1>6, <2>4, <2>5, <2>6, <2>7
<1>7. ASSUME NEW w \in Worker, LoseWrite(w) \/ Crash(w) \/ Restart(w)
      PROVE  EngineFrame
  <2>1. /\ \A v \in Worker \ {w} : workers'[v] = workers[v]
        /\ workers'[w].pc \in {"idle", "down"}
        /\ UNCHANGED tasks
    BY <1>7, WorkerLeave DEF LoseWrite, Crash, Restart, IdleWorker, IInv, TypeOK
  <2> QED
    BY <2>1, IdleFrame, SameRows
<1>8. ASSUME NEW c \in Canceller, Cancel(c) \/ LoseCancel(c) PROVE EngineFrame
  <2> DEFINE t == cancels[c].task
  <2>0. UNCHANGED workers
    BY <1>8 DEF Cancel, CancelRead, CancelPending, RequestCancel, CancelMissed, LoseCancel
  <2>1. \A v \in Worker : BusyFrame(v)
    BY <2>0 DEF BusyFrame
  <2>2. CASE UNCHANGED tasks
    BY <2>1, <2>2, SameRows
  <2>3. CASE cancels[c].pc = "read" /\ CancelPendingMatches(tasks[t])
             /\ tasks' = CancelPendingTask(tasks, t)
    <3>1. t \in TaskID /\ tasks \in Table
      BY <2>3 DEF IInv, CancelsOK, TypeOK
    <3>2. /\ \A u \in TaskID \ {t} : tasks'[u] = tasks[u]
          /\ tasks'[t].status = "CANCELED" /\ tasks[t].status = "PENDING"
      BY <2>3, <3>1, CancelPendingTaskRow DEF CancelPendingMatches
    <3>3. RowFrame(t)
      BY <3>2 DEF RowFrame, Exists, Absent
    <3> QED
      BY <2>1, <3>1, <3>2, <3>3, OneRowFrame
  <2>4. CASE cancels[c].pc = "read" /\ tasks' = RequestCancelRunningTask(tasks, t)
    <3>1. t \in TaskID /\ tasks \in Table
      BY <2>4 DEF IInv, CancelsOK, TypeOK
    <3>2. /\ \A u \in TaskID \ {t} : tasks'[u] = tasks[u]
          /\ tasks'[t].status = tasks[t].status
      BY <2>4, <3>1, RequestCancelRunningTaskRow
    <3>3. RowFrame(t)
      BY <3>2 DEF RowFrame, Exists
    <3> QED
      BY <2>1, <3>1, <3>2, <3>3, OneRowFrame
  <2> QED
    BY <1>8, <2>2, <2>3, <2>4
    DEF Cancel, CancelRead, CancelPending, RequestCancel, CancelMissed, LoseCancel
<1> QED
  BY <1>1, <1>2, <1>3, <1>4, <1>5, <1>6, <1>7, <1>8 DEF EngineRest, Work, Fault

-----------------------------------------------------------------------------
(* What a step of the service that inserts no row does to the snapshots, the *)
(* file systems and the workspaces, and what follows for PlaneInv.           *)

(* A row appears when the task that creates it has succeeded and the         *)
(* directory is there; from then on it can only be marked.                   *)
SnapshotFrame(s) ==
  \/ snapshots'[s] = snapshots[s]
  \/ snapshots[s] # "absent" /\ snapshots'[s] = "deleted"
  \/ /\ snapshots[s] = "absent" /\ snapshots'[s] = "present"
     /\ jobs[s].op = "snapshot_create"
     /\ Good(s, fs[jobs[s].ws])
     /\ \E w \in Worker : workers[w].pc = "succeeded" /\ workers[w].task = s
     /\ UNCHANGED <<tasks, workers, fs>>

(* A directory appears only while a call of the task that creates it runs,  *)
(* given up or not, and what can be taken for a snapshot stays so until its *)
(* row is marked.                                                           *)
FsFrame(ws) ==
  LET f == fs[ws]  g == fs'[ws] IN
  /\ f.init => g.init
  /\ f.current # NoTask => g.current # NoTask
  /\ g.premature # {} => f.premature # {} \/ g.current # NoTask
  /\ \A s \in TaskID :
       /\ s \in g.cloned \ f.cloned =>
            \/ s \in forgotten
            \/ \E w \in Worker : workers[w].pc = "executing" /\ workers[w].task = s
       /\ Good(s, f) => Good(s, g) \/ snapshots[s] = "deleted"
       /\ s \in g.metas => s \in f.metas \/ Good(s, g) \/ snapshots[s] = "deleted"

StateFrame(ws) ==
  workspaces'[ws].state = "ACTIVE" => workspaces[ws].state = "ACTIVE" \/ fs[ws].init

ForgottenFrame ==
  /\ forgotten \subseteq forgotten'
  /\ \A t \in forgotten' \ forgotten :
       \E w \in Worker : Calling(w) /\ workers[w].task = t

PlaneFrame ==
  /\ UNCHANGED jobs
  /\ EngineFrame
  /\ \A s \in TaskID : SnapshotFrame(s)
  /\ \A ws \in Workspace : FsFrame(ws) /\ StateFrame(ws)
  /\ ForgottenFrame

(* The rows and directories of tasks that have been inserted. *)
LEMMA BusyJob ==
  ASSUME PlaneInv, NEW w \in Worker, workers[w].pc \in Busy
  PROVE  /\ workers[w].task \in TaskID
         /\ tasks[workers[w].task].status = "RUNNING"
         /\ JobOf(w) = jobs[workers[w].task]
         /\ JobOf(w) \in Job
         /\ JobOf(w).ws \in Workspace
         /\ JobOf(w).op \in Op
         /\ JobOf(w).snap \in SnapID
         /\ JobOf(w).op = "snapshot_create" => JobOf(w).snap = workers[w].task
         /\ JobOf(w).op = "snapshot_drop" =>
              JobOf(w).snap \in TaskID /\ snapshots[JobOf(w).snap] # "absent"
<1>1. workers[w].task \in TaskID /\ tasks[workers[w].task].status = "RUNNING"
  BY DEF PlaneInv, IInv, SingleOwner
<1>2. JobOf(w) \in Job
  BY <1>1 DEF JobOf, PlaneInv, JobsOK, Exists, Absent
<1> QED
  BY <1>1, <1>2 DEF JobOf, Job, PlaneInv, JobsOK

(* A snapshot whose row is there is not being created by anybody. *)
LEMMA NotRecreated ==
  ASSUME PlaneInv, NEW s \in TaskID, snapshots[s] # "absent",
         NEW w \in Worker, workers[w].pc = "executing"
  PROVE  workers[w].task # s
  BY DEF PlaneInv, CreatorsOK, Busy

LEMMA JobsFrame ==
  ASSUME PlaneInv, PlaneFrame
  PROVE  JobsOK'
  BY DEF PlaneInv, PlaneFrame, EngineFrame, JobsOK, RowFrame, SnapshotFrame

LEMMA CreatorsFrame ==
  ASSUME PlaneInv, PlaneFrame
  PROVE  CreatorsOK'
<1> SUFFICES ASSUME NEW s \in TaskID, snapshots'[s] # "absent"
             PROVE  /\ jobs'[s].op = "snapshot_create"
                    /\ tasks'[s].status \notin {Absent, "PENDING", "FAILED"}
                    /\ \A w \in Worker : workers'[w].pc \in Busy /\ workers'[w].task = s
                                           => workers'[w].pc = "succeeded"
  BY DEF CreatorsOK
<1>0. SnapshotFrame(s) /\ RowFrame(s) /\ UNCHANGED jobs /\ \A w \in Worker : BusyFrame(w)
  BY DEF PlaneFrame, EngineFrame
<1>1. CASE snapshots[s] # "absent"
  <2>1. /\ jobs[s].op = "snapshot_create"
        /\ tasks[s].status \notin {Absent, "PENDING", "FAILED"}
        /\ \A w \in Worker : workers[w].pc \in Busy /\ workers[w].task = s
                               => workers[w].pc = "succeeded"
    BY <1>1 DEF PlaneInv, CreatorsOK
  <2>2. tasks'[s].status \notin {Absent, "PENDING", "FAILED"}
    BY <1>0, <2>1 DEF RowFrame, Exists, Busy
  <2> QED
    BY <1>0, <2>1, <2>2 DEF BusyFrame
<1>2. CASE snapshots[s] = "absent"
  <2>1. PICK w \in Worker : workers[w].pc = "succeeded" /\ workers[w].task = s
    BY <1>0, <1>2 DEF SnapshotFrame
  <2>2. jobs[s].op = "snapshot_create" /\ UNCHANGED <<tasks, workers>>
    BY <1>0, <1>2 DEF SnapshotFrame
  <2>3. /\ tasks[s].status = "RUNNING"
        /\ \A v \in Worker : workers[v].pc \in Busy /\ workers[v].task = s => v = w
    BY <2>1 DEF PlaneInv, IInv, SingleOwner, Busy
  <2> QED
    BY <1>0, <2>1, <2>2, <2>3 DEF Absent
<1> QED
  BY <1>1, <1>2

LEMMA FilesFrame ==
  ASSUME PlaneInv, PlaneFrame
  PROVE  FilesOK'
<1> SUFFICES ASSUME NEW ws \in Workspace
             PROVE  /\ \A s \in TaskID : s \in fs'[ws].metas =>
                          Good(s, fs'[ws]) \/ snapshots'[s] = "deleted"
                    /\ fs'[ws].premature # {} => fs'[ws].current # NoTask
  BY DEF FilesOK
<1>1. FsFrame(ws) /\ \A s \in TaskID : SnapshotFrame(s)
  BY DEF PlaneFrame
<1>2. /\ \A s \in TaskID : s \in fs[ws].metas => Good(s, fs[ws]) \/ snapshots[s] = "deleted"
      /\ fs[ws].premature # {} => fs[ws].current # NoTask
  BY DEF PlaneInv, FilesOK
<1>3. \A s \in TaskID : snapshots[s] = "deleted" => snapshots'[s] = "deleted"
  BY <1>1 DEF SnapshotFrame
<1> QED
  BY <1>1, <1>2, <1>3 DEF FsFrame

LEMMA ForgottenStays ==
  ASSUME PlaneInv, PlaneFrame
  PROVE  ForgottenOK'
<1> SUFFICES ASSUME NEW t \in forgotten'
             PROVE  /\ Exists(tasks'[t])
                    /\ jobs[t].op = "snapshot_drop" => snapshots'[jobs[t].snap] = "deleted"
  BY DEF ForgottenOK, PlaneFrame
<1>1. /\ t \in TaskID
      /\ Exists(tasks[t])
      /\ jobs[t].op = "snapshot_drop" => snapshots[jobs[t].snap] = "deleted"
  <2>1. CASE t \in forgotten
    BY <2>1 DEF PlaneInv, ForgottenOK, PlaneTypeOK
  <2>2. CASE t \notin forgotten
    <3>1. PICK w \in Worker : Calling(w) /\ workers[w].task = t
      BY <2>2 DEF PlaneFrame, ForgottenFrame
    <3>2. t \in TaskID /\ tasks[t].status = "RUNNING" /\ JobOf(w) = jobs[t]
      BY <3>1, BusyJob DEF Calling, At, Busy
    <3>3. WorkerOK(w)
      BY DEF PlaneInv
    <3> QED
      BY <3>1, <3>2, <3>3 DEF WorkerOK, Calling, Exists, Absent
  <2> QED
    BY <2>1, <2>2
<1>2. RowFrame(t) /\ \A s \in TaskID : SnapshotFrame(s)
  BY <1>1 DEF PlaneFrame, EngineFrame
<1>3. jobs[t].op = "snapshot_drop" => jobs[t].snap \in TaskID
  BY <1>1 DEF PlaneInv, JobsOK
<1> QED
  BY <1>1, <1>2, <1>3 DEF RowFrame, SnapshotFrame

(* A directory that a drop has removed comes back only by the hand of a call *)
(* that was given up.                                                        *)
LEMMA DropStays ==
  ASSUME PlaneInv, PlaneFrame, NEW ws \in Workspace, NEW s \in TaskID,
         snapshots[s] = "deleted", s \in fs[ws].cloned => s \in forgotten
  PROVE  /\ snapshots'[s] = "deleted"
         /\ s \in fs'[ws].cloned => s \in forgotten'
<1>1. SnapshotFrame(s) /\ FsFrame(ws) /\ forgotten \subseteq forgotten'
  BY DEF PlaneFrame, ForgottenFrame
<1>2. \A w \in Worker : workers[w].pc = "executing" => workers[w].task # s
  BY NotRecreated
<1> QED
  BY <1>1, <1>2 DEF SnapshotFrame, FsFrame

(* What can be taken for a snapshot remains so, or is deleted. *)
LEMMA GoodStays ==
  ASSUME PlaneInv, PlaneFrame, NEW ws \in Workspace, NEW s \in TaskID,
         Good(s, fs[ws]) \/ snapshots[s] = "deleted"
  PROVE  Good(s, fs'[ws]) \/ snapshots'[s] = "deleted"
  BY DEF PlaneFrame, FsFrame, SnapshotFrame

LEMMA SafetyFrame ==
  ASSUME PlaneInv, PlaneFrame
  PROVE  /\ VisibleSnapshotHasDirectory'
         /\ ActiveIsInitialised'
         /\ SucceededDropIsComplete'
         /\ SucceededCreateIsThere'
<1>0. UNCHANGED jobs /\ FilesOK'
  BY FilesFrame DEF PlaneFrame
<1>1. VisibleSnapshotHasDirectory'
  <2>1. ASSUME NEW s \in TaskID, snapshots'[s] = "present"
        PROVE  Good(s, fs'[jobs[s].ws])
    <3>0. SnapshotFrame(s)
      BY DEF PlaneFrame
    <3>1. CASE snapshots[s] = "present"
      <4>1. Good(s, fs[jobs[s].ws])
        BY <3>1 DEF PlaneInv, VisibleSnapshotHasDirectory, Good, Intact, Premature
      <4>2. tasks[s].status # Absent
        BY <3>1 DEF PlaneInv, CreatorsOK
      <4>3. jobs[s].ws \in Workspace
        BY <4>2 DEF PlaneInv, JobsOK, Exists, Job
      <4> QED
        BY <2>1, <4>1, <4>3, GoodStays
    <3>2. CASE snapshots[s] # "present"
      BY <2>1, <3>0, <3>2 DEF SnapshotFrame
    <3> QED
      BY <3>1, <3>2
  <2> QED
    BY <1>0, <2>1 DEF VisibleSnapshotHasDirectory, Good, Intact, Premature, FilesOK
<1>2. ActiveIsInitialised'
  BY DEF PlaneInv, ActiveIsInitialised, PlaneFrame, FsFrame, StateFrame
<1>3. SucceededDropIsComplete'
  <2> SUFFICES ASSUME NEW t \in TaskID, tasks'[t].status = "SUCCEEDED",
                      jobs[t].op = "snapshot_drop"
               PROVE  /\ snapshots'[jobs[t].snap] = "deleted"
                      /\ jobs[t].snap \in fs'[jobs[t].ws].cloned
                           => jobs[t].snap \in forgotten'
    BY <1>0 DEF SucceededDropIsComplete
  <2> DEFINE s == jobs[t].snap
             Dropped == /\ s \in TaskID /\ jobs[t].ws \in Workspace
                        /\ snapshots[s] = "deleted"
                        /\ s \in fs[jobs[t].ws].cloned => s \in forgotten
  <2>1. Dropped
    <3>1. CASE tasks[t].status = "SUCCEEDED"
      BY <3>1 DEF PlaneInv, SucceededDropIsComplete, JobsOK, Exists, Absent, Job
    <3>2. ASSUME NEW w \in Worker, workers[w].pc = "succeeded", workers[w].task = t
          PROVE  Dropped
      <4>1. JobOf(w) = jobs[t] /\ JobOf(w).ws \in Workspace /\ s \in TaskID
        BY <3>2, BusyJob DEF Busy
      <4> QED
        BY <3>2, <4>1 DEF PlaneInv, WorkerOK
    <3> QED
      BY <3>1, <3>2 DEF PlaneFrame, EngineFrame, RowFrame
  <2> QED
    BY <2>1, DropStays
<1>4. SucceededCreateIsThere'
  <2> SUFFICES ASSUME NEW t \in TaskID, tasks'[t].status = "SUCCEEDED",
                      jobs[t].op = "snapshot_create"
               PROVE  Good(t, fs'[jobs[t].ws]) \/ snapshots'[t] = "deleted"
    BY <1>0 DEF SucceededCreateIsThere, Good, Intact, Premature
  <2> DEFINE There == /\ jobs[t].ws \in Workspace
                      /\ Good(t, fs[jobs[t].ws]) \/ snapshots[t] = "deleted"
  <2>1. There
    <3>1. CASE tasks[t].status = "SUCCEEDED"
      BY <3>1 DEF PlaneInv, SucceededCreateIsThere, Good, Intact, Premature,
                  JobsOK, Exists, Absent, Job
    <3>2. ASSUME NEW w \in Worker, workers[w].pc = "succeeded", workers[w].task = t
          PROVE  There
      <4>1. JobOf(w) = jobs[t] /\ JobOf(w).ws \in Workspace /\ jobs[t].snap = t
        BY <3>2, BusyJob DEF Busy
      <4> QED
        BY <3>2, <4>1 DEF PlaneInv, WorkerOK
    <3> QED
      BY <3>1, <3>2 DEF PlaneFrame, EngineFrame, RowFrame
  <2> QED
    BY <2>1, GoodStays
<1> QED
  BY <1>1, <1>2, <1>3, <1>4

(* A worker the step does not touch, and every invocation but the one that  *)
(* takes a step, is as well off as before.                                  *)
LEMMA OtherWorker ==
  ASSUME PlaneInv, PlaneFrame, NEW w \in Worker,
         workers'[w] = workers[w], stage'[w] = stage[w]
  PROVE  WorkerOK(w)'
<1> DEFINE job == JobOf(w)
<1>0. /\ JobOf(w)' = job
      /\ At(w, "checked")' = At(w, "checked") /\ At(w, "dispatch")' = At(w, "dispatch")
      /\ At(w, "call")' = At(w, "call") /\ At(w, "switch")' = At(w, "switch")
  BY DEF JobOf, At, PlaneFrame
<1>1. CASE workers[w].pc \notin Busy
  BY <1>0, <1>1 DEF WorkerOK, At, Busy
<1>2. CASE workers[w].pc \in Busy
  <2>1. /\ job.ws \in Workspace
        /\ job.op = "snapshot_create" => job.snap \in TaskID
        /\ job.op = "snapshot_drop" => job.snap \in TaskID
    BY <1>2, BusyJob
  <2>2. WorkerOK(w)
    BY DEF PlaneInv
  <2>3. FsFrame(job.ws)
    BY <2>1 DEF PlaneFrame
  <2>4. job.op \in {"snapshot_create", "snapshot_drop"} => SnapshotFrame(job.snap)
    BY <2>1 DEF PlaneFrame
  <2>5. ASSUME job.op = "snapshot_drop", snapshots[job.snap] = "deleted"
        PROVE  /\ snapshots'[job.snap] = "deleted"
               /\ (job.snap \in fs[job.ws].cloned => job.snap \in forgotten)
                    => (job.snap \in fs'[job.ws].cloned => job.snap \in forgotten')
    BY <2>1, <2>4, <2>5, DropStays DEF SnapshotFrame
  <2>6. ASSUME job.op = "snapshot_create",
               Good(job.snap, fs[job.ws]) \/ snapshots[job.snap] = "deleted"
        PROVE  Good(job.snap, fs'[job.ws]) \/ snapshots'[job.snap] = "deleted"
    BY <2>1, <2>6, GoodStays
  <2>7. fs[job.ws].init => fs'[job.ws].init
    BY <2>3 DEF FsFrame
  <2> HIDE DEF job
  <2> QED
    BY <1>0, <2>2, <2>5, <2>6, <2>7 DEF WorkerOK, Good, job
<1> QED
  BY <1>1, <1>2

LEMMA OtherHandler ==
  ASSUME PlaneInv, PlaneFrame, NEW h \in Handler, handlers'[h] = handlers[h]
  PROVE  HandlerOK(h)'
<1>1. \A s \in TaskID : snapshots[s] # "absent" => snapshots'[s] # "absent"
  BY DEF PlaneFrame, SnapshotFrame
<1>2. HandlerOK(h)
  BY DEF PlaneInv
<1> QED
  BY <1>1, <1>2 DEF HandlerOK

(* A worker that is neither executing nor recording a success owes nothing. *)
LEMMA RestingWorker ==
  ASSUME NEW w \in Worker, workers'[w].pc \notin {"executing", "succeeded"}
  PROVE  WorkerOK(w)'
  BY DEF WorkerOK, At

(* All of it for a step of the workers. *)
LEMMA StepInv ==
  ASSUME PlaneInv, PlaneFrame, IInv', PlaneTypeOK', UNCHANGED handlers,
         \A w \in Worker :
           WorkerOK(w)' \/ (workers'[w] = workers[w] /\ stage'[w] = stage[w])
  PROVE  PlaneInv'
<1>1. /\ JobsOK' /\ CreatorsOK' /\ FilesOK' /\ ForgottenOK'
      /\ VisibleSnapshotHasDirectory' /\ ActiveIsInitialised'
      /\ SucceededDropIsComplete' /\ SucceededCreateIsThere'
  BY JobsFrame, CreatorsFrame, FilesFrame, ForgottenStays, SafetyFrame
<1>2. \A h \in Handler : HandlerOK(h)'
  BY OtherHandler
<1>3. \A w \in Worker : WorkerOK(w)'
  BY OtherWorker
<1> QED
  BY <1>1, <1>2, <1>3 DEF PlaneInv

(* The step leaves all data alone. *)
LEMMA QuietFrame ==
  ASSUME EngineFrame, UNCHANGED <<jobs, workspaces, snapshots, fs>>, ForgottenFrame
  PROVE  PlaneFrame
  BY DEF PlaneFrame, SnapshotFrame, FsFrame, StateFrame

-----------------------------------------------------------------------------
(* Types, and whom a worker's step touches. *)

LEMMA ProceedStage ==
  ASSUME stage \in [Worker -> Stage], NEW w \in Worker, NEW s \in Stage, Proceed(w, s)
  PROVE  /\ stage' \in [Worker -> Stage]
         /\ stage'[w] = s
         /\ \A v \in Worker \ {w} : stage'[v] = stage[v]
  BY DEF Proceed

LEMMA UnlockType ==
  ASSUME locks \in [Workspace -> SUBSET Worker], NEW w \in Worker, Unlock(w)
  PROVE  locks' \in [Workspace -> SUBSET Worker]
  BY DEF Unlock

LEMMA SetStateType ==
  ASSUME workspaces \in [Workspace -> WsRow], NEW ws \in Workspace,
         NEW st \in WsState, SetState(ws, st)
  PROVE  /\ workspaces' \in [Workspace -> WsRow]
         /\ workspaces'[ws].state = st
         /\ \A other \in Workspace \ {ws} : workspaces'[other] = workspaces[other]
<1>1. [workspaces[ws] EXCEPT !.state = st] \in WsRow
  BY DEF WsRow
<1> QED
  BY <1>1 DEF SetState, WsRow

LEMMA OneWorkerActs ==
  ASSUME IInv, NEW w \in Worker,
         Work(w) \/ Fault(w) \/ Restart(w) \/ UNCHANGED engineVars
  PROVE  \A v \in Worker \ {w} : workers'[v] = workers[v]
  BY DEF Work, Fault, Restart, Dequeue, CancelObserved, Begin, ExecuteOk, ExecuteFail,
         Complete, Fail, Dead, LoseWrite, LoseDequeued, Crash, Leave, Goto, engineVars,
         IInv, TypeOK

(* What a call, or a step of one, does to a workspace: the directory of s    *)
(* and nothing else, and it takes nothing away that is a snapshot, unless s  *)
(* is gone: its row is marked.                                               *)
Same(r, f, g) ==
  /\ r \in g.cloned <=> r \in f.cloned
  /\ r \in g.whole <=> r \in f.whole
  /\ r \in g.metas <=> r \in f.metas
  /\ r \in g.premature <=> r \in f.premature

Touches(s, gone, f, g) ==
  /\ g \in FsState
  /\ f.init => g.init
  /\ g.current = f.current
  /\ f.premature \subseteq g.premature
  /\ g.premature # {} => f.premature # {} \/ g.current # NoTask
  /\ \A r \in TaskID \ {s} : Same(r, f, g)
  /\ Good(s, f) => Good(s, g) \/ gone
  /\ s \in g.metas => s \in f.metas \/ Good(s, g) \/ gone

Shrinks(f, g) ==
  g.cloned \subseteq f.cloned /\ g.whole \subseteq f.whole /\ g.metas \subseteq f.metas

LEMMA CloneTouches ==
  ASSUME NEW t \in TaskID, NEW gone \in BOOLEAN, NEW f \in FsState
  PROVE  /\ Touches(t, gone, f, f)
         /\ Touches(t, gone, f, [f EXCEPT !.init = TRUE])
         /\ Touches(t, gone, f, Begun(t, f))
         /\ Inherits(f) => Touches(t, gone, f, BegunWithMeta(t, f))
         /\ Touches(t, gone, f, Cloned(t, f))
<1>1. Touches(t, gone, f, f) /\ Touches(t, gone, f, [f EXCEPT !.init = TRUE])
  BY DEF Touches, Same, Good, FsState
<1>2. Touches(t, gone, f, Begun(t, f))
  BY DEF Touches, Same, Good, FsState, Begun
<1>3. Inherits(f) => Touches(t, gone, f, BegunWithMeta(t, f))
  BY DEF Touches, Same, Good, FsState, BegunWithMeta, Inherits, NoTask
<1>4. Touches(t, gone, f, Cloned(t, f))
  BY DEF Touches, Same, Good, FsState, Cloned
<1> QED
  BY <1>1, <1>2, <1>3, <1>4

LEMMA MetaTouches ==
  ASSUME NEW t \in TaskID, NEW gone \in BOOLEAN, NEW f \in FsState
  PROVE  /\ Touches(t, gone, f, WithMeta(t, Cloned(t, f)))
         /\ t \in f.whole \/ gone => Touches(t, gone, f, WithMeta(t, f))
         /\ t \notin f.whole \/ gone => Touches(t, gone, f, Gone(t, f))
<1>1. Touches(t, gone, f, WithMeta(t, Cloned(t, f)))
  <2> DEFINE g == WithMeta(t, Cloned(t, f))
  <2>1. /\ g.init = f.init /\ g.current = f.current /\ g.premature = f.premature
        /\ g.cloned = f.cloned \cup {t} /\ g.whole = f.whole \cup {t}
        /\ g.metas = f.metas \cup {t} /\ g \in FsState
    BY DEF WithMeta, Cloned, FsState
  <2> HIDE DEF g
  <2>2. Touches(t, gone, f, g)
    BY <2>1 DEF Touches, Same, Good
  <2> QED
    BY <2>2 DEF g
<1>2. t \in f.whole \/ gone => Touches(t, gone, f, WithMeta(t, f))
  BY DEF Touches, Same, Good, FsState, WithMeta
<1>3. t \notin f.whole \/ gone => Touches(t, gone, f, Gone(t, f))
  BY DEF Touches, Same, Good, FsState, Gone
<1> QED
  BY <1>1, <1>2, <1>3

LEMMA DropTouches ==
  ASSUME NEW s \in TaskID, NEW f \in FsState,
         NEW g \in SnapshotDrop(s, f) \cup PartlyRemoved(s, f)
  PROVE  /\ Touches(s, TRUE, f, g)
         /\ Shrinks(f, g)
         /\ g \in SnapshotDrop(s, f) => s \notin g.cloned
<1>1. CASE g = Gone(s, f)
  BY <1>1 DEF Touches, Same, Good, FsState, Gone, Shrinks
<1>2. CASE g = [f EXCEPT !.whole = @ \ {s}] \/ g = [f EXCEPT !.whole = @ \ {s}, !.metas = @ \ {s}]
  <2>1. g \in FsState /\ g.init = f.init /\ g.current = f.current
        /\ g.cloned = f.cloned /\ g.premature = f.premature
        /\ g.whole = f.whole \ {s} /\ g.metas \subseteq f.metas
        /\ \A r \in TaskID \ {s} : r \in g.metas <=> r \in f.metas
    BY <1>2 DEF FsState
  <2>2. g \in SnapshotDrop(s, f) => g = Gone(s, f)
    BY DEF SnapshotDrop
  <2>3. s \notin Gone(s, f).cloned
    BY DEF Gone, FsState
  <2> QED
    BY <2>1, <2>2, <2>3 DEF Touches, Same, Good, Shrinks
<1> QED
  BY <1>1, <1>2 DEF SnapshotDrop, PartlyRemoved

(* The snapshot whose directory a task works on. *)
Own(t, job) == IF job.op = "snapshot_drop" THEN job.snap ELSE t

LEMMA CallTouches ==
  ASSUME NEW t \in TaskID, NEW job \in Job, NEW f \in FsState,
         NEW gone \in BOOLEAN,
         job.op = "snapshot_drop" => job.snap \in TaskID /\ gone,
         NEW g \in Executed(t, job, f) \cup Interrupted(t, job, f)
  PROVE  Touches(Own(t, job), gone, f, g)
<1>1. CASE g = f
  BY <1>1, CloneTouches DEF Own
<1>2. CASE job.op = "init_workspace"
  <2>1. g = f \/ g = [f EXCEPT !.init = TRUE]
    BY <1>2 DEF Executed, Interrupted, InitWorkspace
  <2> QED
    BY <1>2, <2>1, CloneTouches DEF Own
<1>3. CASE job.op = "snapshot_create"
  <2>1. g \in {f} \cup SnapshotCreate(t, f) \cup Partial(t, f) \cup {Cloned(t, f)}
    BY <1>3 DEF Executed, Interrupted
  <2>2. \/ g \in {f, Begun(t, f), Cloned(t, f), WithMeta(t, Cloned(t, f))}
        \/ Inherits(f) /\ g = BegunWithMeta(t, f)
    BY <2>1 DEF SnapshotCreate, Partial
  <2> QED
    BY <1>3, <2>2, CloneTouches, MetaTouches DEF Own
<1>4. CASE job.op = "snapshot_drop"
  <2>1. g \in {f} \cup SnapshotDrop(job.snap, f) \cup PartlyRemoved(job.snap, f)
    BY <1>4 DEF Executed, Interrupted
  <2>2. gone = TRUE
    BY <1>4
  <2> QED
    BY <1>1, <1>4, <2>1, <2>2, DropTouches DEF Own
<1>5. CASE job.op = "set_current"
  <2>1. g \in {f, Begun(t, f), Cloned(t, f)}
    BY <1>5 DEF Executed, Interrupted, CloneLive
  <2> QED
    BY <1>5, <2>1, CloneTouches DEF Own
<1> QED
  BY <1>2, <1>3, <1>4, <1>5 DEF Job, Op

LEMMA OutlivedTouches ==
  ASSUME NEW t \in TaskID, NEW job \in Job, NEW f \in FsState,
         NEW gone \in BOOLEAN, NEW removed \in BOOLEAN,
         job.op = "snapshot_drop" => job.snap \in TaskID /\ removed,
         job.op # "snapshot_drop" => gone = removed,
         NEW g \in Outlived(t, job, f, gone)
  PROVE  Touches(Own(t, job), removed, f, g)
<1>1. CASE job.op = "init_workspace"
  <2>1. g = [f EXCEPT !.init = TRUE]
    BY <1>1 DEF Outlived, InitWorkspace
  <2> QED
    BY <1>1, <2>1, CloneTouches DEF Own
<1>2. ASSUME job.op # "snapshot_drop", NEW b \in BOOLEAN, b => gone,
             g \in CloneStep(t, f, b)
      PROVE  Touches(Own(t, job), removed, f, g)
  <2>1. \/ g \in {Cloned(t, f), WithMeta(t, Cloned(t, f))}
        \/ g = Gone(t, f) /\ (t \notin f.whole \/ gone)
    BY <1>2 DEF CloneStep
  <2> QED
    BY <1>2, <2>1, CloneTouches, MetaTouches DEF Own
<1>3. CASE job.op = "snapshot_create"
  <2>1. \/ g \in Partial(t, f) \/ g \in CloneStep(t, f, gone)
        \/ g = WithMeta(t, f) /\ (t \in f.whole \/ gone)
    BY <1>3 DEF Outlived
  <2>2. g \in Partial(t, f) => g = Begun(t, f) \/ (Inherits(f) /\ g = BegunWithMeta(t, f))
    BY DEF Partial
  <2> QED
    BY <1>2, <1>3, <2>1, <2>2, CloneTouches, MetaTouches DEF Own
<1>4. CASE job.op = "snapshot_drop"
  <2>1. g \in SnapshotDrop(job.snap, f) \cup PartlyRemoved(job.snap, f)
    BY <1>4 DEF Outlived
  <2>2. removed = TRUE
    BY <1>4
  <2> QED
    BY <1>4, <2>1, <2>2, DropTouches DEF Own
<1>5. CASE job.op = "set_current"
  <2>1. g \in CloneStep(t, f, FALSE) \/ g = Begun(t, f)
    BY <1>5 DEF Outlived
  <2> QED
    BY <1>2, <1>5, <2>1, CloneTouches DEF Own
<1> QED
  BY <1>1, <1>3, <1>4, <1>5 DEF Job, Op

(* What a call that succeeds leaves behind. *)
LEMMA ExecutedDone ==
  ASSUME NEW t \in TaskID, NEW job \in Job, NEW f \in FsState,
         NEW g \in Executed(t, job, f)
  PROVE  /\ job.op = "init_workspace" => g.init
         /\ job.op = "snapshot_create" => Good(t, g) \/ (t \in f.metas /\ g = f)
         /\ job.op = "snapshot_drop" => job.snap \notin g.cloned
<1>1. job.op = "init_workspace" => g.init
  BY DEF Executed, InitWorkspace, FsState
<1>2. CASE job.op = "snapshot_create"
  <2>1. g \in SnapshotCreate(t, f)
    BY <1>2 DEF Executed
  <2>2. CASE t \in f.metas
    BY <1>2, <2>1, <2>2 DEF SnapshotCreate
  <2>3. CASE t \notin f.metas
    <3>1. g = WithMeta(t, Cloned(t, f))
      BY <2>1, <2>3 DEF SnapshotCreate
    <3>2. t \in g.cloned /\ t \in g.whole /\ t \in g.metas
      BY <3>1 DEF WithMeta, Cloned, FsState
    <3> QED
      BY <1>2, <3>2 DEF Good
  <2> QED
    BY <2>2, <2>3
<1>3. job.op = "snapshot_drop" => job.snap \notin g.cloned
  <2>1. job.op = "snapshot_drop" => g = Gone(job.snap, f)
    BY DEF Executed, SnapshotDrop
  <2>2. \A s : s \notin Gone(s, f).cloned
    BY DEF Gone, FsState
  <2> QED
    BY <2>1, <2>2
<1> QED
  BY <1>1, <1>2, <1>3

LEMMA FsBecomesOne ==
  ASSUME PlaneInv, NEW w \in Worker, workers[w].pc \in Busy,
         NEW outcomes, FsBecomes(w, outcomes)
  PROVE  \E g \in outcomes :
           /\ fs' = [fs EXCEPT ![JobOf(w).ws] = g]
           /\ fs'[JobOf(w).ws] = g
           /\ \A ws \in Workspace \ {JobOf(w).ws} : fs'[ws] = fs[ws]
  BY BusyJob DEF FsBecomes, PlaneInv, PlaneTypeOK

-----------------------------------------------------------------------------
(* The steps that leave all data alone. *)

LEMMA PlaneSame ==
  ASSUME PlaneInv, IInv', EngineFrame, UNCHANGED planeVars,
         \A w \in Worker : \/ workers'[w] = workers[w]
                           \/ workers'[w].pc \notin {"executing", "succeeded"}
  PROVE  PlaneInv'
<1>1. PlaneFrame /\ UNCHANGED handlers /\ \A w \in Worker : stage'[w] = stage[w]
  BY QuietFrame DEF planeVars, ForgottenFrame
<1>2. PlaneTypeOK'
  BY DEF PlaneInv, PlaneTypeOK, IInv, planeVars
<1> QED
  BY <1>1, <1>2, RestingWorker, StepInv

LEMMA QuietStep ==
  ASSUME PlaneInv, IInv', EngineFrame, NEW w \in Worker,
         UNCHANGED <<jobs, workspaces, snapshots, handlers, fs>>,
         ForgottenFrame, forgotten' \subseteq TaskID,
         stage' \in [Worker -> Stage], owed' \in [Worker -> SUBSET Workspace],
         locks' \in [Workspace -> SUBSET Worker],
         \A v \in Worker \ {w} : workers'[v] = workers[v] /\ stage'[v] = stage[v],
         WorkerOK(w)' \/ (workers'[w] = workers[w] /\ stage'[w] = stage[w])
  PROVE  PlaneInv'
<1>1. PlaneTypeOK'
  BY DEF PlaneInv, PlaneTypeOK, IInv
<1> QED
  BY <1>1, QuietFrame, StepInv

(* Steps within the lock transaction and the noop check: the worker goes on *)
(* executing in the next stage.                                             *)
LEMMA StageStep ==
  ASSUME PlaneInv, IInv', EngineFrame, NEW w \in Worker, NEW s \in Stage,
         Proceed(w, s),
         UNCHANGED <<jobs, workspaces, snapshots, handlers, owed, fs, forgotten>>,
         locks' \in [Workspace -> SUBSET Worker],
         \A v \in Worker \ {w} : workers'[v] = workers[v],
         workers'[w].pc = "executing", workers'[w].task = workers[w].task,
         s = "checked"  => JobOf(w).op = "snapshot_drop",
         s = "dispatch" => JobOf(w).op = "set_current",
         s = "call"     => JobOf(w).op # "snapshot_drop",
         s # "switch"
  PROVE  PlaneInv'
<1>1. /\ stage' \in [Worker -> Stage]
      /\ stage'[w] = s
      /\ \A v \in Worker \ {w} : stage'[v] = stage[v]
  BY ProceedStage DEF PlaneInv, PlaneTypeOK
<1>2. JobOf(w)' = JobOf(w)
  BY DEF JobOf
<1>3. WorkerOK(w)'
  BY <1>1, <1>2 DEF WorkerOK, At
<1> QED
  BY <1>1, <1>3, QuietStep DEF PlaneInv, PlaneTypeOK, ForgottenFrame

LEMMA TransactionSteps ==
  ASSUME PlaneInv, IInv', EngineFrame, NEW w \in Worker,
         \A v \in Worker \ {w} : workers'[v] = workers[v],
         \/ BeginTx(w) \/ AcquireWorkspaceLock(w) \/ CommitEmpty(w)
         \/ (CheckReferences(w) /\ UNCHANGED engineVars) \/ NotNoop(w) \/ NoopUnread(w)
  PROVE  PlaneInv'
<1>0. workers[w].pc \in Busy
  BY DEF BeginTx, Begin, AcquireWorkspaceLock, CommitEmpty, CheckReferences, NotNoop,
         NoopUnread, At, Busy
<1>1. JobOf(w).ws \in Workspace
  BY <1>0, BusyJob
<1>2. WorkerOK(w) /\ locks \in [Workspace -> SUBSET Worker]
      /\ workers \in [Worker -> WorkerState]
  BY DEF PlaneInv, PlaneTypeOK, TypeOK
<1>3. CASE BeginTx(w)
  <2>1. workers'[w].pc = "executing" /\ workers'[w].task = workers[w].task
    BY <1>2, <1>3, WorkerGoto DEF BeginTx, Begin, Pc
  <2> QED
    BY <1>2, <1>3, <2>1, StageStep DEF BeginTx, Stage
<1>4. CASE AcquireWorkspaceLock(w)
  <2>1. locks' \in [Workspace -> SUBSET Worker]
    BY <1>1, <1>2, <1>4 DEF AcquireWorkspaceLock
  <2> QED
    BY <1>4, <2>1, StageStep DEF AcquireWorkspaceLock, At, Stage, engineVars
<1>5. CASE CommitEmpty(w)
  <2>1. locks' \in [Workspace -> SUBSET Worker]
    BY <1>2, <1>5, UnlockType DEF CommitEmpty
  <2>2. CASE JobOf(w).op = "set_current"
    BY <1>5, <2>1, <2>2, StageStep DEF CommitEmpty, At, Stage, engineVars
  <2>3. CASE JobOf(w).op # "set_current"
    BY <1>5, <2>1, <2>3, StageStep DEF CommitEmpty, At, Stage, engineVars
  <2> QED
    BY <2>2, <2>3
<1>6. CASE CheckReferences(w) /\ UNCHANGED engineVars
  <2>1. Proceed(w, "checked")
    BY <1>6 DEF CheckReferences, ExecuteFail, Goto, engineVars, At, PlaneInv,
                PlaneTypeOK, TypeOK, WorkerState
  <2> QED
    BY <1>2, <1>6, <2>1, StageStep DEF CheckReferences, At, Stage, engineVars
<1>7. CASE NotNoop(w) \/ NoopUnread(w)
  <2>1. JobOf(w).op = "set_current"
    BY <1>2, <1>7 DEF NotNoop, NoopUnread, WorkerOK
  <2> QED
    BY <1>2, <1>7, <2>1, StageStep DEF NotNoop, NoopUnread, At, Stage, engineVars
<1> QED
  BY <1>3, <1>4, <1>5, <1>6, <1>7

(* The worker lets go of its task, or fails with it: whatever the stage. *)
LEMMA RestStep ==
  ASSUME PlaneInv, IInv', EngineFrame, NEW w \in Worker,
         UNCHANGED <<jobs, workspaces, snapshots, handlers, fs>>,
         ForgottenFrame, forgotten' \subseteq TaskID,
         UNCHANGED stage \/ \E s \in Stage : Proceed(w, s),
         owed' \in [Worker -> SUBSET Workspace],
         locks' \in [Workspace -> SUBSET Worker],
         \A v \in Worker \ {w} : workers'[v] = workers[v],
         workers'[w].pc \notin {"executing", "succeeded"}
  PROVE  PlaneInv'
<1>1. /\ stage' \in [Worker -> Stage]
      /\ \A v \in Worker \ {w} : stage'[v] = stage[v]
  BY ProceedStage DEF PlaneInv, PlaneTypeOK
<1> QED
  BY <1>1, RestingWorker, QuietStep

LEMMA FailedWorker ==
  ASSUME PlaneInv, NEW w \in Worker, ExecuteFail(w)
  PROVE  workers'[w].pc = "failed"
  BY WorkerGoto DEF ExecuteFail, Pc, PlaneInv, IInv, TypeOK

LEMMA AfterFailTaskTypes ==
  ASSUME PlaneInv, NEW w \in Worker, workers[w].pc \in Busy, AfterFailTask(w)
  PROVE  /\ owed' \in [Worker -> SUBSET Workspace]
         /\ locks' \in [Workspace -> SUBSET Worker]
         /\ Proceed(w, "none")
         /\ UNCHANGED <<jobs, workspaces, snapshots, handlers, fs, forgotten>>
<1>1. OwedBy(w) \in SUBSET Workspace
  BY BusyJob DEF OwedBy
<1>2. owed \in [Worker -> SUBSET Workspace] /\ locks \in [Workspace -> SUBSET Worker]
  BY DEF PlaneInv, PlaneTypeOK
<1>3. owed' \in [Worker -> SUBSET Workspace]
  BY <1>1, <1>2 DEF AfterFailTask
<1>4. locks' \in [Workspace -> SUBSET Worker]
  BY <1>2, UnlockType DEF AfterFailTask
<1> QED
  BY <1>3, <1>4 DEF AfterFailTask

LEMMA CallForgotten ==
  ASSUME PlaneInv, NEW w \in Worker, Calling(w),
         forgotten' = forgotten \cup {workers[w].task}
  PROVE  ForgottenFrame /\ forgotten' \subseteq TaskID
<1>1. workers[w].task \in TaskID
  BY BusyJob DEF Calling, At, Busy
<1> QED
  BY <1>1 DEF ForgottenFrame, PlaneInv, PlaneTypeOK

LEMMA EndingSteps ==
  ASSUME PlaneInv, IInv', EngineFrame, NEW w \in Worker,
         \A v \in Worker \ {w} : workers'[v] = workers[v],
         \/ (CheckReferences(w) /\ ExecuteFail(w))
         \/ WriteSucceeded(w) \/ WriteFailed(w) \/ LoseStatus(w) \/ WorkerCrash(w)
         \/ AnswerLost(w)
  PROVE  PlaneInv'
<1>1. /\ owed \in [Worker -> SUBSET Workspace]
      /\ locks \in [Workspace -> SUBSET Worker]
      /\ workers \in [Worker -> WorkerState]
      /\ "none" \in Stage
      /\ UNCHANGED forgotten => ForgottenFrame /\ forgotten' \subseteq TaskID
  BY DEF PlaneInv, PlaneTypeOK, TypeOK, Stage, ForgottenFrame
<1>2. CASE CheckReferences(w) /\ ExecuteFail(w)
  <2>1. workers'[w].pc = "failed" /\ (UNCHANGED stage \/ Proceed(w, "checked"))
    BY <1>2, FailedWorker DEF CheckReferences
  <2> QED
    BY <1>1, <1>2, <2>1, RestStep DEF CheckReferences, Stage
<1>3. CASE WriteSucceeded(w)
  <2>1. workers'[w].pc = "idle"
    BY <1>1, <1>3, WorkerLeave DEF WriteSucceeded, Complete
  <2> QED
    BY <1>1, <1>3, <2>1, RestStep DEF WriteSucceeded
<1>4. CASE WriteFailed(w)
  <2>1. workers'[w].pc = "idle" /\ workers[w].pc \in Busy
    BY <1>1, <1>4, WorkerLeave DEF WriteFailed, Fail, Dead, Busy
  <2> QED
    BY <1>1, <1>4, <2>1, RestStep, AfterFailTaskTypes DEF WriteFailed
<1>5. CASE LoseStatus(w)
  <2>1. workers'[w].pc = "idle"
    BY <1>1, <1>5, WorkerLeave DEF LoseStatus, LoseWrite
  <2>2. CASE UNCHANGED planeVars
    BY <1>1, <2>1, <2>2, RestStep DEF planeVars
  <2>3. CASE Proceed(w, "none")
             /\ UNCHANGED <<jobs, workspaces, snapshots, handlers, owed, locks, fs, forgotten>>
    BY <1>1, <2>1, <2>3, RestStep
  <2>4. CASE workers[w].pc = "failed" /\ AfterFailTask(w)
    BY <1>1, <2>1, <2>4, RestStep, AfterFailTaskTypes DEF Busy
  <2> QED
    BY <1>5, <2>2, <2>3, <2>4 DEF LoseStatus
<1>6. CASE WorkerCrash(w)
  <2>1. workers'[w].pc = "down"
    BY <1>1, <1>6 DEF WorkerCrash, Crash, IdleWorker
  <2>2. owed' \in [Worker -> SUBSET Workspace]
    BY <1>1, <1>6 DEF WorkerCrash
  <2>3. locks' \in [Workspace -> SUBSET Worker]
    BY <1>1, <1>6, UnlockType DEF WorkerCrash
  <2>4. ForgottenFrame /\ forgotten' \subseteq TaskID
    BY <1>1, <1>6, CallForgotten DEF WorkerCrash
  <2> QED
    BY <1>1, <1>6, <2>1, <2>2, <2>3, <2>4, RestStep DEF WorkerCrash
<1>7. CASE AnswerLost(w)
  <2>1. workers'[w].pc = "failed"
    BY <1>7, FailedWorker DEF AnswerLost
  <2>2. ForgottenFrame /\ forgotten' \subseteq TaskID
    BY <1>7, CallForgotten DEF AnswerLost
  <2> QED
    BY <1>1, <1>7, <2>1, <2>2, RestStep DEF AnswerLost
<1> QED
  BY <1>2, <1>3, <1>4, <1>5, <1>6, <1>7

(* The worker goes on to onSuccess or to what is left of it: CompleteTask. *)
LEMMA CompletingSteps ==
  ASSUME PlaneInv, IInv', EngineFrame, NEW w \in Worker,
         \A v \in Worker \ {w} : workers'[v] = workers[v],
         Noop(w) \/ LosePost(w) \/ FindCurrent(w)
  PROVE  PlaneInv'
<1>1. /\ stage' \in [Worker -> Stage]
      /\ stage'[w] = IF FindCurrent(w) THEN "post" ELSE "complete"
      /\ \A v \in Worker \ {w} : stage'[v] = stage[v]
      /\ UNCHANGED <<jobs, workspaces, snapshots, handlers, owed, locks, fs, forgotten>>
      /\ ForgottenFrame /\ forgotten' \subseteq TaskID
  <2>1. "post" \in Stage /\ "complete" \in Stage /\ stage \in [Worker -> Stage]
        /\ forgotten \subseteq TaskID
    BY DEF Stage, PlaneInv, PlaneTypeOK
  <2>2. CASE FindCurrent(w)
    BY <2>1, <2>2, ProceedStage DEF FindCurrent, ForgottenFrame
  <2>3. CASE ~FindCurrent(w)
    BY <2>1, <2>3, ProceedStage DEF Noop, LosePost, ForgottenFrame
  <2> QED
    BY <2>2, <2>3
<1>2. WorkerOK(w) /\ owed \in [Worker -> SUBSET Workspace]
      /\ locks \in [Workspace -> SUBSET Worker] /\ workers \in [Worker -> WorkerState]
  BY DEF PlaneInv, PlaneTypeOK, TypeOK
<1>3. CASE Noop(w) \/ FindCurrent(w)
  <2>1. workers'[w].pc = "succeeded" /\ workers'[w].task = workers[w].task
    BY <1>2, <1>3, WorkerGoto DEF Noop, FindCurrent, ExecuteOk, Pc
  <2>2. JobOf(w)' = JobOf(w) /\ JobOf(w).op = "set_current"
    BY <1>1, <1>2, <1>3, <2>1 DEF JobOf, Noop, FindCurrent, WorkerOK
  <2>3. stage'[w] \in {"post", "complete"}
    BY <1>1
  <2>4. WorkerOK(w)'
    BY <2>1, <2>2, <2>3 DEF WorkerOK, At
  <2> QED
    BY <1>1, <1>2, <2>4, QuietStep
<1>4. CASE LosePost(w)
  <2>1. workers'[w].pc = "succeeded" /\ UNCHANGED workers
    BY <1>4 DEF LosePost, engineVars
  <2>2. JobOf(w)' = JobOf(w)
    BY <1>1, <2>1 DEF JobOf
  <2>3. stage'[w] = "complete"
    BY <1>1, <1>4 DEF LosePost, FindCurrent, At
  <2>4. WorkerOK(w)'
    BY <1>1, <1>2, <2>1, <2>2, <2>3 DEF WorkerOK, At, Good
  <2> QED
    BY <1>1, <1>2, <2>4, QuietStep
<1> QED
  BY <1>3, <1>4

-----------------------------------------------------------------------------
(* The steps that change the data. *)

(* CommitDeleted, and a commit that fails after it has happened. *)
LEMMA MarkStep ==
  ASSUME PlaneInv, IInv', EngineFrame, NEW w \in Worker,
         workers[w].pc = "executing", stage[w] = "checked",
         snapshots' = [snapshots EXCEPT ![JobOf(w).snap] = "deleted"],
         \A v \in Worker \ {w} : workers'[v] = workers[v],
         UNCHANGED <<jobs, workspaces, handlers, owed, fs, forgotten>>,
         locks' \in [Workspace -> SUBSET Worker],
         \/ /\ Proceed(w, "call") /\ workers'[w] = workers[w]
         \/ /\ UNCHANGED stage /\ workers'[w].pc = "failed"
  PROVE  PlaneInv'
<1> DEFINE s == JobOf(w).snap
<1>1. JobOf(w).op = "snapshot_drop"
  BY DEF PlaneInv, WorkerOK, At
<1>2. s \in TaskID /\ snapshots[s] # "absent"
  BY <1>1, BusyJob DEF Busy
<1>3. snapshots \in [TaskID -> {"absent", "present", "deleted"}]
  BY DEF PlaneInv, PlaneTypeOK
<1>4. /\ snapshots' \in [TaskID -> {"absent", "present", "deleted"}]
      /\ snapshots'[s] = "deleted"
      /\ \A r \in TaskID \ {s} : snapshots'[r] = snapshots[r]
  BY <1>2, <1>3
<1>5. /\ stage' \in [Worker -> Stage]
      /\ \A v \in Worker \ {w} : stage'[v] = stage[v]
      /\ Proceed(w, "call") => stage'[w] = "call"
  BY ProceedStage DEF Stage, PlaneInv, PlaneTypeOK
<1>6. PlaneTypeOK'
  BY <1>4, <1>5 DEF PlaneInv, PlaneTypeOK, IInv
<1>7. PlaneFrame
  BY <1>2, <1>4 DEF PlaneFrame, SnapshotFrame, FsFrame, StateFrame, ForgottenFrame
<1>8. WorkerOK(w)'
  <2>1. CASE workers'[w].pc = "failed"
    BY <2>1, RestingWorker
  <2>2. CASE Proceed(w, "call") /\ workers'[w] = workers[w]
    <3>1. JobOf(w)' = JobOf(w)
      BY <2>2 DEF JobOf
    <3> QED
      BY <1>4, <1>5, <2>2, <3>1 DEF WorkerOK, At
  <2> QED
    BY <2>1, <2>2
<1> QED
  BY <1>5, <1>6, <1>7, <1>8, StepInv

LEMMA CommitSteps ==
  ASSUME PlaneInv, IInv', EngineFrame, NEW w \in Worker,
         \A v \in Worker \ {w} : workers'[v] = workers[v],
         CommitDeleted(w) \/ TxFails(w)
  PROVE  PlaneInv'
<1>1. locks \in [Workspace -> SUBSET Worker] /\ owed \in [Worker -> SUBSET Workspace]
      /\ forgotten \subseteq TaskID
  BY DEF PlaneInv, PlaneTypeOK
<1>2. CASE CommitDeleted(w)
  BY <1>1, <1>2, UnlockType, MarkStep DEF CommitDeleted, At, engineVars
<1>3. CASE TxFails(w)
  <2>1. workers'[w].pc = "failed" /\ workers[w].pc = "executing"
    BY <1>3, FailedWorker DEF TxFails, ExecuteFail
  <2>2. locks' \in [Workspace -> SUBSET Worker]
    BY <1>1, <1>3, UnlockType DEF TxFails
  <2>3. CASE UNCHANGED snapshots
    BY <1>1, <1>3, <2>1, <2>2, <2>3, RestStep DEF TxFails, ForgottenFrame
  <2>4. CASE stage[w] = "checked" /\ snapshots' = [snapshots EXCEPT ![JobOf(w).snap] = "deleted"]
    BY <1>1, <1>3, <2>1, <2>2, <2>4, MarkStep DEF TxFails
  <2> QED
    BY <1>3, <2>3, <2>4 DEF TxFails
<1> QED
  BY <1>2, <1>3

(* What touches the directory of s in one workspace only is a frame step.   *)
LEMMA TouchFrame ==
  ASSUME PlaneInv, EngineFrame, NEW ws \in Workspace, NEW s \in TaskID,
         NEW gone \in BOOLEAN, gone => snapshots[s] = "deleted",
         NEW g, Touches(s, gone, fs[ws], g), fs' = [fs EXCEPT ![ws] = g],
         \/ s \in forgotten
         \/ Shrinks(fs[ws], g)
         \/ \E w \in Worker : workers[w].pc = "executing" /\ workers[w].task = s,
         UNCHANGED <<jobs, workspaces, snapshots, forgotten>>
  PROVE  PlaneFrame /\ fs' \in [Workspace -> FsState]
<1>1. fs \in [Workspace -> FsState]
  BY DEF PlaneInv, PlaneTypeOK
<1>2. fs'[ws] = g /\ \A other \in Workspace \ {ws} : fs'[other] = fs[other]
  BY <1>1
<1>3. g \in FsState
  BY DEF Touches
<1>4. FsFrame(ws)
  BY <1>2 DEF FsFrame, Touches, Same, Good, Shrinks
<1>5. \A other \in Workspace \ {ws} : FsFrame(other)
  BY <1>2 DEF FsFrame
<1>6. fs' \in [Workspace -> FsState]
  BY <1>1, <1>3
<1> QED
  BY <1>4, <1>5, <1>6 DEF PlaneFrame, SnapshotFrame, StateFrame, ForgottenFrame

(* The link of a workspace comes to name the live directory of a task. *)
LEMMA LinkFrame ==
  ASSUME PlaneInv, EngineFrame, NEW ws \in Workspace, NEW t \in TaskID,
         fs' = [fs EXCEPT ![ws] = [fs[ws] EXCEPT !.current = t]],
         UNCHANGED <<jobs, workspaces, snapshots, forgotten>>
  PROVE  PlaneFrame /\ fs' \in [Workspace -> FsState]
<1> DEFINE g == [fs[ws] EXCEPT !.current = t]
<1>1. fs \in [Workspace -> FsState] /\ fs[ws] \in FsState
  BY DEF PlaneInv, PlaneTypeOK
<1>2. /\ g \in FsState /\ g.init = fs[ws].init /\ g.current = t
      /\ g.cloned = fs[ws].cloned /\ g.whole = fs[ws].whole
      /\ g.metas = fs[ws].metas /\ g.premature = fs[ws].premature
  BY <1>1 DEF FsState, SnapID
<1>3. fs'[ws] = g /\ \A other \in Workspace \ {ws} : fs'[other] = fs[other]
  BY <1>1
<1>4. t # NoTask
  BY DEF NoTask, TaskID
<1> HIDE DEF g
<1>5. FsFrame(ws)
  BY <1>2, <1>3, <1>4 DEF FsFrame, Good
<1>6. \A other \in Workspace \ {ws} : FsFrame(other)
  BY <1>3 DEF FsFrame
<1>7. fs' \in [Workspace -> FsState]
  BY <1>1, <1>2 DEF g
<1> QED
  BY <1>5, <1>6, <1>7 DEF PlaneFrame, SnapshotFrame, StateFrame, ForgottenFrame

LEMMA SwitchFrame ==
  ASSUME PlaneInv, EngineFrame, NEW ws \in Workspace, NEW g \in Links(ws),
         fs' = [fs EXCEPT ![ws] = g],
         UNCHANGED <<jobs, workspaces, snapshots, forgotten>>
  PROVE  PlaneFrame /\ fs' \in [Workspace -> FsState]
<1>1. Switching(ws) \subseteq TaskID
  <2>1. \A v \in Worker : At(v, "switch") => workers[v].task \in TaskID
    BY BusyJob DEF At, Busy
  <2> QED
    BY <2>1 DEF Switching, PlaneInv, PlaneTypeOK
<1>2. PICK t \in TaskID : g = [fs[ws] EXCEPT !.current = t]
  BY <1>1 DEF Links
<1>3. fs' = [fs EXCEPT ![ws] = [fs[ws] EXCEPT !.current = t]]
  BY <1>2
<1> QED
  BY <1>3, LinkFrame

(* A directory is created by its own task only, and removed for a drop whose *)
(* mark has been committed.                                                  *)
LEMMA CallIsTouch ==
  ASSUME PlaneInv, NEW w \in Worker, At(w, "call"),
         FsBecomes(w, ExecutedBy(w)) \/ FsBecomes(w, InterruptedBy(w))
  PROVE  /\ JobOf(w).ws \in Workspace
         /\ \E s \in TaskID, gone \in BOOLEAN, g \in FsState :
              /\ gone => snapshots[s] = "deleted"
              /\ Touches(s, gone, fs[JobOf(w).ws], g)
              /\ fs' = [fs EXCEPT ![JobOf(w).ws] = g]
              /\ s = workers[w].task \/ Shrinks(fs[JobOf(w).ws], g)
<1> DEFINE t == workers[w].task
           job == JobOf(w)
           ws == job.ws
           s == Own(t, job)
           gone == snapshots[s] = "deleted"
<1>0. workers[w].pc \in Busy
  BY DEF At, Busy
<1>1. /\ t \in TaskID /\ job \in Job /\ ws \in Workspace
      /\ job.op = "snapshot_drop" => job.snap \in TaskID
  BY <1>0, BusyJob
<1>2. fs \in [Workspace -> FsState] /\ fs[ws] \in FsState
  BY <1>1 DEF PlaneInv, PlaneTypeOK
<1>3. job.op = "snapshot_drop" => gone
  BY DEF PlaneInv, WorkerOK, Own
<1>4. PICK g \in ExecutedBy(w) \cup InterruptedBy(w) : fs' = [fs EXCEPT ![ws] = g]
  BY <1>0, FsBecomesOne
<1>5. g \in Executed(t, job, fs[ws]) \cup Interrupted(t, job, fs[ws])
  BY <1>4 DEF ExecutedBy, InterruptedBy
<1>6. s \in TaskID /\ (job.op # "snapshot_drop" => s = t) /\ (job.op = "snapshot_drop" => s = job.snap)
  BY <1>1 DEF Own
<1>7. Touches(s, gone, fs[ws], g)
  <2> HIDE DEF t, job, ws, gone
  <2>1. gone \in BOOLEAN
    BY DEF gone
  <2> QED
    BY <1>1, <1>2, <1>3, <1>5, <2>1, CallTouches DEF s
<1>8. job.op = "snapshot_drop" => Shrinks(fs[ws], g)
  <2> SUFFICES ASSUME job.op = "snapshot_drop" PROVE Shrinks(fs[ws], g)
    OBVIOUS
  <2>1. g = fs[ws] \/ g \in SnapshotDrop(job.snap, fs[ws]) \cup PartlyRemoved(job.snap, fs[ws])
    BY <1>5 DEF Executed, Interrupted
  <2>2. Shrinks(fs[ws], fs[ws])
    BY DEF Shrinks
  <2> HIDE DEF job, ws
  <2> QED
    BY <1>1, <1>2, <2>1, <2>2, DropTouches
<1>9. gone \in BOOLEAN /\ (gone => snapshots[s] = "deleted") /\ g \in FsState
  BY <1>7 DEF Touches
<1> HIDE DEF s, gone
<1> QED
  BY <1>1, <1>4, <1>6, <1>7, <1>8, <1>9

LEMMA ExecutorFrame ==
  ASSUME PlaneInv, EngineFrame, NEW w \in Worker, At(w, "call"),
         UNCHANGED <<jobs, workspaces, snapshots, forgotten>>,
         FsBecomes(w, ExecutedBy(w)) \/ FsBecomes(w, InterruptedBy(w))
  PROVE  PlaneFrame /\ fs' \in [Workspace -> FsState]
<1> DEFINE ws == JobOf(w).ws
<1>1. ws \in Workspace
  BY CallIsTouch
<1>2. PICK s \in TaskID, gone \in BOOLEAN, g \in FsState :
        /\ gone => snapshots[s] = "deleted"
        /\ Touches(s, gone, fs[ws], g)
        /\ fs' = [fs EXCEPT ![ws] = g]
        /\ s = workers[w].task \/ Shrinks(fs[ws], g)
  BY CallIsTouch
<1> HIDE DEF ws
<1> QED
  BY <1>1, <1>2, TouchFrame DEF At

(* The call goes on, or ends well. *)
LEMMA CallStep ==
  ASSUME PlaneInv, IInv', EngineFrame, NEW w \in Worker,
         \A v \in Worker \ {w} : workers'[v] = workers[v], CallExecutor(w)
  PROVE  PlaneInv'
<1> DEFINE t == workers[w].task
           job == JobOf(w)
<1>0. At(w, "call") /\ workers[w].pc \in Busy
      /\ UNCHANGED <<jobs, workspaces, snapshots, handlers, owed, locks, forgotten>>
  BY DEF CallExecutor, At, Busy
<1>1. PlaneFrame /\ fs' \in [Workspace -> FsState]
  BY <1>0, ExecutorFrame DEF CallExecutor
<1>2. /\ stage' \in [Worker -> Stage]
      /\ stage'[w] = "post"
      /\ \A v \in Worker \ {w} : stage'[v] = stage[v]
  BY ProceedStage DEF CallExecutor, Stage, PlaneInv, PlaneTypeOK
<1>3. PlaneTypeOK'
  BY <1>0, <1>1, <1>2 DEF PlaneInv, PlaneTypeOK, IInv
<1>4. workers'[w].pc = "succeeded" /\ workers'[w].task = t
  BY WorkerGoto DEF CallExecutor, ExecuteOk, Pc, PlaneInv, IInv, TypeOK
<1>5. JobOf(w)' = job
  BY <1>0, <1>4 DEF JobOf
<1>6. /\ t \in TaskID /\ job \in Job /\ job.ws \in Workspace
      /\ job.op = "snapshot_create" => job.snap = t
      /\ job.op = "snapshot_drop" => job.snap \in TaskID
  BY <1>0, BusyJob
<1>7. job.op = "snapshot_drop" => snapshots[job.snap] = "deleted"
  BY <1>0 DEF PlaneInv, WorkerOK
<1>8. PICK g \in ExecutedBy(w) : fs'[job.ws] = g
  BY <1>0, FsBecomesOne DEF CallExecutor
<1>9. /\ job.op = "init_workspace" => g.init
      /\ job.op = "snapshot_create" => Good(job.snap, g) \/ snapshots[job.snap] = "deleted"
      /\ job.op = "snapshot_drop" => job.snap \notin g.cloned
  <2>1. g \in Executed(t, job, fs[job.ws]) /\ fs[job.ws] \in FsState
    BY <1>6, <1>8 DEF ExecutedBy, PlaneInv, PlaneTypeOK
  <2>2. t \in fs[job.ws].metas => Good(t, fs[job.ws]) \/ snapshots[t] = "deleted"
    BY <1>6 DEF PlaneInv, FilesOK
  <2> HIDE DEF t, job
  <2> QED
    BY <1>6, <2>1, <2>2, ExecutedDone
<1>10. WorkerOK(w)'
  <2> HIDE DEF job
  <2> QED
    BY <1>0, <1>2, <1>4, <1>5, <1>7, <1>8, <1>9 DEF WorkerOK, At, Good
<1> QED
  BY <1>0, <1>1, <1>2, <1>3, <1>10, StepInv

LEMMA SwitchSteps ==
  ASSUME PlaneInv, IInv', EngineFrame, NEW w \in Worker,
         \A v \in Worker \ {w} : workers'[v] = workers[v],
         CloneSnapshot(w) \/ SwitchLink(w)
  PROVE  PlaneInv'
<1>0. /\ At(w, "call") \/ At(w, "switch")
      /\ workers[w].pc \in Busy
      /\ UNCHANGED <<jobs, workspaces, snapshots, handlers, owed, locks, forgotten>>
  BY DEF CloneSnapshot, SwitchLink, At, Busy
<1>1. PlaneFrame /\ fs' \in [Workspace -> FsState]
  <2>1. CASE CloneSnapshot(w)
    BY <1>0, <2>1, ExecutorFrame DEF CloneSnapshot
  <2>2. CASE SwitchLink(w)
    <3>1. JobOf(w).ws \in Workspace
      BY <1>0, BusyJob
    <3>2. PICK g \in Links(JobOf(w).ws) : fs' = [fs EXCEPT ![JobOf(w).ws] = g]
      BY <2>2 DEF SwitchLink, FsBecomes
    <3> QED
      BY <1>0, <3>1, <3>2, SwitchFrame
  <2> QED
    BY <2>1, <2>2
<1>2. JobOf(w).op = "set_current"
  BY DEF CloneSnapshot, SwitchLink, PlaneInv, WorkerOK
<1>3. /\ stage' \in [Worker -> Stage]
      /\ stage'[w] \in {"switch", "post"}
      /\ \A v \in Worker \ {w} : stage'[v] = stage[v]
  <2>1. "switch" \in Stage /\ "post" \in Stage /\ stage \in [Worker -> Stage]
    BY DEF Stage, PlaneInv, PlaneTypeOK
  <2>2. Proceed(w, "switch") \/ Proceed(w, "post")
    BY DEF CloneSnapshot, SwitchLink
  <2> QED
    BY <2>1, <2>2, ProceedStage
<1>4. PlaneTypeOK'
  BY <1>0, <1>1, <1>3 DEF PlaneInv, PlaneTypeOK, IInv
<1>5. workers'[w].task = workers[w].task
  BY WorkerGoto DEF CloneSnapshot, SwitchLink, ExecuteOk, Pc, PlaneInv, IInv, TypeOK,
                    engineVars
<1>6. JobOf(w)' = JobOf(w)
  BY <1>0, <1>5 DEF JobOf
<1>7. WorkerOK(w)'
  BY <1>2, <1>3, <1>6 DEF WorkerOK, At
<1> QED
  BY <1>0, <1>1, <1>3, <1>4, <1>7, StepInv

LEMMA FailedCallStep ==
  ASSUME PlaneInv, IInv', EngineFrame, NEW w \in Worker,
         \A v \in Worker \ {w} : workers'[v] = workers[v], ExecutorFails(w)
  PROVE  PlaneInv'
<1>0. UNCHANGED <<jobs, workspaces, snapshots, handlers, stage, owed, locks, forgotten>>
  BY DEF ExecutorFails
<1>1. PlaneFrame /\ fs' \in [Workspace -> FsState]
  <2>1. CASE At(w, "call") /\ FsBecomes(w, InterruptedBy(w))
    BY <1>0, <2>1, ExecutorFrame
  <2>2. CASE At(w, "switch") /\ FsBecomes(w, {fs[JobOf(w).ws]} \cup Links(JobOf(w).ws))
    <3>1. JobOf(w).ws \in Workspace
      BY <2>2, BusyJob DEF At, Busy
    <3>2. PICK g \in {fs[JobOf(w).ws]} \cup Links(JobOf(w).ws) :
            fs' = [fs EXCEPT ![JobOf(w).ws] = g]
      BY <2>2 DEF FsBecomes
    <3>3. CASE g = fs[JobOf(w).ws]
      <4>1. fs \in [Workspace -> FsState]
        BY DEF PlaneInv, PlaneTypeOK
      <4>2. UNCHANGED fs
        BY <3>1, <3>2, <3>3, <4>1
      <4> QED
        BY <1>0, <4>1, <4>2, QuietFrame DEF ForgottenFrame
    <3> QED
      BY <1>0, <3>1, <3>2, <3>3, SwitchFrame
  <2> QED
    BY <2>1, <2>2 DEF ExecutorFails
<1>2. workers'[w].pc = "failed"
  BY FailedWorker DEF ExecutorFails
<1>3. PlaneTypeOK'
  BY <1>0, <1>1 DEF PlaneInv, PlaneTypeOK, IInv
<1> QED
  BY <1>0, <1>1, <1>2, <1>3, RestingWorker, StepInv

(* A call that was given up touches what its own task may touch. *)
LEMMA OutliveIsTouch ==
  ASSUME PlaneInv, NEW t \in TaskID, Outlive(t)
  PROVE  /\ t \in forgotten /\ jobs[t].ws \in Workspace
         /\ \/ \E g \in Links(jobs[t].ws) : fs' = [fs EXCEPT ![jobs[t].ws] = g]
            \/ \E s \in TaskID, gone \in BOOLEAN, g \in FsState :
                 /\ gone => snapshots[s] = "deleted"
                 /\ Touches(s, gone, fs[jobs[t].ws], g)
                 /\ fs' = [fs EXCEPT ![jobs[t].ws] = g]
                 /\ s = t \/ Shrinks(fs[jobs[t].ws], g)
<1> DEFINE job == jobs[t]
           ws == job.ws
           s == Own(t, job)
           gone == snapshots[t] = "deleted"
           removed == snapshots[s] = "deleted"
<1>1. /\ t \in forgotten
      /\ Exists(tasks[t])
      /\ job.op = "snapshot_drop" => snapshots[job.snap] = "deleted"
  BY DEF Outlive, PlaneInv, ForgottenOK
<1>2. /\ job \in Job /\ ws \in Workspace
      /\ job.op = "snapshot_drop" => job.snap \in TaskID
  BY <1>1 DEF PlaneInv, JobsOK, Job
<1>3. fs \in [Workspace -> FsState] /\ fs[ws] \in FsState
  BY <1>2 DEF PlaneInv, PlaneTypeOK
<1>4. PICK g \in Outlived(t, job, fs[ws], gone)
               \cup (IF t \in Switching(ws) THEN Links(ws) ELSE {}) :
        fs' = [fs EXCEPT ![ws] = g]
  BY DEF Outlive
<1>5. CASE g \in Links(ws)
  BY <1>1, <1>2, <1>4, <1>5
<1>6. CASE g \in Outlived(t, job, fs[ws], gone)
  <2>1. s \in TaskID
    BY <1>2 DEF Own
  <2>2. job.op = "snapshot_drop" => removed /\ s = job.snap
    BY <1>1 DEF Own
  <2>3. job.op # "snapshot_drop" => s = t /\ gone = removed
    BY DEF Own
  <2>4. gone \in BOOLEAN /\ removed \in BOOLEAN
    OBVIOUS
  <2>5. Touches(s, removed, fs[ws], g)
    <3> HIDE DEF job, ws, gone, removed
    <3> QED
      BY <1>2, <1>3, <1>6, <2>2, <2>3, <2>4, OutlivedTouches DEF s
  <2>6. job.op = "snapshot_drop" => Shrinks(fs[ws], g)
    <3> SUFFICES ASSUME job.op = "snapshot_drop" PROVE Shrinks(fs[ws], g)
      OBVIOUS
    <3>1. g \in SnapshotDrop(job.snap, fs[ws]) \cup PartlyRemoved(job.snap, fs[ws])
      BY <1>6 DEF Outlived
    <3> HIDE DEF job, ws
    <3> QED
      BY <1>2, <1>3, <3>1, DropTouches
  <2>7. removed => snapshots[s] = "deleted"
    OBVIOUS
  <2>8. g \in FsState
    BY <2>5 DEF Touches
  <2> HIDE DEF s, gone, removed
  <2> QED
    BY <1>1, <1>2, <1>4, <2>1, <2>3, <2>4, <2>5, <2>6, <2>7, <2>8
<1> QED
  BY <1>4, <1>5, <1>6

LEMMA OutliveStep ==
  ASSUME PlaneInv, IInv', NEW t \in TaskID, Outlive(t)
  PROVE  PlaneInv'
<1> DEFINE ws == jobs[t].ws
<1>0. UNCHANGED <<tasks, workers, cancels, jobs, workspaces, snapshots, handlers,
                  stage, owed, locks, forgotten>>
  BY DEF Outlive, engineVars
<1>1. EngineFrame
  BY <1>0, EngineFrameHolds DEF EngineRest, engineVars, PlaneInv
<1>2. t \in forgotten /\ ws \in Workspace
  BY OutliveIsTouch
<1>3. PlaneFrame /\ fs' \in [Workspace -> FsState]
  <2>1. CASE \E g \in Links(ws) : fs' = [fs EXCEPT ![ws] = g]
    BY <1>0, <1>1, <1>2, <2>1, SwitchFrame
  <2>2. ASSUME NEW s \in TaskID, NEW gone \in BOOLEAN, NEW g \in FsState,
               gone => snapshots[s] = "deleted",
               Touches(s, gone, fs[ws], g), fs' = [fs EXCEPT ![ws] = g],
               s = t \/ Shrinks(fs[ws], g)
        PROVE  PlaneFrame /\ fs' \in [Workspace -> FsState]
    BY <1>0, <1>1, <1>2, <2>2, TouchFrame
  <2> QED
    BY <2>1, <2>2, OutliveIsTouch
<1>4. PlaneTypeOK'
  BY <1>0, <1>3 DEF PlaneInv, PlaneTypeOK, IInv
<1> QED
  BY <1>0, <1>3, <1>4, StepInv

(* The row of the snapshot is inserted once the directory is complete, and  *)
(* the workspace becomes ACTIVE once it is initialised.                     *)
LEMMA PostStep ==
  ASSUME PlaneInv, IInv', EngineFrame, NEW w \in Worker, PostWrite(w)
  PROVE  PlaneInv'
<1> DEFINE t == workers[w].task
           job == JobOf(w)
           s == job.snap
           ws == job.ws
<1>0. /\ workers[w].pc = "succeeded" /\ workers[w].pc \in Busy /\ stage[w] = "post"
      /\ UNCHANGED <<tasks, workers, cancels, jobs, handlers, owed, locks, fs, forgotten>>
  BY DEF PostWrite, engineVars, Busy
<1>1. /\ t \in TaskID /\ job = jobs[t] /\ ws \in Workspace /\ s \in SnapID
      /\ job.op = "snapshot_create" => s = t
  BY <1>0, BusyJob
<1>2. /\ job.op = "init_workspace" => fs[ws].init
      /\ job.op = "snapshot_create" => Good(s, fs[ws]) \/ snapshots[s] = "deleted"
      /\ job.op = "snapshot_drop" =>
           snapshots[s] = "deleted" /\ (s \in fs[ws].cloned => s \in forgotten)
  BY <1>0 DEF PlaneInv, WorkerOK
<1>3. /\ stage' \in [Worker -> Stage]
      /\ stage'[w] = "complete"
      /\ \A v \in Worker \ {w} : stage'[v] = stage[v]
  BY ProceedStage DEF PostWrite, Stage, PlaneInv, PlaneTypeOK
<1>4. /\ workspaces \in [Workspace -> WsRow]
      /\ snapshots \in [TaskID -> {"absent", "present", "deleted"}]
  BY DEF PlaneInv, PlaneTypeOK
<1>5. /\ workspaces' \in [Workspace -> WsRow]
      /\ snapshots' \in [TaskID -> {"absent", "present", "deleted"}]
      /\ \A r \in TaskID : SnapshotFrame(r)
      /\ \A x \in Workspace : StateFrame(x)
  <2>1. CASE job.op = "init_workspace" /\ SetState(ws, "ACTIVE") /\ UNCHANGED snapshots
    <3>1. /\ workspaces' \in [Workspace -> WsRow]
          /\ \A other \in Workspace \ {ws} : workspaces'[other] = workspaces[other]
      BY <1>1, <1>4, <2>1, SetStateType DEF WsState
    <3> QED
      BY <1>2, <1>4, <2>1, <3>1 DEF SnapshotFrame, StateFrame
  <2>2. CASE job.op = "snapshot_create" /\ CreateSnapshotRow(s) /\ UNCHANGED workspaces
    <3>1. CASE snapshots[s] # "absent"
      BY <1>4, <2>2, <3>1 DEF CreateSnapshotRow, SnapshotFrame, StateFrame
    <3>2. CASE snapshots[s] = "absent"
      <4>1. snapshots' = [snapshots EXCEPT ![s] = "present"] /\ s \in TaskID
        BY <1>1, <2>2, <3>2 DEF CreateSnapshotRow
      <4>2. /\ snapshots' \in [TaskID -> {"absent", "present", "deleted"}]
            /\ snapshots'[s] = "present"
            /\ \A r \in TaskID \ {s} : snapshots'[r] = snapshots[r]
        BY <1>4, <4>1
      <4>3. jobs[s].op = "snapshot_create" /\ Good(s, fs[jobs[s].ws])
            /\ workers[w].task = s
        BY <1>1, <1>2, <2>2, <3>2
      <4>4. SnapshotFrame(s)
        BY <1>0, <3>2, <4>2, <4>3 DEF SnapshotFrame
      <4> QED
        BY <1>4, <2>2, <4>2, <4>4 DEF SnapshotFrame, StateFrame
    <3> QED
      BY <3>1, <3>2
  <2>3. CASE /\ job.op = "set_current"
             /\ workspaces' = [workspaces EXCEPT ![ws].current = s]
             /\ UNCHANGED snapshots
    <3>1. /\ [workspaces[ws] EXCEPT !.current = s] \in WsRow
          /\ [workspaces[ws] EXCEPT !.current = s].state = workspaces[ws].state
      BY <1>1, <1>4 DEF WsRow
    <3>2. /\ workspaces' \in [Workspace -> WsRow]
          /\ \A x \in Workspace : workspaces'[x].state = workspaces[x].state
      BY <1>1, <1>4, <2>3, <3>1
    <3> QED
      BY <1>4, <2>3, <3>2 DEF SnapshotFrame, StateFrame
  <2>4. CASE UNCHANGED <<workspaces, snapshots>>
    BY <1>4, <2>4 DEF SnapshotFrame, StateFrame
  <2> QED
    BY <2>1, <2>2, <2>3, <2>4 DEF PostWrite, RecordResult
<1>6. PlaneTypeOK'
  BY <1>0, <1>3, <1>5 DEF PlaneInv, PlaneTypeOK, IInv
<1>7. PlaneFrame
  BY <1>0, <1>5 DEF PlaneFrame, FsFrame, ForgottenFrame
<1>8. WorkerOK(w)'
  <2>1. JobOf(w)' = job
    BY <1>0 DEF JobOf
  <2>2. job.op \in {"snapshot_create", "snapshot_drop"} /\ snapshots[s] = "deleted"
          => snapshots'[s] = "deleted"
    <3>1. job.op \in {"snapshot_create", "snapshot_drop"} => s \in TaskID
      BY <1>0, BusyJob
    <3> QED
      BY <1>5, <3>1 DEF SnapshotFrame
  <2> HIDE DEF job
  <2> QED
    BY <1>0, <1>2, <1>3, <2>1, <2>2 DEF WorkerOK, At, Good, s, ws
<1> QED
  BY <1>0, <1>3, <1>6, <1>7, <1>8, StepInv

LEMMA InitFailedSteps ==
  ASSUME PlaneInv, IInv', EngineFrame, NEW w \in Worker,
         WriteInitFailed(w) \/ LoseInitFailed(w)
  PROVE  PlaneInv'
<1>1. /\ UNCHANGED <<tasks, workers, cancels, jobs, snapshots, handlers, stage, fs, forgotten>>
      /\ owed' = [owed EXCEPT ![w] = {}] /\ Unlock(w)
  BY DEF WriteInitFailed, LoseInitFailed, engineVars
<1>2. /\ owed \in [Worker -> SUBSET Workspace]
      /\ locks \in [Workspace -> SUBSET Worker]
      /\ workspaces \in [Workspace -> WsRow]
  BY DEF PlaneInv, PlaneTypeOK
<1>3. owed' \in [Worker -> SUBSET Workspace] /\ locks' \in [Workspace -> SUBSET Worker]
  BY <1>1, <1>2, UnlockType
<1>4. workspaces' \in [Workspace -> WsRow] /\ \A x \in Workspace : StateFrame(x)
  <2>1. CASE UNCHANGED workspaces
    BY <1>2, <2>1 DEF StateFrame
  <2>2. ASSUME NEW ws \in owed[w], SetState(ws, "INIT_FAILED")
        PROVE  workspaces' \in [Workspace -> WsRow] /\ \A x \in Workspace : StateFrame(x)
    BY <1>2, <2>2, SetStateType DEF WsState, StateFrame
  <2> QED
    BY <2>1, <2>2 DEF WriteInitFailed, LoseInitFailed
<1>5. PlaneTypeOK'
  BY <1>1, <1>3, <1>4 DEF PlaneInv, PlaneTypeOK, IInv
<1>6. PlaneFrame
  BY <1>1, <1>4 DEF PlaneFrame, SnapshotFrame, FsFrame, ForgottenFrame
<1> QED
  BY <1>1, <1>5, <1>6, StepInv

-----------------------------------------------------------------------------
(* The handlers. *)

(* A step of an invocation that inserts nothing. *)
LEMMA InvocationStep ==
  ASSUME PlaneInv, IInv', NEW h \in Handler, HandlerOnly,
         handlers' \in [Handler -> HandlerState],
         \A g \in Handler \ {h} : handlers'[g] = handlers[g],
         workspaces' \in [Workspace -> WsRow],
         \A ws \in Workspace : StateFrame(ws),
         HandlerOK(h)'
  PROVE  PlaneInv'
<1>1. UNCHANGED <<tasks, workers, cancels, jobs, snapshots, stage, owed, locks, fs, forgotten>>
  BY DEF HandlerOnly, engineVars
<1>2. PlaneTypeOK'
  BY <1>1 DEF PlaneInv, PlaneTypeOK, IInv
<1>3. PlaneFrame
  BY <1>1, SameRows DEF PlaneFrame, EngineFrame, BusyFrame, SnapshotFrame, FsFrame,
                        ForgottenFrame
<1>4. /\ JobsOK' /\ CreatorsOK' /\ FilesOK' /\ ForgottenOK'
      /\ VisibleSnapshotHasDirectory' /\ ActiveIsInitialised'
      /\ SucceededDropIsComplete' /\ SucceededCreateIsThere'
  BY <1>3, JobsFrame, CreatorsFrame, FilesFrame, ForgottenStays, SafetyFrame
<1>5. \A g \in Handler : HandlerOK(g)'
  BY <1>3, OtherHandler
<1>6. \A w \in Worker : WorkerOK(w)'
  BY <1>1, <1>3, OtherWorker
<1> QED
  BY <1>2, <1>4, <1>5, <1>6 DEF PlaneInv

LEMMA EnterState ==
  ASSUME handlers \in [Handler -> HandlerState], NEW h \in Handler,
         NEW p \in HandlerPc, NEW op \in Op \cup {"none", "disable"},
         NEW ws \in Workspace, NEW s \in SnapID, NEW cur \in SnapID,
         Enter(h, p, op, ws, s, cur)
  PROVE  /\ handlers' \in [Handler -> HandlerState]
         /\ \A g \in Handler \ {h} : handlers'[g] = handlers[g]
         /\ handlers'[h].pc = p /\ handlers'[h].op = op
         /\ handlers'[h].ws = ws /\ handlers'[h].snap = s
  BY DEF Enter, HandlerState

LEMMA ContinueState ==
  ASSUME handlers \in [Handler -> HandlerState], NEW h \in Handler,
         NEW p \in HandlerPc, Continue(h, p)
  PROVE  /\ handlers' \in [Handler -> HandlerState]
         /\ \A g \in Handler \ {h} : handlers'[g] = handlers[g]
         /\ handlers'[h].pc = p /\ handlers'[h].op = handlers[h].op
         /\ handlers'[h].ws = handlers[h].ws /\ handlers'[h].snap = handlers[h].snap
  BY DEF Continue, HandlerState

LEMMA ReturnState ==
  ASSUME handlers \in [Handler -> HandlerState], NEW h \in Handler, Return(h)
  PROVE  /\ handlers' \in [Handler -> HandlerState]
         /\ \A g \in Handler \ {h} : handlers'[g] = handlers[g]
         /\ handlers'[h].pc = "idle"
  BY DEF Return, HandlerState, IdleHandler, HandlerPc, SnapID

(* An invocation that ends owes nothing. *)
LEMMA ReturnStep ==
  ASSUME PlaneInv, IInv', NEW h \in Handler, HandlerOnly, Return(h),
         workspaces' \in [Workspace -> WsRow],
         \A ws \in Workspace : StateFrame(ws)
  PROVE  PlaneInv'
<1>1. handlers \in [Handler -> HandlerState]
  BY DEF PlaneInv, PlaneTypeOK
<1>2. HandlerOK(h)'
  BY <1>1, ReturnState DEF HandlerOK
<1> QED
  BY <1>1, <1>2, ReturnState, InvocationStep

LEMMA EnterSteps ==
  ASSUME PlaneInv, IInv', NEW h \in Handler, NEW ws \in Workspace,
         \/ InsertWorkspace(h, ws) \/ RetryInitRead(h, ws) \/ DisableRead(h, ws)
         \/ SnapshotRead(h, ws)
         \/ \E s \in TaskID : DropRead(h, ws, s) \/ SetCurrentRead(h, ws, s)
  PROVE  PlaneInv'
<1>1. /\ handlers \in [Handler -> HandlerState]
      /\ workspaces \in [Workspace -> WsRow]
      /\ workspaces[ws].current \in SnapID
  BY DEF PlaneInv, PlaneTypeOK, WsRow
<1>2. NoTask \in SnapID
  BY DEF SnapID
<1>3. UNCHANGED workspaces =>
        workspaces' \in [Workspace -> WsRow] /\ \A x \in Workspace : StateFrame(x)
  BY <1>1 DEF StateFrame
<1>4. CASE InsertWorkspace(h, ws)
  <2>1. HandlerOK(h)' /\ handlers' \in [Handler -> HandlerState]
        /\ \A g \in Handler \ {h} : handlers'[g] = handlers[g]
    BY <1>1, <1>2, <1>4, EnterState DEF InsertWorkspace, HandlerOK, HandlerPc, Op
  <2>2. workspaces' \in [Workspace -> WsRow] /\ \A x \in Workspace : StateFrame(x)
    BY <1>1, <1>4, SetStateType DEF InsertWorkspace, WsState, StateFrame
  <2> QED
    BY <1>4, <2>1, <2>2, InvocationStep DEF InsertWorkspace
<1>5. CASE RetryInitRead(h, ws)
  <2>1. HandlerOK(h)' /\ handlers' \in [Handler -> HandlerState]
        /\ \A g \in Handler \ {h} : handlers'[g] = handlers[g]
    BY <1>1, <1>2, <1>5, EnterState DEF RetryInitRead, HandlerOK, HandlerPc, Op
  <2> QED
    BY <1>3, <1>5, <2>1, InvocationStep DEF RetryInitRead
<1>6. CASE DisableRead(h, ws)
  <2>0. /\ Enter(h, "count", "disable", ws, NoTask, NoTask)
        /\ "count" \in HandlerPc /\ "disable" \in Op \cup {"none", "disable"}
    BY <1>6 DEF DisableRead, HandlerPc
  <2>1. /\ handlers' \in [Handler -> HandlerState]
        /\ \A g \in Handler \ {h} : handlers'[g] = handlers[g]
        /\ handlers'[h].pc = "count" /\ handlers'[h].ws = ws
    BY <1>1, <1>2, <2>0 DEF Enter, HandlerState
  <2>2. HandlerOK(h)'
    BY <2>1 DEF HandlerOK
  <2> QED
    BY <1>3, <1>6, <2>1, <2>2, InvocationStep DEF DisableRead
<1>7. CASE SnapshotRead(h, ws)
  <2>1. HandlerOK(h)' /\ handlers' \in [Handler -> HandlerState]
        /\ \A g \in Handler \ {h} : handlers'[g] = handlers[g]
    BY <1>1, <1>2, <1>7, EnterState DEF SnapshotRead, HandlerOK, HandlerPc, Op
  <2> QED
    BY <1>3, <1>7, <2>1, InvocationStep DEF SnapshotRead
<1>8. ASSUME NEW s \in TaskID, DropRead(h, ws, s) \/ SetCurrentRead(h, ws, s)
      PROVE  PlaneInv'
  <2>1. PICK op \in {"snapshot_drop", "set_current"} : ReadForSnapshot(h, ws, s, op)
    BY <1>8 DEF DropRead, SetCurrentRead
  <2>2. op \in Op /\ s \in SnapID
    BY DEF Op, SnapID
  <2>3. HandlerOK(h)' /\ handlers' \in [Handler -> HandlerState]
        /\ \A g \in Handler \ {h} : handlers'[g] = handlers[g]
    BY <1>1, <2>1, <2>2, EnterState DEF ReadForSnapshot, HandlerOK, HandlerPc
  <2> QED
    BY <1>3, <2>1, <2>3, InvocationStep DEF ReadForSnapshot
<1> QED
  BY <1>4, <1>5, <1>6, <1>7, <1>8

LEMMA ContinueSteps ==
  ASSUME PlaneInv, IInv', NEW h \in Handler,
         \/ RetryInitReset(h) \/ DisableCount(h) \/ Disable(h) \/ Lookup(h)
         \/ HandlerFails(h) \/ HandlerIgnores(h)
  PROVE  PlaneInv'
<1>1. /\ handlers \in [Handler -> HandlerState]
      /\ workspaces \in [Workspace -> WsRow]
      /\ HandlerOK(h)
  BY DEF PlaneInv, PlaneTypeOK
<1>2. UNCHANGED workspaces =>
        workspaces' \in [Workspace -> WsRow] /\ \A x \in Workspace : StateFrame(x)
  BY <1>1 DEF StateFrame
<1>3. CASE RetryInitReset(h)
  <2>1. handlers[h].op \in Op /\ handlers[h].ws \in Workspace
        /\ handlers[h].op = "init_workspace"
    BY <1>1, <1>3 DEF RetryInitReset, HandlerOK
  <2>2. HandlerOK(h)' /\ handlers' \in [Handler -> HandlerState]
        /\ \A g \in Handler \ {h} : handlers'[g] = handlers[g]
    BY <1>1, <1>3, <2>1, ContinueState DEF RetryInitReset, HandlerOK, HandlerPc
  <2>3. workspaces' \in [Workspace -> WsRow] /\ \A x \in Workspace : StateFrame(x)
    BY <1>1, <1>3, <2>1, SetStateType DEF RetryInitReset, WsState, StateFrame
  <2> QED
    BY <1>3, <2>2, <2>3, InvocationStep DEF RetryInitReset
<1>4. CASE (DisableCount(h) \/ HandlerIgnores(h)) /\ Continue(h, "disable")
  <2>1. handlers[h].ws \in Workspace
    BY <1>1, <1>4 DEF DisableCount, HandlerIgnores, HandlerOK
  <2>2. HandlerOK(h)' /\ handlers' \in [Handler -> HandlerState]
        /\ \A g \in Handler \ {h} : handlers'[g] = handlers[g]
    BY <1>1, <1>4, <2>1, ContinueState DEF HandlerOK, HandlerPc
  <2> QED
    BY <1>2, <1>4, <2>2, InvocationStep DEF DisableCount, HandlerIgnores
<1>5. CASE Disable(h)
  <2>1. handlers[h].ws \in Workspace
    BY <1>1, <1>5 DEF Disable, HandlerOK
  <2>2. workspaces' \in [Workspace -> WsRow] /\ \A x \in Workspace : StateFrame(x)
    BY <1>1, <1>5, <2>1, SetStateType DEF Disable, WsState, StateFrame
  <2> QED
    BY <1>5, <2>2, ReturnStep DEF Disable
<1>6. CASE Lookup(h) /\ Continue(h, "insert")
           /\ snapshots[handlers[h].snap] = "present"
  <2>1. handlers[h].op \in Op /\ handlers[h].ws \in Workspace /\ handlers[h].snap \in TaskID
    BY <1>1, <1>6 DEF Lookup, HandlerOK
  <2>2. UNCHANGED snapshots
    BY <1>6 DEF Lookup, HandlerOnly
  <2>3. HandlerOK(h)' /\ handlers' \in [Handler -> HandlerState]
        /\ \A g \in Handler \ {h} : handlers'[g] = handlers[g]
    BY <1>1, <1>6, <2>1, <2>2, ContinueState DEF HandlerOK, HandlerPc
  <2> QED
    BY <1>2, <1>6, <2>3, InvocationStep DEF Lookup
<1>7. CASE (DisableCount(h) \/ Lookup(h) \/ HandlerFails(h)) /\ Return(h)
  BY <1>2, <1>7, ReturnStep DEF DisableCount, Lookup, HandlerFails
<1>8. CASE HandlerIgnores(h) /\ handlers[h].pc = "reset" /\ Continue(h, "insert")
  <2>1. handlers[h].op = "init_workspace" /\ handlers[h].op \in Op
        /\ handlers[h].ws \in Workspace
    BY <1>1, <1>8 DEF HandlerOK
  <2>2. HandlerOK(h)' /\ handlers' \in [Handler -> HandlerState]
        /\ \A g \in Handler \ {h} : handlers'[g] = handlers[g]
    BY <1>1, <1>8, <2>1, ContinueState DEF HandlerOK, HandlerPc
  <2> QED
    BY <1>2, <1>8, <2>2, InvocationStep DEF HandlerIgnores
<1> QED
  BY <1>3, <1>4, <1>5, <1>6, <1>7, <1>8
  DEF DisableCount, Lookup, HandlerFails, HandlerIgnores

(* The new row is of a task nobody holds and no snapshot refers to. *)
LEMMA InsertStep ==
  ASSUME PlaneInv, IInv', NEW h \in Handler, InsertJob(h)
  PROVE  PlaneInv'
<1>1. PICK t \in TaskID : CreateTask(t) /\ jobs' = [jobs EXCEPT ![t] = JobFor(h, t)]
  BY DEF InsertJob
<1>2. /\ handlers \in [Handler -> HandlerState]
      /\ jobs \in [TaskID -> Job \cup {NoJob}]
      /\ HandlerOK(h)
  BY DEF PlaneInv, PlaneTypeOK
<1>3. /\ handlers' \in [Handler -> HandlerState]
      /\ \A g \in Handler \ {h} : handlers'[g] = handlers[g]
      /\ handlers'[h].pc = "idle"
  BY <1>2, ReturnState DEF InsertJob
<1>4. /\ \A u \in TaskID \ {t} : tasks'[u] = tasks[u]
      /\ tasks'[t].status = "PENDING"
      /\ tasks[t].status = Absent
      /\ UNCHANGED <<workers, cancels, workspaces, snapshots, stage, owed, locks, fs, forgotten>>
  BY <1>1, InsertTaskRow DEF CreateTask, Exists, InsertJob, PlaneInv, IInv, TypeOK
<1>5. /\ JobFor(h, t) \in Job
      /\ JobFor(h, t).op = "snapshot_create" => JobFor(h, t).snap = t
      /\ JobFor(h, t).op = "snapshot_drop" =>
           JobFor(h, t).snap \in TaskID /\ snapshots[JobFor(h, t).snap] # "absent"
  <2>1. /\ handlers[h].op \in Op /\ handlers[h].ws \in Workspace
        /\ handlers[h].snap \in SnapID
        /\ handlers[h].op = "snapshot_drop" =>
             handlers[h].snap \in TaskID /\ snapshots[handlers[h].snap] # "absent"
    BY <1>2 DEF InsertJob, HandlerOK, HandlerState
  <2> QED
    BY <2>1 DEF JobFor, Job, SnapID
<1>6. /\ jobs' \in [TaskID -> Job \cup {NoJob}]
      /\ jobs'[t] = JobFor(h, t)
      /\ \A u \in TaskID \ {t} : jobs'[u] = jobs[u]
  BY <1>1, <1>2, <1>5
<1>7. snapshots[t] = "absent"
  BY <1>4 DEF PlaneInv, CreatorsOK
<1>8. PlaneTypeOK'
  BY <1>3, <1>4, <1>6 DEF PlaneInv, PlaneTypeOK, IInv
<1>9. JobsOK'
  <2>1. JobsOK
    BY DEF PlaneInv
  <2> QED
    BY <1>4, <1>5, <1>6, <2>1 DEF JobsOK, Exists
<1>10. CreatorsOK'
  BY <1>4, <1>6, <1>7 DEF PlaneInv, CreatorsOK
<1>11. \A g \in Handler : HandlerOK(g)'
  BY <1>3, <1>4 DEF PlaneInv, HandlerOK
<1>12. \A w \in Worker : WorkerOK(w)'
  <2> SUFFICES ASSUME NEW w \in Worker PROVE WorkerOK(w)'
    OBVIOUS
  <2>1. CASE workers[w].pc \notin Busy
    BY <1>4, <2>1, RestingWorker DEF Busy
  <2>2. CASE workers[w].pc \in Busy
    <3>1. workers[w].task \in TaskID \ {t}
      BY <1>4, <2>2, BusyJob DEF Absent
    <3>2. JobOf(w)' = JobOf(w)
      BY <1>4, <1>6, <3>1 DEF JobOf
    <3>3. WorkerOK(w)
      BY DEF PlaneInv
    <3> QED
      BY <1>4, <3>2, <3>3 DEF WorkerOK, At, Good
  <2> QED
    BY <2>1, <2>2
<1>13. /\ VisibleSnapshotHasDirectory' /\ ActiveIsInitialised'
       /\ SucceededDropIsComplete' /\ SucceededCreateIsThere'
  BY <1>4, <1>6, <1>7 DEF PlaneInv, VisibleSnapshotHasDirectory, ActiveIsInitialised,
         SucceededDropIsComplete, SucceededCreateIsThere, Intact, Premature
<1>14. FilesOK'
  BY <1>4 DEF PlaneInv, FilesOK, Good
<1>15. ForgottenOK'
  <2>1. ForgottenOK
    BY DEF PlaneInv
  <2>2. t \notin forgotten
    BY <1>4, <2>1 DEF ForgottenOK, Exists
  <2>3. forgotten \subseteq TaskID
    BY DEF PlaneInv, PlaneTypeOK
  <2> QED
    BY <1>4, <1>6, <2>1, <2>2, <2>3 DEF ForgottenOK, Exists
<1> QED
  BY <1>8, <1>9, <1>10, <1>11, <1>12, <1>13, <1>14, <1>15 DEF PlaneInv

-----------------------------------------------------------------------------
LEMMA PlaneInitInv == PlaneInit => PlaneInv
<1> SUFFICES ASSUME PlaneInit PROVE PlaneInv
  OBVIOUS
<1>1. IInv
  BY InitInv DEF PlaneInit
<1>2. PlaneTypeOK
  <2>1. NoJob \in Job \cup {NoJob}
    OBVIOUS
  <2>2. [state |-> Absent, current |-> NoTask] \in WsRow
    BY DEF WsRow, SnapID
  <2>3. IdleHandler \in HandlerState
    BY DEF IdleHandler, HandlerState, HandlerPc, SnapID
  <2>4. NewFs \in FsState
    BY DEF NewFs, FsState, SnapID
  <2> QED
    BY <1>1, <2>1, <2>2, <2>3, <2>4 DEF PlaneInit, PlaneTypeOK, IInv, Stage
<1>3. JobsOK
  BY DEF PlaneInit, EngineInit, JobsOK, Exists, NoRow, NoJob
<1>4. \A h \in Handler : HandlerOK(h)
  BY DEF PlaneInit, HandlerOK, IdleHandler
<1>5. \A w \in Worker : WorkerOK(w)
  BY DEF PlaneInit, EngineInit, WorkerOK, At, IdleWorker
<1>6. CreatorsOK /\ VisibleSnapshotHasDirectory
  BY DEF PlaneInit, CreatorsOK, VisibleSnapshotHasDirectory, NewFs
<1>7. ActiveIsInitialised
  BY DEF PlaneInit, ActiveIsInitialised, Absent
<1>8. SucceededDropIsComplete /\ SucceededCreateIsThere
  BY DEF PlaneInit, SucceededDropIsComplete, SucceededCreateIsThere, NoJob
<1>9. FilesOK /\ ForgottenOK
  BY DEF PlaneInit, FilesOK, ForgottenOK, NewFs
<1> QED
  BY <1>1, <1>2, <1>3, <1>4, <1>5, <1>6, <1>7, <1>8, <1>9 DEF PlaneInv

LEMMA WorkerInductive ==
  ASSUME PlaneInv, IInv', NEW w \in Worker, WorkStep(w) \/ WorkerFault(w)
  PROVE  PlaneInv'
<1>1. EngineFrame /\ \A v \in Worker \ {w} : workers'[v] = workers[v]
  BY WorkSteps, EngineFrameHolds, OneWorkerActs DEF EngineRest, PlaneInv
<1>2. workers \in [Worker -> WorkerState]
  BY DEF PlaneInv, IInv, TypeOK
<1>3. CASE Take(w)
  <2>1. workers'[w].pc = "dequeued" /\ UNCHANGED planeVars
    BY <1>2, <1>3 DEF Take, Dequeue
  <2> QED
    BY <1>1, <2>1, PlaneSame
<1>4. CASE SkipCanceled(w) \/ WorkerRestart(w)
  <2>1. workers'[w].pc = "idle" /\ UNCHANGED planeVars
    BY <1>2, <1>4, WorkerLeave DEF SkipCanceled, CancelObserved, WorkerRestart, Restart
  <2> QED
    BY <1>1, <2>1, PlaneSame
<1>5. CASE LoseTaken(w)
  BY <1>1, <1>5, PlaneSame DEF LoseTaken, LoseDequeued
<1>6. CASE \/ BeginTx(w) \/ AcquireWorkspaceLock(w) \/ CommitEmpty(w)
           \/ (CheckReferences(w) /\ UNCHANGED engineVars) \/ NotNoop(w) \/ NoopUnread(w)
  BY <1>1, <1>6, TransactionSteps
<1>7. CASE \/ (CheckReferences(w) /\ ExecuteFail(w))
           \/ WriteSucceeded(w) \/ WriteFailed(w) \/ LoseStatus(w) \/ WorkerCrash(w)
           \/ AnswerLost(w)
  BY <1>1, <1>7, EndingSteps
<1>8. CASE Noop(w) \/ LosePost(w) \/ FindCurrent(w)
  BY <1>1, <1>8, CompletingSteps
<1>9. CASE CommitDeleted(w) \/ TxFails(w)
  BY <1>1, <1>9, CommitSteps
<1>10. CASE CallExecutor(w) \/ CloneSnapshot(w) \/ SwitchLink(w)
  BY <1>1, <1>10, CallStep, SwitchSteps
<1>11. CASE ExecutorFails(w)
  BY <1>1, <1>11, FailedCallStep
<1>12. CASE PostWrite(w)
  BY <1>1, <1>12, PostStep
<1>13. CASE WriteInitFailed(w) \/ LoseInitFailed(w)
  BY <1>1, <1>13, InitFailedSteps
<1>14. CheckReferences(w) => ExecuteFail(w) \/ UNCHANGED engineVars
  BY DEF CheckReferences
<1> QED
  BY <1>3, <1>4, <1>5, <1>6, <1>7, <1>8, <1>9, <1>10, <1>11, <1>12, <1>13, <1>14
  DEF WorkStep, WorkerFault

LEMMA PlaneInductive ==
  ASSUME PlaneInv, [PlaneNext]_vars PROVE PlaneInv'
<1>1. IInv'
  BY PlaneStepIsEngineStep, InductiveStep DEF PlaneInv
<1>2. ASSUME NEW h \in Handler, Handle(h) \/ HandlerFails(h) \/ HandlerIgnores(h)
      PROVE  PlaneInv'
  BY <1>1, <1>2, EnterSteps, ContinueSteps, InsertStep DEF Handle
<1>3. ASSUME NEW w \in Worker, WorkStep(w) \/ WorkerFault(w) PROVE PlaneInv'
  BY <1>1, <1>3, WorkerInductive
<1>4. ASSUME NEW c \in Canceller, Cancel(c) \/ LoseCancel(c), UNCHANGED planeVars
      PROVE  PlaneInv'
  <2>1. EngineFrame
    BY <1>4, EngineFrameHolds DEF EngineRest, PlaneInv
  <2>2. UNCHANGED workers
    BY <1>4 DEF Cancel, CancelRead, CancelPending, RequestCancel, CancelMissed, LoseCancel
  <2> QED
    BY <1>1, <1>4, <2>1, <2>2, PlaneSame
<1>5. ASSUME NEW t \in TaskID, BackoffElapsed(t), UNCHANGED planeVars
      PROVE  PlaneInv'
  <2>1. EngineFrame
    BY <1>5, EngineFrameHolds DEF EngineRest, PlaneInv
  <2> QED
    BY <1>1, <1>5, <2>1, PlaneSame DEF BackoffElapsed
<1>6. ASSUME NEW t \in TaskID, Outlive(t) PROVE PlaneInv'
  BY <1>1, <1>6, OutliveStep
<1>7. CASE UNCHANGED vars
  <2>1. EngineFrame
    BY <1>7, EngineFrameHolds DEF vars, EngineRest, PlaneInv
  <2> QED
    BY <1>1, <1>7, <2>1, PlaneSame DEF vars, engineVars
<1> QED
  BY <1>2, <1>3, <1>4, <1>5, <1>6, <1>7 DEF PlaneNext, Calm

THEOREM PlaneInvariant == PlaneSpec => []PlaneInv
<1>1. PlaneInit => PlaneInv
  BY PlaneInitInv
<1>2. PlaneInv /\ [PlaneNext]_vars => PlaneInv'
  BY PlaneInductive
<1> QED
  BY <1>1, <1>2, PTL DEF PlaneSpec

(* Every variable of the service keeps its type. *)
THEOREM PlaneTypes == PlaneSpec => []PlaneTypeOK
<1>1. PlaneInv => PlaneTypeOK
  BY DEF PlaneInv
<1> QED
  BY <1>1, PlaneInvariant, PTL

(* A snapshot that can be listed and restored has its complete directory,   *)
(* or it is one whose metadata came before its clone had ended, which needs *)
(* a workspace that has switched; whatever else fails, whichever calls are  *)
(* given up and go on, and however the tasks interleave.                    *)
THEOREM VisibleIsComplete == PlaneSpec => []VisibleSnapshotHasDirectory
<1>1. PlaneInv => VisibleSnapshotHasDirectory
  BY DEF PlaneInv
<1> QED
  BY <1>1, PlaneInvariant, PTL

(* A workspace is ACTIVE only once its directories and link exist. *)
THEOREM ActiveHasDirectories == PlaneSpec => []ActiveIsInitialised
<1>1. PlaneInv => ActiveIsInitialised
  BY DEF PlaneInv
<1> QED
  BY <1>1, PlaneInvariant, PTL

(* After a drop that SUCCEEDED the row is marked and the directory is gone; *)
(* only a call that was given up while it ran can make one again.           *)
THEOREM DropIsForGood == PlaneSpec => []SucceededDropIsComplete
<1>1. PlaneInv => SucceededDropIsComplete
  BY DEF PlaneInv
<1> QED
  BY <1>1, PlaneInvariant, PTL
=============================================================================
