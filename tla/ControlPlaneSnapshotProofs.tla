---------------------- MODULE ControlPlaneSnapshotProofs ----------------------
(***************************************************************************)
(* More proofs about ControlPlane, every fault included: the advisory lock, *)
(* that the service implements SnapshotLifecycle, that what SUCCEEDED stays *)
(* made, and what the engine's progress means for the service.  All rest on *)
(* PlaneInv; what each needs besides is small and is stated here.           *)
(***************************************************************************)
EXTENDS ControlPlaneProofs

(* A worker that still has INIT_FAILED to write takes no task. *)
OwedOK ==
  \A w \in Worker : workers[w].pc \in Busy => owed[w] = {}

LockInv == PlaneInv /\ OwedOK /\ LockDiscipline

-----------------------------------------------------------------------------
(* Whom a step touches. *)

(* What a step that is not a worker's leaves alone. *)
LEMMA OtherStepKinds ==
  ASSUME [PlaneNext]_vars
  PROVE  \/ \E w \in Worker : WorkStep(w) \/ WorkerFault(w)
         \/ UNCHANGED <<workers, stage, owed, locks, snapshots>>
<1>1. ASSUME NEW h \in Handler, Handle(h) \/ HandlerFails(h) \/ HandlerIgnores(h)
      PROVE  UNCHANGED <<workers, stage, owed, locks, snapshots>>
  <2>1. CASE InsertJob(h)
    BY <2>1 DEF InsertJob, CreateTask
  <2>2. CASE ~InsertJob(h)
    BY <1>1, <2>2, HandlerSteps DEF HandlerOnly, engineVars
  <2> QED
    BY <2>1, <2>2
<1>2. ASSUME NEW c \in Canceller, Cancel(c) \/ LoseCancel(c), UNCHANGED planeVars
      PROVE  UNCHANGED <<workers, stage, owed, locks, snapshots>>
  BY <1>2 DEF planeVars, Cancel, CancelRead, CancelPending, RequestCancel, CancelMissed,
              LoseCancel
<1>3. ASSUME NEW t \in TaskID, BackoffElapsed(t), UNCHANGED planeVars
      PROVE  UNCHANGED <<workers, stage, owed, locks, snapshots>>
  BY <1>3 DEF planeVars, BackoffElapsed
<1>4. ASSUME NEW t \in TaskID, Outlive(t)
      PROVE  UNCHANGED <<workers, stage, owed, locks, snapshots>>
  BY <1>4 DEF Outlive, engineVars
<1>5. CASE UNCHANGED vars
  BY <1>5 DEF vars, planeVars, engineVars
<1> QED
  BY <1>1, <1>2, <1>3, <1>4, <1>5 DEF PlaneNext, Calm

(* Rows and their jobs stay once they are there. *)
LEMMA RowsStay ==
  ASSUME PlaneInv, [PlaneNext]_vars, NEW t \in TaskID, Exists(tasks[t])
  PROVE  Exists(tasks'[t]) /\ jobs'[t] = jobs[t]
<1>1. CASE UNCHANGED jobs /\ EngineRest
  <2>1. RowFrame(t)
    BY <1>1, EngineFrameHolds DEF EngineFrame, PlaneInv
  <2> QED
    BY <1>1, <2>1 DEF RowFrame
<1>2. ASSUME NEW h \in Handler, InsertJob(h) PROVE Exists(tasks'[t]) /\ jobs'[t] = jobs[t]
  <2>1. PICK u \in TaskID : CreateTask(u) /\ jobs' = [jobs EXCEPT ![u] = JobFor(h, u)]
    BY <1>2 DEF InsertJob
  <2>2. u # t
    BY <2>1 DEF CreateTask
  <2>3. \A v \in TaskID \ {u} : tasks'[v] = tasks[v]
    BY <2>1, InsertTaskRow DEF CreateTask, PlaneInv, IInv, TypeOK
  <2> QED
    BY <2>1, <2>2, <2>3 DEF PlaneInv, PlaneTypeOK, Exists
<1> QED
  BY <1>1, <1>2, PlaneStepKinds

(* So a busy worker's task is what it was. *)
LEMMA SameJob ==
  ASSUME PlaneInv, [PlaneNext]_vars, NEW w \in Worker, workers[w].pc \in Busy,
         workers'[w].task = workers[w].task
  PROVE  JobOf(w)' = JobOf(w)
<1>1. workers[w].task \in TaskID /\ Exists(tasks[workers[w].task])
  BY BusyJob DEF Exists, Absent
<1> QED
  BY <1>1, RowsStay DEF JobOf

(* A worker's step is about that worker. *)
LEMMA OthersRest ==
  ASSUME PlaneInv, NEW w \in Worker, WorkStep(w) \/ WorkerFault(w), NEW v \in Worker \ {w}
  PROVE  workers'[v] = workers[v] /\ stage'[v] = stage[v] /\ owed'[v] = owed[v]
<1>1. workers'[v] = workers[v]
  BY WorkSteps, OneWorkerActs DEF PlaneInv
<1>2. stage \in [Worker -> Stage] /\ owed \in [Worker -> SUBSET Workspace]
  BY DEF PlaneInv, PlaneTypeOK
<1>3. CASE \/ Take(w) \/ SkipCanceled(w) \/ BeginTx(w) \/ AcquireWorkspaceLock(w)
           \/ CommitEmpty(w) \/ CheckReferences(w) \/ CommitDeleted(w)
  BY <1>1, <1>2, <1>3 DEF Take, SkipCanceled, BeginTx, AcquireWorkspaceLock, CommitEmpty,
    CheckReferences, CommitDeleted, planeVars, Proceed
<1>4. CASE \/ Noop(w) \/ NotNoop(w) \/ CallExecutor(w) \/ ExecutorFails(w)
           \/ FindCurrent(w) \/ CloneSnapshot(w) \/ SwitchLink(w)
           \/ PostWrite(w) \/ WriteSucceeded(w) \/ WriteFailed(w) \/ WriteInitFailed(w)
  BY <1>1, <1>2, <1>4 DEF Noop, NotNoop, CallExecutor, ExecutorFails, FindCurrent,
    CloneSnapshot, SwitchLink, PostWrite, WriteSucceeded, WriteFailed, AfterFailTask,
    WriteInitFailed, Proceed
<1>5. CASE WorkerFault(w)
  BY <1>1, <1>2, <1>5 DEF WorkerFault, TxFails, NoopUnread, AnswerLost, LosePost,
    LoseStatus, AfterFailTask, LoseInitFailed, LoseTaken, WorkerCrash, WorkerRestart,
    planeVars, Proceed
<1> QED
  BY <1>3, <1>4, <1>5 DEF WorkStep

-----------------------------------------------------------------------------
(* The advisory lock. *)

(* In its transaction on the workspace, and not failed. *)
InLock(w) == workers[w].pc = "executing" /\ AtLock(w)

(* The transaction has not been rolled back, by the worker at least. *)
Attended(w) == workers[w].pc \in {"executing", "failed"} /\ AtLock(w)

(* What keeps a worker from having left a lock behind. *)
MayHold(w, ws) == (Attended(w) /\ JobOf(w).ws = ws) \/ ws \in owed[w]

LEMMA LockParts ==
  LockDiscipline <=>
    /\ \A w \in Worker : InLock(w) => locks[JobOf(w).ws] = {w}
    /\ \A ws \in Workspace : \A w \in locks[ws] : locks[ws] = {w} /\ MayHold(w, ws)
  BY DEF LockDiscipline, InLock, MayHold, Attended

(* A worker that takes no step keeps its part of it. *)
LEMMA OtherLocks ==
  ASSUME PlaneInv, [PlaneNext]_vars, NEW v \in Worker,
         workers'[v] = workers[v], stage'[v] = stage[v], owed'[v] = owed[v]
  PROVE  /\ InLock(v)' = InLock(v)
         /\ InLock(v) => JobOf(v)' = JobOf(v) /\ JobOf(v).ws \in Workspace
         /\ \A ws \in Workspace : MayHold(v, ws)' = MayHold(v, ws)
<1>1. InLock(v)' = InLock(v) /\ Attended(v)' = Attended(v)
  BY DEF InLock, Attended, AtLock
<1>2. Attended(v) => JobOf(v)' = JobOf(v) /\ JobOf(v).ws \in Workspace
  BY SameJob, BusyJob DEF Attended, Busy
<1>3. InLock(v) => Attended(v)
  BY DEF InLock, Attended
<1> QED
  BY <1>1, <1>2, <1>3 DEF MayHold

(* A worker whose step takes no lock, and keeps those it has only if it has *)
(* its transaction still or owes INIT_FAILED.                               *)
LEMMA LockStep ==
  ASSUME PlaneInv, LockDiscipline, [PlaneNext]_vars, NEW w \in Worker,
         \A v \in Worker \ {w} :
           workers'[v] = workers[v] /\ stage'[v] = stage[v] /\ owed'[v] = owed[v],
         \/ /\ UNCHANGED locks
            /\ InLock(w)' => InLock(w) /\ JobOf(w)' = JobOf(w)
            /\ \A ws \in Workspace : w \in locks[ws] /\ MayHold(w, ws) => MayHold(w, ws)'
         \/ Unlock(w) /\ ~InLock(w)'
  PROVE  LockDiscipline'
<1>0. \A ws \in Workspace : locks[ws] \subseteq Worker
  BY DEF PlaneInv, PlaneTypeOK
<1>1. \A v \in Worker \ {w} :
        /\ InLock(v)' = InLock(v)
        /\ InLock(v) => JobOf(v)' = JobOf(v) /\ JobOf(v).ws \in Workspace
        /\ \A ws \in Workspace : MayHold(v, ws)' = MayHold(v, ws)
  BY OtherLocks
<1>2. ASSUME NEW v \in Worker, InLock(v)' PROVE locks'[JobOf(v)'.ws] = {v}
  <2>1. CASE UNCHANGED locks
    <3>1. InLock(v) /\ JobOf(v)' = JobOf(v)
      BY <1>1, <1>2, <2>1
    <3> QED
      BY <2>1, <3>1, LockParts
  <2>2. CASE Unlock(w) /\ ~InLock(w)'
    <3>1. v # w /\ InLock(v) /\ JobOf(v)' = JobOf(v) /\ JobOf(v).ws \in Workspace
      BY <1>1, <1>2, <2>2
    <3> QED
      BY <2>2, <3>1, LockParts DEF Unlock
  <2> QED
    BY <2>1, <2>2
<1>3. ASSUME NEW ws \in Workspace, NEW v \in locks'[ws]
      PROVE  locks'[ws] = {v} /\ MayHold(v, ws)'
  <2>1. CASE /\ UNCHANGED locks
             /\ \A x \in Workspace : w \in locks[x] /\ MayHold(w, x) => MayHold(w, x)'
    <3>1. v \in Worker /\ v \in locks[ws] /\ locks[ws] = {v} /\ MayHold(v, ws)
      BY <1>0, <1>3, <2>1, LockParts
    <3>2. MayHold(v, ws)'
      BY <1>1, <2>1, <3>1
    <3> QED
      BY <2>1, <3>1, <3>2
  <2>2. CASE Unlock(w)
    <3>1. locks'[ws] = locks[ws] \ {w}
      BY <2>2 DEF Unlock
    <3> QED
      BY <1>0, <1>1, <1>3, <3>1, LockParts
  <2> QED
    BY <2>1, <2>2
<1>4. /\ \A v \in Worker : InLock(v)' => locks'[JobOf(v)'.ws] = {v}
      /\ \A ws \in Workspace : \A v \in locks'[ws] : locks'[ws] = {v} /\ MayHold(v, ws)'
  BY <1>2, <1>3
<1> QED
  BY <1>4 DEF LockDiscipline, InLock, MayHold, Attended

(* Waiting for the lock has ended: nobody had it. *)
LEMMA AcquireStep ==
  ASSUME LockInv, [PlaneNext]_vars, NEW w \in Worker, AcquireWorkspaceLock(w)
  PROVE  LockDiscipline'
<1> DEFINE ws == JobOf(w).ws
<1>0. PlaneInv /\ LockDiscipline /\ \A x \in Workspace : locks[x] \subseteq Worker
  BY DEF LockInv, PlaneInv, PlaneTypeOK
<1>1. /\ workers[w].pc = "executing" /\ stage[w] = "begin" /\ workers[w].pc \in Busy
      /\ locks[ws] = {} /\ locks' = [locks EXCEPT ![ws] = {w}]
      /\ UNCHANGED <<tasks, workers, cancels, jobs, owed>>
  BY DEF AcquireWorkspaceLock, At, Busy, engineVars
<1>2. ws \in Workspace
  BY <1>0, <1>1, BusyJob
<1>3. /\ stage'[w] = "locked"
      /\ \A v \in Worker \ {w} : stage'[v] = stage[v]
  BY <1>0, ProceedStage DEF AcquireWorkspaceLock, Stage, PlaneInv, PlaneTypeOK
<1>4. /\ locks'[ws] = {w}
      /\ \A x \in Workspace \ {ws} : locks'[x] = locks[x]
  BY <1>0, <1>1, <1>2 DEF PlaneInv, PlaneTypeOK
<1>5. JobOf(w)' = JobOf(w) /\ Attended(w)'
  BY <1>1, <1>3 DEF JobOf, Attended, AtLock
<1>6. \A v \in Worker \ {w} :
        /\ InLock(v)' = InLock(v)
        /\ InLock(v) => JobOf(v)' = JobOf(v) /\ JobOf(v).ws \in Workspace
        /\ \A x \in Workspace : MayHold(v, x)' = MayHold(v, x)
  BY <1>0, <1>1, <1>3, OtherLocks
<1>7. ASSUME NEW v \in Worker, InLock(v)' PROVE locks'[JobOf(v)'.ws] = {v}
  <2>1. CASE v = w
    BY <1>4, <1>5, <2>1
  <2>2. CASE v # w
    <3>1. /\ JobOf(v)' = JobOf(v) /\ JobOf(v).ws \in Workspace
          /\ locks[JobOf(v).ws] = {v}
      BY <1>0, <1>6, <1>7, <2>2, LockParts
    <3>2. JobOf(v).ws # ws
      BY <1>1, <3>1
    <3> QED
      BY <1>4, <3>1, <3>2
  <2> QED
    BY <2>1, <2>2
<1>8. ASSUME NEW x \in Workspace, NEW v \in locks'[x]
      PROVE  locks'[x] = {v} /\ MayHold(v, x)'
  <2>1. CASE x = ws
    BY <1>4, <1>5, <1>8, <2>1 DEF MayHold
  <2>2. CASE x # ws
    <3>1. v \in locks[x] /\ v \in Worker /\ locks'[x] = locks[x]
      BY <1>0, <1>4, <1>8, <2>2
    <3>2. locks[x] = {v} /\ MayHold(v, x)
      BY <1>0, <3>1, LockParts
    <3>3. CASE v # w
      BY <1>6, <3>1, <3>2, <3>3
    <3>4. CASE v = w
      <4>1. x \in owed[w]
        BY <1>1, <3>2, <3>4 DEF MayHold, Attended, AtLock
      <4> QED
        BY <1>1, <3>1, <3>2, <3>4, <4>1 DEF MayHold
    <3> QED
      BY <3>3, <3>4
  <2> QED
    BY <2>1, <2>2
<1>9. /\ \A v \in Worker : InLock(v)' => locks'[JobOf(v)'.ws] = {v}
      /\ \A x \in Workspace : \A v \in locks'[x] : locks'[x] = {v} /\ MayHold(v, x)'
  BY <1>7, <1>8
<1> QED
  BY <1>9 DEF LockDiscipline, InLock, MayHold, Attended

(* The ways to leave failTask: with the lock released, or with INIT_FAILED  *)
(* to write under it.                                                       *)
LEMMA AfterFailTaskLocks ==
  ASSUME LockInv, NEW w \in Worker, workers[w].pc \in Busy, AfterFailTask(w)
  PROVE  /\ Unlock(w) \/ (UNCHANGED locks /\ owed'[w] = {JobOf(w).ws})
         /\ owed[w] = {}
<1>1. owed[w] = {} /\ owed'[w] = OwedBy(w)
  BY DEF LockInv, OwedOK, AfterFailTask, PlaneInv, PlaneTypeOK
<1> QED
  BY <1>1 DEF AfterFailTask, OwedBy

LEMMA OwedStep ==
  ASSUME PlaneInv, OwedOK, [PlaneNext]_vars PROVE OwedOK'
<1>0. /\ owed \in [Worker -> SUBSET Workspace]
      /\ workers \in [Worker -> WorkerState]
  BY DEF PlaneInv, PlaneTypeOK, TypeOK
<1>1. ASSUME NEW w \in Worker, WorkStep(w) \/ WorkerFault(w) PROVE OwedOK'
  <2>1. \/ owed'[w] = {}
        \/ owed'[w] = owed[w] /\ workers[w].pc \in Busy
        \/ workers'[w].pc \notin Busy
    <3>1. CASE Take(w)
      BY <1>0, <3>1 DEF Take, planeVars
    <3>2. CASE SkipCanceled(w) \/ WriteSucceeded(w) \/ WriteFailed(w) \/ LoseStatus(w)
               \/ WorkerRestart(w) \/ WorkerCrash(w)
      <4>1. workers'[w].pc \in {"idle", "down"}
        BY <1>0, <3>2, WorkerLeave DEF SkipCanceled, CancelObserved, WriteSucceeded,
          Complete, WriteFailed, Fail, Dead, LoseStatus, LoseWrite, WorkerRestart,
          Restart, WorkerCrash, Crash, IdleWorker
      <4> QED
        BY <4>1 DEF Busy
    <3>3. CASE LoseTaken(w)
      BY <1>0, <3>3 DEF LoseTaken, planeVars
    <3>4. CASE WriteInitFailed(w) \/ LoseInitFailed(w)
      BY <1>0, <3>4 DEF WriteInitFailed, LoseInitFailed
    <3>5. CASE \/ BeginTx(w) \/ AcquireWorkspaceLock(w) \/ CommitEmpty(w)
               \/ CheckReferences(w) \/ CommitDeleted(w) \/ Noop(w) \/ NotNoop(w)
               \/ CallExecutor(w) \/ ExecutorFails(w) \/ PostWrite(w)
               \/ FindCurrent(w) \/ CloneSnapshot(w) \/ SwitchLink(w)
      BY <1>0, <3>5 DEF BeginTx, Begin, AcquireWorkspaceLock, CommitEmpty,
        CheckReferences, CommitDeleted, Noop, NotNoop, CallExecutor, ExecutorFails,
        FindCurrent, CloneSnapshot, SwitchLink, PostWrite, At, Busy
    <3>6. CASE TxFails(w) \/ NoopUnread(w) \/ AnswerLost(w) \/ LosePost(w)
      BY <1>0, <3>6 DEF TxFails, ExecuteFail, NoopUnread, AnswerLost, LosePost, Calling,
        At, Busy
    <3> QED
      BY <1>1, <3>1, <3>2, <3>3, <3>4, <3>5, <3>6 DEF WorkStep, WorkerFault
  <2>2. workers'[w].pc \in Busy => owed'[w] = {}
    BY <1>0, <2>1 DEF OwedOK
  <2>3. \A v \in Worker \ {w} : workers'[v] = workers[v] /\ owed'[v] = owed[v]
    BY <1>0, <1>1, OthersRest
  <2> QED
    BY <1>0, <2>2, <2>3 DEF OwedOK
<1>2. CASE UNCHANGED <<workers, owed>>
  BY <1>0, <1>2 DEF OwedOK
<1> QED
  BY <1>1, <1>2, OtherStepKinds

LEMMA LockWorkerStep ==
  ASSUME LockInv, [PlaneNext]_vars, NEW w \in Worker, WorkStep(w) \/ WorkerFault(w)
  PROVE  LockDiscipline'
<1>0. /\ PlaneInv /\ LockDiscipline
      /\ workers \in [Worker -> WorkerState]
      /\ stage \in [Worker -> Stage]
      /\ \A v \in Worker \ {w} :
           workers'[v] = workers[v] /\ stage'[v] = stage[v] /\ owed'[v] = owed[v]
  BY OthersRest DEF LockInv, PlaneInv, PlaneTypeOK, TypeOK
<1>1. ASSUME UNCHANGED <<locks, owed>>, ~Attended(w), ~InLock(w)'
      PROVE  LockDiscipline'
  BY <1>0, <1>1, LockStep DEF MayHold
<1>2. ASSUME UNCHANGED <<locks, owed>>, workers[w].pc \in Busy,
             workers'[w].task = workers[w].task,
             InLock(w)' => InLock(w), Attended(w) => Attended(w)'
      PROVE  LockDiscipline'
  <2>1. JobOf(w)' = JobOf(w)
    BY <1>0, <1>2, SameJob
  <2> QED
    BY <1>0, <1>2, <2>1, LockStep DEF MayHold
<1>3. ASSUME Unlock(w), ~InLock(w)' PROVE LockDiscipline'
  BY <1>0, <1>3, LockStep
<1>4. ASSUME AfterFailTask(w), workers[w].pc \in Busy, workers'[w].pc = "idle"
      PROVE  LockDiscipline'
  <2>1. ~InLock(w)'
    BY <1>4 DEF InLock
  <2>2. CASE Unlock(w)
    BY <1>3, <2>1, <2>2
  <2>3. CASE UNCHANGED locks /\ owed'[w] = {JobOf(w).ws} /\ owed[w] = {}
    BY <1>0, <2>1, <2>3, LockStep DEF MayHold
  <2> QED
    BY <1>4, <2>2, <2>3, AfterFailTaskLocks
<1>5. CASE Take(w) \/ SkipCanceled(w) \/ LoseTaken(w) \/ WorkerRestart(w)
  <2>1. UNCHANGED <<locks, owed>>
    BY <1>5 DEF Take, SkipCanceled, LoseTaken, WorkerRestart, planeVars
  <2>2. ~Attended(w)
    BY <1>5 DEF Attended, Take, Dequeue, SkipCanceled, CancelObserved, LoseTaken,
      LoseDequeued, WorkerRestart, Restart
  <2>3. workers'[w].pc \in {"idle", "dequeued"}
    BY <1>0, <1>5, WorkerLeave DEF Take, Dequeue, SkipCanceled, CancelObserved, LoseTaken,
      LoseDequeued, WorkerRestart, Restart
  <2> QED
    BY <1>1, <2>1, <2>2, <2>3 DEF InLock
<1>6. CASE BeginTx(w)
  <2>1. stage'[w] = "begin" /\ workers[w].pc = "dequeued" /\ UNCHANGED <<locks, owed>>
    BY <1>0, <1>6 DEF BeginTx, Begin, Proceed
  <2> QED
    BY <1>1, <2>1 DEF InLock, Attended, AtLock
<1>7. CASE AcquireWorkspaceLock(w)
  BY <1>7, AcquireStep
<1>8. CASE CommitEmpty(w) \/ CommitDeleted(w)
  <2>1. Unlock(w) /\ stage'[w] \in {"dispatch", "call"}
    BY <1>0, <1>8 DEF CommitEmpty, CommitDeleted, Proceed
  <2> QED
    BY <1>3, <2>1 DEF InLock, AtLock
<1>9. CASE CheckReferences(w)
  <2>1. /\ workers[w].pc = "executing" /\ stage[w] = "locked"
        /\ UNCHANGED <<locks, owed>>
    BY <1>9 DEF CheckReferences, At
  <2>2. CASE ExecuteFail(w) /\ UNCHANGED stage
    BY <1>0, <1>2, <2>1, <2>2, WorkerGoto DEF ExecuteFail, InLock, Attended, AtLock, Busy, Pc
  <2>3. CASE Proceed(w, "checked") /\ UNCHANGED engineVars
    BY <1>0, <1>2, <2>1, <2>3 DEF Proceed, engineVars, InLock, Attended, AtLock, Busy
  <2> QED
    BY <1>9, <2>2, <2>3 DEF CheckReferences
<1>10. CASE Noop(w) \/ NotNoop(w) \/ NoopUnread(w) \/ CallExecutor(w)
            \/ FindCurrent(w) \/ CloneSnapshot(w) \/ SwitchLink(w)
            \/ PostWrite(w) \/ LosePost(w)
  <2>1. /\ stage[w] \in {"dispatch", "call", "switch", "post"}
        /\ stage'[w] \in {"complete", "call", "switch", "post"}
        /\ UNCHANGED <<locks, owed>>
    BY <1>0, <1>10 DEF Noop, NotNoop, NoopUnread, CallExecutor, FindCurrent,
      CloneSnapshot, SwitchLink, PostWrite, LosePost, At, Proceed
  <2> QED
    BY <1>1, <2>1 DEF InLock, Attended, AtLock
<1>11. CASE ExecutorFails(w) \/ AnswerLost(w)
  <2>1. stage[w] \in {"call", "switch"} /\ UNCHANGED <<stage, locks, owed>>
    BY <1>11 DEF ExecutorFails, AnswerLost, Calling, At
  <2> QED
    BY <1>1, <2>1 DEF InLock, Attended, AtLock
<1>12. CASE WriteSucceeded(w)
  <2>1. workers[w].pc = "succeeded" /\ workers'[w].pc = "idle" /\ UNCHANGED <<locks, owed>>
    BY <1>0, <1>12, WorkerLeave DEF WriteSucceeded, Complete
  <2> QED
    BY <1>1, <2>1 DEF InLock, Attended, AtLock
<1>13. CASE WriteFailed(w)
  BY <1>0, <1>4, <1>13, WorkerLeave DEF WriteFailed, Fail, Dead, Busy
<1>14. CASE WriteInitFailed(w) \/ LoseInitFailed(w)
  <2>1. Unlock(w) /\ owed[w] # {} /\ UNCHANGED <<workers, stage>>
    BY <1>14 DEF WriteInitFailed, LoseInitFailed, engineVars
  <2>2. workers[w].pc \notin Busy
    BY <2>1 DEF LockInv, OwedOK
  <2> QED
    BY <1>3, <2>1, <2>2 DEF InLock, Busy
<1>15. CASE TxFails(w)
  <2>1. /\ workers[w].pc = "executing" /\ ExecuteFail(w)
        /\ UNCHANGED <<stage, owed>>
        /\ UNCHANGED locks \/ Unlock(w)
    BY <1>15 DEF TxFails, ExecuteFail
  <2>2. workers'[w].pc = "failed" /\ workers'[w].task = workers[w].task
    BY <1>0, <2>1, WorkerGoto DEF ExecuteFail, Pc
  <2>3. CASE UNCHANGED locks
    BY <1>2, <2>1, <2>2, <2>3 DEF InLock, Attended, AtLock, Busy
  <2>4. CASE Unlock(w)
    BY <1>3, <2>2, <2>4 DEF InLock
  <2> QED
    BY <2>1, <2>3, <2>4
<1>16. CASE LoseStatus(w)
  <2>1. workers'[w].pc = "idle"
    BY <1>0, <1>16, WorkerLeave DEF LoseStatus, LoseWrite
  <2>2. CASE workers[w].pc \in {"dequeued", "succeeded"} /\ UNCHANGED <<locks, owed>>
    BY <1>1, <2>1, <2>2 DEF InLock, Attended
  <2>3. CASE workers[w].pc = "failed" /\ AfterFailTask(w)
    BY <1>4, <2>1, <2>3 DEF Busy
  <2> QED
    BY <1>16, <2>2, <2>3 DEF LoseStatus, planeVars
<1>17. CASE WorkerCrash(w)
  <2>1. Unlock(w) /\ workers'[w].pc = "down"
    BY <1>0, <1>17 DEF WorkerCrash, Crash, IdleWorker
  <2> QED
    BY <1>3, <2>1 DEF InLock, AtLock
<1> QED
  BY <1>5, <1>6, <1>7, <1>8, <1>9, <1>10, <1>11, <1>12, <1>13, <1>14, <1>15, <1>16, <1>17
  DEF WorkStep, WorkerFault

LEMMA LockInductive ==
  ASSUME LockInv, [PlaneNext]_vars PROVE LockInv'
<1>1. PlaneInv' /\ OwedOK'
  BY PlaneInductive, OwedStep DEF LockInv
<1>2. CASE UNCHANGED <<workers, stage, owed, locks>>
  <2>1. PlaneInv /\ LockDiscipline
    BY DEF LockInv
  <2>2. \A w \in Worker :
          /\ InLock(w)' = InLock(w)
          /\ InLock(w) => JobOf(w)' = JobOf(w)
          /\ \A ws \in Workspace : MayHold(w, ws)' = MayHold(w, ws)
    BY <1>2, <2>1, OtherLocks
  <2>3. \A ws \in Workspace : locks[ws] \subseteq Worker
    BY <2>1 DEF PlaneInv, PlaneTypeOK
  <2>4. /\ \A w \in Worker : InLock(w)' => locks'[JobOf(w)'.ws] = {w}
        /\ \A ws \in Workspace : \A w \in locks'[ws] : locks'[ws] = {w} /\ MayHold(w, ws)'
    BY <1>2, <2>1, <2>2, <2>3, LockParts
  <2>5. LockDiscipline'
    BY <2>4 DEF LockDiscipline, InLock, MayHold, Attended
  <2> QED
    BY <1>1, <2>5 DEF LockInv
<1>3. ASSUME NEW w \in Worker, WorkStep(w) \/ WorkerFault(w) PROVE LockDiscipline'
  BY <1>3, LockWorkerStep
<1> QED
  BY <1>1, <1>2, <1>3, OtherStepKinds DEF LockInv

LEMMA LockInit == PlaneInit => LockInv
<1> SUFFICES ASSUME PlaneInit PROVE LockInv
  OBVIOUS
<1>1. OwedOK
  BY DEF PlaneInit, OwedOK
<1>2. LockDiscipline
  BY DEF PlaneInit, EngineInit, LockDiscipline, IdleWorker
<1> QED
  BY <1>1, <1>2, PlaneInitInv DEF LockInv

LEMMA LockInvariant == PlaneSpec => []LockInv
<1>1. LockInv /\ [PlaneNext]_vars => LockInv'
  BY LockInductive
<1> QED
  BY <1>1, LockInit, PTL DEF PlaneSpec

(* No two workers re-check or mark in one workspace at a time, and no lock  *)
(* is left behind, whatever fails.                                          *)
THEOREM LocksAreReleased == PlaneSpec => []LockDiscipline
<1>1. LockInv => LockDiscipline
  BY DEF LockInv
<1> QED
  BY <1>1, LockInvariant, PTL

(* Nobody waits for a lock while holding one, so that workers never wait in *)
(* a circle: whoever holds the lock of a workspace has a statement to make. *)
THEOREM HoldersDoNotWait ==
  PlaneSpec => [](\A ws \in Workspace : \A w \in locks[ws] : ~At(w, "begin"))
<1>1. LockInv => \A ws \in Workspace : \A w \in locks[ws] : ~At(w, "begin")
  <2> SUFFICES ASSUME LockInv, NEW ws \in Workspace, NEW w \in locks[ws], At(w, "begin")
               PROVE  FALSE
    OBVIOUS
  <2>1. w \in Worker
    BY DEF LockInv, PlaneInv, PlaneTypeOK
  <2>2. owed[w] = {}
    BY <2>1 DEF LockInv, OwedOK, At, Busy
  <2> QED
    BY <2>1, <2>2 DEF LockInv, LockDiscipline, At, AtLock
<1> QED
  BY <1>1, LockInvariant, PTL

-----------------------------------------------------------------------------
(* The snapshots. *)

(* The steps that change rows of snapshots, what is on a file system or     *)
(* which calls have been given up.                                          *)
Marking(w) ==
  /\ At(w, "checked")
  /\ snapshots' = [snapshots EXCEPT ![JobOf(w).snap] = "deleted"]
  /\ UNCHANGED <<fs, forgotten>>

Touching(w) ==
  /\ At(w, "call")
  /\ FsBecomes(w, ExecutedBy(w)) \/ FsBecomes(w, InterruptedBy(w))
  /\ UNCHANGED <<snapshots, forgotten>>

Linking(w) ==
  /\ At(w, "switch")
  /\ FsBecomes(w, Links(JobOf(w).ws) \cup {fs[JobOf(w).ws]})
  /\ UNCHANGED <<snapshots, forgotten>>

GivingUp(w) ==
  /\ Calling(w)
  /\ forgotten' = forgotten \cup {workers[w].task}
  /\ UNCHANGED <<snapshots, fs>>

LEMMA DataStepKinds ==
  ASSUME [PlaneNext]_vars
  PROVE  \/ UNCHANGED <<snapshots, fs, forgotten>>
         \/ \E w \in Worker :
              Marking(w) \/ Touching(w) \/ Linking(w) \/ GivingUp(w) \/ PostWrite(w)
         \/ \E t \in TaskID : Outlive(t)
<1> DEFINE Kinds(w) == \/ UNCHANGED <<snapshots, fs, forgotten>>
                       \/ Marking(w) \/ Touching(w) \/ Linking(w) \/ GivingUp(w)
                       \/ PostWrite(w)
<1>1. ASSUME NEW w \in Worker, WorkStep(w) \/ WorkerFault(w) PROVE Kinds(w)
  <2>1. CASE \/ Take(w) \/ SkipCanceled(w) \/ BeginTx(w) \/ AcquireWorkspaceLock(w)
             \/ CommitEmpty(w) \/ CheckReferences(w) \/ CommitDeleted(w)
    BY <2>1 DEF Take, SkipCanceled, BeginTx, AcquireWorkspaceLock, CommitEmpty,
      CheckReferences, CommitDeleted, planeVars, Marking
  <2>2. CASE \/ Noop(w) \/ NotNoop(w) \/ FindCurrent(w)
             \/ PostWrite(w) \/ WriteSucceeded(w) \/ WriteFailed(w) \/ WriteInitFailed(w)
    BY <2>2 DEF Noop, NotNoop, FindCurrent, WriteSucceeded, WriteFailed, AfterFailTask,
      WriteInitFailed
  <2>3. CASE CallExecutor(w) \/ CloneSnapshot(w) \/ SwitchLink(w) \/ ExecutorFails(w)
    BY <2>3 DEF CallExecutor, CloneSnapshot, SwitchLink, ExecutorFails, FsBecomes,
      Touching, Linking
  <2>4. CASE \/ TxFails(w) \/ NoopUnread(w) \/ LosePost(w) \/ LoseStatus(w)
             \/ LoseInitFailed(w) \/ LoseTaken(w) \/ WorkerRestart(w)
    BY <2>4 DEF TxFails, ExecuteFail, NoopUnread, LosePost, LoseStatus, AfterFailTask,
      LoseInitFailed, LoseTaken, WorkerRestart, planeVars, Marking, At
  <2>5. CASE AnswerLost(w) \/ WorkerCrash(w)
    BY <2>5 DEF AnswerLost, WorkerCrash, GivingUp
  <2> QED
    BY <1>1, <2>1, <2>2, <2>3, <2>4, <2>5 DEF WorkStep, WorkerFault
<1>2. ASSUME NEW h \in Handler, Handle(h) \/ HandlerFails(h) \/ HandlerIgnores(h)
      PROVE  UNCHANGED <<snapshots, fs, forgotten>>
  BY <1>2, HandlerSteps DEF HandlerOnly, InsertJob
<1> QED
  BY <1>1, <1>2 DEF PlaneNext, Calm, planeVars, vars

Prematures == UNION {fs[ws].premature : ws \in Workspace}

(* In which workspaces something is. *)
LEMMA DirectoryParts ==
  /\ \A u : u \in Directories <=>
       \E ws \in Workspace : u \in fs[ws].cloned /\ u \in fs[ws].whole /\ u \in fs[ws].metas
  /\ \A u : u \in Prematures <=> \E ws \in Workspace : u \in fs[ws].premature
  /\ Loose = forgotten \cup Prematures
  BY DEF Directories, Prematures, Loose

(* At most s is changed. *)
OnlyOf(s) ==
  /\ Directories' = Directories \/ Directories' = Directories \cup {s}
       \/ Directories' = Directories \ {s}
  /\ Prematures' = Prematures \/ Prematures' = Prematures \cup {s}

(* A step on the directory of s in one workspace changes s and nothing else. *)
LEMMA OneDirectory ==
  ASSUME fs \in [Workspace -> FsState], NEW ws \in Workspace, NEW s \in TaskID,
         NEW gone \in BOOLEAN, NEW g, Touches(s, gone, fs[ws], g),
         fs' = [fs EXCEPT ![ws] = g]
  PROVE  OnlyOf(s)
<1>1. /\ g \in FsState /\ fs[ws] \in FsState
      /\ fs'[ws] = g /\ \A x \in Workspace \ {ws} : fs'[x] = fs[x]
  BY DEF Touches
<1>2. \A u : u # s => /\ u \in g.cloned <=> u \in fs[ws].cloned
                      /\ u \in g.whole <=> u \in fs[ws].whole
                      /\ u \in g.metas <=> u \in fs[ws].metas
                      /\ u \in g.premature <=> u \in fs[ws].premature
  BY <1>1 DEF Touches, Same, FsState
<1>3. \A u : u # s => /\ u \in Directories' <=> u \in Directories
                      /\ u \in Prematures' <=> u \in Prematures
  BY <1>1, <1>2 DEF Directories, Prematures
<1>4. s \in Prematures => s \in Prematures'
  BY <1>1, DirectoryParts DEF Touches, Prematures
<1> HIDE DEF Directories, Prematures
<1>5. Directories' = Directories \/ Directories' = Directories \cup {s}
        \/ Directories' = Directories \ {s}
  BY <1>3
<1>6. Prematures' = Prematures \/ Prematures' = Prematures \cup {s}
  BY <1>3, <1>4
<1> QED
  BY <1>5, <1>6 DEF OnlyOf

(* It is a step of SnapshotLifecycle if what it may complete is not listed   *)
(* yet or is loose.                                                         *)
LEMMA TouchIsStep ==
  ASSUME PlaneInv, UNCHANGED <<snapshots, forgotten>>, NEW ws \in Workspace,
         NEW s \in TaskID, NEW gone \in BOOLEAN, NEW g \in FsState,
         gone => snapshots[s] = "deleted",
         Touches(s, gone, fs[ws], g), fs' = [fs EXCEPT ![ws] = g],
         snapshots[s] = "absent" \/ s \in forgotten \/ Shrinks(fs[ws], g)
  PROVE  [Snapshots!SnapshotNext]_Snapshots!snapshotVars
<1>0. /\ fs \in [Workspace -> FsState] /\ fs[ws] \in FsState
      /\ fs'[ws] = g /\ \A x \in Workspace \ {ws} : fs'[x] = fs[x]
  BY DEF PlaneInv, PlaneTypeOK
<1>1. /\ Directories' = Directories \/ Directories' = Directories \cup {s}
           \/ Directories' = Directories \ {s}
      /\ Prematures' = Prematures \/ Prematures' = Prematures \cup {s}
  <2>1. OnlyOf(s)
    BY <1>0, OneDirectory
  <2> QED
    BY <2>1 DEF OnlyOf
<1>2. Loose = forgotten \cup Prematures /\ Loose' = forgotten \cup Prematures'
  BY DirectoryParts DEF Loose, Prematures
<1>3. CASE s \in Loose'
  <2>1. Loose' = Loose \cup {s}
    BY <1>1, <1>2, <1>3
  <2>2. Snapshots!LooseStep(s)
    BY <1>1, <2>1 DEF Snapshots!LooseStep
  <2> QED
    BY <2>2 DEF Snapshots!SnapshotNext
<1>4. CASE s \notin Loose'
  <2>1. Loose' = Loose /\ s \notin forgotten /\ s \notin Prematures'
    BY <1>1, <1>2, <1>4
  <2>2. CASE Directories' = Directories
    BY <2>1, <2>2 DEF Snapshots!snapshotVars
  <2>3. CASE s \notin Directories /\ Directories' = Directories \cup {s}
    <3>1. ~Shrinks(fs[ws], g)
      <4> SUFFICES ASSUME Shrinks(fs[ws], g) PROVE FALSE
        OBVIOUS
      <4>1. s \in Directories'
        BY <2>3
      <4>2. PICK x \in Workspace :
              s \in fs'[x].cloned /\ s \in fs'[x].whole /\ s \in fs'[x].metas
        BY <4>1 DEF Directories
      <4>3. s \in fs[x].cloned /\ s \in fs[x].whole /\ s \in fs[x].metas
        BY <1>0, <4>2 DEF Shrinks
      <4> QED
        BY <2>3, <4>3, DirectoryParts
    <3>2. Snapshots!Clone(s)
      BY <2>1, <2>3, <3>1 DEF Snapshots!Clone
    <3> QED
      BY <3>2 DEF Snapshots!SnapshotNext
  <2>4. CASE s \in Directories /\ s \notin Directories' /\ Directories' = Directories \ {s}
    <3>1. PICK x \in Workspace :
            s \in fs[x].cloned /\ s \in fs[x].whole /\ s \in fs[x].metas
      BY <2>4, DirectoryParts
    <3>2. ~(s \in fs'[x].cloned /\ s \in fs'[x].whole /\ s \in fs'[x].metas)
      BY <2>4 DEF Directories
    <3>3. s \notin fs'[x].premature
      BY <2>1 DEF Prematures
    <3>4. x = ws
      BY <1>0, <3>1, <3>2
    <3>5. Good(s, fs[ws]) /\ ~Good(s, g)
      BY <1>0, <3>1, <3>2, <3>3, <3>4 DEF Good
    <3>6. snapshots[s] = "deleted"
      BY <3>5 DEF Touches
    <3>7. Snapshots!Remove(s)
      BY <2>1, <2>4, <3>6 DEF Snapshots!Remove
    <3> QED
      BY <3>7 DEF Snapshots!SnapshotNext
  <2> QED
    BY <1>1, <2>2, <2>3, <2>4
<1> QED
  BY <1>3, <1>4

LEMMA MarkIsStep ==
  ASSUME PlaneInv, NEW w \in Worker, Marking(w)
  PROVE  [Snapshots!SnapshotNext]_Snapshots!snapshotVars
<1> DEFINE s == JobOf(w).snap
<1>1. workers[w].pc \in Busy /\ JobOf(w).op = "snapshot_drop"
  BY DEF Marking, PlaneInv, WorkerOK, At, Busy
<1>2. s \in TaskID /\ snapshots[s] # "absent"
  BY <1>1, BusyJob
<1>3. snapshots \in [TaskID -> {"absent", "present", "deleted"}]
  BY DEF PlaneInv, PlaneTypeOK
<1>4. UNCHANGED <<Directories, Loose>> /\ snapshots' = [snapshots EXCEPT ![s] = "deleted"]
  BY DEF Marking, Directories, Loose
<1>5. CASE snapshots[s] = "present"
  <2>1. Snapshots!MarkDeleted(s)
    BY <1>4, <1>5 DEF Snapshots!MarkDeleted
  <2> QED
    BY <1>2, <2>1 DEF Snapshots!SnapshotNext
<1>6. CASE snapshots[s] = "deleted"
  <2>1. snapshots' = snapshots
    BY <1>3, <1>4, <1>6
  <2> QED
    BY <1>4, <2>1 DEF Snapshots!snapshotVars
<1> QED
  BY <1>2, <1>3, <1>5, <1>6

LEMMA PostIsStep ==
  ASSUME PlaneInv, NEW w \in Worker, PostWrite(w)
  PROVE  [Snapshots!SnapshotNext]_Snapshots!snapshotVars
<1> DEFINE s == JobOf(w).snap
<1>0. workers[w].pc = "succeeded" /\ workers[w].pc \in Busy /\ stage[w] = "post"
  BY DEF PostWrite, Busy
<1>1. UNCHANGED <<Directories, Loose>>
  BY DEF PostWrite, Directories, Loose
<1>2. CASE UNCHANGED snapshots
  BY <1>1, <1>2 DEF Snapshots!snapshotVars
<1>3. CASE JobOf(w).op = "snapshot_create" /\ CreateSnapshotRow(s) /\ snapshots[s] = "absent"
  <2>1. /\ s \in TaskID /\ JobOf(w).ws \in Workspace
    BY <1>0, <1>3, BusyJob
  <2>2. Good(s, fs[JobOf(w).ws])
    BY <1>0, <1>3 DEF PlaneInv, WorkerOK
  <2>3. snapshots' = [snapshots EXCEPT ![s] = "present"]
    BY <1>3 DEF CreateSnapshotRow
  <2>4. CASE s \in Directories
    <3>1. Snapshots!List(s)
      BY <1>1, <1>3, <2>3, <2>4 DEF Snapshots!List
    <3> QED
      BY <2>1, <3>1 DEF Snapshots!SnapshotNext
  <2>5. CASE s \in Loose
    <3>1. Snapshots!LooseStep(s)
      BY <1>1, <1>3, <2>3, <2>5 DEF Snapshots!LooseStep, Snapshots!Later
    <3> QED
      BY <2>1, <3>1 DEF Snapshots!SnapshotNext
  <2> QED
    BY <2>1, <2>2, <2>4, <2>5, DirectoryParts DEF Good
<1>4. JobOf(w).op = "snapshot_create" /\ CreateSnapshotRow(s) /\ snapshots[s] # "absent"
        => UNCHANGED snapshots
  BY DEF CreateSnapshotRow
<1> QED
  BY <1>2, <1>3, <1>4 DEF PostWrite, RecordResult

(* A worker's call is that of a task whose snapshot is not listed. *)
LEMMA CallIsStep ==
  ASSUME PlaneInv, NEW w \in Worker, Touching(w)
  PROVE  [Snapshots!SnapshotNext]_Snapshots!snapshotVars
<1>1. workers[w].pc = "executing" /\ workers[w].pc \in Busy
      /\ UNCHANGED <<snapshots, forgotten>>
  BY DEF Touching, At, Busy
<1>2. /\ JobOf(w).ws \in Workspace
      /\ \E s \in TaskID, gone \in BOOLEAN, g \in FsState :
           /\ gone => snapshots[s] = "deleted"
           /\ Touches(s, gone, fs[JobOf(w).ws], g)
           /\ fs' = [fs EXCEPT ![JobOf(w).ws] = g]
           /\ s = workers[w].task \/ Shrinks(fs[JobOf(w).ws], g)
  BY CallIsTouch DEF Touching
<1>3. workers[w].task \in TaskID /\ snapshots[workers[w].task] = "absent"
  BY <1>1, BusyJob, NotRecreated
<1> QED
  <2> DEFINE ws == JobOf(w).ws
  <2>1. PICK s \in TaskID, gone \in BOOLEAN, g \in FsState :
          /\ gone => snapshots[s] = "deleted"
          /\ Touches(s, gone, fs[ws], g)
          /\ fs' = [fs EXCEPT ![ws] = g]
          /\ s = workers[w].task \/ Shrinks(fs[ws], g)
    BY <1>2
  <2>2. snapshots[s] = "absent" \/ s \in forgotten \/ Shrinks(fs[ws], g)
    BY <1>3, <2>1
  <2>3. ws \in Workspace
    BY <1>2
  <2> HIDE DEF ws
  <2> QED
    BY <1>1, <2>1, <2>2, <2>3, TouchIsStep

(* Where a link points is no part of it. *)
LEMMA LinkIsStep ==
  ASSUME PlaneInv, UNCHANGED <<snapshots, forgotten>>, NEW ws \in Workspace,
         NEW g \in Links(ws) \cup {fs[ws]}, fs' = [fs EXCEPT ![ws] = g]
  PROVE  UNCHANGED Snapshots!snapshotVars
<1>1. fs \in [Workspace -> FsState] /\ fs[ws] \in FsState
  BY DEF PlaneInv, PlaneTypeOK
<1>2. /\ g.cloned = fs[ws].cloned /\ g.whole = fs[ws].whole
      /\ g.metas = fs[ws].metas /\ g.premature = fs[ws].premature
  BY <1>1 DEF Links, FsState
<1>3. \A x \in Workspace :
        /\ fs'[x].cloned = fs[x].cloned /\ fs'[x].whole = fs[x].whole
        /\ fs'[x].metas = fs[x].metas /\ fs'[x].premature = fs[x].premature
  BY <1>1, <1>2
<1>4. \A u : (u \in Directories' <=> u \in Directories) /\ (u \in Loose' <=> u \in Loose)
  BY <1>3 DEF Directories, Loose
<1>5. Directories' = Directories /\ Loose' = Loose
  BY <1>4
<1> QED
  BY <1>5 DEF Snapshots!snapshotVars

LEMMA OutliveIsStep ==
  ASSUME PlaneInv, NEW t \in TaskID, Outlive(t)
  PROVE  [Snapshots!SnapshotNext]_Snapshots!snapshotVars
<1> DEFINE ws == jobs[t].ws
<1>1. UNCHANGED <<snapshots, forgotten>> /\ t \in forgotten /\ ws \in Workspace
  BY OutliveIsTouch DEF Outlive
<1>2. ASSUME NEW g \in Links(ws), fs' = [fs EXCEPT ![ws] = g]
      PROVE  UNCHANGED Snapshots!snapshotVars
  BY <1>1, <1>2, LinkIsStep
<1>3. ASSUME NEW s \in TaskID, NEW gone \in BOOLEAN, NEW g \in FsState,
             gone => snapshots[s] = "deleted",
             Touches(s, gone, fs[ws], g), fs' = [fs EXCEPT ![ws] = g],
             s = t \/ Shrinks(fs[ws], g)
      PROVE  [Snapshots!SnapshotNext]_Snapshots!snapshotVars
  BY <1>1, <1>3, TouchIsStep
<1> QED
  BY <1>2, <1>3, OutliveIsTouch

LEMMA GivingUpIsStep ==
  ASSUME PlaneInv, NEW w \in Worker, GivingUp(w)
  PROVE  [Snapshots!SnapshotNext]_Snapshots!snapshotVars
<1> DEFINE t == workers[w].task
<1>1. t \in TaskID
  BY BusyJob DEF GivingUp, Calling, At, Busy
<1>2. UNCHANGED <<snapshots, Directories>> /\ Loose' = Loose \cup {t}
  BY DEF GivingUp, Directories, Loose
<1>3. Snapshots!LooseStep(t)
  BY <1>2 DEF Snapshots!LooseStep
<1> QED
  BY <1>1, <1>3 DEF Snapshots!SnapshotNext

(* Every step is one of SnapshotLifecycle, or none. *)
LEMMA SnapshotStep ==
  ASSUME PlaneInv, [PlaneNext]_vars
  PROVE  [Snapshots!SnapshotNext]_Snapshots!snapshotVars
<1>1. UNCHANGED <<snapshots, fs, forgotten>> => UNCHANGED Snapshots!snapshotVars
  BY DEF Snapshots!snapshotVars, Directories, Loose
<1>2. ASSUME NEW w \in Worker, Linking(w) PROVE UNCHANGED Snapshots!snapshotVars
  <2>1. JobOf(w).ws \in Workspace
    BY <1>2, BusyJob DEF Linking, At, Busy
  <2> QED
    BY <1>2, <2>1, LinkIsStep DEF Linking, FsBecomes
<1> QED
  BY <1>1, <1>2, DataStepKinds, MarkIsStep, CallIsStep, PostIsStep, GivingUpIsStep,
     OutliveIsStep

(* Rows and directories of snapshots live the life that SnapshotLifecycle   *)
(* promises, whatever fails, is retried or runs at the same time.  A        *)
(* snapshot comes loose only when a call of its own task is given up or its *)
(* metadata come early, and the others' are not touched by it.              *)
THEOREM PlaneImplementsSnapshots == PlaneSpec => ImplementsSnapshots
<1>1. PlaneInit => Snapshots!SnapshotInit
  <2> SUFFICES ASSUME PlaneInit PROVE Snapshots!SnapshotInit
    OBVIOUS
  <2>1. /\ forgotten = {}
        /\ \A ws \in Workspace : fs[ws].cloned = {} /\ fs[ws].premature = {}
    BY DEF PlaneInit, NewFs
  <2>2. (\A u : u \notin Directories) /\ (\A u : u \notin Loose)
    BY <2>1 DEF Directories, Loose
  <2>3. Directories = {} /\ Loose = {}
    BY <2>2
  <2>4. snapshots = [s \in TaskID |-> IF s \in {} THEN "present" ELSE "absent"]
    BY DEF PlaneInit
  <2> QED
    BY <2>3, <2>4 DEF Snapshots!SnapshotInit
<1>2. PlaneInv /\ [PlaneNext]_vars => [Snapshots!SnapshotNext]_Snapshots!snapshotVars
  BY SnapshotStep
<1> QED
  BY <1>1, <1>2, PlaneInvariant, PTL
  DEF PlaneSpec, ImplementsSnapshots, Snapshots!SnapshotSpec

(* What a snapshot task that SUCCEEDED has made stays until a drop has       *)
(* marked the row: a call that was given up and goes on, a retry and a      *)
(* concurrent task leave it alone, whatever is lost.                        *)
THEOREM CreatedIsKept == PlaneSpec => []SucceededCreateIsThere
<1>1. PlaneInv => SucceededCreateIsThere
  BY DEF PlaneInv
<1> QED
  BY <1>1, PlaneInvariant, PTL

-----------------------------------------------------------------------------
(* What the engine promises of every task holds of the service's. *)

(* Without faults the service takes no step that the engine's faults allow. *)
LEMMA CalmIsFaultFree ==
  ASSUME [Calm]_vars PROVE [FaultFreeNext]_engineVars
<1>1. ASSUME NEW h \in Handler, Handle(h) PROVE [FaultFreeNext]_engineVars
  <2>1. CASE InsertJob(h)
    BY <2>1 DEF InsertJob, FaultFreeNext
  <2>2. CASE ~InsertJob(h)
    BY <1>1, <2>2, HandlerSteps DEF HandlerOnly
  <2> QED
    BY <2>1, <2>2
<1>2. ASSUME NEW w \in Worker, WorkStep(w) PROVE Work(w) \/ UNCHANGED engineVars
  <2>1. CASE Take(w) \/ SkipCanceled(w) \/ BeginTx(w) \/ AcquireWorkspaceLock(w)
             \/ CommitEmpty(w) \/ CheckReferences(w) \/ CommitDeleted(w)
    BY <2>1 DEF Take, SkipCanceled, BeginTx, AcquireWorkspaceLock, CommitEmpty,
      CheckReferences, CommitDeleted, Work
  <2>2. CASE Noop(w) \/ NotNoop(w) \/ CallExecutor(w) \/ ExecutorFails(w)
             \/ FindCurrent(w) \/ CloneSnapshot(w) \/ SwitchLink(w)
             \/ PostWrite(w) \/ WriteSucceeded(w) \/ WriteFailed(w) \/ WriteInitFailed(w)
    BY <2>2 DEF Noop, NotNoop, CallExecutor, ExecutorFails, FindCurrent, CloneSnapshot,
      SwitchLink, PostWrite, WriteSucceeded, WriteFailed, WriteInitFailed, Work
  <2> QED
    BY <1>2, <2>1, <2>2 DEF WorkStep
<1>3. CASE UNCHANGED vars
  BY <1>3 DEF vars
<1> QED
  BY <1>1, <1>2, <1>3 DEF Calm, FaultFreeNext

(* While nothing fails no task of the service is left lying.                *)
THEOREM ServiceForgetsNobody == CalmSpec => []NothingIsStranded
<1>1. PlaneInit => EngineInit
  BY DEF PlaneInit
<1>2. [Calm]_vars => [FaultFreeNext]_engineVars
  BY CalmIsFaultFree
<1> QED
  BY <1>1, <1>2, NobodyIsForgotten, PTL DEF CalmSpec

(* And with every fault, what is left to be done for a task only decreases. *)
THEOREM ServiceStepsCount == PlaneSpec => EveryStepCounts
  BY PlaneIsEngine, EveryStepIsProgress, PTL
=============================================================================
