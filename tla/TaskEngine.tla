----------------------------- MODULE TaskEngine ------------------------------
(***************************************************************************)
(* The task queue in PostgreSQL, the worker processes that drain it         *)
(* (internal/worker) and the cancellation handler of the API                *)
(* (internal/api/task_handler.go).  Every statement on the table is one     *)
(* step; between two statements anything else may happen.  What a task does *)
(* when it is executed is left to ControlPlane: here it succeeds or fails.  *)
(***************************************************************************)
EXTENDS Store

CONSTANTS
  Worker,      \* worker processes; SKIP LOCKED allows several
  Canceller    \* concurrent invocations of API.CancelTask, each used once

VARIABLES
  tasks,       \* wvs.tasks
  workers,     \* per worker: where Run is, and its copy of the dequeued row
  cancels      \* per invocation: where CancelTask is, what it read, its reply

engineVars == <<tasks, workers, cancels>>

Pc   == {"idle", "dequeued", "executing", "succeeded", "failed", "down"}
Busy == {"dequeued", "executing", "succeeded", "failed"}
Running == {"executing", "succeeded", "failed"}

IdleWorker == [pc |-> "idle", task |-> NoTask, attempt |-> 0, cancel |-> FALSE]
NewCancel  == [pc |-> "new", task |-> NoTask, seen |-> Absent,
               attempt |-> 0, reply |-> "none"]

WorkerState == [ pc : Pc, task : TaskID \cup {NoTask},
                 attempt : Nat, cancel : BOOLEAN ]
CancelReply == {"none", "terminal", "canceled", "requested", "error"}
CancelState == [ pc : {"new", "read", "done"}, task : TaskID \cup {NoTask},
                 seen : Status \cup {Absent}, attempt : Nat,
                 reply : CancelReply ]

TypeOK ==
  /\ tasks   \in Table
  /\ workers \in [Worker -> WorkerState]
  /\ cancels \in [Canceller -> CancelState]

EngineInit ==
  /\ tasks   = [t \in TaskID |-> NoRow]
  /\ workers = [w \in Worker |-> IdleWorker]
  /\ cancels = [c \in Canceller |-> NewCancel]

-----------------------------------------------------------------------------
(* The rows appear and become due. *)

(* A handler inserts the next row. *)
CreateTask(t) ==
  /\ ~Exists(tasks[t])
  /\ \A u \in TaskID : u < t => Exists(tasks[u])
  /\ tasks' = InsertTask(tasks, t)
  /\ UNCHANGED <<workers, cancels>>

(* Time passes next_run_at. *)
BackoffElapsed(t) ==
  /\ tasks[t].status = "FAILED" /\ ~tasks[t].due
  /\ tasks' = [tasks EXCEPT ![t].due = TRUE]
  /\ UNCHANGED <<workers, cancels>>

-----------------------------------------------------------------------------
(* The worker: Run, executeWithLock and dispatch, one task at a time. *)

Leave(w) == workers' = [workers EXCEPT ![w] = IdleWorker]
Goto(w, p) == workers' = [workers EXCEPT ![w].pc = p]

(* DequeueTask; the worker goes on with the row the statement returned. *)
Dequeue(w) ==
  /\ workers[w].pc = "idle"
  /\ \E t \in TaskID :
       /\ IsNext(tasks, t)
       /\ tasks' = DequeueTask(tasks, t)
       /\ workers' = [workers EXCEPT ![w] =
            [pc |-> "dequeued", task |-> t, attempt |-> tasks[t].attempt + 1,
             cancel |-> tasks[t].cancel_requested]]
  /\ UNCHANGED cancels

(* Mutants: a cancelled task is skipped without a word; nobody looks. *)
CancelObservedSilently(w) ==
  /\ workers[w].pc = "dequeued" /\ workers[w].cancel
  /\ Leave(w)
  /\ UNCHANGED <<tasks, cancels>>
BeginAnyway(w) ==
  /\ workers[w].pc = "dequeued"
  /\ Goto(w, "executing")
  /\ UNCHANGED <<tasks, cancels>>

(* The only place a worker looks at cancel_requested: in its copy. *)
CancelObserved(w) ==
  /\ workers[w].pc = "dequeued" /\ workers[w].cancel
  /\ tasks' = CompleteTask(tasks, workers[w].task, "CANCELED")
  /\ Leave(w)
  /\ UNCHANGED cancels

Begin(w) ==
  /\ workers[w].pc = "dequeued" /\ ~workers[w].cancel
  /\ Goto(w, "executing")
  /\ UNCHANGED <<tasks, cancels>>

ExecuteOk(w) ==
  /\ workers[w].pc = "executing"
  /\ Goto(w, "succeeded")
  /\ UNCHANGED <<tasks, cancels>>

(* The lock transaction, the executor call or the executor's reply failed. *)
ExecuteFail(w) ==
  /\ workers[w].pc = "executing"
  /\ Goto(w, "failed")
  /\ UNCHANGED <<tasks, cancels>>

(* The last statement of onSuccess. *)
Complete(w) ==
  /\ workers[w].pc = "succeeded"
  /\ tasks' = CompleteTask(tasks, workers[w].task, "SUCCEEDED")
  /\ Leave(w)
  /\ UNCHANGED cancels

(* Mutants: off by one, either way. *)
LastAttemptLate(w)  == workers[w].attempt > MaxAttempts
LastAttemptEarly(w) == workers[w].attempt + 1 >= MaxAttempts

(* failTask decides by the attempt in the worker's copy. *)
LastAttempt(w) == workers[w].attempt >= MaxAttempts

Fail(w) ==
  /\ workers[w].pc = "failed" /\ ~LastAttempt(w)
  /\ tasks' = FailTask(tasks, workers[w].task)
  /\ Leave(w)
  /\ UNCHANGED cancels

Dead(w) ==
  /\ workers[w].pc = "failed" /\ LastAttempt(w)
  /\ tasks' = MarkTaskDead(tasks, workers[w].task)
  /\ Leave(w)
  /\ UNCHANGED cancels

-----------------------------------------------------------------------------
(* API.CancelTask: GetTask, then the statement the status it read calls for. *)

CancelRead(c, t) ==
  /\ cancels[c].pc = "new"
  /\ Exists(tasks[t])
  /\ cancels' = [cancels EXCEPT ![c] =
       [pc    |-> IF IsTerminal(tasks[t]) THEN "done" ELSE "read",
        task  |-> t, seen |-> tasks[t].status, attempt |-> 0,
        reply |-> IF IsTerminal(tasks[t]) THEN "terminal" ELSE "none"]]
  /\ UNCHANGED <<tasks, workers>>

Reply(c, a, rep) ==
  cancels' = [cancels EXCEPT ![c].pc = "done", ![c].attempt = a, ![c].reply = rep]

CancelPending(c) ==
  LET t == cancels[c].task IN
  /\ cancels[c].pc = "read" /\ cancels[c].seen = "PENDING"
  /\ CancelPendingMatches(tasks[t])
  /\ tasks' = CancelPendingTask(tasks, t)
  /\ Reply(c, tasks[t].attempt, "canceled")
  /\ UNCHANGED workers

(* RUNNING, but also FAILED: whatever is neither terminal nor PENDING.  The *)
(* attempt is that of the row the statement returns.                        *)
RequestCancel(c) ==
  LET t == cancels[c].task IN
  /\ cancels[c].pc = "read" /\ cancels[c].seen # "PENDING"
  /\ RequestCancelMatches(tasks[t])
  /\ tasks' = RequestCancelRunningTask(tasks, t)
  /\ Reply(c, tasks[t].attempt, "requested")
  /\ UNCHANGED workers

(* The statement matches no row because the task has moved on: 500. *)
CancelMissed(c) ==
  LET t == cancels[c].task IN
  /\ cancels[c].pc = "read"
  /\ IF cancels[c].seen = "PENDING" THEN ~CancelPendingMatches(tasks[t])
                                    ELSE ~RequestCancelMatches(tasks[t])
  /\ Reply(c, 0, "error")
  /\ UNCHANGED <<tasks, workers>>

-----------------------------------------------------------------------------
(* Faults. *)

AboutToWrite(w) ==
  \/ workers[w].pc \in {"succeeded", "failed"}
  \/ workers[w].pc = "dequeued" /\ workers[w].cancel

(* The status write fails; its error is discarded (`_ = w.queries...').  A  *)
(* worker whose context SIGTERM has cancelled does this too, then stops.    *)
LoseWrite(w) ==
  /\ AboutToWrite(w)
  /\ Leave(w)
  /\ UNCHANGED <<tasks, cancels>>

(* The dequeue commits but its answer is lost: taken for an empty queue. *)
LoseDequeued(w) ==
  /\ workers[w].pc = "idle"
  /\ \E t \in TaskID : IsNext(tasks, t) /\ tasks' = DequeueTask(tasks, t)
  /\ UNCHANGED <<workers, cancels>>

(* A cancellation statement fails, or commits and its answer is lost: 500. *)
LoseCancel(c) ==
  LET t == cancels[c].task IN
  /\ cancels[c].pc = "read"
  /\ \/ UNCHANGED tasks
     \/ /\ cancels[c].seen = "PENDING" /\ CancelPendingMatches(tasks[t])
        /\ tasks' = CancelPendingTask(tasks, t)
     \/ /\ cancels[c].seen # "PENDING" /\ RequestCancelMatches(tasks[t])
        /\ tasks' = RequestCancelRunningTask(tasks, t)
  /\ Reply(c, 0, "error")
  /\ UNCHANGED workers

Crash(w) ==
  /\ workers[w].pc # "down"
  /\ workers' = [workers EXCEPT ![w] = [IdleWorker EXCEPT !.pc = "down"]]
  /\ UNCHANGED <<tasks, cancels>>

Restart(w) ==
  /\ workers[w].pc = "down"
  /\ Leave(w)
  /\ UNCHANGED <<tasks, cancels>>

-----------------------------------------------------------------------------
Work(w) ==
  \/ Dequeue(w) \/ CancelObserved(w) \/ Begin(w)
  \/ ExecuteOk(w) \/ ExecuteFail(w)
  \/ Complete(w) \/ Fail(w) \/ Dead(w)

Cancel(c) ==
  \/ \E t \in TaskID : CancelRead(c, t)
  \/ CancelPending(c) \/ RequestCancel(c) \/ CancelMissed(c)

Fault(w) == LoseWrite(w) \/ LoseDequeued(w) \/ Crash(w)

FaultFreeNext ==
  \/ \E t \in TaskID : CreateTask(t) \/ BackoffElapsed(t)
  \/ \E w \in Worker : Work(w)
  \/ \E c \in Canceller : Cancel(c)

EngineNext ==
  \/ FaultFreeNext
  \/ \E w \in Worker : Fault(w) \/ Restart(w)
  \/ \E c \in Canceller : LoseCancel(c)

EngineSpec == EngineInit /\ [][EngineNext]_engineVars

(* Every worker keeps running, every call it makes returns, and time keeps  *)
(* passing.  No row has to be inserted and no cancellation has to be made.  *)
Fairness ==
  /\ \A w \in Worker : WF_engineVars(Work(w))
  /\ \A t \in TaskID : WF_engineVars(BackoffElapsed(t))

(* No statement is lost and no process dies. *)
FaultFreeFairSpec == EngineInit /\ [][FaultFreeNext]_engineVars /\ Fairness

-----------------------------------------------------------------------------
(* Safety. *)

(* A task is in the hands of at most one worker, and while it is the row    *)
(* says RUNNING, the attempt the worker copied, and the cancellation it     *)
(* copied: the unconditional updates of CompleteTask, FailTask and          *)
(* MarkTaskDead therefore never overwrite what somebody else wrote.         *)
SingleOwner ==
  \A w \in Worker : workers[w].pc \in Busy =>
    LET t == workers[w].task IN
    /\ t \in TaskID
    /\ tasks[t].status = "RUNNING"
    /\ tasks[t].attempt = workers[w].attempt
    /\ workers[w].cancel => tasks[t].cancel_requested
    /\ \A v \in Worker : workers[v].pc \in Busy /\ workers[v].task = t => v = w

(* A FAILED row can always be dequeued again and a DEAD one has used every  *)
(* attempt: failTask's decision, taken on the worker's copy, agrees with    *)
(* the guard of DequeueTask, so that no row waits in FAILED for ever.       *)
AttemptBudget ==
  \A t \in TaskID :
    /\ tasks[t].status = "FAILED" => tasks[t].attempt < MaxAttempts
    /\ tasks[t].status = "DEAD"   => tasks[t].attempt = MaxAttempts

(* What CancelTask answered with 200 stays true: a task reported terminal   *)
(* keeps that status, and one reported CANCELED never ran and never will.   *)
RepliesHold ==
  \A c \in Canceller : LET t == cancels[c].task IN
    /\ cancels[c].reply = "terminal" => tasks[t].status = cancels[c].seen
    /\ cancels[c].reply = "canceled" =>
         tasks[t].status = "CANCELED" /\ tasks[t].attempt = 0

(* Once CancelTask has answered "cancel requested", no further attempt is   *)
(* executed: a worker that executes the task executes the attempt that was  *)
(* running when the flag was set.                                           *)
CancelStopsRetries ==
  \A c \in Canceller, w \in Worker :
    /\ cancels[c].reply = "requested"
    /\ workers[w].pc \in Running
    /\ workers[w].task = cancels[c].task
    => workers[w].attempt = cancels[c].attempt

(* A SUCCEEDED, CANCELED or DEAD row is never changed again by anybody. *)
TerminalIsFinal ==
  [][\A t \in TaskID : IsTerminal(tasks[t]) => tasks'[t] = tasks[t]]_engineVars

(* How much can still happen to a task: the attempts it has left, four more *)
(* steps at most in the one that runs, the flag once, the end of a backoff. *)
Held(t, p)  == \E w \in Worker : workers[w].pc = p /\ workers[w].task = t
Holds(w, t) == workers[w].pc \in Busy /\ workers[w].task = t
StepsOfAttempt(t) ==
  IF Held(t, "dequeued") THEN 4
  ELSE IF Held(t, "executing") THEN 3
  ELSE IF Held(t, "succeeded") \/ Held(t, "failed") THEN 2
  ELSE IF tasks[t].status = "FAILED" /\ ~tasks[t].due THEN 1 ELSE 0
StepsLeft(t) ==
  IF IsTerminal(tasks[t]) THEN 0
  ELSE 5 * (MaxAttempts - tasks[t].attempt) + StepsOfAttempt(t)
         + (IF tasks[t].cancel_requested THEN 0 ELSE 1)

(* Nothing goes on for ever: every step on a task, its worker's, a          *)
(* cancellation, a lost write or a crash, leaves less to be done, so that   *)
(* no order of failures and retries makes the engine work on a task without *)
(* end, and no backoff, dequeue or flag comes round once more.              *)
EveryStepCounts ==
  [][\A t \in TaskID : Exists(tasks[t]) =>
       \/ /\ tasks'[t] = tasks[t]
          /\ \A w \in Worker : Holds(w, t) \/ Holds(w, t)'
                                => workers'[w] = workers[w]
       \/ StepsLeft(t)' \in Nat /\ StepsLeft(t)' < StepsLeft(t)]_engineVars

(* Without faults no task is left lying: one that has not ended can be      *)
(* dequeued, or will be due once its backoff is over, or a worker has it.   *)
NothingIsStranded ==
  \A t \in TaskID : tasks[t].status \in Active =>
    \/ Dequeueable(tasks[t])
    \/ tasks[t].status = "FAILED" /\ Dequeueable([tasks[t] EXCEPT !.due = TRUE])
    \/ \E w \in Worker : Holds(w, t)

(* The engine implements the promised life cycle. *)
Lifecycle == INSTANCE TaskLifecycle WITH
  life <- [t \in TaskID |-> [status |-> tasks[t].status, attempt |-> tasks[t].attempt]]

(* Every step of the engine is a step of the promised life cycle, or none. *)
ImplementsLifecycle == Lifecycle!LSpec

(* Without faults a task that was inserted ends, whatever is ahead of it,   *)
(* and the promise's own fairness is kept.                                  *)
EveryTaskEnds ==
  \A t \in TaskID : Exists(tasks[t]) ~> IsTerminal(tasks[t])
ImplementsFairLifecycle == Lifecycle!LFairSpec
=============================================================================
