-------------------------- MODULE TaskEngineProofs ---------------------------
(***************************************************************************)
(* Proofs about TaskEngine for every number of tasks, attempts, workers and *)
(* cancellations, every fault included.                                     *)
(*                                                                          *)
(* IInv strengthens the safety invariants until they are inductive.  What   *)
(* it adds to them: rows that never ran have attempt 0 and no cancellation, *)
(* a running row has an attempt within the budget, a worker that executes   *)
(* has not seen a cancellation, and an acknowledged cancellation is in the  *)
(* row, and in the copy of any worker that dequeued the row after it.       *)
(***************************************************************************)
EXTENDS TaskEngine, TLAPS

RowsOK ==
  \A t \in TaskID :
    /\ tasks[t].status \in {Absent, "PENDING"} =>
         tasks[t].attempt = 0 /\ ~tasks[t].cancel_requested
    /\ tasks[t].status = "RUNNING" => tasks[t].attempt \in 1..MaxAttempts

ExecutorsUncancelled ==
  \A w \in Worker : workers[w].pc \in Running => ~workers[w].cancel

CancelsOK ==
  \A c \in Canceller : LET t == cancels[c].task IN
    /\ cancels[c].pc # "new" => t \in TaskID
    /\ cancels[c].reply # "none" => cancels[c].pc = "done"
    /\ cancels[c].reply = "terminal" => cancels[c].seen \in Terminal
    /\ cancels[c].reply = "requested" =>
         /\ tasks[t].cancel_requested
         /\ \A w \in Worker :
              /\ workers[w].pc \in Busy
              /\ workers[w].task = t
              /\ ~workers[w].cancel
              => workers[w].attempt = cancels[c].attempt

IInv == /\ TypeOK /\ SingleOwner /\ AttemptBudget /\ RepliesHold
        /\ RowsOK /\ ExecutorsUncancelled /\ CancelsOK

USE NTasksAssumption, MaxAttemptsAssumption

-----------------------------------------------------------------------------
(* What each statement on wvs.tasks does to the columns of the row it names. *)
(* Every other row stays as it is.                                           *)
LEMMA InsertTaskRow ==
  ASSUME NEW tab \in Table, NEW t \in TaskID
  PROVE  LET new == InsertTask(tab, t) IN
         /\ new \in Table
         /\ \A u \in TaskID \ {t} : new[u] = tab[u]
         /\ new[t].status = "PENDING"
         /\ new[t].attempt = 0
         /\ new[t].cancel_requested = FALSE
  BY DEF Table, TaskRow, InsertTask, NewRow, NoRow, Status, Active

LEMMA DequeueTaskRow ==
  ASSUME NEW tab \in Table, NEW t \in TaskID
  PROVE  LET new == DequeueTask(tab, t) IN
         /\ new \in Table
         /\ \A u \in TaskID \ {t} : new[u] = tab[u]
         /\ new[t].status = "RUNNING"
         /\ new[t].attempt = tab[t].attempt + 1
         /\ new[t].cancel_requested = tab[t].cancel_requested
<1>1. tab[t] \in TaskRow /\ tab[t].attempt + 1 \in Nat
  BY DEF Table, TaskRow
<1> DEFINE r == [tab[t] EXCEPT !.status = "RUNNING",
                               !.attempt = tab[t].attempt + 1]
<1>2. r \in TaskRow
  BY <1>1 DEF TaskRow, Status, Active
<1>3. /\ r.status = "RUNNING"
      /\ r.attempt = tab[t].attempt + 1
      /\ r.cancel_requested = tab[t].cancel_requested
  BY <1>1 DEF TaskRow
<1>4. DequeueTask(tab, t) = [tab EXCEPT ![t] = r]
  BY <1>1 DEF DequeueTask, Table, TaskRow
<1> HIDE DEF r
<1> QED
  BY <1>2, <1>3, <1>4 DEF Table

LEMMA CompleteTaskRow ==
  ASSUME NEW tab \in Table, NEW t \in TaskID, NEW s \in Status
  PROVE  LET new == CompleteTask(tab, t, s) IN
         /\ new \in Table
         /\ \A u \in TaskID \ {t} : new[u] = tab[u]
         /\ new[t].status = s
         /\ new[t].attempt = tab[t].attempt
         /\ new[t].cancel_requested = tab[t].cancel_requested
  BY DEF Table, TaskRow, CompleteTask

LEMMA FailTaskRow ==
  ASSUME NEW tab \in Table, NEW t \in TaskID
  PROVE  LET new == FailTask(tab, t) IN
         /\ new \in Table
         /\ \A u \in TaskID \ {t} : new[u] = tab[u]
         /\ new[t].status = "FAILED"
         /\ new[t].attempt = tab[t].attempt
         /\ new[t].cancel_requested = tab[t].cancel_requested
  BY DEF Table, TaskRow, FailTask, Status, Active

LEMMA MarkTaskDeadRow ==
  ASSUME NEW tab \in Table, NEW t \in TaskID
  PROVE  LET new == MarkTaskDead(tab, t) IN
         /\ new \in Table
         /\ \A u \in TaskID \ {t} : new[u] = tab[u]
         /\ new[t].status = "DEAD"
         /\ new[t].attempt = tab[t].attempt
         /\ new[t].cancel_requested = tab[t].cancel_requested
  BY DEF Table, TaskRow, MarkTaskDead, Status, Terminal

LEMMA CancelPendingTaskRow ==
  ASSUME NEW tab \in Table, NEW t \in TaskID
  PROVE  LET new == CancelPendingTask(tab, t) IN
         /\ new \in Table
         /\ \A u \in TaskID \ {t} : new[u] = tab[u]
         /\ new[t].status = "CANCELED"
         /\ new[t].attempt = tab[t].attempt
         /\ new[t].cancel_requested = tab[t].cancel_requested
  BY DEF Table, TaskRow, CancelPendingTask, Status, Terminal

LEMMA RequestCancelRunningTaskRow ==
  ASSUME NEW tab \in Table, NEW t \in TaskID
  PROVE  LET new == RequestCancelRunningTask(tab, t) IN
         /\ new \in Table
         /\ \A u \in TaskID \ {t} : new[u] = tab[u]
         /\ new[t].status = tab[t].status
         /\ new[t].attempt = tab[t].attempt
         /\ new[t].cancel_requested = TRUE
  BY DEF Table, TaskRow, RequestCancelRunningTask

(* A worker that moves on keeps its copy of the row; one that leaves drops it. *)
LEMMA WorkerGoto ==
  ASSUME NEW w \in Worker, NEW p \in Pc, workers \in [Worker -> WorkerState],
         Goto(w, p)
  PROVE  /\ workers' \in [Worker -> WorkerState]
         /\ \A v \in Worker \ {w} : workers'[v] = workers[v]
         /\ workers'[w].pc = p
         /\ workers'[w].task = workers[w].task
         /\ workers'[w].attempt = workers[w].attempt
         /\ workers'[w].cancel = workers[w].cancel
  BY DEF Goto, WorkerState

LEMMA WorkerLeave ==
  ASSUME NEW w \in Worker, workers \in [Worker -> WorkerState], Leave(w)
  PROVE  /\ workers' \in [Worker -> WorkerState]
         /\ \A v \in Worker \ {w} : workers'[v] = workers[v]
         /\ workers'[w].pc = "idle"
  BY DEF Leave, IdleWorker, WorkerState, Pc

(* A reply ends the invocation and leaves what it read alone. *)
LEMMA ReplyState ==
  ASSUME NEW c \in Canceller, NEW a \in Nat, NEW rep \in CancelReply,
         cancels \in [Canceller -> CancelState], Reply(c, a, rep)
  PROVE  /\ cancels' \in [Canceller -> CancelState]
         /\ \A d \in Canceller \ {c} : cancels'[d] = cancels[d]
         /\ cancels'[c].pc = "done"
         /\ cancels'[c].task = cancels[c].task
         /\ cancels'[c].seen = cancels[c].seen
         /\ cancels'[c].attempt = a
         /\ cancels'[c].reply = rep
  BY DEF Reply, CancelState

-----------------------------------------------------------------------------
(* Steps of the same shape preserve IInv for the same reason. *)

(* The attempt of a busy worker ends: its row gets a final status, or FAILED *)
(* when an attempt is left, and the worker lets go of it.                    *)
LEMMA FinishStep ==
  ASSUME IInv, NEW w \in Worker, workers[w].pc \in Busy,
         NEW s \in Terminal \cup {"FAILED"},
         s = "FAILED" => workers[w].attempt < MaxAttempts,
         s = "DEAD"   => workers[w].attempt >= MaxAttempts,
         tasks' \in Table,
         \A u \in TaskID \ {workers[w].task} : tasks'[u] = tasks[u],
         tasks'[workers[w].task].status = s,
         tasks'[workers[w].task].attempt = tasks[workers[w].task].attempt,
         tasks'[workers[w].task].cancel_requested
           = tasks[workers[w].task].cancel_requested,
         Leave(w), UNCHANGED cancels
  PROVE  IInv'
<1> DEFINE t == workers[w].task
<1>1. /\ workers' \in [Worker -> WorkerState]
      /\ \A v \in Worker \ {w} : workers'[v] = workers[v]
      /\ workers'[w].pc = "idle"
  BY WorkerLeave DEF IInv, TypeOK
<1>2. /\ t \in TaskID
      /\ tasks[t].status = "RUNNING"
      /\ tasks[t].attempt = workers[w].attempt
      /\ tasks[t].attempt \in 1..MaxAttempts
      /\ \A v \in Worker : workers[v].pc \in Busy /\ workers[v].task = t => v = w
  BY DEF IInv, SingleOwner, RowsOK
<1>3. TypeOK'
  BY <1>1 DEF IInv, TypeOK
<1>4. SingleOwner'
  BY <1>1, <1>2 DEF IInv, SingleOwner, Busy
<1>5. AttemptBudget' /\ RowsOK'
  BY <1>2 DEF IInv, AttemptBudget, RowsOK, Terminal, Absent
<1>6. RepliesHold'
  BY <1>2 DEF IInv, RepliesHold, CancelsOK, Terminal
<1>7. ExecutorsUncancelled'
  BY <1>1 DEF IInv, ExecutorsUncancelled, Running
<1>8. CancelsOK'
  BY <1>1, <1>2 DEF IInv, CancelsOK, Busy
<1> QED
  BY <1>3, <1>4, <1>5, <1>6, <1>7, <1>8 DEF IInv

(* A worker lets go of its task without touching the row, or moves between  *)
(* idle and down.                                                           *)
LEMMA ReleaseStep ==
  ASSUME IInv, NEW w \in Worker, workers' \in [Worker -> WorkerState],
         \A v \in Worker \ {w} : workers'[v] = workers[v],
         workers'[w].pc \in {"idle", "down"},
         UNCHANGED <<tasks, cancels>>
  PROVE  IInv'
<1>1. TypeOK'
  BY DEF IInv, TypeOK
<1>2. SingleOwner'
  BY DEF IInv, SingleOwner, Busy
<1>3. AttemptBudget' /\ RowsOK' /\ RepliesHold'
  BY DEF IInv, AttemptBudget, RowsOK, RepliesHold
<1>4. ExecutorsUncancelled'
  BY DEF IInv, ExecutorsUncancelled, Running
<1>5. CancelsOK'
  BY DEF IInv, CancelsOK, Busy
<1> QED
  BY <1>1, <1>2, <1>3, <1>4, <1>5 DEF IInv

(* A worker goes on with an attempt whose copy shows no cancellation. *)
LEMMA ProceedStep ==
  ASSUME IInv, NEW w \in Worker, workers[w].pc \in Busy, ~workers[w].cancel,
         NEW p \in Running, Goto(w, p), UNCHANGED <<tasks, cancels>>
  PROVE  IInv'
<1>1. /\ workers' \in [Worker -> WorkerState]
      /\ \A v \in Worker \ {w} : workers'[v] = workers[v]
      /\ workers'[w].pc = p
      /\ workers'[w].task = workers[w].task
      /\ workers'[w].attempt = workers[w].attempt
      /\ workers'[w].cancel = workers[w].cancel
  BY WorkerGoto DEF IInv, TypeOK, Running, Pc
<1>2. p \in Busy
  BY DEF Running, Busy
<1>3. TypeOK'
  BY <1>1 DEF IInv, TypeOK
<1>4. SingleOwner'
  BY <1>1, <1>2 DEF IInv, SingleOwner
<1>5. AttemptBudget' /\ RowsOK' /\ RepliesHold'
  BY DEF IInv, AttemptBudget, RowsOK, RepliesHold
<1>6. ExecutorsUncancelled'
  BY <1>1 DEF IInv, ExecutorsUncancelled
<1>7. CancelsOK'
  BY <1>1, <1>2 DEF IInv, CancelsOK
<1> QED
  BY <1>3, <1>4, <1>5, <1>6, <1>7 DEF IInv

(* The next attempt starts: no worker holds the row, and whoever gets it    *)
(* gets its cancellation flag with it.                                      *)
LEMMA DequeueRowFacts ==
  ASSUME IInv, NEW t \in TaskID, Dequeueable(tasks[t]),
         tasks' = DequeueTask(tasks, t)
  PROVE  /\ tasks' \in Table
         /\ \A u \in TaskID \ {t} : tasks'[u] = tasks[u]
         /\ tasks'[t].status = "RUNNING"
         /\ tasks'[t].attempt = tasks[t].attempt + 1
         /\ tasks'[t].attempt \in 1..MaxAttempts
         /\ tasks'[t].cancel_requested = tasks[t].cancel_requested
         /\ \A v \in Worker : workers[v].pc \in Busy => workers[v].task # t
         /\ AttemptBudget' /\ RowsOK'
         /\ \A c \in Canceller : cancels[c].reply \in {"terminal", "canceled"} =>
               cancels[c].task # t
<1>1. /\ tasks' \in Table
      /\ \A u \in TaskID \ {t} : tasks'[u] = tasks[u]
      /\ tasks'[t].status = "RUNNING"
      /\ tasks'[t].attempt = tasks[t].attempt + 1
      /\ tasks'[t].cancel_requested = tasks[t].cancel_requested
  BY DequeueTaskRow DEF IInv, TypeOK
<1>2. tasks[t].attempt \in Nat
  BY DEF IInv, TypeOK, Table, TaskRow
<1>3. tasks[t].status \in {"PENDING", "FAILED"} /\ tasks[t].attempt < MaxAttempts
  BY DEF Dequeueable
<1>4. tasks'[t].attempt \in 1..MaxAttempts
  BY <1>1, <1>2, <1>3
<1>5. \A v \in Worker : workers[v].pc \in Busy => workers[v].task # t
  BY <1>3 DEF IInv, SingleOwner
<1>6. AttemptBudget' /\ RowsOK'
  BY <1>1, <1>4 DEF IInv, AttemptBudget, RowsOK, Absent
<1>7. \A c \in Canceller : cancels[c].reply \in {"terminal", "canceled"} =>
        cancels[c].task # t
  BY <1>3 DEF IInv, RepliesHold, CancelsOK, Terminal
<1> QED
  BY <1>1, <1>4, <1>5, <1>6, <1>7

-----------------------------------------------------------------------------
LEMMA InitInv == EngineInit => IInv
<1> SUFFICES ASSUME EngineInit PROVE IInv
  OBVIOUS
<1>1. TypeOK
  BY DEF EngineInit, TypeOK, Table, TaskRow, NoRow, WorkerState, IdleWorker, Pc,
         CancelState, NewCancel, CancelReply, Status
<1> QED
  BY <1>1 DEF EngineInit, IInv, SingleOwner, AttemptBudget, RepliesHold, RowsOK,
              ExecutorsUncancelled, CancelsOK, NoRow, IdleWorker, NewCancel,
              Absent, Busy, Running

LEMMA CreateStep ==
  ASSUME IInv, NEW t \in TaskID, CreateTask(t) PROVE IInv'
<1>1. /\ tasks' \in Table
      /\ \A u \in TaskID \ {t} : tasks'[u] = tasks[u]
      /\ tasks'[t].status = "PENDING"
      /\ tasks'[t].attempt = 0
      /\ tasks'[t].cancel_requested = FALSE
      /\ UNCHANGED <<workers, cancels>>
  BY InsertTaskRow DEF CreateTask, IInv, TypeOK
<1>2. tasks[t].status = Absent /\ ~tasks[t].cancel_requested
  BY DEF CreateTask, Exists, IInv, RowsOK
<1>3. \A v \in Worker : workers[v].pc \in Busy => workers[v].task # t
  BY <1>2 DEF IInv, SingleOwner, Absent
<1>4. TypeOK'
  BY <1>1 DEF IInv, TypeOK
<1>5. SingleOwner' /\ ExecutorsUncancelled'
  BY <1>1, <1>3 DEF IInv, SingleOwner, ExecutorsUncancelled
<1>6. AttemptBudget' /\ RowsOK'
  BY <1>1 DEF IInv, AttemptBudget, RowsOK, Absent
<1>7. RepliesHold'
  BY <1>1, <1>2 DEF IInv, RepliesHold, CancelsOK, Terminal, Absent
<1>8. CancelsOK'
  BY <1>1, <1>2 DEF IInv, CancelsOK
<1> QED
  BY <1>4, <1>5, <1>6, <1>7, <1>8 DEF IInv

LEMMA BackoffStep ==
  ASSUME IInv, NEW t \in TaskID, BackoffElapsed(t) PROVE IInv'
<1>0. /\ tasks' \in Table
      /\ \A u \in TaskID \ {t} : tasks'[u] = tasks[u]
      /\ tasks'[t].status = tasks[t].status
      /\ tasks'[t].attempt = tasks[t].attempt
      /\ tasks'[t].cancel_requested = tasks[t].cancel_requested
      /\ UNCHANGED <<workers, cancels>>
  BY DEF BackoffElapsed, IInv, TypeOK, Table, TaskRow
<1>1. /\ tasks' \in Table
      /\ \A u \in TaskID : /\ tasks'[u].status = tasks[u].status
                           /\ tasks'[u].attempt = tasks[u].attempt
                           /\ tasks'[u].cancel_requested = tasks[u].cancel_requested
      /\ UNCHANGED <<workers, cancels>>
  BY <1>0
<1>2. TypeOK'
  BY <1>1 DEF IInv, TypeOK
<1>3. SingleOwner' /\ ExecutorsUncancelled'
  BY <1>1 DEF IInv, SingleOwner, ExecutorsUncancelled
<1>4. AttemptBudget' /\ RowsOK'
  BY <1>1 DEF IInv, AttemptBudget, RowsOK
<1>5. RepliesHold' /\ CancelsOK'
  BY <1>1 DEF IInv, RepliesHold, CancelsOK
<1> QED
  BY <1>2, <1>3, <1>4, <1>5 DEF IInv

(* The worker gets the row with its new attempt and its flag. *)
LEMMA DequeueStep ==
  ASSUME IInv, NEW w \in Worker, Dequeue(w) PROVE IInv'
<1>1. PICK t \in TaskID :
        /\ Dequeueable(tasks[t])
        /\ tasks' = DequeueTask(tasks, t)
        /\ workers' = [workers EXCEPT ![w] =
             [pc |-> "dequeued", task |-> t, attempt |-> tasks[t].attempt + 1,
              cancel |-> tasks[t].cancel_requested]]
  BY DEF Dequeue, IsNext
<1>2. /\ tasks' \in Table
      /\ \A u \in TaskID \ {t} : tasks'[u] = tasks[u]
      /\ tasks'[t].status = "RUNNING"
      /\ tasks'[t].attempt = tasks[t].attempt + 1
      /\ tasks'[t].cancel_requested = tasks[t].cancel_requested
      /\ \A v \in Worker : workers[v].pc \in Busy => workers[v].task # t
      /\ AttemptBudget' /\ RowsOK'
      /\ \A c \in Canceller : cancels[c].reply \in {"terminal", "canceled"} =>
            cancels[c].task # t
  BY <1>1, DequeueRowFacts
<1>3. tasks[t] \in TaskRow
  BY DEF IInv, TypeOK, Table
<1>4. [pc |-> "dequeued", task |-> t, attempt |-> tasks[t].attempt + 1,
       cancel |-> tasks[t].cancel_requested] \in WorkerState
  BY <1>3 DEF WorkerState, TaskRow, Pc
<1>5. /\ workers' \in [Worker -> WorkerState]
      /\ \A v \in Worker \ {w} : workers'[v] = workers[v]
      /\ workers'[w].pc = "dequeued"
      /\ workers'[w].task = t
      /\ workers'[w].attempt = tasks[t].attempt + 1
      /\ workers'[w].cancel = tasks[t].cancel_requested
  BY <1>1, <1>4 DEF IInv, TypeOK
<1>6. UNCHANGED cancels
  BY DEF Dequeue
<1>7. TypeOK'
  BY <1>2, <1>5, <1>6 DEF IInv, TypeOK
<1>8. SingleOwner'
  BY <1>2, <1>5 DEF IInv, SingleOwner
<1>9. ExecutorsUncancelled'
  BY <1>5 DEF IInv, ExecutorsUncancelled, Running
<1>10. RepliesHold'
  BY <1>2, <1>6 DEF IInv, RepliesHold, CancelsOK
<1>11. CancelsOK'
  BY <1>2, <1>5, <1>6 DEF IInv, CancelsOK
<1> QED
  BY <1>2, <1>7, <1>8, <1>9, <1>10, <1>11 DEF IInv

(* The row is RUNNING and nobody works on it. *)
LEMMA LoseDequeuedStep ==
  ASSUME IInv, NEW w \in Worker, LoseDequeued(w) PROVE IInv'
<1>1. PICK t \in TaskID : Dequeueable(tasks[t]) /\ tasks' = DequeueTask(tasks, t)
  BY DEF LoseDequeued, IsNext
<1>2. /\ tasks' \in Table
      /\ \A u \in TaskID \ {t} : tasks'[u] = tasks[u]
      /\ tasks'[t].cancel_requested = tasks[t].cancel_requested
      /\ \A v \in Worker : workers[v].pc \in Busy => workers[v].task # t
      /\ AttemptBudget' /\ RowsOK'
      /\ \A c \in Canceller : cancels[c].reply \in {"terminal", "canceled"} =>
            cancels[c].task # t
  BY <1>1, DequeueRowFacts
<1>3. UNCHANGED <<workers, cancels>>
  BY DEF LoseDequeued
<1>4. TypeOK'
  BY <1>2, <1>3 DEF IInv, TypeOK
<1>5. SingleOwner' /\ ExecutorsUncancelled'
  BY <1>2, <1>3 DEF IInv, SingleOwner, ExecutorsUncancelled
<1>6. RepliesHold' /\ CancelsOK'
  BY <1>2, <1>3 DEF IInv, RepliesHold, CancelsOK
<1> QED
  BY <1>2, <1>4, <1>5, <1>6 DEF IInv

(* GetTask: what a terminal reply says is what the row says. *)
LEMMA CancelReadStep ==
  ASSUME IInv, NEW c \in Canceller, NEW t \in TaskID, CancelRead(c, t) PROVE IInv'
<1> DEFINE new == [pc    |-> IF IsTerminal(tasks[t]) THEN "done" ELSE "read",
                   task  |-> t, seen |-> tasks[t].status, attempt |-> 0,
                   reply |-> IF IsTerminal(tasks[t]) THEN "terminal" ELSE "none"]
<1>1. tasks[t] \in TaskRow
  BY DEF IInv, TypeOK, Table
<1>2. new \in CancelState
  BY <1>1 DEF CancelState, TaskRow, CancelReply
<1>3. /\ cancels' = [cancels EXCEPT ![c] = new]
      /\ UNCHANGED <<tasks, workers>>
  BY DEF CancelRead
<1>4. /\ cancels' \in [Canceller -> CancelState]
      /\ \A d \in Canceller \ {c} : cancels'[d] = cancels[d]
      /\ cancels'[c] = new
  BY <1>2, <1>3 DEF IInv, TypeOK
<1>5. TypeOK'
  BY <1>3, <1>4 DEF IInv, TypeOK
<1>6. SingleOwner' /\ ExecutorsUncancelled' /\ AttemptBudget' /\ RowsOK'
  BY <1>3 DEF IInv, SingleOwner, ExecutorsUncancelled, AttemptBudget, RowsOK
<1>7. RepliesHold'
  BY <1>3, <1>4 DEF IInv, RepliesHold
<1>8. CancelsOK'
  BY <1>3, <1>4 DEF IInv, CancelsOK, IsTerminal
<1> QED
  BY <1>5, <1>6, <1>7, <1>8 DEF IInv

(* The outright cancellation of a row that is still PENDING. *)
LEMMA CancelPendingStep ==
  ASSUME IInv, NEW c \in Canceller, NEW rep \in {"canceled", "error"}, NEW a \in Nat,
         cancels[c].pc = "read", CancelPendingMatches(tasks[cancels[c].task]),
         tasks' = CancelPendingTask(tasks, cancels[c].task),
         Reply(c, a, rep), UNCHANGED workers
  PROVE  IInv'
<1> DEFINE t == cancels[c].task
<1>1. /\ t \in TaskID
      /\ tasks[t].status = "PENDING"
      /\ tasks[t].attempt = 0 /\ ~tasks[t].cancel_requested
  BY DEF IInv, CancelsOK, RowsOK, CancelPendingMatches
<1>2. /\ tasks' \in Table
      /\ \A u \in TaskID \ {t} : tasks'[u] = tasks[u]
      /\ tasks'[t].status = "CANCELED"
      /\ tasks'[t].attempt = 0
      /\ tasks'[t].cancel_requested = tasks[t].cancel_requested
  BY <1>1, CancelPendingTaskRow DEF IInv, TypeOK
<1>3. /\ cancels' \in [Canceller -> CancelState]
      /\ \A d \in Canceller \ {c} : cancels'[d] = cancels[d]
      /\ cancels'[c].pc = "done"
      /\ cancels'[c].task = t
      /\ cancels'[c].reply = rep
  BY ReplyState DEF IInv, TypeOK, CancelReply
<1>4. \A v \in Worker : workers[v].pc \in Busy => workers[v].task # t
  BY <1>1 DEF IInv, SingleOwner
<1>5. TypeOK'
  BY <1>2, <1>3 DEF IInv, TypeOK
<1>6. SingleOwner' /\ ExecutorsUncancelled'
  BY <1>2, <1>4 DEF IInv, SingleOwner, ExecutorsUncancelled
<1>7. AttemptBudget' /\ RowsOK'
  BY <1>2 DEF IInv, AttemptBudget, RowsOK, Absent
<1>8. RepliesHold'
  BY <1>1, <1>2, <1>3 DEF IInv, RepliesHold, CancelsOK, Terminal
<1>9. CancelsOK'
  BY <1>1, <1>2, <1>3 DEF IInv, CancelsOK
<1> QED
  BY <1>5, <1>6, <1>7, <1>8, <1>9 DEF IInv

(* The flag goes into a RUNNING row: a worker that holds it holds the       *)
(* attempt the statement returns.                                           *)
LEMMA RequestCancelStep ==
  ASSUME IInv, NEW c \in Canceller, NEW rep \in {"requested", "error"}, NEW a \in Nat,
         rep = "requested" => a = tasks[cancels[c].task].attempt,
         cancels[c].pc = "read", RequestCancelMatches(tasks[cancels[c].task]),
         tasks' = RequestCancelRunningTask(tasks, cancels[c].task),
         Reply(c, a, rep), UNCHANGED workers
  PROVE  IInv'
<1> DEFINE t == cancels[c].task
<1>1. t \in TaskID /\ tasks[t].status = "RUNNING"
  BY DEF IInv, CancelsOK, RequestCancelMatches
<1>2. /\ tasks' \in Table
      /\ \A u \in TaskID \ {t} : tasks'[u] = tasks[u]
      /\ tasks'[t].status = tasks[t].status
      /\ tasks'[t].attempt = tasks[t].attempt
      /\ tasks'[t].cancel_requested = TRUE
  BY <1>1, RequestCancelRunningTaskRow DEF IInv, TypeOK
<1>3. /\ cancels' \in [Canceller -> CancelState]
      /\ \A d \in Canceller \ {c} : cancels'[d] = cancels[d]
      /\ cancels'[c].pc = "done"
      /\ cancels'[c].task = t
      /\ cancels'[c].attempt = a
      /\ cancels'[c].reply = rep
  BY ReplyState DEF IInv, TypeOK, CancelReply
<1>4. \A v \in Worker : workers[v].pc \in Busy /\ workers[v].task = t =>
                        workers[v].attempt = tasks[t].attempt
  BY DEF IInv, SingleOwner
<1>5. TypeOK'
  BY <1>2, <1>3 DEF IInv, TypeOK
<1>6. SingleOwner' /\ ExecutorsUncancelled'
  BY <1>2 DEF IInv, SingleOwner, ExecutorsUncancelled
<1>7. AttemptBudget' /\ RowsOK'
  BY <1>1, <1>2 DEF IInv, AttemptBudget, RowsOK, Absent
<1>8. RepliesHold'
  BY <1>2, <1>3 DEF IInv, RepliesHold, CancelsOK
<1>9. CancelsOK'
  BY <1>1, <1>2, <1>3, <1>4 DEF IInv, CancelsOK
<1> QED
  BY <1>5, <1>6, <1>7, <1>8, <1>9 DEF IInv

(* A 500 that left the table alone. *)
LEMMA CancelErrorStep ==
  ASSUME IInv, NEW c \in Canceller, cancels[c].pc = "read", Reply(c, 0, "error"),
         UNCHANGED <<tasks, workers>>
  PROVE  IInv'
<1>1. /\ cancels' \in [Canceller -> CancelState]
      /\ \A d \in Canceller \ {c} : cancels'[d] = cancels[d]
      /\ cancels'[c].pc = "done"
      /\ cancels'[c].task = cancels[c].task
      /\ cancels'[c].reply = "error"
  BY ReplyState DEF IInv, TypeOK, CancelReply
<1>2. TypeOK'
  BY <1>1 DEF IInv, TypeOK
<1>3. SingleOwner' /\ ExecutorsUncancelled' /\ AttemptBudget' /\ RowsOK'
  BY DEF IInv, SingleOwner, ExecutorsUncancelled, AttemptBudget, RowsOK
<1>4. RepliesHold' /\ CancelsOK'
  BY <1>1 DEF IInv, RepliesHold, CancelsOK
<1> QED
  BY <1>2, <1>3, <1>4 DEF IInv

-----------------------------------------------------------------------------
LEMMA InductiveStep == ASSUME IInv, [EngineNext]_engineVars PROVE IInv'
<1>1. ASSUME NEW t \in TaskID, CreateTask(t) PROVE IInv'
  BY <1>1, CreateStep
<1>2. ASSUME NEW t \in TaskID, BackoffElapsed(t) PROVE IInv'
  BY <1>2, BackoffStep
<1>3. ASSUME NEW w \in Worker, Dequeue(w) PROVE IInv'
  BY <1>3, DequeueStep
<1>4. ASSUME NEW w \in Worker, CancelObserved(w) \/ Complete(w) PROVE IInv'
  <2>1. workers[w].pc \in Busy /\ workers[w].task \in TaskID
    BY <1>4 DEF CancelObserved, Complete, Busy, IInv, SingleOwner
  <2>2. PICK s \in {"CANCELED", "SUCCEEDED"} :
          tasks' = CompleteTask(tasks, workers[w].task, s)
    BY <1>4 DEF CancelObserved, Complete
  <2>3. Leave(w) /\ UNCHANGED cancels
    BY <1>4 DEF CancelObserved, Complete
  <2>4. s \in Terminal /\ s \in Status
    BY DEF Terminal, Status
  <2> QED
    BY <2>1, <2>2, <2>3, <2>4, CompleteTaskRow, FinishStep DEF IInv, TypeOK
<1>5. ASSUME NEW w \in Worker, Fail(w) PROVE IInv'
  <2>1. workers[w].pc \in Busy /\ workers[w].task \in TaskID
    BY <1>5 DEF Fail, Busy, IInv, SingleOwner
  <2>2. workers[w].attempt < MaxAttempts
    BY <1>5 DEF Fail, LastAttempt, IInv, TypeOK, WorkerState
  <2> QED
    BY <1>5, <2>1, <2>2, FailTaskRow, FinishStep DEF Fail, IInv, TypeOK
<1>6. ASSUME NEW w \in Worker, Dead(w) PROVE IInv'
  <2>1. workers[w].pc \in Busy /\ workers[w].task \in TaskID
    BY <1>6 DEF Dead, Busy, IInv, SingleOwner
  <2>2. workers[w].attempt >= MaxAttempts
    BY <1>6 DEF Dead, LastAttempt
  <2> QED
    BY <1>6, <2>1, <2>2, MarkTaskDeadRow, FinishStep DEF Dead, IInv, TypeOK, Terminal
<1>7. ASSUME NEW w \in Worker, Begin(w) \/ ExecuteOk(w) \/ ExecuteFail(w)
      PROVE IInv'
  <2>1. workers[w].pc \in Busy /\ ~workers[w].cancel
    BY <1>7 DEF Begin, ExecuteOk, ExecuteFail, Busy, Running, IInv,
                ExecutorsUncancelled
  <2>2. \E p \in Running : Goto(w, p)
    BY <1>7 DEF Begin, ExecuteOk, ExecuteFail, Running
  <2>3. UNCHANGED <<tasks, cancels>>
    BY <1>7 DEF Begin, ExecuteOk, ExecuteFail
  <2> QED
    BY <2>1, <2>2, <2>3, ProceedStep
<1>8. ASSUME NEW w \in Worker, LoseWrite(w) \/ Restart(w) PROVE IInv'
  <2>1. Leave(w) /\ UNCHANGED <<tasks, cancels>>
    BY <1>8 DEF LoseWrite, Restart
  <2> QED
    BY <2>1, WorkerLeave, ReleaseStep DEF IInv, TypeOK
<1>9. ASSUME NEW w \in Worker, Crash(w) PROVE IInv'
  <2>1. /\ workers' \in [Worker -> WorkerState]
        /\ \A v \in Worker \ {w} : workers'[v] = workers[v]
        /\ workers'[w].pc = "down"
    BY <1>9 DEF Crash, IdleWorker, IInv, TypeOK, WorkerState, Pc
  <2> QED
    BY <1>9, <2>1, ReleaseStep DEF Crash
<1>10. ASSUME NEW w \in Worker, LoseDequeued(w) PROVE IInv'
  BY <1>10, LoseDequeuedStep
<1>11. ASSUME NEW c \in Canceller, NEW t \in TaskID, CancelRead(c, t) PROVE IInv'
  BY <1>11, CancelReadStep
<1>12. ASSUME NEW c \in Canceller,
              CancelPending(c) \/ RequestCancel(c) \/ CancelMissed(c) \/ LoseCancel(c)
       PROVE IInv'
  <2>1. cancels[c].pc = "read" /\ cancels[c].task \in TaskID
    BY <1>12 DEF CancelPending, RequestCancel, CancelMissed, LoseCancel,
                 IInv, CancelsOK
  <2>2. tasks[cancels[c].task].attempt \in Nat
    BY <2>1 DEF IInv, TypeOK, Table, TaskRow
  <2>3. CASE CancelPending(c)
    BY <2>1, <2>2, <2>3, CancelPendingStep DEF CancelPending
  <2>4. CASE RequestCancel(c)
    BY <2>1, <2>2, <2>4, RequestCancelStep DEF RequestCancel
  <2>5. CASE CancelMissed(c)
    BY <2>1, <2>5, CancelErrorStep DEF CancelMissed
  <2>6. CASE LoseCancel(c)
    <3>1. Reply(c, 0, "error") /\ UNCHANGED workers
      BY <2>6 DEF LoseCancel
    <3>2. CASE UNCHANGED tasks
      BY <2>1, <3>1, <3>2, CancelErrorStep
    <3>3. CASE /\ CancelPendingMatches(tasks[cancels[c].task])
               /\ tasks' = CancelPendingTask(tasks, cancels[c].task)
      BY <2>1, <3>1, <3>3, CancelPendingStep
    <3>4. CASE /\ RequestCancelMatches(tasks[cancels[c].task])
               /\ tasks' = RequestCancelRunningTask(tasks, cancels[c].task)
      BY <2>1, <3>1, <3>4, RequestCancelStep
    <3> QED
      BY <2>6, <3>2, <3>3, <3>4 DEF LoseCancel
  <2> QED
    BY <1>12, <2>3, <2>4, <2>5, <2>6
<1>13. CASE UNCHANGED engineVars
  BY <1>13 DEF engineVars, IInv, TypeOK, SingleOwner, AttemptBudget, RepliesHold,
               RowsOK, ExecutorsUncancelled, CancelsOK
<1> QED
  BY <1>1, <1>2, <1>3, <1>4, <1>5, <1>6, <1>7, <1>8, <1>9, <1>10, <1>11, <1>12,
     <1>13
  DEF EngineNext, FaultFreeNext, Work, Cancel, Fault

THEOREM Inductive == EngineSpec => []IInv
  BY InitInv, InductiveStep, PTL DEF EngineSpec

(* Columns and local copies only ever hold what the schema allows. *)
THEOREM TypeCorrect == EngineSpec => []TypeOK
<1>1. IInv => TypeOK
  BY DEF IInv
<1> QED
  BY <1>1, Inductive, PTL

(* SKIP LOCKED and the status guard of the dequeue give a task to one worker *)
(* at a time, so the unconditional updates at the end overwrite nobody.      *)
THEOREM OneOwner == EngineSpec => []SingleOwner
<1>1. IInv => SingleOwner
  BY DEF IInv
<1> QED
  BY <1>1, Inductive, PTL

(* No row is left FAILED with no attempt to retry it, or DEAD with one. *)
THEOREM Budget == EngineSpec => []AttemptBudget
<1>1. IInv => AttemptBudget
  BY DEF IInv
<1> QED
  BY <1>1, Inductive, PTL

(* What CancelTask answers with 200 stays true. *)
THEOREM RepliesStayTrue == EngineSpec => []RepliesHold
<1>1. IInv => RepliesHold
  BY DEF IInv
<1> QED
  BY <1>1, Inductive, PTL

(* After an acknowledged request to cancel there is no further attempt. *)
THEOREM NoRetryAfterCancel == EngineSpec => []CancelStopsRetries
<1>1. IInv => CancelStopsRetries
  <2> SUFFICES ASSUME IInv, NEW c \in Canceller, NEW w \in Worker,
                      cancels[c].reply = "requested",
                      workers[w].pc \in Running,
                      workers[w].task = cancels[c].task
               PROVE  workers[w].attempt = cancels[c].attempt
    BY DEF CancelStopsRetries
  <2>1. workers[w].pc \in Busy /\ ~workers[w].cancel
    BY DEF IInv, ExecutorsUncancelled, Running, Busy
  <2> QED
    BY <2>1 DEF IInv, CancelsOK
<1> QED
  BY <1>1, Inductive, PTL

-----------------------------------------------------------------------------
(* What one step can do to the rows, as the life cycle sees it. *)

SameLife(u) ==
  /\ tasks'[u].status = tasks[u].status
  /\ tasks'[u].attempt = tasks[u].attempt
  /\ IsTerminal(tasks[u]) => tasks'[u] = tasks[u]

Created(t) == tasks[t].status = Absent /\ tasks'[t].status = "PENDING"
              /\ tasks'[t].attempt = tasks[t].attempt

Started(t) ==
  /\ tasks[t].status \in {"PENDING", "FAILED"} /\ tasks[t].attempt < MaxAttempts
  /\ tasks'[t].status = "RUNNING" /\ tasks'[t].attempt = tasks[t].attempt + 1

Finished(t) ==
  /\ tasks[t].status = "RUNNING"
  /\ tasks'[t].status \in Terminal \cup {"FAILED"}
  /\ tasks'[t].status = "FAILED" => tasks[t].attempt < MaxAttempts
  /\ tasks'[t].status = "DEAD"   => tasks[t].attempt = MaxAttempts
  /\ tasks'[t].attempt = tasks[t].attempt

CanceledNew(t) ==
  /\ tasks[t].status = "PENDING" /\ tasks[t].attempt = 0
  /\ tasks'[t].status = "CANCELED" /\ tasks'[t].attempt = tasks[t].attempt

OneRow(t) ==
  /\ \A u \in TaskID \ {t} : tasks'[u] = tasks[u]
  /\ Created(t) \/ Started(t) \/ Finished(t) \/ CanceledNew(t)

RowStep == \/ \A u \in TaskID : SameLife(u)
           \/ \E t \in TaskID : OneRow(t)

LEMMA EveryStepIsARowStep == ASSUME IInv, [EngineNext]_engineVars PROVE RowStep
<1>1. CASE UNCHANGED tasks
  BY <1>1 DEF RowStep, SameLife
<1>2. ASSUME NEW t \in TaskID, CreateTask(t) PROVE RowStep
  <2>1. tasks[t].status = Absent /\ tasks[t].attempt = 0
    BY <1>2 DEF CreateTask, Exists, IInv, RowsOK
  <2> QED
    BY <1>2, <2>1, InsertTaskRow
    DEF CreateTask, RowStep, OneRow, Created, IInv, TypeOK
<1>3. ASSUME NEW t \in TaskID, BackoffElapsed(t) PROVE RowStep
  <2>1. /\ \A u \in TaskID \ {t} : tasks'[u] = tasks[u]
        /\ tasks'[t].status = tasks[t].status
        /\ tasks'[t].attempt = tasks[t].attempt
        /\ ~IsTerminal(tasks[t])
    BY <1>3 DEF BackoffElapsed, IInv, TypeOK, Table, TaskRow, IsTerminal, Terminal
  <2>2. \A u \in TaskID : SameLife(u)
    BY <2>1 DEF SameLife
  <2> QED
    BY <2>2 DEF RowStep
<1>4. ASSUME NEW w \in Worker, Dequeue(w) \/ LoseDequeued(w) PROVE RowStep
  <2>1. PICK t \in TaskID : Dequeueable(tasks[t]) /\ tasks' = DequeueTask(tasks, t)
    BY <1>4 DEF Dequeue, LoseDequeued, IsNext
  <2>2. OneRow(t)
    BY <2>1, DequeueTaskRow DEF Dequeueable, OneRow, Started, IInv, TypeOK
  <2> QED
    BY <2>2 DEF RowStep
<1>5. ASSUME NEW w \in Worker,
             CancelObserved(w) \/ Complete(w) \/ Fail(w) \/ Dead(w)
      PROVE  RowStep
  <2> DEFINE t == workers[w].task
  <2>1. workers[w].pc \in Busy
    BY <1>5 DEF CancelObserved, Complete, Fail, Dead, Busy
  <2>2. /\ t \in TaskID
        /\ tasks[t].status = "RUNNING"
        /\ tasks[t].attempt = workers[w].attempt
        /\ tasks[t].attempt \in 1..MaxAttempts
        /\ tasks \in Table
    BY <2>1 DEF IInv, SingleOwner, RowsOK, TypeOK
  <2>3. ASSUME CancelObserved(w) PROVE OneRow(t)
    BY <2>2, <2>3, CompleteTaskRow
    DEF CancelObserved, OneRow, Finished, Terminal, Status
  <2>4. ASSUME Complete(w) PROVE OneRow(t)
    BY <2>2, <2>4, CompleteTaskRow DEF Complete, OneRow, Finished, Terminal, Status
  <2>5. ASSUME Fail(w) PROVE OneRow(t)
    BY <2>2, <2>5, FailTaskRow DEF Fail, LastAttempt, OneRow, Finished
  <2>6. ASSUME Dead(w) PROVE OneRow(t)
    BY <2>2, <2>6, MarkTaskDeadRow DEF Dead, LastAttempt, OneRow, Finished, Terminal
  <2> QED
    BY <1>5, <2>2, <2>3, <2>4, <2>5, <2>6 DEF RowStep
<1>6. ASSUME NEW c \in Canceller, CancelPending(c) \/ RequestCancel(c) \/ LoseCancel(c)
      PROVE  RowStep
  <2> DEFINE t == cancels[c].task
  <2>1. t \in TaskID /\ tasks \in Table
    BY <1>6 DEF CancelPending, RequestCancel, LoseCancel, IInv, CancelsOK, TypeOK
  <2>2. CASE CancelPendingMatches(tasks[t]) /\ tasks' = CancelPendingTask(tasks, t)
    <3>1. tasks[t].status = "PENDING" /\ tasks[t].attempt = 0
      BY <2>1, <2>2 DEF CancelPendingMatches, IInv, RowsOK
    <3>2. OneRow(t)
      BY <2>1, <2>2, <3>1, CancelPendingTaskRow DEF OneRow, CanceledNew
    <3> QED
      BY <2>1, <3>2 DEF RowStep
  <2>3. CASE RequestCancelMatches(tasks[t]) /\ tasks' = RequestCancelRunningTask(tasks, t)
    <3>1. /\ \A u \in TaskID \ {t} : tasks'[u] = tasks[u]
          /\ tasks'[t].status = tasks[t].status
          /\ tasks'[t].attempt = tasks[t].attempt
      BY <2>1, <2>3, RequestCancelRunningTaskRow
    <3>2. ~IsTerminal(tasks[t])
      BY <2>3 DEF RequestCancelMatches, IsTerminal, Terminal
    <3>3. \A u \in TaskID : SameLife(u)
      BY <3>1, <3>2 DEF SameLife
    <3> QED
      BY <3>3 DEF RowStep
  <2> QED
    BY <1>1, <1>6, <2>2, <2>3 DEF CancelPending, RequestCancel, LoseCancel
<1>7. ASSUME NEW w \in Worker,
             \/ Begin(w) \/ ExecuteOk(w) \/ ExecuteFail(w)
             \/ LoseWrite(w) \/ Crash(w) \/ Restart(w)
      PROVE  UNCHANGED tasks
  BY <1>7 DEF Begin, ExecuteOk, ExecuteFail, LoseWrite, Crash, Restart
<1>8. ASSUME NEW c \in Canceller,
             CancelMissed(c) \/ \E t \in TaskID : CancelRead(c, t)
      PROVE  UNCHANGED tasks
  BY <1>8 DEF CancelMissed, CancelRead
<1>9. CASE UNCHANGED engineVars
  BY <1>1, <1>9 DEF engineVars
<1> QED
  BY <1>1, <1>2, <1>3, <1>4, <1>5, <1>6, <1>7, <1>8, <1>9
  DEF EngineNext, FaultFreeNext, Work, Cancel, Fault

(* No step changes a row that is SUCCEEDED, CANCELED or DEAD. *)
THEOREM TerminalRowsAreFinal == EngineSpec => TerminalIsFinal
<1>1. ASSUME IInv, [EngineNext]_engineVars
      PROVE  [\A t \in TaskID : IsTerminal(tasks[t]) => tasks'[t] = tasks[t]]_engineVars
  <2>1. RowStep
    BY <1>1, EveryStepIsARowStep
  <2>2. ASSUME NEW t \in TaskID, OneRow(t) PROVE ~IsTerminal(tasks[t])
    BY <2>2 DEF OneRow, Created, Started, Finished, CanceledNew, IsTerminal,
                Terminal, Absent
  <2> QED
    BY <2>1, <2>2 DEF RowStep, SameLife, OneRow
<1> QED
  BY <1>1, Inductive, PTL DEF EngineSpec, TerminalIsFinal

-----------------------------------------------------------------------------
(* Refinement: `life' is the status and the attempt of every row. *)
lifeOf == [t \in TaskID |-> [status |-> tasks[t].status, attempt |-> tasks[t].attempt]]

LEMMA LifeStep == ASSUME IInv, [EngineNext]_engineVars
                  PROVE  [Lifecycle!LNext]_lifeOf
<1> USE DEF Lifecycle!TaskID, TaskID
<1>1. RowStep
  BY EveryStepIsARowStep
<1>2. CASE \A u \in TaskID : SameLife(u)
  BY <1>2 DEF SameLife, lifeOf
<1>3. ASSUME NEW t \in TaskID, OneRow(t) PROVE Lifecycle!LNext
  <2>1. lifeOf' = [lifeOf EXCEPT ![t] = [status |-> tasks'[t].status,
                                         attempt |-> tasks'[t].attempt]]
    BY <1>3 DEF OneRow, lifeOf
  <2>2. lifeOf[t] = [status |-> tasks[t].status, attempt |-> tasks[t].attempt]
    BY DEF lifeOf
  <2>3. CASE Created(t)
    <3>1. Lifecycle!Create(t)
      BY <2>1, <2>2, <2>3 DEF lifeOf, Lifecycle!Create, Created, Lifecycle!Absent, Absent
    <3> QED
      BY <3>1 DEF Lifecycle!LNext
  <2>4. CASE Started(t)
    <3>1. Lifecycle!Start(t)
      BY <2>1, <2>2, <2>4 DEF lifeOf, Lifecycle!Start, Started
    <3> QED
      BY <3>1 DEF Lifecycle!LNext
  <2>5. CASE Finished(t)
    <3>0. lifeOf' = [lifeOf EXCEPT ![t].status = tasks'[t].status]
      BY <2>1, <2>2, <2>5 DEF Finished, lifeOf
    <3>1. Lifecycle!Finish(t)
      <4> DEFINE s == tasks'[t].status
      <4>1. s \in Lifecycle!Terminal \cup {"FAILED"}
        BY <2>5 DEF Finished, Lifecycle!Terminal, Terminal
      <4>2. /\ lifeOf[t].status = "RUNNING"
            /\ s = "FAILED" => lifeOf[t].attempt < MaxAttempts
            /\ s = "DEAD" => lifeOf[t].attempt = MaxAttempts
        BY <2>2, <2>5 DEF Finished
      <4> HIDE DEF s
      <4> QED
        BY <3>0, <4>1, <4>2 DEF Lifecycle!Finish, lifeOf, s
    <3> QED
      BY <3>1 DEF Lifecycle!LNext
  <2>6. CASE CanceledNew(t)
    <3>1. Lifecycle!CancelNew(t)
      BY <2>1, <2>2, <2>6 DEF lifeOf, Lifecycle!CancelNew, CanceledNew
    <3> QED
      BY <3>1 DEF Lifecycle!LNext
  <2> QED
    BY <1>3, <2>3, <2>4, <2>5, <2>6 DEF OneRow
<1> QED
  BY <1>1, <1>2, <1>3 DEF RowStep

(* Whatever the workers, the handlers and the faults do, a task only ever   *)
(* goes through the promised life cycle.                                    *)
THEOREM EngineImplementsLifecycle == EngineSpec => ImplementsLifecycle
<1>1. EngineInit => Lifecycle!LInit
  BY DEF EngineInit, Lifecycle!LInit, Lifecycle!TaskID, TaskID, NoRow,
         Lifecycle!Absent, Absent
<1>2. ASSUME IInv, [EngineNext]_engineVars PROVE [Lifecycle!LNext]_lifeOf
  BY <1>2, LifeStep
<1> QED
  BY <1>1, <1>2, Inductive, PTL
  DEF EngineSpec, ImplementsLifecycle, Lifecycle!LSpec, lifeOf
-----------------------------------------------------------------------------
(* Progress: what is left to do for a task becomes less with every step.    *)

PcSteps(p) == IF p = "dequeued" THEN 4 ELSE IF p = "executing" THEN 3 ELSE 2

LEMMA HeldSteps ==
  ASSUME IInv, NEW w \in Worker, NEW t, Holds(w, t)
  PROVE  StepsOfAttempt(t) = PcSteps(workers[w].pc) /\ ~IsTerminal(tasks[t])
<1>1. t \in TaskID /\ \A v \in Worker : workers[v].pc \in Busy /\ workers[v].task = t => v = w
  BY DEF IInv, SingleOwner, Holds
<1>2. ~IsTerminal(tasks[t])
  BY DEF IInv, SingleOwner, Holds, IsTerminal, Terminal
<1>3. \A p \in Busy : Held(t, p) <=> workers[w].pc = p
  BY <1>1 DEF Held, Holds
<1>4. /\ Held(t, "dequeued")  <=> workers[w].pc = "dequeued"
      /\ Held(t, "executing") <=> workers[w].pc = "executing"
      /\ Held(t, "succeeded") <=> workers[w].pc = "succeeded"
      /\ Held(t, "failed")    <=> workers[w].pc = "failed"
  BY <1>3 DEF Busy
<1>5. workers[w].pc \in Busy
  BY DEF Holds
<1>6. CASE workers[w].pc = "dequeued"
  BY <1>2, <1>4, <1>6 DEF StepsOfAttempt, PcSteps
<1>7. CASE workers[w].pc = "executing"
  BY <1>2, <1>4, <1>7 DEF StepsOfAttempt, PcSteps
<1>8. CASE workers[w].pc \in {"succeeded", "failed"}
  BY <1>2, <1>4, <1>8 DEF StepsOfAttempt, PcSteps
<1> QED
  BY <1>5, <1>6, <1>7, <1>8 DEF Busy

LEMMA HeldStepsNext ==
  ASSUME IInv', NEW w \in Worker, NEW t, Holds(w, t)'
  PROVE  StepsOfAttempt(t)' = PcSteps(workers'[w].pc) /\ ~IsTerminal(tasks[t])'
<1>1. t \in TaskID
      /\ \A v \in Worker : workers'[v].pc \in Busy /\ workers'[v].task = t => v = w
  BY DEF IInv, SingleOwner, Holds
<1>2. ~IsTerminal(tasks[t])'
  BY DEF IInv, SingleOwner, Holds, IsTerminal, Terminal
<1>3. \A p \in Busy : Held(t, p)' <=> workers'[w].pc = p
  BY <1>1 DEF Held, Holds
<1>4. /\ Held(t, "dequeued")'  <=> workers'[w].pc = "dequeued"
      /\ Held(t, "executing")' <=> workers'[w].pc = "executing"
      /\ Held(t, "succeeded")' <=> workers'[w].pc = "succeeded"
      /\ Held(t, "failed")'    <=> workers'[w].pc = "failed"
  BY <1>3 DEF Busy
<1>5. workers'[w].pc \in Busy
  BY DEF Holds
<1>6. CASE workers'[w].pc = "dequeued"
  BY <1>2, <1>4, <1>6 DEF StepsOfAttempt, PcSteps
<1>7. CASE workers'[w].pc = "executing"
  BY <1>2, <1>4, <1>7 DEF StepsOfAttempt, PcSteps
<1>8. CASE workers'[w].pc \in {"succeeded", "failed"}
  BY <1>2, <1>4, <1>8 DEF StepsOfAttempt, PcSteps
<1> QED
  BY <1>5, <1>6, <1>7, <1>8 DEF Busy

LEMMA FreeSteps ==
  ASSUME NEW t, \A w \in Worker : ~Holds(w, t)
  PROVE  StepsOfAttempt(t) = IF tasks[t].status = "FAILED" /\ ~tasks[t].due THEN 1 ELSE 0
<1>1. \A p \in Busy : ~Held(t, p)
  BY DEF Held, Holds
<1> QED
  BY <1>1 DEF StepsOfAttempt, Busy

LEMMA FreeStepsNext ==
  ASSUME NEW t, \A w \in Worker : ~Holds(w, t)'
  PROVE  StepsOfAttempt(t)'
           = IF tasks'[t].status = "FAILED" /\ ~tasks'[t].due THEN 1 ELSE 0
<1>1. \A p \in Busy : ~Held(t, p)'
  BY DEF Held, Holds
<1> QED
  BY <1>1 DEF StepsOfAttempt, Busy

Flag(row) == IF row.cancel_requested THEN 0 ELSE 1

(* The rows of tasks that have not ended are within their budget. *)
LEMMA WithinBudget ==
  ASSUME IInv, NEW t \in TaskID, ~IsTerminal(tasks[t])
  PROVE  /\ tasks[t].attempt \in 0 .. MaxAttempts
         /\ StepsOfAttempt(t) \in 0 .. 4
         /\ StepsLeft(t) = 5 * (MaxAttempts - tasks[t].attempt)
                             + StepsOfAttempt(t) + Flag(tasks[t])
<1>1. tasks[t].attempt \in Nat /\ tasks[t].status \in Active \cup {Absent}
  BY DEF IInv, TypeOK, Table, TaskRow, Status, IsTerminal
<1>2. tasks[t].attempt \in 0 .. MaxAttempts
  BY <1>1 DEF IInv, AttemptBudget, RowsOK, Active
<1>3. StepsOfAttempt(t) \in 0 .. 4
  BY DEF StepsOfAttempt
<1> QED
  BY <1>2, <1>3 DEF StepsLeft, Flag

LEMMA WithinBudgetNext ==
  ASSUME IInv', NEW t \in TaskID, ~IsTerminal(tasks[t])'
  PROVE  /\ tasks'[t].attempt \in 0 .. MaxAttempts
         /\ StepsOfAttempt(t)' \in 0 .. 4
         /\ StepsLeft(t)' = 5 * (MaxAttempts - tasks'[t].attempt)
                              + StepsOfAttempt(t)' + Flag(tasks'[t])
<1>1. tasks'[t].attempt \in Nat /\ tasks'[t].status \in Active \cup {Absent}
  BY DEF IInv, TypeOK, Table, TaskRow, Status, IsTerminal
<1>2. tasks'[t].attempt \in 0 .. MaxAttempts
  BY <1>1 DEF IInv, AttemptBudget, RowsOK, Active
<1>3. StepsOfAttempt(t)' \in 0 .. 4
  BY DEF StepsOfAttempt
<1> QED
  BY <1>2, <1>3 DEF StepsLeft, Flag

(* Only t is affected; and it has come nearer to its end. *)
OnlyOn(t) ==
  /\ \A u \in TaskID \ {t} : tasks'[u] = tasks[u]
  /\ \A w \in Worker : \A u \in TaskID \ {t} :
       Holds(w, u) \/ Holds(w, u)' => workers'[w] = workers[w]
Nearer(t) == StepsLeft(t)' \in Nat /\ StepsLeft(t)' < StepsLeft(t)

Counts ==
  \A t \in TaskID : Exists(tasks[t]) =>
    \/ /\ tasks'[t] = tasks[t]
       /\ \A w \in Worker : Holds(w, t) \/ Holds(w, t)' => workers'[w] = workers[w]
    \/ Nearer(t)

LEMMA OneCounts ==
  ASSUME NEW t \in TaskID, OnlyOn(t), Exists(tasks[t]) => Nearer(t)
  PROVE  Counts
BY DEF OnlyOn, Counts

(* Three ways to come nearer to the end: to reach it, to get on with the    *)
(* attempt or have the flag set, and to start the next attempt.             *)
LEMMA NearerAtTheEnd ==
  ASSUME IInv, NEW t \in TaskID, ~IsTerminal(tasks[t]), IsTerminal(tasks'[t]),
         tasks[t].attempt < MaxAttempts \/ StepsOfAttempt(t) > 0
  PROVE  Nearer(t)
<1>1. StepsLeft(t)' = 0
  BY DEF StepsLeft, IsTerminal
<1>2. tasks[t].attempt \in 0 .. MaxAttempts /\ StepsOfAttempt(t) \in 0 .. 4
      /\ StepsLeft(t) = 5 * (MaxAttempts - tasks[t].attempt)
                          + StepsOfAttempt(t) + Flag(tasks[t])
  BY WithinBudget
<1>3. Flag(tasks[t]) \in 0 .. 1
  BY DEF Flag
<1> QED
  BY <1>1, <1>2, <1>3 DEF Nearer

LEMMA NearerInTheAttempt ==
  ASSUME IInv, IInv', NEW t \in TaskID,
         ~IsTerminal(tasks[t]), ~IsTerminal(tasks'[t]),
         tasks'[t].attempt = tasks[t].attempt,
         StepsOfAttempt(t)' + Flag(tasks'[t]) < StepsOfAttempt(t) + Flag(tasks[t])
  PROVE  Nearer(t)
<1>1. tasks[t].attempt \in 0 .. MaxAttempts /\ StepsOfAttempt(t) \in 0 .. 4
      /\ StepsLeft(t) = 5 * (MaxAttempts - tasks[t].attempt)
                          + StepsOfAttempt(t) + Flag(tasks[t])
  BY WithinBudget
<1>2. tasks'[t].attempt \in 0 .. MaxAttempts /\ StepsOfAttempt(t)' \in 0 .. 4
      /\ StepsLeft(t)' = 5 * (MaxAttempts - tasks'[t].attempt)
                           + StepsOfAttempt(t)' + Flag(tasks'[t])
  BY WithinBudgetNext DEF IsTerminal
<1>3. Flag(tasks[t]) \in 0 .. 1 /\ Flag(tasks'[t]) \in 0 .. 1
  BY DEF Flag
<1> QED
  BY <1>1, <1>2, <1>3 DEF Nearer

LEMMA NearerByAnAttempt ==
  ASSUME IInv, IInv', NEW t \in TaskID,
         ~IsTerminal(tasks[t]), ~IsTerminal(tasks'[t]),
         tasks'[t].attempt = tasks[t].attempt + 1,
         tasks'[t].cancel_requested = tasks[t].cancel_requested
  PROVE  Nearer(t)
<1>1. tasks[t].attempt \in 0 .. MaxAttempts /\ StepsOfAttempt(t) \in 0 .. 4
      /\ StepsLeft(t) = 5 * (MaxAttempts - tasks[t].attempt)
                          + StepsOfAttempt(t) + Flag(tasks[t])
  BY WithinBudget
<1>2. tasks'[t].attempt \in 0 .. MaxAttempts /\ StepsOfAttempt(t)' \in 0 .. 4
      /\ StepsLeft(t)' = 5 * (MaxAttempts - tasks'[t].attempt)
                           + StepsOfAttempt(t)' + Flag(tasks'[t])
  BY WithinBudgetNext DEF IsTerminal
<1>3. Flag(tasks[t]) \in 0 .. 1 /\ Flag(tasks'[t]) = Flag(tasks[t])
  BY DEF Flag
<1> QED
  BY <1>1, <1>2, <1>3 DEF Nearer

(* A dequeue, whether or not its answer reaches the worker. *)
LEMMA DequeueCounts ==
  ASSUME IInv, IInv', NEW w \in Worker, NEW t \in TaskID, IsNext(tasks, t),
         tasks' = DequeueTask(tasks, t), workers[w].pc = "idle",
         \A v \in Worker \ {w} : workers'[v] = workers[v],
         workers'[w] = workers[w] \/ workers'[w].task = t
  PROVE  Counts
<1>1. Dequeueable(tasks[t])
  BY DEF IsNext
<1>2. /\ \A u \in TaskID \ {t} : tasks'[u] = tasks[u]
      /\ tasks'[t].status = "RUNNING"
      /\ tasks'[t].attempt = tasks[t].attempt + 1
      /\ tasks'[t].cancel_requested = tasks[t].cancel_requested
  BY <1>1, DequeueRowFacts
<1>3. ~IsTerminal(tasks[t]) /\ ~IsTerminal(tasks'[t])
  BY <1>1, <1>2 DEF Dequeueable, IsTerminal, Terminal
<1>4. Nearer(t)
  BY <1>2, <1>3, NearerByAnAttempt
<1>5. OnlyOn(t)
  BY <1>2 DEF OnlyOn, Holds, Busy
<1> QED
  BY <1>4, <1>5, OneCounts

(* A worker gets on with its attempt, or lets go of it. *)
LEMMA AttemptCounts ==
  ASSUME IInv, IInv', NEW w \in Worker, UNCHANGED tasks,
         \A v \in Worker \ {w} : workers'[v] = workers[v],
         \/ ~ (workers[w].pc \in Busy) /\ ~ (workers'[w].pc \in Busy)
         \/ workers[w].pc \in Busy /\ ~ (workers'[w].pc \in Busy)
         \/ /\ workers[w].pc \in Busy /\ workers'[w].pc \in Busy
            /\ workers'[w].task = workers[w].task
            /\ PcSteps(workers'[w].pc) < PcSteps(workers[w].pc)
  PROVE  Counts
<1>1. CASE ~ (workers[w].pc \in Busy)
  <2>1. ~ (workers'[w].pc \in Busy)
    BY <1>1
  <2> QED
    BY <1>1, <2>1 DEF Counts, Holds
<1>2. CASE workers[w].pc \in Busy
  <2> PICK t \in TaskID : t = workers[w].task
    BY <1>2 DEF IInv, SingleOwner
  <2>1. Holds(w, t)
    BY <1>2 DEF Holds
  <2>2. /\ StepsOfAttempt(t) = PcSteps(workers[w].pc)
        /\ ~IsTerminal(tasks[t]) /\ ~IsTerminal(tasks'[t])
    BY <2>1, HeldSteps
  <2>3. tasks[t].status = "RUNNING"
        /\ \A v \in Worker : workers[v].pc \in Busy /\ workers[v].task = t => v = w
    BY <1>2 DEF IInv, SingleOwner
  <2>4. StepsOfAttempt(t)' < StepsOfAttempt(t)
    <3>1. CASE workers'[w].pc \in Busy
      <4>1. Holds(w, t)'
        BY <3>1 DEF Holds
      <4>2. StepsOfAttempt(t)' = PcSteps(workers'[w].pc)
        BY <4>1, HeldStepsNext
      <4> QED
        BY <3>1, <4>2, <2>2
    <3>2. CASE ~ (workers'[w].pc \in Busy)
      <4>1. \A v \in Worker : ~Holds(v, t)'
        BY <3>2, <2>3 DEF Holds
      <4>2. StepsOfAttempt(t)' = 0
        BY <4>1, <2>3, FreeStepsNext
      <4> QED
        BY <4>2, <2>2 DEF PcSteps
    <3> QED
      BY <3>1, <3>2
  <2>5. StepsOfAttempt(t) \in 0 .. 4 /\ StepsOfAttempt(t)' \in 0 .. 4
    BY DEF StepsOfAttempt
  <2>6. Flag(tasks'[t]) = Flag(tasks[t]) /\ Flag(tasks[t]) \in 0 .. 1
    BY DEF Flag
  <2>7. Nearer(t)
    <3>1. StepsOfAttempt(t)' + Flag(tasks'[t]) < StepsOfAttempt(t) + Flag(tasks[t])
      BY <2>4, <2>5, <2>6
    <3> QED
      BY <3>1, <2>1, <2>2, NearerInTheAttempt
  <2>8. OnlyOn(t)
    BY DEF OnlyOn, Holds
  <2> QED
    BY <2>1, <2>7, <2>8, OneCounts
<1> QED
  BY <1>1, <1>2

(* A worker ends its attempt with a write. *)
LEMMA FinishCounts ==
  ASSUME IInv, IInv', NEW w \in Worker, workers[w].pc \in Busy,
         NEW s \in Terminal \cup {"FAILED"},
         \A u \in TaskID \ {workers[w].task} : tasks'[u] = tasks[u],
         tasks'[workers[w].task].status = s,
         tasks'[workers[w].task].attempt = tasks[workers[w].task].attempt,
         tasks'[workers[w].task].cancel_requested
           = tasks[workers[w].task].cancel_requested,
         Leave(w)
  PROVE  Counts
<1> PICK t \in TaskID : t = workers[w].task
  BY DEF IInv, SingleOwner
<1>1. Holds(w, t)
  BY DEF Holds
<1>2. /\ StepsOfAttempt(t) = PcSteps(workers[w].pc)
      /\ ~IsTerminal(tasks[t])
  BY <1>1, HeldSteps
<1>3. /\ \A v \in Worker \ {w} : workers'[v] = workers[v]
      /\ workers'[w].pc = "idle"
  BY WorkerLeave DEF IInv, TypeOK
<1>4. StepsOfAttempt(t) >= 2 /\ StepsOfAttempt(t) \in 0 .. 4
  BY <1>2 DEF PcSteps
<1>5. Nearer(t)
  <2>1. CASE s \in Terminal
    BY <2>1, <1>1, <1>2, <1>4, NearerAtTheEnd DEF IsTerminal
  <2>2. CASE s = "FAILED"
    <3>1. \A v \in Worker : ~Holds(v, t)'
      BY <1>3 DEF Holds, Busy, IInv, SingleOwner
    <3>2. StepsOfAttempt(t)' \in 0 .. 1
      BY <3>1, FreeStepsNext
    <3>3. Flag(tasks'[t]) = Flag(tasks[t]) /\ Flag(tasks[t]) \in 0 .. 1
      BY DEF Flag
    <3>4. ~IsTerminal(tasks'[t])
      BY <2>2 DEF IsTerminal, Terminal
    <3>5. StepsOfAttempt(t)' + Flag(tasks'[t]) < StepsOfAttempt(t) + Flag(tasks[t])
      BY <1>4, <3>2, <3>3
    <3> QED
      BY <1>1, <1>2, <3>4, <3>5, NearerInTheAttempt
  <2> QED
    BY <2>1, <2>2
<1>6. OnlyOn(t)
  BY <1>3 DEF OnlyOn, Holds, Busy
<1> QED
  BY <1>1, <1>5, <1>6, OneCounts

(* A row no worker holds before or after: time passes, or it is cancelled   *)
(* before it ran.  And a row that only gets its flag.                       *)
LEMMA BackoffCounts ==
  ASSUME IInv, IInv', NEW t \in TaskID, BackoffElapsed(t)
  PROVE  Counts
<1>1. /\ \A u \in TaskID \ {t} : tasks'[u] = tasks[u]
      /\ tasks[t].status = "FAILED" /\ ~tasks[t].due
      /\ tasks'[t].status = "FAILED" /\ tasks'[t].due
      /\ tasks'[t].attempt = tasks[t].attempt
      /\ tasks'[t].cancel_requested = tasks[t].cancel_requested
      /\ UNCHANGED workers
  BY DEF BackoffElapsed, IInv, TypeOK, Table, TaskRow
<1>2. /\ \A w \in Worker : ~Holds(w, t)
      /\ \A w \in Worker : ~Holds(w, t)'
  BY <1>1 DEF IInv, SingleOwner, Holds
<1>3. StepsOfAttempt(t) = 1 /\ StepsOfAttempt(t)' = 0
  BY <1>1, <1>2, FreeSteps, FreeStepsNext
<1>4. Flag(tasks'[t]) = Flag(tasks[t]) /\ Flag(tasks[t]) \in 0 .. 1
  BY <1>1 DEF Flag
<1>5. StepsOfAttempt(t)' + Flag(tasks'[t]) < StepsOfAttempt(t) + Flag(tasks[t])
  BY <1>3, <1>4
<1>6. ~IsTerminal(tasks[t]) /\ ~IsTerminal(tasks'[t])
  BY <1>1 DEF IsTerminal, Terminal
<1>7. Nearer(t)
  BY <1>1, <1>5, <1>6, NearerInTheAttempt
<1>8. OnlyOn(t)
  BY <1>1 DEF OnlyOn
<1> QED
  BY <1>7, <1>8, OneCounts

LEMMA CancelPendingCounts ==
  ASSUME IInv, NEW t \in TaskID, CancelPendingMatches(tasks[t]),
         tasks' = CancelPendingTask(tasks, t), UNCHANGED workers
  PROVE  Counts
<1>1. /\ \A u \in TaskID \ {t} : tasks'[u] = tasks[u]
      /\ tasks'[t].status = "CANCELED"
  BY CancelPendingTaskRow DEF IInv, TypeOK
<1>2. tasks[t].status = "PENDING" /\ tasks[t].attempt < MaxAttempts
  BY DEF CancelPendingMatches, IInv, RowsOK
<1>3. ~IsTerminal(tasks[t]) /\ IsTerminal(tasks'[t])
  BY <1>1, <1>2 DEF IsTerminal, Terminal
<1>4. Nearer(t)
  BY <1>2, <1>3, NearerAtTheEnd
<1>5. OnlyOn(t)
  BY <1>1 DEF OnlyOn
<1> QED
  BY <1>4, <1>5, OneCounts

LEMMA RequestCancelCounts ==
  ASSUME IInv, IInv', NEW t \in TaskID, RequestCancelMatches(tasks[t]),
         tasks' = RequestCancelRunningTask(tasks, t), UNCHANGED workers
  PROVE  Counts
<1>1. /\ \A u \in TaskID \ {t} : tasks'[u] = tasks[u]
      /\ tasks'[t].status = tasks[t].status
      /\ tasks'[t].attempt = tasks[t].attempt
      /\ tasks'[t].cancel_requested = TRUE
  BY RequestCancelRunningTaskRow DEF IInv, TypeOK
<1>2. tasks[t].status = "RUNNING"
  BY DEF RequestCancelMatches
<1>3. CASE tasks[t].cancel_requested
  <2>1. tasks'[t] = tasks[t]
    BY <1>3 DEF RequestCancelRunningTask, IInv, TypeOK, Table, TaskRow
  <2> QED
    BY <1>1, <2>1 DEF Counts
<1>4. CASE ~tasks[t].cancel_requested
  <2>1. Flag(tasks'[t]) = 0 /\ Flag(tasks[t]) = 1
    BY <1>1, <1>4 DEF Flag
  <2>2. StepsOfAttempt(t)' = StepsOfAttempt(t)
    BY <1>1, <1>2 DEF StepsOfAttempt, Held
  <2>3. StepsOfAttempt(t) \in 0 .. 4
    BY DEF StepsOfAttempt
  <2>4. StepsOfAttempt(t)' + Flag(tasks'[t]) < StepsOfAttempt(t) + Flag(tasks[t])
    BY <2>1, <2>2, <2>3
  <2>5. ~IsTerminal(tasks[t]) /\ ~IsTerminal(tasks'[t])
    BY <1>1, <1>2 DEF IsTerminal, Terminal
  <2>6. Nearer(t)
    BY <1>1, <2>4, <2>5, NearerInTheAttempt
  <2>7. OnlyOn(t)
    BY <1>1 DEF OnlyOn
  <2> QED
    BY <2>6, <2>7, OneCounts
<1> QED
  BY <1>3, <1>4

LEMMA EveryStepIsCounted ==
  ASSUME IInv, [EngineNext]_engineVars PROVE Counts
<1>0. IInv'
  BY InductiveStep
<1>1. ASSUME UNCHANGED <<tasks, workers>> PROVE Counts
  BY <1>1 DEF Counts
<1>2. ASSUME NEW t \in TaskID, CreateTask(t) PROVE Counts
  <2>1. OnlyOn(t) /\ ~Exists(tasks[t])
    BY <1>2, InsertTaskRow DEF CreateTask, OnlyOn, IInv, TypeOK
  <2> QED
    BY <2>1, OneCounts
<1>3. ASSUME NEW t \in TaskID, BackoffElapsed(t) PROVE Counts
  BY <1>0, <1>3, BackoffCounts
<1>4. ASSUME NEW w \in Worker, Dequeue(w) \/ LoseDequeued(w) PROVE Counts
  <2>1. PICK t \in TaskID : /\ IsNext(tasks, t) /\ tasks' = DequeueTask(tasks, t)
                            /\ \A v \in Worker \ {w} : workers'[v] = workers[v]
                            /\ workers'[w] = workers[w] \/ workers'[w].task = t
    <3>1. CASE Dequeue(w)
      BY <3>1 DEF Dequeue, IInv, TypeOK
    <3>2. CASE LoseDequeued(w)
      BY <3>2 DEF LoseDequeued
    <3> QED
      BY <1>4, <3>1, <3>2
  <2>2. workers[w].pc = "idle"
    BY <1>4 DEF Dequeue, LoseDequeued
  <2> QED
    BY <1>0, <2>1, <2>2, DequeueCounts
<1>5. ASSUME NEW w \in Worker,
             CancelObserved(w) \/ Complete(w) \/ Fail(w) \/ Dead(w)
      PROVE  Counts
  <2> DEFINE t == workers[w].task
  <2>1. workers[w].pc \in Busy /\ Leave(w)
    BY <1>5 DEF CancelObserved, Complete, Fail, Dead, Busy
  <2>2. t \in TaskID /\ tasks \in Table
    BY <2>1 DEF IInv, SingleOwner, TypeOK
  <2>3. \E s \in Terminal \cup {"FAILED"} :
          /\ \A u \in TaskID \ {t} : tasks'[u] = tasks[u]
          /\ tasks'[t].status = s
          /\ tasks'[t].attempt = tasks[t].attempt
          /\ tasks'[t].cancel_requested = tasks[t].cancel_requested
    <3>1. CASE CancelObserved(w)
      BY <2>2, <3>1, CompleteTaskRow DEF CancelObserved, Terminal, Status
    <3>2. CASE Complete(w)
      BY <2>2, <3>2, CompleteTaskRow DEF Complete, Terminal, Status
    <3>3. CASE Fail(w)
      BY <2>2, <3>3, FailTaskRow DEF Fail
    <3>4. CASE Dead(w)
      BY <2>2, <3>4, MarkTaskDeadRow DEF Dead, Terminal
    <3> QED
      BY <1>5, <3>1, <3>2, <3>3, <3>4
  <2> QED
    BY <1>0, <2>1, <2>3, FinishCounts
<1>6. ASSUME NEW w \in Worker, Begin(w) \/ ExecuteOk(w) \/ ExecuteFail(w)
      PROVE  Counts
  <2>1. PICK p \in Running : /\ Goto(w, p) /\ PcSteps(p) < PcSteps(workers[w].pc)
    BY <1>6 DEF Begin, ExecuteOk, ExecuteFail, Running, PcSteps
  <2>2. /\ \A v \in Worker \ {w} : workers'[v] = workers[v]
        /\ workers'[w].pc = p /\ workers'[w].task = workers[w].task
    BY <2>1, WorkerGoto DEF IInv, TypeOK, Running, Pc
  <2>3. workers[w].pc \in Busy /\ p \in Busy /\ UNCHANGED tasks
    BY <1>6 DEF Begin, ExecuteOk, ExecuteFail, Busy, Running
  <2> QED
    BY <1>0, <2>1, <2>2, <2>3, AttemptCounts
<1>7. ASSUME NEW w \in Worker, LoseWrite(w) \/ Crash(w) \/ Restart(w) PROVE Counts
  <2>1. UNCHANGED tasks /\ \A v \in Worker \ {w} : workers'[v] = workers[v]
    BY <1>7 DEF LoseWrite, Crash, Restart, Leave, IInv, TypeOK
  <2>2. ~ (workers'[w].pc \in Busy)
    BY <1>7 DEF LoseWrite, Crash, Restart, Leave, IdleWorker, IInv, TypeOK, Busy
  <2> QED
    BY <1>0, <2>1, <2>2, AttemptCounts
<1>8. ASSUME NEW c \in Canceller, CancelPending(c) \/ RequestCancel(c) \/ LoseCancel(c)
      PROVE  Counts
  <2> DEFINE t == cancels[c].task
  <2>1. t \in TaskID /\ UNCHANGED workers
    BY <1>8 DEF CancelPending, RequestCancel, LoseCancel, IInv, CancelsOK
  <2>2. \/ UNCHANGED tasks
        \/ CancelPendingMatches(tasks[t]) /\ tasks' = CancelPendingTask(tasks, t)
        \/ RequestCancelMatches(tasks[t]) /\ tasks' = RequestCancelRunningTask(tasks, t)
    BY <1>8 DEF CancelPending, RequestCancel, LoseCancel
  <2> QED
    BY <1>0, <1>1, <2>1, <2>2, CancelPendingCounts, RequestCancelCounts
<1>9. ASSUME NEW c \in Canceller,
             CancelMissed(c) \/ \E t \in TaskID : CancelRead(c, t)
      PROVE  Counts
  BY <1>1, <1>9 DEF CancelMissed, CancelRead
<1>10. CASE UNCHANGED engineVars
  BY <1>1, <1>10 DEF engineVars
<1> QED
  BY <1>2, <1>3, <1>4, <1>5, <1>6, <1>7, <1>8, <1>9, <1>10
  DEF EngineNext, FaultFreeNext, Work, Cancel, Fault

(* Every step on a task uses up something of what is left of it, whatever   *)
(* the workers, the cancellations and the faults do: nothing is retried,    *)
(* lost and picked up again for ever.                                       *)
THEOREM EveryStepIsProgress == EngineSpec => EveryStepCounts
<1>1. ASSUME IInv, [EngineNext]_engineVars
      PROVE  [\A t \in TaskID : Exists(tasks[t]) =>
                \/ /\ tasks'[t] = tasks[t]
                   /\ \A w \in Worker : Holds(w, t) \/ Holds(w, t)'
                                         => workers'[w] = workers[w]
                \/ StepsLeft(t)' \in Nat /\ StepsLeft(t)' < StepsLeft(t)]_engineVars
  BY <1>1, EveryStepIsCounted DEF Counts, Nearer
<1> QED
  BY <1>1, Inductive, PTL DEF EngineSpec, EveryStepCounts

-----------------------------------------------------------------------------
(* Nothing is stranded while nothing fails: a row that is RUNNING is in the *)
(* hands of a worker, and one that is PENDING is due.                       *)
WaitingOK ==
  \A t \in TaskID :
    /\ tasks[t].status = "PENDING" => tasks[t].due
    /\ tasks[t].status = "RUNNING" => \E w \in Worker : Holds(w, t)

LEMMA WaitingStep ==
  ASSUME IInv, WaitingOK, FaultFreeNext \/ UNCHANGED engineVars PROVE WaitingOK'
<1>1. ASSUME UNCHANGED <<tasks, workers>> PROVE WaitingOK'
  BY <1>1 DEF WaitingOK, Holds
<1>2. ASSUME NEW t \in TaskID, CreateTask(t) PROVE WaitingOK'
  BY <1>2 DEF CreateTask, InsertTask, NewRow, NoRow, WaitingOK, Holds, IInv,
              TypeOK, Table
<1>3. ASSUME NEW t \in TaskID, BackoffElapsed(t) PROVE WaitingOK'
  BY <1>3 DEF BackoffElapsed, WaitingOK, Holds, IInv, TypeOK, Table, TaskRow
<1>4. ASSUME NEW w \in Worker, Dequeue(w) PROVE WaitingOK'
  <2>1. PICK t \in TaskID :
          /\ Dequeueable(tasks[t]) /\ tasks' = DequeueTask(tasks, t)
          /\ workers' = [workers EXCEPT ![w] =
               [pc |-> "dequeued", task |-> t, attempt |-> tasks[t].attempt + 1,
                cancel |-> tasks[t].cancel_requested]]
    BY <1>4 DEF Dequeue, IsNext
  <2>2. /\ \A v \in Worker \ {w} : workers'[v] = workers[v]
        /\ workers'[w].pc = "dequeued" /\ workers'[w].task = t
    BY <2>1 DEF IInv, TypeOK
  <2>3. \A u \in TaskID \ {t} : tasks'[u] = tasks[u]
    BY <2>1, DequeueTaskRow DEF IInv, TypeOK
  <2>4. tasks'[t].status = "RUNNING"
    BY <2>1, DequeueTaskRow DEF IInv, TypeOK
  <2>5. workers[w].pc = "idle"
    BY <1>4 DEF Dequeue
  <2>6. Holds(w, t)'
    BY <2>2 DEF Holds, Busy
  <2>7. ASSUME NEW u \in TaskID \ {t}, NEW v \in Worker, Holds(v, u) PROVE Holds(v, u)'
    BY <2>2, <2>5, <2>7 DEF Holds, Busy
  <2> QED
    BY <2>3, <2>4, <2>6, <2>7 DEF WaitingOK
<1>5. ASSUME NEW w \in Worker, Begin(w) \/ ExecuteOk(w) \/ ExecuteFail(w)
      PROVE  WaitingOK'
  <2>1. PICK p \in Running : Goto(w, p)
    BY <1>5 DEF Begin, ExecuteOk, ExecuteFail, Running
  <2>2. /\ \A v \in Worker \ {w} : workers'[v] = workers[v]
        /\ workers'[w].pc \in Busy /\ workers'[w].task = workers[w].task
    BY <2>1, WorkerGoto DEF IInv, TypeOK, Running, Pc, Busy
  <2>3. UNCHANGED tasks
    BY <1>5 DEF Begin, ExecuteOk, ExecuteFail
  <2>4. \A u \in TaskID, v \in Worker : Holds(v, u) => Holds(v, u)'
    BY <2>2 DEF Holds
  <2> QED
    BY <2>3, <2>4 DEF WaitingOK
<1>6. ASSUME NEW w \in Worker,
             CancelObserved(w) \/ Complete(w) \/ Fail(w) \/ Dead(w)
      PROVE  WaitingOK'
  <2>1. workers[w].pc \in Busy /\ Leave(w)
    BY <1>6 DEF CancelObserved, Complete, Fail, Dead, Busy
  <2> PICK t \in TaskID : t = workers[w].task
    BY <2>1 DEF IInv, SingleOwner
  <2>2. /\ \A u \in TaskID \ {t} : tasks'[u] = tasks[u]
        /\ tasks'[t].status \in Terminal \cup {"FAILED"}
    <3>1. CASE CancelObserved(w) \/ Complete(w)
      BY <3>1, CompleteTaskRow
      DEF CancelObserved, Complete, Terminal, Status, IInv, TypeOK
    <3>2. CASE Fail(w)
      BY <3>2, FailTaskRow DEF Fail, IInv, TypeOK
    <3>3. CASE Dead(w)
      BY <3>3, MarkTaskDeadRow DEF Dead, Terminal, IInv, TypeOK
    <3> QED
      BY <1>6, <3>1, <3>2, <3>3
  <2>3. \A v \in Worker \ {w} : workers'[v] = workers[v]
    BY <2>1, WorkerLeave DEF IInv, TypeOK
  <2>4. ASSUME NEW u \in TaskID \ {t}, NEW v \in Worker, Holds(v, u) PROVE Holds(v, u)'
    BY <2>3, <2>4 DEF Holds
  <2> QED
    BY <2>2, <2>4 DEF WaitingOK, Terminal
<1>7. ASSUME NEW c \in Canceller, CancelPending(c) \/ RequestCancel(c) PROVE WaitingOK'
  <2> PICK t \in TaskID : t = cancels[c].task
    BY <1>7 DEF CancelPending, RequestCancel, IInv, CancelsOK
  <2>1. UNCHANGED workers
    BY <1>7 DEF CancelPending, RequestCancel
  <2>2. \A u \in TaskID, v \in Worker : Holds(v, u) => Holds(v, u)'
    BY <2>1 DEF Holds
  <2>3. \A u \in TaskID : tasks'[u].status \in {tasks[u].status, "CANCELED"}
                          /\ tasks'[u].due = tasks[u].due
    BY <1>7 DEF CancelPending, RequestCancel, CancelPendingTask,
                RequestCancelRunningTask, IInv, TypeOK, Table, TaskRow
  <2> QED
    BY <2>2, <2>3 DEF WaitingOK
<1>8. ASSUME NEW c \in Canceller,
             CancelMissed(c) \/ \E t \in TaskID : CancelRead(c, t)
      PROVE  WaitingOK'
  BY <1>1, <1>8 DEF CancelMissed, CancelRead
<1>9. CASE UNCHANGED engineVars
  BY <1>1, <1>9 DEF engineVars
<1> QED
  BY <1>2, <1>3, <1>4, <1>5, <1>6, <1>7, <1>8, <1>9 DEF FaultFreeNext, Work, Cancel

LEMMA WaitingIsNotStranded == ASSUME IInv, WaitingOK PROVE NothingIsStranded
<1> SUFFICES ASSUME NEW t \in TaskID, tasks[t].status \in Active
             PROVE  \/ Dequeueable(tasks[t])
                    \/ /\ tasks[t].status = "FAILED"
                       /\ Dequeueable([tasks[t] EXCEPT !.due = TRUE])
                    \/ \E w \in Worker : Holds(w, t)
  BY DEF NothingIsStranded
<1>1. CASE tasks[t].status = "PENDING"
  BY <1>1 DEF WaitingOK, Dequeueable, IInv, RowsOK
<1>2. CASE tasks[t].status = "FAILED"
  BY <1>2 DEF Dequeueable, IInv, AttemptBudget, TypeOK, Table, TaskRow
<1>3. CASE tasks[t].status = "RUNNING"
  BY <1>3 DEF WaitingOK
<1> QED
  BY <1>1, <1>2, <1>3 DEF Active

(* While no statement is lost and no process dies, a task that has not      *)
(* ended can be dequeued, or will be due, or a worker has it.               *)
THEOREM NobodyIsForgotten ==
  EngineInit /\ [][FaultFreeNext]_engineVars => []NothingIsStranded
<1>1. EngineInit => WaitingOK
  BY DEF EngineInit, WaitingOK, NoRow, Absent
<1>2. IInv /\ WaitingOK /\ [FaultFreeNext]_engineVars => (IInv /\ WaitingOK)'
  <2> SUFFICES ASSUME IInv, WaitingOK, [FaultFreeNext]_engineVars
               PROVE  (IInv /\ WaitingOK)'
    OBVIOUS
  <2>1. [EngineNext]_engineVars
    BY DEF EngineNext
  <2> QED
    BY <2>1, InductiveStep, WaitingStep
<1>3. IInv /\ WaitingOK => NothingIsStranded
  BY WaitingIsNotStranded
<1> QED
  BY InitInv, <1>1, <1>2, <1>3, PTL
=============================================================================
