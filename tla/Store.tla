-------------------------------- MODULE Store --------------------------------
(***************************************************************************)
(* The rows of wvs.tasks and the SQL statements of internal/store/tasks.sql *)
(* that read or write them.  A statement is one atomic step on the table: a *)
(* guard (its WHERE clause) and a new table.  Identifiers are the numbers   *)
(* 1..NTasks in the order of created_at, so ORDER BY created_at is <.       *)
(*                                                                          *)
(* Times are abstracted to `due', which says whether next_run_at <= now().  *)
(* The columns that never change after the INSERT (wsid, op, params) are    *)
(* kept by the module that needs them (ControlPlane).                       *)
(***************************************************************************)
EXTENDS Naturals

CONSTANTS
  NTasks,       \* bound: how many rows are ever inserted
  MaxAttempts   \* max_attempts, the same for every task (5 in every handler)

ASSUME NTasksAssumption == NTasks \in Nat
ASSUME MaxAttemptsAssumption == MaxAttempts \in Nat \ {0}

TaskID == 1..NTasks
NoTask == 0                 \* no task: the zero value of a task id

Terminal == {"SUCCEEDED", "CANCELED", "DEAD"}
Active   == {"PENDING", "RUNNING", "FAILED"}
Status   == Active \cup Terminal
Absent   == "absent"        \* the row has not been inserted yet

TaskRow == [ status           : Status \cup {Absent},
             attempt          : Nat,
             cancel_requested : BOOLEAN,
             due              : BOOLEAN ]

Table == [TaskID -> TaskRow]

NoRow  == [ status |-> Absent, attempt |-> 0,
            cancel_requested |-> FALSE, due |-> TRUE ]

(* The defaults of the schema: a new row is due at once. *)
NewRow == [ NoRow EXCEPT !.status = "PENDING" ]

Exists(row)     == row.status # Absent
IsTerminal(row) == row.status \in Terminal

-----------------------------------------------------------------------------
(* Queries. *)

(* Mutants: a reaper that also takes RUNNING rows; no retry of FAILED ones. *)
DequeueableTakesRunning(row) ==
  row.status \in Active /\ row.due /\ row.attempt < MaxAttempts
DequeueableForgetsFailed(row) ==
  row.status = "PENDING" /\ row.due /\ row.attempt < MaxAttempts

(* The WHERE clause of DequeueTask (and of GetQueueDepth). *)
Dequeueable(row) ==
  /\ row.status \in {"PENDING", "FAILED"}
  /\ row.due
  /\ row.attempt < MaxAttempts

(* Its ORDER BY created_at LIMIT 1. *)
IsNext(tab, t) ==
  /\ Dequeueable(tab[t])
  /\ \A u \in TaskID : Dequeueable(tab[u]) => t <= u

(* What CountActiveTasks and IsSnapshotReferencedByTasks call active.  A    *)
(* task RUNNING its last attempt has attempt = max_attempts: it is not.     *)
CountedActive(row) ==
  /\ row.status \in Active
  /\ row.attempt < MaxAttempts

-----------------------------------------------------------------------------
(* Updates. *)

InsertTask(tab, t) == [tab EXCEPT ![t] = NewRow]

(* Mutant: the attempt is not counted. *)
DequeueTaskUncounted(tab, t) == [tab EXCEPT ![t].status = "RUNNING"]

(* Takes the row; the worker gets the row as it is after the UPDATE. *)
DequeueTask(tab, t) ==
  [tab EXCEPT ![t].status = "RUNNING", ![t].attempt = @ + 1]

(* Mutant: a status the schema does not allow. *)
CompleteTaskBadStatus(tab, t, s) == [tab EXCEPT ![t].status = "DONE"]

(* None of the next three looks at the status it overwrites. *)
CompleteTask(tab, t, s) == [tab EXCEPT ![t].status = s]

(* next_run_at = now() + least(5 * 2^(attempt-1), 300): in the future. *)
FailTask(tab, t) == [tab EXCEPT ![t].status = "FAILED", ![t].due = FALSE]

MarkTaskDead(tab, t) == [tab EXCEPT ![t].status = "DEAD"]

(* Mutants: the status is dropped from the WHERE clause. *)
CancelPendingMatchesAll(row) == Exists(row)
RequestCancelMatchesAll(row) == Exists(row)

(* The two statements of a cancellation return a row only if they matched. *)
CancelPendingMatches(row)  == row.status = "PENDING"
RequestCancelMatches(row)  == row.status = "RUNNING"
CancelPendingTask(tab, t)        == [tab EXCEPT ![t].status = "CANCELED"]
RequestCancelRunningTask(tab, t) == [tab EXCEPT ![t].cancel_requested = TRUE]
=============================================================================
