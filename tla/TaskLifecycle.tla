---------------------------- MODULE TaskLifecycle ----------------------------
(***************************************************************************)
(* What the task engine promises about one task, whoever asks and however  *)
(* many workers there are: the state machine of core.TaskStatus with its    *)
(* attempt counter.  It says nothing of workers, of handlers or of the      *)
(* order in which tasks are taken.                                          *)
(***************************************************************************)
EXTENDS Store

VARIABLE life      \* life[t] = [status, attempt]

LifeType == [TaskID -> [status : Status \cup {Absent}, attempt : 0..MaxAttempts]]

LInit == life = [t \in TaskID |-> [status |-> Absent, attempt |-> 0]]

Create(t) ==
  /\ life[t].status = Absent
  /\ life' = [life EXCEPT ![t].status = "PENDING"]

(* A new task or a failed one with attempts left starts its next attempt. *)
Start(t) ==
  /\ life[t].status \in {"PENDING", "FAILED"}
  /\ life[t].attempt < MaxAttempts
  /\ life' = [life EXCEPT ![t].status = "RUNNING", ![t].attempt = @ + 1]

(* A running attempt ends well or is cancelled; it fails for a retry only   *)
(* when one is left, and it is dead only when none is.                      *)
Finish(t) ==
  /\ life[t].status = "RUNNING"
  /\ \E s \in Terminal \cup {"FAILED"} :
       /\ s = "FAILED" => life[t].attempt < MaxAttempts
       /\ s = "DEAD"   => life[t].attempt = MaxAttempts
       /\ life' = [life EXCEPT ![t].status = s]

(* Only a task that never ran can be cancelled outright. *)
CancelNew(t) ==
  /\ life[t].status = "PENDING"
  /\ life[t].attempt = 0
  /\ life' = [life EXCEPT ![t].status = "CANCELED"]

LNext == \E t \in TaskID : Create(t) \/ Start(t) \/ Finish(t) \/ CancelNew(t)

LSpec == LInit /\ [][LNext]_life

(* With it, every task that starts ends: no task waits for ever. *)
LFairSpec == /\ LSpec
             /\ \A t \in TaskID : WF_life(Start(t)) /\ WF_life(Finish(t))
=============================================================================
