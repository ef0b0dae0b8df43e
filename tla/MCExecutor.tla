------------------------------ MODULE MCExecutor ------------------------------
(* Small instances of Executor for TLC. *)
EXTENDS Executor, TLC

CONSTANTS e1, e2

OneCall  == {e1}
TwoCalls == {e1, e2}

Init       == [op |-> "init_workspace", snap |-> 0]
Create     == [op |-> "snapshot_create", snap |-> 0]
Switch(s)  == [op |-> "set_current", snap |-> s]
Drop(s)    == [op |-> "snapshot_drop", snap |-> s]

(* Task 2 creates the snapshot that the others are about. *)
SwitchesCreateDrop  == <<Init, Create, Switch(2), Switch(2), Create, Drop(5)>>
SwitchAndCreate     == <<Init, Create, Switch(2), Create>>
TwoSnapshots        == <<Init, Create, Create>>

(* The workspace exists, without a guest, and has snapshot 2; the first call *)
(* for task 1 was given up before it has made the link and may still be      *)
(* there, and each switch has failed once, before it did anything.  The      *)
(* empty volume leads here; the bounds are left to what comes after.         *)
Begun(c) == [IdleCall EXCEPT !.pc = "link", !.task = 1]
Switches == {t \in Task : Job[t].op = "set_current"}
Prepared ==
  /\ calls \in { [c \in Call |-> IdleCall],
                 [c \in Call |-> IF c = e1 THEN Begun(c) ELSE IdleCall] }
  /\ answer   = [t \in Task |-> IF t \in {1, 2} THEN "ok"
                                ELSE IF t \in Switches THEN "failed" ELSE "none"]
  /\ attempts = [t \in Task |-> IF t = 1 THEN 2
                                ELSE IF t \in Switches \cup {2} THEN 1 ELSE 0]
  /\ link = {Initial} /\ tmp = {} /\ premature = {}
  /\ dirs = {2} /\ whole = {2} /\ metas = {2}
  /\ control = "" /\ guest = "none"
PreparedSpec == Prepared /\ [][ExecNext]_execVars

Symmetry == Permutations({e1, e2})
=============================================================================
