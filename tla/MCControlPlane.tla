--------------------------- MODULE MCControlPlane ----------------------------
(* Small instances of ControlPlane for TLC. *)
EXTENDS ControlPlane, TLC

CONSTANTS w1, w2, h1, h2, c1, a, b

OneWorker     == {w1}
TwoWorkers    == {w1, w2}
TwoHandlers   == {h1, h2}
NoCanceller   == {}
OneCanceller  == {c1}
OneWorkspace  == {a}
TwoWorkspaces == {a, b}

SnapshotRequests == {"create", "snapshot", "drop", "set_current"}
StateRequests    == {"create", "retry_init", "disable"}
LastingRequests  == Request \ {"disable"}

(* Workspace a has been created and has one snapshot; b, if the instance has *)
(* it, has been created: their tasks are done.  The empty service reaches    *)
(* this state; starting here leaves the bounds to what comes after.          *)
Done     == [NewRow EXCEPT !.status = "SUCCEEDED", !.attempt = 1]
DoneJobs ==
  <<[op |-> "init_workspace",  ws |-> a, snap |-> NoTask],
    [op |-> "snapshot_create", ws |-> a, snap |-> 2],
    [op |-> "init_workspace",  ws |-> b, snap |-> NoTask]>>
DoneTasks == 1 .. (IF b \in Workspace THEN 3 ELSE 2)
Prepared ==
  /\ tasks      = [t \in TaskID |-> IF t \in DoneTasks THEN Done ELSE NoRow]
  /\ workers    = [w \in Worker |-> IdleWorker]
  /\ cancels    = [c \in Canceller |-> NewCancel]
  /\ jobs       = [t \in TaskID |-> IF t \in DoneTasks THEN DoneJobs[t] ELSE NoJob]
  /\ workspaces = [ws \in Workspace |-> [state |-> "ACTIVE", current |-> NoTask]]
  /\ snapshots  = [s \in TaskID |-> IF s = 2 THEN "present" ELSE "absent"]
  /\ handlers   = [h \in Handler |-> IdleHandler]
  /\ stage      = [w \in Worker |-> "none"]
  /\ owed       = [w \in Worker |-> {}]
  /\ locks      = [ws \in Workspace |-> {}]
  /\ fs         = [[ws \in Workspace |-> [NewFs EXCEPT !.init = TRUE]]
                     EXCEPT ![a].cloned = {2}, ![a].whole = {2}, ![a].metas = {2}]
  /\ forgotten  = {}

(* The bound on b: only drops are asked for under its name. *)
DropsInB == \A h \in Handler : handlers[h].ws = b => handlers[h].op = "snapshot_drop"

PreparedSpec     == Prepared /\ [][PlaneNext]_vars
PreparedCalmSpec == Prepared /\ [][Calm]_vars

Symmetry == Permutations({w1, w2}) \cup Permutations({h1, h2})
=============================================================================
