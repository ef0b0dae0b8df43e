------------------------------- MODULE Quiesce --------------------------------
(***************************************************************************)
(* /ws/<wsid>/.wvs/control.json, the file through which the executor asks   *)
(* the agent in the guest to stop writing (internal/executor/quiesce.go),   *)
(* and the agent.  The protocol is RUNNING, REQUEST_FREEZE, FROZEN,         *)
(* REQUEST_RESUME, RUNNING; nobody looks at the task_id in the file.        *)
(*                                                                          *)
(* The agent is not part of the repository: it is modelled as the protocol  *)
(* asks, in the most favourable way.  It looks at the file and acts on it   *)
(* in one step, and it never stops writing or resumes unasked.              *)
(***************************************************************************)
VARIABLES
  control,   \* the state in control.json; "" when it is missing
  guest      \* "none", or whether the guest writes to the workspace

QuiesceState == {"", "RUNNING", "REQUEST_FREEZE", "FROZEN", "REQUEST_RESUME"}
GuestState   == {"none", "writing", "frozen"}

(* A workspace with an agent that is at work, or one without. *)
QuiesceInit ==
  \/ control = "RUNNING" /\ guest = "writing"
  \/ control = "" /\ guest = "none"

WriteControl(s) == control' = s

(* The states in which Quiesce takes it that no guest is active. *)
NoGuest(s) == s \in {"", "FROZEN", "REQUEST_RESUME"}

Freeze ==
  /\ guest # "none" /\ control = "REQUEST_FREEZE"
  /\ guest' = "frozen" /\ WriteControl("FROZEN")

Thaw ==
  /\ guest # "none" /\ control = "REQUEST_RESUME"
  /\ guest' = "writing" /\ WriteControl("RUNNING")

GuestStep == Freeze \/ Thaw
=============================================================================
