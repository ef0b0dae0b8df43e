----------------------------- MODULE WorkspaceFs ------------------------------
(***************************************************************************)
(* What the calls of an executor operation do to the directory of a         *)
(* workspace, seen from outside.  Executor carries them out step by step.   *)
(*                                                                          *)
(* f.init: the current link exists.  f.current: the set_current task whose  *)
(* live directory it names, 0 for live/initial.  f.cloned: the tasks whose  *)
(* destination directory exists; f.whole: those juicefs clone has finished; *)
(* f.metas: the snapshots with a .wvs/snapshot.json; f.premature: those     *)
(* that had one while the clone was not finished.                           *)
(*                                                                          *)
(* The destination of a clone must not exist, its source must: the          *)
(* directory, whether it is complete or not.  A snapshot.json of the source *)
(* is copied with the rest, so what is cloned of a live directory that      *)
(* set_current has made may have one from the start.                        *)
(***************************************************************************)

CanClone(t, f) == f.init /\ t \notin f.cloned
Inherits(f)    == f.current # 0

Begun(t, f) == [f EXCEPT !.cloned = @ \cup {t}]
BegunWithMeta(t, f) ==
  [f EXCEPT !.cloned = @ \cup {t}, !.metas = @ \cup {t}, !.premature = @ \cup {t}]
Cloned(t, f) == [f EXCEPT !.cloned = @ \cup {t}, !.whole = @ \cup {t}]
WithMeta(t, f) == [f EXCEPT !.cloned = @ \cup {t}, !.metas = @ \cup {t}]
Gone(t, f) == [f EXCEPT !.cloned = @ \ {t}, !.whole = @ \ {t}, !.metas = @ \ {t}]

(* A directory that a call is cloning, or has left half cloned. *)
Partial(t, f) ==
  IF ~CanClone(t, f) THEN {}
  ELSE {Begun(t, f)} \cup IF Inherits(f) THEN {BegunWithMeta(t, f)} ELSE {}

(* RemoveAll that has failed with a part removed. *)
PartlyRemoved(s, f) ==
  {[f EXCEPT !.whole = @ \ {s}], [f EXCEPT !.whole = @ \ {s}, !.metas = @ \ {s}]}

-----------------------------------------------------------------------------
(* A call that succeeds leaves one of a set of file systems; the empty set: *)
(* it cannot.  Each operation is idempotent for the task that repeats it;   *)
(* snapshot_create looks for snapshot.json and at nothing else.             *)

InitWorkspace(f) == {[f EXCEPT !.init = TRUE]}

SnapshotCreate(t, f) ==
  IF t \in f.metas THEN {f}
  ELSE IF CanClone(t, f) THEN {WithMeta(t, Cloned(t, f))}
  ELSE {}

SnapshotDrop(s, f) == {Gone(s, f)}

(* set_current before it switches; the link is the business of all switches *)
(* of the workspace (ControlPlane!SwitchLink).                              *)
CloneLive(t, s, f) ==
  IF s \in f.cloned /\ t \notin f.cloned THEN {Cloned(t, f)} ELSE {}

(* Mutant: a snapshot is taken to be done when its directory exists. *)
ExecutedByDirectory(t, job, f) ==
  CASE job.op = "init_workspace"  -> InitWorkspace(f)
    [] job.op = "snapshot_create" ->
         IF t \in f.cloned THEN {f} ELSE SnapshotCreate(t, f)
    [] job.op = "snapshot_drop"   -> SnapshotDrop(job.snap, f)
    [] job.op = "set_current"     -> CloneLive(t, job.snap, f)

Executed(t, job, f) ==
  CASE job.op = "init_workspace"  -> InitWorkspace(f)
    [] job.op = "snapshot_create" -> SnapshotCreate(t, f)
    [] job.op = "snapshot_drop"   -> SnapshotDrop(job.snap, f)
    [] job.op = "set_current"     -> CloneLive(t, job.snap, f)

(* A call that fails has done nothing, a part of it or, when only the       *)
(* answer or the last write went wrong, all of it.                          *)
Interrupted(t, job, f) ==
  {f} \cup Executed(t, job, f) \cup
  CASE job.op = "init_workspace"  -> {}
    [] job.op = "snapshot_create" ->
         Partial(t, f) \cup IF CanClone(t, f) THEN {Cloned(t, f)} ELSE {}
    [] job.op = "snapshot_drop"   -> PartlyRemoved(job.snap, f)
    [] job.op = "set_current"     ->
         IF CloneLive(t, job.snap, f) = {} THEN {} ELSE {Begun(t, f)}

-----------------------------------------------------------------------------
(* What one step of a call may do that its worker has given up.  It clones, *)
(* ends a clone or fails with it, removes, or writes the metadata; `gone':  *)
(* a drop may have removed the directory under it, so that another call has *)
(* cloned it anew or MkdirAll makes it.                                     *)
CloneStep(t, f, gone) ==
  (IF t \in f.cloned \ f.whole
     THEN {Cloned(t, f)} \cup IF Inherits(f) THEN {WithMeta(t, Cloned(t, f))} ELSE {}
     ELSE {})
  \cup IF t \notin f.whole \/ gone THEN {Gone(t, f)} ELSE {}

Outlived(t, job, f, gone) ==
  CASE job.op = "init_workspace"  -> InitWorkspace(f)
    [] job.op = "snapshot_create" ->
         Partial(t, f) \cup CloneStep(t, f, gone)
         \cup IF t \in f.whole \/ gone THEN {WithMeta(t, f)} ELSE {}
    [] job.op = "snapshot_drop"   ->
         SnapshotDrop(job.snap, f) \cup PartlyRemoved(job.snap, f)
    [] job.op = "set_current"     ->
         CloneStep(t, f, FALSE) \cup IF CloneLive(t, job.snap, f) = {} THEN {} ELSE {Begun(t, f)}
=============================================================================
