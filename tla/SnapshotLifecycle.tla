-------------------------- MODULE SnapshotLifecycle ---------------------------
(***************************************************************************)
(* What becomes of a snapshot, its row in wvs.snapshots and its directory   *)
(* taken together.  The directory is completed before the row is inserted   *)
(* and the row is marked deleted before the directory is removed; a mark is *)
(* not taken back and a directory that went does not return.  A snapshot    *)
(* that can be listed therefore always has its directory.                   *)
(*                                                                          *)
(* Of a snapshot that has come loose only the row keeps its order; another  *)
(* one is never affected by it.                                             *)
(***************************************************************************)
CONSTANT Snapshot

VARIABLES
  rows,   \* per snapshot: "absent", "present" or "deleted" (deleted_at)
  dirs,   \* the snapshots whose directory is complete
  loose   \* the snapshots whose directory may come and go

snapshotVars == <<rows, dirs, loose>>

(* Some snapshots may be there already, each with its directory. *)
SnapshotInit ==
  \E there \in SUBSET Snapshot :
    /\ rows = [s \in Snapshot |-> IF s \in there THEN "present" ELSE "absent"]
    /\ dirs = there
    /\ loose = {}

(* The clone and its metadata. *)
Clone(s) ==
  /\ rows[s] = "absent" /\ s \notin dirs
  /\ dirs' = dirs \cup {s}
  /\ UNCHANGED <<rows, loose>>

List(s) ==
  /\ rows[s] = "absent" /\ s \in dirs
  /\ rows' = [rows EXCEPT ![s] = "present"]
  /\ UNCHANGED <<dirs, loose>>

MarkDeleted(s) ==
  /\ rows[s] = "present"
  /\ rows' = [rows EXCEPT ![s] = "deleted"]
  /\ UNCHANGED <<dirs, loose>>

Remove(s) ==
  /\ rows[s] = "deleted" /\ s \in dirs
  /\ dirs' = dirs \ {s}
  /\ UNCHANGED <<rows, loose>>

(* A snapshot comes loose, or is. *)
Later(row) == IF row = "absent" THEN "present" ELSE "deleted"

LooseStep(s) ==
  /\ loose' = loose \cup {s}
  /\ dirs' \in {dirs, dirs \cup {s}, dirs \ {s}}
  /\ \/ rows' = [rows EXCEPT ![s] = Later(rows[s])]
     \/ UNCHANGED rows

SnapshotNext ==
  \E s \in Snapshot :
    Clone(s) \/ List(s) \/ MarkDeleted(s) \/ Remove(s) \/ LooseStep(s)

SnapshotSpec == SnapshotInit /\ [][SnapshotNext]_snapshotVars
=============================================================================
