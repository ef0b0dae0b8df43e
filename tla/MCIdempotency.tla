---------------------------- MODULE MCIdempotency -----------------------------
(* Small instances of Idempotency for TLC. *)
EXTENDS Idempotency

Request(op, key, body) == [op |-> op, key |-> key, body |-> body]

(* All use one key.  The first two differ in the body only, the others in   *)
(* the operation.                                                           *)
Requests == <<
  Request("set_current",    "k", "s1"),
  Request("set_current",    "k", "s2"),
  Request("snapshot_drop",  "k", "s1"),
  Request("init_workspace", "k", "w") >>
=============================================================================
