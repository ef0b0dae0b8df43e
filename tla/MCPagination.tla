----------------------------- MODULE MCPagination -----------------------------
(* Small instances of Pagination for TLC. *)
EXTENDS Pagination

(* A limit that is missing, one row, two rows, and one above the maximum. *)
Limits == {0, 1, 2, 9}
=============================================================================
