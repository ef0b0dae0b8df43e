---------------------------- MODULE MCTaskEngine -----------------------------
(* Small instances of TaskEngine for TLC. *)
EXTENDS TaskEngine, TLC

CONSTANTS w1, w2, c1, c2

MCWorker    == {w1, w2}
MCCanceller == {c1, c2}
MCOneCanceller == {c1}
MCNoCanceller  == {}

Symmetry == Permutations({w1, w2}) \cup Permutations({c1, c2})
=============================================================================
