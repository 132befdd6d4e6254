---------------------------- MODULE MCSegmentTable ----------------------------
(* Small instances of SegmentTable for TLC: see the README for the bounds. *)
EXTENDS SegmentTable, TLC

Perms == Permutations(Tx)
=============================================================================
