------------------------------ MODULE MCBatcher ------------------------------
(* Small instances of Batcher for TLC: see the README for the bounds. *)
EXTENDS Batcher, TLC

Perms == Permutations(Threads)
=============================================================================
