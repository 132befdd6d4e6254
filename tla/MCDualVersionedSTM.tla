-------------------------- MODULE MCDualVersionedSTM --------------------------
(* Small instances of DualVersionedSTM for TLC: see the README for the bounds. *)
EXTENDS DualVersionedSTM, FiniteSets, TLC

WriterPerms == Permutations(Tx \ ReadOnly)
Perms == Permutations(Words) \union WriterPerms

\* A read-only transaction reads once: it opens the first batch.
OneCall == [t \in Tx |-> 1]
TwoCalls == [t \in Tx |-> IF t \in ReadOnly THEN 1 ELSE 2]
ThreeCalls == [t \in Tx |-> IF t \in ReadOnly THEN 1 ELSE 3]
=============================================================================
