-------------------------- MODULE MCTemplateSegments --------------------------
(* Small instances of TemplateSegments for TLC: see the README for the bounds. *)
EXTENDS TemplateSegments, TLC

Perms == Permutations(Tx)
=============================================================================
