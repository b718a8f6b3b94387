--------------------------- MODULE MCObjectLifetime ---------------------------
(* ObjectLifetime for TLC. *)
EXTENDS ObjectLifetime, TLC

Symmetry == Permutations(Mints)
=============================================================================
