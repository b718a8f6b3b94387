----------------------------- MODULE MCSlotLogin -----------------------------
(* SlotLogin for TLC: session b1 is client b's, the others are client a's. *)
EXTENDS SlotLogin, TLC

CONSTANTS a, b, b1

MCOwner == [s \in Sessions |-> IF s = b1 THEN b ELSE a]

Symmetry == Permutations(Tasks)
=============================================================================
