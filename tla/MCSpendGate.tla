---------------------------- MODULE MCSpendGate ----------------------------
(***************************************************************************)
(* SpendGate for TLC: callers are interchangeable, and so are imports.     *)
(***************************************************************************)
EXTENDS SpendGate, TLC

Symmetry == Permutations(Callers) \cup Permutations(Importers)

=============================================================================
