------------------------- MODULE MCAccessLifecycle -------------------------
(***************************************************************************)
(* AccessLifecycle for TLC.  Requests are interchangeable, and so are the  *)
(* handlers that serve HTTP calls.                                         *)
(***************************************************************************)
EXTENDS AccessLifecycle, TLC

Symmetry == Permutations(Requests) \cup Permutations(Callers)

=============================================================================
