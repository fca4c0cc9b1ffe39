--------------------------- MODULE MCLiteLLMKeys ----------------------------
(***************************************************************************)
(* LiteLLMKeys for TLC.                                                    *)
(***************************************************************************)
EXTENDS LiteLLMKeys, TLC

CONSTANTS h1, h2, r1, r2

Symmetry == Permutations(Handlers) \cup Permutations(Requests)

=============================================================================
