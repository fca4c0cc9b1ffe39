--------------------------- MODULE MCOrganization ---------------------------
(***************************************************************************)
(* Organization for TLC: two requests of one person for one workspace, and *)
(* one for the placeholder.                                                *)
(***************************************************************************)
EXTENDS Organization, TLC

CONSTANTS h1, h2, r1, r2, r3

Specs == [r \in Requests |->
    [owner |-> "ann", ws |-> IF r = r3 THEN NoWorkspace ELSE "lab",
     role |-> IF r = r1 THEN "workspace_admin" ELSE "workspace_developer"]]

Symmetry == Permutations(Handlers)

=============================================================================
