----------------------------- MODULE MCProjects -----------------------------
(***************************************************************************)
(* Projects for TLC: a request that creates a project for its models, and  *)
(* one for the tools of the project that is there.                         *)
(***************************************************************************)
EXTENDS Projects, TLC

CONSTANTS h1, h2, r1, r2

Allow(ids) == [mode |-> "allow_list", ids |-> ids]

Asked == [r \in Requests |->
    [project |-> IF r = r2 THEN 1 ELSE 0,
     create |-> r = r1,
     service |-> IF r = r1 THEN "models" ELSE "tools",
     permissions |-> Allow({"gpt"})]]

Sent == {Allow({"gpt"}), Allow({" "})}

Symmetry == Permutations(Handlers)

=============================================================================
