---------------------------- MODULE MCMCPAccess -----------------------------
(***************************************************************************)
(* MCPAccess for TLC: two operators and an agent with a viewer's key.      *)
(***************************************************************************)
EXTENDS MCPAccess, TLC

CONSTANTS op1, op2, agent

Callers == [h \in Handlers |->
    [role |-> IF h = agent THEN "viewer" ELSE "operator", tenant |-> NoTenant]]

Symmetry == Permutations({op1, op2} \cap Handlers)

=============================================================================
