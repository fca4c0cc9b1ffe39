------------------------------ MODULE MCCatalog ------------------------------
(***************************************************************************)
(* Catalog for TLC: an operator of the tenant acme and an administrator of  *)
(* zeta; two names, of which one may get a type without implementation.    *)
(***************************************************************************)
EXTENDS Catalog, TLC

CONSTANTS operator, admin, acme, zeta

Callers == [h \in Handlers |->
    IF h = operator THEN [role |-> "operator", tenant |-> acme]
                    ELSE [role |-> "admin", tenant |-> zeta]]

Registrations ==
    {[name |-> "openai", implemented |-> TRUE, config |-> {}, ref |-> NoRef],
     [name |-> "copy", implemented |-> TRUE, config |-> {}, ref |-> NoRef],
     [name |-> "copy", implemented |-> FALSE, config |-> {}, ref |-> "vault"]}

\* A rotation, and a change that tries to keep a key in the config.
Patches ==
    {[put |-> {"region"}, del |-> {}, status |-> "keep", ref |-> "vault"],
     [put |-> {"api_key"}, del |-> {}, status |-> "disabled", ref |-> Same]}

=============================================================================
