---------------------------- MODULE MCGovernance ----------------------------
(***************************************************************************)
(* Governance for TLC: an operator of the tenant acme, an administrator    *)
(* without a tenant, and requests of the tenant.                           *)
(***************************************************************************)
EXTENDS Governance, TLC

CONSTANTS operator, admin, acme

Callers == [h \in Handlers |->
    IF h = operator THEN [role |-> "operator", tenant |-> acme]
                    ELSE [role |-> "admin", tenant |-> NoTenant]]

Names == {"", "openai", "gpt", "ann"}

Request(t) ==
    [facts |-> [providers |-> {"openai"}, categories |-> {"gpt"},
                services |-> {"gpt"}, domains |-> {"ann"}],
     service |-> "gpt", provider |-> "openai", owner |-> "ann",
     workspace |-> "ann", tenant |-> t]

Asked == {Request(acme)}

Nothing == [k \in Selectors |-> {}]

Policies ==
    {[name |-> "gpt", effect |-> "deny", status |-> "",
      select |-> [Nothing EXCEPT !["services"] = {"gpt"}]]}

Quotas ==
    {[service |-> "", metric |-> "seats", limit |-> 1, enforcement |-> "block"]}

Budgets ==
    {[scope |-> "", ref |-> "", limit |-> 1, soft |-> 0, hard |-> 0, period |-> ""]}

Spent ==
    {[provider |-> "openai", owners |-> {"ann"}, workspaces |-> {"ann"},
      tenant |-> acme, cost |-> 1, source |-> "estimate", period |-> "daily"]}

=============================================================================
