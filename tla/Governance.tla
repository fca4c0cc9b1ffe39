----------------------------- MODULE Governance -----------------------------
(***************************************************************************)
(* The governance gate of access requests and the rules it reads: policies *)
(* (deny rules), quotas and budgets of the tenants (ai_enforce.go, the     *)
(* operations on them in ai_governance.go, and their routes).              *)
(*                                                                         *)
(* A rule is changed by a handler that reads the row, checks its tenant    *)
(* and then writes by id; the gate reads the three tables, the instances   *)
(* and the usage one after the other.  Every statement is a step.          *)
(*                                                                         *)
(* The audit events of the gate, the warnings included, are left out: no   *)
(* operation reads them.                                                   *)
(***************************************************************************)
EXTENDS Integers, FiniteSets, FiniteSetsExt, Identity

CONSTANTS
    Handlers,       \* goroutines that serve HTTP calls
    CallerOf,       \* the identity each of them serves
    Requests,       \* what access requests are evaluated against
    UsageRows,      \* rows ai_usage_records may hold
    PolicyInputs,   \* bodies of calls that create or update a policy
    QuotaInputs,    \* ... a quota
    BudgetInputs,   \* ... a budget
    Words,          \* names in selectors and scopes; Blank is the empty one
    Blank,
    MaxRows,        \* bound on the rows created in each table
    MaxActive,      \* bound on the active instances of one kind of request
    Faults          \* "read": a read of the gate fails

Selectors == {"providers", "categories", "services", "domains"}
Scopes == {"global", "provider", "owner", "workspace", "tenant"}
Periods == {"daily", "monthly", "yearly"}
Ids == 1 .. MaxRows
AnyTenant == Tenants \cup {NoTenant}

\* aiReqContext: the names that a selector may match, and what scopes a
\* budget and a quota.
aiReqContext ==
    [facts : [Selectors -> SUBSET Words], service : Words, provider : Words,
     owner : Words, workspace : Words, tenant : AnyTenant]

\* The bodies.  Blank and 0 stand for a field that is left out.
createAIPolicyReq ==
    [name : Words, effect : {"deny", "allow"},
     select : [Selectors -> SUBSET Words], status : {"active", "disabled", Blank}]

createAIQuotaReq ==
    [service : Words, metric : {"instances", "seats", "tokens", "cost_usd", Blank},
     limit : Nat, enforcement : {"warn", "block", Blank}]

createAIBudgetReq ==
    [scope : Scopes \cup {Blank}, ref : Words \cup Tenants, limit : Nat,
     soft : Nat, hard : Nat, period : Periods \cup {Blank}]

\* Whom a row of usage is charged to; period is the shortest budget period
\* that is still running and holds the row.
UsageRecord ==
    [provider : Words, owners : SUBSET Words, workspaces : SUBSET Words,
     tenant : AnyTenant, cost : Nat, source : {"estimate", "report", "other"},
     period : Periods]

ASSUME GovernanceAssumption ==
    /\ CallerOf \in [Handlers -> Identities]
    /\ Blank \in Words
    /\ Requests \subseteq aiReqContext
    /\ UsageRows \subseteq UsageRecord
    /\ PolicyInputs \subseteq createAIPolicyReq
    /\ QuotaInputs \subseteq createAIQuotaReq
    /\ BudgetInputs \subseteq createAIBudgetReq
    /\ MaxRows \in Nat /\ MaxActive \in Nat
    /\ Faults \subseteq {"read"}

VARIABLES
    policy,    \* ai_access_policies
    quota,     \* ai_quotas
    budget,    \* ai_budgets
    created,   \* ids given out in each table
    active,    \* active instances, by what was requested
    usage,     \* ai_usage_records
    stage,     \* the next statement of each handler
    work,      \* what it has read
    standing   \* the rules that have forbidden the request it evaluates in
               \* every state since it began; no part of the program

rules == <<policy, quota, budget, created>>
control == <<stage, work>>
vars == <<rules, active, usage, control, standing>>

NoRow == [tenant |-> NoTenant, live |-> FALSE]

Row(tenant, fields) == [tenant |-> tenant, live |-> TRUE, is |-> fields]

NoWork == [id |-> 0, row |-> NoRow, request |-> CHOOSE r \in Requests : TRUE,
           read |-> {}, hard |-> FALSE, blind |-> {}, approving |-> FALSE]

\* The stages of the gate, in their order, and of the writes.
Gate == {"policies", "quotas", "instances", "budgets", "usage", "open"}
Writes == {"setPolicy", "setQuota", "setBudget",
           "dropPolicy", "dropQuota", "dropBudget"}

Init ==
    /\ policy = [i \in Ids |-> NoRow]
    /\ quota = [i \in Ids |-> NoRow]
    /\ budget = [i \in Ids |-> NoRow]
    /\ created = [policy |-> 0, quota |-> 0, budget |-> 0]
    /\ active = [r \in Requests |-> 0]
    /\ usage = {}
    /\ stage = [h \in Handlers |-> "idle"]
    /\ work = [h \in Handlers |-> NoWork]
    /\ standing = [h \in Handlers |-> {}]

-----------------------------------------------------------------------------
(***************************************************************************)
(* Control of a handler.                                                   *)
(***************************************************************************)

\* All routes of this module need an operator; lists, which change nothing
\* and are read here as Visible, a viewer.
Calls(h) == stage[h] = "idle" /\ AtLeast(CallerOf[h], "operator")

Goto(h, s, w) ==
    /\ stage' = [stage EXCEPT ![h] = s]
    /\ work' = [work EXCEPT ![h] = w]

Return(h) == Goto(h, "idle", NoWork)

-----------------------------------------------------------------------------
(***************************************************************************)
(* Policies.                                                               *)
(***************************************************************************)

isDeny(p) == p.effect # "allow"

\* A rule without a selector selects nothing, or an empty one would deny
\* every request.
hasSelector(p) == \E k \in Selectors : p.select[k] \ {Blank} # {}

matchAny(patterns, candidates) ==
    patterns = {} \/ Blank \in patterns \/ patterns \cap candidates # {}

matches(p, r) == \A k \in Selectors : matchAny(p.select[k], r.facts[k])

Denies(p, r) == p.status = "active" /\ isDeny(p) /\ hasSelector(p) /\ matches(p, r)

-----------------------------------------------------------------------------
(***************************************************************************)
(* Quotas on instances; those on tokens and cost are the gateway's.        *)
(***************************************************************************)

\* The active instances among those read that the quota is about.
ActiveUnder(q, rows) ==
    MapThenSumSet(LAMBDA r : rows[r],
                  {r \in Requests : q.service \in {Blank, r.service}})

QuotaBlocks(q, r, rows) ==
    /\ q.metric \in {"instances", "seats"}
    /\ q.service \in {Blank, r.service}
    /\ ActiveUnder(q, rows) >= q.limit
    /\ q.enforcement = "block"

-----------------------------------------------------------------------------
(***************************************************************************)
(* Budgets.                                                                *)
(***************************************************************************)

\* The rows of a period: a month holds its days.
InPeriod(u, period) ==
    u.period \in CASE period = "daily" -> {"daily"}
                   [] period = "monthly" -> {"daily", "monthly"}
                   [] OTHER -> Periods

\* A row answers to the name of its instance and to the one it was imported
\* with.
aiBudgetScopeMatches(b, u) ==
    \/ b.scope = "global"
    \/ b.scope = "provider" /\ b.ref \in {Blank, u.provider}
    \/ b.scope = "owner" /\ b.ref \in u.owners
    \/ b.scope = "workspace" /\ b.ref \in u.workspaces
    \/ b.scope = "tenant" /\ u.tenant = IF b.ref = Blank THEN NoTenant ELSE b.ref

\* The spend report of a provider supersedes its estimates in the window.
aiCostUSD(rows) ==
    LET reported == {u.provider : u \in {v \in rows : v.source = "report"}} IN
    MapThenSumSet(LAMBDA u : u.cost,
                  {u \in rows : u.source = "estimate" => u.provider \notin reported})

aiBudgetActualUSD(b, rows) ==
    aiCostUSD({u \in rows : InPeriod(u, b.period) /\ aiBudgetScopeMatches(b, u)})

\* The status "hard_limit" of a summary.
Exhausted(b, rows) == aiBudgetActualUSD(b, rows) * 100 >= b.hard * b.limit

budgetAppliesToRequest(b, r) ==
    \/ b.scope = "global"
    \/ b.scope = "provider" /\ b.ref \in {Blank, r.provider}
    \/ b.scope = "owner" /\ b.ref = r.owner
    \/ b.scope = "workspace" /\ b.ref \in {Blank, r.workspace}
    \/ b.scope = "tenant" /\ r.tenant = IF b.ref = Blank THEN NoTenant ELSE b.ref

BudgetBlocks(b, r, rows) == budgetAppliesToRequest(b, r) /\ Exhausted(b, rows)

-----------------------------------------------------------------------------
(***************************************************************************)
(* What a caller reads of a table: the List operations filter by tenant.   *)
(***************************************************************************)

Rows(table) == {table[i] : i \in {j \in Ids : table[j].live}}

ListAIAccessPolicies(h) == {p.is : p \in Visible(Rows(policy), CallerOf[h])}
ListAIQuotas(h) == {q.is : q \in Visible(Rows(quota), CallerOf[h])}
ListAIBudgets(h) == {b.is : b \in Visible(Rows(budget), CallerOf[h])}

\* An instance has the tenant of its request.
ListAIInstances(h) ==
    [r \in Requests |->
        IF scopeTenant(CallerOf[h]) /\ ~tenantVisible(r.tenant, CallerOf[h])
        THEN 0 ELSE active[r]]

ListAIUsageRecords(h) == Visible(usage, CallerOf[h])

-----------------------------------------------------------------------------
(***************************************************************************)
(* Steps with a defect, used by no specification.                          *)
(***************************************************************************)

\* Rows without a tenant are anybody's, as providers are.
GuardLetsGlobalPass(h, t) ==
    t = NoTenant \/ (scopeTenant(CallerOf[h]) => tenantVisible(t, CallerOf[h]))

\* The result of the last table counts, not that of any table.
QuotasOverwrite(h) ==
    /\ stage[h] = "instances"
    /\ Goto(h, "budgets", [work[h] EXCEPT
           !.read = {},
           !.hard = \E q \in work[h].read :
                        QuotaBlocks(q, work[h].request, ListAIInstances(h))])
    /\ UNCHANGED <<rules, active, usage>>

\* A status that is left out stays empty.
PolicyAsGiven(in) == in

-----------------------------------------------------------------------------
(***************************************************************************)
(* The operations on rules.                                                *)
(***************************************************************************)

aiTenantGuard(h, t) == scopeTenant(CallerOf[h]) => tenantVisible(t, CallerOf[h])

\* An insert: the row belongs to the caller's tenant.
NewRow(h, fields) == Row(tenantForCreate(CallerOf[h]), fields)

Insert(table, name, row) ==
    /\ created[name] < MaxRows
    /\ created' = [created EXCEPT ![name] = @ + 1]
    /\ table' = [table EXCEPT ![created[name] + 1] = row]

\* A row of the table that the caller may change.
Found(h, table, i) == table[i].live /\ aiTenantGuard(h, table[i].tenant)

Policy(in) == [in EXCEPT !.status = IF in.status = Blank THEN "active" ELSE in.status]

\* The name is unique.
CreateAIAccessPolicy(h) ==
    /\ Calls(h)
    /\ \E in \in PolicyInputs :
         /\ in.name # Blank
         /\ \A p \in Rows(policy) : p.is.name # in.name
         /\ Insert(policy, "policy", NewRow(h, Policy(in)))
    /\ UNCHANGED <<quota, budget, active, usage, control>>

GetForUpdatePolicy(h) ==
    /\ Calls(h)
    /\ \E i \in Ids, in \in PolicyInputs :
         /\ Found(h, policy, i)
         /\ Goto(h, "setPolicy", [NoWork EXCEPT !.id = i,
                !.row = Row(policy[i].tenant, [Policy(in) EXCEPT !.name = policy[i].is.name])])
    /\ UNCHANGED <<rules, active, usage>>

GetForDeletePolicy(h) ==
    /\ Calls(h)
    /\ \E i \in Ids : /\ Found(h, policy, i)
                      /\ Goto(h, "dropPolicy", [NoWork EXCEPT !.id = i])
    /\ UNCHANGED <<rules, active, usage>>

Quota(in) ==
    [in EXCEPT !.metric = IF in.metric = Blank THEN "tokens" ELSE in.metric,
               !.enforcement = IF in.enforcement = Blank THEN "warn" ELSE in.enforcement]

\* The service, when one is named, is there.
CreateAIQuota(h) ==
    /\ Calls(h)
    /\ \E in \in QuotaInputs :
         /\ in.limit > 0
         /\ in.service = Blank \/ \E r \in Requests : r.service = in.service
         /\ Insert(quota, "quota", NewRow(h, Quota(in)))
    /\ UNCHANGED <<policy, budget, active, usage, control>>

\* Service and metric stay.
GetForUpdateQuota(h) ==
    /\ Calls(h)
    /\ \E i \in Ids, in \in QuotaInputs :
         /\ in.limit > 0
         /\ Found(h, quota, i)
         /\ Goto(h, "setQuota", [NoWork EXCEPT !.id = i,
                !.row = Row(quota[i].tenant, [quota[i].is EXCEPT
                    !.limit = in.limit,
                    !.enforcement = Quota(in).enforcement])])
    /\ UNCHANGED <<rules, active, usage>>

GetForDeleteQuota(h) ==
    /\ Calls(h)
    /\ \E i \in Ids : /\ Found(h, quota, i)
                      /\ Goto(h, "dropQuota", [NoWork EXCEPT !.id = i])
    /\ UNCHANGED <<rules, active, usage>>

Budget(in) ==
    [scope |-> IF in.scope = Blank THEN "global" ELSE in.scope, ref |-> in.ref,
     limit |-> in.limit,
     soft |-> IF in.soft = 0 THEN 80 ELSE in.soft,
     hard |-> IF in.hard = 0 THEN 100 ELSE in.hard,
     period |-> IF in.period = Blank THEN "monthly" ELSE in.period]

validateAIBudgetThresholds(b) == b.soft > 0 /\ b.hard > 0 /\ b.soft <= b.hard

CreateAIBudget(h) ==
    /\ Calls(h)
    /\ \E in \in BudgetInputs :
         /\ in.limit > 0
         /\ validateAIBudgetThresholds(Budget(in))
         /\ Insert(budget, "budget", NewRow(h, Budget(in)))
    /\ UNCHANGED <<policy, quota, active, usage, control>>

\* A scope that is left out is the one read here.
GetForUpdateBudget(h) ==
    /\ Calls(h)
    /\ \E i \in Ids, in \in BudgetInputs :
         /\ in.limit > 0
         /\ Found(h, budget, i)
         /\ validateAIBudgetThresholds(Budget(in))
         /\ LET old == budget[i].is IN
            Goto(h, "setBudget", [NoWork EXCEPT !.id = i,
                !.row = Row(budget[i].tenant, [Budget(in) EXCEPT
                    !.scope = IF in.scope = Blank THEN old.scope ELSE @,
                    !.ref = IF in.scope = Blank THEN old.ref ELSE @])])
    /\ UNCHANGED <<rules, active, usage>>

GetForDeleteBudget(h) ==
    /\ Calls(h)
    /\ \E i \in Ids : /\ Found(h, budget, i)
                      /\ Goto(h, "dropBudget", [NoWork EXCEPT !.id = i])
    /\ UNCHANGED <<rules, active, usage>>

\* The UPDATE by id; a row that is gone by now is an error.
SetRow(table, i, row) == table' = [table EXCEPT ![i] = IF @.live THEN row ELSE @]

UpdateAIAccessPolicy(h) ==
    /\ stage[h] = "setPolicy"
    /\ SetRow(policy, work[h].id, work[h].row)
    /\ Return(h)
    /\ UNCHANGED <<quota, budget, created, active, usage>>

\* Of the row only the columns named in the statement, which the others of
\* the same row never differ in.
UpdateAIQuota(h) ==
    /\ stage[h] = "setQuota"
    /\ SetRow(quota, work[h].id, work[h].row)
    /\ Return(h)
    /\ UNCHANGED <<policy, budget, created, active, usage>>

UpdateAIBudget(h) ==
    /\ stage[h] = "setBudget"
    /\ SetRow(budget, work[h].id, work[h].row)
    /\ Return(h)
    /\ UNCHANGED <<policy, quota, created, active, usage>>

DropRow(table, i) == table' = [table EXCEPT ![i] = NoRow]

DeleteAIAccessPolicy(h) ==
    /\ stage[h] = "dropPolicy"
    /\ DropRow(policy, work[h].id)
    /\ Return(h)
    /\ UNCHANGED <<quota, budget, created, active, usage>>

DeleteAIQuota(h) ==
    /\ stage[h] = "dropQuota"
    /\ DropRow(quota, work[h].id)
    /\ Return(h)
    /\ UNCHANGED <<policy, budget, created, active, usage>>

DeleteAIBudget(h) ==
    /\ stage[h] = "dropBudget"
    /\ DropRow(budget, work[h].id)
    /\ Return(h)
    /\ UNCHANGED <<policy, quota, created, active, usage>>

-----------------------------------------------------------------------------
(***************************************************************************)
(* The gate, evaluateAIGovernance.                                         *)
(***************************************************************************)

Evaluate(h, r, approving) ==
    /\ Goto(h, "policies", [NoWork EXCEPT !.request = r, !.approving = approving])
    /\ UNCHANGED <<rules, active, usage>>

\* CreateAIRequest evaluates the request it is about to file ...
CreateAIRequest(h) ==
    /\ Calls(h)
    /\ \E r \in Requests :
         /\ r.tenant = tenantForCreate(CallerOf[h])
         /\ Evaluate(h, r, FALSE)

\* ... and ProvisionAIRequest the one that has been approved.
ProvisionAIRequest(h) ==
    /\ Calls(h)
    /\ \E r \in Requests :
         /\ scopeTenant(CallerOf[h]) => tenantVisible(r.tenant, CallerOf[h])
         /\ Evaluate(h, r, TRUE)

\* What one part of the gate finds is added to what the others found.
Then(h, next, read, hard) ==
    /\ Goto(h, next, [work[h] EXCEPT !.read = read, !.hard = @ \/ hard])
    /\ UNCHANGED <<rules, active, usage>>

GatePolicies(h) ==
    /\ stage[h] = "policies"
    /\ Then(h, "quotas", {},
            \E p \in ListAIAccessPolicies(h) : Denies(p, work[h].request))

GateQuotas(h) ==
    /\ stage[h] = "quotas"
    /\ Then(h, "instances", ListAIQuotas(h), FALSE)

\* The instances are read once the quotas are in hand.
GateInstances(h) ==
    /\ stage[h] = "instances"
    /\ Then(h, "budgets", {},
            \E q \in work[h].read : QuotaBlocks(q, work[h].request, ListAIInstances(h)))

GateBudgets(h) ==
    /\ stage[h] = "budgets"
    /\ Then(h, "usage", ListAIBudgets(h), FALSE)

\* The summaries of the budgets, and the verdict.
GateUsage(h) ==
    /\ stage[h] = "usage"
    /\ LET w == work[h] IN
       IF w.hard \/ \E b \in w.read : BudgetBlocks(b, w.request, ListAIUsageRecords(h))
       THEN Return(h)
       ELSE Goto(h, "open", [w EXCEPT !.read = {}])
    /\ UNCHANGED <<rules, active, usage>>

\* A failed read is ignored, and its part of the gate is open.
GateReadFails(h) ==
    /\ "read" \in Faults
    /\ LET Blind(next, part) ==
               Goto(h, next, [work[h] EXCEPT !.read = {}, !.blind = @ \cup {part}])
       IN  \/ stage[h] = "policies" /\ Blind("quotas", "policy")
           \/ stage[h] \in {"quotas", "instances"} /\ Blind("budgets", "quota")
           \/ /\ stage[h] \in {"budgets", "usage"}
              /\ IF work[h].hard THEN Return(h) ELSE Blind("open", "budget")
    /\ UNCHANGED <<rules, active, usage>>

\* The request is filed; or its access is granted, AccessLifecycle.
GateOpen(h) ==
    /\ stage[h] = "open"
    /\ LET r == work[h].request IN
       IF work[h].approving /\ active[r] < MaxActive
       THEN active' = [active EXCEPT ![r] = @ + 1]
       ELSE UNCHANGED active
    /\ Return(h)
    /\ UNCHANGED <<rules, usage>>

-----------------------------------------------------------------------------
(***************************************************************************)
(* The rest of the system: access ends, and usage is recorded.             *)
(***************************************************************************)

AccessEnds ==
    /\ \E r \in Requests :
         /\ active[r] > 0
         /\ active' = [active EXCEPT ![r] = @ - 1]
    /\ UNCHANGED <<rules, usage, control>>

UsageRecorded ==
    /\ \E u \in UsageRows \ usage : usage' = usage \cup {u}
    /\ UNCHANGED <<rules, active, control>>

-----------------------------------------------------------------------------
Named(kind, rows) == {[kind |-> kind, is |-> x] : x \in rows}

\* The rules that forbid the request of h in this state, and that its caller
\* is shown.
Forbidding(h) ==
    LET r == work[h].request IN
    Named("policy", {p \in ListAIAccessPolicies(h) : Denies(p, r)})
      \cup Named("quota", {q \in ListAIQuotas(h) : QuotaBlocks(q, r, ListAIInstances(h))})
      \cup Named("budget", {b \in ListAIBudgets(h) :
                                BudgetBlocks(b, r, ListAIUsageRecords(h))})

Remember ==
    standing' = [h \in Handlers |->
        IF stage'[h] \notin Gate THEN {}
        ELSE IF stage[h] \in Gate THEN standing[h] \cap Forbidding(h)'
        ELSE Forbidding(h)']

Administer(h) ==
    \/ CreateAIAccessPolicy(h) \/ CreateAIQuota(h) \/ CreateAIBudget(h)
    \/ GetForUpdatePolicy(h) \/ GetForUpdateQuota(h) \/ GetForUpdateBudget(h)
    \/ GetForDeletePolicy(h) \/ GetForDeleteQuota(h) \/ GetForDeleteBudget(h)
    \/ UpdateAIAccessPolicy(h) \/ UpdateAIQuota(h) \/ UpdateAIBudget(h)
    \/ DeleteAIAccessPolicy(h) \/ DeleteAIQuota(h) \/ DeleteAIBudget(h)

evaluateAIGovernance(h) ==
    \/ CreateAIRequest(h) \/ ProvisionAIRequest(h)
    \/ GatePolicies(h) \/ GateQuotas(h) \/ GateInstances(h)
    \/ GateBudgets(h) \/ GateUsage(h) \/ GateReadFails(h) \/ GateOpen(h)

Next ==
    /\ \/ \E h \in Handlers : Administer(h) \/ evaluateAIGovernance(h)
       \/ AccessEnds \/ UsageRecorded
    /\ Remember

Spec == Init /\ [][Next]_vars

-----------------------------------------------------------------------------
(***************************************************************************)
(* Properties.                                                             *)
(***************************************************************************)

\* The tables hold what their checks and the validation let in, whatever
\* mixture of fields an update writes back: statuses are not empty, limits are
\* positive, the thresholds of a budget are in order and names are unique.
WellFormedRules ==
    /\ \A p \in Rows(policy) : p.is.status \in {"active", "disabled"}
    /\ \A i, j \in Ids : policy[i].live /\ policy[j].live /\ i # j
                           => policy[i].is.name # policy[j].is.name
    /\ \A q \in Rows(quota) : q.is.enforcement \in {"warn", "block"} /\ q.is.limit > 0
    /\ \A b \in Rows(budget) : b.is.limit > 0 /\ validateAIBudgetThresholds(b.is)
    /\ \A r \in Requests : active[r] \in 0 .. MaxActive
    /\ \A h \in Handlers : stage[h] \in {"idle"} \cup Gate \cup Writes

\* A request that the gate lets through was not forbidden all the while: no
\* rule that the caller is shown denied it from the first read of the gate to
\* the last, however rules, instances and usage change between the reads.  A
\* failed read hides the rules of its own table and of no other
\* (ai_enforce.go: evaluateAIGovernance "BLOCKS ... on a hard violation").
StandingRuleBlocks ==
    \A h \in Handlers : stage[h] = "open" =>
        {f \in standing[h] : f.kind \notin work[h].blind} = {}

\* A caller bound to a tenant changes no rule of another tenant and none that
\* has no tenant, also when the row it has read is deleted or updated by
\* others before its own statement (aiTenantGuard).
ForeignRulesUntouched ==
    [][\A h \in Handlers, i \in Ids :
         stage[h] # "idle" /\ stage'[h] = "idle" /\ scopeTenant(CallerOf[h]) =>
             \A table \in {<<policy, policy'>>, <<quota, quota'>>, <<budget, budget'>>} :
                 table[1][i] # table[2][i] =>
                     tenantVisible(table[1][i].tenant, CallerOf[h])]_vars

=============================================================================
