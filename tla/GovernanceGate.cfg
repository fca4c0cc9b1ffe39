SPECIFICATION Spec

CONSTANTS
    operator = operator
    admin = admin
    acme = acme
    Handlers = {operator, admin}
    CallerOf <- Callers
    Tenants = {acme}
    NoTenant = NoTenant
    Words <- Names
    Blank = ""
    Requests <- Asked
    UsageRows <- Spent
    PolicyInputs <- Policies
    QuotaInputs <- Quotas
    BudgetInputs <- Budgets
    MaxRows = 1
    MaxActive = 1
    Faults = {"read"}

INVARIANTS
    WellFormedRules
    StandingRuleBlocks

PROPERTIES
    ForeignRulesUntouched

CHECK_DEADLOCK FALSE
