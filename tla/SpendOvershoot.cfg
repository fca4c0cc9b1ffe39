SPECIFICATION Spec

CONSTANTS
    c1 = c1
    c2 = c2
    c3 = c3
    Callers = {c1, c2, c3}
    Importers = {}
    BudgetLimit = 2
    CostQuota = 3
    Costs = {1, 2}
    MaxDay = 2
    MaxSpend = 10
    Faults = {}

SYMMETRY Symmetry

INVARIANTS
    TypeOK
    OverspendBounded

CHECK_DEADLOCK FALSE
