SPECIFICATION Spec

CONSTANTS
    c1 = c1
    c2 = c2
    i1 = i1
    i2 = i2
    Callers = {c1, c2}
    Importers = {i1, i2}
    BudgetLimit = 2
    CostQuota = 2
    Costs = {1}
    MaxDay = 2
    MaxSpend = 3
    Faults = {"read", "lost", "db", "cut", "amount"}

SYMMETRY Symmetry

INVARIANTS
    CountedWithinCharged
    CopiesBounded
    ImportCovers

CHECK_DEADLOCK FALSE
