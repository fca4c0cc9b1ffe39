SPECIFICATION Spec

CONSTANTS
    r1 = r1
    r2 = r2
    h1 = h1
    h2 = h2
    reaper = reaper
    None = None
    Requests = {r1, r2}
    Handlers = {h1, h2, reaper}
    Reaper = reaper
    Quota = 1
    MaxTime = 1
    Extension = 1
    Windows = {1, 3}
    Operations = {"approve", "reject", "revoke", "recertify", "delete"}
    Faults = {"db", "refuse", "lost", "gone", "secrets", "abort"}

SYMMETRY Symmetry

INVARIANTS
    NothingBeforeDecision
    QuotaOvershootBounded

PROPERTIES
    DecisionIsFinal

CHECK_DEADLOCK FALSE
