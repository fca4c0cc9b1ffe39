SPECIFICATION Spec

CONSTANTS
    r1 = r1
    r2 = r2
    r3 = r3
    h1 = h1
    reaper = reaper
    None = None
    Requests = {r1, r2, r3}
    Handlers = {h1, reaper}
    Reaper = reaper
    Quota = 2
    MaxTime = 2
    Extension = 1
    Windows = {1, 4}
    Operations = {"approve", "reject", "revoke", "recertify", "reap", "delete"}
    Faults = {"refuse", "gone", "read"}

SYMMETRY Symmetry

INVARIANTS
    SettledStoresAgree

CHECK_DEADLOCK FALSE
