SPECIFICATION Spec

CONSTANTS
    r1 = r1
    h1 = h1
    h2 = h2
    reaper = reaper
    None = None
    Requests = {r1}
    Handlers = {h1, h2, reaper}
    Reaper = reaper
    Quota = 1
    MaxTime = 1
    Extension = 1
    Windows = {3}
    Operations = {"approve", "reject"}
    Faults = {}

SYMMETRY Symmetry

PROPERTIES
    OnlyPendingIsDecided

CHECK_DEADLOCK FALSE
