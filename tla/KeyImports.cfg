SPECIFICATION Spec

CONSTANTS
    h1 = h1
    h2 = h2
    r1 = r1
    r2 = r2
    Handlers = {h1, h2}
    Requests = {r1, r2}
    MaxSpend = 1
    MaxRows = 3
    Faults = {"refuse", "lost", "store", "read", "db"}

SYMMETRY Symmetry

INVARIANTS
    TypeOK
    LiveKeyIsAnsweredFor
    KeyOnlyInStore

PROPERTIES
    ImportFollowsSpend

CHECK_DEADLOCK FALSE
