SPECIFICATION LiveSpec

CONSTANTS
    r1 = r1
    h1 = h1
    h2 = h2
    reaper = reaper
    None = None
    Requests = {r1}
    Handlers = {h1, h2, reaper}
    Reaper = reaper
    Quota = 1
    MaxTime = 2
    Extension = 1
    Windows = {2}
    Operations = {"approve", "reject", "revoke", "recertify", "reap"}
    Faults = {"refuse"}

INVARIANTS
    TypeOK
    AccessHasOwner

PROPERTIES
    RevokedIsFinal
    KeepsContract
    ExpiredIsReaped
    ApprovalSettles

CHECK_DEADLOCK FALSE

