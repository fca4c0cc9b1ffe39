SPECIFICATION Spec

CONSTANTS
    h1 = h1
    h2 = h2
    r1 = r1
    r2 = r2
    Handlers = {h1, h2}
    Emails = {"ann"}
    MaxProjects = 2
    Requests = {r1, r2}
    SpecOf <- Asked
    Models = {"gpt"}
    Blank = " "
    Limits = {"rpm"}
    Cents = {0, 100}
    RoleInputs = {"developer", "admin", "owner", "workspace_admin"}
    AdminRoles = {"admin", "workspace_admin"}
    PermInputs <- Sent
    Faults = {"refuse", "lost", "db"}

SYMMETRY Symmetry

INVARIANTS
    TypeOK
    ProjectsAccounted
    GrantedIsApplied
    WritesReachAudit
    OwnersWereAsked

PROPERTIES
    RollbackTakesOwn

CHECK_DEADLOCK FALSE
