SPECIFICATION Spec

CONSTANTS
    h1 = h1
    h2 = h2
    r1 = r1
    r2 = r2
    r3 = r3
    NoWorkspace = NoWorkspace
    Handlers = {h1, h2}
    Emails = {"ann"}
    Workspaces = {"lab"}
    Requests = {r1, r2, r3}
    SpecOf <- Specs
    RoleInputs = {"developer", "billing", "admin"}
    GrantInputs = {"workspace_developer", "workspace_billing"}
    Operations = {"invite", "role", "remove", "create", "archive", "grant", "unseat", "promote"}
    MaxInvites = 1
    Faults = {"refuse", "lost", "db"}

SYMMETRY Symmetry

INVARIANTS
    TypeOK
    AccessAccounted
    OnlyConsoleAdmins

CHECK_DEADLOCK FALSE
