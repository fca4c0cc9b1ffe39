SPECIFICATION Spec

CONSTANTS
    op1 = op1
    op2 = op2
    agent = agent
    Handlers = {op1, op2, agent}
    CallerOf <- Callers
    Tenants = {}
    NoTenant = NoTenant
    Names = {"mail"}
    Owners = {"team"}
    Tools = {"send"}
    Windows = {1, 3}
    MaxServers = 2
    MaxGrants = 2
    MaxTime = 2
    Faults = {"db"}

SYMMETRY Symmetry

INVARIANTS
    TypeOK
    ActiveIsDecided
    AllowedIsDecided
    GrantsHaveServer

CHECK_DEADLOCK FALSE
