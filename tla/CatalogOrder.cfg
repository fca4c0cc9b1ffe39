SPECIFICATION Spec

CONSTANTS
    operator = operator
    admin = admin
    acme = acme
    zeta = zeta
    Handlers = {operator, admin}
    CallerOf <- Callers
    Tenants = {acme, zeta}
    NoTenant = NoTenant
    Names = {"openai", "copy"}
    CreateInputs <- Registrations
    UpdateInputs <- Patches
    Keys = {"region", "api_key"}
    SecretKeys = {"api_key"}
    Refs = {"vault"}
    Slugs = {"gpt"}
    Models = {"gpt-5"}
    Requests = {"r"}
    MaxProviders = 2
    Faults = {"db"}

INVARIANTS
    TypeOK
    CatalogHasProvider
    SyncCovers
    InstanceOfNamedProvider

PROPERTIES
    ForeignProvidersUntouched

CHECK_DEADLOCK FALSE
