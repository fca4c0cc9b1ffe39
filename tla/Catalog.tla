------------------------------- MODULE Catalog -------------------------------
(***************************************************************************)
(* The registered AI providers, their credential references, the catalog   *)
(* of services and models imported from them, and which of it an access    *)
(* request gets (orchestrator/ai.go, the model catalog of                  *)
(* ai_governance.go, and their routes).                                    *)
(*                                                                         *)
(* Providers are found by name and written by id.  The decision on a       *)
(* request and the provider's part in a grant and a revocation are in      *)
(* AccessLifecycle; here the row of an instance is what a provider cannot  *)
(* be deleted under.  Every implemented type advertises the same services  *)
(* and models.                                                             *)
(***************************************************************************)
EXTENDS Integers, FiniteSets, Identity

CONSTANTS
    Handlers,       \* goroutines that serve HTTP calls
    CallerOf,       \* the identity each of them serves
    Names,          \* names of providers
    CreateInputs,   \* bodies of POST /ai/providers
    UpdateInputs,   \* bodies of PATCH /ai/providers/{name}
    Keys,           \* keys of a provider's config
    SecretKeys,     \* those that isSensitiveAIConfigKey knows
    Refs,           \* secret references
    Slugs,          \* services a provider advertises
    Models,         \* models it advertises
    Requests,       \* access requests
    MaxProviders,   \* bound on the registrations
    Faults          \* "db": a write fails; "provider": a call to one fails

Ids == 1 .. MaxProviders
NoRef == ""

createAIProviderReq ==
    [name : Names, implemented : BOOLEAN, config : SUBSET Keys, ref : Refs \cup {NoRef}]

\* Keys to set and keys to delete (a null value); "keep" and Same stand for
\* fields that are left out.
Same == "same"

updateAIProviderReq ==
    [put : SUBSET Keys, del : SUBSET Keys, status : {"active", "disabled", "keep"},
     ref : Refs \cup {NoRef, Same}]

ASSUME CatalogAssumption ==
    /\ CallerOf \in [Handlers -> Identities]
    /\ Slugs # {} /\ "" \notin Slugs
    /\ SecretKeys \subseteq Keys
    /\ {NoRef, Same} \cap Refs = {}
    /\ CreateInputs \subseteq createAIProviderReq
    /\ UpdateInputs \subseteq updateAIProviderReq
    /\ MaxProviders \in Nat
    /\ Faults \subseteq {"db", "provider"}

\* Not every type that validAIProviderType lets in has an implementation.
Providers ==
    [id : 0 .. MaxProviders, implemented : BOOLEAN, config : SUBSET Keys,
     status : {"active", "disabled"}, tenant : Tenants \cup {NoTenant}]

NoProvider ==
    [id |-> 0, implemented |-> FALSE, config |-> {}, status |-> "disabled",
     tenant |-> NoTenant]

\* A service is known by its provider and its slug, unique together.
Services == Ids \X Slugs
NoService == <<0, "">>

\* The spec of a request: a service id, or nothing but a slug; and the name
\* in requests.provider.
Specs == [id : Services \cup {NoService}, slug : Slugs \cup {""},
          provider : Names \cup {""}]
NoSpec == [id |-> NoService, slug |-> "", provider |-> ""]

VARIABLES
    provider,    \* ai_providers, by their unique name
    registered,  \* ids given out
    credential,  \* the newest ai_provider_credentials row of each provider
    service,     \* ai_services
    model,       \* ai_model_catalog
    request,     \* requests.spec and requests.provider; NoSpec: not filed
    instance,    \* the service of each request's ai_service_instances row
    live,        \* the instances that are active, and not yet revoked
    stage,       \* the next statement of each handler
    work         \* what it has read and is about to write

catalog == <<service, model>>
access == <<request, instance, live>>
control == <<stage, work>>
vars == <<provider, registered, credential, catalog, access, control>>

\* The provider, the services or models still to enter, the request, the
\* service found for it, and the columns to write.
Works ==
    [id : 0 .. MaxProviders, todo : SUBSET (Slugs \cup Models),
     request : Requests \cup {"none"}, spec : Specs,
     service : Services \cup {NoService}, config : SUBSET Keys,
     status : {"active", "disabled"}, ref : Refs \cup {NoRef, Same}]

NoWork ==
    [id |-> 0, todo |-> {}, request |-> "none", spec |-> NoSpec,
     service |-> NoService, config |-> {}, status |-> "active", ref |-> Same]

Stages == {"idle", "insertRef", "rotate", "list", "sync", "synced", "listModels",
           "syncModels", "update", "purge", "drop", "file", "grant", "insert"}

TypeOK ==
    /\ provider \in [Names -> Providers]
    /\ registered \in 0 .. MaxProviders
    /\ credential \in [Ids -> Refs \cup {NoRef}]
    /\ service \subseteq Services
    /\ model \subseteq Ids \X Models
    /\ request \in [Requests -> Specs]
    /\ instance \in [Requests -> Services \cup {NoService}]
    /\ live \subseteq Requests
    /\ stage \in [Handlers -> Stages]
    /\ work \in [Handlers -> Works]

Init ==
    /\ provider = [n \in Names |-> NoProvider]
    /\ registered = 0
    /\ credential = [i \in Ids |-> NoRef]
    /\ service = {} /\ model = {}
    /\ request = [r \in Requests |-> NoSpec]
    /\ instance = [r \in Requests |-> NoService]
    /\ live = {}
    /\ stage = [h \in Handlers |-> "idle"]
    /\ work = [h \in Handlers |-> NoWork]

-----------------------------------------------------------------------------
(***************************************************************************)
(* Control of a handler.                                                   *)
(***************************************************************************)

Calls(h) == stage[h] = "idle" /\ AtLeast(CallerOf[h], "operator")

Goto(h, s, w) ==
    /\ stage' = [stage EXCEPT ![h] = s]
    /\ work' = [work EXCEPT ![h] = w]

Proceed(h, s) == Goto(h, s, work[h])

Return(h) == Goto(h, "idle", NoWork)

-----------------------------------------------------------------------------
(***************************************************************************)
(* Statements.                                                             *)
(***************************************************************************)

GetAIProviderByName(n) == provider[n]

Exists(id) == \E n \in Names : provider[n].id = id

InsertProvider(n, row) ==
    /\ registered < MaxProviders
    /\ provider[n] = NoProvider
    /\ registered' = registered + 1
    /\ provider' = [provider EXCEPT ![n] = row]

UpdateProvider(id, config, status) ==
    provider' = [n \in Names |-> IF provider[n].id = id
                                  THEN [provider[n] EXCEPT !.config = config, !.status = status]
                                  ELSE provider[n]]

\* Services, models, credentials and usage go with their provider.
DeleteProvider(id) ==
    /\ provider' = [n \in Names |-> IF provider[n].id = id THEN NoProvider ELSE provider[n]]
    /\ credential' = [credential EXCEPT ![id] = NoRef]
    /\ service' = {s \in service : s[1] # id}
    /\ model' = {m \in model : m[1] # id}

InstancesOf(id) == {r \in Requests : instance[r][1] = id}

\* GetAIService, or GetAIServiceBySlug, which any provider's service answers.
lookupAIService(spec) ==
    IF spec.id # NoService THEN service \cap {spec.id}
                           ELSE {s \in service : s[2] = spec.slug}

NameOf(id) == CHOOSE n \in Names : provider[n].id = id

-----------------------------------------------------------------------------
(***************************************************************************)
(* Steps with a defect, used by no specification.                          *)
(***************************************************************************)

\* Any failure of an insert passes for a service that is there.
SyncSkipsErrors(h) ==
    /\ stage[h] = "sync"
    /\ LET w == work[h] IN
       IF w.todo = {} THEN Proceed(h, "synced") /\ UNCHANGED service
       ELSE \E s \in w.todo :
              /\ \/ Exists(w.id) /\ service' = service \cup {<<w.id, s>>}
                 \/ "db" \in Faults /\ UNCHANGED service
              /\ Goto(h, "sync", [w EXCEPT !.todo = @ \ {s}])
    /\ UNCHANGED <<provider, registered, credential, model, access>>

\* The spec keeps the slug the caller sent and not the id that was found.
SpecOfSlug(s) == [id |-> NoService, slug |-> s[2], provider |-> NameOf(s[1])]

\* Rows of every tenant are everybody's.
TouchesAny(h, p) == TRUE

\* A status that is left out is written as it came.
StatusAsGiven(p, in) == in.status

\* The services go although instances refer to them.
DropUnrestricted(h) ==
    /\ stage[h] = "drop"
    /\ DeleteProvider(work[h].id)
    /\ Return(h)
    /\ UNCHANGED <<registered, access>>

-----------------------------------------------------------------------------
(***************************************************************************)
(* Registration and sync.                                                  *)
(***************************************************************************)

\* A type without an implementation has nothing to ask.
Advertised(p) == IF p.implemented THEN Slugs ELSE {}

rejectAIProviderSecretConfig(keys) == keys \cap SecretKeys = {}

CreateAIProvider(h) ==
    /\ Calls(h)
    /\ \E in \in CreateInputs :
         /\ rejectAIProviderSecretConfig(in.config)
         /\ InsertProvider(in.name,
                [id |-> registered + 1, implemented |-> in.implemented,
                 config |-> in.config, status |-> "active",
                 tenant |-> tenantForCreate(CallerOf[h])])
         /\ Goto(h, IF in.ref = NoRef THEN "list" ELSE "insertRef",
                 [NoWork EXCEPT !.id = registered + 1, !.ref = in.ref,
                                !.todo = Advertised(in)])
    /\ UNCHANGED <<credential, catalog, access>>

\* A registration goes on with the sync, an update is done.  The foreign key
\* refuses a reference for a provider that is gone.
CreateAIProviderCredential(h) ==
    /\ stage[h] \in {"insertRef", "rotate"}
    /\ LET w == work[h] IN
       IF Exists(w.id)
       THEN /\ credential' = [credential EXCEPT ![w.id] = w.ref]
            /\ IF stage[h] = "insertRef" THEN Proceed(h, "list") ELSE Return(h)
       ELSE Return(h) /\ UNCHANGED credential
    /\ UNCHANGED <<provider, registered, catalog, access>>

SyncAIProviderServicesByName(h) ==
    /\ Calls(h)
    /\ \E n \in Names :
         LET p == GetAIProviderByName(n) IN
         /\ p # NoProvider
         /\ Goto(h, "list", [NoWork EXCEPT !.id = p.id, !.todo = Advertised(p)])
    /\ UNCHANGED <<provider, registered, credential, catalog, access>>

\* The call to the provider; a type without an implementation ends the
\* sync, and the registration stays as it is.
ListAvailableServices(h) ==
    /\ stage[h] = "list"
    /\ \/ work[h].todo # {} /\ Proceed(h, "sync")
       \/ (work[h].todo = {} \/ "provider" \in Faults) /\ Return(h)
    /\ UNCHANGED <<provider, registered, credential, catalog, access>>

\* CreateAIService: one that is there is skipped.
SyncAIProviderServices(h) ==
    /\ stage[h] = "sync"
    /\ LET w == work[h] IN
       IF w.todo = {} THEN Proceed(h, "synced") /\ UNCHANGED service
       ELSE \E s \in w.todo :
              IF Exists(w.id)
              THEN /\ service' = service \cup {<<w.id, s>>}
                   /\ Goto(h, "sync", [w EXCEPT !.todo = @ \ {s}])
              ELSE Return(h) /\ UNCHANGED service
    /\ UNCHANGED <<provider, registered, credential, model, access>>

\* The audit event, and the answer.
Synced(h) ==
    /\ stage[h] = "synced"
    /\ Return(h)
    /\ UNCHANGED <<provider, registered, credential, catalog, access>>

SyncAIProviderModelsByName(h) ==
    /\ Calls(h)
    /\ \E n \in Names :
         LET p == GetAIProviderByName(n) IN
         /\ p # NoProvider /\ p.implemented
         /\ Goto(h, "syncModels", [NoWork EXCEPT !.id = p.id, !.todo = Models])
    /\ UNCHANGED <<provider, registered, credential, catalog, access>>

UpsertAIModelCatalog(h) ==
    /\ stage[h] = "syncModels"
    /\ LET w == work[h] IN
       IF w.todo # {} /\ Exists(w.id)
       THEN \E m \in w.todo : /\ model' = model \cup {<<w.id, m>>}
                              /\ Goto(h, "syncModels", [w EXCEPT !.todo = @ \ {m}])
       ELSE Return(h) /\ UNCHANGED model
    /\ UNCHANGED <<provider, registered, credential, service, access>>

-----------------------------------------------------------------------------
(***************************************************************************)
(* Update and deletion.                                                    *)
(***************************************************************************)

\* A provider without a tenant is everybody's.
Touches(h, p) ==
    scopeTenant(CallerOf[h]) =>
        p.tenant = NoTenant \/ tenantVisible(p.tenant, CallerOf[h])

StatusAfter(p, in) == IF in.status = "keep" THEN p.status ELSE in.status

\* The config is merged and the status taken from the row read here.
GetForUpdate(h) ==
    /\ Calls(h)
    /\ \E n \in Names, in \in UpdateInputs :
         LET p == GetAIProviderByName(n) IN
         /\ p # NoProvider /\ Touches(h, p)
         /\ rejectAIProviderSecretConfig(in.put \cup in.del)
         /\ Goto(h, "update", [NoWork EXCEPT
                !.id = p.id, !.config = (p.config \cup in.put) \ in.del,
                !.status = StatusAfter(p, in),
                !.ref = in.ref])
    /\ UNCHANGED <<provider, registered, credential, catalog, access>>

UpdateAIProvider(h) ==
    /\ stage[h] = "update"
    /\ LET w == work[h] IN
       /\ UpdateProvider(w.id, w.config, w.status)
       /\ IF Exists(w.id) /\ w.ref # Same THEN Proceed(h, "rotate") ELSE Return(h)
    /\ UNCHANGED <<registered, credential, catalog, access>>

\* The row, which gives the id, and the count of the active instances.
CountActiveAIInstancesByProvider(h) ==
    /\ Calls(h)
    /\ \E n \in Names :
         LET p == GetAIProviderByName(n) IN
         /\ p # NoProvider /\ Touches(h, p)
         /\ InstancesOf(p.id) \cap live = {}
         /\ Goto(h, "purge", [NoWork EXCEPT !.id = p.id])
    /\ UNCHANGED <<provider, registered, credential, catalog, access>>

\* Every instance there is by now, whatever its status.
DeleteAIServiceInstancesByProvider(h) ==
    /\ stage[h] = "purge"
    /\ instance' = [r \in Requests |->
                       IF r \in InstancesOf(work[h].id) THEN NoService ELSE instance[r]]
    /\ live' = live \ InstancesOf(work[h].id)
    /\ Proceed(h, "drop")
    /\ UNCHANGED <<provider, registered, credential, catalog, request>>

\* A service that has an instance cannot go, nor can its provider.
DeleteAIProvider(h) ==
    /\ stage[h] = "drop"
    /\ IF InstancesOf(work[h].id) = {}
       THEN DeleteProvider(work[h].id)
       ELSE UNCHANGED <<provider, credential, catalog>>
    /\ Return(h)
    /\ UNCHANGED <<registered, access>>

-----------------------------------------------------------------------------
(***************************************************************************)
(* Requests.                                                               *)
(***************************************************************************)

SpecOf(s) == [id |-> s, slug |-> s[2], provider |-> NameOf(s[1])]

\* The service by its id or by its slug; the gate follows (Governance).
CreateAIRequest(h) ==
    /\ Calls(h)
    /\ \E r \in Requests, s \in service :
         /\ request[r] = NoSpec
         /\ Goto(h, "file", [NoWork EXCEPT !.request = r, !.spec = SpecOf(s)])
    /\ UNCHANGED <<provider, registered, credential, catalog, access>>

\* CreateRequest; the name of a request is unique.
FileRequest(h) ==
    /\ stage[h] = "file"
    /\ LET w == work[h] IN
       IF request[w.request] = NoSpec
       THEN request' = [request EXCEPT ![w.request] = w.spec]
       ELSE UNCHANGED request
    /\ Return(h)
    /\ UNCHANGED <<provider, registered, credential, catalog, instance, live>>

\* POST /requests takes any spec; what it says of the provider is free text.
CreateRequest(h) ==
    /\ Calls(h)
    /\ \E r \in Requests, s \in Slugs :
         /\ request[r] = NoSpec
         /\ request' = [request EXCEPT ![r] = [NoSpec EXCEPT !.slug = s]]
    /\ UNCHANGED <<provider, registered, credential, catalog, instance, live, control>>

\* ProvisionAIRequest, once: the service, then its provider.  The decision
\* on the request is in AccessLifecycle.
ProvisionAIRequest(h) ==
    /\ Calls(h)
    /\ \E r \in Requests : \E s \in lookupAIService(request[r]) :
         /\ instance[r] = NoService
         /\ \A k \in Handlers : work[k].request # r
         /\ Goto(h, "grant", [NoWork EXCEPT !.request = r, !.service = s])
    /\ UNCHANGED <<provider, registered, credential, catalog, access>>

GetAIProvider(h) ==
    /\ stage[h] = "grant"
    /\ IF \E n \in Names : provider[n].id = work[h].service[1] /\ provider[n].implemented
       THEN Proceed(h, "insert")
       ELSE Return(h)
    /\ UNCHANGED <<provider, registered, credential, catalog, access>>

\* CreateAIServiceInstance, after ProvisionAccess.
CreateAIServiceInstance(h) ==
    /\ stage[h] = "insert"
    /\ IF work[h].service \in service
       THEN /\ instance' = [instance EXCEPT ![work[h].request] = work[h].service]
            /\ live' = live \cup {work[h].request}
       ELSE UNCHANGED <<instance, live>>
    /\ Return(h)
    /\ UNCHANGED <<provider, registered, credential, catalog, request>>

\* The provider has withdrawn the access; the row stays, as history.
RevokeAIServiceInstance(h) ==
    /\ Calls(h)
    /\ \E r \in live : live' = live \ {r}
    /\ UNCHANGED <<provider, registered, credential, catalog, request, instance, control>>

\* A write fails: the call returns, and what it has written stays.
WriteError(h) ==
    /\ "db" \in Faults
    /\ stage[h] \notin {"idle", "synced", "grant"}
    /\ Return(h)
    /\ UNCHANGED <<provider, registered, credential, catalog, access>>

-----------------------------------------------------------------------------
Step(h) ==
    \/ CreateAIProvider(h) \/ CreateAIProviderCredential(h)
    \/ SyncAIProviderServicesByName(h) \/ ListAvailableServices(h)
    \/ SyncAIProviderServices(h) \/ Synced(h)
    \/ SyncAIProviderModelsByName(h) \/ UpsertAIModelCatalog(h)
    \/ GetForUpdate(h) \/ UpdateAIProvider(h)
    \/ CountActiveAIInstancesByProvider(h) \/ DeleteAIServiceInstancesByProvider(h)
    \/ DeleteAIProvider(h)
    \/ CreateAIRequest(h) \/ FileRequest(h) \/ CreateRequest(h)
    \/ ProvisionAIRequest(h) \/ GetAIProvider(h) \/ CreateAIServiceInstance(h)
    \/ RevokeAIServiceInstance(h)
    \/ WriteError(h)

Next == \E h \in Handlers : Step(h)

Spec == Init /\ [][Next]_vars

-----------------------------------------------------------------------------
(***************************************************************************)
(* Properties.                                                             *)
(***************************************************************************)

\* Services, models, credential references and instances never outlive the
\* registration they were made for, although syncs, updates and grants of
\* other handlers hold the id of a provider that is being deleted (ai.go:
\* DeleteAIProvider; the foreign keys).
CatalogHasProvider ==
    /\ \A x \in service \cup model : Exists(x[1])
    /\ \A i \in Ids : credential[i] # NoRef => Exists(i)
    /\ \A r \in Requests : instance[r] # NoService => instance[r] \in service

\* A sync that reports success has entered every advertised service, those
\* that another sync of the provider enters at the same time included
\* (ai.go: SyncAIProviderServices skips what is already there).
SyncCovers ==
    \A h \in Handlers :
        stage[h] = "synced" /\ Exists(work[h].id)
            => {work[h].id} \X Slugs \subseteq service

\* Whoever files an AI request by a service gets access from the provider
\* the request names, and from no other that offers a service of that slug,
\* even after providers were deleted and registered again under its name
\* (ai.go: CreateAIRequest pins service.ID in the spec).
InstanceOfNamedProvider ==
    \A r \in Requests :
        instance[r] # NoService /\ request[r].provider # ""
            => provider[request[r].provider].id = instance[r][1]

\* No call of one tenant changes or removes a provider of another, between
\* whose registrations the name a call found may have passed on (ai.go:
\* UpdateAIProvider and DeleteAIProvider read by name and write by id).
ForeignProvidersUntouched ==
    [][\A h \in Handlers, n \in Names :
         LET p == provider[n] IN
         scopeTenant(CallerOf[h]) /\ stage[h] # stage'[h]
           /\ p.tenant \notin {NoTenant, CallerOf[h].tenant}
              => provider'[n] = p]_vars

=============================================================================
