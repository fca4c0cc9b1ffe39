# OPORD: specification of the AI governance core

OPORD puts a governance layer in front of AI providers: users file requests for
access, operators approve them, the approved access is granted at the provider
and recorded as an instance, expired instances are revoked by a background
loop, and calls proxied through the gateway are stopped when a budget or a
quota is used up.  This directory specifies that core in TLA+, checks it with
TLC on small instances, and proves the safety properties that hold there with
TLAPS for all instances.

The server is a Go process over Postgres.  Each HTTP request runs in a
goroutine of its own (a *handler* below), several server processes may share a
database, and one more goroutine per process is the expiry reaper.  **No
operation uses a database transaction, and no UPDATE repeats the condition it
was decided on**; an operation is therefore a sequence of statements and
provider calls between which every other operation may run.  That is what the
modules model: one step per statement or provider call.

File names below are relative to `src/internal` unless they begin with `cmd` or
`migrations`; in `orchestrator` the directory is left out.

## Inventory

| Component | State | Operations | Interacts with |
|---|---|---|---|
| Requests (`request.go`) | rows of `requests`: status, spec, resource | CreateRequest, ApproveRequest, RejectRequest | calls ProvisionAIRequest |
| AI access instances (`ai.go`) | rows of `ai_service_instances`: status, expires_at, revoked_at, provider access id | ProvisionAIRequest, RevokeAIInstance, RecertifyAIInstance, ReapExpiredAIInstances, RevealAIInstanceSecret | provider, secret store, governance gate |
| Provider and service catalog (`ai.go`, `ai_governance.go`) | `ai_providers`, their credentials, `ai_services`, models | create, update, rotate, sync, delete; the pinning of a service in a request | tenants, requests, instances |
| Reaper (`cmd/api/main.go`) | none | every 5 minutes ReapExpiredAIInstances | instances |
| Governance gate (`ai_enforce.go`) | none; reads policies, quotas, budgets, instances, usage | evaluateAIGovernance, evaluateGatewayBudget | called before a grant, before a gateway call |
| AI gateway (`ai_governance.go`) | rows of `ai_usage_records` (estimates) | GatewayOpenAIResponses, GatewayAnthropicMessages, recordGatewayUsage | spend gate, DLP, provider |
| Cost imports (same file) | rows of `ai_usage_records` (authoritative) | ImportOpenAICosts, ImportAnthropicCosts, ImportLiteLLMSpend | provider's cost report |
| Budgets, quotas, policies (same file) | one table each | create, update, delete, list; aiCostUSD, aiQuotaUsage | read by both gates |
| MCP governance (`mcp.go`) | `mcp_servers`, `mcp_grants` | register, delete, grant, request, approve, reject, revoke, authorize | agent runtimes |
| LiteLLM provider (`aiproviders/litellm`) | virtual keys at a proxy, raw keys in the secret store | ProvisionAccess, RevokeAccess, GetUsage | approvals, revokes, spend import |
| Anthropic provider (`aiproviders/anthropic`) | users, invites, workspaces and members of an organization | ProvisionAccess, RevokeAccess, administration calls | approvals, revokes, administration |
| OpenAI provider (`aiproviders/openai`) | projects, permissions, users and members of an organization | ProvisionAccess with its rollback, administration calls | approvals, administration |
| Provider administration (`ai_admin.go`, `api/ai_admin.go`) | audit rows | the routes over users, invites, workspaces, projects | both providers |
| Tenancy and roles (`tenant.go`, `auth/auth.go`) | identity in the context of a call | role gate of the routes, tenant of a row, rows a caller sees | every operation |
| Credentials (`creds/vault.go`) | a cache of minted credentials | Resolve, ReadSecret, WriteSecret | OpenBao or Vault |
| Users (`auth.go`) | tenants, users, key hashes | CreateUser, ResolveAPIKey, EnsureInitialAdmin | middleware |
| Event bus (`events`) | none | Publish | audit log, Slack, SIEM |
| DLP, prices | none | pure functions | gateway |
| HTTP API, console | none | decoding, routing | orchestrator |

Hard behaviour, by component, with what makes the component right:

* **Requests and instances.**  Check-then-act on a status that is read long
  before it is written; a provider call in the middle that may be refused, or be
  applied and its answer lost; writes that may fail on either side of it; a
  cancelled request context that also takes down the handler's own error
  handling; a secret store whose failure looks like a provider without a key.
  Right means: access that exists at the provider always has an owner who can
  see and revoke it, nothing exists before a decision, decisions and revocations
  are final, quotas hold, expired access goes away.
* **Catalog.**  Providers are found by name and written by id, and a name may
  pass on in between; a sync reads what is there and inserts the rest, one row
  at a time.  Right means: nothing outlives its provider, a sync that succeeds is
  complete, an approval uses the provider its request was pinned to, and tenants
  do not touch each other's providers.
* **Gateway and cost imports.**  The gate reads a ledger that lags behind the
  calls in flight; two sources write the ledger and one supersedes the other;
  imports race, fail half-way and see days that are not over.  Right means: the
  ledger never counts more than was charged, an exhausted budget blocks, spend
  passes a limit only by what was in flight, and every bucket is entered.
* **Governance gate.**  It reads five tables one after the other while the rules
  are edited by read-check-write operations.  Right means: a rule that stands
  all the while is honoured, and edits stay inside the tenant.
* **MCP governance.**  Grants are found and then created, decided by id whatever
  their state, and read by an authorization that is several statements long.
  Right means: only what an operator granted or approved authorizes, and a grant
  belongs to the registration it was made for.
* **Providers.**  A grant is up to five calls to an organization that other
  handlers, administrators and the people themselves change between them; any
  call may be refused or applied without an answer; several requests may share
  one membership.  Right means: no access, key or project is left that nobody
  answers for, and nothing is recorded as granted that was not applied.
* **Credential cache, bootstrap, event bus.**  Check-then-act on a shared map
  and on an empty table; a goroutine per event and sink.

## Modules

| Module | Models | Composes |
|---|---|---|
| `AccessLifecycle` | requests, instances, access at the provider; approvals, rejections, revokes, recertifications, the reaper, provider deletion; faults | implements `AccessContract` |
| `AccessContract` | what the approval service promises, without handlers, rows or clocks | |
| `SpendGate` | the gateway's spend gate, the usage ledger, the two cost-report imports | |
| `Governance` | the gate of access requests with the three rule tables and the operations on them | `Identity` |
| `Catalog` | providers, credentials, services, models, and which of them a request gets | `Identity` |
| `MCPAccess` | MCP servers, grants, authorization | `Identity` |
| `LiteLLMKeys` | virtual keys, the secret store, the import of their spend | |
| `Organization` | an Anthropic organization under requests, revokes and administration | |
| `Projects` | an OpenAI organization under requests with rollback, and administration | |
| `Identity` | roles, tenants, what a caller sees | |
| `MC...` | for TLC: the values of structured constants, symmetry sets | its module |
| `...Proofs` | theorems about the module of the same name; `AccessLifecycleProofs` also about `AccessContract` | its module |

The modules share no state on purpose.  What one leaves to another is a free
choice in it: a denial by a policy is a choice in `AccessLifecycle` and exact in
`Governance`; access at a provider is one bit in `AccessLifecycle` and an
organization in `Organization` and `Projects`, a key in `LiteLLMKeys`.

Each module holds a section of steps with a defect.  No specification uses them;
each is a plausible mistake in the step it is named after, substituted for that
step to see a property fail.

### AccessLifecycle and AccessContract

| Variable | In the code |
|---|---|
| `request[r]`, `window[r]` | `requests.status`; the expiry aiExpiresAt finds in `requests.spec` or derives from the service |
| `status[i]`, `expires[i]`, `revokedAt[i]` | the columns of `ai_service_instances`; row `<<r, h>>` is the one handler `h` inserts for request `r` |
| `upstream` | the requests whose access (key, membership) exists at the provider |
| `provider` | the row of `ai_providers` with its catalog service |
| `stage[h]`, `work[h]`, `todo[h]` | program counter of a handler, the row in its hands, and what is left of a reaper's listing |
| `now` | the clock |

An approval goes `decide` (DecideRequest), `govern` (lookups and
evaluateAIGovernance), `grant` (ProvisionAccess), `insert`
(CreateAIServiceInstance), `complete` or `fail` (SetRequestResource).  A revoke
goes `load`, `withdraw` (RevokeAccess), `record`; the reaper runs it once per row
of its listing.  Recertification is `recertify`, deletion of the provider is
`purge` and `drop`.  The read and test at the start of an operation is one step
(`ApproveStart`, `RevokeStart`, ...); everything that comes later acts on what was
read there, as in the code.

Abstracted: names, tenants, owners and workspaces (they select rows), the audit
trail and events (nothing reads them), validation of input.  The instance quota,
which depends on the state, is exact.  One provider with one service, and each
request has its own access at the provider.

Faults are a constant, `Faults`: a failing write, a failing read in the gate, a
refused provider call, one that was applied and whose answer was lost, a 404 for
access that is gone, a secret store that does not answer, and cancellation of
the handler (or the end of the process, which the database cannot tell apart).
Each property is checked under the faults of its run and proved under every
fault it survives.

`AccessContract` is the abstract specification: a request is asked for, decided,
and then an approver may give access, which opens a claim; a claim is closed only
when the access is gone or another claim to it is open.  The refinement mapping
(`Contract`, at the end of `AccessLifecycle`) calls a request decided when it has
left pending_approval, and takes for the claim of an approval its insert to come
or its active row.

### SpendGate

One provider, one budget period of `MaxDay` days, one budget and one cost quota
of enforcement "block".  `bucket[d]` is what the provider has charged on day `d`
(its cost report); `estimate` is the sum of the rows recordGatewayUsage writes;
`copies[d]` and `imported[d]` are the rows imported for the bucket of day `d`
and their sum; `failed[i]` says that an import returned an error.  A gateway
call goes `budget`, `quota` (the usage is read twice), `send`, `record`; an
import takes a report, then looks for each bucket's import key and inserts it,
two statements per bucket.  An import may leave buckets out without an error:
it reads one page of 180 from OpenAI and 40 pages from Anthropic at most
(`ImportStart`, under the fault `cut`), and goes on past an amount that does not
parse (`ImportUnread`).  `passed[i]` are the buckets it has left out that way.
The pages of one import are taken to be of one moment.  `Counted` is aiCostUSD with its supersession rule.
The price table is taken to be exact: with wrong prices every property about
money would fail for a reason that has nothing to do with the bookkeeping.  A
bucket has one line item.

### Governance

`policy`, `quota` and `budget` are the tables, `active` the active instances,
`usage` the rows of the ledger.  A rule is created in one statement; updated or
deleted by a handler that reads the row, applies aiTenantGuard to what it read,
and writes by id.  The gate goes `policies`, `quotas`, `instances`, `budgets`,
`usage`, `open`: list by list, each filtered by the caller's tenant, with
`matches`, `QuotaBlocks`, `budgetAppliesToRequest` and `Exhausted` translated
from the code, defaults of empty fields included.  A read that fails skips its
rules (`GateReadFails`, which the handler remembers in `blind`).  `standing[h]`
is a history variable: the blocking rules that have stood unchanged since the
evaluation of `h` began.

### Catalog

`provider[n]` is the row with the unique name `n`; `credential`, `service` and
`model` hang from ids that are given out once.  Update, rotation, sync and delete
find by name, then write by id; the rows a sync has not yet entered are in
`work`.  A request is pinned to the service it was filed for, or names nothing
but a slug; an approval resolves it.  Types without an implementation, secrets
refused in a config and tenants are there.

### MCPAccess

`server` and `grant` are the two tables; `decided[g]` is a history variable, what
an operator last decided of grant `g`: to let its owner in, to put him out, or
nothing yet.  The audit rows themselves are left out: nothing reads them, and the
error of their insert is dropped.  A grant looks for an active one of the owner and
inserts if there is none; a request does so with any; approval, rejection and
revocation write by id; authorization reads the server, then the grant, then
answers.  Expiries are compared with the clock `now`.

### LiteLLMKeys

`key[r]` is the virtual key of a request at the proxy, with what it has spent;
`vault` what the secret store holds; `instance` and `usage` the rows.  An
approval mints a key, moves the raw key to the secret store (`strip`,
stripMintedSecret) and inserts its row; a revoke deletes by alias, falls back to
the raw key, and records; an import lists, finds the row of each key, and
updates or creates it.  Keys whose mint was not answered or whose row was not
written are in `lost`.

### Organization

The organization of an Anthropic provider is external: `orgRole`, `invite`,
`workspace`, `member` are modelled from the calls of the client and what its
comments say of the answers.  A grant goes `users`, `workspaces`, `lookup`,
`add`, `update`, `insert`; a revoke `revoke`, `reset` (a billing user cannot be
removed, only reset), `close`.  The administration routes, the acceptance of an
invite and a promotion in the Console are steps of their own.  `unrecorded` are
the memberships and invites that no row will ever name.

### Projects

The organization of an OpenAI provider: `project` with its model permissions,
`orgRole`, `invites`, `member`.  A grant goes `create`, `apply`, `rollback` (the
deferred function of ProvisionAccess) or `insert`; adding a member goes `add`,
`update`; every route ends with `audit`.  A call may be refused, or applied with
its answer lost.  `audit[h]` says of what the call of `h` has changed whether a
row tells of it (`told`), has still to be written (`owed`), or was tried and
failed, which no caller hears of (`lost`).  Roles that a route sends are compared
without case; `AdminRoles` are those with "admin" anywhere in them.

## Runs

Deadlock is not checked anywhere: the clock, the money and the ids are bounded,
so every run comes to an end.

| Run | Instance | Shows |
|---|---|---|
| `AccessRaces` | 1 request, 2 callers, reaper, clock 2, refusals, fairness | types; `AccessHasOwner`; `RevokedIsFinal`; `KeepsContract` (refinement); `ExpiredIsReaped` and `ApprovalSettles` (liveness) |
| `AccessFaults` | 2 requests, 2 callers, quota 1, every operation but the reaper's, every fault but reads of the gate that fail | `NothingBeforeDecision`; `DecisionIsFinal`; `QuotaOvershootBounded`, which two approvals at a time do reach |
| `AccessOneCaller` | 3 requests, 1 caller, reaper, quota 2, every operation, refusals, access that is gone, failing reads | `SettledStoresAgree` |
| `SpendOvershoot` | 3 callers, limits 2 and 3, costs 1 and 2 | types; `OverspendBounded` |
| `SpendLedger` | 2 callers, 2 importers, 2 days, limits 2, charges up to 3, every fault, reports that are cut and amounts that do not parse included | `CountedWithinCharged`; `CopiesBounded`; `ImportCovers` |
| `MCPGrants` | 2 operators, an agent, 1 name, 2 registrations, 2 grants, clock 2, failing writes | types; `ActiveIsDecided`; `AllowedIsDecided`; `GrantsHaveServer` |
| `GovernanceGate` | an operator of a tenant, an administrator without one, 1 row per table, failing reads | `WellFormedRules`; `StandingRuleBlocks`; `ForeignRulesUntouched` |
| `CatalogOrder` | an operator and an administrator of two tenants, 2 names, 2 registrations, 1 request, failing statements | types; `CatalogHasProvider`; `SyncCovers`; `InstanceOfNamedProvider`; `ForeignProvidersUntouched` |
| `OrgAccess` | 2 handlers, 1 person, 1 workspace, 3 requests (two share a membership, one has no workspace), 1 invite, every route, refusals, lost answers, failing writes | types; `AccessAccounted`; `OnlyConsoleAdmins` |
| `ProjectAdmin` | 2 handlers, 1 person, 2 projects, 2 requests, the roles developer, admin, owner and workspace_admin, every route, every fault | types; `ProjectsAccounted`; `GrantedIsApplied`; `RollbackTakesOwn`; `WritesReachAudit`; `OwnersWereAsked` |
| `KeyImports` | 2 handlers, 2 keys, spend 1, 3 usage rows, every fault | types; `LiveKeyIsAnsweredFor`; `KeyOnlyInStore`; `ImportFollowsSpend` |

One more run finds a behaviour in which the code does not keep what a comment
says of it.  `AccessDoubleDecision`: request.go:79 and 133 say that a *pending*
request is approved or declined; DecideRequest is an UPDATE by id, so that two
handlers that have both read pending_approval both decide.

### Behaviour of the code that is in the modules without a run of its own

* A grant between the count and the delete of DeleteAIProvider leaves access
  whose row cascades away (ai.go:209; the comment at 190-193 says that live
  access is never orphaned).
* A secret store that does not answer looks like a provider without a master key,
  and the revoke then calls nothing (litellm.go:231; the comment at 226).
* The first imported bucket supersedes the estimates of every other day, so that
  an exhausted gate opens again (ai_governance.go:186; the comment at 967).
* Two imports that both find nothing both insert (ai_governance.go:895), and a
  bucket that was imported before its day was over keeps the amount of that
  moment (497).
* An import that reaches its cap of pages, or whose one page is full, and one
  that meets an amount it cannot parse, ends without an error and without a count
  of what it left out (ai_governance.go:468, 835, 889).
* Two LiteLLM imports at a time, or one whose lookup fails, create two rows for a
  key (ai.sql.go:453: "single cumulative-spend row"), and a slow import
  overwrites a newer figure.  A key that is deleted between two imports takes its
  last spend with it.
* The reaper revokes a row that was recertified after its listing, because
  RevokeAIInstance looks at the status again and not at the expiry (ai.go:583).
  Two revokes that both read an active row both write `revoked_at` (680).
* Two requests of a person for one workspace share an access id.  Whichever is
  revoked first takes the membership; the revoke of the other is answered 404,
  an error, and its row never closes (anthropic.go:360; ai.go:567-571).
* Nothing grants the workspace when an invite is accepted, although the message
  at anthropic.go:274 says so: whoever was invited has to be granted again.
* Granting an MCP server to an owner whose active grant has expired returns the
  expired one (mcp.go:136; the comment at 121-123).
* A change of the limit alone writes back the scope that was read before it
  (ai_governance.go:609; the comment at 602).
* A project without a list of permissions is shown as an allow list without ids
  (openai/admin.go, GetProjectModelPermissions).
* The audit row is inserted with the context of the request and is lost when the
  caller hangs up; the error is dropped (ai.go:920).  `Projects` has the step
  (`Audit`, under the fault `db`); the other modules leave audit rows out.

### Why the bounds are enough

The races are between two handlers that read before either writes; two callers
give all of them, beside the reaper where it takes part.  A third is there where
the number itself is in the property (`SpendOvershoot`) or where a third role
takes part (`MCPGrants`).  `AccessRaces` has one request because the only thing
grants share is the quota; with two requests and a quota of one, in
`AccessFaults`, two approvals that both count before either inserts pass it.  The
reaper and the second reading of the clock are left to the other runs there: a
row the reaper takes away only lowers the count.  A gate that cannot read is in
`AccessOneCaller`, since no bound on the quota survives it; the proofs of
`NothingBeforeDecisionHolds` and `DecisionIsFinalHolds` have it as well.
`AccessOneCaller` has three requests for the agreement of the stores.  Two
readings of the clock give a window that has passed and one that has not, and `Extension` reaches
beyond the clock; `NoExpiry` is a value above every reading.  In
`SpendOvershoot` `MaxSpend` (10) lies above the bound the property states
(1 + 3 * 2 = 7), so it does not hide a violation; `SpendLedger` needs a charge
before and one after an import, and two days so that a report can be cut between
them; three units are enough for that.  `MCPGrants` needs two
registrations for a name that is registered again and two grants for one that is
made again.  One row per table is enough in `GovernanceGate`: whether a rule
blocks does not depend on other rows, and an edit writes one row.  Two names and
two registrations let `CatalogOrder` have a copy of a slug at a second provider
and a name that passes on.  `OrgAccess` needs two requests for the membership
that is shared; roles are chosen so that each branch of the role matrix is
taken.  `ProjectAdmin` has a project that is there from the start and one that a
request creates; its roles take each branch of the two role functions, one of
them only by a part of its name.  `KeyImports` has room for the second row that racing imports
create for a key.  The bounds are `MaxTime`, `MaxDay`, `MaxSpend`, `MaxRows`,
`MaxActive`, `MaxServers`, `MaxGrants`, `MaxProviders`, `MaxProjects` and
`MaxInvites`.  Symmetry is used for interchangeable handlers, callers and
importers, and not in `AccessRaces`, where it would be unsound for liveness.

### Fairness

`AccessRaces` is checked under `LiveSpec`.  A handler that runs goes on (`WF` of
`Continue(h)`): Go schedules runnable goroutines, and database and provider
clients have timeouts.  The ticker of runAIExpiryReaper calls the reaper for as
long as the process runs (`WF` of `ReapStart(Reaper)`), and time goes on.
Callers owe nothing.  For a provider that refuses now and then, a revoke that is
tried again and again succeeds at some time (`SF` of the withdrawal, for each
row): without it a provider that always refuses keeps every grant alive, which is
no fault of the program.  The clock stops at `MaxTime`, where everything that can
expire has.  Cancelled handlers, failing writes and the 404 of a withdrawn access
are left out of this run: with them the liveness properties do not hold, because
nothing resumes an abandoned approval and the reaper repeats a revoke that can no
longer succeed.  No other module states fairness: their operations are HTTP calls
that nobody owes, and the code makes no promise that something happens.

## Proofs

Every invariant and every action property of the passing runs is a theorem, and
so is the refinement of `AccessContract`.  The theorems hold for any values of
the constants that satisfy the assumption of the module (`AccessAssumption`,
`SpendAssumption`, `MCPAssumption`, `KeysAssumption`, `GovernanceAssumption`,
`OrganizationAssumption`, `CatalogAssumption`, `ProjectsAssumption`): finite sets
where something is counted, a reaper that is not the only handler, bounds that
are numbers, inputs of the right type.  Where a theorem needs more, it says so
with ASSUME and the constants of the run that checks the property
satisfy it.

| Module | Inductive invariant | Theorems | Needs besides the module's assumption |
|---|---|---|---|
| `AccessLifecycleProofs` | `ControlInv` | `TypeCorrect`, `NothingBeforeDecisionHolds`, `DecisionIsFinalHolds` | |
| | `ControlInv`, `RowIsNew` | `RevokedIsFinalHolds` | |
| | `ControlInv`, `QuotaInv` | `QuotaOvershootBoundedHolds` | `"read" \notin Faults` |
| | `ContractInv` | `AccessHasOwnerHolds`, `KeepsContractHolds`, `AccessIsClaimed` | `Quiet` |
| | `ControlInv`, `SettledInv` | `SettledStoresAgreeHolds` | `Sound`, one caller |
| `SpendGateProofs` | `CopiesInv`, `CoverInv` | `CopiesBoundedHolds`, `ImportCoversHolds`, `ImportedOnceHolds` | one importer for the last |
| | `LedgerInv` | `SpendTypeOK`, `CountedWithinChargedHolds` | |
| | `ExposureInv` | `OverspendBoundedHolds` | no faults, no importers, some cost |
| `GovernanceProofs` | `Control`, `GateFits` | `StandingRuleBlocksHolds` | |
| | `Control`, `RulesFit`, `ContentFits` | `ForeignRulesUntouchedHolds`, `WellFormedRulesHolds` | |
| `CatalogProofs` | `RowsInv` | `CatalogTypeCorrect`, `CatalogHasProviderHolds` | |
| | `RowsInv` with `SyncOK`, `PinInv` or `TouchOK` | `SyncCoversHolds`, `InstanceOfNamedProviderHolds`, `ForeignProvidersUntouchedHolds` | |
| `MCPAccessProofs` | `MCPInv` | `MCPTypeCorrect`, `ActiveIsDecidedHolds`, `AllowedIsDecidedHolds`, `GrantsHaveServerHolds` | |
| `LiteLLMKeysProofs` | `KeysInv` | `KeysTypeCorrect`, `LiveKeyIsAnsweredForHolds`, `KeyOnlyInStoreHolds` | |
| | `KeysInv`, `ImportsInv` | `ImportFollowsSpendHolds` | |
| `OrganizationProofs` | `OrganizationInv` | `OrgTypeCorrect`, `AccessAccountedHolds`, `OnlyConsoleAdminsHolds` | |
| `ProjectsProofs` | `ProjectsInv` | `ProjectsTypeCorrect`, `ProjectsAccountedHolds`, `GrantedIsAppliedHolds`, `OwnersWereAskedHolds`, `WritesReachAuditHolds`, `RollbackTakesOwnHolds` | |

### AccessLifecycleProofs

* `ControlHolds`.  `TypeOK` alone is not inductive: what a step writes depends on
  what the handler holds.  `ControlInv` adds that a handler past the start of an
  approval holds its own row `<<r, h>>`, that one in a revoke or a recertification
  holds some row (`WorkFits`), and that past `decide` the request is decided
  (`DecisionMade`), which in turn is what makes `NothingBeforeDecision` inductive:
  only `grant` and `insert` create anything.  `TypeCorrect` and
  `NothingBeforeDecisionHolds` follow.
* `DecisionIsFinalHolds`: only three steps write a request's status, and each
  writes a decided one when its stage is past the start of an approval.
* `RevokedIsFinalHolds`: needs that the row of an approval does not exist before
  its insert (`RowIsNew`).  That a handler creates a row for a request once only
  rests on `DecisionIsFinal`: a handler that starts an approval finds the request
  pending, hence (`NothingBeforeDecision`) no row.
* `QuotaOvershootBoundedHolds` (for `"read"` not among the faults).  `QuotaInv`
  counts the rows that are and those that are being made (`Granting`, the handlers
  between gate and insert): together at most the quota plus the callers less one.
  A handler that passes the gate sees fewer rows than the quota, and every other
  caller may be granting; an insert moves one from the second count to the first.
  The reaper never grants, so it does not count.
* `AccessHasOwnerHolds` (`Quiet`: no failing writes, lost answers, cancellations,
  unreadable secret store or deletion).  The owner in `OwnerInv` is an approval
  about to insert, or an active row that no handler is about to mark revoked
  (`Owns`): who marks a row has withdrawn its access first, and access granted
  again since then is another row's.  `HandlerMoves` collects what one step may
  change in the stages of handlers, so that the step is proved from the few
  actions that write rows or access.
* `KeepsContractHolds` (`Quiet`): the step simulation.  `ContractInv` is
  `ControlInv`, `RowIsNew`, `OwnerInv` and `Filed` (a request somebody decides on
  has been filed).  Every action maps to one step of the contract or to a stutter;
  the hard case is the record of a revoke, a `Close` that is allowed because
  `OwnerInv` knows another owner of whatever access there is.
* `ClaimedHolds`: the contract alone guarantees that access has an open claim;
  `AccessIsClaimed` carries that over to the handlers, through the refinement.
* `SettledStoresAgreeHolds` (`Sound`: as `Quiet`, but access may be gone, reads may
  fail and providers may be deleted; and one caller).  That the stores agree when
  nobody runs says nothing of the steps in between; `SettledInv` says for each
  request what they may look like at each stage (`Agree`): access without an
  active row only while the caller is at `insert`, an active row without access
  only while somebody is at `record`, an active row under a request that is not
  completed only at `complete`, a date of revocation exactly on revoked rows.
  The gate keeps the provider there until the insert and a deletion begins with no
  active row (`Entered`), and with one caller nothing comes between; the reaper
  only ever revokes rows of the caller.

### SpendGateProofs

The sums of money are folds over functions (`SumFunction`).  Induction over the
subsets of a finite set is the well-foundedness of strict inclusion, applied to a
set in place of a predicate (`SubsetInduction`).  From it come the facts the
theorems need: which element a sum takes first makes no difference (`SumRemove`),
a sum is monotone and bounded by its largest summand (`SumMonotone`,
`SumBounded`), and a summand that changes changes the sum by as much (`SumChange`).

* `CopiesBoundedHolds`: the rows of a bucket and the imports about to insert one
  (`Inserting`) together never outnumber the imports: an import decides to insert
  only while there is no row, and then the bound is the number of imports itself.
* `ImportCoversHolds`: what an import was asked for and has not failed on has a
  row, or is still on its list, or was passed over (`CoverInv`); no step takes a row
  away, so a bucket leaves the list only when it has one or is passed over.
* `ImportedOnceHolds`: with one import at a time the import key does make imports
  idempotent; the second row comes from the overlap alone.
* `SpendTypeOK` and `CountedWithinChargedHolds`.  `LedgerInv`: the estimates and the
  costs of calls about to record one together stay within the charges
  (`MoneyInv`), and a bucket that was entered once was entered with an amount it
  has reached (`BucketInv`: buckets only grow, and a report is a bucket of some
  earlier moment).  What is counted is the sum of the estimates or that of the
  imported buckets, and each is within the charges.
* `OverspendBoundedHolds`.  The gate reads a ledger that does not know of calls in
  flight.  `Exposure` is what a call that has passed the tighter of the two limits
  may still add: its cost when that is known, the highest cost before.
  `ExposureInv` bounds estimates and exposure together: a call that passes the
  tighter limit finds less than the limit in the ledger, and then no caller has
  more than the highest cost to add; sending turns a highest cost into a cost,
  recording a cost into an estimate.

### GovernanceProofs

`Control` (one handler moves at a time, with a record of the right shape),
`GateFits`, `RulesFit` and `ContentFits`.  `GateFits` says, for each handler and
each rule in its `standing`, that the part of the gate that has judged the rule's
kind has found it hard or could not read it, and that in between the rule is in
what the handler has read: the rules that stand only shrink, so a rule that stands
at the end was there at each part.  `RulesFit` says of each table that the row a
handler is about to write is of the tenant it was checked for, or gone; ids are
given out once, so a row never comes back under another tenant.  `TableStep`
reduces every action to a find, an insert, an update or a delete of one table.
`ContentFits` is about what the rows hold: an update is a mixture of the fields
read and the fields sent, validated before the write, so that the row in a
handler's hands has to be good as well as those in the table; names stay unique
because a write gives a row the name it has (`NamesFit`).

### CatalogProofs

`RowsInv` is `TypeOK`, ids that are given out once (`IdsInv`), what each handler
holds at its stage (`WorkInv`) and `CatalogHasProvider`, which only holds up
together with them: an insert by an id that is gone is refused by the foreign key,
and an id never comes back.  Three more properties rest on it.

* `SyncCoversHolds`: `SyncOK` says that a sync has entered, under the provider it
  works for, all but what is on its list, *as long as that provider exists*; other
  syncs only add, and a deletion takes the provider with the services.
* `InstanceOfNamedProviderHolds`: `PinInv` says of every spec, in a request or in
  the hands of who is filing it, that whoever has the id it pins has the name it
  names.  A name may pass on to another id, but a pinned id to no other name.
  That a spec either pins a service or names none needs that no slug is empty
  (`CatalogAssumption`): every service in `aiproviders` has a constant, non-empty slug.
* `ForeignProvidersUntouchedHolds`: `TouchOK` says that the row which has the id in
  a handler's hands is one its caller may touch.  The check was made by name, the
  write is by id, and the tenant of an id never changes.

### MCPAccessProofs

`MCPInv` is `TypeOK`, ids within what has been given out (`RowsHaveIds`), what
each handler holds at its stage (`WorkFits`), that the server of every grant is
there (`GrantsStand`), and the two properties about decisions, which are inductive
together.  `DecisionKinds` says what a step can do to grants and decisions: take
grants away, file a request, or decide on one grant, which is active afterwards only
if its owner was let in.  `NewlyAllowed` says which steps let an agent in.

### LiteLLMKeysProofs

`KeysInv` adds to the two properties that neither a key nor a row precedes the
approval of its request (`Begun`), and that a handler at `insert` holds nothing raw
and no pointer without its secret, and one at `record` a key that is gone
(`HoldsFit`).  That an alias is minted once
is what keeps a recorded revoke true.

`ImportFollowsSpendHolds` is about whole imports, each a loop of three steps per
key.  `ImportsInv`: an import without an error so far has been alone from its
beginning (`CleanIsAlone`); what it noted at its beginning, what it has read and
every row are figures the proxy has reached, and the proxy's only grow
(`FiguresReached`, `SpendGrows`); what is off its list is in its hands or has a row
no older than the import (`TakenHasRow`); and while nothing has raced a key has
one row at most, and who creates one found none (`OneRow`).  Only the end of an
import makes its handler idle (`OnlyEndEnds`), with nothing left on the list.

### OrganizationProofs

`OrganizationInv` is `TypeOK`; `WorkFits` (the request of a grant has no row yet,
that of a revoke has the row whose access is taken away); `OneGrant` (a request is
granted by one handler); `AdminsKnown` (no invite is for an administrator); and
`AllStand`: every membership with a role of its own and every pending invite
`Stands`: it is in `unrecorded`, or a grant at `insert` holds it, or an active row
names it *that no handler is about to close*.  The last clause is the
strengthening: a revoke that is about to close its row has taken the access, so
that whatever is open again was given by somebody else since.  `HandlerStep` and
`StillStep` prove the invariant once, from what each call of the organization opens
and closes.

### ProjectsProofs

`ProjectsInv` is the properties themselves, the types, and what a handler knows
from where it stands (`Fits`): an approval works on the project it has made if it
has made one, and rolls back only then; it comes to its row with a project and with
permissions that were taken; a grant of ownership was asked for; only a route on
its way to its audit row has something to tell.  `InvitesAsked` is the
strengthening for `OwnersWereAsked`: an invite may be accepted long after the route
that sent it.  The action property `RollbackTakesOwn` follows from `Fits` in one step.

### Only model-checked

* The liveness properties `ExpiredIsReaped` and `ApprovalSettles`: fairness and
  ENABLED are outside what the prover handles.
* `OnlyPendingIsDecided`, which the code does not keep.

Nothing is proved by the induction theorems of the library, which take an operator
as a parameter that the provers cannot instantiate; the one induction that was
needed, over the subsets a sum runs through, is made from a well-founded minimum.
No module that is proved about declares a RECURSIVE operator.

## Not modelled

* **Price table, DLP patterns**: tables and text processing.  That a payload which
  cannot be redacted is not sent is a step of `SpendGate`.
* **Users and bootstrap**: one statement per operation; EnsureInitialAdmin runs
  once per start.
* **Credential resolver and cache**: the AI providers read static secrets, and
  nothing of the core depends on which of two minted credentials is used.
* **Event bus and sinks**: one goroutine per event, unordered, lossy by design;
  nothing reads what they write.
* **HTTP decoding, status codes, configuration, the console**: no state that
  interacts with the above.  Roles and tenants of the routes are in the modules.
* **RevealAIInstanceSecret** and the listing routes only read.
* **Line items of a cost report**: the import key holds an index into the bucket
  (ai_governance.go:494), which matters when a report changes its order; a bucket
  of `SpendGate` has one item.
* The tables of the former infrastructure product (clusters, nodes, jobs, backups)
  are not used by the service.

## Plan

What is left, in this order:

1. `AccessContract` for the providers: that the grant and revoke of `LiteLLMKeys`
   and `Organization` implement the one bit of access `AccessLifecycle` has, by
   refinement and its proof.
2. The bound on overspend with refused and unanswered calls, by what each lost
   answer takes out of the ledger.
3. Line items of a report in `SpendGate`.
4. `CredCache`, `Bootstrap`, `EventBus`: small concurrent parts.
