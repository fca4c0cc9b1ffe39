-------------------------- MODULE AccessLifecycle --------------------------
(***************************************************************************)
(* The life of an AI access grant: the requests and ai_service_instances   *)
(* rows, the access that lives at the AI provider, and the handlers of     *)
(* internal/orchestrator that move them (request.go, ai.go).               *)
(*                                                                         *)
(* No handler runs in a database transaction and no UPDATE carries the     *)
(* status it was decided on, so a handler is a sequence of steps, one per  *)
(* statement or provider call, that interleave with those of every other   *)
(* handler.  A step that only returns an error to its caller and leaves    *)
(* the state alone is a stuttering step and is not written down.           *)
(*                                                                         *)
(* One AI provider with one catalog service is modelled; a provider that   *)
(* is registered again after a deletion has new ids that no request of     *)
(* this model names.                                                       *)
(***************************************************************************)
EXTENDS Integers, FiniteSets

CONSTANTS
    Requests,    \* (name, environment) pairs of the requests table
    Handlers,    \* goroutines: HTTP handlers and the reaper loop
    Reaper,      \* the goroutine of runAIExpiryReaper
    None,        \* no instance in hand
    Quota,       \* limit of a "block" quota on instances
    Windows,     \* expiries a request may ask for; NoExpiry is none
    MaxTime,     \* bound of the clock
    Extension,   \* length of a recertification
    Operations,  \* the operations the environment calls
    Faults       \* the faults the environment injects

AllOperations == {"approve", "reject", "revoke", "recertify", "reap", "delete"}

(***************************************************************************)
(* "db"      a write returns an error and is not applied                   *)
(* "read"    a read inside the governance gate returns an error            *)
(* "refuse"  the provider refuses a call                                   *)
(* "lost"    the provider applies a call and its answer is lost (timeout)  *)
(* "gone"    the provider answers 404 when access to revoke is not there   *)
(* "secrets" the secret store does not return the provider's master key    *)
(* "abort"   the request context is cancelled, or the process stops        *)
(***************************************************************************)
AllFaults == {"db", "read", "refuse", "lost", "gone", "secrets", "abort"}

\* Beyond every reading of the clock: "expires_at is null".
NoExpiry == MaxTime + Extension + 1

Times == 0 .. NoExpiry

ASSUME AccessAssumption ==
    /\ IsFiniteSet(Requests) /\ IsFiniteSet(Handlers)
    /\ Reaper \in Handlers /\ Handlers # {Reaper}
    /\ None \notin Requests \X Handlers
    /\ Quota \in Nat
    /\ MaxTime \in Nat \ {0} /\ Extension \in Nat \ {0}
    /\ Windows \subseteq Times \ {0}
    /\ Operations \subseteq AllOperations
    /\ Faults \subseteq AllFaults

\* An approval of r by handler h creates at most one row, <<r, h>>: the
\* decision of h takes r out of pending_approval for good.
Instances == Requests \X Handlers

RequestStatus ==
    {"absent", "pending_approval", "approved", "rejected", "completed", "failed"}

\* The handlers that serve HTTP calls; only they decide on requests.
Callers == Handlers \ {Reaper}

\* "none": no such row.  No code writes the other statuses of the table.
InstanceStatus == {"none", "active", "revoked"}

ApproveStages == {"decide", "govern", "grant", "insert", "complete", "fail"}
RevokeStages  == {"load", "withdraw", "record"}
Stages == ApproveStages \cup RevokeStages
              \cup {"idle", "reject", "recertify", "scan", "purge", "drop"}

VARIABLES
    request,    \* requests.status
    window,     \* the expiry in requests.spec
    status,     \* ai_service_instances.status
    expires,    \* ai_service_instances.expires_at
    revokedAt,  \* ai_service_instances.revoked_at, 0 when null
    upstream,   \* requests whose access exists at the provider
    provider,   \* the ai_providers row exists
    stage,      \* the next statement of each handler
    work,       \* the row a handler works on; <<r, h>> while h decides on r
    todo,       \* rows a reaper has still to revoke, from its one listing
    now         \* the clock

rowVars == <<status, expires, revokedAt>>
handlerVars == <<stage, work, todo>>
vars == <<request, window, rowVars, upstream, provider, handlerVars, now>>

TypeOK ==
    /\ request \in [Requests -> RequestStatus]
    /\ window \in [Requests -> Times]
    /\ status \in [Instances -> InstanceStatus]
    /\ expires \in [Instances -> Times]
    /\ revokedAt \in [Instances -> Times]
    /\ upstream \in SUBSET Requests
    /\ provider \in BOOLEAN
    /\ stage \in [Handlers -> Stages]
    /\ work \in [Handlers -> Instances \cup {None}]
    /\ todo \in [Handlers -> SUBSET Instances]
    /\ now \in 1 .. MaxTime

Init ==
    /\ request = [r \in Requests |-> "absent"]
    /\ window = [r \in Requests |-> 0]
    /\ status = [i \in Instances |-> "none"]
    /\ expires = [i \in Instances |-> 0]
    /\ revokedAt = [i \in Instances |-> 0]
    /\ upstream = {}
    /\ provider = TRUE
    /\ stage = [h \in Handlers |-> "idle"]
    /\ work = [h \in Handlers |-> None]
    /\ todo = [h \in Handlers |-> {}]
    /\ now = 1

Active == {i \in Instances : status[i] = "active"}
Expired == {i \in Active : expires[i] <= now}

-----------------------------------------------------------------------------
(***************************************************************************)
(* Control of a handler.                                                   *)
(***************************************************************************)

Idle(h) == stage[h] = "idle"

Calls(h, op) == Idle(h) /\ h # Reaper /\ op \in Operations

Begin(h, s, i) ==
    /\ stage' = [stage EXCEPT ![h] = s]
    /\ work' = [work EXCEPT ![h] = i]
    /\ UNCHANGED todo

GoTo(h, s) ==
    /\ stage' = [stage EXCEPT ![h] = s]
    /\ UNCHANGED <<work, todo>>

\* The call returns; a reaper goes on with the rest of its listing.
Return(h) ==
    LET rest == todo[h] \ {work[h]} IN
    /\ stage' = [stage EXCEPT ![h] = IF rest = {} THEN "idle" ELSE "scan"]
    /\ work' = [work EXCEPT ![h] = None]
    /\ todo' = [todo EXCEPT ![h] = rest]

Tick ==
    /\ now < MaxTime
    /\ now' = now + 1
    /\ UNCHANGED <<request, window, rowVars, upstream, provider, handlerVars>>

-----------------------------------------------------------------------------
(***************************************************************************)
(* Steps with a defect.  No specification uses them: each stands for a     *)
(* plausible mistake in the step it is named after, and shows that a       *)
(* property would notice it.                                               *)
(***************************************************************************)

\* The limit itself is let through.
GateOpenAtLimit == Cardinality(Active) <= Quota

\* A blocked approval returns without marking the request failed.
ApproveGovernReturns(h) ==
    /\ stage[h] = "govern"
    /\ \/ provider /\ Cardinality(Active) < Quota /\ GoTo(h, "grant")
       \/ Return(h)
    /\ UNCHANGED <<request, window, rowVars, upstream, provider, now>>

\* A failed request is put back for another approval.
ApproveEndReopens(h) ==
    /\ stage[h] \in {"complete", "fail"}
    /\ request' = [request EXCEPT ![work[h][1]] =
                      IF stage[h] = "complete" THEN "completed" ELSE "pending_approval"]
    /\ Return(h)
    /\ UNCHANGED <<window, rowVars, upstream, provider, now>>

\* The provider's error is logged and the row is marked revoked anyway.
WithdrawErrorIgnored(h) ==
    /\ stage[h] = "withdraw"
    /\ "refuse" \in Faults
    /\ GoTo(h, "record")
    /\ UNCHANGED <<request, window, rowVars, upstream, provider, now>>

\* A recertified row is made active.
RecertifyReactivates(h) ==
    /\ stage[h] = "recertify"
    /\ expires' = [expires EXCEPT ![work[h]] = now + Extension]
    /\ status' = [status EXCEPT ![work[h]] = "active"]
    /\ Return(h)
    /\ UNCHANGED <<request, window, revokedAt, upstream, provider, now>>

\* The window grows from its old end, a null one included.
RecertifyFromExpiry(h) ==
    /\ stage[h] = "recertify"
    /\ expires' = [expires EXCEPT ![work[h]] = @ + Extension]
    /\ Return(h)
    /\ UNCHANGED <<request, window, status, revokedAt, upstream, provider, now>>

\* The loop over the listing stops before its last row.
ReapNextButLast(h) ==
    /\ stage[h] = "scan"
    /\ \E i \in todo[h] :
         IF status[i] = "active" /\ todo[h] # {i}
         THEN Begin(h, "load", i)
         ELSE LET rest == todo[h] \ {i} IN
              /\ todo' = [todo EXCEPT ![h] = rest]
              /\ stage' = [stage EXCEPT ![h] = IF rest = {} THEN "idle" ELSE "scan"]
              /\ UNCHANGED work
    /\ UNCHANGED <<request, window, rowVars, upstream, provider, now>>

\* The provider is deleted without counting the live rows.
DeleteStartUncounted(h) ==
    /\ Calls(h, "delete")
    /\ provider
    /\ GoTo(h, "purge")
    /\ UNCHANGED <<request, window, rowVars, upstream, provider, now>>

\* The row is marked revoked first, and the provider is not called.
RevokeLoadRecords(h) ==
    /\ stage[h] = "load"
    /\ IF provider THEN GoTo(h, "record") ELSE Return(h)
    /\ UNCHANGED <<request, window, rowVars, upstream, provider, now>>

\* The decision could not be written and the approval goes on.
WriteErrorIgnored(h) ==
    /\ "db" \in Faults
    /\ \/ stage[h] = "insert" /\ GoTo(h, "fail")
       \/ stage[h] = "decide" /\ GoTo(h, "govern")
    /\ UNCHANGED <<request, window, rowVars, upstream, provider, now>>

-----------------------------------------------------------------------------
(***************************************************************************)
(* Requests.                                                               *)
(***************************************************************************)

\* CreateRequest: the row appears as pending_approval.  The generic route
\* reaches it without the governance gate that CreateAIRequest puts first.
FileRequest(r) ==
    /\ request[r] = "absent"
    /\ request' = [request EXCEPT ![r] = "pending_approval"]
    /\ \E w \in Windows : window' = [window EXCEPT ![r] = w]
    /\ UNCHANGED <<rowVars, upstream, provider, handlerVars, now>>

\* DecideRequest: an UPDATE by id that does not look at the status.
SetRequest(r, s) == request' = [request EXCEPT ![r] = s]

\* ApproveRequest reads the row and refuses one that is not pending.
ApproveStart(h, r) ==
    /\ Calls(h, "approve")
    /\ request[r] = "pending_approval"
    /\ Begin(h, "decide", <<r, h>>)
    /\ UNCHANGED <<request, window, rowVars, upstream, provider, now>>

ApproveDecide(h) ==
    /\ stage[h] = "decide"
    /\ SetRequest(work[h][1], "approved")
    /\ GoTo(h, "govern")
    /\ UNCHANGED <<window, rowVars, upstream, provider, now>>

\* ProvisionAIRequest looks up service and provider, then evaluates the
\* governance gate on the rows it lists now.
GateOpen == Cardinality(Active) < Quota

\* A policy, a usage quota or an exhausted budget may deny as well.
ApproveGovern(h) ==
    /\ stage[h] = "govern"
    /\ \/ provider /\ GateOpen /\ GoTo(h, "grant")
       \/ GoTo(h, "fail")
    /\ UNCHANGED <<request, window, rowVars, upstream, provider, now>>

\* The gate ignores a failed read of quotas or instances.
GovernFailsOpen(h) ==
    /\ "read" \in Faults
    /\ stage[h] = "govern"
    /\ provider
    /\ GoTo(h, "grant")
    /\ UNCHANGED <<request, window, rowVars, upstream, provider, now>>

\* ProvisionAccess: the access id is a function of the request.
ApproveGrant(h) ==
    /\ stage[h] = "grant"
    /\ upstream' = upstream \cup {work[h][1]}
    /\ GoTo(h, "insert")
    /\ UNCHANGED <<request, window, rowVars, provider, now>>

\* Without a key the provider records a governance-only entitlement.
GrantWithoutKey(h) ==
    /\ "secrets" \in Faults
    /\ stage[h] = "grant"
    /\ GoTo(h, "insert")
    /\ UNCHANGED <<request, window, rowVars, upstream, provider, now>>

GrantError(h) ==
    /\ stage[h] = "grant"
    /\ \/ "refuse" \in Faults /\ UNCHANGED upstream
       \/ "lost" \in Faults /\ upstream' = upstream \cup {work[h][1]}
    /\ GoTo(h, "fail")
    /\ UNCHANGED <<request, window, rowVars, provider, now>>

\* CreateAIServiceInstance: the foreign key needs the provider's service.
\* When the insert fails nothing takes the access back.
ApproveInsert(h) ==
    /\ stage[h] = "insert"
    /\ IF provider
       THEN /\ status' = [status EXCEPT ![work[h]] = "active"]
            /\ expires' = [expires EXCEPT ![work[h]] = window[work[h][1]]]
            /\ GoTo(h, "complete")
       ELSE /\ GoTo(h, "fail")
            /\ UNCHANGED <<status, expires>>
    /\ UNCHANGED <<request, window, revokedAt, upstream, provider, now>>

\* SetRequestResource, on either way out of provisionRequest.
ApproveEnd(h) ==
    /\ stage[h] \in {"complete", "fail"}
    /\ SetRequest(work[h][1], IF stage[h] = "complete" THEN "completed" ELSE "failed")
    /\ Return(h)
    /\ UNCHANGED <<window, rowVars, upstream, provider, now>>

RejectStart(h, r) ==
    /\ Calls(h, "reject")
    /\ request[r] = "pending_approval"
    /\ Begin(h, "reject", <<r, h>>)
    /\ UNCHANGED <<request, window, rowVars, upstream, provider, now>>

RejectDecide(h) ==
    /\ stage[h] = "reject"
    /\ SetRequest(work[h][1], "rejected")
    /\ Return(h)
    /\ UNCHANGED <<window, rowVars, upstream, provider, now>>

-----------------------------------------------------------------------------
(***************************************************************************)
(* Instances.                                                              *)
(***************************************************************************)

\* RevokeAIInstance reads the row and refuses one that is not active.
RevokeStart(h, i) ==
    /\ Calls(h, "revoke")
    /\ status[i] = "active"
    /\ Begin(h, "load", i)
    /\ UNCHANGED <<request, window, rowVars, upstream, provider, now>>

\* It then loads service, provider and credentials.
RevokeLoad(h) ==
    /\ stage[h] = "load"
    /\ IF provider THEN GoTo(h, "withdraw") ELSE Return(h)
    /\ UNCHANGED <<request, window, rowVars, upstream, provider, now>>

\* RevokeAccess at the provider, by the access id of the row.
RevokeWithdraw(h) ==
    /\ stage[h] = "withdraw"
    /\ work[h][1] \in upstream \/ "gone" \notin Faults
    /\ upstream' = upstream \ {work[h][1]}
    /\ GoTo(h, "record")
    /\ UNCHANGED <<request, window, rowVars, provider, now>>

\* Without a master key litellm answers success and deletes nothing.
WithdrawWithoutKey(h) ==
    /\ "secrets" \in Faults
    /\ stage[h] = "withdraw"
    /\ GoTo(h, "record")
    /\ UNCHANGED <<request, window, rowVars, upstream, provider, now>>

WithdrawError(h) ==
    /\ stage[h] = "withdraw"
    /\ \/ "refuse" \in Faults /\ UNCHANGED upstream
       \/ "gone" \in Faults /\ work[h][1] \notin upstream /\ UNCHANGED upstream
       \/ "lost" \in Faults /\ upstream' = upstream \ {work[h][1]}
    /\ Return(h)
    /\ UNCHANGED <<request, window, rowVars, provider, now>>

\* RevokeAIServiceInstance: an UPDATE by id; no row is an error.
RevokeRecord(h) ==
    /\ stage[h] = "record"
    /\ IF status[work[h]] = "none"
       THEN UNCHANGED <<status, revokedAt>>
       ELSE /\ status' = [status EXCEPT ![work[h]] = "revoked"]
            /\ revokedAt' = [revokedAt EXCEPT ![work[h]] = now]
    /\ Return(h)
    /\ UNCHANGED <<request, window, expires, upstream, provider, now>>

RecertifyStart(h, i) ==
    /\ Calls(h, "recertify")
    /\ status[i] = "active"
    /\ Begin(h, "recertify", i)
    /\ UNCHANGED <<request, window, rowVars, upstream, provider, now>>

\* RecertifyAIServiceInstance: an UPDATE by id that does not look at the
\* status; no row is an error.
RecertifyWrite(h) ==
    /\ stage[h] = "recertify"
    /\ IF status[work[h]] = "none"
       THEN UNCHANGED expires
       ELSE expires' = [expires EXCEPT ![work[h]] = now + Extension]
    /\ Return(h)
    /\ UNCHANGED <<request, window, status, revokedAt, upstream, provider, now>>

\* ReapExpiredAIInstances lists once, from the ticker or from the route ...
ReapStart(h) ==
    /\ Idle(h) /\ "reap" \in Operations
    /\ Expired # {}
    /\ stage' = [stage EXCEPT ![h] = "scan"]
    /\ todo' = [todo EXCEPT ![h] = Expired]
    /\ UNCHANGED <<request, window, rowVars, upstream, provider, work, now>>

\* ... and calls RevokeAIInstance for each row listed, which reads the row
\* again but looks at its status only.
ReapNext(h) ==
    /\ stage[h] = "scan"
    /\ \E i \in todo[h] :
         IF status[i] = "active"
         THEN Begin(h, "load", i)
         ELSE LET rest == todo[h] \ {i} IN
              /\ todo' = [todo EXCEPT ![h] = rest]
              /\ stage' = [stage EXCEPT ![h] = IF rest = {} THEN "idle" ELSE "scan"]
              /\ UNCHANGED work
    /\ UNCHANGED <<request, window, rowVars, upstream, provider, now>>

-----------------------------------------------------------------------------
(***************************************************************************)
(* DeleteAIProvider: count the live rows, delete every row, delete the     *)
(* provider.                                                               *)
(***************************************************************************)

DeleteStart(h) ==
    /\ Calls(h, "delete")
    /\ provider
    /\ Active = {}
    /\ GoTo(h, "purge")
    /\ UNCHANGED <<request, window, rowVars, upstream, provider, now>>

DeletePurge(h) ==
    /\ stage[h] = "purge"
    /\ status' = [i \in Instances |-> "none"]
    /\ expires' = [i \in Instances |-> 0]
    /\ revokedAt' = [i \in Instances |-> 0]
    /\ GoTo(h, "drop")
    /\ UNCHANGED <<request, window, upstream, provider, now>>

\* The foreign key of the instances refuses the delete when a row is left.
DeleteDrop(h) ==
    /\ stage[h] = "drop"
    /\ provider' = (provider /\ \E i \in Instances : status[i] # "none")
    /\ Return(h)
    /\ UNCHANGED <<request, window, rowVars, upstream, now>>

-----------------------------------------------------------------------------
(***************************************************************************)
(* Faults of the handlers' own side.                                       *)
(***************************************************************************)

\* A write fails: ProvisionAIRequest reports it to ApproveRequest, which
\* marks the request failed; every other caller just returns.
WriteError(h) ==
    /\ "db" \in Faults
    /\ \/ stage[h] = "insert" /\ GoTo(h, "fail")
       \/ /\ stage[h] \in {"decide", "complete", "fail", "reject", "record",
                           "recertify", "purge", "drop"}
          /\ Return(h)
    /\ UNCHANGED <<request, window, rowVars, upstream, provider, now>>

\* The context is cancelled: every later call of the handler fails, its
\* error handling included.
Abandon(h) ==
    /\ "abort" \in Faults
    /\ ~Idle(h)
    /\ stage' = [stage EXCEPT ![h] = "idle"]
    /\ work' = [work EXCEPT ![h] = None]
    /\ todo' = [todo EXCEPT ![h] = {}]
    /\ UNCHANGED <<request, window, rowVars, upstream, provider, now>>

-----------------------------------------------------------------------------
Start(h) ==
    \/ \E r \in Requests : ApproveStart(h, r) \/ RejectStart(h, r)
    \/ \E i \in Instances : RevokeStart(h, i) \/ RecertifyStart(h, i)
    \/ ReapStart(h)
    \/ DeleteStart(h)

\* The steps a running handler takes when nothing fails.
Continue(h) ==
    \/ ApproveDecide(h) \/ ApproveGovern(h) \/ ApproveGrant(h)
    \/ ApproveInsert(h) \/ ApproveEnd(h) \/ RejectDecide(h)
    \/ RevokeLoad(h) \/ RevokeWithdraw(h) \/ RevokeRecord(h)
    \/ RecertifyWrite(h) \/ ReapNext(h)
    \/ DeletePurge(h) \/ DeleteDrop(h)

Fail(h) ==
    \/ GovernFailsOpen(h) \/ GrantWithoutKey(h) \/ GrantError(h)
    \/ WithdrawWithoutKey(h) \/ WithdrawError(h)
    \/ WriteError(h) \/ Abandon(h)

Next ==
    \/ Tick
    \/ \E r \in Requests : FileRequest(r)
    \/ \E h \in Handlers : Start(h) \/ Continue(h) \/ Fail(h)

Spec == Init /\ [][Next]_vars

(***************************************************************************)
(* Fairness.  A running handler goes on until it returns (Go schedules     *)
(* runnable goroutines, the provider clients have timeouts), and the       *)
(* ticker of runAIExpiryReaper calls the reaper again and again.  Callers  *)
(* owe nothing.  A provider that keeps refusing is not covered: a revoke   *)
(* that the reaper tries for ever succeeds at some time, for each row.     *)
(***************************************************************************)
Fairness ==
    /\ WF_vars(Tick)
    /\ WF_vars(ReapStart(Reaper))
    /\ \A h \in Handlers : WF_vars(Continue(h))
    /\ \A i \in Requests \X Callers :
         SF_vars(work[Reaper] = i /\ RevokeWithdraw(Reaper))

LiveSpec == Spec /\ Fairness

-----------------------------------------------------------------------------
(***************************************************************************)
(* Properties.                                                             *)
(***************************************************************************)

\* h's approval of r answers for the access at the provider: its insert is
\* still to come, or the row it inserted is active.
Holds(h, r) ==
    \/ stage[h] = "insert" /\ work[h] = <<r, h>>
    \/ status[<<r, h>>] = "active"

\* Access that exists at the provider is always accounted for: by an active
\* instance row, or by an approval about to insert one.  However approvals,
\* revokes, recertifications and reaper passes interleave, none of them
\* leaves a grant nobody can see and revoke (ai.go: ProvisionAIRequest,
\* RevokeAIInstance).  It needs what the run says: no lost write, no
\* cancelled handler, a readable secret store, no DeleteAIProvider.
AccessHasOwner == \A r \in upstream : \E h \in Handlers : Holds(h, r)

\* evaluateAIGovernance counts the active rows and the insert comes later,
\* so a "block" quota may be passed; never by more than one row for each
\* further caller that can be between the gate and the insert.  With one
\* caller the quota is exact.
QuotaOvershootBounded ==
    Cardinality(Active) <= Quota + Cardinality(Callers) - 1

\* Nothing exists for a request that nobody has decided on: neither a row
\* nor access at the provider precedes the recorded decision (request.go:
\* "Provisioning happens only after ApproveRequest").
NothingBeforeDecision ==
    \A r \in Requests :
        \/ request[r] \notin {"absent", "pending_approval"}
        \/ r \notin upstream /\ \A h \in Handlers : status[<<r, h>>] = "none"

\* A revoked grant never comes back: no update of another handler that read
\* the row while it was active makes it active again.
RevokedIsFinal ==
    [][\A i \in Instances :
         status[i] = "revoked" => status'[i] \in {"revoked", "none"}]_vars

\* A request leaves pending_approval for good.  This is what makes an
\* approver create at most one row however often it is called.
DecisionIsFinal ==
    [][\A r \in Requests :
         request[r] \notin {"absent", "pending_approval"}
            => request'[r] \notin {"absent", "pending_approval"}]_vars

\* Whenever no handler runs, what the three stores say of a request agrees:
\* access at the provider if and only if an active row without a date of
\* revocation, and only under a completed request.  Shown for one caller
\* beside the reaper; two callers can approve and reject the same request.
SettledStoresAgree ==
    (\A h \in Handlers : Idle(h)) =>
        \A r \in Requests :
            /\ r \in upstream <=> \E h \in Handlers : status[<<r, h>>] = "active"
            /\ \A h \in Handlers : status[<<r, h>>] = "active" <=>
                   status[<<r, h>>] # "none" /\ revokedAt[<<r, h>>] = 0
            /\ r \in upstream => request[r] = "completed"

\* A grant whose window has passed does not stay: the reaper revokes it,
\* or somebody recertifies it (ReapExpiredAIInstances, runAIExpiryReaper).
ExpiredIsReaped ==
    \A i \in Instances : (i \in Expired) ~> (i \notin Expired)

\* An approved request reaches an outcome: no order of steps of other
\* handlers makes ApproveRequest leave it approved.
ApprovalSettles ==
    \A r \in Requests : (request[r] = "approved") ~> (request[r] # "approved")

(***************************************************************************)
(* The service keeps the contract of AccessContract.  A request is decided *)
(* when it has left pending_approval; the claim of an approval is its      *)
(* insert to come or its active row, and closed when the row is revoked.   *)
(***************************************************************************)

Phase(r) ==
    IF request[r] = "absent" THEN "absent"
    ELSE IF request[r] = "pending_approval" THEN "pending" ELSE "decided"

Claim(i) ==
    IF \/ stage[i[2]] = "insert" /\ work[i[2]] = i
       \/ status[i] = "active"
    THEN "open"
    ELSE IF status[i] = "revoked" THEN "closed" ELSE "none"

Contract == INSTANCE AccessContract WITH
    Approvers <- Handlers,
    phase <- [r \in Requests |-> Phase(r)],
    access <- upstream,
    claim <- [i \in Instances |-> Claim(i)]

\* Every step of every handler is one of the contract's or none of its
\* concern: in particular RevokeAIInstance marks a row revoked only when
\* the access is gone from the provider or another approval of the same
\* request answers for it, and no row is opened twice.
KeepsContract == Contract!Spec

(***************************************************************************)
(* What a comment says, and the code does not keep.                        *)
(***************************************************************************)

\* request.go: "ApproveRequest approves a pending request", "RejectRequest
\* declines a pending request".
OnlyPendingIsDecided ==
    [][\A r \in Requests :
         request'[r] # request[r] /\ request'[r] \in {"approved", "rejected"}
            => request[r] = "pending_approval"]_vars

=============================================================================
