---------------------------- MODULE Organization ----------------------------
(***************************************************************************)
(* An Anthropic organization governed through OPORD: access requests that  *)
(* become invites or workspace memberships, their revocation by a caller   *)
(* or by the expiry reaper, and the administration routes that change the  *)
(* same organization (aiproviders/anthropic, orchestrator/ai_admin.go,     *)
(* api/ai_admin.go).                                                       *)
(*                                                                         *)
(* The organization itself is not in the repository: its state and what    *)
(* its API does are modelled from the calls and comments of the client.    *)
(* An email stands for the id of its user.  Any call may be refused, which *)
(* changes nothing, or may be applied and its answer lost; the client sees *)
(* an error either way, which ends the operation.                          *)
(***************************************************************************)
EXTENDS Naturals, FiniteSets

CONSTANTS
    Handlers,      \* goroutines: HTTP calls, and the reaper, which revokes
    Emails,        \* people
    Workspaces,    \* real workspaces
    NoWorkspace,   \* the placeholder "default"
    Requests,      \* approved requests
    SpecOf,        \* owner, workspace and workspace_role of each request
    RoleInputs,    \* organization roles that an administrator sends
    GrantInputs,   \* workspace roles that an administrator sends
    Operations,    \* which of the administration routes are called
    MaxInvites,    \* bound on the invites
    Faults         \* "refuse", "lost": of a call; "db": a write fails

OrgRoles == {"user", "developer", "billing", "admin"}

\* "none" is no member of the organization, and no explicit member of a
\* workspace.
WorkspaceRoles == {"workspace_developer", "workspace_admin", "workspace_billing"}

Invites == 1 .. MaxInvites

\* What ProviderAccessID says: "anthropic-ws:<ws>:user:<user>", the same for
\* every request of a user for a workspace; "anthropic-invite:<id>"; or an id
\* that nothing at the provider answers to.
MembershipOf(w, u) == [kind |-> "ws", ws |-> w, user |-> u, invite |-> 0]
InviteAccess(i) == [kind |-> "invite", ws |-> NoWorkspace, user |-> "", invite |-> i]
RecordOnly == [kind |-> "record", ws |-> NoWorkspace, user |-> "", invite |-> 0]

AccessIds == {RecordOnly} \cup {InviteAccess(i) : i \in Invites}
                \cup {MembershipOf(w, u) : w \in Workspaces, u \in Emails}

ASSUME OrganizationAssumption ==
    /\ NoWorkspace \notin Workspaces /\ "none" \notin Requests
    /\ SpecOf \in [Requests -> [owner : Emails, ws : Workspaces \cup {NoWorkspace},
                                role : WorkspaceRoles]]
    /\ RoleInputs \subseteq OrgRoles
    /\ GrantInputs \subseteq WorkspaceRoles
    /\ MaxInvites \in Nat
    /\ Faults \subseteq {"refuse", "lost", "db"}

VARIABLES
    orgRole,     \* of each email in the organization
    invite,      \* invites, by id
    workspace,   \* of each workspace: "none", "active" or "archived"
    member,      \* the explicit members of each workspace, with their roles
    console,     \* those whom somebody made an admin in the Console
    unrecorded,  \* memberships and invites that no row will answer for
    instance,    \* the ai_service_instances row of each request
    stage,       \* the next call of each handler
    work         \* what it works on

organization == <<orgRole, invite, workspace, member, console, unrecorded>>
control == <<stage, work>>
vars == <<organization, instance, control>>

NoInvite == [email |-> "", role |-> "none", status |-> "none"]
NoRow == [status |-> "none", access |-> RecordOnly]
NoWork == [request |-> "none", access |-> RecordOnly, role |-> "none"]

Stages == {"idle", "users", "workspaces", "lookup", "add", "update", "insert",
           "revoke", "reset", "close"}

TypeOK ==
    /\ orgRole \in [Emails -> OrgRoles \cup {"none"}]
    /\ invite \in [Invites -> [email : Emails \cup {""}, role : OrgRoles \cup {"none"},
                               status : {"none", "pending", "accepted", "deleted"}]]
    /\ workspace \in [Workspaces -> {"none", "active", "archived"}]
    /\ member \in [Workspaces -> [Emails -> WorkspaceRoles \cup {"none"}]]
    /\ console \subseteq Emails
    /\ unrecorded \subseteq AccessIds
    /\ instance \in [Requests -> [status : {"none", "active", "revoked"},
                                  access : AccessIds]]
    /\ stage \in [Handlers -> Stages]
    /\ work \in [Handlers -> [request : Requests \cup {"none"}, access : AccessIds,
                              role : WorkspaceRoles \cup {"none"}]]

\* Some are developers of the organization, others are not in it yet.
Init ==
    /\ orgRole \in [Emails -> {"developer", "none"}]
    /\ invite = [i \in Invites |-> NoInvite]
    /\ workspace \in [Workspaces -> {"active", "none"}]
    /\ member = [w \in Workspaces |-> [u \in Emails |-> "none"]]
    /\ console = {} /\ unrecorded = {}
    /\ instance = [r \in Requests |-> NoRow]
    /\ stage = [h \in Handlers |-> "idle"]
    /\ work = [h \in Handlers |-> NoWork]

-----------------------------------------------------------------------------
(***************************************************************************)
(* Control of a handler.                                                   *)
(***************************************************************************)

Goto(h, s, w) ==
    /\ stage' = [stage EXCEPT ![h] = s]
    /\ work' = [work EXCEPT ![h] = w]

Proceed(h, s) == Goto(h, s, work[h])

Return(h) == Goto(h, "idle", NoWork)

Idle(h) == stage[h] = "idle"

\* An administration route that needs an operator, and calls once.
Route(h, op) == op \in Operations /\ Idle(h) /\ UNCHANGED <<instance, control>>

-----------------------------------------------------------------------------
(***************************************************************************)
(* The organization.                                                       *)
(***************************************************************************)

\* The whole list, however many pages it takes.
ListOrgUsers == {u \in Emails : orgRole[u] # "none"}

ListWorkspaces == {w \in Workspaces : workspace[w] # "none"}

\* resolveUserRef: a user is found by the email, and only once in the
\* organization.
resolveUserRef(u) == u \in ListOrgUsers

\* (A defect: no role is refused.)
InviteAnyRole(u, role) ==
    /\ \E i \in Invites :
         /\ invite[i] = NoInvite
         /\ \A k \in Invites : k < i => invite[k] # NoInvite
         /\ invite' = [invite EXCEPT ![i] = [email |-> u, role |-> role, status |-> "pending"]]
    /\ UNCHANGED <<orgRole, workspace, member, console>>

\* An invite gets the next id.
InviteUser(u, role) ==
    /\ role # "admin"
    /\ \E i \in Invites :
         /\ invite[i] = NoInvite
         /\ \A k \in Invites : k < i => invite[k] # NoInvite
         /\ invite' = [invite EXCEPT ![i] = [email |-> u, role |-> role, status |-> "pending"]]
    /\ UNCHANGED <<orgRole, workspace, member, console>>

NewInvite == CHOOSE i \in Invites : invite[i] = NoInvite /\ \A k \in Invites :
                                        k < i => invite[k] # NoInvite

DeleteInvite(i) ==
    /\ invite[i].status = "pending"
    /\ invite' = [invite EXCEPT ![i].status = "deleted"]
    /\ UNCHANGED <<orgRole, workspace, member, console>>

\* Whoever leaves the organization leaves its workspaces.
RemoveOrgUser(u) ==
    /\ orgRole[u] # "none"
    /\ orgRole' = [orgRole EXCEPT ![u] = "none"]
    /\ member' = [w \in Workspaces |-> [member[w] EXCEPT ![u] = "none"]]
    /\ console' = console \ {u}
    /\ UNCHANGED <<invite, workspace>>

SetOrgRole(u, role) ==
    /\ orgRole[u] # "none" /\ role # "admin"
    /\ orgRole' = [orgRole EXCEPT ![u] = role]
    /\ UNCHANGED <<invite, workspace, member, console>>

CreateWorkspace(w) ==
    /\ workspace[w] = "none"
    /\ workspace' = [workspace EXCEPT ![w] = "active"]
    /\ UNCHANGED <<orgRole, invite, member, console>>

ArchiveWorkspace(w) ==
    /\ workspace[w] = "active"
    /\ workspace' = [workspace EXCEPT ![w] = "archived"]
    /\ UNCHANGED <<orgRole, invite, member, console>>

\* Add-member, and the update of a member's role.
SetMember(w, u, role) ==
    /\ workspace[w] = "active" /\ orgRole[u] # "none"
    /\ member' = [member EXCEPT ![w][u] = role]
    /\ UNCHANGED <<orgRole, invite, workspace, console>>

\* A membership that is not there is a 404, an error as any other.
CanRemove(w, u) == workspace[w] = "active" /\ member[w][u] # "none"

RemoveWorkspaceMember(w, u) ==
    /\ CanRemove(w, u) /\ orgRole[u] # "billing"
    /\ member' = [member EXCEPT ![w][u] = "none"]
    /\ UNCHANGED <<orgRole, invite, workspace, console>>

\* The org x workspace role matrix.
RoleComboAllowed(org, ws) ==
    /\ ws # "workspace_billing"
    /\ org = "billing" => ws = "workspace_admin"

InheritedWorkspaceRole(org) ==
    CASE org = "admin" -> "workspace_admin"
      [] org = "billing" -> "workspace_billing"
      [] OTHER -> "none"

\* Explicit members, and those who inherit a role and are not explicit.
EffectiveWorkspaceAccess(w) ==
    [u \in Emails |-> IF member[w][u] # "none" THEN member[w][u]
                      ELSE InheritedWorkspaceRole(orgRole[u])]

-----------------------------------------------------------------------------
(***************************************************************************)
(* Steps with a defect, used by no specification.                          *)
(***************************************************************************)

\* The row is closed whatever the provider answers.
RevokeIgnoresError(h) ==
    /\ stage[h] = "revoke"
    /\ LET a == work[h].access IN
       \/ /\ a.kind = "ws" /\ RemoveWorkspaceMember(a.ws, a.user)
          /\ unrecorded' = unrecorded \ {a}
       \/ /\ a.kind = "invite" /\ DeleteInvite(a.invite)
          /\ unrecorded' = unrecorded \ {a}
       \/ UNCHANGED organization
    /\ Proceed(h, "close")
    /\ UNCHANGED instance

\* A status that the check of the table does not list.
InsertAsGranted(h) ==
    /\ stage[h] = "insert"
    /\ instance' = [instance EXCEPT ![work[h].request] =
                       [status |-> "granted", access |-> work[h].access]]
    /\ Return(h)
    /\ UNCHANGED organization

-----------------------------------------------------------------------------
(***************************************************************************)
(* ProvisionAccess.                                                        *)
(***************************************************************************)

\* A real grant needs a real workspace; without one there is a record only.
\* (The owner is an email, and the admin key is there.)  A request that has
\* failed stands for the next one its owner files.
ProvisionAccess(h) ==
    /\ Idle(h)
    /\ \E r \in Requests :
         /\ instance[r].status = "none" /\ \A k \in Handlers : work[k].request # r
         /\ IF SpecOf[r].ws = NoWorkspace
            THEN Goto(h, "insert", [NoWork EXCEPT !.request = r])
            ELSE Goto(h, "users", [NoWork EXCEPT !.request = r])
    /\ UNCHANGED <<organization, instance>>

\* A billing user is upgraded to an administrator of the workspace; "none"
\* is a role that cannot be given.
RoleFor(org, wanted) ==
    CASE RoleComboAllowed(org, wanted) -> wanted
      [] org = "billing" /\ ~RoleComboAllowed(org, wanted) -> "workspace_admin"
      [] OTHER -> "none"

\* grantRealAccess: the owner is looked for and, if absent, invited.
GrantFindUser(h) ==
    /\ stage[h] = "users"
    /\ LET r == work[h].request IN
       \/ /\ SpecOf[r].owner \in ListOrgUsers
          /\ Goto(h, "workspaces", [work[h] EXCEPT
                    !.role = RoleFor(orgRole[SpecOf[r].owner], SpecOf[r].role)])
          /\ UNCHANGED organization
       \/ /\ SpecOf[r].owner \notin ListOrgUsers
          /\ InviteUser(SpecOf[r].owner, "developer")
          /\ Goto(h, "insert", [work[h] EXCEPT !.access = InviteAccess(NewInvite)])
          /\ UNCHANGED unrecorded
    /\ UNCHANGED instance

\* The active workspaces, by their name; then the role is tested.
GrantFindWorkspace(h) ==
    /\ stage[h] = "workspaces"
    /\ LET s == SpecOf[work[h].request] IN
       IF s.ws \in ListWorkspaces /\ workspace[s.ws] = "active" /\ work[h].role # "none"
       THEN Goto(h, "lookup", [work[h] EXCEPT !.access = MembershipOf(s.ws, s.owner)])
       ELSE Return(h)
    /\ UNCHANGED <<organization, instance>>

\* GrantWorkspaceAccess asks for the user again, with the role he has now.
GrantLookup(h) ==
    /\ stage[h] = "lookup"
    /\ IF /\ orgRole[work[h].access.user] # "none"
          /\ RoleComboAllowed(orgRole[work[h].access.user], work[h].role)
       THEN Proceed(h, "add")
       ELSE Return(h)
    /\ UNCHANGED <<organization, instance>>

\* A grant of a request goes on with its row, one of an administrator ends.
Granted(h) ==
    IF work[h].request = "none"
    THEN unrecorded' = unrecorded \cup {work[h].access} /\ Return(h)
    ELSE UNCHANGED unrecorded /\ Proceed(h, "insert")

\* Add-member; "already a member" makes it an update of the role.
GrantAdd(h) ==
    /\ stage[h] = "add"
    /\ LET a == work[h].access IN
       \/ /\ member[a.ws][a.user] = "none"
          /\ SetMember(a.ws, a.user, work[h].role)
          /\ Granted(h)
       \/ /\ member[a.ws][a.user] # "none" /\ workspace[a.ws] = "active"
          /\ Proceed(h, "update")
          /\ UNCHANGED organization
       \/ /\ workspace[a.ws] # "active" \/ orgRole[a.user] = "none"
          /\ Return(h)
          /\ UNCHANGED organization
    /\ UNCHANGED instance

GrantUpdate(h) ==
    /\ stage[h] = "update"
    /\ LET a == work[h].access IN
       IF CanRemove(a.ws, a.user)
       THEN SetMember(a.ws, a.user, work[h].role) /\ Granted(h)
       ELSE Return(h) /\ UNCHANGED organization
    /\ UNCHANGED instance

\* CreateAIServiceInstance.  A failure leaves the access without a row.
InsertInstance(h) ==
    /\ stage[h] = "insert"
    /\ \/ /\ instance' = [instance EXCEPT ![work[h].request] =
                             [status |-> "active", access |-> work[h].access]]
          /\ UNCHANGED unrecorded
       \/ /\ "db" \in Faults
          /\ unrecorded' = unrecorded \cup {work[h].access}
          /\ UNCHANGED instance
    /\ Return(h)
    /\ UNCHANGED <<orgRole, invite, workspace, member, console>>

-----------------------------------------------------------------------------
(***************************************************************************)
(* RevokeAccess, called by RevokeAIInstance: by a caller at any time, by   *)
(* the reaper for a row that has expired, as every row does in the end.    *)
(***************************************************************************)

RevokeAIInstance(h, r) ==
    /\ Idle(h)
    /\ instance[r].status = "active"
    /\ Goto(h, "revoke", [NoWork EXCEPT !.request = r, !.access = instance[r].access])
    /\ UNCHANGED <<organization, instance>>

\* The member is removed, or a billing user, who cannot be, reset; the
\* pending invite is deleted; of a record there is nothing to undo.  Any
\* error ends the call and the row stays.
RevokeAccess(h) ==
    /\ stage[h] = "revoke"
    /\ LET a == work[h].access IN
       \/ /\ a.kind = "ws" /\ RemoveWorkspaceMember(a.ws, a.user)
          /\ unrecorded' = unrecorded \ {a}
          /\ Proceed(h, "close")
       \/ /\ a.kind = "ws" /\ CanRemove(a.ws, a.user) /\ orgRole[a.user] = "billing"
          /\ Proceed(h, "reset")
          /\ UNCHANGED organization
       \/ /\ a.kind = "ws" /\ ~CanRemove(a.ws, a.user)
          /\ Return(h)
          /\ UNCHANGED organization
       \/ /\ a.kind = "invite" /\ DeleteInvite(a.invite)
          /\ unrecorded' = unrecorded \ {a}
          /\ Proceed(h, "close")
       \/ /\ a.kind = "invite" /\ invite[a.invite].status # "pending"
          /\ Return(h)
          /\ UNCHANGED organization
       \/ /\ a.kind = "record"
          /\ Proceed(h, "close")
          /\ UNCHANGED organization
    /\ UNCHANGED instance

ResetBilling(h) ==
    /\ stage[h] = "reset"
    /\ LET a == work[h].access IN
       IF CanRemove(a.ws, a.user)
       THEN /\ SetMember(a.ws, a.user, "workspace_billing")
            /\ unrecorded' = unrecorded \ {a}
            /\ Proceed(h, "close")
       ELSE Return(h) /\ UNCHANGED organization
    /\ UNCHANGED instance

\* RevokeAIServiceInstance, by id.
CloseInstance(h) ==
    /\ stage[h] = "close"
    /\ instance' = [instance EXCEPT ![work[h].request].status = "revoked"]
    /\ Return(h)
    /\ UNCHANGED organization

\* The provider refuses the call of any stage, or the last write fails.
CallError(h) ==
    /\ \/ "refuse" \in Faults /\ stage[h] \notin {"idle", "insert", "close"}
       \/ "db" \in Faults /\ stage[h] = "close"
    /\ Return(h)
    /\ UNCHANGED <<organization, instance>>

\* A call that changes something is applied, but its answer is lost or not
\* understood: no row will name what was granted, and the row of what was
\* revoked stays active.  (For a route that is the same as success.)
CallLost(h) ==
    /\ "lost" \in Faults
    /\ LET a == work[h].access
           owner == SpecOf[work[h].request].owner
       IN
       \/ /\ stage[h] = "users" /\ owner \notin ListOrgUsers
          /\ InviteUser(owner, "developer")
          /\ unrecorded' = unrecorded \cup {InviteAccess(NewInvite)}
       \/ /\ \/ stage[h] = "add" /\ member[a.ws][a.user] = "none"
             \/ stage[h] = "update" /\ CanRemove(a.ws, a.user)
          /\ SetMember(a.ws, a.user, work[h].role)
          /\ unrecorded' = unrecorded \cup {a}
       \/ /\ stage[h] = "revoke" /\ a.kind = "ws" /\ RemoveWorkspaceMember(a.ws, a.user)
          /\ unrecorded' = unrecorded \ {a}
       \/ /\ stage[h] = "revoke" /\ a.kind = "invite" /\ DeleteInvite(a.invite)
          /\ unrecorded' = unrecorded \ {a}
       \/ /\ stage[h] = "reset" /\ CanRemove(a.ws, a.user)
          /\ SetMember(a.ws, a.user, "workspace_billing")
          /\ unrecorded' = unrecorded \ {a}
    /\ Return(h)
    /\ UNCHANGED instance

-----------------------------------------------------------------------------
(***************************************************************************)
(* The administration routes.                                              *)
(***************************************************************************)

inviteAIOrgUser == [email : Emails, role : RoleInputs]

InviteAIOrgUser(h) ==
    /\ Route(h, "invite")
    /\ \E in \in inviteAIOrgUser :
         /\ InviteUser(in.email, in.role)
         /\ unrecorded' = unrecorded \cup {InviteAccess(NewInvite)}

SetAIOrgRole(h) ==
    /\ Route(h, "role")
    /\ \E u \in Emails, role \in RoleInputs : SetOrgRole(u, role)
    /\ UNCHANGED unrecorded

RemoveAIOrgUser(h) ==
    /\ Route(h, "remove")
    /\ \E u \in Emails :
         /\ RemoveOrgUser(u)
         /\ unrecorded' = unrecorded \ {MembershipOf(w, u) : w \in Workspaces}

CreateAIWorkspace(h) ==
    /\ Route(h, "create")
    /\ \E w \in Workspaces : CreateWorkspace(w)
    /\ UNCHANGED unrecorded

ArchiveAIWorkspace(h) ==
    /\ Route(h, "archive")
    /\ \E w \in Workspaces : ArchiveWorkspace(w)
    /\ UNCHANGED unrecorded

\* The grant of an administrator takes the same calls as that of a request.
GrantAIWorkspaceAccess(h) ==
    /\ "grant" \in Operations /\ Idle(h)
    /\ \E w \in Workspaces, u \in Emails, role \in GrantInputs :
         /\ resolveUserRef(u)
         /\ Goto(h, "lookup", [NoWork EXCEPT !.access = MembershipOf(w, u), !.role = role])
    /\ UNCHANGED <<organization, instance>>

RemoveAIWorkspaceMember(h) ==
    /\ Route(h, "unseat")
    /\ \E w \in Workspaces, u \in Emails :
         /\ resolveUserRef(u)
         /\ RemoveWorkspaceMember(w, u)
         /\ unrecorded' = unrecorded \ {MembershipOf(w, u)}

-----------------------------------------------------------------------------
(***************************************************************************)
(* What happens without OPORD.                                             *)
(***************************************************************************)

\* The invited person accepts.
AcceptInvite(i) ==
    /\ invite[i].status = "pending"
    /\ invite' = [invite EXCEPT ![i].status = "accepted"]
    /\ orgRole' = [orgRole EXCEPT ![invite[i].email] =
                      IF @ = "none" THEN invite[i].role ELSE @]
    /\ UNCHANGED <<workspace, member, console, unrecorded, instance, control>>

\* The Console makes an administrator.
Promote(u) ==
    /\ "promote" \in Operations
    /\ orgRole[u] # "none"
    /\ orgRole' = [orgRole EXCEPT ![u] = "admin"]
    /\ console' = console \cup {u}
    /\ UNCHANGED <<invite, workspace, member, unrecorded, instance, control>>

-----------------------------------------------------------------------------
Grant(h) ==
    \/ ProvisionAccess(h) \/ GrantFindUser(h) \/ GrantFindWorkspace(h)
    \/ GrantLookup(h) \/ GrantAdd(h) \/ GrantUpdate(h) \/ InsertInstance(h)

Revoke(h) ==
    \/ \E r \in Requests : RevokeAIInstance(h, r)
    \/ RevokeAccess(h) \/ ResetBilling(h) \/ CloseInstance(h)

Administer(h) ==
    \/ InviteAIOrgUser(h) \/ SetAIOrgRole(h) \/ RemoveAIOrgUser(h)
    \/ CreateAIWorkspace(h) \/ ArchiveAIWorkspace(h)
    \/ GrantAIWorkspaceAccess(h) \/ RemoveAIWorkspaceMember(h)

Outside == (\E i \in Invites : AcceptInvite(i)) \/ (\E u \in Emails : Promote(u))

Next ==
    \/ \E h \in Handlers :
          Grant(h) \/ Revoke(h) \/ Administer(h) \/ CallError(h) \/ CallLost(h)
    \/ Outside

Spec == Init /\ [][Next]_vars

-----------------------------------------------------------------------------
(***************************************************************************)
(* Properties.                                                             *)
(***************************************************************************)

\* Somebody answers for an access: a live row names it, or a grant is about
\* to insert one, or it was made outside of the requests, or its answer was
\* lost or its insert has failed.
Accounted(a) ==
    \/ a \in unrecorded
    \/ \E r \in Requests : instance[r] = [status |-> "active", access |-> a]
    \/ \E h \in Handlers : stage[h] = "insert" /\ work[h].access = a

\* Whoever can enter a workspace, and every invite that is still open, is
\* accounted for: requests that share one access id, revokes of one row by
\* two callers and by the reaper, grants in between, refused calls and lost
\* answers never close a row over an access that stays (anthropic.go:
\* RevokeAccess; the order of the calls in RevokeAIInstance;
\* EffectiveWorkspaceAccess).
AccessAccounted ==
    /\ \A w \in Workspaces, u \in Emails :
         LET role == EffectiveWorkspaceAccess(w)[u] IN
         workspace[w] = "active"
           /\ role \notin {"none", "workspace_billing", InheritedWorkspaceRole(orgRole[u])}
              => Accounted(MembershipOf(w, u))
    /\ \A i \in Invites : invite[i].status = "pending" => Accounted(InviteAccess(i))

\* However invites, acceptances and role changes follow each other, only the
\* Console makes an administrator of the organization (admin.go: "org admin
\* is Console-only").
OnlyConsoleAdmins == \A u \in Emails : orgRole[u] = "admin" => u \in console

=============================================================================
