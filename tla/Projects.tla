------------------------------ MODULE Projects ------------------------------
(***************************************************************************)
(* An OpenAI organization governed through OPORD: access requests that     *)
(* create a project and apply permissions to it, with the rollback of the  *)
(* project when that fails, and the administration routes that change the  *)
(* same projects and their members (aiproviders/openai,                    *)
(* orchestrator/ai_admin.go, api/ai_admin.go).                             *)
(*                                                                         *)
(* The organization itself is not in the repository: its state and what    *)
(* its API does are modelled from the calls and comments of the client.    *)
(* Any call may be refused, which changes nothing, or may be applied and   *)
(* its answer lost or not understood; the client sees an error either way. *)
(***************************************************************************)
EXTENDS Naturals, FiniteSets

CONSTANTS
    Handlers,      \* goroutines that serve HTTP calls
    Emails,        \* people
    MaxProjects,   \* bound on the projects; project 1 is there from the start
    Requests,      \* approved requests
    SpecOf,        \* the spec of each request
    Models,        \* model ids that may be named
    Blank,         \* an id of white space
    Limits,        \* rate limits of a project
    Cents,         \* thresholds of spend alerts
    RoleInputs,    \* roles that a route sends, in lower case: case is ignored
    AdminRoles,    \* those of them with "admin" in them
    PermInputs,    \* model permissions that a route sends
    Faults         \* "refuse", "lost": of a call; "db": a row is not written

ProjectIds == 1 .. MaxProjects
Modes == {"", "allow_list", "deny_list"}
Permissions == [mode : Modes, ids : SUBSET (Models \cup {Blank})]
OrgRoles == {"none", "reader", "owner"}
ProjectRoles == {"none", "member", "owner"}

Specs == [project : 0 .. MaxProjects, create : BOOLEAN,
          service : {"api", "models", "tools"},
          permissions : Permissions]

ASSUME ProjectsAssumption ==
    /\ MaxProjects \in Nat \ {0}
    /\ SpecOf \in [Requests -> Specs]
    /\ Blank \notin Models
    /\ AdminRoles \subseteq RoleInputs
    /\ "admin" \in RoleInputs => "admin" \in AdminRoles
    /\ PermInputs \subseteq Permissions
    /\ Faults \subseteq {"refuse", "lost", "db"}

VARIABLES
    project,     \* the projects, by id
    orgRole,     \* of each email in the organization
    invites,     \* that are open
    member,      \* the members of each project, with their roles
    elevated,    \* those for whom a caller asked for an elevated role
    unrecorded,  \* projects that no row will answer for
    applied,     \* the requests whose permissions the provider has taken
    instance,    \* the rows: their requests, and the projects they name
    stage,       \* the next call of each handler
    work,        \* what it works on
    audit        \* what the call it serves has changed: told, owed or lost

people == <<orgRole, invites, member, elevated>>
ghosts == <<unrecorded, applied>>
control == <<stage, work, audit>>
vars == <<project, people, ghosts, instance, control>>

\* The mode is "" while OpenAI has no list for the project.  The client shows
\* that (a 404) as an allow_list without ids.
NewProject == [status |-> "active", models |-> [mode |-> "", ids |-> {}]]
NoProject == [NewProject EXCEPT !.status = "none"]
NoWork == [request |-> "none", project |-> 0, made |-> 0, email |-> "", role |-> "none"]

Telling == {"told", "owed", "lost"}

Stages == {"idle", "create", "apply", "rollback", "insert", "add", "update", "audit"}

TypeOK ==
    /\ project \in [ProjectIds ->
           [status : {"none", "active", "archived"},
            models : [mode : Modes, ids : SUBSET Models]]]
    /\ orgRole \in [Emails -> OrgRoles]
    /\ invites \subseteq [email : Emails, role : OrgRoles \ {"none"}]
    /\ member \in [ProjectIds -> [Emails -> ProjectRoles]]
    /\ elevated \subseteq Emails
    /\ unrecorded \subseteq ProjectIds /\ applied \subseteq Requests
    /\ instance \subseteq Requests \X (0 .. MaxProjects)
    /\ stage \in [Handlers -> Stages]
    /\ work \in [Handlers -> [request : Requests \cup {"none"},
                              project : 0 .. MaxProjects, made : 0 .. MaxProjects,
                              email : Emails \cup {""}, role : ProjectRoles]]
    /\ audit \in [Handlers -> Telling]

Init ==
    /\ project = [p \in ProjectIds |-> IF p = 1 THEN NewProject ELSE NoProject]
    /\ orgRole \in [Emails -> {"none", "reader"}]
    /\ invites = {} /\ elevated = {}
    /\ member = [p \in ProjectIds |-> [u \in Emails |-> "none"]]
    /\ unrecorded = {1} /\ applied = {}
    /\ instance = {}
    /\ stage = [h \in Handlers |-> "idle"]
    /\ work = [h \in Handlers |-> NoWork]
    /\ audit = [h \in Handlers |-> "told"]

-----------------------------------------------------------------------------
(***************************************************************************)
(* Control of a handler.                                                   *)
(***************************************************************************)

Goto(h, s, w) ==
    /\ stage' = [stage EXCEPT ![h] = s]
    /\ work' = [work EXCEPT ![h] = w]

Return(h) == Goto(h, "idle", NoWork)

\* Another call is served: it has nothing to tell of yet.
Begin(h, s, w) == Goto(h, s, w) /\ audit' = [audit EXCEPT ![h] = "told"]

-----------------------------------------------------------------------------
(***************************************************************************)
(* The calls of the client.                                                *)
(***************************************************************************)

\* A project gets the next id.
Fresh == {p \in ProjectIds : project[p].status = "none"}
NewId == CHOOSE p \in Fresh : \A q \in Fresh : p <= q

CreateWorkspace ==
    /\ Fresh # {}
    /\ project' = [project EXCEPT ![NewId] = NewProject]

\* An archived project takes no changes.
Alter(p, row) ==
    /\ project[p].status = "active"
    /\ project' = [project EXCEPT ![p] = row]

ArchiveWorkspace(p) == Alter(p, [project[p] EXCEPT !.status = "archived"])

\* Blank ids are dropped, and a list that is empty then is not sent.
NamesModels(in) == in.mode # "" /\ in.ids \ {Blank} # {}

SetProjectModelPermissions(p, in) ==
    /\ NamesModels(in)
    /\ Alter(p, [project[p] EXCEPT !.models = [mode |-> in.mode, ids |-> in.ids \ {Blank}]])

DeleteProjectModelPermissions(p) ==
    Alter(p, [project[p] EXCEPT !.models = NewProject.models])

\* Hosted tools, rate limits, data retention, spend alerts and API keys of a
\* project are kept by the organization and read by nothing here: a change
\* of theirs is a call that an active project takes.
Adjust(p) == Alter(p, project[p])

\* All five flags at a time.
SetProjectHostedToolPermissions(p) == Adjust(p)

\* At least one limit has to be named; the others stay.
UpdateProjectRateLimit(p, named) == named # {} /\ Adjust(p)

SetProjectDataRetention(p) == Adjust(p)

\* An alert is written with a positive threshold.
writeProjectSpendAlert(p, cents) == cents > 0 /\ Adjust(p)

DeleteProjectSpendAlert(p) == Adjust(p)

DeleteProjectAPIKey(p) == Adjust(p)

\* (Defects: only the lowest of the caller's roles is a reader; the role is
\* sent as it is.)
OwnerUnlessUser(role) == IF role = "user" THEN "reader" ELSE "owner"

RoleAsGiven(role) == role

\* Every role but the elevated ones is a reader.
oaiOrgRole(role) == IF role \in {"admin", "owner"} THEN "owner" ELSE "reader"

\* "admin" anywhere in it makes a role an elevated one of the project.
oaiProjectRole(role) == IF role \in AdminRoles \cup {"owner"} THEN "owner" ELSE "member"

Ask(u, role) ==
    elevated' = IF role \in AdminRoles \cup {"owner"} THEN elevated \cup {u} ELSE elevated

InviteUser(u, role) ==
    /\ invites' = invites \cup {[email |-> u, role |-> oaiOrgRole(role)]}
    /\ Ask(u, role)
    /\ UNCHANGED <<orgRole, member>>

SetOrgRole(u, role) ==
    /\ orgRole[u] # "none"
    /\ orgRole' = [orgRole EXCEPT ![u] = oaiOrgRole(role)]
    /\ Ask(u, role)
    /\ UNCHANGED <<invites, member>>

\* Whoever leaves the organization leaves its projects.
RemoveOrgUser(u) ==
    /\ orgRole[u] # "none"
    /\ orgRole' = [orgRole EXCEPT ![u] = "none"]
    /\ member' = [p \in ProjectIds |-> [member[p] EXCEPT ![u] = "none"]]
    /\ UNCHANGED <<invites, elevated>>

SetMember(p, u, role) ==
    /\ project[p].status = "active" /\ orgRole[u] # "none"
    /\ member' = [member EXCEPT ![p][u] = role]
    /\ UNCHANGED <<orgRole, invites, elevated>>

RemoveWorkspaceMember(p, u) ==
    /\ member[p][u] # "none"
    /\ SetMember(p, u, "none")

\* EffectiveWorkspaceAccess: the explicit members, nothing is inherited.
EffectiveWorkspaceAccess(p) == {u \in Emails : member[p][u] # "none"}

-----------------------------------------------------------------------------
(***************************************************************************)
(* Steps with a defect, used by no specification.                          *)
(***************************************************************************)

\* The deferred rollback is left out.
NoRollback(h) ==
    /\ stage[h] = "rollback"
    /\ Return(h)
    /\ UNCHANGED <<project, people, ghosts, instance, audit>>

\* The rollback archives the project that the request works on.
RollbackNamed(h) == work[h].project

\* An error of the apply call is taken for an answer.
ApplyGoesOn(h, ok) == "insert"

\* Only a call that was answered leaves a row.
AuditAnswered(answered) == IF answered THEN "audit" ELSE "idle"

-----------------------------------------------------------------------------
(***************************************************************************)
(* ProvisionAccess, and the row of the instance.  RevokeAccess changes     *)
(* nothing at OpenAI, so that a row is not followed any further.           *)
(***************************************************************************)

ProvisionAccess(h) ==
    /\ stage[h] = "idle"
    /\ \E r \in Requests :
         LET spec == SpecOf[r]
             w == [NoWork EXCEPT !.request = r, !.project = spec.project]
         IN  /\ \A i \in instance : i[1] # r
             /\ \A k \in Handlers : work[k].request # r
             /\ \/ spec.project = 0 /\ spec.create /\ Begin(h, "create", w)
                \/ /\ spec.project # 0 \/ ~spec.create
                   /\ spec.service # "api" => spec.project # 0
                   /\ Begin(h, IF spec.service = "api" THEN "insert" ELSE "apply", w)
    /\ UNCHANGED <<project, people, ghosts, instance>>

\* A project whose id does not come back cannot be rolled back.
ProvisionCreate(h) ==
    /\ stage[h] = "create"
    /\ \/ /\ CreateWorkspace
          /\ Goto(h, IF SpecOf[work[h].request].service = "api" THEN "insert" ELSE "apply",
                  [work[h] EXCEPT !.project = NewId, !.made = NewId])
          /\ UNCHANGED unrecorded
       \/ /\ "lost" \in Faults
          /\ CreateWorkspace
          /\ unrecorded' = unrecorded \cup {NewId}
          /\ Return(h)
       \/ /\ Fresh = {} \/ "refuse" \in Faults
          /\ Return(h)
          /\ UNCHANGED <<project, unrecorded>>
    /\ UNCHANGED <<people, applied, instance, audit>>

\* createdProjectID: what the deferred function archives, 0 for nothing.
ToArchive(h) == work[h].made

\* An error of the apply call ends in the deferred function.
AfterApply(h, ok) ==
    IF ok THEN "insert" ELSE IF ToArchive(h) # 0 THEN "rollback" ELSE "idle"

Applied(h, ok) ==
    LET next == AfterApply(h, ok) IN
    IF next = "idle" THEN Return(h) ELSE Goto(h, next, work[h])

ProvisionApply(h) ==
    /\ stage[h] = "apply"
    /\ LET spec == SpecOf[work[h].request]
           p == work[h].project
       IN  \/ /\ \/ /\ spec.service = "models"
                    /\ SetProjectModelPermissions(p, spec.permissions)
                 \/ /\ spec.service = "tools"
                    /\ SetProjectHostedToolPermissions(p)
              /\ applied' = applied \cup {work[h].request}
              /\ Applied(h, TRUE) \/ ("lost" \in Faults /\ Applied(h, FALSE))
           \/ /\ \/ "refuse" \in Faults
                 \/ project[p].status # "active"
                 \/ spec.service = "models" /\ ~NamesModels(spec.permissions)
              /\ Applied(h, FALSE)
              /\ UNCHANGED <<project, applied>>
    /\ UNCHANGED <<people, unrecorded, instance, audit>>

\* Its error is dropped.
ProvisionRollback(h) ==
    /\ stage[h] = "rollback"
    /\ LET p == ToArchive(h) IN
       \/ /\ ArchiveWorkspace(p)
          /\ UNCHANGED unrecorded
       \/ /\ "refuse" \in Faults \/ project[p].status # "active"
          /\ unrecorded' = unrecorded \cup {p}
          /\ UNCHANGED project
    /\ Return(h)
    /\ UNCHANGED <<people, applied, instance, audit>>

\* CreateAIServiceInstance, with the project in its observed state.  Its
\* failure does not take back what was made.
InsertInstance(h) ==
    /\ stage[h] = "insert"
    /\ \/ /\ instance' = instance \cup {<<work[h].request, work[h].project>>}
          /\ UNCHANGED unrecorded
       \/ /\ "db" \in Faults
          /\ unrecorded' = unrecorded \cup ({work[h].made} \ {0})
          /\ UNCHANGED instance
    /\ Return(h)
    /\ UNCHANGED <<project, people, applied, audit>>
-----------------------------------------------------------------------------
(***************************************************************************)
(* The administration routes: one call, and then emitAIAudit.              *)
(***************************************************************************)

\* An error is audited as well as an answer.
AfterCall(answered) == "audit"

\* The call of a route has changed something.
Did(h) ==
    /\ audit' = [audit EXCEPT ![h] = "owed"]
    /\ \/ Goto(h, AfterCall(TRUE), NoWork)
       \/ "lost" \in Faults /\ Goto(h, AfterCall(FALSE), NoWork)

\* It has not: a refusal, or an input that the client does not send.
DidNot(h) == Goto(h, AfterCall(FALSE), NoWork) /\ UNCHANGED audit

Audit(h) ==
    /\ stage[h] = "audit"
    /\ \/ audit' = [audit EXCEPT ![h] = "told"]
       \/ /\ "db" \in Faults /\ audit[h] = "owed"
          /\ audit' = [audit EXCEPT ![h] = "lost"]
    /\ Return(h)
    /\ UNCHANGED <<project, people, ghosts, instance>>

RouteError(h) ==
    /\ stage[h] = "idle" /\ "refuse" \in Faults
    /\ Begin(h, AfterCall(FALSE), NoWork)
    /\ UNCHANGED <<project, people, ghosts, instance>>

ProjectRoute(h) ==
    stage[h] = "idle" /\ Did(h) /\ UNCHANGED <<people, applied, instance>>

CreateAIWorkspace(h) ==
    /\ ProjectRoute(h)
    /\ CreateWorkspace
    /\ unrecorded' = unrecorded \cup {NewId}

ArchiveAIWorkspace(h, p) ==
    ProjectRoute(h) /\ ArchiveWorkspace(p) /\ UNCHANGED unrecorded

SetAIProjectModelPermissions(h, p) ==
    /\ ProjectRoute(h)
    /\ \E in \in PermInputs : SetProjectModelPermissions(p, in)
    /\ UNCHANGED unrecorded

DeleteAIProjectModelPermissions(h, p) ==
    ProjectRoute(h) /\ DeleteProjectModelPermissions(p) /\ UNCHANGED unrecorded

SetAIProjectHostedToolPermissions(h, p) ==
    ProjectRoute(h) /\ SetProjectHostedToolPermissions(p) /\ UNCHANGED unrecorded

UpdateAIProjectRateLimit(h, p) ==
    /\ ProjectRoute(h)
    /\ \E named \in SUBSET Limits : UpdateProjectRateLimit(p, named)
    /\ UNCHANGED unrecorded

SetAIProjectDataRetention(h, p) ==
    ProjectRoute(h) /\ SetProjectDataRetention(p) /\ UNCHANGED unrecorded

\* CreateAIProjectSpendAlert and UpdateAIProjectSpendAlert.  An answer
\* without an id of the alert counts as an error.
WriteAIProjectSpendAlert(h, p) ==
    /\ ProjectRoute(h)
    /\ \E cents \in Cents : writeProjectSpendAlert(p, cents)
    /\ UNCHANGED unrecorded

DeleteAIProjectSpendAlert(h, p) ==
    ProjectRoute(h) /\ DeleteProjectSpendAlert(p) /\ UNCHANGED unrecorded

DeleteAIProjectAPIKey(h, p) ==
    ProjectRoute(h) /\ DeleteProjectAPIKey(p) /\ UNCHANGED unrecorded

PeopleRoute(h) ==
    stage[h] = "idle" /\ Did(h) /\ UNCHANGED <<project, ghosts, instance>>

InviteAIOrgUser(h, u) == PeopleRoute(h) /\ \E role \in RoleInputs : InviteUser(u, role)

SetAIOrgRole(h, u) == PeopleRoute(h) /\ \E role \in RoleInputs : SetOrgRole(u, role)

RemoveAIOrgUser(h, u) == PeopleRoute(h) /\ RemoveOrgUser(u)

RemoveAIWorkspaceMember(h, p, u) == PeopleRoute(h) /\ RemoveWorkspaceMember(p, u)

\* resolveUserRef finds the user, or the grant ends in an audit row.
GrantAIWorkspaceAccess(h, p, u) ==
    /\ stage[h] = "idle" /\ orgRole[u] # "none"
    /\ \E role \in RoleInputs :
         /\ Ask(u, role)
         /\ Begin(h, "add", [NoWork EXCEPT !.project = p, !.email = u,
                                           !.role = oaiProjectRole(role)])
    /\ UNCHANGED <<project, orgRole, invites, member, ghosts, instance>>

\* isAlreadyExists: a conflict makes it an update of the role.
GrantAdd(h) ==
    /\ stage[h] = "add"
    /\ LET p == work[h].project
           u == work[h].email
       IN  \/ /\ u \notin EffectiveWorkspaceAccess(p)
              /\ SetMember(p, u, work[h].role)
              /\ Did(h)
           \/ /\ u \in EffectiveWorkspaceAccess(p) /\ project[p].status = "active"
              /\ Goto(h, "update", work[h])
              /\ UNCHANGED <<people, audit>>
           \/ /\ \/ "refuse" \in Faults
                 \/ project[p].status # "active" \/ orgRole[u] = "none"
              /\ DidNot(h)
              /\ UNCHANGED people
    /\ UNCHANGED <<project, ghosts, instance>>

\* Somebody may have removed the member in between.
GrantUpdate(h) ==
    /\ stage[h] = "update"
    /\ LET p == work[h].project
           u == work[h].email
       IN  \/ /\ u \in EffectiveWorkspaceAccess(p)
              /\ SetMember(p, u, work[h].role)
              /\ Did(h)
           \/ /\ \/ "refuse" \in Faults
                 \/ project[p].status # "active" \/ u \notin EffectiveWorkspaceAccess(p)
              /\ DidNot(h)
              /\ UNCHANGED people
    /\ UNCHANGED <<project, ghosts, instance>>

\* The invited person accepts.
AcceptInvite(i) ==
    /\ invites' = invites \ {i}
    /\ orgRole' = [orgRole EXCEPT ![i.email] = IF @ = "none" THEN i.role ELSE @]
    /\ UNCHANGED <<project, member, elevated, ghosts, instance, control>>

-----------------------------------------------------------------------------
Provision(h) ==
    \/ ProvisionAccess(h) \/ ProvisionCreate(h) \/ ProvisionApply(h)
    \/ ProvisionRollback(h) \/ InsertInstance(h)

Administer(h, p) ==
    \/ ArchiveAIWorkspace(h, p)
    \/ SetAIProjectModelPermissions(h, p) \/ DeleteAIProjectModelPermissions(h, p)
    \/ SetAIProjectHostedToolPermissions(h, p) \/ UpdateAIProjectRateLimit(h, p)
    \/ SetAIProjectDataRetention(h, p) \/ WriteAIProjectSpendAlert(h, p)
    \/ DeleteAIProjectSpendAlert(h, p) \/ DeleteAIProjectAPIKey(h, p)

AdministerPeople(h, u) ==
    \/ InviteAIOrgUser(h, u) \/ SetAIOrgRole(h, u) \/ RemoveAIOrgUser(h, u)
    \/ \E p \in ProjectIds :
         RemoveAIWorkspaceMember(h, p, u) \/ GrantAIWorkspaceAccess(h, p, u)

Next ==
    \/ \E h \in Handlers :
         \/ Provision(h)
         \/ CreateAIWorkspace(h) \/ \E p \in ProjectIds : Administer(h, p)
         \/ \E u \in Emails : AdministerPeople(h, u)
         \/ GrantAdd(h) \/ GrantUpdate(h) \/ RouteError(h) \/ Audit(h)
    \/ \E i \in invites : AcceptInvite(i)

Spec == Init /\ [][Next]_vars

-----------------------------------------------------------------------------
(***************************************************************************)
(* Properties.                                                             *)
(***************************************************************************)

\* A project that is not archived is somebody's: a row names it, or an
\* approval that is not over has made it, or it is one of those that the
\* code gives up (its id was lost, its archiving refused, its row not
\* written) or an administrator made (openai.go: "archive it so a partial
\* failure leaves no dangling resource").
ProjectsAccounted ==
    \A p \in ProjectIds :
        project[p].status = "active" =>
            \/ p \in unrecorded
            \/ \E i \in instance : i[2] = p
            \/ \E h \in Handlers : work[h].made = p

\* A row of a service that controls a project is there only when the
\* provider has taken its permissions, for a project, whatever calls failed
\* on the way (provisionOpenAIAccess; "were applied by OPORD").
GrantedIsApplied ==
    \A i \in instance : SpecOf[i[1]].service # "api" => i[2] # 0 /\ i[1] \in applied

\* An approval archives no project but the one it has created itself: not
\* the one it was asked to work on, however its calls fail (openai.go: "set
\* only when WE created the project this call").
RollbackTakesOwn ==
    [][\A h \in Handlers, p \in ProjectIds :
         stage[h] = "rollback" /\ stage'[h] = "idle" /\ project'[p] # project[p]
            => project'[p].status = "archived" /\ work[h].made = p]_vars

\* No route that has changed something ends before it has tried to write the
\* row that tells of it, a call that was applied and ended in an error
\* included (ai_admin.go: "with every write recorded in the AI audit trail").
\* The row itself may be lost: emitAIAudit drops the error of the insert.
WritesReachAudit == \A h \in Handlers : stage[h] = "idle" => audit[h] # "owed"

\* Nobody comes to own the organization or a project for whom no caller
\* asked for an elevated role, which is "owner" or has "admin" in it
\* (admin.go: "every other role floors to reader (least privilege)").
OwnersWereAsked ==
    \A u \in Emails :
        orgRole[u] = "owner" \/ (\E p \in ProjectIds : member[p][u] = "owner")
            => u \in elevated

=============================================================================
