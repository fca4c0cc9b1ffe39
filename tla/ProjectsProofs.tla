--------------------------- MODULE ProjectsProofs ---------------------------
(***************************************************************************)
(* Proofs about Projects, for any number of handlers, people, projects and *)
(* requests, and every set of faults.                                      *)
(***************************************************************************)
EXTENDS Projects, FiniteSetTheorems, TLAPS

(***************************************************************************)
(* The inductive invariant.                                                *)
(***************************************************************************)

Work == [request : Requests \cup {"none"}, project : 0 .. MaxProjects,
         made : 0 .. MaxProjects, email : Emails \cup {""}, role : ProjectRoles]

Provisioning == {"create", "apply", "rollback", "insert"}

\* What a handler knows from where it stands: an approval works on the project
\* it has made, if it has made one, and comes to its row only with a project
\* and permissions that were taken; a grant of ownership was asked for; and
\* only a route on its way to the audit row has something to tell.
Fits(h) ==
    /\ stage[h] \notin {"apply", "rollback", "insert"} => work[h].made = 0
    /\ work[h].made # 0 => work[h].project = work[h].made
    /\ stage[h] = "rollback" => work[h].made # 0
    /\ stage[h] \in Provisioning => work[h].request \in Requests
    /\ stage[h] = "apply" => work[h].project # 0
    /\ stage[h] = "insert" /\ SpecOf[work[h].request].service # "api" =>
           work[h].project # 0 /\ work[h].request \in applied
    /\ stage[h] \in {"add", "update"} /\ work[h].role = "owner" => work[h].email \in elevated
    /\ stage[h] # "audit" => audit[h] # "owed"

\* An open invite to own the organization was asked for.
InvitesAsked == \A i \in invites : i.role = "owner" => i.email \in elevated

ProjectsInv ==
    /\ TypeOK
    /\ \A h \in Handlers : Fits(h)
    /\ ProjectsAccounted
    /\ GrantedIsApplied
    /\ InvitesAsked
    /\ OwnersWereAsked

-----------------------------------------------------------------------------
(***************************************************************************)
(* Control.                                                                *)
(***************************************************************************)

\* Numbers of projects are numbers.
LEMMA Bounds == MaxProjects \in Nat \ {0} /\ ProjectIds \subseteq Nat \ {0} /\ 1 \in ProjectIds
BY ProjectsAssumption DEF ProjectIds

\* The idle handler holds nothing.
LEMMA NoWorkTyped ==
    /\ NoWork \in Work
    /\ NoWork.made = 0 /\ NoWork.project = 0 /\ NoWork.role = "none"
BY Bounds DEF NoWork, Work, ProjectRoles

\* A jump moves the handler that makes it, and nobody else.
LEMMA GotoMoves ==
    ASSUME TypeOK, NEW h \in Handlers, NEW s \in Stages, NEW w \in Work, Goto(h, s, w)
    PROVE  /\ stage' \in [Handlers -> Stages] /\ work' \in [Handlers -> Work]
           /\ stage'[h] = s /\ work'[h] = w
           /\ \A g \in Handlers \ {h} : stage'[g] = stage[g] /\ work'[g] = work[g]
BY DEF TypeOK, Goto, Work

\* What a step of handler h does to the handlers.
Moved(h) ==
    /\ stage' \in [Handlers -> Stages] /\ work' \in [Handlers -> Work]
    /\ audit' \in [Handlers -> Telling]
    /\ \A g \in Handlers \ {h} : /\ stage'[g] = stage[g] /\ work'[g] = work[g]
                                 /\ audit'[g] = audit[g]
    /\ Fits(h)'

\* Whoever returns with nothing to tell has moved.
LEMMA ReturnMoves ==
    ASSUME TypeOK, NEW h \in Handlers, Return(h),
           \/ audit' = audit /\ audit[h] # "owed"
           \/ \E v \in {"told", "lost"} : audit' = [audit EXCEPT ![h] = v]
    PROVE  Moved(h) /\ stage'[h] = "idle" /\ work'[h] = NoWork
<1>1. /\ stage' \in [Handlers -> Stages] /\ work' \in [Handlers -> Work]
      /\ stage'[h] = "idle" /\ work'[h] = NoWork
      /\ \A g \in Handlers \ {h} : stage'[g] = stage[g] /\ work'[g] = work[g]
  BY NoWorkTyped, GotoMoves DEF Return, Stages
<1>2. /\ audit' \in [Handlers -> Telling] /\ audit'[h] # "owed"
      /\ \A g \in Handlers \ {h} : audit'[g] = audit[g]
  BY DEF TypeOK, Telling
<1>3. Fits(h)'
  BY <1>1, <1>2, NoWorkTyped DEF Fits, Provisioning
<1> QED
  BY <1>1, <1>2, <1>3 DEF Moved

\* So has whoever is done with the call of a route and goes to its audit row.
LEMMA RouteMoves ==
    ASSUME TypeOK, NEW h \in Handlers,
           Did(h) \/ DidNot(h) \/ Begin(h, AfterCall(FALSE), NoWork)
    PROVE  Moved(h) /\ stage'[h] = "audit" /\ work'[h] = NoWork
<1>1. /\ Goto(h, "audit", NoWork)
      /\ audit' = audit \/ \E v \in Telling : audit' = [audit EXCEPT ![h] = v]
  BY DEF Did, DidNot, Begin, AfterCall, Telling
<1>2. /\ stage' \in [Handlers -> Stages] /\ work' \in [Handlers -> Work]
      /\ stage'[h] = "audit" /\ work'[h] = NoWork
      /\ \A g \in Handlers \ {h} : stage'[g] = stage[g] /\ work'[g] = work[g]
  BY <1>1, NoWorkTyped, GotoMoves DEF Stages
<1>3. /\ audit' \in [Handlers -> Telling]
      /\ \A g \in Handlers \ {h} : audit'[g] = audit[g]
  BY <1>1 DEF TypeOK
<1>4. Fits(h)'
  BY <1>2, NoWorkTyped DEF Fits, Provisioning
<1> QED
  BY <1>2, <1>3, <1>4 DEF Moved

\* The next id is that of a project that is not there.
LEMMA NewIdFresh ==
    ASSUME Fresh # {}
    PROVE  NewId \in Fresh /\ NewId \in ProjectIds /\ NewId # 0
<1> DEFINE R == OpToRel(<, Nat)
<1>1. Fresh \subseteq Nat
  BY Bounds DEF Fresh
<1>2. PICK m \in Fresh : \A n \in Fresh : ~(<<n, m>> \in R)
  <2>1. IsWellFoundedOn(R, Nat)
    BY NatLessThanWellFounded
  <2> HIDE DEF R
  <2> QED
    BY <1>1, <2>1, WFMin
<1>3. \A n \in Fresh : m <= n
  <2> SUFFICES ASSUME NEW n \in Fresh, ~(m <= n) PROVE FALSE
    OBVIOUS
  <2>1. n \in Nat /\ m \in Nat
    BY <1>1
  <2>2. n < m
    BY <2>1
  <2>3. <<n, m>> \in R
    BY <2>1, <2>2 DEF OpToRel
  <2> QED
    BY <1>2, <2>3
<1>4. \E p \in Fresh : \A q \in Fresh : p <= q
  BY <1>3
<1>5. NewId \in Fresh
  <2> HIDE DEF R
  <2> QED
    BY <1>4, Zenon DEF NewId
<1> QED
  BY <1>5, Bounds DEF Fresh

\* Steps of handler h that are not part of a provisioning.
RouteOf(h) ==
    \/ CreateAIWorkspace(h) \/ \E p \in ProjectIds : Administer(h, p)
    \/ \E u \in Emails : AdministerPeople(h, u)
    \/ GrantAdd(h) \/ GrantUpdate(h) \/ RouteError(h) \/ Audit(h)

\* Where an approval comes to after its apply call.
LEMMA AppliedMoves ==
    ASSUME TypeOK, NEW h \in Handlers, Fits(h), stage[h] = "apply", audit' = audit, NEW ok \in BOOLEAN,
           Applied(h, ok), ok => work[h].request \in applied'
    PROVE  /\ Moved(h)
           /\ \/ work'[h] = work[h]
              \/ work[h].made = 0 /\ work'[h] = NoWork
<1>0. /\ audit[h] # "owed" /\ audit' \in [Handlers -> Telling] /\ work[h] \in Work
      /\ work[h].made # 0 => work[h].project = work[h].made
      /\ work[h].project # 0 /\ work[h].request \in Requests
  BY DEF Fits, TypeOK, Work, Provisioning
<1>1. CASE ok
  <2>1. Goto(h, "insert", work[h])
    BY <1>1 DEF Applied, AfterApply
  <2>2. /\ stage' \in [Handlers -> Stages] /\ work' \in [Handlers -> Work]
        /\ stage'[h] = "insert" /\ work'[h] = work[h]
        /\ \A g \in Handlers \ {h} : stage'[g] = stage[g] /\ work'[g] = work[g]
    BY <1>0, <2>1, GotoMoves DEF Stages
  <2>3. Fits(h)'
    BY <1>0, <1>1, <2>2 DEF Fits, Provisioning
  <2> QED
    BY <1>0, <2>2, <2>3 DEF Moved
<1>2. CASE ~ok /\ work[h].made # 0
  <2>1. Goto(h, "rollback", work[h])
    BY <1>2 DEF Applied, AfterApply, ToArchive
  <2>2. /\ stage' \in [Handlers -> Stages] /\ work' \in [Handlers -> Work]
        /\ stage'[h] = "rollback" /\ work'[h] = work[h]
        /\ \A g \in Handlers \ {h} : stage'[g] = stage[g] /\ work'[g] = work[g]
    BY <1>0, <2>1, GotoMoves DEF Stages
  <2>3. Fits(h)'
    BY <1>0, <1>2, <2>2 DEF Fits, Provisioning
  <2> QED
    BY <1>0, <2>2, <2>3 DEF Moved
<1>3. CASE ~ok /\ work[h].made = 0
  <2>1. Return(h)
    BY <1>3 DEF Applied, AfterApply, ToArchive
  <2> QED
    BY <1>0, <1>3, <2>1, ReturnMoves
<1> QED
  BY <1>1, <1>2, <1>3

\* What a step of an approval does to its handler.
LEMMA ProvisionMoves ==
    ASSUME ProjectsInv, NEW h \in Handlers, Provision(h)
    PROVE  Moved(h)
<1>0. /\ TypeOK /\ Fits(h) /\ work[h] \in Work
      /\ stage[h] # "audit" => audit[h] # "owed"
      /\ audit \in [Handlers -> Telling]
  BY DEF ProjectsInv, TypeOK, Work, Fits
<1>1. CASE ProvisionAccess(h)
  <2>1. PICK r \in Requests :
          LET w == [NoWork EXCEPT !.request = r, !.project = SpecOf[r].project]
          IN  \/ Begin(h, "create", w)
              \/ /\ SpecOf[r].service # "api" => SpecOf[r].project # 0
                 /\ Begin(h, IF SpecOf[r].service = "api" THEN "insert" ELSE "apply", w)
    BY <1>1 DEF ProvisionAccess
  <2> DEFINE w == [NoWork EXCEPT !.request = r, !.project = SpecOf[r].project]
  <2>2. SpecOf[r].project \in 0 .. MaxProjects
    BY ProjectsAssumption DEF Specs
  <2>3. /\ w \in Work /\ w.request = r /\ w.project = SpecOf[r].project /\ w.made = 0
    BY <2>2, NoWorkTyped DEF NoWork, Work
  <2>4. PICK s \in {"create", "insert", "apply"} :
          /\ Begin(h, s, w)
          /\ s = "apply" => w.project # 0
          /\ s = "insert" => SpecOf[r].service = "api"
    BY <2>1, <2>3
  <2> HIDE DEF w
  <2>5. /\ stage' \in [Handlers -> Stages] /\ work' \in [Handlers -> Work]
        /\ stage'[h] = s /\ work'[h] = w
        /\ \A g \in Handlers \ {h} : stage'[g] = stage[g] /\ work'[g] = work[g]
    BY <1>0, <2>3, <2>4, GotoMoves DEF Begin, Stages
  <2>6. /\ audit' \in [Handlers -> Telling] /\ audit'[h] # "owed"
        /\ \A g \in Handlers \ {h} : audit'[g] = audit[g]
    BY <1>0, <2>4 DEF Begin, Telling
  <2>7. Fits(h)'
    BY <2>3, <2>4, <2>5, <2>6 DEF Fits
  <2> QED
    BY <1>0, <2>5, <2>6, <2>7 DEF Moved
<1>2. CASE ProvisionCreate(h)
  <2>1. audit' = audit /\ audit[h] # "owed" /\ stage[h] = "create" /\ work[h].request \in Requests
    BY <1>0, <1>2 DEF ProvisionCreate, Fits, Provisioning
  <2>2. CASE Return(h)
    BY <1>0, <2>1, <2>2, ReturnMoves
  <2>3. CASE /\ Fresh # {}
             /\ Goto(h, IF SpecOf[work[h].request].service = "api" THEN "insert" ELSE "apply",
                     [work[h] EXCEPT !.project = NewId, !.made = NewId])
    <3> DEFINE w == [work[h] EXCEPT !.project = NewId, !.made = NewId]
               s == IF SpecOf[work[h].request].service = "api" THEN "insert" ELSE "apply"
    <3>1. NewId \in 0 .. MaxProjects /\ NewId # 0
      BY <2>3, NewIdFresh, Bounds DEF ProjectIds
    <3>2. /\ w \in Work /\ w.project = NewId /\ w.made = NewId
          /\ w.request = work[h].request
      BY <1>0, <3>1 DEF Work
    <3>3. /\ s \in {"insert", "apply"} /\ s \in Stages /\ Goto(h, s, w)
          /\ s = "insert" => SpecOf[work[h].request].service = "api"
      BY <2>3 DEF Stages
    <3> HIDE DEF s, w
    <3>4. /\ stage' \in [Handlers -> Stages] /\ work' \in [Handlers -> Work]
          /\ stage'[h] = s /\ work'[h] = w
          /\ \A g \in Handlers \ {h} : stage'[g] = stage[g] /\ work'[g] = work[g]
      BY <1>0, <3>2, <3>3, GotoMoves
    <3>5. Fits(h)'
      BY <2>1, <3>1, <3>2, <3>3, <3>4 DEF Fits
    <3> QED
      BY <1>0, <2>1, <3>4, <3>5 DEF Moved
  <2> QED
    BY <1>2, <2>2, <2>3 DEF ProvisionCreate, CreateWorkspace
<1>3. CASE ProvisionApply(h)
  <2>1. audit' = audit /\ stage[h] = "apply"
    BY <1>3 DEF ProvisionApply
  <2>2. \/ /\ work[h].request \in applied'
           /\ Applied(h, TRUE) \/ Applied(h, FALSE)
        \/ Applied(h, FALSE)
    BY <1>3 DEF ProvisionApply
  <2> QED
    BY <1>0, <2>1, <2>2, AppliedMoves
<1>4. CASE ProvisionRollback(h)
  BY <1>0, <1>4, ReturnMoves DEF ProvisionRollback
<1>5. CASE InsertInstance(h)
  BY <1>0, <1>5, ReturnMoves DEF InsertInstance
<1> QED
  BY <1>1, <1>2, <1>3, <1>4, <1>5 DEF Provision

\* What a step of a route does to its handler.
LEMMA RoutesMove ==
    ASSUME ProjectsInv, NEW h \in Handlers, RouteOf(h)
    PROVE  Moved(h) /\ work'[h].made = 0 /\ work[h].made = 0
<1>0. /\ TypeOK /\ Fits(h) /\ work[h] \in Work /\ stage[h] \in Stages
      /\ stage[h] # "audit" => audit[h] # "owed"
      /\ audit \in [Handlers -> Telling] /\ elevated \subseteq Emails
  BY DEF ProjectsInv, TypeOK, Work, Fits
<1>1. work[h].made = 0
  <2>1. stage[h] \notin {"apply", "rollback", "insert"}
    BY DEF RouteOf, CreateAIWorkspace, Administer, AdministerPeople, ProjectRoute, PeopleRoute,
           ArchiveAIWorkspace, SetAIProjectModelPermissions, DeleteAIProjectModelPermissions,
           SetAIProjectHostedToolPermissions, UpdateAIProjectRateLimit,
           SetAIProjectDataRetention, WriteAIProjectSpendAlert, DeleteAIProjectSpendAlert,
           DeleteAIProjectAPIKey, InviteAIOrgUser, SetAIOrgRole, RemoveAIOrgUser,
           RemoveAIWorkspaceMember, GrantAIWorkspaceAccess, GrantAdd, GrantUpdate, RouteError,
           Audit
  <2> QED
    BY <1>0, <2>1 DEF Fits
<1>2. CASE Did(h) \/ DidNot(h) \/ Begin(h, AfterCall(FALSE), NoWork)
  BY <1>0, <1>1, <1>2, RouteMoves, NoWorkTyped
<1>3. CASE Audit(h)
  BY <1>0, <1>1, <1>3, ReturnMoves, NoWorkTyped DEF Audit
<1>4. ASSUME NEW p \in ProjectIds, NEW u \in Emails, GrantAIWorkspaceAccess(h, p, u)
      PROVE  Moved(h) /\ work'[h].made = 0
  <2>1. PICK role \in RoleInputs :
          /\ Ask(u, role)
          /\ Begin(h, "add", [NoWork EXCEPT !.project = p, !.email = u,
                                           !.role = oaiProjectRole(role)])
    BY <1>4 DEF GrantAIWorkspaceAccess
  <2> DEFINE w == [NoWork EXCEPT !.project = p, !.email = u, !.role = oaiProjectRole(role)]
  <2>2. p \in 0 .. MaxProjects /\ oaiProjectRole(role) \in ProjectRoles
    BY Bounds DEF ProjectIds, oaiProjectRole, ProjectRoles
  <2>3. /\ w \in Work /\ w.made = 0 /\ w.email = u /\ w.role = oaiProjectRole(role)
    BY <2>2, NoWorkTyped DEF NoWork, Work
  <2>4. Begin(h, "add", w) /\ "add" \in Stages
    BY <2>1 DEF Stages
  <2>5. w.role = "owner" => u \in elevated'
    BY <2>1, <2>3, ProjectsAssumption DEF Ask, oaiProjectRole
  <2> HIDE DEF w
  <2>6. /\ stage' \in [Handlers -> Stages] /\ work' \in [Handlers -> Work]
        /\ stage'[h] = "add" /\ work'[h] = w
        /\ \A g \in Handlers \ {h} : stage'[g] = stage[g] /\ work'[g] = work[g]
    BY <1>0, <2>3, <2>4, GotoMoves DEF Begin
  <2>7. /\ audit' \in [Handlers -> Telling] /\ audit'[h] # "owed"
        /\ \A g \in Handlers \ {h} : audit'[g] = audit[g]
    BY <1>0, <2>4 DEF Begin, Telling
  <2>8. Fits(h)'
    BY <2>3, <2>5, <2>6, <2>7 DEF Fits, Provisioning
  <2> QED
    BY <1>0, <2>3, <2>6, <2>7, <2>8 DEF Moved
<1>5. CASE stage[h] = "add" /\ Goto(h, "update", work[h]) /\ audit' = audit /\ elevated' = elevated
  <2>1. /\ stage' \in [Handlers -> Stages] /\ work' \in [Handlers -> Work]
        /\ stage'[h] = "update" /\ work'[h] = work[h]
        /\ \A g \in Handlers \ {h} : stage'[g] = stage[g] /\ work'[g] = work[g]
    BY <1>0, <1>5, GotoMoves DEF Stages
  <2>2. Fits(h)' /\ work[h].made = 0
    BY <1>0, <1>5, <2>1 DEF Fits, Provisioning
  <2> QED
    BY <1>0, <1>5, <2>1, <2>2 DEF Moved
<1>6. \/ Did(h) \/ DidNot(h) \/ Begin(h, AfterCall(FALSE), NoWork) \/ Audit(h)
      \/ \E p \in ProjectIds, u \in Emails : GrantAIWorkspaceAccess(h, p, u)
      \/ stage[h] = "add" /\ Goto(h, "update", work[h]) /\ audit' = audit /\ elevated' = elevated
  BY DEF RouteOf, CreateAIWorkspace, Administer, AdministerPeople, ProjectRoute, PeopleRoute,
         ArchiveAIWorkspace, SetAIProjectModelPermissions, DeleteAIProjectModelPermissions,
         SetAIProjectHostedToolPermissions, UpdateAIProjectRateLimit,
         SetAIProjectDataRetention, WriteAIProjectSpendAlert, DeleteAIProjectSpendAlert,
         DeleteAIProjectAPIKey, InviteAIOrgUser, SetAIOrgRole, RemoveAIOrgUser,
         RemoveAIWorkspaceMember, GrantAdd, GrantUpdate, RouteError, people
<1> QED
  BY <1>2, <1>3, <1>4, <1>5, <1>1, <1>6

-----------------------------------------------------------------------------
(***************************************************************************)
(* Projects and their rows.                                                *)
(***************************************************************************)

Rows == [status : {"none", "active", "archived"}, models : [mode : Modes, ids : SUBSET Models]]

\* No project comes to life by this step.
NoneNew == \A q \in ProjectIds : project'[q].status = "active" => project[q].status = "active"

\* A change to an active project leaves it active or archives it.
LEMMA AlterKeeps ==
    ASSUME TypeOK, NEW p \in ProjectIds, NEW row \in Rows, Alter(p, row)
    PROVE  project' \in [ProjectIds -> Rows] /\ NoneNew
<1>1. project \in [ProjectIds -> Rows]
  BY DEF TypeOK, Rows
<1> QED
  BY <1>1 DEF Alter, NoneNew

\* What the calls of the client make of a project.
LEMMA CallsKeep ==
    ASSUME TypeOK, NEW p \in ProjectIds, NEW in \in Permissions,
           \/ ArchiveWorkspace(p)
           \/ SetProjectModelPermissions(p, in)
           \/ DeleteProjectModelPermissions(p)
           \/ Adjust(p)
    PROVE  project' \in [ProjectIds -> Rows] /\ NoneNew
<1>1. project[p] \in Rows
  BY DEF TypeOK, Rows
<1>2. [project[p] EXCEPT !.status = "archived"] \in Rows
  BY <1>1 DEF Rows
<1>3. [project[p] EXCEPT !.models = [mode |-> in.mode, ids |-> in.ids \ {Blank}]] \in Rows
  <2>1. in.mode \in Modes /\ in.ids \ {Blank} \subseteq Models
    BY DEF Permissions
  <2> QED
    BY <1>1, <2>1 DEF Rows
<1>4. [project[p] EXCEPT !.models = NewProject.models] \in Rows
  BY <1>1 DEF Rows, NewProject, Modes
<1>5. \E row \in Rows : Alter(p, row)
  BY <1>1, <1>2, <1>3, <1>4 DEF ArchiveWorkspace, SetProjectModelPermissions,
         DeleteProjectModelPermissions, Adjust
<1> QED
  BY <1>5, AlterKeeps

\* A new project takes the id of one that is not there.
LEMMA CreateKeeps ==
    ASSUME TypeOK, CreateWorkspace
    PROVE  /\ project' \in [ProjectIds -> Rows] /\ NewId \in ProjectIds
           /\ \A q \in ProjectIds \ {NewId} : project'[q] = project[q]
<1>1. NewId \in ProjectIds
  BY NewIdFresh DEF CreateWorkspace
<1>2. NewProject \in Rows
  BY DEF NewProject, Rows, Modes
<1>3. project \in [ProjectIds -> Rows]
  BY DEF TypeOK, Rows
<1> QED
  BY <1>1, <1>2, <1>3 DEF CreateWorkspace

\* What a step of a route does to the projects: none comes to life but those
\* that an administrator makes.
LEMMA RouteProjects ==
    ASSUME ProjectsInv, NEW h \in Handlers, RouteOf(h)
    PROVE  /\ project' \in [ProjectIds -> Rows]
           /\ unrecorded' \subseteq ProjectIds /\ unrecorded \subseteq unrecorded'
           /\ applied' = applied /\ instance' = instance
           /\ \A q \in ProjectIds : project'[q].status = "active" =>
                  project[q].status = "active" \/ q \in unrecorded'
<1>0. /\ TypeOK /\ unrecorded \subseteq ProjectIds /\ project \in [ProjectIds -> Rows]
      /\ PermInputs \subseteq Permissions
  BY ProjectsAssumption DEF ProjectsInv, TypeOK, Rows
<1>1. CASE CreateAIWorkspace(h)
  <2>1. CreateWorkspace /\ unrecorded' = unrecorded \cup {NewId} /\ UNCHANGED <<applied, instance>>
    BY <1>1 DEF CreateAIWorkspace, ProjectRoute
  <2> QED
    BY <1>0, <2>1, CreateKeeps
<1>2. ASSUME NEW p \in ProjectIds, Administer(h, p)
      PROVE  /\ project' \in [ProjectIds -> Rows] /\ NoneNew
             /\ unrecorded' = unrecorded /\ applied' = applied /\ instance' = instance
  <2>1. UNCHANGED <<unrecorded, applied, instance>>
    BY <1>2 DEF Administer, ProjectRoute,
           ArchiveAIWorkspace, SetAIProjectModelPermissions, DeleteAIProjectModelPermissions,
           SetAIProjectHostedToolPermissions, UpdateAIProjectRateLimit,
           SetAIProjectDataRetention, WriteAIProjectSpendAlert, DeleteAIProjectSpendAlert,
           DeleteAIProjectAPIKey
  <2>2. \/ ArchiveWorkspace(p)
        \/ \E in \in PermInputs : SetProjectModelPermissions(p, in)
        \/ DeleteProjectModelPermissions(p)
        \/ Adjust(p)
    BY <1>2 DEF Administer,
           ArchiveAIWorkspace, SetAIProjectModelPermissions, DeleteAIProjectModelPermissions,
           SetAIProjectHostedToolPermissions, UpdateAIProjectRateLimit,
           SetAIProjectDataRetention, WriteAIProjectSpendAlert, DeleteAIProjectSpendAlert,
           DeleteAIProjectAPIKey, SetProjectHostedToolPermissions, UpdateProjectRateLimit,
           SetProjectDataRetention, writeProjectSpendAlert, DeleteProjectSpendAlert,
           DeleteProjectAPIKey
  <2>3. [mode |-> "", ids |-> {}] \in Permissions
    BY DEF Permissions, Modes
  <2> QED
    BY <1>0, <2>1, <2>2, <2>3, CallsKeep
<1>3. CASE UNCHANGED <<project, ghosts, instance>>
  BY <1>0, <1>3 DEF ghosts, ProjectsInv, TypeOK
<1>4. \/ CreateAIWorkspace(h) \/ \E p \in ProjectIds : Administer(h, p)
      \/ UNCHANGED <<project, ghosts, instance>>
  BY DEF RouteOf, AdministerPeople, PeopleRoute, InviteAIOrgUser, SetAIOrgRole, RemoveAIOrgUser,
         RemoveAIWorkspaceMember, GrantAIWorkspaceAccess, GrantAdd, GrantUpdate, RouteError, Audit
<1> QED
  BY <1>0, <1>1, <1>2, <1>3, <1>4 DEF NoneNew

\* What a step of an approval does to the projects: whatever it makes it
\* holds, and whatever it lets go has a row, is archived or is given up.
LEMMA ProvisionProjects ==
    ASSUME ProjectsInv, NEW h \in Handlers, Provision(h)
    PROVE  /\ project' \in [ProjectIds -> Rows]
           /\ unrecorded' \subseteq ProjectIds /\ unrecorded \subseteq unrecorded'
           /\ applied \subseteq applied' /\ applied' \subseteq Requests
           /\ instance \subseteq instance' /\ instance' \subseteq Requests \X (0 .. MaxProjects)
           /\ \A q \in ProjectIds : project'[q].status = "active" =>
                  \/ q \in unrecorded' \/ work'[h].made = q
                  \/ \E i \in instance' : i[2] = q
                  \/ project[q].status = "active" /\ work[h].made # q
           /\ GrantedIsApplied'
<1>0. /\ TypeOK /\ Fits(h) /\ work[h] \in Work /\ project \in [ProjectIds -> Rows]
      /\ unrecorded \subseteq ProjectIds /\ applied \subseteq Requests
      /\ instance \subseteq Requests \X (0 .. MaxProjects)
      /\ work \in [Handlers -> Work] /\ stage \in [Handlers -> Stages]
      /\ GrantedIsApplied
  BY DEF ProjectsInv, TypeOK, Work, Rows
<1>1. CASE ProvisionAccess(h)
  <2>1. UNCHANGED <<project, unrecorded, applied, instance>>
    BY <1>1 DEF ProvisionAccess, ghosts
  <2>2. work[h].made = 0 /\ 0 \notin ProjectIds
    BY <1>0, <1>1, Bounds DEF ProvisionAccess, Fits
  <2> QED
    BY <1>0, <2>1, <2>2 DEF GrantedIsApplied
<1>2. CASE ProvisionCreate(h)
  <2>1. UNCHANGED <<applied, instance>> /\ work[h].made = 0 /\ 0 \notin ProjectIds
    BY <1>0, <1>2, Bounds DEF ProvisionCreate, Fits
  <2>2. CASE /\ CreateWorkspace /\ unrecorded' = unrecorded
             /\ work' = [work EXCEPT ![h] = [work[h] EXCEPT !.project = NewId, !.made = NewId]]
    <3>1. work'[h].made = NewId
      BY <1>0, <2>2 DEF Work
    <3> QED
      BY <1>0, <2>1, <2>2, <3>1, CreateKeeps DEF GrantedIsApplied
  <2>3. CASE CreateWorkspace /\ unrecorded' = unrecorded \cup {NewId}
    BY <1>0, <2>1, <2>3, CreateKeeps DEF GrantedIsApplied
  <2>4. CASE UNCHANGED <<project, unrecorded>>
    BY <1>0, <2>1, <2>4 DEF GrantedIsApplied
  <2> QED
    BY <1>2, <2>2, <2>3, <2>4 DEF ProvisionCreate, Goto
<1>3. CASE ProvisionApply(h)
  <2> DEFINE p == work[h].project
  <2>1. /\ UNCHANGED <<unrecorded, instance>> /\ audit' = audit
        /\ stage[h] = "apply" /\ p \in ProjectIds /\ work[h].request \in Requests
    <3>1. stage[h] = "apply" /\ p # 0 /\ p \in 0 .. MaxProjects /\ work[h].request \in Requests
      BY <1>0, <1>3 DEF ProvisionApply, Fits, Work, Provisioning
    <3>2. p \in ProjectIds
      BY <3>1, Bounds DEF ProjectIds
    <3> QED
      BY <1>3, <3>1, <3>2 DEF ProvisionApply
  <2>2. SpecOf[work[h].request].permissions \in Permissions
    BY <2>1, ProjectsAssumption DEF Specs
  <2>3. project' \in [ProjectIds -> Rows] /\ NoneNew
    <3>1. \/ SetProjectModelPermissions(p, SpecOf[work[h].request].permissions)
          \/ Adjust(p)
          \/ project' = project
      BY <1>3 DEF ProvisionApply, SetProjectHostedToolPermissions
    <3> QED
      BY <1>0, <2>1, <2>2, <3>1, CallsKeep DEF NoneNew
  <2>4. /\ applied' \in {applied, applied \cup {work[h].request}}
        /\ \/ /\ work[h].request \in applied'
              /\ Applied(h, TRUE) \/ Applied(h, FALSE)
           \/ Applied(h, FALSE)
    BY <1>3 DEF ProvisionApply
  <2>5. applied \subseteq applied' /\ applied' \subseteq Requests
    BY <1>0, <2>1, <2>4
  <2>6. work'[h] = work[h] \/ work[h].made = 0
    BY <1>0, <2>1, <2>4, AppliedMoves
  <2>7. \A q \in ProjectIds : work[h].made = q => work'[h].made = q
    BY <2>6, Bounds
  <2>8. GrantedIsApplied'
    BY <1>0, <2>1, <2>5 DEF GrantedIsApplied
  <2> HIDE DEF p
  <2> QED
    BY <1>0, <2>1, <2>3, <2>5, <2>7, <2>8 DEF NoneNew
<1>4. CASE ProvisionRollback(h)
  <2> DEFINE p == work[h].made
  <2>1. /\ UNCHANGED <<applied, instance>> /\ stage[h] = "rollback"
        /\ \/ ArchiveWorkspace(p) /\ unrecorded' = unrecorded
           \/ unrecorded' = unrecorded \cup {p} /\ project' = project
    BY <1>4 DEF ProvisionRollback, ToArchive
  <2>2. p \in ProjectIds
    <3>1. p # 0 /\ p \in 0 .. MaxProjects
      BY <1>0, <2>1 DEF Fits, Work
    <3> QED
      BY <3>1, Bounds DEF ProjectIds
  <2>3. CASE ArchiveWorkspace(p) /\ unrecorded' = unrecorded
    <3>1. [project[p] EXCEPT !.status = "archived"] \in Rows
      BY <1>0, <2>2 DEF Rows
    <3>2. project' = [project EXCEPT ![p] = [project[p] EXCEPT !.status = "archived"]]
      BY <2>3 DEF ArchiveWorkspace, Alter
    <3>3. project' \in [ProjectIds -> Rows] /\ project'[p].status = "archived"
          /\ \A q \in ProjectIds \ {p} : project'[q] = project[q]
      BY <1>0, <2>2, <3>1, <3>2 DEF Rows
    <3> HIDE DEF p
    <3>4. \A q \in ProjectIds : project'[q].status = "active" =>
             project[q].status = "active" /\ p # q
      BY <3>3
    <3> QED
      BY <1>0, <2>1, <2>3, <3>3, <3>4 DEF GrantedIsApplied, p
  <2>4. CASE unrecorded' = unrecorded \cup {p} /\ project' = project
    BY <1>0, <2>1, <2>2, <2>4 DEF GrantedIsApplied
  <2> QED
    BY <2>1, <2>3, <2>4
<1>5. CASE InsertInstance(h)
  <2>1. /\ UNCHANGED <<project, applied>> /\ stage[h] = "insert"
        /\ \/ /\ instance' = instance \cup {<<work[h].request, work[h].project>>}
              /\ unrecorded' = unrecorded
           \/ /\ unrecorded' = unrecorded \cup ({work[h].made} \ {0})
              /\ instance' = instance
    BY <1>5 DEF InsertInstance
  <2>2. /\ work[h].request \in Requests /\ work[h].project \in 0 .. MaxProjects
        /\ work[h].made \in 0 .. MaxProjects
        /\ work[h].made # 0 => work[h].project = work[h].made
        /\ SpecOf[work[h].request].service # "api" =>
               work[h].project # 0 /\ work[h].request \in applied
    BY <1>0, <2>1 DEF Fits, Work, Provisioning
  <2>3. {work[h].made} \ {0} \subseteq ProjectIds /\ 0 \notin ProjectIds
    BY <2>2, Bounds DEF ProjectIds
  <2>4. CASE /\ instance' = instance \cup {<<work[h].request, work[h].project>>}
             /\ unrecorded' = unrecorded
    <3>1. instance' \subseteq Requests \X (0 .. MaxProjects) /\ instance \subseteq instance'
      BY <1>0, <2>2, <2>4
    <3>2. GrantedIsApplied'
      BY <1>0, <2>1, <2>2, <2>4 DEF GrantedIsApplied
    <3>3. ASSUME NEW q \in ProjectIds, work[h].made = q PROVE \E i \in instance' : i[2] = q
      <4>1. q = work[h].project
        BY <2>2, <2>3, <3>3
      <4>2. <<work[h].request, work[h].project>> \in instance'
        BY <2>4
      <4> QED
        BY <4>1, <4>2
    <3> QED
      BY <1>0, <2>1, <2>4, <3>1, <3>2, <3>3
  <2>5. CASE /\ unrecorded' = unrecorded \cup ({work[h].made} \ {0})
             /\ instance' = instance
    BY <1>0, <2>1, <2>3, <2>5 DEF GrantedIsApplied
  <2> QED
    BY <2>1, <2>4, <2>5
<1> QED
  BY <1>1, <1>2, <1>3, <1>4, <1>5 DEF Provision

-----------------------------------------------------------------------------
(***************************************************************************)
(* People.                                                                 *)
(***************************************************************************)

Invites == [email : Emails, role : OrgRoles \ {"none"}]

\* An owner is made of nobody for whom no caller asks it.
LEMMA AskedRoles ==
    ASSUME NEW u \in Emails, NEW role \in RoleInputs, Ask(u, role), elevated \subseteq Emails
    PROVE  /\ elevated \subseteq elevated' /\ elevated' \subseteq Emails
           /\ oaiOrgRole(role) \in OrgRoles \ {"none"}
           /\ oaiOrgRole(role) = "owner" => u \in elevated'
           /\ oaiProjectRole(role) = "owner" => u \in elevated'
BY ProjectsAssumption DEF Ask, oaiOrgRole, oaiProjectRole, OrgRoles

PeopleInv ==
    /\ orgRole \in [Emails -> OrgRoles]
    /\ invites \subseteq Invites
    /\ member \in [ProjectIds -> [Emails -> ProjectRoles]]
    /\ elevated \subseteq Emails
    /\ InvitesAsked
    /\ OwnersWereAsked

\* What a step of a route does to the people: nobody comes to own anything
\* that was not asked for.
LEMMA RoutePeople ==
    ASSUME ProjectsInv, NEW h \in Handlers, RouteOf(h)
    PROVE  PeopleInv' /\ elevated \subseteq elevated'
<1>0. /\ TypeOK /\ Fits(h) /\ work[h] \in Work /\ PeopleInv
      /\ orgRole \in [Emails -> OrgRoles] /\ invites \subseteq Invites
      /\ member \in [ProjectIds -> [Emails -> ProjectRoles]] /\ elevated \subseteq Emails
  BY DEF ProjectsInv, TypeOK, Work, PeopleInv, Invites
<1>1. CASE UNCHANGED people
  BY <1>0, <1>1 DEF PeopleInv, InvitesAsked, OwnersWereAsked, people
<1>2. ASSUME NEW u \in Emails, NEW role \in RoleInputs, InviteUser(u, role)
      PROVE  PeopleInv' /\ elevated \subseteq elevated'
  <2>1. /\ elevated \subseteq elevated' /\ elevated' \subseteq Emails
        /\ oaiOrgRole(role) \in OrgRoles \ {"none"}
        /\ oaiOrgRole(role) = "owner" => u \in elevated'
    BY <1>0, <1>2, AskedRoles DEF InviteUser
  <2> DEFINE i == [email |-> u, role |-> oaiOrgRole(role)]
  <2>2. invites' = invites \cup {i} /\ UNCHANGED <<orgRole, member>>
    BY <1>2 DEF InviteUser
  <2>3. i \in Invites /\ (i.role = "owner" => i.email \in elevated')
    BY <2>1 DEF Invites
  <2> HIDE DEF i
  <2>4. InvitesAsked'
    BY <1>0, <2>1, <2>2, <2>3 DEF InvitesAsked, PeopleInv
  <2>5. OwnersWereAsked'
    BY <1>0, <2>1, <2>2 DEF OwnersWereAsked, PeopleInv
  <2> QED
    BY <1>0, <2>1, <2>2, <2>3, <2>4, <2>5 DEF PeopleInv
<1>3. ASSUME NEW u \in Emails, NEW role \in RoleInputs, SetOrgRole(u, role)
      PROVE  PeopleInv' /\ elevated \subseteq elevated'
  <2>1. /\ elevated \subseteq elevated' /\ elevated' \subseteq Emails
        /\ oaiOrgRole(role) \in OrgRoles \ {"none"}
        /\ oaiOrgRole(role) = "owner" => u \in elevated'
    BY <1>0, <1>3, AskedRoles DEF SetOrgRole
  <2>2. orgRole' = [orgRole EXCEPT ![u] = oaiOrgRole(role)] /\ UNCHANGED <<invites, member>>
    BY <1>3 DEF SetOrgRole
  <2>3. InvitesAsked'
    BY <1>0, <2>1, <2>2 DEF InvitesAsked, PeopleInv
  <2>4. orgRole' \in [Emails -> OrgRoles]
        /\ \A v \in Emails : orgRole'[v] = "owner" => orgRole[v] = "owner" \/ v \in elevated'
    BY <1>0, <2>1, <2>2
  <2>5. OwnersWereAsked'
    BY <1>0, <2>1, <2>2, <2>4 DEF OwnersWereAsked, PeopleInv
  <2> QED
    BY <1>0, <2>1, <2>2, <2>3, <2>4, <2>5 DEF PeopleInv
<1>4. ASSUME NEW u \in Emails, RemoveOrgUser(u)
      PROVE  PeopleInv' /\ elevated \subseteq elevated'
  <2>1. /\ orgRole' = [orgRole EXCEPT ![u] = "none"]
        /\ member' = [p \in ProjectIds |-> [member[p] EXCEPT ![u] = "none"]]
        /\ UNCHANGED <<invites, elevated>>
    BY <1>4 DEF RemoveOrgUser
  <2>2. /\ orgRole' \in [Emails -> OrgRoles]
        /\ \A v \in Emails : orgRole'[v] = "owner" => orgRole[v] = "owner"
    BY <1>0, <2>1 DEF OrgRoles
  <2>3. /\ member' \in [ProjectIds -> [Emails -> ProjectRoles]]
        /\ \A p \in ProjectIds, v \in Emails : member'[p][v] = "owner" => member[p][v] = "owner"
    BY <1>0, <2>1 DEF ProjectRoles
  <2> QED
    BY <1>0, <2>1, <2>2, <2>3 DEF PeopleInv, InvitesAsked, OwnersWereAsked
<1>5. ASSUME NEW p, NEW u, NEW role \in ProjectRoles, SetMember(p, u, role),
             role = "owner" => u \in elevated
      PROVE  PeopleInv' /\ elevated \subseteq elevated'
  <2>1. member' = [member EXCEPT ![p][u] = role] /\ UNCHANGED <<orgRole, invites, elevated>>
    BY <1>5 DEF SetMember
  <2>2. /\ member' \in [ProjectIds -> [Emails -> ProjectRoles]]
        /\ \A q \in ProjectIds, v \in Emails :
              member'[q][v] = "owner" => member[q][v] = "owner" \/ v \in elevated
    BY <1>0, <1>5, <2>1
  <2> QED
    BY <1>0, <2>1, <2>2 DEF PeopleInv, InvitesAsked, OwnersWereAsked
<1>6. ASSUME NEW u \in Emails, NEW role \in RoleInputs, Ask(u, role),
             UNCHANGED <<orgRole, invites, member>>
      PROVE  PeopleInv' /\ elevated \subseteq elevated'
  <2>1. elevated \subseteq elevated' /\ elevated' \subseteq Emails
    BY <1>0, <1>6, AskedRoles
  <2> QED
    BY <1>0, <1>6, <2>1 DEF PeopleInv, InvitesAsked, OwnersWereAsked
<1>7. \/ UNCHANGED people
      \/ \E u \in Emails, role \in RoleInputs : InviteUser(u, role) \/ SetOrgRole(u, role)
      \/ \E u \in Emails : RemoveOrgUser(u)
      \/ \E p, u : SetMember(p, u, "none")
      \/ /\ stage[h] \in {"add", "update"}
         /\ SetMember(work[h].project, work[h].email, work[h].role)
      \/ \E u \in Emails, role \in RoleInputs :
           Ask(u, role) /\ UNCHANGED <<orgRole, invites, member>>
  BY DEF RouteOf, CreateAIWorkspace, Administer, AdministerPeople, ProjectRoute, PeopleRoute,
         ArchiveAIWorkspace, SetAIProjectModelPermissions, DeleteAIProjectModelPermissions,
         SetAIProjectHostedToolPermissions, UpdateAIProjectRateLimit,
         SetAIProjectDataRetention, WriteAIProjectSpendAlert, DeleteAIProjectSpendAlert,
         DeleteAIProjectAPIKey, InviteAIOrgUser, SetAIOrgRole, RemoveAIOrgUser,
         RemoveAIWorkspaceMember, RemoveWorkspaceMember, GrantAIWorkspaceAccess, GrantAdd,
         GrantUpdate, RouteError, Audit
<1>8. "none" \in ProjectRoles /\ work[h].role \in ProjectRoles
      /\ (stage[h] \in {"add", "update"} /\ work[h].role = "owner" => work[h].email \in elevated)
  BY <1>0 DEF ProjectRoles, Work, Fits
<1>9. CASE \E p, u : SetMember(p, u, "none")
  BY <1>5, <1>8, <1>9
<1>10. CASE /\ stage[h] \in {"add", "update"}
            /\ SetMember(work[h].project, work[h].email, work[h].role)
  BY <1>5, <1>8, <1>10
<1> QED
  BY <1>1, <1>2, <1>3, <1>4, <1>6, <1>7, <1>9, <1>10

\* Who accepts an invite gets the role that was asked for.
LEMMA AcceptPeople ==
    ASSUME ProjectsInv, NEW i \in invites, AcceptInvite(i)
    PROVE  PeopleInv'
<1>0. /\ PeopleInv /\ i \in Invites /\ i.role \in OrgRoles /\ i.email \in Emails
      /\ i.role = "owner" => i.email \in elevated
  BY DEF ProjectsInv, TypeOK, PeopleInv, Invites, InvitesAsked
<1>1. /\ invites' \subseteq invites /\ UNCHANGED <<member, elevated>>
      /\ orgRole' = [orgRole EXCEPT ![i.email] = IF @ = "none" THEN i.role ELSE @]
  BY DEF AcceptInvite
<1>2. /\ orgRole' \in [Emails -> OrgRoles]
      /\ \A v \in Emails : orgRole'[v] = "owner" => orgRole[v] = "owner" \/ v \in elevated
  BY <1>0, <1>1 DEF PeopleInv
<1> QED
  BY <1>0, <1>1, <1>2 DEF PeopleInv, InvitesAsked, OwnersWereAsked

-----------------------------------------------------------------------------
(***************************************************************************)
(* The invariant.                                                          *)
(***************************************************************************)

\* Every step of a handler is of an approval or of a route.
LEMMA StepKinds ==
    ASSUME Next
    PROVE  \/ \E h \in Handlers : Provision(h) \/ RouteOf(h)
           \/ \E i \in invites : AcceptInvite(i)
BY DEF Next, RouteOf

\* A handler that is not moved keeps what it knows.
LEMMA OthersFit ==
    ASSUME NEW g \in Handlers, Fits(g),
           stage'[g] = stage[g], work'[g] = work[g], audit'[g] = audit[g],
           applied \subseteq applied', elevated \subseteq elevated'
    PROVE  Fits(g)'
BY DEF Fits

\* Every step keeps the invariant.
LEMMA ProjectsStep == ProjectsInv /\ [Next]_vars => ProjectsInv'
<1> SUFFICES ASSUME ProjectsInv, [Next]_vars PROVE ProjectsInv'
  OBVIOUS
<1>0. /\ TypeOK /\ \A h \in Handlers : Fits(h)
      /\ ProjectsAccounted /\ GrantedIsApplied /\ InvitesAsked /\ OwnersWereAsked
      /\ PeopleInv
  BY DEF ProjectsInv, PeopleInv, TypeOK, Invites
<1>1. ASSUME NEW h \in Handlers, Provision(h) PROVE ProjectsInv'
  <2>1. Moved(h)
    BY <1>1, ProvisionMoves
  <2>2. /\ project' \in [ProjectIds -> Rows]
        /\ unrecorded' \subseteq ProjectIds /\ unrecorded \subseteq unrecorded'
        /\ applied \subseteq applied' /\ applied' \subseteq Requests
        /\ instance \subseteq instance' /\ instance' \subseteq Requests \X (0 .. MaxProjects)
        /\ \A q \in ProjectIds : project'[q].status = "active" =>
               \/ q \in unrecorded' \/ work'[h].made = q
               \/ \E i \in instance' : i[2] = q
               \/ project[q].status = "active" /\ work[h].made # q
        /\ GrantedIsApplied'
    BY <1>1, ProvisionProjects
  <2>3. UNCHANGED people
    BY <1>1 DEF Provision, ProvisionAccess, ProvisionCreate, ProvisionApply, ProvisionRollback,
           InsertInstance
  <2>4. PeopleInv'
    BY <1>0, <2>3 DEF PeopleInv, InvitesAsked, OwnersWereAsked, people
  <2>5. \A g \in Handlers : Fits(g)'
    BY <1>0, <2>1, <2>2, <2>3, OthersFit DEF Moved, people
  <2>6. ProjectsAccounted'
    <3> SUFFICES ASSUME NEW q \in ProjectIds, project'[q].status = "active"
                 PROVE  \/ q \in unrecorded' \/ \E i \in instance' : i[2] = q
                        \/ \E g \in Handlers : work'[g].made = q
      BY DEF ProjectsAccounted
    <3>1. CASE project[q].status = "active" /\ work[h].made # q
      <4>1. \/ q \in unrecorded \/ \E i \in instance : i[2] = q
            \/ \E g \in Handlers \ {h} : work[g].made = q
        BY <1>0, <3>1 DEF ProjectsAccounted
      <4> QED
        BY <2>1, <2>2, <4>1 DEF Moved
    <3> QED
      BY <2>2, <3>1
  <2>7. TypeOK'
    BY <2>1, <2>2, <2>4 DEF TypeOK, Moved, PeopleInv, Work, Rows, Invites
  <2> QED
    BY <2>2, <2>4, <2>5, <2>6, <2>7 DEF ProjectsInv, PeopleInv
<1>2. ASSUME NEW h \in Handlers, RouteOf(h) PROVE ProjectsInv'
  <2>1. Moved(h) /\ work'[h].made = 0 /\ work[h].made = 0
    BY <1>2, RoutesMove
  <2>2. /\ project' \in [ProjectIds -> Rows]
        /\ unrecorded' \subseteq ProjectIds /\ unrecorded \subseteq unrecorded'
        /\ applied' = applied /\ instance' = instance
        /\ \A q \in ProjectIds : project'[q].status = "active" =>
               project[q].status = "active" \/ q \in unrecorded'
    BY <1>2, RouteProjects
  <2>3. PeopleInv' /\ elevated \subseteq elevated'
    BY <1>2, RoutePeople
  <2>4. \A g \in Handlers : Fits(g)'
    BY <1>0, <2>1, <2>2, <2>3, OthersFit DEF Moved
  <2>5. ProjectsAccounted'
    <3> SUFFICES ASSUME NEW q \in ProjectIds, project'[q].status = "active"
                 PROVE  \/ q \in unrecorded' \/ \E i \in instance' : i[2] = q
                        \/ \E g \in Handlers : work'[g].made = q
      BY DEF ProjectsAccounted
    <3>1. CASE project[q].status = "active"
      <4>1. q # 0
        BY Bounds
      <4>2. \/ q \in unrecorded \/ \E i \in instance : i[2] = q
            \/ \E g \in Handlers \ {h} : work[g].made = q
        BY <1>0, <2>1, <3>1, <4>1 DEF ProjectsAccounted
      <4> QED
        BY <2>1, <2>2, <4>2 DEF Moved
    <3> QED
      BY <2>2, <3>1
  <2>6. TypeOK'
    BY <1>0, <2>1, <2>2, <2>3 DEF TypeOK, Moved, PeopleInv, Work, Rows, Invites
  <2>7. GrantedIsApplied'
    BY <1>0, <2>2 DEF GrantedIsApplied
  <2> QED
    BY <2>3, <2>4, <2>5, <2>6, <2>7 DEF ProjectsInv, PeopleInv
<1>3. ASSUME NEW i \in invites, AcceptInvite(i) PROVE ProjectsInv'
  <2>1. UNCHANGED <<project, unrecorded, applied, instance, stage, work, audit, elevated>>
    BY <1>3 DEF AcceptInvite, ghosts, control
  <2>2. PeopleInv'
    BY <1>3, AcceptPeople
  <2>3. \A g \in Handlers : Fits(g)'
    BY <1>0, <2>1 DEF Fits
  <2> QED
    BY <1>0, <2>1, <2>2, <2>3
       DEF ProjectsInv, PeopleInv, TypeOK, Invites, ProjectsAccounted, GrantedIsApplied
<1>4. CASE UNCHANGED vars
  BY <1>4 DEF vars, people, ghosts, control, ProjectsInv, TypeOK, Fits, ProjectsAccounted,
              GrantedIsApplied, InvitesAsked, OwnersWereAsked
<1> QED
  BY <1>1, <1>2, <1>3, <1>4, StepKinds

\* At the start there is one project, which no row answers for.
LEMMA InitProjects == Init => ProjectsInv
<1> SUFFICES ASSUME Init PROVE ProjectsInv
  OBVIOUS
<1>1. NewProject \in Rows /\ NoProject \in Rows /\ NoProject.status = "none"
  BY DEF NewProject, NoProject, Rows, Modes
<1>2. TypeOK
  <2>1. project \in [ProjectIds -> Rows]
    BY <1>1 DEF Init
  <2>2. /\ orgRole \in [Emails -> OrgRoles]
        /\ member \in [ProjectIds -> [Emails -> ProjectRoles]]
    BY DEF Init, OrgRoles, ProjectRoles
  <2>3. /\ invites = {} /\ elevated = {} /\ applied = {} /\ instance = {}
        /\ unrecorded \subseteq ProjectIds
    BY Bounds DEF Init
  <2>4. /\ stage \in [Handlers -> Stages] /\ work \in [Handlers -> Work]
        /\ audit \in [Handlers -> Telling]
    BY NoWorkTyped DEF Init, Stages, Telling
  <2> QED
    BY <2>1, <2>2, <2>3, <2>4 DEF TypeOK, Work, Rows
<1>3. \A h \in Handlers : Fits(h)
  BY NoWorkTyped DEF Init, Fits, Provisioning
<1>4. ProjectsAccounted
  BY <1>1 DEF Init, ProjectsAccounted
<1>5. GrantedIsApplied /\ InvitesAsked /\ OwnersWereAsked
  BY DEF Init, GrantedIsApplied, InvitesAsked, OwnersWereAsked
<1> QED
  BY <1>2, <1>3, <1>4, <1>5 DEF ProjectsInv

\* The invariant holds at all times.
LEMMA ProjectsInvariant == Spec => []ProjectsInv
BY InitProjects, ProjectsStep, PTL DEF Spec

-----------------------------------------------------------------------------
(***************************************************************************)
(* The theorems.                                                           *)
(***************************************************************************)

\* The organization, the rows and the handlers keep their types, whatever the
\* routes and the approvals do to one another.
THEOREM ProjectsTypeCorrect == Spec => []TypeOK
<1>1. ProjectsInv => TypeOK
  BY DEF ProjectsInv
<1> QED
  BY <1>1, ProjectsInvariant, PTL

\* No approval leaves an active project behind that neither a row nor a handler
\* nor the code's own giving up answers for (provisionOpenAIAccess: the deferred
\* archiving of what it has created).
THEOREM ProjectsAccountedHolds == Spec => []ProjectsAccounted
<1>1. ProjectsInv => ProjectsAccounted
  BY DEF ProjectsInv
<1> QED
  BY <1>1, ProjectsInvariant, PTL

\* The row of a service that controls a project is there only after the provider
\* has taken the permissions of its request (provisionOpenAIAccess).
THEOREM GrantedIsAppliedHolds == Spec => []GrantedIsApplied
<1>1. ProjectsInv => GrantedIsApplied
  BY DEF ProjectsInv
<1> QED
  BY <1>1, ProjectsInvariant, PTL

\* Nobody owns the organization or a project unless a caller asked for an
\* elevated role of theirs: by the role routes, by an invite accepted at any
\* later time, or by a grant that turns into an update (oaiOrgRole,
\* oaiProjectRole).
THEOREM OwnersWereAskedHolds == Spec => []OwnersWereAsked
<1>1. ProjectsInv => OwnersWereAsked
  BY DEF ProjectsInv
<1> QED
  BY <1>1, ProjectsInvariant, PTL

\* A route that has changed something, or may have, ends only after it has
\* tried to write its audit row (emitAIAudit, on success and on error): the
\* only changes no row tells of are those whose insert failed.
THEOREM WritesReachAuditHolds == Spec => []WritesReachAudit
<1>1. ProjectsInv => WritesReachAudit
  BY DEF ProjectsInv, Fits, WritesReachAudit
<1> QED
  BY <1>1, ProjectsInvariant, PTL

\* The deferred function of a failed approval archives the project which that
\* approval has created and changes no other (createdProjectID).
THEOREM RollbackTakesOwnHolds == Spec => RollbackTakesOwn
<1> DEFINE Own(h, p) ==
      stage[h] = "rollback" /\ stage'[h] = "idle" /\ project'[p] # project[p]
          => project'[p].status = "archived" /\ work[h].made = p
<1>1. ASSUME ProjectsInv, [Next]_vars, NEW h \in Handlers, NEW p \in ProjectIds
      PROVE  Own(h, p)
  <2> SUFFICES ASSUME stage[h] = "rollback", stage'[h] = "idle", project'[p] # project[p]
               PROVE  project'[p].status = "archived" /\ work[h].made = p
    OBVIOUS
  <2>1. TypeOK /\ Fits(h)
    BY <1>1 DEF ProjectsInv
  <2>2. PICK g \in Handlers : Provision(g) \/ RouteOf(g)
    <3>1. ~UNCHANGED vars
      BY DEF vars, control
    <3>2. \A i \in invites : ~AcceptInvite(i)
      BY DEF AcceptInvite, control
    <3> QED
      BY <1>1, <3>1, <3>2, StepKinds
  <2>3. g = h
    <3>1. Moved(g)
      BY <1>1, <2>2, ProvisionMoves, RoutesMove
    <3> QED
      BY <3>1 DEF Moved
  <2>4. ~RouteOf(h)
    BY <1>1, <2>1, RoutesMove DEF Fits
  <2>5. ProvisionRollback(h)
    BY <2>2, <2>3, <2>4 DEF Provision, ProvisionAccess, ProvisionCreate, ProvisionApply,
                            InsertInstance
  <2>6. ArchiveWorkspace(work[h].made)
    BY <2>5 DEF ProvisionRollback, ToArchive
  <2>7. project' = [project EXCEPT ![work[h].made] =
                       [project[work[h].made] EXCEPT !.status = "archived"]]
    BY <2>6 DEF ArchiveWorkspace, Alter
  <2>8. project \in [ProjectIds -> Rows]
    BY <2>1 DEF TypeOK, Rows
  <2>9. work[h].made = p
    BY <2>7, <2>8
  <2> QED
    BY <2>7, <2>8, <2>9 DEF Rows
<1>2. ProjectsInv /\ [Next]_vars => \A h \in Handlers, p \in ProjectIds : Own(h, p)
  BY <1>1
<1> QED
  BY <1>2, ProjectsInvariant, PTL DEF RollbackTakesOwn, Spec

=============================================================================
