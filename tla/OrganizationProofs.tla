------------------------- MODULE OrganizationProofs -------------------------
(***************************************************************************)
(* Proofs about Organization, for any people, workspaces, requests and     *)
(* handlers: only the Console makes administrators, and no access is left  *)
(* that nobody answers for.                                                *)
(***************************************************************************)
EXTENDS Organization, TLAPS

(***************************************************************************)
(* What a handler works on.                                                *)
(***************************************************************************)

Works == [request : Requests \cup {"none"}, access : AccessIds,
          role : WorkspaceRoles \cup {"none"}]
Rows == [status : {"none", "active", "revoked"}, access : AccessIds]
InviteRecords == [email : Emails \cup {""}, role : OrgRoles \cup {"none"},
                  status : {"none", "pending", "accepted", "deleted"}]

Granting == {"users", "workspaces", "lookup", "add", "update", "insert"}
Revoking == {"revoke", "reset", "close"}

\* At stage s with work w: the request of a grant has no row yet, that of a
\* revoke has the row whose access is being taken away.
Fits(s, w) ==
    /\ s \in {"users", "workspaces", "insert"} \cup Revoking => w.request \in Requests
    /\ s \in {"lookup", "add", "update", "reset"} => w.access.kind = "ws"
    /\ s \in Granting /\ w.request # "none" => instance[w.request].status = "none"
    /\ s \in Revoking
         => /\ instance[w.request].status \in {"active", "revoked"}
            /\ instance[w.request].access = w.access

WorkFits == \A h \in Handlers : Fits(stage[h], work[h])

\* A request is granted by one handler.
Alone(h, s, w) ==
    s \in Granting /\ w.request # "none"
      => \A k \in Handlers \ {h} : stage[k] \in Granting => work[k].request # w.request

OneGrant == \A h \in Handlers : Alone(h, stage[h], work[h])

(***************************************************************************)
(* Who answers for an access.                                              *)
(***************************************************************************)

\* An access somebody can use: a membership with a role that is given by a
\* grant, or an invite that can be accepted.
Open(a) ==
    \/ a.kind = "ws" /\ member[a.ws][a.user] \notin {"none", "workspace_billing"}
    \/ a.kind = "invite" /\ invite[a.invite].status = "pending"

\* A row of it that nobody is about to close.
Row(a, r) ==
    /\ instance[r] = [status |-> "active", access |-> a]
    /\ \A h \in Handlers : stage[h] = "close" => work[h].request # r

Stands(a) ==
    \/ a \in unrecorded
    \/ \E r \in Requests : Row(a, r)
    \/ \E h \in Handlers : stage[h] = "insert" /\ work[h].access = a

AllStand == \A a \in AccessIds : Open(a) => Stands(a)

\* No invite is for an administrator.
AdminsKnown ==
    /\ OnlyConsoleAdmins
    /\ \A i \in Invites : invite[i].role # "admin"

-----------------------------------------------------------------------------
(***************************************************************************)
(* Types.                                                                  *)
(***************************************************************************)

\* What the assumption on the constants says of inputs and empty records.
LEMMA Constant ==
    /\ "none" \notin Requests /\ NoWorkspace \notin Workspaces
    /\ MaxInvites \in Nat /\ RoleInputs \subseteq OrgRoles /\ GrantInputs \subseteq WorkspaceRoles
    /\ NoWork \in Works /\ NoWork.request = "none" /\ NoRow \in Rows /\ NoInvite \in InviteRecords
    /\ NoRow.status = "none" /\ NoInvite.status = "none" /\ NoInvite.role = "none"
    /\ RecordOnly \in AccessIds
    /\ \A r \in Requests : /\ SpecOf[r].owner \in Emails /\ SpecOf[r].role \in WorkspaceRoles
                           /\ SpecOf[r].ws \in Workspaces \cup {NoWorkspace}
BY OrganizationAssumption
   DEF NoWork, Works, NoRow, Rows, NoInvite, InviteRecords, RecordOnly, AccessIds

\* Which access an id stands for.
LEMMA Ids ==
    /\ \A w \in Workspaces : \A u \in Emails :
         /\ MembershipOf(w, u) \in AccessIds /\ MembershipOf(w, u).kind = "ws"
         /\ MembershipOf(w, u).ws = w /\ MembershipOf(w, u).user = u
    /\ \A i \in Invites :
         /\ InviteAccess(i) \in AccessIds /\ InviteAccess(i).kind = "invite"
         /\ InviteAccess(i).invite = i
    /\ RecordOnly.kind = "record"
    /\ \A a \in AccessIds :
         /\ a.kind = "ws" => a.ws \in Workspaces /\ a.user \in Emails /\ a = MembershipOf(a.ws, a.user)
         /\ a.kind = "invite" => a.invite \in Invites /\ a = InviteAccess(a.invite)
         /\ a.kind \in {"ws", "invite", "record"}
<1>1. /\ \A w \in Workspaces : \A u \in Emails :
           /\ MembershipOf(w, u) \in AccessIds /\ MembershipOf(w, u).kind = "ws"
           /\ MembershipOf(w, u).ws = w /\ MembershipOf(w, u).user = u
      /\ \A i \in Invites :
           /\ InviteAccess(i) \in AccessIds /\ InviteAccess(i).kind = "invite"
           /\ InviteAccess(i).invite = i
      /\ RecordOnly.kind = "record"
  <2>1. \A w \in Workspaces : \A u \in Emails : MembershipOf(w, u) \in AccessIds
    BY DEF AccessIds
  <2>2. \A i \in Invites : InviteAccess(i) \in AccessIds BY DEF AccessIds
  <2> QED BY <2>1, <2>2 DEF MembershipOf, InviteAccess, RecordOnly
<1>2. ASSUME NEW a \in AccessIds
      PROVE  /\ a.kind = "ws" => a.ws \in Workspaces /\ a.user \in Emails /\ a = MembershipOf(a.ws, a.user)
             /\ a.kind = "invite" => a.invite \in Invites /\ a = InviteAccess(a.invite)
             /\ a.kind \in {"ws", "invite", "record"}
  <2>1. CASE a = RecordOnly BY <2>1, <1>1
  <2>2. CASE \E i \in Invites : a = InviteAccess(i)
    <3>1. PICK i \in Invites : a = InviteAccess(i) BY <2>2
    <3> QED BY <3>1, <1>1
  <2>3. CASE \E w \in Workspaces : \E u \in Emails : a = MembershipOf(w, u)
    <3>1. PICK w \in Workspaces : \E u \in Emails : a = MembershipOf(w, u) BY <2>3
    <3>2. PICK u \in Emails : a = MembershipOf(w, u) BY <3>1
    <3> QED BY <3>2, <1>1
  <2> QED BY <2>1, <2>2, <2>3 DEF AccessIds
<1> QED BY <1>1, <1>2

\* The step of one handler moves no other.
LEMMA GotoMoves ==
    ASSUME TypeOK, NEW h \in Handlers, NEW s, NEW w, Goto(h, s, w)
    PROVE  /\ stage'[h] = s /\ work'[h] = w
           /\ \A k \in Handlers \ {h} : stage'[k] = stage[k] /\ work'[k] = work[k]
BY DEF TypeOK, Goto

\* A handler keeps its type wherever it goes with well-typed work.
LEMMA GotoTypes ==
    ASSUME TypeOK, NEW h \in Handlers, NEW s \in Stages, NEW w \in Works, Goto(h, s, w)
    PROVE  stage' \in [Handlers -> Stages] /\ work' \in [Handlers -> Works]
BY DEF TypeOK, Goto, Works

\* The state of the organization itself.
OrganizationOK ==
    /\ orgRole \in [Emails -> OrgRoles \cup {"none"}]
    /\ invite \in [Invites -> InviteRecords]
    /\ workspace \in [Workspaces -> {"none", "active", "archived"}]
    /\ member \in [Workspaces -> [Emails -> WorkspaceRoles \cup {"none"}]]
    /\ console \subseteq Emails

\* The types by part: the organization, the rows, the handlers.
LEMMA TypeParts ==
    TypeOK <=> /\ OrganizationOK
               /\ unrecorded \subseteq AccessIds
               /\ instance \in [Requests -> Rows]
               /\ stage \in [Handlers -> Stages] /\ work \in [Handlers -> Works]
BY DEF TypeOK, OrganizationOK, InviteRecords, Rows, Works

\* The same of the next state.
LEMMA TypePartsNext ==
    TypeOK' <=> /\ OrganizationOK'
                /\ unrecorded' \subseteq AccessIds
                /\ instance' \in [Requests -> Rows]
                /\ stage' \in [Handlers -> Stages] /\ work' \in [Handlers -> Works]
BY DEF TypeOK, OrganizationOK, InviteRecords, Rows, Works

-----------------------------------------------------------------------------
(***************************************************************************)
(* The calls of the organization.                                          *)
(***************************************************************************)

OrgInv == TypeOK /\ AdminsKnown

\* What a call that opens no access promises.
Closed == \A a \in AccessIds : Open(a)' => Open(a)

\* An invitation opens one access, that of the new invite.
LEMMA InviteUserStep ==
    ASSUME OrgInv, NEW u \in Emails, NEW role \in OrgRoles, InviteUser(u, role)
    PROVE  /\ OrganizationOK' /\ AdminsKnown'
           /\ NewInvite \in Invites
           /\ \A a \in AccessIds : Open(a)' => Open(a) \/ a = InviteAccess(NewInvite)
<1>1. PICK i \in Invites :
        /\ invite[i] = NoInvite
        /\ \A k \in Invites : k < i => invite[k] # NoInvite
        /\ invite' = [invite EXCEPT ![i] = [email |-> u, role |-> role, status |-> "pending"]]
  BY DEF InviteUser
<1>2. Invites \subseteq Nat BY Constant DEF Invites
<1>3. NewInvite = i
  <2>1. NewInvite \in Invites /\ invite[NewInvite] = NoInvite
        /\ \A k \in Invites : k < NewInvite => invite[k] # NoInvite
    BY <1>1 DEF NewInvite
  <2> HIDE DEF NewInvite
  <2> QED BY <2>1, <1>1, <1>2
<1>4. UNCHANGED <<orgRole, workspace, member, console>> /\ role # "admin" BY DEF InviteUser
<1> DEFINE new == [email |-> u, role |-> role, status |-> "pending"]
<1>5. new \in InviteRecords /\ new.role = role BY DEF InviteRecords
<1> HIDE DEF new
<1>6. OrganizationOK'
  BY <1>1, <1>4, <1>5, TypeParts DEF OrgInv, OrganizationOK, new
<1>7. AdminsKnown'
  BY <1>1, <1>4, <1>5, TypeParts DEF OrgInv, AdminsKnown, OnlyConsoleAdmins, OrganizationOK, new
<1>8. ASSUME NEW a \in AccessIds, Open(a)', ~Open(a) PROVE a = InviteAccess(i)
  BY <1>1, <1>4, <1>8, Ids, TypeParts DEF OrgInv, OrganizationOK, Open
<1> QED BY <1>1, <1>3, <1>6, <1>7, <1>8

\* Deleting an invite opens nothing and closes its access.
LEMMA DeleteInviteStep ==
    ASSUME OrgInv, NEW i \in Invites, DeleteInvite(i)
    PROVE  OrganizationOK' /\ AdminsKnown' /\ Closed /\ ~Open(InviteAccess(i))'
<1>1. OrganizationOK'
  BY TypeParts DEF OrgInv, OrganizationOK, DeleteInvite, InviteRecords
<1>2. AdminsKnown'
  BY TypeParts DEF OrgInv, AdminsKnown, OnlyConsoleAdmins, DeleteInvite, OrganizationOK, InviteRecords
<1>3. Closed
  BY Ids, TypeParts DEF OrgInv, OrganizationOK, InviteRecords, Open, Closed, DeleteInvite
<1>4. ~Open(InviteAccess(i))'
  <2>1. invite'[i].status = "deleted"
    BY TypeParts DEF OrgInv, OrganizationOK, InviteRecords, DeleteInvite
  <2>2. InviteAccess(i).kind = "invite" /\ InviteAccess(i).invite = i BY Ids
  <2> QED BY <2>1, <2>2 DEF Open
<1> QED BY <1>1, <1>2, <1>3, <1>4

\* Removing a user opens nothing and closes every membership of the user.
LEMMA RemoveOrgUserStep ==
    ASSUME OrgInv, NEW u \in Emails, RemoveOrgUser(u)
    PROVE  /\ OrganizationOK' /\ AdminsKnown' /\ Closed
           /\ \A w \in Workspaces : ~Open(MembershipOf(w, u))'
<1>1. OrganizationOK'
  BY TypeParts DEF OrgInv, OrganizationOK, RemoveOrgUser
<1>2. AdminsKnown'
  BY TypeParts DEF OrgInv, AdminsKnown, OnlyConsoleAdmins, RemoveOrgUser, OrganizationOK
<1>3. \A w \in Workspaces : \A e \in Emails :
        member'[w][e] = IF e = u THEN "none" ELSE member[w][e]
  BY TypeParts DEF OrgInv, OrganizationOK, RemoveOrgUser
<1>4. invite' = invite BY DEF RemoveOrgUser
<1>5. Closed
  <2> SUFFICES ASSUME NEW a \in AccessIds, Open(a)' PROVE Open(a) BY DEF Closed
  <2> QED BY Ids, <1>3, <1>4 DEF Open
<1>6. ASSUME NEW w \in Workspaces PROVE ~Open(MembershipOf(w, u))'
  BY Ids, <1>3 DEF Open
<1> QED BY <1>1, <1>2, <1>5, <1>6

\* A change of the organization role opens nothing.
LEMMA SetOrgRoleStep ==
    ASSUME OrgInv, NEW u \in Emails, NEW role \in OrgRoles, SetOrgRole(u, role)
    PROVE  OrganizationOK' /\ AdminsKnown' /\ Closed
<1>1. OrganizationOK'
  BY TypeParts DEF OrgInv, OrganizationOK, SetOrgRole
<1>2. AdminsKnown'
  BY TypeParts DEF OrgInv, AdminsKnown, OnlyConsoleAdmins, SetOrgRole, OrganizationOK
<1>3. Closed BY DEF Closed, Open, SetOrgRole
<1> QED BY <1>1, <1>2, <1>3

\* Creating or archiving a workspace opens nothing.
LEMMA WorkspaceStep ==
    ASSUME OrgInv, NEW w \in Workspaces, CreateWorkspace(w) \/ ArchiveWorkspace(w)
    PROVE  OrganizationOK' /\ AdminsKnown' /\ Closed
<1>1. OrganizationOK'
  BY TypeParts DEF OrgInv, OrganizationOK, CreateWorkspace, ArchiveWorkspace
<1>2. AdminsKnown'
  BY DEF OrgInv, AdminsKnown, OnlyConsoleAdmins, CreateWorkspace, ArchiveWorkspace
<1>3. Closed BY DEF Closed, Open, CreateWorkspace, ArchiveWorkspace
<1> QED BY <1>1, <1>2, <1>3

\* A role of a member, or the end of a membership.
LEMMA MemberStep ==
    ASSUME OrgInv, NEW w \in Workspaces, NEW u \in Emails,
           NEW role \in WorkspaceRoles \cup {"none"},
           member' = [member EXCEPT ![w][u] = role],
           UNCHANGED <<orgRole, invite, workspace, console>>
    PROVE  /\ OrganizationOK' /\ AdminsKnown'
           /\ \A a \in AccessIds : Open(a)' => Open(a) \/ a = MembershipOf(w, u)
           /\ role \in {"none", "workspace_billing"} => Closed /\ ~Open(MembershipOf(w, u))'
<1>1. OrganizationOK'
  BY TypeParts DEF OrgInv, OrganizationOK
<1>2. AdminsKnown'
  BY DEF OrgInv, AdminsKnown, OnlyConsoleAdmins
<1>3. \A x \in Workspaces : \A e \in Emails :
        member'[x][e] = IF x = w /\ e = u THEN role ELSE member[x][e]
  BY TypeParts DEF OrgInv, OrganizationOK
<1>4. ASSUME NEW a \in AccessIds, Open(a)', a # MembershipOf(w, u) PROVE Open(a)
  <2>1. CASE a.kind = "ws"
    <3>1. a.ws \in Workspaces /\ a.user \in Emails /\ ~(a.ws = w /\ a.user = u)
      BY <1>4, <2>1, Ids
    <3> QED BY <3>1, <1>3, <1>4, <2>1 DEF Open
  <2>2. CASE a.kind # "ws" BY <1>4, <2>2 DEF Open
  <2> QED BY <2>1, <2>2
<1>5. role \in {"none", "workspace_billing"} => ~Open(MembershipOf(w, u))'
  BY Ids, <1>3 DEF Open
<1> QED BY <1>1, <1>2, <1>4, <1>5 DEF Closed

-----------------------------------------------------------------------------
(***************************************************************************)
(* What a step of a handler has to show.                                   *)
(***************************************************************************)

\* The invariant.
OrganizationInv == TypeOK /\ WorkFits /\ OneGrant /\ AdminsKnown /\ AllStand

\* The handler goes to stage s with work w.
Arrives(h, s, w) == /\ s \in Stages /\ w \in Works
                    /\ Fits(s, w) /\ Alone(h, s, w)

\* A handler that arrives with fitting work disturbs nobody else's.
LEMMA ControlMoves ==
    ASSUME TypeOK, WorkFits, OneGrant, NEW h \in Handlers, NEW s, NEW w,
           Arrives(h, s, w), Goto(h, s, w), UNCHANGED instance
    PROVE  WorkFits' /\ OneGrant'
<1>1. /\ stage'[h] = s /\ work'[h] = w
      /\ \A k \in Handlers \ {h} : stage'[k] = stage[k] /\ work'[k] = work[k]
  BY GotoMoves
<1>2. \A k \in Handlers : Fits(stage'[k], work'[k])
  BY <1>1 DEF Arrives, WorkFits
<1>3. WorkFits' BY <1>2 DEF WorkFits, Fits
<1>4. ASSUME NEW k \in Handlers, NEW j \in Handlers \ {k},
             stage'[k] \in Granting, work'[k].request # "none", stage'[j] \in Granting
      PROVE  work'[j].request # work'[k].request
  <2>1. CASE k = h BY <2>1, <1>1, <1>4 DEF Arrives, Alone
  <2>2. CASE j = h
    <3>1. stage[k] = stage'[k] /\ work[k] = work'[k] BY <2>2, <1>1
    <3>2. Alone(h, s, w) /\ s \in Granting BY <2>2, <1>1, <1>4 DEF Arrives
    <3> QED BY <3>1, <3>2, <1>1, <1>4, <2>2 DEF Alone
  <2>3. CASE k # h /\ j # h BY <2>3, <1>1, <1>4 DEF OneGrant, Alone
  <2> QED BY <2>1, <2>2, <2>3
<1>5. OneGrant' BY <1>4 DEF OneGrant, Alone
<1> QED BY <1>3, <1>5

\* Why an access that is open after a step of a handler that goes to stage s
\* with work w is answered for.
Answered(a, s, w) ==
    \/ /\ Open(a)
       /\ a \in unrecorded => a \in unrecorded'
       /\ s = "close" => instance[w.request].access # a
    \/ a \in unrecorded'
    \/ s = "insert" /\ w.access = a

\* What answered for an access still does, unless the handler that moves is
\* about to close the row of it.
LEMMA StandsMoves ==
    ASSUME OrganizationInv, NEW h \in Handlers, NEW s, NEW w,
           Goto(h, s, w), UNCHANGED instance, stage[h] # "insert",
           NEW a \in AccessIds, Answered(a, s, w)
    PROVE  Stands(a)'
<1>1. /\ stage'[h] = s /\ work'[h] = w
      /\ \A k \in Handlers \ {h} : stage'[k] = stage[k] /\ work'[k] = work[k]
  BY GotoMoves DEF OrganizationInv
<1>2. CASE a \in unrecorded' BY <1>2 DEF Stands
<1>3. CASE s = "insert" /\ w.access = a BY <1>3, <1>1 DEF Stands
<1>4. CASE /\ Open(a) /\ (a \in unrecorded => a \in unrecorded')
           /\ s = "close" => instance[w.request].access # a
  <2>1. Stands(a) BY <1>4 DEF OrganizationInv, AllStand
  <2>2. CASE a \in unrecorded BY <2>2, <1>4 DEF Stands
  <2>3. CASE \E r \in Requests : Row(a, r)
    <3>1. PICK r \in Requests : Row(a, r) BY <2>3
    <3>2. instance'[r] = [status |-> "active", access |-> a] BY <3>1 DEF Row
    <3>3. instance[r].access = a BY <3>1 DEF Row
    <3>4. ASSUME NEW k \in Handlers, stage'[k] = "close" PROVE work'[k].request # r
      <4>1. CASE k = h BY <4>1, <1>1, <1>4, <3>3, <3>4
      <4>2. CASE k # h BY <4>2, <1>1, <3>1, <3>4 DEF Row
      <4> QED BY <4>1, <4>2
    <3>5. Row(a, r)' BY <3>2, <3>4 DEF Row
    <3> QED BY <3>5 DEF Stands
  <2>4. CASE \E k \in Handlers : stage[k] = "insert" /\ work[k].access = a
    <3>1. PICK k \in Handlers : stage[k] = "insert" /\ work[k].access = a BY <2>4
    <3>2. stage'[k] = "insert" /\ work'[k].access = a BY <3>1, <1>1
    <3> QED BY <3>2 DEF Stands
  <2> QED BY <2>1, <2>2, <2>3, <2>4 DEF Stands
<1> QED BY <1>2, <1>3, <1>4 DEF Answered

\* A step of a handler that writes no row keeps the invariant when all that
\* is open after it is answered for.
LEMMA HandlerStep ==
    ASSUME OrganizationInv, NEW h \in Handlers, NEW s, NEW w,
           Goto(h, s, w), UNCHANGED instance, stage[h] # "insert",
           Arrives(h, s, w), OrganizationOK', AdminsKnown',
           unrecorded' \subseteq AccessIds,
           \A a \in AccessIds : Open(a)' => Answered(a, s, w)
    PROVE  OrganizationInv'
<1>1. WorkFits' /\ OneGrant' BY ControlMoves DEF OrganizationInv
<1>2. stage' \in [Handlers -> Stages] /\ work' \in [Handlers -> Works]
  BY GotoTypes DEF OrganizationInv, Arrives
<1>3. instance' \in [Requests -> Rows] BY TypeParts DEF OrganizationInv
<1>4. TypeOK' BY <1>2, <1>3, TypePartsNext
<1>5. ASSUME NEW a \in AccessIds, Open(a)' PROVE Stands(a)'
  BY <1>5, StandsMoves
<1> QED BY <1>1, <1>4, <1>5 DEF OrganizationInv, AllStand

\* The handler changes nothing of the organization.
LEMMA QuietStep ==
    ASSUME OrganizationInv, NEW h \in Handlers, NEW s, NEW w,
           Goto(h, s, w), UNCHANGED <<organization, instance>>, stage[h] # "insert",
           s = "close" => ~Open(instance[w.request].access), Arrives(h, s, w)
    PROVE  OrganizationInv'
<1>1. OrganizationOK' /\ unrecorded' \subseteq AccessIds
  BY TypeParts DEF OrganizationInv, organization, OrganizationOK
<1>2. AdminsKnown' BY DEF OrganizationInv, AdminsKnown, OnlyConsoleAdmins, organization
<1>3. ASSUME NEW a \in AccessIds, Open(a)' PROVE Answered(a, s, w)
  BY <1>3 DEF Answered, Open, organization
<1>4. UNCHANGED instance OBVIOUS
<1> QED BY <1>1, <1>2, <1>3, <1>4, HandlerStep

\* A handler that ends fits any state.
LEMMA EndArrives ==
    ASSUME NEW h \in Handlers
    PROVE  Arrives(h, "idle", NoWork)
BY Constant DEF Arrives, Fits, Alone, Stages, Granting, Revoking

\* Ending without a call keeps the invariant.
LEMMA ReturnStep ==
    ASSUME OrganizationInv, NEW h \in Handlers, Return(h),
           UNCHANGED <<organization, instance>>, stage[h] # "insert"
    PROVE  OrganizationInv'
BY EndArrives, QuietStep DEF Return

\* The steps that leave the rows and the handlers alone.
LEMMA StillStep ==
    ASSUME OrganizationInv, UNCHANGED <<instance, control>>,
           OrganizationOK', AdminsKnown', unrecorded' \subseteq AccessIds,
           \A a \in AccessIds : Open(a)' =>
               a \in unrecorded' \/ (Open(a) /\ (a \in unrecorded => a \in unrecorded'))
    PROVE  OrganizationInv'
<1>1. UNCHANGED <<instance, stage, work>> BY DEF control
<1>2. TypeOK' BY <1>1, TypeParts, TypePartsNext DEF OrganizationInv
<1>3. WorkFits' /\ OneGrant' BY <1>1 DEF OrganizationInv, WorkFits, OneGrant, Fits, Alone
<1>4. ASSUME NEW a \in AccessIds, Open(a)' PROVE Stands(a)'
  <2>1. CASE a \in unrecorded' BY <2>1 DEF Stands
  <2>2. CASE Open(a) /\ (a \in unrecorded => a \in unrecorded')
    <3>1. Stands(a) BY <2>2 DEF OrganizationInv, AllStand
    <3> QED BY <3>1, <2>2, <1>1 DEF Stands, Row
  <2> QED BY <1>4, <2>1, <2>2
<1> QED BY <1>2, <1>3, <1>4 DEF OrganizationInv, AllStand

-----------------------------------------------------------------------------
(***************************************************************************)
(* The steps of a grant.                                                   *)
(***************************************************************************)

\* What is known of a handler that is at work.
LEMMA AtWork ==
    ASSUME OrganizationInv, NEW h \in Handlers
    PROVE  /\ stage[h] \in Stages /\ work[h] \in Works
           /\ Fits(stage[h], work[h]) /\ Alone(h, stage[h], work[h])
           /\ work[h].request \in Requests \cup {"none"} /\ work[h].access \in AccessIds
           /\ work[h].role \in WorkspaceRoles \cup {"none"}
BY TypeParts DEF OrganizationInv, WorkFits, OneGrant, Works

\* A grant that goes on with the same request, for a membership or an
\* insert.
LEMMA GrantGoesOn ==
    ASSUME OrganizationInv, NEW h \in Handlers, stage[h] \in Granting,
           NEW s \in Granting, NEW w \in Works, w.request = work[h].request,
           s \in {"users", "workspaces", "insert"} => w.request # "none",
           s \in {"lookup", "add", "update"} => w.access.kind = "ws"
    PROVE  Arrives(h, s, w)
<1>1. w.request \in Requests \cup {"none"} BY DEF Works
<1>2. Fits(s, w) BY <1>1, AtWork DEF Fits, Granting, Revoking
<1>3. Alone(h, s, w) BY AtWork DEF Alone
<1> QED BY <1>2, <1>3 DEF Arrives, Granting, Stages

\* The start of a grant: the request has no row and no other handler.
LEMMA ProvisionAccessStep ==
    ASSUME OrganizationInv, NEW h \in Handlers, ProvisionAccess(h)
    PROVE  OrganizationInv'
<1>1. PICK r \in Requests :
        /\ instance[r].status = "none" /\ \A k \in Handlers : work[k].request # r
        /\ IF SpecOf[r].ws = NoWorkspace
           THEN Goto(h, "insert", [NoWork EXCEPT !.request = r])
           ELSE Goto(h, "users", [NoWork EXCEPT !.request = r])
  BY DEF ProvisionAccess
<1> DEFINE w == [NoWork EXCEPT !.request = r]
<1>2. w \in Works /\ w.request = r BY Constant DEF NoWork, Works
<1> HIDE DEF w
<1>3. PICK s \in {"insert", "users"} : Goto(h, s, w) BY <1>1 DEF w
<1>4. Arrives(h, s, w)
  BY <1>1, <1>2, <1>3 DEF Arrives, Fits, Alone, Granting, Revoking, Stages
<1>5. UNCHANGED <<organization, instance>> /\ stage[h] = "idle" BY DEF ProvisionAccess, Idle
<1> QED BY <1>3, <1>4, <1>5, QuietStep

\* The owner is a user of the organization, or is invited.
LEMMA GrantFindUserStep ==
    ASSUME OrganizationInv, NEW h \in Handlers, GrantFindUser(h)
    PROVE  OrganizationInv'
<1> DEFINE r == work[h].request
           owner == SpecOf[r].owner
           wr == [work[h] EXCEPT !.role = RoleFor(orgRole[owner], SpecOf[r].role)]
           wi == [work[h] EXCEPT !.access = InviteAccess(NewInvite)]
<1>1. stage[h] = "users" /\ UNCHANGED instance BY DEF GrantFindUser
<1>2. r \in Requests /\ r # "none" BY <1>1, AtWork, Constant DEF Fits
<1>3. owner \in Emails /\ SpecOf[r].role \in WorkspaceRoles BY <1>2, Constant
<1>4. CASE Goto(h, "workspaces", wr) /\ UNCHANGED organization
  <2>1. RoleFor(orgRole[owner], SpecOf[r].role) \in WorkspaceRoles \cup {"none"}
    BY <1>3 DEF RoleFor, WorkspaceRoles
  <2>2. wr \in Works /\ wr.request = r BY <2>1, AtWork DEF Works
  <2> HIDE DEF wr
  <2>3. Arrives(h, "workspaces", wr) BY <1>1, <1>2, <2>2, GrantGoesOn DEF Granting
  <2> QED BY <1>1, <1>4, <2>3, QuietStep
<1>5. CASE InviteUser(owner, "developer") /\ Goto(h, "insert", wi) /\ UNCHANGED unrecorded
  <2>1. /\ OrganizationOK' /\ AdminsKnown' /\ NewInvite \in Invites
        /\ \A a \in AccessIds : Open(a)' => Open(a) \/ a = InviteAccess(NewInvite)
    BY <1>3, <1>5, InviteUserStep DEF OrganizationInv, OrgInv, OrgRoles
  <2>2. wi \in Works /\ wi.request = r /\ wi.access = InviteAccess(NewInvite)
    BY <2>1, AtWork, Ids DEF Works
  <2> HIDE DEF wi
  <2>3. Arrives(h, "insert", wi) BY <1>1, <1>2, <2>2, GrantGoesOn DEF Granting
  <2>4. unrecorded' \subseteq AccessIds BY <1>5, TypeParts DEF OrganizationInv
  <2>5. ASSUME NEW a \in AccessIds, Open(a)' PROVE Answered(a, "insert", wi)
    BY <1>5, <2>1, <2>2, <2>5 DEF Answered
  <2> QED BY <1>1, <1>5, <2>1, <2>3, <2>4, <2>5, HandlerStep
<1> QED BY <1>4, <1>5 DEF GrantFindUser

\* The workspace is an active one and the role is allowed, or the grant ends.
LEMMA GrantFindWorkspaceStep ==
    ASSUME OrganizationInv, NEW h \in Handlers, GrantFindWorkspace(h)
    PROVE  OrganizationInv'
<1> DEFINE r == work[h].request
           w == [work[h] EXCEPT !.access = MembershipOf(SpecOf[r].ws, SpecOf[r].owner)]
<1>1. stage[h] = "workspaces" /\ UNCHANGED <<organization, instance>>
  BY DEF GrantFindWorkspace
<1>2. r \in Requests /\ r # "none" BY <1>1, AtWork, Constant DEF Fits
<1>3. CASE Goto(h, "lookup", w) /\ SpecOf[r].ws \in ListWorkspaces
  <2>1. SpecOf[r].ws \in Workspaces /\ SpecOf[r].owner \in Emails
    BY <1>2, <1>3, Constant DEF ListWorkspaces
  <2>2. w \in Works /\ w.request = r /\ w.access.kind = "ws"
    BY <2>1, AtWork, Ids DEF Works
  <2> HIDE DEF w
  <2>3. Arrives(h, "lookup", w) BY <1>1, <2>2, GrantGoesOn DEF Granting
  <2> QED BY <1>1, <1>3, <2>3, QuietStep
<1>4. CASE Return(h) BY <1>1, <1>4, ReturnStep
<1> QED BY <1>3, <1>4 DEF GrantFindWorkspace

\* The user is looked up again, with the role of now.
LEMMA GrantLookupStep ==
    ASSUME OrganizationInv, NEW h \in Handlers, GrantLookup(h)
    PROVE  OrganizationInv'
<1>1. stage[h] = "lookup" /\ UNCHANGED <<organization, instance>> BY DEF GrantLookup
<1>2. CASE Proceed(h, "add")
  <2>1. Arrives(h, "add", work[h])
    BY <1>1, AtWork, GrantGoesOn DEF Granting, Fits
  <2> QED BY <1>1, <1>2, <2>1, QuietStep DEF Proceed
<1>3. CASE Return(h) BY <1>1, <1>3, ReturnStep
<1> QED BY <1>2, <1>3 DEF GrantLookup

\* The membership is given, and either recorded by the next step or not
\* recorded at all.
LEMMA GrantedStep ==
    ASSUME OrganizationInv, NEW h \in Handlers, stage[h] \in {"add", "update"},
           UNCHANGED instance, Granted(h),
           SetMember(work[h].access.ws, work[h].access.user, work[h].role)
    PROVE  OrganizationInv'
<1> DEFINE a0 == work[h].access
<1>1. /\ a0 \in AccessIds /\ a0.ws \in Workspaces /\ a0.user \in Emails
      /\ a0 = MembershipOf(a0.ws, a0.user)
  BY AtWork, Ids DEF Fits
<1>2. /\ OrganizationOK' /\ AdminsKnown'
      /\ \A a \in AccessIds : Open(a)' => Open(a) \/ a = a0
  BY <1>1, AtWork, MemberStep DEF SetMember, OrganizationInv, OrgInv
<1>3. unrecorded \subseteq AccessIds BY TypeParts DEF OrganizationInv
<1>4. CASE work[h].request = "none"
  <2>1. unrecorded' = unrecorded \cup {a0} /\ Goto(h, "idle", NoWork)
    BY <1>4 DEF Granted, Return
  <2>2. ASSUME NEW a \in AccessIds, Open(a)' PROVE Answered(a, "idle", NoWork)
    BY <1>2, <2>1, <2>2 DEF Answered
  <2>3. unrecorded' \subseteq AccessIds BY <1>1, <1>3, <2>1
  <2> QED BY <1>2, <2>1, <2>2, <2>3, EndArrives, HandlerStep
<1>5. CASE work[h].request # "none"
  <2>1. UNCHANGED unrecorded /\ Goto(h, "insert", work[h])
    BY <1>5 DEF Granted, Proceed
  <2>2. ASSUME NEW a \in AccessIds, Open(a)' PROVE Answered(a, "insert", work[h])
    BY <1>2, <2>1, <2>2 DEF Answered
  <2>3. Arrives(h, "insert", work[h]) BY <1>5, AtWork, GrantGoesOn DEF Granting
  <2>4. unrecorded' \subseteq AccessIds BY <1>3, <2>1
  <2> QED BY <1>2, <2>1, <2>2, <2>3, <2>4, HandlerStep
<1> QED BY <1>4, <1>5

\* The owner becomes a member, or is one already.
LEMMA GrantAddStep ==
    ASSUME OrganizationInv, NEW h \in Handlers, GrantAdd(h)
    PROVE  OrganizationInv'
<1>1. stage[h] = "add" /\ UNCHANGED instance BY DEF GrantAdd
<1>2. CASE SetMember(work[h].access.ws, work[h].access.user, work[h].role) /\ Granted(h)
  BY <1>1, <1>2, GrantedStep
<1>3. CASE Proceed(h, "update") /\ UNCHANGED organization
  <2>1. Arrives(h, "update", work[h])
    BY <1>1, AtWork, GrantGoesOn DEF Granting, Fits
  <2> QED BY <1>1, <1>3, <2>1, QuietStep DEF Proceed
<1>4. CASE Return(h) /\ UNCHANGED organization BY <1>1, <1>4, ReturnStep
<1> QED BY <1>2, <1>3, <1>4 DEF GrantAdd

\* The role of a member is changed.
LEMMA GrantUpdateStep ==
    ASSUME OrganizationInv, NEW h \in Handlers, GrantUpdate(h)
    PROVE  OrganizationInv'
<1>1. stage[h] = "update" /\ UNCHANGED instance BY DEF GrantUpdate
<1>2. CASE SetMember(work[h].access.ws, work[h].access.user, work[h].role) /\ Granted(h)
  BY <1>1, <1>2, GrantedStep
<1>3. CASE Return(h) /\ UNCHANGED organization BY <1>1, <1>3, ReturnStep
<1> QED BY <1>2, <1>3 DEF GrantUpdate

-----------------------------------------------------------------------------
(***************************************************************************)
(* The steps that write a row.                                             *)
(***************************************************************************)

\* The row fits what the other handlers do.
OthersFit(h, r, row) ==
    \A k \in Handlers \ {h} :
        /\ stage[k] \in Granting /\ work[k].request # "none" => work[k].request # r
        /\ stage[k] \in Revoking /\ work[k].request = r
             => row.status \in {"active", "revoked"} /\ row.access = work[k].access

\* The row of a request is written and the handler ends.
LEMMA WriteStep ==
    ASSUME OrganizationInv, NEW h \in Handlers, Return(h),
           NEW r \in Requests, NEW row \in Rows, instance' = [instance EXCEPT ![r] = row],
           UNCHANGED organization,
           OthersFit(h, r, row)
    PROVE  TypeOK' /\ WorkFits' /\ OneGrant' /\ AdminsKnown'
<1>1. Goto(h, "idle", NoWork) BY DEF Return
<1>2. /\ stage'[h] = "idle" /\ work'[h] = NoWork
      /\ \A k \in Handlers \ {h} : stage'[k] = stage[k] /\ work'[k] = work[k]
  BY <1>1, GotoMoves DEF OrganizationInv
<1>3. instance' \in [Requests -> Rows] BY TypeParts DEF OrganizationInv
<1>4. TypeOK'
  <2>1. OrganizationOK' /\ unrecorded' \subseteq AccessIds
    BY TypeParts DEF OrganizationInv, organization, OrganizationOK
  <2>2. stage' \in [Handlers -> Stages] /\ work' \in [Handlers -> Works]
    BY <1>1, GotoTypes, EndArrives DEF OrganizationInv, Arrives
  <2> QED BY <1>3, <2>1, <2>2, TypePartsNext
<1>5. instance'[r] = row /\ \A q \in Requests \ {r} : instance'[q] = instance[q]
  BY TypeParts DEF OrganizationInv
<1>6. ASSUME NEW k \in Handlers PROVE Fits(stage[k], work[k])'
  <2>1. CASE k = h BY <1>2, <2>1, Constant DEF Fits, Granting, Revoking
  <2>2. CASE k # h
    <3>1. stage'[k] = stage[k] /\ work'[k] = work[k] BY <1>2, <2>2
    <3>2. Fits(stage[k], work[k]) /\ work[k].request \in Requests \cup {"none"} BY AtWork
    <3>3. stage[k] \in Granting /\ work[k].request # "none"
            => instance'[work[k].request].status = "none"
      BY <1>5, <2>2, <3>2 DEF Fits, OthersFit
    <3>4. stage[k] \in Revoking
            => /\ instance'[work[k].request].status \in {"active", "revoked"}
               /\ instance'[work[k].request].access = work[k].access
      BY <1>5, <2>2, <3>2 DEF Fits, OthersFit
    <3> QED BY <3>1, <3>2, <3>3, <3>4 DEF Fits
  <2> QED BY <2>1, <2>2
<1>7. WorkFits' BY <1>6 DEF WorkFits
<1>8. ASSUME NEW k \in Handlers PROVE Alone(k, stage[k], work[k])'
  <2>1. CASE k = h BY <1>2, <2>1, Constant DEF Alone, Granting
  <2>2. CASE k # h BY <1>2, <2>2, AtWork, Constant DEF Alone, Granting
  <2> QED BY <2>1, <2>2
<1>9. AdminsKnown' BY DEF OrganizationInv, AdminsKnown, OnlyConsoleAdmins, organization
<1> QED BY <1>4, <1>7, <1>8, <1>9 DEF OneGrant

\* The row takes over from the handler, or the access goes unrecorded.
LEMMA InsertInstanceStep ==
    ASSUME OrganizationInv, NEW h \in Handlers, InsertInstance(h)
    PROVE  OrganizationInv'
<1>0. PICK r \in Requests \cup {"none"}, a0 \in AccessIds :
        r = work[h].request /\ a0 = work[h].access
  BY AtWork
<1> DEFINE row == [status |-> "active", access |-> a0]
<1>1. stage[h] = "insert" /\ Return(h) BY DEF InsertInstance
<1>2. UNCHANGED <<orgRole, invite, workspace, member, console>> BY DEF InsertInstance
<1>3. /\ r \in Requests /\ r # "none" /\ a0 \in AccessIds /\ instance[r].status = "none"
  BY <1>0, <1>1, AtWork, Constant DEF Fits, Granting
<1>4. /\ stage'[h] = "idle"
      /\ \A k \in Handlers \ {h} : stage'[k] = stage[k] /\ work'[k] = work[k]
  BY <1>1, GotoMoves DEF OrganizationInv, Return
<1>5. \A a \in AccessIds : Open(a)' => Open(a) BY <1>2 DEF Open
<1>6. CASE instance' = [instance EXCEPT ![r] = row] /\ UNCHANGED unrecorded
  <2>1. row \in Rows /\ row.status = "active" /\ row.access = a0 BY <1>3 DEF Rows
  <2>2. UNCHANGED organization BY <1>2, <1>6 DEF organization
  <2>3. ASSUME NEW k \in Handlers \ {h}
        PROVE  /\ stage[k] \in Granting /\ work[k].request # "none" => work[k].request # r
               /\ stage[k] \in Revoking => work[k].request # r
    BY <1>0, <1>1, <1>3, AtWork DEF Alone, Granting, Fits
  <2>4. TypeOK' /\ WorkFits' /\ OneGrant' /\ AdminsKnown'
    <3>1. OthersFit(h, r, row) BY <2>3 DEF OthersFit
    <3> HIDE DEF row
    <3> QED BY <1>1, <1>3, <1>6, <2>1, <2>2, <3>1, WriteStep
  <2>5. instance'[r] = row /\ \A q \in Requests \ {r} : instance'[q] = instance[q]
    BY <1>3, <1>6, TypeParts DEF OrganizationInv
  <2>6. Row(a0, r)'
    BY <1>3, <1>4, <2>3, <2>5 DEF Row, Revoking
  <2>7. ASSUME NEW a \in AccessIds, Open(a)' PROVE Stands(a)'
    <3>1. Stands(a) BY <1>5, <2>7 DEF OrganizationInv, AllStand
    <3>2. CASE a = a0 BY <1>3, <2>6, <3>2 DEF Stands
    <3>3. CASE a \in unrecorded BY <1>6, <3>3 DEF Stands
    <3>4. CASE \E q \in Requests : Row(a, q)
      <4>1. PICK q \in Requests : Row(a, q) BY <3>4
      <4>2. q # r BY <4>1, <1>3 DEF Row
      <4>3. Row(a, q)' BY <4>1, <4>2, <1>4, <2>5 DEF Row
      <4> QED BY <4>3 DEF Stands
    <3>5. CASE a # a0 /\ \E k \in Handlers : stage[k] = "insert" /\ work[k].access = a
      <4>1. PICK k \in Handlers : stage[k] = "insert" /\ work[k].access = a BY <3>5
      <4>2. k # h BY <1>0, <4>1, <3>5
      <4> QED BY <4>1, <4>2, <1>4 DEF Stands
    <3> QED BY <3>1, <3>2, <3>3, <3>4, <3>5 DEF Stands
  <2> QED BY <2>4, <2>7 DEF OrganizationInv, AllStand
<1>7. CASE unrecorded' = unrecorded \cup {a0} /\ UNCHANGED instance
  <2>1. Goto(h, "idle", NoWork) BY <1>1 DEF Return
  <2>2. TypeOK'
    <3>1. OrganizationOK' BY <1>2, TypeParts DEF OrganizationInv, OrganizationOK
    <3>2. unrecorded' \subseteq AccessIds /\ instance' \in [Requests -> Rows]
      BY <1>3, <1>7, TypeParts DEF OrganizationInv
    <3>3. stage' \in [Handlers -> Stages] /\ work' \in [Handlers -> Works]
      BY <2>1, GotoTypes, EndArrives DEF OrganizationInv, Arrives
    <3> QED BY <3>1, <3>2, <3>3, TypePartsNext
  <2>3. WorkFits' /\ OneGrant'
    BY <1>7, <2>1, ControlMoves, EndArrives DEF OrganizationInv
  <2>4. AdminsKnown' BY <1>2 DEF OrganizationInv, AdminsKnown, OnlyConsoleAdmins
  <2>5. ASSUME NEW a \in AccessIds, Open(a)' PROVE Stands(a)'
    <3>1. Stands(a) BY <1>5, <2>5 DEF OrganizationInv, AllStand
    <3>2. CASE a = a0 \/ a \in unrecorded BY <1>7, <3>2 DEF Stands
    <3>3. CASE \E q \in Requests : Row(a, q)
      <4>1. PICK q \in Requests : Row(a, q) BY <3>3
      <4>2. Row(a, q)' BY <4>1, <1>4, <1>7 DEF Row
      <4> QED BY <4>2 DEF Stands
    <3>4. CASE a # a0 /\ \E k \in Handlers : stage[k] = "insert" /\ work[k].access = a
      <4>1. PICK k \in Handlers : stage[k] = "insert" /\ work[k].access = a BY <3>4
      <4>2. k # h BY <1>0, <4>1, <3>4
      <4> QED BY <4>1, <4>2, <1>4 DEF Stands
    <3> QED BY <3>1, <3>2, <3>3, <3>4 DEF Stands
  <2> QED BY <2>2, <2>3, <2>4, <2>5 DEF OrganizationInv, AllStand
<1> QED BY <1>0, <1>6, <1>7 DEF InsertInstance

\* The row of an access that has been taken away is closed.
LEMMA CloseInstanceStep ==
    ASSUME OrganizationInv, NEW h \in Handlers, CloseInstance(h)
    PROVE  OrganizationInv'
<1>0. PICK r \in Requests \cup {"none"} : r = work[h].request BY AtWork
<1>1. stage[h] = "close" /\ Return(h) /\ UNCHANGED organization BY DEF CloseInstance
<1>2. r \in Requests /\ instance[r].status \in {"active", "revoked"}
  BY <1>0, <1>1, AtWork DEF Fits, Revoking
<1>3. instance[r] \in Rows BY <1>2, TypeParts DEF OrganizationInv
<1>4. [instance[r] EXCEPT !.status = "revoked"] \in Rows BY <1>3 DEF Rows
<1>5. PICK row \in Rows : row = [instance[r] EXCEPT !.status = "revoked"] BY <1>4
<1>6. instance' = [instance EXCEPT ![r] = row] BY <1>0, <1>5 DEF CloseInstance
<1>a. row.status = "revoked" /\ row.access = instance[r].access BY <1>3, <1>5 DEF Rows
<1>b. OthersFit(h, r, row) BY <1>2, <1>a, AtWork DEF Fits, OthersFit
<1>7. TypeOK' /\ WorkFits' /\ OneGrant' /\ AdminsKnown'
  BY <1>1, <1>2, <1>6, <1>b, WriteStep
<1>8. /\ stage'[h] = "idle"
      /\ \A k \in Handlers \ {h} : stage'[k] = stage[k] /\ work'[k] = work[k]
  BY <1>1, GotoMoves DEF OrganizationInv, Return
<1>9. ASSUME NEW a \in AccessIds, Open(a)' PROVE Stands(a)'
  <2>1. Stands(a) BY <1>1, <1>9 DEF OrganizationInv, AllStand, Open, organization
  <2>2. CASE a \in unrecorded BY <1>1, <2>2 DEF Stands, organization
  <2>3. CASE \E q \in Requests : Row(a, q)
    <3>1. PICK q \in Requests : Row(a, q) BY <2>3
    <3>2. q # r BY <1>0, <3>1, <1>1 DEF Row
    <3>3. instance'[q] = instance[q] BY <3>2, <1>6, TypeParts DEF OrganizationInv
    <3>4. Row(a, q)' BY <3>1, <3>3, <1>8 DEF Row
    <3> QED BY <3>4 DEF Stands
  <2>4. CASE \E k \in Handlers : stage[k] = "insert" /\ work[k].access = a
    <3>1. PICK k \in Handlers : stage[k] = "insert" /\ work[k].access = a BY <2>4
    <3>2. k # h BY <3>1, <1>1
    <3> QED BY <3>1, <3>2, <1>8 DEF Stands
  <2> QED BY <2>1, <2>2, <2>3, <2>4 DEF Stands
<1> QED BY <1>7, <1>9 DEF OrganizationInv, AllStand

-----------------------------------------------------------------------------
(***************************************************************************)
(* The steps of a revoke.                                                  *)
(***************************************************************************)

\* The start of a revoke: the handler holds the access of an active row.
LEMMA RevokeAIInstanceStep ==
    ASSUME OrganizationInv, NEW h \in Handlers, NEW r \in Requests, RevokeAIInstance(h, r)
    PROVE  OrganizationInv'
<1> DEFINE w == [NoWork EXCEPT !.request = r, !.access = instance[r].access]
<1>1. /\ stage[h] = "idle" /\ instance[r].status = "active"
      /\ Goto(h, "revoke", w) /\ UNCHANGED <<organization, instance>>
  BY DEF RevokeAIInstance, Idle
<1>2. instance[r].access \in AccessIds BY TypeParts DEF OrganizationInv, Rows
<1>3. w \in Works /\ w.request = r /\ w.access = instance[r].access
  BY <1>2, Constant DEF NoWork, Works
<1> HIDE DEF w
<1>4. Arrives(h, "revoke", w)
  BY <1>1, <1>3 DEF Arrives, Fits, Alone, Granting, Revoking, Stages
<1> QED BY <1>1, <1>4, QuietStep

\* A revoke goes on with the row it works on.
LEMMA RevokeGoesOn ==
    ASSUME OrganizationInv, NEW h \in Handlers, stage[h] \in Revoking,
           NEW s \in Revoking, s = "reset" => work[h].access.kind = "ws"
    PROVE  Arrives(h, s, work[h]) /\ instance[work[h].request].access = work[h].access
BY AtWork DEF Arrives, Fits, Alone, Granting, Revoking, Stages

\* The access is gone when the row is about to be closed.
LEMMA TakenStep ==
    ASSUME OrganizationInv, NEW h \in Handlers, stage[h] \in Revoking,
           UNCHANGED instance, Proceed(h, "close"), OrganizationOK', AdminsKnown', Closed,
           NEW a0, a0 = work[h].access, unrecorded' = unrecorded \ {a0}, ~Open(a0)'
    PROVE  OrganizationInv'
<1>1. /\ Arrives(h, "close", work[h]) /\ instance[work[h].request].access = a0
  BY RevokeGoesOn DEF Revoking
<1>2. unrecorded' \subseteq AccessIds BY TypeParts DEF OrganizationInv
<1>3. ASSUME NEW a \in AccessIds, Open(a)' PROVE Answered(a, "close", work[h])
  <2>1. a # a0
    <3>1. CASE a = a0 BY <3>1, <1>3 DEF Open
    <3> QED BY <3>1
  <2> QED BY <1>1, <1>3, <2>1 DEF Closed, Answered
<1>4. stage[h] # "insert" BY DEF Revoking
<1> QED BY <1>1, <1>2, <1>3, <1>4, HandlerStep DEF Proceed

\* A membership or an invite is taken away, or the call fails.
LEMMA RevokeAccessStep ==
    ASSUME OrganizationInv, NEW h \in Handlers, RevokeAccess(h)
    PROVE  OrganizationInv'
<1>1. stage[h] = "revoke" /\ stage[h] \in Revoking /\ stage[h] # "insert" /\ UNCHANGED instance
  BY DEF RevokeAccess, Revoking
<1>2. PICK a0 \in AccessIds : a0 = work[h].access BY AtWork
<1>3. OrgInv BY DEF OrganizationInv, OrgInv
<1>4. CASE /\ a0.kind = "ws" /\ RemoveWorkspaceMember(a0.ws, a0.user)
           /\ unrecorded' = unrecorded \ {a0} /\ Proceed(h, "close")
  <2>1. a0.ws \in Workspaces /\ a0.user \in Emails /\ a0 = MembershipOf(a0.ws, a0.user)
    BY <1>4, Ids
  <2>2. member' = [member EXCEPT ![a0.ws][a0.user] = "none"]
        /\ UNCHANGED <<orgRole, invite, workspace, console>>
    BY <1>4 DEF RemoveWorkspaceMember
  <2>3. OrganizationOK' /\ AdminsKnown' /\ Closed /\ ~Open(MembershipOf(a0.ws, a0.user))'
    BY <1>3, <2>1, <2>2, MemberStep
  <2>4. ~Open(a0)' BY <2>1, <2>3
  <2> QED BY <1>1, <1>2, <1>4, <2>3, <2>4, TakenStep
<1>5. CASE a0.kind = "ws" /\ Proceed(h, "reset") /\ UNCHANGED organization
  <2>1. Arrives(h, "reset", work[h]) BY <1>1, <1>2, <1>5, RevokeGoesOn DEF Revoking
  <2> QED BY <1>1, <1>5, <2>1, QuietStep DEF Proceed
<1>6. CASE Return(h) /\ UNCHANGED organization BY <1>1, <1>6, ReturnStep
<1>7. CASE /\ a0.kind = "invite" /\ DeleteInvite(a0.invite)
           /\ unrecorded' = unrecorded \ {a0} /\ Proceed(h, "close")
  <2>1. a0.invite \in Invites /\ a0 = InviteAccess(a0.invite) BY <1>7, Ids
  <2>2. OrganizationOK' /\ AdminsKnown' /\ Closed /\ ~Open(InviteAccess(a0.invite))'
    BY <1>3, <1>7, <2>1, DeleteInviteStep
  <2>3. ~Open(a0)' BY <2>1, <2>2
  <2> QED BY <1>1, <1>2, <1>7, <2>2, <2>3, TakenStep
<1>8. CASE a0.kind = "record" /\ Proceed(h, "close") /\ UNCHANGED organization
  <2>1. Arrives(h, "close", work[h]) /\ instance[work[h].request].access = a0
    BY <1>1, <1>2, RevokeGoesOn DEF Revoking
  <2>2. ~Open(instance[work[h].request].access) BY <1>8, <2>1 DEF Open
  <2> QED BY <1>1, <1>8, <2>1, <2>2, QuietStep DEF Proceed
<1> QED BY <1>2, <1>4, <1>5, <1>6, <1>7, <1>8 DEF RevokeAccess

\* A billing member is reset in place of being removed.
LEMMA ResetBillingStep ==
    ASSUME OrganizationInv, NEW h \in Handlers, ResetBilling(h)
    PROVE  OrganizationInv'
<1>1. stage[h] = "reset" /\ stage[h] \in Revoking /\ stage[h] # "insert" /\ UNCHANGED instance
  BY DEF ResetBilling, Revoking
<1>2. PICK a0 \in AccessIds : a0 = work[h].access BY AtWork
<1>3. CASE /\ SetMember(a0.ws, a0.user, "workspace_billing")
           /\ unrecorded' = unrecorded \ {a0} /\ Proceed(h, "close")
  <2>1. a0.ws \in Workspaces /\ a0.user \in Emails /\ a0 = MembershipOf(a0.ws, a0.user)
    BY <1>1, <1>2, AtWork, Ids DEF Fits
  <2>2. member' = [member EXCEPT ![a0.ws][a0.user] = "workspace_billing"]
        /\ UNCHANGED <<orgRole, invite, workspace, console>>
    BY <1>3 DEF SetMember
  <2>3. OrganizationOK' /\ AdminsKnown' /\ Closed /\ ~Open(MembershipOf(a0.ws, a0.user))'
    BY <2>1, <2>2, MemberStep DEF OrganizationInv, OrgInv, WorkspaceRoles
  <2>4. ~Open(a0)' BY <2>1, <2>3
  <2> QED BY <1>1, <1>2, <1>3, <2>3, <2>4, TakenStep
<1>4. CASE Return(h) /\ UNCHANGED organization BY <1>1, <1>4, ReturnStep
<1> QED BY <1>2, <1>3, <1>4 DEF ResetBilling

\* A call that fails ends the handler.
LEMMA CallErrorStep ==
    ASSUME OrganizationInv, NEW h \in Handlers, CallError(h)
    PROVE  OrganizationInv'
BY ReturnStep DEF CallError

\* A call that opens an access nobody answers for is remembered, and one that
\* takes an access closes it.
LEMMA CallLostStep ==
    ASSUME OrganizationInv, NEW h \in Handlers, CallLost(h)
    PROVE  OrganizationInv'
<1>1. Goto(h, "idle", NoWork) /\ UNCHANGED instance /\ Arrives(h, "idle", NoWork)
  BY EndArrives DEF CallLost, Return
<1>2. OrgInv /\ unrecorded \subseteq AccessIds
  BY TypeParts DEF OrganizationInv, OrgInv
<1>3. PICK a0 \in AccessIds : a0 = work[h].access BY AtWork
<1>4. CASE /\ stage[h] = "users"
           /\ InviteUser(SpecOf[work[h].request].owner, "developer")
           /\ unrecorded' = unrecorded \cup {InviteAccess(NewInvite)}
  <2>1. SpecOf[work[h].request].owner \in Emails BY <1>4, AtWork, Constant DEF Fits
  <2>2. /\ OrganizationOK' /\ AdminsKnown' /\ NewInvite \in Invites
        /\ \A a \in AccessIds : Open(a)' => Open(a) \/ a = InviteAccess(NewInvite)
    BY <1>2, <1>4, <2>1, InviteUserStep DEF OrgRoles
  <2>3. unrecorded' \subseteq AccessIds BY <1>2, <1>4, <2>2, Ids
  <2>4. ASSUME NEW a \in AccessIds, Open(a)' PROVE Answered(a, "idle", NoWork)
    BY <1>4, <2>2, <2>4 DEF Answered
  <2> QED BY <1>1, <1>4, <2>2, <2>3, <2>4, HandlerStep
<1>5. CASE /\ stage[h] \in {"add", "update"}
           /\ SetMember(a0.ws, a0.user, work[h].role)
           /\ unrecorded' = unrecorded \cup {a0}
  <2>1. a0.ws \in Workspaces /\ a0.user \in Emails /\ a0 = MembershipOf(a0.ws, a0.user)
    BY <1>3, <1>5, AtWork, Ids DEF Fits
  <2>2. /\ OrganizationOK' /\ AdminsKnown'
        /\ \A a \in AccessIds : Open(a)' => Open(a) \/ a = a0
    BY <1>2, <1>5, <2>1, AtWork, MemberStep DEF SetMember
  <2>3. unrecorded' \subseteq AccessIds BY <1>2, <1>5
  <2>4. ASSUME NEW a \in AccessIds, Open(a)' PROVE Answered(a, "idle", NoWork)
    BY <1>5, <2>2, <2>4 DEF Answered
  <2> QED BY <1>1, <1>5, <2>2, <2>3, <2>4, HandlerStep
<1>6. CASE /\ stage[h] \in Revoking
           /\ OrganizationOK' /\ AdminsKnown' /\ Closed /\ ~Open(a0)'
           /\ unrecorded' = unrecorded \ {a0}
  <2>1. ASSUME NEW a \in AccessIds, Open(a)' PROVE Answered(a, "idle", NoWork)
    <3>1. a # a0
      <4>1. CASE a = a0 BY <4>1, <1>6, <2>1 DEF Open
      <4> QED BY <4>1
    <3> QED BY <1>6, <2>1, <3>1 DEF Answered, Closed
  <2>2. stage[h] # "insert" /\ unrecorded' \subseteq AccessIds BY <1>2, <1>6 DEF Revoking
  <2> QED BY <1>1, <1>6, <2>1, <2>2, HandlerStep
<1>7. CASE /\ stage[h] \in {"revoke", "reset"} /\ a0.kind = "ws"
           /\ unrecorded' = unrecorded \ {a0}
           /\ \/ RemoveWorkspaceMember(a0.ws, a0.user)
              \/ SetMember(a0.ws, a0.user, "workspace_billing")
  <2>1. a0.ws \in Workspaces /\ a0.user \in Emails /\ a0 = MembershipOf(a0.ws, a0.user)
    BY <1>7, Ids
  <2>2. PICK role \in {"none", "workspace_billing"} :
          /\ member' = [member EXCEPT ![a0.ws][a0.user] = role]
          /\ UNCHANGED <<orgRole, invite, workspace, console>>
    BY <1>7 DEF RemoveWorkspaceMember, SetMember
  <2>3. role \in WorkspaceRoles \cup {"none"} BY DEF WorkspaceRoles
  <2>4. OrganizationOK' /\ AdminsKnown' /\ Closed /\ ~Open(MembershipOf(a0.ws, a0.user))'
    BY <1>2, <2>1, <2>2, <2>3, MemberStep
  <2>5. ~Open(a0)' BY <2>1, <2>4
  <2> QED BY <1>6, <1>7, <2>4, <2>5 DEF Revoking
<1>8. CASE /\ stage[h] = "revoke" /\ a0.kind = "invite" /\ DeleteInvite(a0.invite)
           /\ unrecorded' = unrecorded \ {a0}
  <2>1. a0.invite \in Invites /\ a0 = InviteAccess(a0.invite) BY <1>8, Ids
  <2>2. OrganizationOK' /\ AdminsKnown' /\ Closed /\ ~Open(InviteAccess(a0.invite))'
    BY <1>2, <1>8, <2>1, DeleteInviteStep
  <2>3. ~Open(a0)' BY <2>1, <2>2
  <2> QED BY <1>6, <1>8, <2>2, <2>3 DEF Revoking
<1>9. stage[h] = "reset" => a0.kind = "ws" BY <1>3, AtWork DEF Fits
<1> QED BY <1>3, <1>4, <1>5, <1>7, <1>8, <1>9 DEF CallLost

-----------------------------------------------------------------------------
(***************************************************************************)
(* The administration routes and what happens without OPORD.               *)
(***************************************************************************)

\* The administration routes: what they open goes unrecorded.
LEMMA AdministerStep ==
    ASSUME OrganizationInv, NEW h \in Handlers, Administer(h)
    PROVE  OrganizationInv'
<1>1. OrgInv /\ unrecorded \subseteq AccessIds BY TypeParts DEF OrganizationInv, OrgInv
<1>2. CASE InviteAIOrgUser(h)
  <2>1. PICK u \in Emails : \E role \in RoleInputs :
            InviteUser(u, role) /\ unrecorded' = unrecorded \cup {InviteAccess(NewInvite)}
    BY <1>2 DEF InviteAIOrgUser, inviteAIOrgUser
  <2>2. PICK role \in OrgRoles :
            InviteUser(u, role) /\ unrecorded' = unrecorded \cup {InviteAccess(NewInvite)}
    BY <2>1, Constant
  <2>3. /\ OrganizationOK' /\ AdminsKnown' /\ NewInvite \in Invites
        /\ \A a \in AccessIds : Open(a)' => Open(a) \/ a = InviteAccess(NewInvite)
    BY <1>1, <2>2, InviteUserStep
  <2>4. unrecorded' \subseteq AccessIds BY <1>1, <2>2, <2>3, Ids
  <2>5. UNCHANGED <<instance, control>> BY <1>2 DEF InviteAIOrgUser, Route
  <2> QED BY <2>2, <2>3, <2>4, <2>5, StillStep
<1>3. CASE SetAIOrgRole(h)
  <2>1. PICK u \in Emails, role \in OrgRoles : SetOrgRole(u, role)
    BY <1>3, Constant DEF SetAIOrgRole
  <2>2. OrganizationOK' /\ AdminsKnown' /\ Closed BY <1>1, <2>1, SetOrgRoleStep
  <2>3. UNCHANGED <<instance, control>> /\ UNCHANGED unrecorded
    BY <1>3 DEF SetAIOrgRole, Route
  <2> QED BY <1>1, <2>2, <2>3, StillStep DEF Closed
<1>4. CASE RemoveAIOrgUser(h)
  <2>1. PICK u \in Emails :
          /\ RemoveOrgUser(u)
          /\ unrecorded' = unrecorded \ {MembershipOf(w, u) : w \in Workspaces}
    BY <1>4 DEF RemoveAIOrgUser
  <2>2. /\ OrganizationOK' /\ AdminsKnown' /\ Closed
        /\ \A w \in Workspaces : ~Open(MembershipOf(w, u))'
    BY <1>1, <2>1, RemoveOrgUserStep
  <2>3. ASSUME NEW a \in AccessIds, Open(a)'
        PROVE  Open(a) /\ (a \in unrecorded => a \in unrecorded')
    <3>1. ASSUME NEW w \in Workspaces PROVE a # MembershipOf(w, u)
      BY <2>2, <2>3
    <3> QED BY <2>1, <2>2, <2>3, <3>1 DEF Closed
  <2>4. UNCHANGED <<instance, control>> BY <1>4 DEF RemoveAIOrgUser, Route
  <2>5. unrecorded' \subseteq AccessIds BY <1>1, <2>1
  <2> QED BY <2>2, <2>3, <2>4, <2>5, StillStep
<1>5. CASE CreateAIWorkspace(h) \/ ArchiveAIWorkspace(h)
  <2>1. PICK w \in Workspaces : CreateWorkspace(w) \/ ArchiveWorkspace(w)
    BY <1>5 DEF CreateAIWorkspace, ArchiveAIWorkspace
  <2>2. OrganizationOK' /\ AdminsKnown' /\ Closed BY <1>1, <2>1, WorkspaceStep
  <2>3. UNCHANGED <<instance, control>> /\ UNCHANGED unrecorded
    BY <1>5 DEF CreateAIWorkspace, ArchiveAIWorkspace, Route
  <2> QED BY <1>1, <2>2, <2>3, StillStep DEF Closed
<1>6. CASE GrantAIWorkspaceAccess(h)
  <2>1. PICK x \in Workspaces, u \in Emails, role \in WorkspaceRoles :
          Goto(h, "lookup", [NoWork EXCEPT !.access = MembershipOf(x, u), !.role = role])
    BY <1>6, Constant DEF GrantAIWorkspaceAccess
  <2> DEFINE w == [NoWork EXCEPT !.access = MembershipOf(x, u), !.role = role]
  <2>2. w \in Works /\ w.request = "none" /\ w.access.kind = "ws"
    <3>1. MembershipOf(x, u) \in AccessIds /\ MembershipOf(x, u).kind = "ws" BY Ids
    <3> QED BY <3>1, Constant DEF NoWork, Works
  <2> HIDE DEF w
  <2>3. Arrives(h, "lookup", w)
    BY <2>2 DEF Arrives, Fits, Alone, Granting, Revoking, Stages
  <2>4. stage[h] = "idle" /\ UNCHANGED <<organization, instance>>
    BY <1>6 DEF GrantAIWorkspaceAccess, Idle
  <2>5. Goto(h, "lookup", w) BY <2>1 DEF w
  <2> QED BY <2>3, <2>4, <2>5, QuietStep
<1>7. CASE RemoveAIWorkspaceMember(h)
  <2>1. PICK w \in Workspaces, u \in Emails :
          RemoveWorkspaceMember(w, u) /\ unrecorded' = unrecorded \ {MembershipOf(w, u)}
    BY <1>7 DEF RemoveAIWorkspaceMember
  <2>2. OrganizationOK' /\ AdminsKnown' /\ Closed /\ ~Open(MembershipOf(w, u))'
    <3>1. member' = [member EXCEPT ![w][u] = "none"]
          /\ UNCHANGED <<orgRole, invite, workspace, console>>
      BY <2>1 DEF RemoveWorkspaceMember
    <3> QED BY <1>1, <3>1, MemberStep
  <2>3. ASSUME NEW a \in AccessIds, Open(a)'
        PROVE  Open(a) /\ (a \in unrecorded => a \in unrecorded')
    <3>1. a # MembershipOf(w, u) BY <2>2, <2>3
    <3> QED BY <2>1, <2>2, <2>3, <3>1 DEF Closed
  <2>4. UNCHANGED <<instance, control>> BY <1>7 DEF RemoveAIWorkspaceMember, Route
  <2>5. unrecorded' \subseteq AccessIds BY <1>1, <2>1
  <2> QED BY <2>2, <2>3, <2>4, <2>5, StillStep
<1> QED BY <1>2, <1>3, <1>4, <1>5, <1>6, <1>7 DEF Administer

\* What people do themselves: an invite accepted, a promotion in the Console.
LEMMA OutsideStep ==
    ASSUME OrganizationInv, Outside
    PROVE  OrganizationInv'
<1>1. TypeOK /\ AdminsKnown /\ unrecorded \subseteq AccessIds
  BY TypeParts DEF OrganizationInv
<1>2. CASE \E i \in Invites : AcceptInvite(i)
  <2>1. PICK i \in Invites : AcceptInvite(i) BY <1>2
  <2>2. OrganizationOK'
    BY <1>1, <2>1, TypeParts DEF OrganizationOK, AcceptInvite, InviteRecords
  <2>3. AdminsKnown'
    BY <1>1, <2>1, TypeParts
       DEF OrganizationOK, AcceptInvite, InviteRecords, AdminsKnown, OnlyConsoleAdmins
  <2>4. Closed
    <3>1. invite \in [Invites -> InviteRecords] BY <1>1, TypeParts DEF OrganizationOK
    <3>2. \A k \in Invites : invite'[k].status = "pending" => invite[k].status = "pending"
      BY <2>1, <3>1 DEF AcceptInvite, InviteRecords
    <3>3. member' = member BY <2>1 DEF AcceptInvite
    <3>4. ASSUME NEW a \in AccessIds, Open(a)' PROVE Open(a)
      BY <3>2, <3>3, <3>4, Ids DEF Open
    <3> QED BY <3>4 DEF Closed
  <2>5. UNCHANGED <<instance, control>> /\ UNCHANGED unrecorded BY <2>1 DEF AcceptInvite
  <2> QED BY <1>1, <2>2, <2>3, <2>4, <2>5, StillStep DEF Closed
<1>3. CASE \E u \in Emails : Promote(u)
  <2>1. PICK u \in Emails : Promote(u) BY <1>3
  <2>2. OrganizationOK'
    BY <1>1, <2>1, TypeParts DEF OrganizationOK, Promote, OrgRoles
  <2>3. AdminsKnown'
    BY <1>1, <2>1, TypeParts DEF OrganizationOK, Promote, AdminsKnown, OnlyConsoleAdmins
  <2>4. Closed BY <2>1 DEF Promote, Closed, Open
  <2>5. UNCHANGED <<instance, control>> /\ UNCHANGED unrecorded BY <2>1 DEF Promote
  <2> QED BY <1>1, <2>2, <2>3, <2>4, <2>5, StillStep DEF Closed
<1> QED BY <1>2, <1>3 DEF Outside

-----------------------------------------------------------------------------
(***************************************************************************)
(* The theorems.                                                           *)
(***************************************************************************)

\* The organization at the start has no invites and no members.
LEMMA InvInitially == Init => OrganizationInv
<1> SUFFICES ASSUME Init PROVE OrganizationInv OBVIOUS
<1>1. TypeOK
  <2>1. OrganizationOK
    BY Constant DEF Init, OrganizationOK, OrgRoles
  <2>2. instance \in [Requests -> Rows] /\ unrecorded \subseteq AccessIds
    BY Constant DEF Init
  <2>3. stage \in [Handlers -> Stages] /\ work \in [Handlers -> Works]
    BY Constant DEF Init, Stages
  <2> QED BY <2>1, <2>2, <2>3, TypeParts
<1>2. WorkFits /\ OneGrant
  BY DEF Init, WorkFits, OneGrant, Fits, Alone, Granting, Revoking
<1>3. AdminsKnown BY Constant DEF Init, AdminsKnown, OnlyConsoleAdmins
<1>4. ASSUME NEW a \in AccessIds PROVE ~Open(a)
  BY Ids, Constant DEF Init, Open
<1> QED BY <1>1, <1>2, <1>3, <1>4 DEF OrganizationInv, AllStand

\* Every step keeps the invariant, ...
LEMMA InvStep ==
    ASSUME OrganizationInv, [Next]_vars
    PROVE  OrganizationInv'
<1>1. CASE Next
  <2>1. ASSUME NEW h \in Handlers, Grant(h) PROVE OrganizationInv'
    BY <2>1, ProvisionAccessStep, GrantFindUserStep, GrantFindWorkspaceStep,
       GrantLookupStep, GrantAddStep, GrantUpdateStep, InsertInstanceStep DEF Grant
  <2>2. ASSUME NEW h \in Handlers, Revoke(h) PROVE OrganizationInv'
    BY <2>2, RevokeAIInstanceStep, RevokeAccessStep, ResetBillingStep, CloseInstanceStep
       DEF Revoke
  <2> QED BY <1>1, <2>1, <2>2, AdministerStep, CallErrorStep, CallLostStep, OutsideStep
       DEF Next
<1>2. CASE UNCHANGED vars
  <2>1. UNCHANGED <<instance, control>> /\ UNCHANGED organization BY <1>2 DEF vars
  <2>2. OrganizationOK' /\ unrecorded' \subseteq AccessIds
    BY <2>1, TypeParts DEF OrganizationInv, organization, OrganizationOK
  <2>3. AdminsKnown' BY <2>1 DEF OrganizationInv, AdminsKnown, OnlyConsoleAdmins, organization
  <2>4. \A a \in AccessIds : Open(a)' => Open(a) /\ (a \in unrecorded => a \in unrecorded')
    BY <2>1 DEF Open, organization
  <2> QED BY <2>1, <2>2, <2>3, <2>4, StillStep
<1> QED BY <1>1, <1>2

\* ... which therefore holds in every behaviour.
LEMMA InvHolds == Spec => []OrganizationInv
BY InvInitially, InvStep, PTL DEF Spec

\* An access that is open in the sense of the property is open for the
\* invariant, and whoever stands for it accounts for it.
LEMMA InvAccounts == OrganizationInv => AccessAccounted
<1> SUFFICES ASSUME OrganizationInv PROVE AccessAccounted OBVIOUS
<1>1. ASSUME NEW a \in AccessIds, Open(a) PROVE Accounted(a)
  BY <1>1 DEF OrganizationInv, AllStand, Stands, Row, Accounted
<1>2. ASSUME NEW w \in Workspaces, NEW u \in Emails,
             EffectiveWorkspaceAccess(w)[u]
               \notin {"none", "workspace_billing", InheritedWorkspaceRole(orgRole[u])}
      PROVE  Accounted(MembershipOf(w, u))
  <2>1. member[w][u] \notin {"none", "workspace_billing"}
    BY <1>2 DEF EffectiveWorkspaceAccess
  <2>2. Open(MembershipOf(w, u)) /\ MembershipOf(w, u) \in AccessIds BY <2>1, Ids DEF Open
  <2> QED BY <1>1, <2>2
<1>3. ASSUME NEW i \in Invites, invite[i].status = "pending" PROVE Accounted(InviteAccess(i))
  <2>1. Open(InviteAccess(i)) /\ InviteAccess(i) \in AccessIds BY <1>3, Ids DEF Open
  <2> QED BY <1>1, <2>1
<1> QED BY <1>2, <1>3 DEF AccessAccounted

\* The organization, the rows and the handlers keep their types.
THEOREM OrgTypeCorrect == Spec => []TypeOK
BY InvHolds, PTL DEF OrganizationInv

\* Only the Console makes an administrator of the organization, whatever
\* roles the administration routes send (admin.go: InviteUser, SetOrgRole).
THEOREM OnlyConsoleAdminsHolds == Spec => []OnlyConsoleAdmins
<1>1. OrganizationInv => OnlyConsoleAdmins BY DEF OrganizationInv, AdminsKnown
<1> QED BY <1>1, InvHolds, PTL

\* Nobody keeps a role in a workspace, or an open invite, that no row and no
\* administrator answers for (anthropic.go: ProvisionAccess, RevokeAccess).
THEOREM AccessAccountedHolds == Spec => []AccessAccounted
BY InvAccounts, InvHolds, PTL

=============================================================================
