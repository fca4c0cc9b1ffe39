----------------------------- MODULE MCPAccess ------------------------------
(***************************************************************************)
(* The registry of MCP servers, the grants on them, and the authorize      *)
(* check of an agent runtime (orchestrator/mcp.go, db/mcp.sql.go and the   *)
(* routes of api/mcp.go).                                                  *)
(*                                                                         *)
(* A handler takes one step per statement, as in AccessLifecycle.  What    *)
(* emitAIAudit does is left out: nothing here reads ai_audit_events, and   *)
(* the error of the insert is dropped.  The decisions of the operators are *)
(* kept in a history variable instead.                                     *)
(***************************************************************************)
EXTENDS Integers, FiniteSets, Identity

CONSTANTS
    Handlers,      \* goroutines that serve HTTP calls
    CallerOf,      \* the identity each of them serves
    Names,         \* names of MCP servers
    Owners,        \* teams and agents
    Tools,         \* tools a server may offer
    Windows,       \* expiries a grant may be given; NoExpiry is none
    MaxServers,    \* bound on the registrations
    MaxGrants,     \* bound on the grants
    MaxTime,       \* bound of the clock
    Faults         \* "db": a write fails

NoExpiry == MaxTime + 1
Times == 0 .. NoExpiry
ServerIds == 1 .. MaxServers
GrantIds == 1 .. MaxGrants

ASSUME MCPAssumption ==
    /\ CallerOf \in [Handlers -> Identities]
    /\ MaxServers \in Nat /\ MaxGrants \in Nat /\ MaxTime \in Nat \ {0}
    /\ Windows \subseteq Times \ {0}
    /\ Faults \subseteq {"db"}

\* 0 stands for no id.
Servers == [id : 0 .. MaxServers, status : {"none", "active", "disabled"},
            tools : SUBSET Tools]

\* No statement writes "expired", which the table would take.
GrantStatus == {"none", "requested", "active", "rejected", "revoked"}

Grants == [server : 0 .. MaxServers, owner : Owners \cup {"nobody"},
           status : GrantStatus, expires : Times]

NoServer == [id |-> 0, status |-> "none", tools |-> {}]
NoGrant == [server |-> 0, owner |-> "nobody", status |-> "none", expires |-> 0]

VARIABLES
    server,      \* mcp_servers, by its unique name
    grant,       \* mcp_grants; ids in the order of created_at
    registered,  \* server ids given out
    created,     \* grant ids given out
    decided,     \* history: what was last decided of each grant
    stage,       \* the next statement of each handler
    work,        \* what it has read and is about to write
    now          \* the clock

tables == <<server, grant, registered, created>>
vars == <<tables, decided, stage, work, now>>

\* The grant to write, or whose server and owner are looked up; the list of
\* tools read with the server and the tool asked for; the grant found.
Works == [row : Grants, tools : SUBSET Tools, tool : Tools \cup {"none"},
          found : 0 .. MaxGrants]

NoWork == [row |-> NoGrant, tools |-> {}, tool |-> "none", found |-> 0]

OnServer(id) == [NoWork EXCEPT !.row.server = id]

\* The bodies and the query of the routes.
registerMCPServerReq == [name : Names, tools : SUBSET Tools]
grantMCPReq == [server : Names, owner : Owners, expires : Windows]
requestMCPReq == [server : Names, owner : Owners]
authorizeMCP == [server : Names, owner : Owners, tool : Tools \cup {"none"}]

Stages == {"idle", "setstatus", "drop", "findActive", "findLatest", "insert",
           "file", "authorize", "allowed"}

\* "never": no operator has said anything of the grant yet.
Decisions == {"never", "in", "out"}

TypeOK ==
    /\ server \in [Names -> Servers]
    /\ grant \in [GrantIds -> Grants]
    /\ registered \in 0 .. MaxServers
    /\ created \in 0 .. MaxGrants
    /\ decided \in [GrantIds -> Decisions]
    /\ stage \in [Handlers -> Stages]
    /\ work \in [Handlers -> Works]
    /\ now \in 1 .. MaxTime

Init ==
    /\ server = [n \in Names |-> NoServer]
    /\ grant = [g \in GrantIds |-> NoGrant]
    /\ registered = 0 /\ created = 0
    /\ decided = [g \in GrantIds |-> "never"]
    /\ stage = [h \in Handlers |-> "idle"]
    /\ work = [h \in Handlers |-> NoWork]
    /\ now = 1

-----------------------------------------------------------------------------
(***************************************************************************)
(* Control of a handler.                                                   *)
(***************************************************************************)

\* A route that needs min is called.
Calls(h, min) == stage[h] = "idle" /\ AtLeast(CallerOf[h], min)

\* A route that decides on the grant of an id is called.
Decides(h, g) == Calls(h, "operator") /\ grant[g].status # "none"

Goto(h, s, w) ==
    /\ stage' = [stage EXCEPT ![h] = s]
    /\ work' = [work EXCEPT ![h] = w]

Return(h) == Goto(h, "idle", NoWork)

\* An operator lets the owner of grant g in, or puts him out.
Decide(g, d) == decided' = [decided EXCEPT ![g] = d]

Tick ==
    /\ now < MaxTime
    /\ now' = now + 1
    /\ UNCHANGED <<tables, decided, stage, work>>

-----------------------------------------------------------------------------
(***************************************************************************)
(* Statements.                                                             *)
(***************************************************************************)

CreateMCPServer(n, tools) ==
    /\ registered < MaxServers
    /\ server[n] = NoServer
    /\ registered' = registered + 1
    /\ server' = [server EXCEPT ![n] =
                     [id |-> registered + 1, status |-> "active", tools |-> tools]]
    /\ UNCHANGED <<grant, created>>

GetMCPServerByName(n) == server[n]

UpdateMCPServerStatus(id, s) ==
    /\ server' = [n \in Names |-> IF server[n].id = id
                                  THEN [server[n] EXCEPT !.status = s]
                                  ELSE server[n]]
    /\ UNCHANGED <<grant, registered, created>>

\* (A defect: the grants of a deleted server stay in the table.)
DeleteWithoutCascade(id) ==
    /\ server' = [n \in Names |-> IF server[n].id = id THEN NoServer ELSE server[n]]
    /\ UNCHANGED <<grant, registered, created>>

\* The grants go with their server (on delete cascade).
DeleteMCPServer(id) ==
    /\ server' = [n \in Names |-> IF server[n].id = id THEN NoServer ELSE server[n]]
    /\ grant' = [g \in GrantIds |-> IF grant[g].server = id THEN NoGrant ELSE grant[g]]
    /\ UNCHANGED <<registered, created>>

\* What "order by created_at desc limit 1" leaves of a set of rows.
Newest(S) == {g \in S : \A k \in S : k <= g}

\* (A defect: the lookup does not look at the status.)
FindActiveInAnyState(id, o) ==
    Newest({g \in GrantIds : grant[g].server = id /\ grant[g].owner = o})

FindActiveMCPGrant(id, o) ==
    Newest({g \in GrantIds : grant[g].server = id /\ grant[g].owner = o
                               /\ grant[g].status = "active"})

FindLatestMCPGrant(id, o) ==
    Newest({g \in GrantIds : grant[g].server = id /\ grant[g].owner = o})

\* The foreign key refuses a grant on a server that is gone.
ServerExists(id) == \E n \in Names : server[n].id = id

CreateMCPGrant(row) ==
    /\ created < MaxGrants
    /\ created' = created + 1
    /\ grant' = [grant EXCEPT ![created + 1] = row]
    /\ UNCHANGED <<server, registered>>

\* No look at the status the row has.
SetMCPGrantStatus(g, s) ==
    /\ grant' = [grant EXCEPT ![g].status = s]
    /\ UNCHANGED <<server, registered, created>>

\* The same for "revoked", with the date.
RevokeMCPGrant(g) == SetMCPGrantStatus(g, "revoked")

-----------------------------------------------------------------------------
(***************************************************************************)
(* Steps with a defect, used by no specification; each stands for a        *)
(* plausible mistake in the step it is named after.                        *)
(***************************************************************************)

\* A rejection writes a status that the check of the table does not list.
RejectAsDeclined(h, g) ==
    /\ Decides(h, g)
    /\ SetMCPGrantStatus(g, "declined")
    /\ Decide(g, "out")
    /\ UNCHANGED <<stage, work, now>>

\* A filed request is active at once.
RequestIsActive(h) ==
    /\ stage[h] = "findLatest"
    /\ LET w == work[h]
       IN  IF \E g \in FindLatestMCPGrant(w.row.server, w.row.owner) :
                grant[g].status \in {"active", "requested"}
           THEN Return(h)
           ELSE Goto(h, "file", [w EXCEPT !.row.status = "active"])
    /\ UNCHANGED <<tables, decided, now>>

-----------------------------------------------------------------------------
(***************************************************************************)
(* The registry.                                                           *)
(***************************************************************************)

RegisterMCPServer(h) ==
    /\ Calls(h, "operator")
    /\ \E in \in registerMCPServerReq : CreateMCPServer(in.name, in.tools)
    /\ UNCHANGED <<decided, stage, work, now>>

\* SetMCPServerStatus reads the id by name and then writes by id.  No route
\* of this API calls it; it is an operation of the service all the same.
StatusCall(h) ==
    /\ Calls(h, "operator")
    /\ \E n \in Names :
         /\ GetMCPServerByName(n) # NoServer
         /\ Goto(h, "setstatus", OnServer(GetMCPServerByName(n).id))
    /\ UNCHANGED <<tables, decided, now>>

\* A server that is gone by now is an error.
StatusWrite(h) ==
    /\ stage[h] = "setstatus"
    /\ \E s \in {"active", "disabled"} : UpdateMCPServerStatus(work[h].row.server, s)
    /\ Return(h)
    /\ UNCHANGED <<decided, now>>

DeleteCall(h) ==
    /\ Calls(h, "operator")
    /\ \E n \in Names :
         /\ GetMCPServerByName(n) # NoServer
         /\ Goto(h, "drop", OnServer(GetMCPServerByName(n).id))
    /\ UNCHANGED <<tables, decided, now>>

\* A delete of no row is no error.
DeleteDrop(h) ==
    /\ stage[h] = "drop"
    /\ DeleteMCPServer(work[h].row.server)
    /\ Return(h)
    /\ UNCHANGED <<decided, now>>

-----------------------------------------------------------------------------
(***************************************************************************)
(* Grants.                                                                 *)
(***************************************************************************)

\* The call names a server, an owner and a window.
GrantCall(h) ==
    /\ Calls(h, "operator")
    /\ \E in \in grantMCPReq :
         LET srv == GetMCPServerByName(in.server) IN
         /\ srv.status = "active"
         /\ Goto(h, "findActive",
                 [NoWork EXCEPT !.row = [server |-> srv.id, owner |-> in.owner,
                                         status |-> "active", expires |-> in.expires]])
    /\ UNCHANGED <<tables, decided, now>>

\* An active grant is returned as it is, its window included.
GrantFind(h) ==
    /\ stage[h] = "findActive"
    /\ LET w == work[h] IN
         IF FindActiveMCPGrant(w.row.server, w.row.owner) # {}
         THEN Return(h)
         ELSE Goto(h, "insert", w)
    /\ UNCHANGED <<tables, decided, now>>

\* The foreign key refuses the insert when the server is gone.
GrantInsert(h) ==
    /\ stage[h] = "insert"
    /\ IF ServerExists(work[h].row.server)
       THEN CreateMCPGrant(work[h].row) /\ Decide(created + 1, "in")
       ELSE UNCHANGED <<tables, decided>>
    /\ Return(h)
    /\ UNCHANGED now

\* A request has no window, and the server may be disabled.
RequestCall(h) ==
    /\ Calls(h, "viewer")
    /\ \E in \in requestMCPReq :
         LET srv == GetMCPServerByName(in.server) IN
         /\ srv # NoServer
         /\ Goto(h, "findLatest",
                 [NoWork EXCEPT !.row = [server |-> srv.id, owner |-> in.owner,
                                         status |-> "requested", expires |-> NoExpiry]])
    /\ UNCHANGED <<tables, decided, now>>

RequestFind(h) ==
    /\ stage[h] = "findLatest"
    /\ LET w == work[h]
       IN  IF \E g \in FindLatestMCPGrant(w.row.server, w.row.owner) :
                grant[g].status \in {"active", "requested"}
           THEN Return(h)
           ELSE Goto(h, "file", w)
    /\ UNCHANGED <<tables, decided, now>>

RequestInsert(h) ==
    /\ stage[h] = "file"
    /\ IF ServerExists(work[h].row.server)
       THEN CreateMCPGrant(work[h].row)
       ELSE UNCHANGED tables
    /\ Return(h)
    /\ UNCHANGED <<decided, now>>

ApproveMCPGrant(h, g) ==
    /\ Decides(h, g)
    /\ SetMCPGrantStatus(g, "active")
    /\ Decide(g, "in")
    /\ UNCHANGED <<stage, work, now>>

RejectMCPGrant(h, g) ==
    /\ Decides(h, g)
    /\ SetMCPGrantStatus(g, "rejected")
    /\ Decide(g, "out")
    /\ UNCHANGED <<stage, work, now>>

\* RevokeMCPGrant of the service.
RevokeGrant(h, g) ==
    /\ Decides(h, g)
    /\ RevokeMCPGrant(g)
    /\ Decide(g, "out")
    /\ UNCHANGED <<stage, work, now>>

-----------------------------------------------------------------------------
(***************************************************************************)
(* AuthorizeMCP.                                                           *)
(***************************************************************************)

\* The status and the tools are those of the first read.
AuthorizeCall(h) ==
    /\ Calls(h, "viewer")
    /\ \E in \in authorizeMCP :
         LET srv == GetMCPServerByName(in.server) IN
         /\ srv.status = "active"
         /\ Goto(h, "authorize", [OnServer(srv.id) EXCEPT
                !.row.owner = in.owner, !.tools = srv.tools, !.tool = in.tool])
    /\ UNCHANGED <<tables, decided, now>>

\* No allow-list allows every tool.
ToolAllowed(tools, t) == t = "none" \/ tools = {} \/ t \in tools

\* The newest active grant decides, an older one that is valid does not.
AuthorizeFind(h) ==
    /\ stage[h] = "authorize"
    /\ LET w == work[h]
           valid == {g \in FindActiveMCPGrant(w.row.server, w.row.owner) :
                        grant[g].expires >= now /\ ToolAllowed(w.tools, w.tool)}
       IN  IF valid = {}
           THEN Return(h)
           ELSE \E g \in valid : Goto(h, "allowed", [NoWork EXCEPT !.found = g])
    /\ UNCHANGED <<tables, decided, now>>

\* The verdict reaches the agent; a denial is a plain return.
AuthorizeAnswer(h) ==
    /\ stage[h] = "allowed"
    /\ Return(h)
    /\ UNCHANGED <<tables, decided, now>>

\* A statement fails: the call returns, and tells of nothing.
WriteError(h) ==
    /\ "db" \in Faults
    /\ stage[h] \in {"setstatus", "drop", "insert", "file"}
    /\ Return(h)
    /\ UNCHANGED <<tables, decided, now>>

-----------------------------------------------------------------------------
Step(h) ==
    \/ RegisterMCPServer(h) \/ StatusCall(h) \/ StatusWrite(h)
    \/ DeleteCall(h) \/ DeleteDrop(h)
    \/ GrantCall(h) \/ GrantFind(h) \/ GrantInsert(h)
    \/ RequestCall(h) \/ RequestFind(h) \/ RequestInsert(h)
    \/ \E g \in GrantIds :
         ApproveMCPGrant(h, g) \/ RejectMCPGrant(h, g) \/ RevokeGrant(h, g)
    \/ AuthorizeCall(h) \/ AuthorizeFind(h) \/ AuthorizeAnswer(h) \/ WriteError(h)

Next == Tick \/ \E h \in Handlers : Step(h)

Spec == Init /\ [][Next]_vars

-----------------------------------------------------------------------------
(***************************************************************************)
(* Properties.                                                             *)
(***************************************************************************)

\* No grant is active without an operator's decision, and a fresh one each
\* time: once it was rejected or revoked, only another approval makes it
\* active.  Requests of viewers, re-grants, deletions and late inserts
\* interleave (mcp.go: a requested grant "does NOT authorize until an
\* operator approves it").
ActiveIsDecided == \A g \in GrantIds : grant[g].status = "active" => decided[g] = "in"

\* The same of an agent: whatever it is allowed rests on a grant an operator
\* decided on, even when the grant is revoked, or its server deleted, before
\* the answer is out (mcp.go: AuthorizeMCP, "the agent-tool audit trail").
AllowedIsDecided ==
    \A h \in Handlers :
        stage[h] = "allowed" => work[h].found # 0 /\ decided[work[h].found] # "never"

\* A grant lives no longer than the registration it was made for: a server
\* that is registered again under its name starts without grants, those of
\* handlers that read the old row and insert late included (mcp.go:
\* DeleteMCPServer, and the cascade of mcp_grants).
GrantsHaveServer ==
    \A g \in GrantIds : grant[g].status # "none" => ServerExists(grant[g].server)

=============================================================================
