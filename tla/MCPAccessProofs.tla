--------------------------- MODULE MCPAccessProofs --------------------------
(***************************************************************************)
(* Proofs about MCPAccess, for any number of handlers, servers, owners and *)
(* grants, and any assignment of identities to the handlers.               *)
(***************************************************************************)
EXTENDS MCPAccess, TLAPS

(***************************************************************************)
(* The inductive invariant.                                                *)
(***************************************************************************)

\* Only the row that is not there has no id.
RowsHaveIds == \A n \in Names : server[n].id = 0 => server[n] = NoServer

\* A handler holds the id of a server it has found, and the row of a
\* request asks.
WorkFits ==
    \A h \in Handlers :
        /\ stage[h] \in {"setstatus", "drop", "findActive", "findLatest", "insert", "file"}
              => work[h].row.server # 0
        /\ stage[h] \in {"findActive", "findLatest", "insert", "file"}
              => work[h].row.status # "none"
        /\ stage[h] \in {"findLatest", "file"} => work[h].row.status = "requested"

\* A grant stands on a server.
GrantsStand ==
    \A g \in GrantIds :
        grant[g].status # "none" => grant[g].server # 0 /\ ServerExists(grant[g].server)

MCPInv ==
    /\ TypeOK /\ RowsHaveIds /\ WorkFits /\ GrantsStand
    /\ ActiveIsDecided /\ AllowedIsDecided

-----------------------------------------------------------------------------
(***************************************************************************)
(* Types.                                                                  *)
(***************************************************************************)

\* The bounds are numbers, and the constant records are well typed.
LEMMA Constant ==
    /\ MaxServers \in Nat /\ MaxGrants \in Nat /\ MaxTime \in Nat \ {0}
    /\ 0 \in Times /\ NoExpiry \in Times /\ Windows \subseteq Times
    /\ NoServer \in Servers /\ NoGrant \in Grants /\ NoWork \in Works
<1>1. /\ MaxServers \in Nat /\ MaxGrants \in Nat /\ MaxTime \in Nat \ {0}
      /\ 0 \in Times /\ NoExpiry \in Times /\ Windows \subseteq Times
  BY MCPAssumption DEF Times, NoExpiry
<1>2. NoServer \in Servers
  BY <1>1 DEF NoServer, Servers
<1>3. NoGrant \in Grants
  BY <1>1 DEF NoGrant, Grants, GrantStatus
<1>4. NoWork \in Works
  BY <1>1, <1>3 DEF NoWork, Works
<1> QED
  BY <1>1, <1>2, <1>3, <1>4

\* What a handler takes up is well typed when its parts are.
LEMMA WorkTypes ==
    ASSUME NEW w \in Works
    PROVE  /\ \A row \in Grants : [NoWork EXCEPT !.row = row] \in Works
           /\ \A g \in 0 .. MaxGrants : [NoWork EXCEPT !.found = g] \in Works
           /\ \A id \in 0 .. MaxServers : OnServer(id) \in Works
           /\ \A id \in 0 .. MaxServers, o \in Owners, ts \in SUBSET Tools, t \in Tools \cup {"none"} :
                 [OnServer(id) EXCEPT !.row.owner = o, !.tools = ts, !.tool = t] \in Works
BY Constant DEF Works, NoWork, NoGrant, Grants, OnServer

\* A handler keeps its type wherever it goes with well-typed work.
LEMMA GotoTypes ==
    ASSUME TypeOK, NEW h \in Handlers, NEW s \in Stages, NEW w \in Works, Goto(h, s, w)
    PROVE  stage' \in [Handlers -> Stages] /\ work' \in [Handlers -> Works]
BY DEF TypeOK, Goto

\* The types of the tables.
TablesOK ==
    /\ server \in [Names -> Servers] /\ grant \in [GrantIds -> Grants]
    /\ registered \in 0 .. MaxServers /\ created \in 0 .. MaxGrants

\* Every statement keeps them.
LEMMA StatementTypes ==
    ASSUME TypeOK
    PROVE  /\ \A n \in Names, ts \in SUBSET Tools : CreateMCPServer(n, ts) => TablesOK'
           /\ \A id \in 0 .. MaxServers, s \in {"active", "disabled"} :
                 UpdateMCPServerStatus(id, s) => TablesOK'
           /\ \A id \in 0 .. MaxServers : DeleteMCPServer(id) => TablesOK'
           /\ \A row \in Grants : CreateMCPGrant(row) => TablesOK'
           /\ \A g \in GrantIds, s \in GrantStatus : SetMCPGrantStatus(g, s) => TablesOK'
<1> USE Constant DEF TypeOK, TablesOK
<1>1. ASSUME NEW n \in Names, NEW ts \in SUBSET Tools, CreateMCPServer(n, ts) PROVE TablesOK'
  <2>1. [id |-> registered + 1, status |-> "active", tools |-> ts] \in Servers
    BY <1>1 DEF CreateMCPServer, Servers
  <2> QED
    BY <1>1, <2>1 DEF CreateMCPServer
<1>2. ASSUME NEW id \in 0 .. MaxServers, NEW s \in {"active", "disabled"},
             UpdateMCPServerStatus(id, s)
      PROVE  TablesOK'
  <2>1. \A n \in Names : [server[n] EXCEPT !.status = s] \in Servers
    BY DEF Servers
  <2> QED
    BY <1>2, <2>1 DEF UpdateMCPServerStatus
<1>3. ASSUME NEW id \in 0 .. MaxServers, DeleteMCPServer(id) PROVE TablesOK'
  BY <1>3 DEF DeleteMCPServer
<1>4. ASSUME NEW row \in Grants, CreateMCPGrant(row) PROVE TablesOK'
  <2>1. created + 1 \in GrantIds /\ created + 1 \in 0 .. MaxGrants
    BY <1>4 DEF CreateMCPGrant, GrantIds
  <2> QED
    BY <1>4, <2>1 DEF CreateMCPGrant
<1>5. ASSUME NEW g \in GrantIds, NEW s \in GrantStatus, SetMCPGrantStatus(g, s) PROVE TablesOK'
  <2>1. [grant[g] EXCEPT !.status = s] \in Grants
    BY DEF Grants
  <2> QED
    BY <1>5, <2>1 DEF SetMCPGrantStatus
<1> QED
  BY <1>1, <1>2, <1>3, <1>4, <1>5

\* Types are kept by every step.
LEMMA TypeStep == TypeOK /\ WorkFits /\ [Next]_vars => TypeOK'
<1> SUFFICES ASSUME TypeOK, WorkFits, [Next]_vars PROVE TypeOK'
  OBVIOUS
<1>1. /\ server \in [Names -> Servers] /\ grant \in [GrantIds -> Grants]
      /\ decided \in [GrantIds -> Decisions] /\ now \in 1 .. MaxTime
      /\ stage \in [Handlers -> Stages] /\ work \in [Handlers -> Works]
  BY DEF TypeOK
<1>2. ASSUME TablesOK', stage' \in [Handlers -> Stages], work' \in [Handlers -> Works],
             decided' \in [GrantIds -> Decisions], now' \in 1 .. MaxTime
      PROVE  TypeOK'
  BY <1>2 DEF TypeOK, TablesOK
<1>3. TablesOK /\ (UNCHANGED tables => TablesOK')
  BY DEF TypeOK, TablesOK, tables
<1>4. ASSUME NEW n \in Names PROVE server[n].id \in 0 .. MaxServers /\ server[n].tools \in SUBSET Tools
  BY <1>1 DEF Servers
<1>5. ASSUME NEW h \in Handlers
      PROVE  /\ work[h] \in Works /\ work[h].row \in Grants /\ work[h].found \in 0 .. MaxGrants
             /\ work[h].row.server \in 0 .. MaxServers
  BY <1>1 DEF Works, Grants
<1>6. ASSUME NEW h \in Handlers, Return(h)
      PROVE  stage' \in [Handlers -> Stages] /\ work' \in [Handlers -> Works]
  BY <1>6, Constant, GotoTypes DEF Return, Stages
<1>6a. \A g \in GrantIds, d \in Decisions : Decide(g, d) => decided' \in [GrantIds -> Decisions]
  BY <1>1 DEF Decide
<1>7. CASE Tick
  BY <1>1, <1>2, <1>3, <1>7, Constant DEF Tick
<1>8. ASSUME NEW h \in Handlers, RegisterMCPServer(h) PROVE TypeOK'
  BY <1>1, <1>2, <1>8, StatementTypes DEF RegisterMCPServer, registerMCPServerReq
<1>9. ASSUME NEW h \in Handlers, StatusCall(h) \/ DeleteCall(h) PROVE TypeOK'
  <2>1. PICK n \in Names, s \in Stages : Goto(h, s, OnServer(server[n].id))
    BY <1>9 DEF StatusCall, DeleteCall, GetMCPServerByName, Stages
  <2>2. OnServer(server[n].id) \in Works
    BY <1>4, Constant, WorkTypes
  <2> QED
    BY <1>1, <1>2, <1>3, <1>9, <2>1, <2>2, GotoTypes DEF StatusCall, DeleteCall
<1>10. ASSUME NEW h \in Handlers, StatusWrite(h) PROVE TypeOK'
  BY <1>1, <1>2, <1>5, <1>6, <1>10, StatementTypes DEF StatusWrite
<1>11. ASSUME NEW h \in Handlers, DeleteDrop(h) PROVE TypeOK'
  BY <1>1, <1>2, <1>5, <1>6, <1>11, StatementTypes DEF DeleteDrop
<1>12. ASSUME NEW h \in Handlers, GrantCall(h) PROVE TypeOK'
  <2>1. PICK in \in grantMCPReq :
          Goto(h, "findActive", [NoWork EXCEPT !.row =
              [server |-> server[in.server].id, owner |-> in.owner,
               status |-> "active", expires |-> in.expires]])
    BY <1>12 DEF GrantCall, GetMCPServerByName
  <2>2. [server |-> server[in.server].id, owner |-> in.owner,
         status |-> "active", expires |-> in.expires] \in Grants
    BY <1>4, Constant DEF grantMCPReq, Grants, GrantStatus
  <2>3. "findActive" \in Stages
    BY DEF Stages
  <2> QED
    BY <1>1, <1>2, <1>3, <1>12, <2>1, <2>2, <2>3, Constant, WorkTypes, GotoTypes DEF GrantCall
<1>13. ASSUME NEW h \in Handlers, RequestCall(h) PROVE TypeOK'
  <2>1. PICK in \in requestMCPReq :
          Goto(h, "findLatest", [NoWork EXCEPT !.row =
              [server |-> server[in.server].id, owner |-> in.owner,
               status |-> "requested", expires |-> NoExpiry]])
    BY <1>13 DEF RequestCall, GetMCPServerByName
  <2>2. [server |-> server[in.server].id, owner |-> in.owner,
         status |-> "requested", expires |-> NoExpiry] \in Grants
    BY <1>4, Constant DEF requestMCPReq, Grants, GrantStatus
  <2>3. "findLatest" \in Stages
    BY DEF Stages
  <2> QED
    BY <1>1, <1>2, <1>3, <1>13, <2>1, <2>2, <2>3, Constant, WorkTypes, GotoTypes DEF RequestCall
<1>14. ASSUME NEW h \in Handlers, GrantFind(h) \/ RequestFind(h) PROVE TypeOK'
  <2>1. Return(h) \/ \E s \in Stages : Goto(h, s, work[h])
    BY <1>14 DEF GrantFind, RequestFind, Stages
  <2> QED
    BY <1>1, <1>2, <1>3, <1>5, <1>6, <1>14, <2>1, GotoTypes DEF GrantFind, RequestFind
<1>15. ASSUME NEW h \in Handlers, GrantInsert(h) PROVE TypeOK'
  <2>1. CASE UNCHANGED <<tables, decided>>
    BY <1>1, <1>2, <1>3, <1>6, <1>15, <2>1 DEF GrantInsert
  <2>2. CASE CreateMCPGrant(work[h].row) /\ Decide(created + 1, "in")
    <3>1. created + 1 \in GrantIds /\ "in" \in Decisions
      BY <2>2, Constant DEF CreateMCPGrant, TypeOK, GrantIds, Decisions
    <3> QED
      BY <1>1, <1>2, <1>5, <1>6, <1>15, <1>6a, <2>2, <3>1, StatementTypes DEF GrantInsert
  <2> QED
    BY <1>15, <2>1, <2>2 DEF GrantInsert
<1>16. ASSUME NEW h \in Handlers, RequestInsert(h) PROVE TypeOK'
  BY <1>1, <1>2, <1>3, <1>5, <1>6, <1>16, StatementTypes DEF RequestInsert
<1>17. ASSUME NEW h \in Handlers, NEW g \in GrantIds,
              ApproveMCPGrant(h, g) \/ RejectMCPGrant(h, g) \/ RevokeGrant(h, g)
       PROVE  TypeOK'
  <2>1. PICK s \in GrantStatus, d \in Decisions : SetMCPGrantStatus(g, s) /\ Decide(g, d)
    BY <1>17 DEF ApproveMCPGrant, RejectMCPGrant, RevokeGrant, RevokeMCPGrant, GrantStatus,
       Decisions
  <2> QED
    BY <1>1, <1>2, <1>17, <1>6a, <2>1, StatementTypes
       DEF ApproveMCPGrant, RejectMCPGrant, RevokeGrant
<1>19. ASSUME NEW h \in Handlers, AuthorizeCall(h) PROVE TypeOK'
  <2>1. PICK in \in authorizeMCP :
          Goto(h, "authorize", [OnServer(server[in.server].id) EXCEPT
              !.row.owner = in.owner, !.tools = server[in.server].tools, !.tool = in.tool])
    BY <1>19 DEF AuthorizeCall, GetMCPServerByName
  <2>2. /\ in.server \in Names /\ in.owner \in Owners /\ in.tool \in Tools \cup {"none"}
        /\ "authorize" \in Stages
    BY DEF authorizeMCP, Stages
  <2>3. [OnServer(server[in.server].id) EXCEPT !.row.owner = in.owner,
             !.tools = server[in.server].tools, !.tool = in.tool] \in Works
    BY <1>4, <2>2, Constant, WorkTypes
  <2> QED
    BY <1>1, <1>2, <1>3, <1>19, <2>1, <2>2, <2>3, GotoTypes DEF AuthorizeCall
<1>20. ASSUME NEW h \in Handlers, AuthorizeFind(h) PROVE TypeOK'
  <2>1. Return(h) \/ \E g \in GrantIds : Goto(h, "allowed", [NoWork EXCEPT !.found = g])
    BY <1>20 DEF AuthorizeFind, FindActiveMCPGrant, Newest
  <2>4. \A g \in GrantIds : g \in 0 .. MaxGrants
    BY Constant DEF GrantIds
  <2>2. \A g \in GrantIds : [NoWork EXCEPT !.found = g] \in Works
    BY <2>4, Constant, WorkTypes
  <2>3. "allowed" \in Stages
    BY DEF Stages
  <2> QED
    BY <1>1, <1>2, <1>3, <1>6, <1>20, <2>1, <2>2, <2>3, GotoTypes DEF AuthorizeFind
<1>21. ASSUME NEW h \in Handlers, AuthorizeAnswer(h) \/ WriteError(h) PROVE TypeOK'
  BY <1>1, <1>2, <1>3, <1>6, <1>21 DEF AuthorizeAnswer, WriteError
<1>23. CASE UNCHANGED vars
  BY <1>1, <1>2, <1>3, <1>23 DEF vars
<1> QED
  BY <1>7, <1>8, <1>9, <1>10, <1>11, <1>12, <1>13, <1>14, <1>15, <1>16, <1>17,
     <1>19, <1>20, <1>21, <1>23 DEF Next, Step

-----------------------------------------------------------------------------
(***************************************************************************)
(* Servers and their grants.                                               *)
(***************************************************************************)

\* The tables agree with each other after every statement.
LEMMA StatementsStand ==
    ASSUME TypeOK, RowsHaveIds, GrantsStand
    PROVE  /\ \A n \in Names, ts \in SUBSET Tools :
                 CreateMCPServer(n, ts) => RowsHaveIds' /\ GrantsStand'
           /\ \A id \in 0 .. MaxServers, s \in {"active", "disabled"} :
                 id # 0 /\ UpdateMCPServerStatus(id, s) => RowsHaveIds' /\ GrantsStand'
           /\ \A id \in 0 .. MaxServers : DeleteMCPServer(id) => RowsHaveIds' /\ GrantsStand'
           /\ \A row \in Grants :
                 row.server # 0 /\ ServerExists(row.server) /\ CreateMCPGrant(row)
                    => RowsHaveIds' /\ GrantsStand'
           /\ \A g \in GrantIds, s \in GrantStatus :
                 grant[g].status # "none" /\ SetMCPGrantStatus(g, s)
                    => RowsHaveIds' /\ GrantsStand'
<1>1. /\ server \in [Names -> Servers] /\ grant \in [GrantIds -> Grants]
      /\ registered \in 0 .. MaxServers /\ created \in 0 .. MaxGrants
      /\ MaxServers \in Nat /\ MaxGrants \in Nat
  BY Constant DEF TypeOK
<1>2. ASSUME NEW n \in Names, NEW ts \in SUBSET Tools, CreateMCPServer(n, ts)
      PROVE  RowsHaveIds' /\ GrantsStand'
  <2>1. /\ server'[n].id # 0
        /\ \A m \in Names \ {n} : server'[m] = server[m]
        /\ server[n].id = 0 /\ grant' = grant
    BY <1>1, <1>2 DEF CreateMCPServer, NoServer
  <2>2. \A id : id # 0 /\ ServerExists(id) => ServerExists(id)'
    BY <2>1 DEF ServerExists
  <2> QED
    BY <2>1, <2>2 DEF RowsHaveIds, GrantsStand
<1>3. ASSUME NEW id \in 0 .. MaxServers, NEW s \in {"active", "disabled"}, id # 0,
             UpdateMCPServerStatus(id, s)
      PROVE  RowsHaveIds' /\ GrantsStand'
  <2>1. /\ \A n \in Names : server'[n].id = server[n].id
        /\ \A n \in Names : server[n].id # id => server'[n] = server[n]
        /\ grant' = grant
    <3>1. \A n \in Names : [server[n] EXCEPT !.status = s].id = server[n].id
      BY <1>1 DEF Servers
    <3> QED
      BY <1>3, <3>1 DEF UpdateMCPServerStatus
  <2>2. \A i : ServerExists(i) => ServerExists(i)'
    BY <2>1 DEF ServerExists
  <2> QED
    BY <1>3, <2>1, <2>2 DEF RowsHaveIds, GrantsStand
<1>4. ASSUME NEW id \in 0 .. MaxServers, DeleteMCPServer(id) PROVE RowsHaveIds' /\ GrantsStand'
  <2>1. /\ \A n \in Names : server'[n] = IF server[n].id = id THEN NoServer ELSE server[n]
        /\ \A g \in GrantIds : grant'[g] = IF grant[g].server = id THEN NoGrant ELSE grant[g]
    BY <1>4 DEF DeleteMCPServer
  <2>2. \A i : i # id /\ ServerExists(i) => ServerExists(i)'
    BY <2>1 DEF ServerExists
  <2>3. NoGrant.status = "none"
    BY DEF NoGrant
  <2> QED
    BY <2>1, <2>2, <2>3 DEF RowsHaveIds, GrantsStand
<1>5. ASSUME NEW row \in Grants, row.server # 0, ServerExists(row.server), CreateMCPGrant(row)
      PROVE  RowsHaveIds' /\ GrantsStand'
  <2>1. server' = server /\ \A g \in GrantIds : grant'[g] = row \/ grant'[g] = grant[g]
    BY <1>1, <1>5 DEF CreateMCPGrant
  <2>2. \A i : ServerExists(i) => ServerExists(i)'
    BY <2>1 DEF ServerExists
  <2> QED
    BY <1>5, <2>1, <2>2 DEF RowsHaveIds, GrantsStand
<1>6. ASSUME NEW g \in GrantIds, NEW s \in GrantStatus, grant[g].status # "none",
             SetMCPGrantStatus(g, s)
      PROVE  RowsHaveIds' /\ GrantsStand'
  <2>1. /\ server' = server
        /\ \A k \in GrantIds \ {g} : grant'[k] = grant[k]
        /\ grant'[g].server = grant[g].server
    <3>1. [grant[g] EXCEPT !.status = s].server = grant[g].server
      BY <1>1 DEF Grants
    <3> QED
      BY <1>1, <1>6, <3>1 DEF SetMCPGrantStatus
  <2>2. \A i : ServerExists(i) => ServerExists(i)'
    BY <2>1 DEF ServerExists
  <2> QED
    BY <1>6, <2>1, <2>2 DEF RowsHaveIds, GrantsStand
<1> QED
  BY <1>2, <1>3, <1>4, <1>5, <1>6

\* And after every step.
LEMMA StandStep ==
    TypeOK /\ RowsHaveIds /\ WorkFits /\ GrantsStand /\ [Next]_vars
       => RowsHaveIds' /\ GrantsStand'
<1> SUFFICES ASSUME TypeOK, RowsHaveIds, WorkFits, GrantsStand, [Next]_vars
             PROVE  RowsHaveIds' /\ GrantsStand'
  OBVIOUS
<1>1. UNCHANGED tables => RowsHaveIds' /\ GrantsStand'
  BY DEF tables, RowsHaveIds, GrantsStand, ServerExists
<1>2. ASSUME NEW h \in Handlers
      PROVE  work[h].row \in Grants /\ work[h].row.server \in 0 .. MaxServers
  BY DEF TypeOK, Works, Grants
<1>3. ASSUME NEW h \in Handlers, RegisterMCPServer(h) PROVE RowsHaveIds' /\ GrantsStand'
  BY <1>3, StatementsStand DEF RegisterMCPServer, registerMCPServerReq
<1>4. ASSUME NEW h \in Handlers, StatusWrite(h) PROVE RowsHaveIds' /\ GrantsStand'
  BY <1>2, <1>4, StatementsStand DEF StatusWrite, WorkFits
<1>5. ASSUME NEW h \in Handlers, DeleteDrop(h) PROVE RowsHaveIds' /\ GrantsStand'
  BY <1>2, <1>5, StatementsStand DEF DeleteDrop
<1>6. ASSUME NEW h \in Handlers, GrantInsert(h) \/ RequestInsert(h)
      PROVE  RowsHaveIds' /\ GrantsStand'
  BY <1>1, <1>2, <1>6, StatementsStand DEF GrantInsert, RequestInsert, WorkFits
<1>7. ASSUME NEW h \in Handlers, NEW g \in GrantIds,
             ApproveMCPGrant(h, g) \/ RejectMCPGrant(h, g) \/ RevokeGrant(h, g)
      PROVE  RowsHaveIds' /\ GrantsStand'
  <2>1. PICK s \in GrantStatus : SetMCPGrantStatus(g, s)
    BY <1>7 DEF ApproveMCPGrant, RejectMCPGrant, RevokeGrant, RevokeMCPGrant, GrantStatus
  <2> QED
    BY <1>7, <2>1, StatementsStand DEF ApproveMCPGrant, RejectMCPGrant, RevokeGrant, Decides
<1>8. ASSUME NEW h \in Handlers,
             \/ StatusCall(h) \/ DeleteCall(h) \/ GrantCall(h) \/ GrantFind(h)
             \/ RequestCall(h) \/ RequestFind(h) \/ AuthorizeCall(h)
             \/ AuthorizeFind(h) \/ AuthorizeAnswer(h) \/ WriteError(h)
      PROVE  UNCHANGED tables
  BY <1>8 DEF StatusCall, DeleteCall, GrantCall, GrantFind, RequestCall, RequestFind,
     AuthorizeCall, AuthorizeFind, AuthorizeAnswer, WriteError
<1>9. Tick \/ UNCHANGED vars => UNCHANGED tables
  BY DEF Tick, vars
<1> QED
  BY <1>1, <1>3, <1>4, <1>5, <1>6, <1>7, <1>8, <1>9 DEF Next, Step

-----------------------------------------------------------------------------
(***************************************************************************)
(* What a handler holds.                                                   *)
(***************************************************************************)

\* The claims of WorkFits about one handler.
Fits(s, w) ==
    /\ s \in {"setstatus", "drop", "findActive", "findLatest", "insert", "file"}
          => w.row.server # 0
    /\ s \in {"findActive", "findLatest", "insert", "file"} => w.row.status # "none"
    /\ s \in {"findLatest", "file"} => w.row.status = "requested"

\* A handler that goes on with work that fits keeps WorkFits.
LEMMA GotoFits ==
    ASSUME TypeOK, WorkFits, NEW h \in Handlers, NEW s, NEW w, Fits(s, w), Goto(h, s, w)
    PROVE  WorkFits'
<1>1. stage'[h] = s /\ work'[h] = w
  BY DEF TypeOK, Goto
<1>2. \A k \in Handlers \ {h} : stage'[k] = stage[k] /\ work'[k] = work[k]
  BY DEF TypeOK, Goto
<1> QED
  BY <1>1, <1>2 DEF WorkFits, Fits

\* Every handler holds what its next statement needs.
LEMMA WorkStep ==
    TypeOK /\ RowsHaveIds /\ WorkFits /\ [Next]_vars => WorkFits'
<1> SUFFICES ASSUME TypeOK, RowsHaveIds, WorkFits, [Next]_vars PROVE WorkFits'
  OBVIOUS
<1>1. UNCHANGED <<stage, work>> => WorkFits'
  BY DEF WorkFits
<1>2. ASSUME NEW h \in Handlers, Return(h) PROVE WorkFits'
  <2>1. Fits("idle", NoWork)
    BY DEF Fits
  <2> QED
    BY <1>2, <2>1, GotoFits DEF Return
<1>4. ASSUME NEW n \in Names, server[n] # NoServer PROVE server[n].id # 0
  BY <1>4 DEF RowsHaveIds
<1>5. ASSUME NEW row, NEW s \in Stages, row.server # 0, row.status # "none",
             s \in {"findLatest", "file"} => row.status = "requested"
      PROVE  Fits(s, [NoWork EXCEPT !.row = row])
  BY <1>5 DEF Fits, NoWork
<1>6. ASSUME NEW h \in Handlers, StatusCall(h) \/ DeleteCall(h) PROVE WorkFits'
  <2>1. PICK n \in Names, s \in {"setstatus", "drop"} :
          server[n] # NoServer /\ Goto(h, s, OnServer(server[n].id))
    BY <1>6 DEF StatusCall, DeleteCall, GetMCPServerByName
  <2>2. OnServer(server[n].id).row.server = server[n].id
    BY DEF OnServer, NoWork, NoGrant
  <2>3. Fits(s, OnServer(server[n].id))
    BY <1>4, <2>1, <2>2 DEF Fits
  <2> QED
    BY <2>1, <2>3, GotoFits
<1>7. ASSUME NEW h \in Handlers, GrantCall(h) PROVE WorkFits'
  <2>1. PICK in \in grantMCPReq :
          /\ server[in.server].status = "active"
          /\ Goto(h, "findActive", [NoWork EXCEPT !.row =
                 [server |-> server[in.server].id, owner |-> in.owner,
                  status |-> "active", expires |-> in.expires]])
    BY <1>7 DEF GrantCall, GetMCPServerByName
  <2>2. server[in.server] # NoServer /\ in.server \in Names
    BY <2>1 DEF NoServer, grantMCPReq
  <2> QED
    BY <1>4, <1>5, <2>1, <2>2, GotoFits DEF Stages
<1>8. ASSUME NEW h \in Handlers, RequestCall(h) PROVE WorkFits'
  <2>1. PICK in \in requestMCPReq :
          /\ server[in.server] # NoServer
          /\ Goto(h, "findLatest", [NoWork EXCEPT !.row =
                 [server |-> server[in.server].id, owner |-> in.owner,
                  status |-> "requested", expires |-> NoExpiry]])
    BY <1>8 DEF RequestCall, GetMCPServerByName
  <2>2. in.server \in Names
    BY DEF requestMCPReq
  <2> QED
    BY <1>4, <1>5, <2>1, <2>2, GotoFits DEF Stages
<1>9. ASSUME NEW h \in Handlers, GrantFind(h) \/ RequestFind(h) PROVE WorkFits'
  <2>1. CASE Return(h)
    BY <1>2, <2>1
  <2>2. CASE GrantFind(h) /\ Goto(h, "insert", work[h])
    <3>1. Fits("insert", work[h])
      BY <2>2 DEF GrantFind, WorkFits, Fits
    <3> QED
      BY <2>2, <3>1, GotoFits
  <2>3. CASE RequestFind(h) /\ Goto(h, "file", work[h])
    <3>1. Fits("file", work[h])
      BY <2>3 DEF RequestFind, WorkFits, Fits
    <3> QED
      BY <2>3, <3>1, GotoFits
  <2> QED
    BY <1>9, <2>1, <2>2, <2>3 DEF GrantFind, RequestFind
<1>12. ASSUME NEW h \in Handlers, AuthorizeCall(h) PROVE WorkFits'
  <2>1. PICK w : Goto(h, "authorize", w)
    BY <1>12 DEF AuthorizeCall
  <2>2. Fits("authorize", w)
    BY DEF Fits
  <2> QED
    BY <2>1, <2>2, GotoFits
<1>13. ASSUME NEW h \in Handlers, AuthorizeFind(h) PROVE WorkFits'
  <2>1. Return(h) \/ \E w : Goto(h, "allowed", w)
    BY <1>13 DEF AuthorizeFind
  <2>2. \A w : Fits("allowed", w)
    BY DEF Fits
  <2> QED
    BY <1>2, <2>1, <2>2, GotoFits
<1>14. ASSUME NEW h \in Handlers,
              \/ StatusWrite(h) \/ DeleteDrop(h) \/ GrantInsert(h) \/ RequestInsert(h)
              \/ AuthorizeAnswer(h) \/ WriteError(h)
       PROVE  WorkFits'
  BY <1>2, <1>14 DEF StatusWrite, DeleteDrop, GrantInsert, RequestInsert, AuthorizeAnswer, WriteError
<1>15. ASSUME NEW h \in Handlers, NEW g \in GrantIds,
              ApproveMCPGrant(h, g) \/ RejectMCPGrant(h, g) \/ RevokeGrant(h, g)
       PROVE  WorkFits'
  BY <1>1, <1>15 DEF ApproveMCPGrant, RejectMCPGrant, RevokeGrant
<1>16. CASE Tick \/ UNCHANGED vars
  BY <1>1, <1>16 DEF Tick, vars
<1>17. ASSUME NEW h \in Handlers, RegisterMCPServer(h) PROVE WorkFits'
  BY <1>1, <1>17 DEF RegisterMCPServer
<1> QED
  BY <1>6, <1>7, <1>8, <1>9, <1>12, <1>13, <1>14, <1>15, <1>16, <1>17 DEF Next, Step

-----------------------------------------------------------------------------
(***************************************************************************)
(* Decisions.                                                              *)
(***************************************************************************)

\* A step of a handler moves no other.
LEMMA StepFrame ==
    ASSUME NEW h \in Handlers, Step(h)
    PROVE  UNCHANGED <<stage, work>> \/ \E s, w : Goto(h, s, w)
<1>1. CASE \/ RegisterMCPServer(h)
           \/ \E g \in GrantIds :
                ApproveMCPGrant(h, g) \/ RejectMCPGrant(h, g) \/ RevokeGrant(h, g)
  BY <1>1 DEF RegisterMCPServer, ApproveMCPGrant, RejectMCPGrant, RevokeGrant
<1>2. CASE StatusCall(h) \/ DeleteCall(h) \/ GrantCall(h) \/ RequestCall(h) \/ AuthorizeCall(h)
  BY <1>2 DEF StatusCall, DeleteCall, GrantCall, RequestCall, AuthorizeCall
<1>3. CASE \/ StatusWrite(h) \/ DeleteDrop(h) \/ GrantInsert(h) \/ RequestInsert(h)
           \/ AuthorizeAnswer(h) \/ WriteError(h)
  BY <1>3 DEF StatusWrite, DeleteDrop, GrantInsert, RequestInsert, AuthorizeAnswer,
     WriteError, Return
<1>4. CASE GrantFind(h) \/ RequestFind(h)
  BY <1>4 DEF GrantFind, RequestFind, Return
<1>5. CASE AuthorizeFind(h)
  BY <1>5 DEF AuthorizeFind, Return
<1> QED
  BY <1>1, <1>2, <1>3, <1>4, <1>5 DEF Step

\* A step leaves the grants and the decisions alone, or takes some away with
\* their server, or files a request, or decides on one grant and gives it
\* the status of the decision.
LEMMA DecisionKinds ==
    ASSUME TypeOK, WorkFits, [Next]_vars
    PROVE  \/ decided' = decided /\ \A g \in GrantIds : \/ grant'[g] = grant[g]
                                                       \/ grant'[g].status # "active"
           \/ \E k \in GrantIds :
                /\ \A g \in GrantIds \ {k} : grant'[g] = grant[g] /\ decided'[g] = decided[g]
                /\ \/ decided'[k] = "in"
                   \/ decided'[k] = "out" /\ grant'[k].status # "active"
<1> DEFINE Same == decided' = decided /\ \A g \in GrantIds : \/ grant'[g] = grant[g]
                                                           \/ grant'[g].status # "active"
           One == \E k \in GrantIds :
                    /\ \A g \in GrantIds \ {k} : grant'[g] = grant[g] /\ decided'[g] = decided[g]
                    /\ \/ decided'[k] = "in"
                       \/ decided'[k] = "out" /\ grant'[k].status # "active"
<1>1. /\ grant \in [GrantIds -> Grants] /\ created \in 0 .. MaxGrants
      /\ decided \in [GrantIds -> Decisions]
  BY DEF TypeOK
<1>2. (UNCHANGED tables \/ grant' = grant) /\ decided' = decided => Same
  BY DEF tables
<1>3. ASSUME NEW k \in GrantIds, NEW s, NEW d, SetMCPGrantStatus(k, s), Decide(k, d)
      PROVE  /\ \A g \in GrantIds \ {k} : grant'[g] = grant[g] /\ decided'[g] = decided[g]
             /\ decided'[k] = d /\ grant'[k].status = s
  BY <1>1, <1>3 DEF SetMCPGrantStatus, Decide, Grants
<1>4. ASSUME NEW h \in Handlers, DeleteDrop(h) PROVE Same
  <2>1. NoGrant.status # "active"
    BY DEF NoGrant
  <2> QED
    BY <1>1, <1>4, <2>1 DEF DeleteDrop, DeleteMCPServer
<1>5. ASSUME NEW h \in Handlers, GrantInsert(h) PROVE Same \/ One
  <2>1. CASE UNCHANGED <<tables, decided>>
    BY <1>2, <2>1
  <2>2. CASE CreateMCPGrant(work[h].row) /\ Decide(created + 1, "in")
    <3>1. created + 1 \in GrantIds
      BY <1>1, <2>2, Constant DEF CreateMCPGrant, GrantIds
    <3>2. /\ \A g \in GrantIds \ {created + 1} : grant'[g] = grant[g] /\ decided'[g] = decided[g]
          /\ decided'[created + 1] = "in"
      BY <1>1, <2>2, <3>1 DEF CreateMCPGrant, Decide
    <3> QED
      BY <3>1, <3>2
  <2> QED
    BY <1>5, <2>1, <2>2 DEF GrantInsert
<1>6. ASSUME NEW h \in Handlers, RequestInsert(h) PROVE Same
  <2>1. CASE UNCHANGED tables
    BY <1>2, <1>6, <2>1 DEF RequestInsert
  <2>2. CASE CreateMCPGrant(work[h].row)
    <3>1. work[h].row.status # "active"
      BY <1>6 DEF RequestInsert, WorkFits
    <3> QED
      BY <1>1, <1>6, <2>2, <3>1 DEF RequestInsert, CreateMCPGrant
  <2> QED
    BY <1>6, <2>1, <2>2 DEF RequestInsert
<1>7. ASSUME NEW h \in Handlers, NEW k \in GrantIds, ApproveMCPGrant(h, k) PROVE One
  BY <1>3, <1>7 DEF ApproveMCPGrant
<1>8. ASSUME NEW h \in Handlers, NEW k \in GrantIds, RejectMCPGrant(h, k) \/ RevokeGrant(h, k)
      PROVE  One
  BY <1>3, <1>8 DEF RejectMCPGrant, RevokeGrant, RevokeMCPGrant
<1>9. ASSUME NEW h \in Handlers, RegisterMCPServer(h) \/ StatusWrite(h) PROVE Same
  BY <1>2, <1>9 DEF RegisterMCPServer, StatusWrite, CreateMCPServer, UpdateMCPServerStatus
<1>10. ASSUME NEW h \in Handlers,
              \/ StatusCall(h) \/ DeleteCall(h) \/ GrantCall(h) \/ GrantFind(h)
              \/ RequestCall(h) \/ RequestFind(h) \/ AuthorizeCall(h)
              \/ AuthorizeFind(h) \/ AuthorizeAnswer(h) \/ WriteError(h)
       PROVE  Same
  BY <1>2, <1>10 DEF StatusCall, DeleteCall, GrantCall, GrantFind, RequestCall, RequestFind,
     AuthorizeCall, AuthorizeFind, AuthorizeAnswer, WriteError
<1>11. Tick \/ UNCHANGED vars => Same
  BY <1>2 DEF Tick, vars
<1>12. Same \/ One
  BY <1>4, <1>5, <1>6, <1>7, <1>8, <1>9, <1>10, <1>11 DEF Next, Step
<1> QED
  BY <1>12

\* An agent is let in by an active grant only.
LEMMA NewlyAllowed ==
    ASSUME TypeOK, [Next]_vars, NEW h \in Handlers, stage'[h] = "allowed"
    PROVE  \/ stage[h] = "allowed" /\ work'[h] = work[h]
           \/ \E g \in GrantIds : grant[g].status = "active" /\ work'[h].found = g
<1>1. UNCHANGED <<stage, work>> => stage[h] = "allowed" /\ work'[h] = work[h]
  OBVIOUS
<1>2. ASSUME NEW k \in Handlers, NEW s, NEW w, Goto(k, s, w)
      PROVE  /\ k = h => s = "allowed" /\ work'[h] = w
             /\ k # h => stage[h] = "allowed" /\ work'[h] = work[h]
  BY <1>2 DEF TypeOK, Goto
<1>3. ASSUME NEW k \in Handlers, Step(k), k # h
      PROVE  stage[h] = "allowed" /\ work'[h] = work[h]
  BY <1>1, <1>2, <1>3, StepFrame
<1>4. CASE AuthorizeFind(h)
  <2>1. PICK g \in GrantIds : grant[g].status = "active" /\ Goto(h, "allowed", [NoWork EXCEPT !.found = g])
    <3>1. ~ Return(h)
      BY <1>2 DEF Return
    <3> QED
      BY <1>4, <3>1 DEF AuthorizeFind, FindActiveMCPGrant, Newest
  <2>2. work'[h].found = g
    BY <1>2, <2>1 DEF NoWork
  <2> QED
    BY <2>1, <2>2
<1>5. CASE StatusWrite(h) \/ DeleteDrop(h) \/ RequestInsert(h) \/ AuthorizeAnswer(h)
           \/ WriteError(h) \/ GrantInsert(h)
  BY <1>2, <1>5 DEF StatusWrite, DeleteDrop, RequestInsert, AuthorizeAnswer, WriteError,
     GrantInsert, Return
<1>6. CASE \/ StatusCall(h) \/ DeleteCall(h) \/ GrantCall(h) \/ RequestCall(h)
           \/ AuthorizeCall(h)
  <2>1. PICK s \in Stages \ {"allowed"} : \E w : Goto(h, s, w)
    <3>1. {"setstatus", "drop", "findActive", "findLatest", "authorize"}
            \subseteq Stages \ {"allowed"}
      BY DEF Stages
    <3> QED
      BY <1>6, <3>1 DEF StatusCall, DeleteCall, GrantCall, RequestCall, AuthorizeCall
  <2> QED
    BY <1>2, <2>1
<1>7. CASE GrantFind(h) \/ RequestFind(h)
  BY <1>2, <1>7 DEF GrantFind, RequestFind, Return
<1>8. CASE \/ RegisterMCPServer(h)
           \/ \E g \in GrantIds :
                ApproveMCPGrant(h, g) \/ RejectMCPGrant(h, g) \/ RevokeGrant(h, g)
  BY <1>1, <1>8 DEF RegisterMCPServer, ApproveMCPGrant, RejectMCPGrant, RevokeGrant
<1>10. CASE Tick \/ UNCHANGED vars
  BY <1>1, <1>10 DEF Tick, vars
<1> QED
  BY <1>3, <1>4, <1>5, <1>6, <1>7, <1>8, <1>10 DEF Next, Step

\* Both claims about decisions are kept.
LEMMA DecisionStep == MCPInv /\ [Next]_vars => ActiveIsDecided' /\ AllowedIsDecided'
<1> SUFFICES ASSUME MCPInv, [Next]_vars PROVE ActiveIsDecided' /\ AllowedIsDecided'
  OBVIOUS
<1>1. TypeOK /\ WorkFits /\ ActiveIsDecided /\ AllowedIsDecided
  BY DEF MCPInv
<1>2. ASSUME NEW g \in GrantIds, grant'[g].status = "active" PROVE decided'[g] = "in"
  BY <1>1, <1>2, DecisionKinds DEF ActiveIsDecided
<1>3. ASSUME NEW g \in GrantIds, decided[g] # "never" PROVE decided'[g] # "never"
  BY <1>1, <1>3, DecisionKinds
<1>4. ASSUME NEW h \in Handlers, stage'[h] = "allowed"
      PROVE  work'[h].found # 0 /\ decided'[work'[h].found] # "never"
  <2>1. CASE stage[h] = "allowed" /\ work'[h] = work[h]
    <3>1. /\ work[h].found # 0 /\ decided[work[h].found] # "never"
          /\ work[h].found \in 0 .. MaxGrants
      BY <1>1, <2>1 DEF AllowedIsDecided, TypeOK, Works
    <3>2. work[h].found \in GrantIds
      BY <3>1, Constant DEF GrantIds
    <3> QED
      BY <1>3, <2>1, <3>1, <3>2
  <2>2. ASSUME NEW g \in GrantIds, grant[g].status = "active", work'[h].found = g
        PROVE  work'[h].found # 0 /\ decided'[work'[h].found] # "never"
    <3>1. g # 0 /\ decided[g] # "never"
      BY <1>1, <2>2, Constant DEF ActiveIsDecided, GrantIds
    <3> QED
      BY <1>3, <2>2, <3>1
  <2> QED
    BY <1>1, <1>4, <2>1, <2>2, NewlyAllowed
<1> QED
  BY <1>2, <1>4 DEF ActiveIsDecided, AllowedIsDecided

-----------------------------------------------------------------------------
(***************************************************************************)
(* The theorems.                                                           *)
(***************************************************************************)

\* The empty registry satisfies the invariant, ...
LEMMA InitInv == Init => MCPInv
<1> SUFFICES ASSUME Init PROVE MCPInv
  OBVIOUS
<1>1. TypeOK
  BY Constant DEF Init, TypeOK, Stages, Decisions
<1> QED
  BY <1>1 DEF Init, MCPInv, RowsHaveIds, WorkFits, GrantsStand, ActiveIsDecided,
     AllowedIsDecided, NoGrant, NoServer

\* ... and every step of a handler or of the clock keeps it.
LEMMA StepInv == MCPInv /\ [Next]_vars => MCPInv'
BY TypeStep, StandStep, WorkStep, DecisionStep DEF MCPInv

\* The inductive invariant holds in every behaviour of the MCP registry.
THEOREM MCPInvariant == Spec => []MCPInv
<1>1. Init => MCPInv
  BY InitInv
<1>2. MCPInv /\ [Next]_vars => MCPInv'
  BY StepInv
<1> QED
  BY <1>1, <1>2, PTL DEF Spec

\* Types: rows, handlers and decisions stay in their domains.
THEOREM MCPTypeCorrect == Spec => []TypeOK
<1>1. MCPInv => TypeOK
  BY DEF MCPInv
<1> QED
  BY <1>1, MCPInvariant, PTL

\* No grant is ever active that an operator did not let in last (mcp.go:
\* GrantMCP and ApproveMCPGrant are the only ways in, after a rejection and
\* a revoke too).
THEOREM ActiveIsDecidedHolds == Spec => []ActiveIsDecided
<1>1. MCPInv => ActiveIsDecided
  BY DEF MCPInv
<1> QED
  BY <1>1, MCPInvariant, PTL

\* AuthorizeMCP lets an agent in only on such a grant, whatever happens
\* between its two reads and its answer.
THEOREM AllowedIsDecidedHolds == Spec => []AllowedIsDecided
<1>1. MCPInv => AllowedIsDecided
  BY DEF MCPInv
<1> QED
  BY <1>1, MCPInvariant, PTL

\* A grant never outlives its server, for any number of deletions and late
\* inserts (mcp.go: DeleteMCPServer).
THEOREM GrantsHaveServerHolds == Spec => []GrantsHaveServer
<1>1. MCPInv => GrantsHaveServer
  BY DEF MCPInv, GrantsStand, GrantsHaveServer
<1> QED
  BY <1>1, MCPInvariant, PTL

=============================================================================
