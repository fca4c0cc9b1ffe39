----------------------- MODULE AccessLifecycleProofs -----------------------
(***************************************************************************)
(* Proofs about AccessLifecycle, for any number of requests and handlers.  *)
(***************************************************************************)
EXTENDS AccessLifecycle, FiniteSetTheorems, TLAPS

(***************************************************************************)
(* What a handler knows from where it stands.                              *)
(***************************************************************************)

\* A deciding handler works on its own row of the request; a revoking or
\* recertifying one on some row.
WorkFits ==
    \A h \in Handlers :
        /\ stage[h] \in ApproveStages \cup {"reject"} =>
               \E r \in Requests : work[h] = <<r, h>>
        /\ stage[h] \in RevokeStages \cup {"recertify"} => work[h] \in Instances

\* Past its decision, an approval has taken the request out of pending.
Decided(r) == request[r] \notin {"absent", "pending_approval"}

DecisionMade ==
    \A h \in Handlers :
        stage[h] \in ApproveStages \ {"decide"} => Decided(work[h][1])

\* The row of an approval is not there before its insert.
RowIsNew ==
    \A h \in Handlers :
        stage[h] \in {"decide", "govern", "grant", "insert"} => status[work[h]] = "none"

ControlInv == TypeOK /\ WorkFits /\ DecisionMade /\ NothingBeforeDecision

-----------------------------------------------------------------------------
\* An instance is a request and the handler that approves it ...
LEMMA InstanceParts ==
    ASSUME NEW i \in Instances
    PROVE  /\ i[1] \in Requests /\ i[2] \in Handlers
           /\ i = <<i[1], i[2]>>
BY DEF Instances

\* ... and every such pair is an instance.
LEMMA InstancePair ==
    ASSUME NEW r \in Requests, NEW h \in Handlers
    PROVE  <<r, h>> \in Instances
BY DEF Instances

\* A deciding handler works on its own row.
LEMMA OwnRow ==
    ASSUME WorkFits, NEW h \in Handlers,
           stage[h] \in ApproveStages \cup {"reject"}
    PROVE  /\ work[h] \in Instances /\ work[h][1] \in Requests
           /\ work[h] = <<work[h][1], h>>
<1>1. PICK r \in Requests : work[h] = <<r, h>>
  BY DEF WorkFits
<1>2. work[h][1] = r /\ <<r, h>> \in Instances
  BY <1>1, InstancePair
<1> QED
  BY <1>1, <1>2

\* The clock and every expiry a handler writes stay inside Times.
LEMMA TimesBound ==
    ASSUME NEW t \in 1 .. MaxTime
    PROVE  /\ t \in Times /\ t + Extension \in Times /\ 0 \in Times
           /\ t < MaxTime => t + 1 \in 1 .. MaxTime
BY AccessAssumption DEF Times, NoExpiry

\* Types and control hold initially.
LEMMA InitControl == Init => ControlInv
<1> SUFFICES ASSUME Init PROVE ControlInv
  OBVIOUS
<1>1. 0 \in Times /\ 1 \in 1 .. MaxTime
  BY AccessAssumption DEF Times, NoExpiry
<1>2. TypeOK
  BY <1>1 DEF Init, TypeOK, RequestStatus, InstanceStatus, Stages
<1>3. WorkFits /\ DecisionMade
  BY DEF Init, WorkFits, DecisionMade, ApproveStages, RevokeStages
<1>4. NothingBeforeDecision
  BY InstancePair DEF Init, NothingBeforeDecision
<1> QED
  BY <1>2, <1>3, <1>4 DEF ControlInv

\* What a step writes has the right type when the handler holds what its
\* stage says.
LEMMA TypeStep == TypeOK /\ WorkFits /\ [Next]_vars => TypeOK'
<1> SUFFICES ASSUME TypeOK, WorkFits, [Next]_vars PROVE TypeOK'
  OBVIOUS
<1> USE DEF TypeOK, rowVars, handlerVars
<1>1. CASE Tick
  BY <1>1, TimesBound DEF Tick
<1>2. ASSUME NEW r \in Requests, FileRequest(r) PROVE TypeOK'
  BY <1>2, AccessAssumption DEF FileRequest, RequestStatus
<1>3. ASSUME NEW h \in Handlers, NEW r \in Requests, ApproveStart(h, r) PROVE TypeOK'
  BY <1>3, InstancePair DEF ApproveStart, Begin, ApproveStages, Stages
<1>4. ASSUME NEW h \in Handlers, NEW r \in Requests, RejectStart(h, r) PROVE TypeOK'
  BY <1>4, InstancePair DEF RejectStart, Begin, Stages
<1>5. ASSUME NEW h \in Handlers, NEW i \in Instances, RevokeStart(h, i) PROVE TypeOK'
  BY <1>5 DEF RevokeStart, Begin, RevokeStages, Stages
<1>6. ASSUME NEW h \in Handlers, NEW i \in Instances, RecertifyStart(h, i) PROVE TypeOK'
  BY <1>6 DEF RecertifyStart, Begin, Stages
<1>7. ASSUME NEW h \in Handlers, ReapStart(h) PROVE TypeOK'
  BY <1>7 DEF ReapStart, Stages, Expired, Active
<1>8. ASSUME NEW h \in Handlers, DeleteStart(h) PROVE TypeOK'
  BY <1>8 DEF DeleteStart, GoTo, Stages
<1>9. ASSUME NEW h \in Handlers, ApproveDecide(h) PROVE TypeOK'
  BY <1>9, InstanceParts DEF ApproveDecide, GoTo, SetRequest, ApproveStages,
         Stages, RequestStatus
<1>10. ASSUME NEW h \in Handlers, ApproveGovern(h) PROVE TypeOK'
  BY <1>10 DEF ApproveGovern, GoTo, ApproveStages, Stages
<1>11. ASSUME NEW h \in Handlers, ApproveGrant(h) PROVE TypeOK'
  BY <1>11, InstanceParts DEF ApproveGrant, GoTo, WorkFits, ApproveStages, Stages
<1>12. ASSUME NEW h \in Handlers, ApproveInsert(h) PROVE TypeOK'
  <2>1. work[h] \in Instances /\ work[h][1] \in Requests
    BY <1>12, OwnRow DEF ApproveInsert, ApproveStages
  <2>2. status' \in [Instances -> InstanceStatus] /\ expires' \in [Instances -> Times]
    BY <1>12, <2>1 DEF ApproveInsert, InstanceStatus
  <2> QED
    BY <1>12, <2>2 DEF ApproveInsert, GoTo, ApproveStages, Stages
<1>13. ASSUME NEW h \in Handlers, ApproveEnd(h) PROVE TypeOK'
  BY <1>13, InstanceParts DEF ApproveEnd, Return, SetRequest, Stages, RequestStatus
<1>14. ASSUME NEW h \in Handlers, RejectDecide(h) PROVE TypeOK'
  BY <1>14, InstanceParts DEF RejectDecide, Return, SetRequest, Stages,
         RequestStatus
<1>15. ASSUME NEW h \in Handlers, RevokeLoad(h) PROVE TypeOK'
  BY <1>15 DEF RevokeLoad, GoTo, Return, RevokeStages, Stages
<1>16. ASSUME NEW h \in Handlers, RevokeWithdraw(h) PROVE TypeOK'
  BY <1>16, InstanceParts DEF RevokeWithdraw, GoTo, RevokeStages, Stages
<1>17. ASSUME NEW h \in Handlers, RevokeRecord(h) PROVE TypeOK'
  <2>1. work[h] \in Instances
    BY <1>17 DEF RevokeRecord, WorkFits, RevokeStages
  <2>2. status' \in [Instances -> InstanceStatus] /\ revokedAt' \in [Instances -> Times]
    BY <1>17, <2>1, TimesBound DEF RevokeRecord, InstanceStatus
  <2> QED
    BY <1>17, <2>2 DEF RevokeRecord, Return, Stages
<1>18. ASSUME NEW h \in Handlers, RecertifyWrite(h) PROVE TypeOK'
  BY <1>18, TimesBound, InstanceParts DEF RecertifyWrite, Return, Stages
<1>19. ASSUME NEW h \in Handlers, ReapNext(h) PROVE TypeOK'
  BY <1>19 DEF ReapNext, Begin, RevokeStages, Stages
<1>20. ASSUME NEW h \in Handlers, DeletePurge(h) PROVE TypeOK'
  BY <1>20, TimesBound DEF DeletePurge, GoTo, Stages, InstanceStatus
<1>21. ASSUME NEW h \in Handlers, DeleteDrop(h) PROVE TypeOK'
  BY <1>21 DEF DeleteDrop, Return, Stages
<1>22. ASSUME NEW h \in Handlers, GovernFailsOpen(h) PROVE TypeOK'
  BY <1>22 DEF GovernFailsOpen, GoTo, ApproveStages, Stages
<1>23. ASSUME NEW h \in Handlers, GrantWithoutKey(h) PROVE TypeOK'
  BY <1>23 DEF GrantWithoutKey, GoTo, ApproveStages, Stages
<1>24. ASSUME NEW h \in Handlers, GrantError(h) PROVE TypeOK'
  BY <1>24, InstanceParts DEF GrantError, GoTo, WorkFits, ApproveStages, Stages
<1>25. ASSUME NEW h \in Handlers, WithdrawWithoutKey(h) PROVE TypeOK'
  BY <1>25 DEF WithdrawWithoutKey, GoTo, RevokeStages, Stages
<1>26. ASSUME NEW h \in Handlers, WithdrawError(h) PROVE TypeOK'
  BY <1>26, InstanceParts DEF WithdrawError, Return, Stages
<1>27. ASSUME NEW h \in Handlers, WriteError(h) PROVE TypeOK'
  BY <1>27 DEF WriteError, GoTo, Return, ApproveStages, Stages
<1>28. ASSUME NEW h \in Handlers, Abandon(h) PROVE TypeOK'
  BY <1>28 DEF Abandon, Stages
<1>29. CASE UNCHANGED vars
  BY <1>29 DEF vars
<1> QED
  BY <1>1, <1>2, <1>3, <1>4, <1>5, <1>6, <1>7, <1>8, <1>9, <1>10, <1>11, <1>12,
     <1>13, <1>14, <1>15, <1>16, <1>17, <1>18, <1>19, <1>20, <1>21, <1>22,
     <1>23, <1>24, <1>25, <1>26, <1>27, <1>28, <1>29 DEF Next, Start, Continue,
         Fail

\* Only these steps write requests.status ...
LEMMA RequestFrame ==
    [Next]_vars => \/ UNCHANGED request
                   \/ \E r \in Requests : FileRequest(r)
                   \/ \E h \in Handlers : ApproveDecide(h) \/ ApproveEnd(h) \/ RejectDecide(h)
BY DEF Next, Start, Continue, Fail, vars, rowVars, handlerVars, Tick,
       ApproveStart, RejectStart, RevokeStart, RecertifyStart, ReapStart,
       DeleteStart, ApproveGovern, ApproveGrant, ApproveInsert, RevokeLoad,
       RevokeWithdraw, RevokeRecord, RecertifyWrite, ReapNext, DeletePurge,
       DeleteDrop, GovernFailsOpen, GrantWithoutKey, GrantError,
       WithdrawWithoutKey, WithdrawError, WriteError, Abandon

\* ... only these the status of a row ...
LEMMA StatusFrame ==
    [Next]_vars => \/ UNCHANGED status
                   \/ \E h \in Handlers : ApproveInsert(h) \/ RevokeRecord(h) \/ DeletePurge(h)
BY DEF Next, Start, Continue, Fail, vars, rowVars, handlerVars, Tick,
       FileRequest, ApproveStart, RejectStart, RevokeStart, RecertifyStart,
       ReapStart, DeleteStart, ApproveDecide, ApproveGovern, ApproveGrant,
       ApproveEnd, RejectDecide, RevokeLoad, RevokeWithdraw, RecertifyWrite,
       ReapNext, DeleteDrop, GovernFailsOpen, GrantWithoutKey, GrantError,
       WithdrawWithoutKey, WithdrawError, WriteError, Abandon

\* ... and only these the provider.
LEMMA UpstreamFrame ==
    [Next]_vars => \/ UNCHANGED upstream
                   \/ \E h \in Handlers : \/ ApproveGrant(h) \/ GrantError(h)
                                         \/ RevokeWithdraw(h) \/ WithdrawError(h)
BY DEF Next, Start, Continue, Fail, vars, rowVars, handlerVars, Tick,
       FileRequest, ApproveStart, RejectStart, RevokeStart, RecertifyStart,
       ReapStart, DeleteStart, ApproveDecide, ApproveGovern, ApproveInsert,
       ApproveEnd, RejectDecide, RevokeLoad, RevokeRecord, RecertifyWrite,
       ReapNext, DeletePurge, DeleteDrop, GovernFailsOpen, GrantWithoutKey,
       WithdrawWithoutKey, WriteError, Abandon

\* A request that has left pending_approval stays out.
LEMMA DecidedStays ==
    ASSUME TypeOK, WorkFits, [Next]_vars, NEW r \in Requests, Decided(r)
    PROVE  Decided(r)'
<1>1. request \in [Requests -> RequestStatus]
  BY DEF TypeOK
<1>2. CASE UNCHANGED request
  BY <1>2 DEF Decided
<1>3. ASSUME NEW q \in Requests, FileRequest(q) PROVE Decided(r)'
  BY <1>1, <1>3 DEF FileRequest, Decided
<1>4. ASSUME NEW h \in Handlers, ApproveDecide(h) \/ ApproveEnd(h) \/ RejectDecide(h)
      PROVE Decided(r)'
  <2>1. work[h][1] \in Requests
    BY <1>4, OwnRow DEF ApproveDecide, ApproveEnd, RejectDecide, ApproveStages
  <2> QED
    BY <1>1, <1>4, <2>1 DEF ApproveDecide, ApproveEnd, RejectDecide, SetRequest,
           Decided
<1> QED
  BY <1>2, <1>3, <1>4, RequestFrame

\* A handler enters a stage with the row that the stage needs.
LEMMA WorkFitsStep == TypeOK /\ WorkFits /\ [Next]_vars => WorkFits'
<1> SUFFICES ASSUME TypeOK, WorkFits, [Next]_vars PROVE WorkFits'
  OBVIOUS
<1> USE DEF WorkFits, ApproveStages, RevokeStages
<1>1. stage \in [Handlers -> Stages] /\ work \in [Handlers -> Instances \cup {None}]
      /\ todo \in [Handlers -> SUBSET Instances]
  BY DEF TypeOK
<1>2. CASE Tick
  BY <1>2 DEF Tick, handlerVars
<1>3. ASSUME NEW r \in Requests, FileRequest(r) PROVE WorkFits'
  BY <1>3 DEF FileRequest, handlerVars
<1>4. ASSUME NEW h \in Handlers, NEW r \in Requests, ApproveStart(h, r) PROVE WorkFits'
  BY <1>4, <1>1 DEF ApproveStart, Begin
<1>5. ASSUME NEW h \in Handlers, NEW r \in Requests, RejectStart(h, r) PROVE WorkFits'
  BY <1>5, <1>1 DEF RejectStart, Begin
<1>6. ASSUME NEW h \in Handlers, NEW i \in Instances, RevokeStart(h, i) PROVE WorkFits'
  BY <1>6, <1>1 DEF RevokeStart, Begin
<1>7. ASSUME NEW h \in Handlers, NEW i \in Instances, RecertifyStart(h, i) PROVE WorkFits'
  BY <1>7, <1>1 DEF RecertifyStart, Begin
<1>8. ASSUME NEW h \in Handlers, ReapStart(h) PROVE WorkFits'
  BY <1>8, <1>1 DEF ReapStart, Idle
<1>9. ASSUME NEW h \in Handlers, DeleteStart(h) PROVE WorkFits'
  BY <1>9, <1>1 DEF DeleteStart, GoTo
<1>10. ASSUME NEW h \in Handlers, ApproveDecide(h) PROVE WorkFits'
  BY <1>10, <1>1 DEF ApproveDecide, GoTo
<1>11. ASSUME NEW h \in Handlers, ApproveGovern(h) PROVE WorkFits'
  BY <1>11, <1>1 DEF ApproveGovern, GoTo
<1>12. ASSUME NEW h \in Handlers, ApproveGrant(h) PROVE WorkFits'
  BY <1>12, <1>1 DEF ApproveGrant, GoTo
<1>13. ASSUME NEW h \in Handlers, ApproveInsert(h) PROVE WorkFits'
  BY <1>13, <1>1 DEF ApproveInsert, GoTo
<1>14. ASSUME NEW h \in Handlers, ApproveEnd(h) PROVE WorkFits'
  BY <1>14, <1>1 DEF ApproveEnd, Return
<1>15. ASSUME NEW h \in Handlers, RejectDecide(h) PROVE WorkFits'
  BY <1>15, <1>1 DEF RejectDecide, Return
<1>16. ASSUME NEW h \in Handlers, RevokeLoad(h) PROVE WorkFits'
  BY <1>16, <1>1 DEF RevokeLoad, GoTo, Return
<1>17. ASSUME NEW h \in Handlers, RevokeWithdraw(h) PROVE WorkFits'
  BY <1>17, <1>1 DEF RevokeWithdraw, GoTo
<1>18. ASSUME NEW h \in Handlers, RevokeRecord(h) PROVE WorkFits'
  BY <1>18, <1>1 DEF RevokeRecord, Return
<1>19. ASSUME NEW h \in Handlers, RecertifyWrite(h) PROVE WorkFits'
  BY <1>19, <1>1 DEF RecertifyWrite, Return
<1>20. ASSUME NEW h \in Handlers, ReapNext(h) PROVE WorkFits'
  BY <1>20, <1>1 DEF ReapNext, Begin
<1>21. ASSUME NEW h \in Handlers, DeletePurge(h) PROVE WorkFits'
  BY <1>21, <1>1 DEF DeletePurge, GoTo
<1>22. ASSUME NEW h \in Handlers, DeleteDrop(h) PROVE WorkFits'
  BY <1>22, <1>1 DEF DeleteDrop, Return
<1>23. ASSUME NEW h \in Handlers, GovernFailsOpen(h) PROVE WorkFits'
  BY <1>23, <1>1 DEF GovernFailsOpen, GoTo
<1>24. ASSUME NEW h \in Handlers, GrantWithoutKey(h) PROVE WorkFits'
  BY <1>24, <1>1 DEF GrantWithoutKey, GoTo
<1>25. ASSUME NEW h \in Handlers, GrantError(h) PROVE WorkFits'
  BY <1>25, <1>1 DEF GrantError, GoTo
<1>26. ASSUME NEW h \in Handlers, WithdrawWithoutKey(h) PROVE WorkFits'
  BY <1>26, <1>1 DEF WithdrawWithoutKey, GoTo
<1>27. ASSUME NEW h \in Handlers, WithdrawError(h) PROVE WorkFits'
  BY <1>27, <1>1 DEF WithdrawError, Return
<1>28. ASSUME NEW h \in Handlers, WriteError(h) PROVE WorkFits'
  BY <1>28, <1>1 DEF WriteError, GoTo, Return
<1>29. ASSUME NEW h \in Handlers, Abandon(h) PROVE WorkFits'
  BY <1>29, <1>1 DEF Abandon, Idle
<1>30. CASE UNCHANGED vars
  BY <1>30 DEF vars, handlerVars
<1> QED
  BY <1>2, <1>3, <1>4, <1>5, <1>6, <1>7, <1>8, <1>9, <1>10, <1>11, <1>12, <1>13,
     <1>14, <1>15, <1>16, <1>17, <1>18, <1>19, <1>20, <1>21, <1>22, <1>23,
     <1>24, <1>25, <1>26, <1>27, <1>28, <1>29, <1>30 DEF Next, Start, Continue,
         Fail

\* No handler goes past its decision without having written it, and none
\* takes the decision of another back.
LEMMA DecisionMadeStep == ControlInv /\ [Next]_vars => DecisionMade'
<1> SUFFICES ASSUME TypeOK, WorkFits, DecisionMade, [Next]_vars PROVE DecisionMade'
  BY DEF ControlInv
<1> USE DEF DecisionMade, ApproveStages
<1>1. stage \in [Handlers -> Stages] /\ work \in [Handlers -> Instances \cup {None}]
      /\ request \in [Requests -> RequestStatus]
  BY DEF TypeOK
<1>d. \A r \in Requests : Decided(r) => Decided(r)'
  BY DecidedStays
<1>w. \A g \in Handlers : stage[g] \in ApproveStages => work[g][1] \in Requests
  BY OwnRow
<1>2. CASE Tick
  BY <1>2, <1>d, <1>w DEF Tick, handlerVars
<1>3. ASSUME NEW r \in Requests, FileRequest(r) PROVE DecisionMade'
  BY <1>3, <1>d, <1>w DEF FileRequest, handlerVars
<1>4. ASSUME NEW h \in Handlers, NEW r \in Requests, ApproveStart(h, r) PROVE DecisionMade'
  BY <1>4, <1>1, <1>d, <1>w DEF ApproveStart, Begin
<1>5. ASSUME NEW h \in Handlers, NEW r \in Requests, RejectStart(h, r) PROVE DecisionMade'
  BY <1>5, <1>1, <1>d, <1>w DEF RejectStart, Begin
<1>6. ASSUME NEW h \in Handlers, NEW i \in Instances, RevokeStart(h, i) PROVE DecisionMade'
  BY <1>6, <1>1, <1>d, <1>w DEF RevokeStart, Begin
<1>7. ASSUME NEW h \in Handlers, NEW i \in Instances, RecertifyStart(h, i) PROVE DecisionMade'
  BY <1>7, <1>1, <1>d, <1>w DEF RecertifyStart, Begin
<1>8. ASSUME NEW h \in Handlers, ReapStart(h) PROVE DecisionMade'
  BY <1>8, <1>1, <1>d, <1>w DEF ReapStart, Idle
<1>9. ASSUME NEW h \in Handlers, DeleteStart(h) PROVE DecisionMade'
  BY <1>9, <1>1, <1>d, <1>w DEF DeleteStart, GoTo
<1>10. ASSUME NEW h \in Handlers, ApproveDecide(h) PROVE DecisionMade'
  BY <1>10, <1>1, <1>d, <1>w DEF ApproveDecide, GoTo, SetRequest, Decided
<1>11. ASSUME NEW h \in Handlers, ApproveGovern(h) PROVE DecisionMade'
  BY <1>11, <1>1, <1>d, <1>w DEF ApproveGovern, GoTo
<1>12. ASSUME NEW h \in Handlers, ApproveGrant(h) PROVE DecisionMade'
  BY <1>12, <1>1, <1>d, <1>w DEF ApproveGrant, GoTo
<1>13. ASSUME NEW h \in Handlers, ApproveInsert(h) PROVE DecisionMade'
  BY <1>13, <1>1, <1>d, <1>w DEF ApproveInsert, GoTo
<1>14. ASSUME NEW h \in Handlers, ApproveEnd(h) PROVE DecisionMade'
  BY <1>14, <1>1, <1>d, <1>w DEF ApproveEnd, Return
<1>15. ASSUME NEW h \in Handlers, RejectDecide(h) PROVE DecisionMade'
  BY <1>15, <1>1, <1>d, <1>w DEF RejectDecide, Return
<1>16. ASSUME NEW h \in Handlers, RevokeLoad(h) PROVE DecisionMade'
  BY <1>16, <1>1, <1>d, <1>w DEF RevokeLoad, GoTo, Return
<1>17. ASSUME NEW h \in Handlers, RevokeWithdraw(h) PROVE DecisionMade'
  BY <1>17, <1>1, <1>d, <1>w DEF RevokeWithdraw, GoTo
<1>18. ASSUME NEW h \in Handlers, RevokeRecord(h) PROVE DecisionMade'
  BY <1>18, <1>1, <1>d, <1>w DEF RevokeRecord, Return
<1>19. ASSUME NEW h \in Handlers, RecertifyWrite(h) PROVE DecisionMade'
  BY <1>19, <1>1, <1>d, <1>w DEF RecertifyWrite, Return
<1>20. ASSUME NEW h \in Handlers, ReapNext(h) PROVE DecisionMade'
  BY <1>20, <1>1, <1>d, <1>w DEF ReapNext, Begin
<1>21. ASSUME NEW h \in Handlers, DeletePurge(h) PROVE DecisionMade'
  BY <1>21, <1>1, <1>d, <1>w DEF DeletePurge, GoTo
<1>22. ASSUME NEW h \in Handlers, DeleteDrop(h) PROVE DecisionMade'
  BY <1>22, <1>1, <1>d, <1>w DEF DeleteDrop, Return
<1>23. ASSUME NEW h \in Handlers, GovernFailsOpen(h) PROVE DecisionMade'
  BY <1>23, <1>1, <1>d, <1>w DEF GovernFailsOpen, GoTo
<1>24. ASSUME NEW h \in Handlers, GrantWithoutKey(h) PROVE DecisionMade'
  BY <1>24, <1>1, <1>d, <1>w DEF GrantWithoutKey, GoTo
<1>25. ASSUME NEW h \in Handlers, GrantError(h) PROVE DecisionMade'
  BY <1>25, <1>1, <1>d, <1>w DEF GrantError, GoTo
<1>26. ASSUME NEW h \in Handlers, WithdrawWithoutKey(h) PROVE DecisionMade'
  BY <1>26, <1>1, <1>d, <1>w DEF WithdrawWithoutKey, GoTo
<1>27. ASSUME NEW h \in Handlers, WithdrawError(h) PROVE DecisionMade'
  BY <1>27, <1>1, <1>d, <1>w DEF WithdrawError, Return
<1>28. ASSUME NEW h \in Handlers, WriteError(h) PROVE DecisionMade'
  BY <1>28, <1>1, <1>d, <1>w DEF WriteError, GoTo, Return
<1>29. ASSUME NEW h \in Handlers, Abandon(h) PROVE DecisionMade'
  BY <1>29, <1>1, <1>d, <1>w DEF Abandon, Idle
<1>30. CASE UNCHANGED vars
  BY <1>30, <1>d, <1>w DEF vars, handlerVars
<1> QED
  BY <1>2, <1>3, <1>4, <1>5, <1>6, <1>7, <1>8, <1>9, <1>10, <1>11, <1>12, <1>13,
     <1>14, <1>15, <1>16, <1>17, <1>18, <1>19, <1>20, <1>21, <1>22, <1>23,
     <1>24, <1>25, <1>26, <1>27, <1>28, <1>29, <1>30 DEF Next, Start, Continue,
         Fail

\* Only an approval past its decision creates a row or access.
LEMMA NothingBeforeDecisionStep == ControlInv /\ [Next]_vars => NothingBeforeDecision'
<1> SUFFICES ASSUME ControlInv, [Next]_vars,
                    NEW r \in Requests, ~Decided(r)'
             PROVE  (r \notin upstream /\ \A g \in Handlers : status[<<r, g>>] = "none")'
  BY DEF NothingBeforeDecision, Decided
<1>1. TypeOK /\ WorkFits /\ DecisionMade
  BY DEF ControlInv
<1>2. ~Decided(r)
  BY <1>1, DecidedStays
<1>3. r \notin upstream /\ \A g \in Handlers : status[<<r, g>>] = "none"
  BY <1>2 DEF ControlInv, NothingBeforeDecision, Decided
<1>4. ASSUME NEW h \in Handlers, stage[h] \in {"grant", "insert"}
      PROVE  work[h] \in Instances /\ work[h][1] # r
  BY <1>1, <1>2, <1>4, OwnRow DEF DecisionMade, ApproveStages
<1>5. r \notin upstream'
  <2>1. CASE UNCHANGED upstream
    BY <1>3, <2>1
  <2>2. ASSUME NEW h \in Handlers, ApproveGrant(h) \/ GrantError(h) PROVE r \notin upstream'
    BY <1>3, <1>4, <2>2 DEF ApproveGrant, GrantError
  <2>3. ASSUME NEW h \in Handlers, RevokeWithdraw(h) \/ WithdrawError(h) PROVE r \notin upstream'
    BY <1>3, <2>3 DEF RevokeWithdraw, WithdrawError
  <2> QED
    BY <2>1, <2>2, <2>3, UpstreamFrame
<1>6. ASSUME NEW g \in Handlers PROVE status'[<<r, g>>] = "none"
  <2>0. status \in [Instances -> InstanceStatus] /\ <<r, g>> \in Instances
    BY <1>1, InstancePair DEF TypeOK
  <2>1. CASE UNCHANGED status
    BY <1>3, <2>1
  <2>2. ASSUME NEW h \in Handlers, ApproveInsert(h) PROVE status'[<<r, g>>] = "none"
    <3>1. work[h] # <<r, g>>
      BY <1>4, <2>2 DEF ApproveInsert
    <3> QED
      BY <1>3, <2>0, <2>2, <3>1 DEF ApproveInsert
  <2>3. ASSUME NEW h \in Handlers, RevokeRecord(h) PROVE status'[<<r, g>>] = "none"
    BY <1>3, <2>0, <2>3 DEF RevokeRecord
  <2>4. ASSUME NEW h \in Handlers, DeletePurge(h) PROVE status'[<<r, g>>] = "none"
    BY <2>0, <2>4 DEF DeletePurge
  <2> QED
    BY <2>1, <2>2, <2>3, <2>4, StatusFrame
<1> QED
  BY <1>5, <1>6

\* The control invariant is inductive.
LEMMA ControlStep == ControlInv /\ [Next]_vars => ControlInv'
<1> SUFFICES ASSUME ControlInv, [Next]_vars PROVE ControlInv'
  OBVIOUS
<1>1. TypeOK /\ WorkFits
  BY DEF ControlInv
<1> QED
  BY <1>1, TypeStep, WorkFitsStep, DecisionMadeStep, NothingBeforeDecisionStep
     DEF ControlInv

\* Types, and what a handler knows from where it stands, hold in every
\* reachable state (request.go and ai.go: the order of the statements of each
\* operation).
THEOREM ControlHolds == Spec => []ControlInv
BY InitControl, ControlStep, PTL DEF Spec

\* Every variable keeps its type, whatever handlers interleave and fail: in
\* particular a recertification or a revoke of a row that has been deleted
\* writes nothing, and every time written stays a time.
THEOREM TypeCorrect == Spec => []TypeOK
<1>1. ControlInv => TypeOK
  BY DEF ControlInv
<1> QED
  BY <1>1, ControlHolds, PTL

\* Neither a row nor access at the provider exists for an undecided request,
\* for any number of callers and under every fault (request.go: the status
\* is checked before, and written separately from, the provisioning).
THEOREM NothingBeforeDecisionHolds == Spec => []NothingBeforeDecision
<1>1. ControlInv => NothingBeforeDecision
  BY DEF ControlInv
<1> QED
  BY <1>1, ControlHolds, PTL

\* No step of any handler puts a decided request back to pending_approval.
THEOREM DecisionIsFinalHolds == Spec => DecisionIsFinal
<1>1. ControlInv /\ [Next]_vars =>
        [\A r \in Requests :
           request[r] \notin {"absent", "pending_approval"}
              => request'[r] \notin {"absent", "pending_approval"}]_vars
  BY DecidedStays DEF ControlInv, Decided
<1> QED
  BY <1>1, ControlHolds, PTL DEF Spec, DecisionIsFinal

-----------------------------------------------------------------------------
(***************************************************************************)
(* A revoked row stays revoked.                                            *)
(***************************************************************************)

\* A row that is not there is created by its own approval only.
LEMMA RowIsCreatedByInsert ==
    ASSUME ControlInv, [Next]_vars, NEW i \in Instances, status[i] = "none"
    PROVE  status'[i] = "none" \/ \E h \in Handlers : ApproveInsert(h) /\ work[h] = i
<1>1. status \in [Instances -> InstanceStatus]
  BY DEF ControlInv, TypeOK
<1>2. ASSUME NEW h \in Handlers, ApproveInsert(h), work[h] # i PROVE status'[i] = "none"
  BY <1>1, <1>2 DEF ApproveInsert
<1>3. ASSUME NEW h \in Handlers, RevokeRecord(h) PROVE status'[i] = "none"
  BY <1>1, <1>3 DEF RevokeRecord
<1>4. ASSUME NEW h \in Handlers, DeletePurge(h) PROVE status'[i] = "none"
  BY <1>4 DEF DeletePurge
<1> QED
  BY <1>2, <1>3, <1>4, StatusFrame

\* A handler that starts an approval finds no row of its own, and nobody
\* else inserts it.
LEMMA RowIsNewStep == ControlInv /\ RowIsNew /\ [Next]_vars => RowIsNew'
<1> SUFFICES ASSUME ControlInv, RowIsNew, [Next]_vars PROVE RowIsNew'
  OBVIOUS
<1> USE DEF RowIsNew
<1>1. TypeOK /\ WorkFits /\ NothingBeforeDecision
  BY DEF ControlInv
<1>t. stage \in [Handlers -> Stages] /\ work \in [Handlers -> Instances \cup {None}]
  BY <1>1 DEF TypeOK
<1>w. \A g \in Handlers : stage[g] \in {"decide", "govern", "grant", "insert"} =>
        work[g] \in Instances /\ work[g] = <<work[g][1], g>>
  BY <1>1, OwnRow DEF ApproveStages
<1>2. CASE Tick
  BY <1>2 DEF Tick, handlerVars, rowVars
<1>3. ASSUME NEW r \in Requests, FileRequest(r) PROVE RowIsNew'
  BY <1>3 DEF FileRequest, handlerVars, rowVars
<1>4. ASSUME NEW h \in Handlers, NEW r \in Requests, ApproveStart(h, r) PROVE RowIsNew'
  <2>1. status[<<r, h>>] = "none"
    BY <1>4, <1>1 DEF ApproveStart, NothingBeforeDecision
  <2> QED
    BY <1>4, <2>1, <1>t DEF ApproveStart, Begin, rowVars
<1>5. ASSUME NEW h \in Handlers, NEW r \in Requests, RejectStart(h, r) PROVE RowIsNew'
  BY <1>5, <1>t DEF RejectStart, Begin, rowVars
<1>6. ASSUME NEW h \in Handlers, NEW i \in Instances, RevokeStart(h, i) PROVE RowIsNew'
  BY <1>6, <1>t DEF RevokeStart, Begin, rowVars
<1>7. ASSUME NEW h \in Handlers, NEW i \in Instances, RecertifyStart(h, i) PROVE RowIsNew'
  BY <1>7, <1>t DEF RecertifyStart, Begin, rowVars
<1>8. ASSUME NEW h \in Handlers, ReapStart(h) PROVE RowIsNew'
  BY <1>8, <1>t DEF ReapStart, rowVars
<1>9. ASSUME NEW h \in Handlers, DeleteStart(h) PROVE RowIsNew'
  BY <1>9, <1>t DEF DeleteStart, GoTo, rowVars
<1>10. ASSUME NEW h \in Handlers, ApproveDecide(h) PROVE RowIsNew'
  BY <1>10, <1>t DEF ApproveDecide, GoTo, rowVars
<1>11. ASSUME NEW h \in Handlers, ApproveGovern(h) PROVE RowIsNew'
  BY <1>11, <1>t DEF ApproveGovern, GoTo, rowVars
<1>12. ASSUME NEW h \in Handlers, ApproveGrant(h) PROVE RowIsNew'
  BY <1>12, <1>t DEF ApproveGrant, GoTo, rowVars
<1>13. ASSUME NEW h \in Handlers, ApproveInsert(h) PROVE RowIsNew'
  <2>1. \A g \in Handlers \ {h} : stage'[g] = stage[g] /\ work'[g] = work[g]
    BY <1>13, <1>t DEF ApproveInsert, GoTo
  <2>2. stage'[h] \in {"complete", "fail"}
    BY <1>13, <1>t DEF ApproveInsert, GoTo
  <2>3. ASSUME NEW g \in Handlers \ {h},
               stage[g] \in {"decide", "govern", "grant", "insert"}
        PROVE  status'[work[g]] = "none"
    <3>1. stage[h] = "insert"
      BY <1>13 DEF ApproveInsert
    <3>2. work[g] # work[h] /\ work[g] \in Instances /\ status[work[g]] = "none"
      BY <1>w, <2>3, <3>1
    <3>3. status \in [Instances -> InstanceStatus]
      BY <1>1 DEF TypeOK
    <3> QED
      BY <1>13, <3>2, <3>3 DEF ApproveInsert
  <2> QED
    BY <2>1, <2>2, <2>3
<1>14. ASSUME NEW h \in Handlers, ApproveEnd(h) PROVE RowIsNew'
  BY <1>14, <1>t DEF ApproveEnd, Return, rowVars
<1>15. ASSUME NEW h \in Handlers, RejectDecide(h) PROVE RowIsNew'
  BY <1>15, <1>t DEF RejectDecide, Return, rowVars
<1>16. ASSUME NEW h \in Handlers, RevokeLoad(h) PROVE RowIsNew'
  BY <1>16, <1>t DEF RevokeLoad, GoTo, Return, rowVars
<1>17. ASSUME NEW h \in Handlers, RevokeWithdraw(h) PROVE RowIsNew'
  BY <1>17, <1>t DEF RevokeWithdraw, GoTo, rowVars
<1>18. ASSUME NEW h \in Handlers, RevokeRecord(h) PROVE RowIsNew'
  <2>1. status \in [Instances -> InstanceStatus]
    BY <1>1 DEF TypeOK
  <2>2. \A i \in Instances : status[i] = "none" => status'[i] = "none"
    BY <1>18, <2>1 DEF RevokeRecord
  <2>3. \A g \in Handlers : stage'[g] \in {"idle", "scan"} \/ (stage'[g] = stage[g] /\ work'[g] = work[g])
    BY <1>18, <1>t DEF RevokeRecord, Return
  <2> QED
    BY <1>w, <2>2, <2>3
<1>19. ASSUME NEW h \in Handlers, RecertifyWrite(h) PROVE RowIsNew'
  BY <1>19, <1>t DEF RecertifyWrite, Return
<1>20. ASSUME NEW h \in Handlers, ReapNext(h) PROVE RowIsNew'
  BY <1>20, <1>t DEF ReapNext, Begin, rowVars
<1>21. ASSUME NEW h \in Handlers, DeletePurge(h) PROVE RowIsNew'
  <2>1. \A g \in Handlers : stage'[g] = "drop" \/ (stage'[g] = stage[g] /\ work'[g] = work[g])
    BY <1>21, <1>t DEF DeletePurge, GoTo
  <2> QED
    BY <1>21, <1>w, <2>1 DEF DeletePurge
<1>22. ASSUME NEW h \in Handlers, DeleteDrop(h) PROVE RowIsNew'
  BY <1>22, <1>t DEF DeleteDrop, Return, rowVars
<1>23. ASSUME NEW h \in Handlers, GovernFailsOpen(h) PROVE RowIsNew'
  BY <1>23, <1>t DEF GovernFailsOpen, GoTo, rowVars
<1>24. ASSUME NEW h \in Handlers, GrantWithoutKey(h) PROVE RowIsNew'
  BY <1>24, <1>t DEF GrantWithoutKey, GoTo, rowVars
<1>25. ASSUME NEW h \in Handlers, GrantError(h) PROVE RowIsNew'
  BY <1>25, <1>t DEF GrantError, GoTo, rowVars
<1>26. ASSUME NEW h \in Handlers, WithdrawWithoutKey(h) PROVE RowIsNew'
  BY <1>26, <1>t DEF WithdrawWithoutKey, GoTo, rowVars
<1>27. ASSUME NEW h \in Handlers, WithdrawError(h) PROVE RowIsNew'
  BY <1>27, <1>t DEF WithdrawError, Return, rowVars
<1>28. ASSUME NEW h \in Handlers, WriteError(h) PROVE RowIsNew'
  BY <1>28, <1>t DEF WriteError, GoTo, Return, rowVars
<1>29. ASSUME NEW h \in Handlers, Abandon(h) PROVE RowIsNew'
  BY <1>29, <1>t DEF Abandon, rowVars
<1>30. CASE UNCHANGED vars
  BY <1>30 DEF vars, handlerVars, rowVars
<1> QED
  BY <1>2, <1>3, <1>4, <1>5, <1>6, <1>7, <1>8, <1>9, <1>10, <1>11, <1>12, <1>13,
     <1>14, <1>15, <1>16, <1>17, <1>18, <1>19, <1>20, <1>21, <1>22, <1>23,
     <1>24, <1>25, <1>26, <1>27, <1>28, <1>29, <1>30 DEF Next, Start, Continue,
         Fail

\* Nobody decides on anything at first.
LEMMA InitRowIsNew == Init => RowIsNew
BY DEF Init, RowIsNew

\* No step makes a revoked row active.
LEMMA RevokedStays ==
    ASSUME ControlInv, RowIsNew, [Next]_vars,
           NEW i \in Instances, status[i] = "revoked"
    PROVE  status'[i] \in {"revoked", "none"}
<1>1. status \in [Instances -> InstanceStatus]
  BY DEF ControlInv, TypeOK
<1>2. ASSUME NEW h \in Handlers, ApproveInsert(h) PROVE status'[i] = "revoked"
  <2>1. work[h] # i
    BY <1>2 DEF RowIsNew, ApproveInsert
  <2> QED
    BY <1>1, <1>2, <2>1 DEF ApproveInsert
<1>3. ASSUME NEW h \in Handlers, RevokeRecord(h) PROVE status'[i] = "revoked"
  BY <1>1, <1>3 DEF RevokeRecord
<1>4. ASSUME NEW h \in Handlers, DeletePurge(h) PROVE status'[i] = "none"
  BY <1>4 DEF DeletePurge
<1> QED
  BY <1>2, <1>3, <1>4, StatusFrame

\* No interleaving makes a revoked grant active again: an approval inserts
\* only a row that is not there, and the late writes of a recertification
\* or of a second revoke keep the status (ai.go: RecertifyAIInstance,
\* RevokeAIInstance).
THEOREM RevokedIsFinalHolds == Spec => RevokedIsFinal
<1>1. Init => ControlInv /\ RowIsNew
  BY InitControl, InitRowIsNew
<1>2. ControlInv /\ RowIsNew /\ [Next]_vars => (ControlInv /\ RowIsNew)'
  BY ControlStep, RowIsNewStep
<1>3. ControlInv /\ RowIsNew /\ [Next]_vars =>
        [\A i \in Instances :
           status[i] = "revoked" => status'[i] \in {"revoked", "none"}]_vars
  BY RevokedStays
<1> QED
  BY <1>1, <1>2, <1>3, PTL DEF Spec, RevokedIsFinal

-----------------------------------------------------------------------------
(***************************************************************************)
(* The bound on the overshoot of a quota.                                  *)
(***************************************************************************)

\* The handlers between the gate and the insert.
Granting == {h \in Handlers : stage[h] \in {"grant", "insert"}}

\* The reaper decides on nothing, and past the gate there are never more
\* grants, made or being made, than the limit allows with every caller but
\* one having counted too early.
QuotaInv ==
    /\ stage[Reaper] \notin ApproveStages
    /\ Cardinality(Active) + Cardinality(Granting) <= Quota + Cardinality(Callers) - 1

\* Rows and handlers can be counted.
LEMMA FiniteParts ==
    /\ IsFiniteSet(Callers) /\ Cardinality(Callers) \in Nat \ {0}
    /\ \A S \in SUBSET Handlers : IsFiniteSet(S)
    /\ \A S \in SUBSET Instances : IsFiniteSet(S)
<1>1. \A S \in SUBSET Handlers : IsFiniteSet(S)
  BY FS_Subset, AccessAssumption
<1>2. \A S \in SUBSET Instances : IsFiniteSet(S)
  BY FS_Product, FS_Subset, AccessAssumption DEF Instances
<1>3. IsFiniteSet(Callers) /\ Callers # {}
  BY <1>1, AccessAssumption DEF Callers
<1>4. Cardinality(Callers) \in Nat \ {0}
  BY <1>3, FS_EmptySet, FS_CardinalityType
<1> QED
  BY <1>1, <1>2, <1>3, <1>4

\* Only the gate lets a handler in.
LEMMA GrantingFrame ==
    ASSUME TypeOK, [Next]_vars, "read" \notin Faults
    PROVE  Granting' \subseteq Granting \/ \E h \in Handlers : ApproveGovern(h)
<1> USE DEF Granting
<1>1. stage \in [Handlers -> Stages]
  BY DEF TypeOK
<1>2. CASE Tick
  BY <1>2 DEF Tick, handlerVars
<1>3. ASSUME NEW r \in Requests, FileRequest(r) PROVE Granting' \subseteq Granting
  BY <1>3 DEF FileRequest, handlerVars
<1>4. ASSUME NEW h \in Handlers, NEW r \in Requests, ApproveStart(h, r) PROVE Granting' \subseteq Granting
  BY <1>4, <1>1 DEF ApproveStart, Begin
<1>5. ASSUME NEW h \in Handlers, NEW r \in Requests, RejectStart(h, r) PROVE Granting' \subseteq Granting
  BY <1>5, <1>1 DEF RejectStart, Begin
<1>6. ASSUME NEW h \in Handlers, NEW i \in Instances, RevokeStart(h, i) PROVE Granting' \subseteq Granting
  BY <1>6, <1>1 DEF RevokeStart, Begin
<1>7. ASSUME NEW h \in Handlers, NEW i \in Instances, RecertifyStart(h, i) PROVE Granting' \subseteq Granting
  BY <1>7, <1>1 DEF RecertifyStart, Begin
<1>8. ASSUME NEW h \in Handlers, ReapStart(h) PROVE Granting' \subseteq Granting
  BY <1>8, <1>1 DEF ReapStart, Idle
<1>9. ASSUME NEW h \in Handlers, DeleteStart(h) PROVE Granting' \subseteq Granting
  BY <1>9, <1>1 DEF DeleteStart, GoTo
<1>10. ASSUME NEW h \in Handlers, ApproveDecide(h) PROVE Granting' \subseteq Granting
  BY <1>10, <1>1 DEF ApproveDecide, GoTo
<1>11. ASSUME NEW h \in Handlers, ApproveGrant(h) PROVE Granting' \subseteq Granting
  BY <1>11, <1>1 DEF ApproveGrant, GoTo
<1>12. ASSUME NEW h \in Handlers, ApproveInsert(h) PROVE Granting' \subseteq Granting
  BY <1>12, <1>1 DEF ApproveInsert, GoTo
<1>13. ASSUME NEW h \in Handlers, ApproveEnd(h) PROVE Granting' \subseteq Granting
  BY <1>13, <1>1 DEF ApproveEnd, Return
<1>14. ASSUME NEW h \in Handlers, RejectDecide(h) PROVE Granting' \subseteq Granting
  BY <1>14, <1>1 DEF RejectDecide, Return
<1>15. ASSUME NEW h \in Handlers, RevokeLoad(h) PROVE Granting' \subseteq Granting
  BY <1>15, <1>1 DEF RevokeLoad, GoTo, Return
<1>16. ASSUME NEW h \in Handlers, RevokeWithdraw(h) PROVE Granting' \subseteq Granting
  BY <1>16, <1>1 DEF RevokeWithdraw, GoTo
<1>17. ASSUME NEW h \in Handlers, RevokeRecord(h) PROVE Granting' \subseteq Granting
  BY <1>17, <1>1 DEF RevokeRecord, Return
<1>18. ASSUME NEW h \in Handlers, RecertifyWrite(h) PROVE Granting' \subseteq Granting
  BY <1>18, <1>1 DEF RecertifyWrite, Return
<1>19. ASSUME NEW h \in Handlers, ReapNext(h) PROVE Granting' \subseteq Granting
  BY <1>19, <1>1 DEF ReapNext, Begin
<1>20. ASSUME NEW h \in Handlers, DeletePurge(h) PROVE Granting' \subseteq Granting
  BY <1>20, <1>1 DEF DeletePurge, GoTo
<1>21. ASSUME NEW h \in Handlers, DeleteDrop(h) PROVE Granting' \subseteq Granting
  BY <1>21, <1>1 DEF DeleteDrop, Return
<1>22. ASSUME NEW h \in Handlers, GrantWithoutKey(h) PROVE Granting' \subseteq Granting
  BY <1>22, <1>1 DEF GrantWithoutKey, GoTo
<1>23. ASSUME NEW h \in Handlers, GrantError(h) PROVE Granting' \subseteq Granting
  BY <1>23, <1>1 DEF GrantError, GoTo
<1>24. ASSUME NEW h \in Handlers, WithdrawWithoutKey(h) PROVE Granting' \subseteq Granting
  BY <1>24, <1>1 DEF WithdrawWithoutKey, GoTo
<1>25. ASSUME NEW h \in Handlers, WithdrawError(h) PROVE Granting' \subseteq Granting
  BY <1>25, <1>1 DEF WithdrawError, Return
<1>26. ASSUME NEW h \in Handlers, WriteError(h) PROVE Granting' \subseteq Granting
  BY <1>26, <1>1 DEF WriteError, GoTo, Return
<1>27. ASSUME NEW h \in Handlers, Abandon(h) PROVE Granting' \subseteq Granting
  BY <1>27, <1>1 DEF Abandon, Idle
<1>28. CASE UNCHANGED vars
  BY <1>28 DEF vars, handlerVars
<1> QED
  BY <1>2, <1>3, <1>4, <1>5, <1>6, <1>7, <1>8, <1>9, <1>10, <1>11, <1>12, <1>13,
     <1>14, <1>15, <1>16, <1>17, <1>18, <1>19, <1>20, <1>21, <1>22, <1>23,
     <1>24, <1>25, <1>26, <1>27, <1>28 DEF Next, Start, Continue, Fail,
         GovernFailsOpen

\* Only an insert makes a row active.
LEMMA ActiveFrame ==
    ASSUME TypeOK, [Next]_vars
    PROVE  \/ Active' \subseteq Active
           \/ \E h \in Handlers : ApproveInsert(h) /\ Active' \subseteq Active \cup {work[h]}
<1> USE DEF Active
<1>1. status \in [Instances -> InstanceStatus]
  BY DEF TypeOK
<1>2. ASSUME NEW h \in Handlers, ApproveInsert(h) PROVE Active' \subseteq Active \cup {work[h]}
  BY <1>1, <1>2 DEF ApproveInsert
<1>3. ASSUME NEW h \in Handlers, RevokeRecord(h) PROVE Active' \subseteq Active
  BY <1>1, <1>3 DEF RevokeRecord
<1>4. ASSUME NEW h \in Handlers, DeletePurge(h) PROVE Active' \subseteq Active
  BY <1>4 DEF DeletePurge
<1> QED
  BY <1>2, <1>3, <1>4, StatusFrame

\* The reaper never comes to decide on a request.
LEMMA ReaperOnlyReaps ==
    ASSUME TypeOK, [Next]_vars, stage[Reaper] \notin ApproveStages
    PROVE  stage'[Reaper] \notin ApproveStages
<1> USE DEF ApproveStages
<1>1. stage \in [Handlers -> Stages] /\ Reaper \in Handlers
  BY AccessAssumption DEF TypeOK
<1>2. CASE Tick
  BY <1>2 DEF Tick, handlerVars
<1>3. ASSUME NEW r \in Requests, FileRequest(r) PROVE stage'[Reaper] \notin ApproveStages
  BY <1>3 DEF FileRequest, handlerVars
<1>4. ASSUME NEW h \in Handlers, NEW r \in Requests, ApproveStart(h, r) PROVE stage'[Reaper] \notin ApproveStages
  BY <1>4, <1>1 DEF ApproveStart, Calls, Begin
<1>5. ASSUME NEW h \in Handlers, NEW r \in Requests, RejectStart(h, r) PROVE stage'[Reaper] \notin ApproveStages
  BY <1>5, <1>1 DEF RejectStart, Begin
<1>6. ASSUME NEW h \in Handlers, NEW i \in Instances, RevokeStart(h, i) PROVE stage'[Reaper] \notin ApproveStages
  BY <1>6, <1>1 DEF RevokeStart, Begin
<1>7. ASSUME NEW h \in Handlers, NEW i \in Instances, RecertifyStart(h, i) PROVE stage'[Reaper] \notin ApproveStages
  BY <1>7, <1>1 DEF RecertifyStart, Begin
<1>8. ASSUME NEW h \in Handlers, ReapStart(h) PROVE stage'[Reaper] \notin ApproveStages
  BY <1>8, <1>1 DEF ReapStart, Idle
<1>9. ASSUME NEW h \in Handlers, DeleteStart(h) PROVE stage'[Reaper] \notin ApproveStages
  BY <1>9, <1>1 DEF DeleteStart, GoTo
<1>10. ASSUME NEW h \in Handlers, ApproveDecide(h) PROVE stage'[Reaper] \notin ApproveStages
  BY <1>10, <1>1 DEF ApproveDecide, GoTo
<1>11. ASSUME NEW h \in Handlers, ApproveGovern(h) PROVE stage'[Reaper] \notin ApproveStages
  BY <1>11, <1>1 DEF ApproveGovern, GoTo
<1>12. ASSUME NEW h \in Handlers, ApproveGrant(h) PROVE stage'[Reaper] \notin ApproveStages
  BY <1>12, <1>1 DEF ApproveGrant, GoTo
<1>13. ASSUME NEW h \in Handlers, ApproveInsert(h) PROVE stage'[Reaper] \notin ApproveStages
  BY <1>13, <1>1 DEF ApproveInsert, GoTo
<1>14. ASSUME NEW h \in Handlers, ApproveEnd(h) PROVE stage'[Reaper] \notin ApproveStages
  BY <1>14, <1>1 DEF ApproveEnd, Return
<1>15. ASSUME NEW h \in Handlers, RejectDecide(h) PROVE stage'[Reaper] \notin ApproveStages
  BY <1>15, <1>1 DEF RejectDecide, Return
<1>16. ASSUME NEW h \in Handlers, RevokeLoad(h) PROVE stage'[Reaper] \notin ApproveStages
  BY <1>16, <1>1 DEF RevokeLoad, GoTo, Return
<1>17. ASSUME NEW h \in Handlers, RevokeWithdraw(h) PROVE stage'[Reaper] \notin ApproveStages
  BY <1>17, <1>1 DEF RevokeWithdraw, GoTo
<1>18. ASSUME NEW h \in Handlers, RevokeRecord(h) PROVE stage'[Reaper] \notin ApproveStages
  BY <1>18, <1>1 DEF RevokeRecord, Return
<1>19. ASSUME NEW h \in Handlers, RecertifyWrite(h) PROVE stage'[Reaper] \notin ApproveStages
  BY <1>19, <1>1 DEF RecertifyWrite, Return
<1>20. ASSUME NEW h \in Handlers, ReapNext(h) PROVE stage'[Reaper] \notin ApproveStages
  BY <1>20, <1>1 DEF ReapNext, Begin
<1>21. ASSUME NEW h \in Handlers, DeletePurge(h) PROVE stage'[Reaper] \notin ApproveStages
  BY <1>21, <1>1 DEF DeletePurge, GoTo
<1>22. ASSUME NEW h \in Handlers, DeleteDrop(h) PROVE stage'[Reaper] \notin ApproveStages
  BY <1>22, <1>1 DEF DeleteDrop, Return
<1>23. ASSUME NEW h \in Handlers, GovernFailsOpen(h) PROVE stage'[Reaper] \notin ApproveStages
  BY <1>23, <1>1 DEF GovernFailsOpen, GoTo
<1>24. ASSUME NEW h \in Handlers, GrantWithoutKey(h) PROVE stage'[Reaper] \notin ApproveStages
  BY <1>24, <1>1 DEF GrantWithoutKey, GoTo
<1>25. ASSUME NEW h \in Handlers, GrantError(h) PROVE stage'[Reaper] \notin ApproveStages
  BY <1>25, <1>1 DEF GrantError, GoTo
<1>26. ASSUME NEW h \in Handlers, WithdrawWithoutKey(h) PROVE stage'[Reaper] \notin ApproveStages
  BY <1>26, <1>1 DEF WithdrawWithoutKey, GoTo
<1>27. ASSUME NEW h \in Handlers, WithdrawError(h) PROVE stage'[Reaper] \notin ApproveStages
  BY <1>27, <1>1 DEF WithdrawError, Return
<1>28. ASSUME NEW h \in Handlers, WriteError(h) PROVE stage'[Reaper] \notin ApproveStages
  BY <1>28, <1>1 DEF WriteError, GoTo, Return
<1>29. ASSUME NEW h \in Handlers, Abandon(h) PROVE stage'[Reaper] \notin ApproveStages
  BY <1>29, <1>1 DEF Abandon, Idle
<1>30. CASE UNCHANGED vars
  BY <1>30 DEF vars, handlerVars
<1> QED
  BY <1>2, <1>3, <1>4, <1>5, <1>6, <1>7, <1>8, <1>9, <1>10, <1>11, <1>12, <1>13,
     <1>14, <1>15, <1>16, <1>17, <1>18, <1>19, <1>20, <1>21, <1>22, <1>23,
     <1>24, <1>25, <1>26, <1>27, <1>28, <1>29, <1>30 DEF Next, Start, Continue,
         Fail

\* Rows and grants being made stay together within the bound.
LEMMA QuotaStep ==
    ASSUME ControlInv, QuotaInv, [Next]_vars, "read" \notin Faults
    PROVE  QuotaInv'
<1>1. TypeOK /\ WorkFits
  BY DEF ControlInv
<1>t. TypeOK'
  BY <1>1, TypeStep
<1>2. stage'[Reaper] \notin ApproveStages
  BY <1>1, ReaperOnlyReaps DEF QuotaInv
<1>3. /\ Active \in SUBSET Instances /\ Active' \in SUBSET Instances
      /\ Granting \in SUBSET Handlers /\ Granting' \in SUBSET Callers
  BY <1>2 DEF Active, Granting, Callers, ApproveStages
<1>4. /\ IsFiniteSet(Active) /\ IsFiniteSet(Granting)
      /\ IsFiniteSet(Active') /\ IsFiniteSet(Granting')
  BY <1>3, FiniteParts DEF Callers
<1>5. /\ Cardinality(Active) \in Nat /\ Cardinality(Active') \in Nat
      /\ Cardinality(Granting) \in Nat /\ Cardinality(Granting') \in Nat
      /\ Cardinality(Callers) \in Nat \ {0} /\ Quota \in Nat
  BY <1>4, FS_CardinalityType, FiniteParts, AccessAssumption
<1>6. Cardinality(Active) + Cardinality(Granting) <= Quota + Cardinality(Callers) - 1
  BY DEF QuotaInv
\* An insert turns a grant being made into a row.
<1>7. ASSUME NEW h \in Handlers, ApproveInsert(h), Active' \subseteq Active \cup {work[h]}
      PROVE  Cardinality(Active') + Cardinality(Granting') <= Quota + Cardinality(Callers) - 1
  <2>1. h \in Granting /\ Granting' \subseteq Granting \ {h}
    BY <1>1, <1>7 DEF ApproveInsert, GoTo, Granting, TypeOK
  <2>2. Cardinality(Granting') <= Cardinality(Granting) - 1
    <3>1. IsFiniteSet(Granting \ {h}) /\ Cardinality(Granting \ {h}) = Cardinality(Granting) - 1
      BY <1>4, <2>1, FS_RemoveElement
    <3> QED
      BY <2>1, <3>1, FS_Subset
  <2>3. Cardinality(Active') <= Cardinality(Active) + 1
    <3>1. /\ IsFiniteSet(Active \cup {work[h]})
          /\ Cardinality(Active \cup {work[h]}) \in {Cardinality(Active), Cardinality(Active) + 1}
      BY <1>4, FS_AddElement
    <3>2. Cardinality(Active') <= Cardinality(Active \cup {work[h]})
      BY <1>7, <3>1, FS_Subset
    <3> QED
      BY <1>5, <3>1, <3>2
  <2> QED
    BY <1>5, <1>6, <2>2, <2>3
\* The gate opens below the limit, whoever else has passed it.
<1>8. ASSUME NEW h \in Handlers, ApproveGovern(h)
      PROVE  Cardinality(Active') + Cardinality(Granting') <= Quota + Cardinality(Callers) - 1
  <2>1. Active' = Active
    BY <1>8 DEF ApproveGovern, rowVars, Active
  <2>2. Cardinality(Granting') <= Cardinality(Callers)
    BY <1>3, FiniteParts, FS_Subset
  <2>3. CASE GateOpen
    BY <1>5, <2>1, <2>2, <2>3 DEF GateOpen
  <2>4. CASE ~GateOpen
    <3>1. Granting' \subseteq Granting
      BY <1>1, <1>8, <2>4 DEF ApproveGovern, GoTo, Granting, TypeOK
    <3>2. Cardinality(Granting') <= Cardinality(Granting)
      BY <1>4, <3>1, FS_Subset
    <3> QED
      BY <1>5, <1>6, <2>1, <3>2
  <2> QED
    BY <2>3, <2>4
<1>9. CASE Active' \subseteq Active /\ Granting' \subseteq Granting
  <2>1. Cardinality(Active') <= Cardinality(Active) /\ Cardinality(Granting') <= Cardinality(Granting)
    BY <1>4, <1>9, FS_Subset
  <2> QED
    BY <1>2, <1>5, <1>6, <2>1 DEF QuotaInv
<1> QED
  BY <1>1, <1>2, <1>7, <1>8, <1>9, ActiveFrame, GrantingFrame DEF QuotaInv

\* With the reads of the gate working, concurrent approvals pass a "block"
\* quota by less than the number of callers, for any number of callers,
\* requests and other faults (ai_enforce.go counts before ai.go inserts).
THEOREM QuotaOvershootBoundedHolds ==
    ASSUME "read" \notin Faults
    PROVE  Spec => []QuotaOvershootBounded
<1>1. Init => ControlInv /\ QuotaInv
  <2> SUFFICES ASSUME Init PROVE QuotaInv
    BY InitControl
  <2>1. Active = {} /\ Granting = {}
    BY DEF Init, Active, Granting
  <2> QED
    BY <2>1, FS_EmptySet, FiniteParts, AccessAssumption DEF Init, QuotaInv,
           ApproveStages
<1>2. ControlInv /\ QuotaInv /\ [Next]_vars => (ControlInv /\ QuotaInv)'
  BY ControlStep, QuotaStep
<1>3. ControlInv /\ QuotaInv => QuotaOvershootBounded
  <2> SUFFICES ASSUME QuotaInv PROVE QuotaOvershootBounded
    OBVIOUS
  <2>1. Active \in SUBSET Instances /\ Granting \in SUBSET Handlers
    BY DEF Active, Granting
  <2>2. /\ Cardinality(Active) \in Nat /\ Cardinality(Granting) \in Nat
        /\ Cardinality(Callers) \in Nat /\ Quota \in Nat
    BY <2>1, FiniteParts, FS_CardinalityType, AccessAssumption
  <2> QED
    BY <2>2 DEF QuotaInv, QuotaOvershootBounded
<1> QED
  BY <1>1, <1>2, <1>3, PTL DEF Spec

-----------------------------------------------------------------------------
(***************************************************************************)
(* Access at the provider has an owner.                                    *)
(***************************************************************************)

\* No DeleteAIProvider, no lost write or answer, no cancelled handler, and
\* a secret store that answers.
Quiet ==
    /\ "delete" \notin Operations
    /\ Faults \cap {"db", "lost", "secrets", "abort"} = {}

\* The owner's row is not about to be marked revoked: who marks it has
\* withdrawn the access first.
Owns(h, r) ==
    \/ stage[h] = "insert" /\ work[h] = <<r, h>>
    \/ /\ status[<<r, h>>] = "active"
       /\ \A g \in Handlers : ~(stage[g] = "record" /\ work[g] = <<r, h>>)

OwnerInv ==
    /\ provider
    /\ \A h \in Handlers : stage[h] \notin {"purge", "drop"}
    /\ \A h \in Handlers : stage[h] \in RevokeStages => status[work[h]] # "none"
    /\ \A r \in upstream : \E h \in Handlers : Owns(h, r)

\* How a step moves the handlers that matter here.
HandlerMoves ==
    \A g \in Handlers :
        /\ stage'[g] \notin {"purge", "drop"}
        /\ stage[g] = "insert" =>
               ApproveInsert(g) \/ (stage'[g] = "insert" /\ work'[g] = work[g])
        /\ stage'[g] \in RevokeStages =>
               \/ status[work'[g]] = "active"
               \/ stage[g] \in RevokeStages /\ work'[g] = work[g]
        /\ stage'[g] = "record" =>
               /\ work'[g] = work[g]
               /\ stage[g] = "record" \/ RevokeWithdraw(g)

\* Every step without those faults moves handlers in this way.
LEMMA QuietMoves ==
    ASSUME TypeOK, [Next]_vars, Quiet, \A h \in Handlers : stage[h] \notin {"purge", "drop"}
    PROVE  HandlerMoves
<1> USE DEF HandlerMoves, RevokeStages
<1>1. stage \in [Handlers -> Stages] /\ work \in [Handlers -> Instances \cup {None}]
  BY DEF TypeOK
<1>2. CASE Tick
  BY <1>2 DEF Tick, handlerVars
<1>3. ASSUME NEW r \in Requests, FileRequest(r) PROVE HandlerMoves
  BY <1>3 DEF FileRequest, handlerVars
<1>4. ASSUME NEW h \in Handlers, NEW r \in Requests, ApproveStart(h, r) PROVE HandlerMoves
  BY <1>4, <1>1 DEF ApproveStart, Calls, Begin, Idle
<1>5. ASSUME NEW h \in Handlers, NEW r \in Requests, RejectStart(h, r) PROVE HandlerMoves
  BY <1>5, <1>1 DEF RejectStart, Calls, Begin, Idle
<1>6. ASSUME NEW h \in Handlers, NEW i \in Instances, RevokeStart(h, i) PROVE HandlerMoves
  BY <1>6, <1>1 DEF RevokeStart, Calls, Begin, Idle
<1>7. ASSUME NEW h \in Handlers, NEW i \in Instances, RecertifyStart(h, i) PROVE HandlerMoves
  BY <1>7, <1>1 DEF RecertifyStart, Calls, Begin, Idle
<1>8. ASSUME NEW h \in Handlers, ReapStart(h) PROVE HandlerMoves
  BY <1>8, <1>1 DEF ReapStart, Idle
<1>9. ASSUME NEW h \in Handlers, DeleteStart(h) PROVE HandlerMoves
  BY <1>9, <1>1 DEF DeleteStart, Calls, Quiet
<1>10. ASSUME NEW h \in Handlers, ApproveDecide(h) PROVE HandlerMoves
  BY <1>10, <1>1 DEF ApproveDecide, GoTo
<1>11. ASSUME NEW h \in Handlers, ApproveGovern(h) PROVE HandlerMoves
  BY <1>11, <1>1 DEF ApproveGovern, GoTo
<1>12. ASSUME NEW h \in Handlers, ApproveGrant(h) PROVE HandlerMoves
  BY <1>12, <1>1 DEF ApproveGrant, GoTo
<1>13. ASSUME NEW h \in Handlers, ApproveInsert(h) PROVE HandlerMoves
  BY <1>13, <1>1 DEF ApproveInsert, GoTo
<1>14. ASSUME NEW h \in Handlers, ApproveEnd(h) PROVE HandlerMoves
  BY <1>14, <1>1 DEF ApproveEnd, Return
<1>15. ASSUME NEW h \in Handlers, RejectDecide(h) PROVE HandlerMoves
  BY <1>15, <1>1 DEF RejectDecide, Return
<1>16. ASSUME NEW h \in Handlers, RevokeLoad(h) PROVE HandlerMoves
  BY <1>16, <1>1 DEF RevokeLoad, GoTo, Return
<1>17. ASSUME NEW h \in Handlers, RevokeWithdraw(h) PROVE HandlerMoves
  BY <1>17, <1>1 DEF RevokeWithdraw, GoTo
<1>18. ASSUME NEW h \in Handlers, RevokeRecord(h) PROVE HandlerMoves
  BY <1>18, <1>1 DEF RevokeRecord, Return
<1>19. ASSUME NEW h \in Handlers, RecertifyWrite(h) PROVE HandlerMoves
  BY <1>19, <1>1 DEF RecertifyWrite, Return
<1>20. ASSUME NEW h \in Handlers, ReapNext(h) PROVE HandlerMoves
  BY <1>20, <1>1 DEF ReapNext, Begin
<1>21. ASSUME NEW h \in Handlers, DeletePurge(h) PROVE HandlerMoves
  BY <1>21, <1>1 DEF DeletePurge, GoTo
<1>22. ASSUME NEW h \in Handlers, DeleteDrop(h) PROVE HandlerMoves
  BY <1>22, <1>1 DEF DeleteDrop, Return
<1>23. ASSUME NEW h \in Handlers, GovernFailsOpen(h) PROVE HandlerMoves
  BY <1>23, <1>1 DEF GovernFailsOpen, GoTo
<1>24. ASSUME NEW h \in Handlers, GrantWithoutKey(h) PROVE HandlerMoves
  BY <1>24, <1>1 DEF GrantWithoutKey, Quiet
<1>25. ASSUME NEW h \in Handlers, GrantError(h) PROVE HandlerMoves
  BY <1>25, <1>1 DEF GrantError, GoTo
<1>26. ASSUME NEW h \in Handlers, WithdrawWithoutKey(h) PROVE HandlerMoves
  BY <1>26, <1>1 DEF WithdrawWithoutKey, Quiet
<1>27. ASSUME NEW h \in Handlers, WithdrawError(h) PROVE HandlerMoves
  BY <1>27, <1>1 DEF WithdrawError, Return
<1>28. ASSUME NEW h \in Handlers, WriteError(h) PROVE HandlerMoves
  BY <1>28, <1>1 DEF WriteError, Quiet
<1>29. ASSUME NEW h \in Handlers, Abandon(h) PROVE HandlerMoves
  BY <1>29, <1>1 DEF Abandon, Quiet
<1>30. CASE UNCHANGED vars
  BY <1>30 DEF vars, handlerVars
<1> QED
  BY <1>2, <1>3, <1>4, <1>5, <1>6, <1>7, <1>8, <1>9, <1>10, <1>11, <1>12, <1>13,
     <1>14, <1>15, <1>16, <1>17, <1>18, <1>19, <1>20, <1>21, <1>22, <1>23,
     <1>24, <1>25, <1>26, <1>27, <1>28, <1>29, <1>30 DEF Next, Start, Continue,
         Fail

\* Access keeps an owner through every such step.
LEMMA OwnerStep ==
    ASSUME ControlInv, RowIsNew, OwnerInv, [Next]_vars, Quiet
    PROVE  OwnerInv'
<1>1. /\ TypeOK /\ WorkFits
      /\ status \in [Instances -> InstanceStatus]
      /\ stage \in [Handlers -> Stages]
      /\ provider
  BY DEF ControlInv, TypeOK, OwnerInv
<1>2. HandlerMoves
  BY <1>1, QuietMoves DEF OwnerInv
\* Rows do not disappear, and only RevokeRecord ends one.
<1>3. \A h \in Handlers : ~DeletePurge(h) /\ ~DeleteDrop(h)
  BY DEF OwnerInv, DeletePurge, DeleteDrop
<1>4. provider'
  BY <1>1, <1>3 DEF Next, Start, Continue, Fail, vars, Tick, FileRequest,
         ApproveStart, RejectStart, RevokeStart, RecertifyStart, ReapStart,
         DeleteStart, ApproveDecide, ApproveGovern, ApproveGrant, ApproveInsert,
         ApproveEnd, RejectDecide, RevokeLoad, RevokeWithdraw, RevokeRecord,
         RecertifyWrite, ReapNext, GovernFailsOpen, GrantWithoutKey, GrantError,
         WithdrawWithoutKey, WithdrawError, WriteError, Abandon
<1>5. ASSUME NEW i \in Instances, status[i] # "none" PROVE status'[i] # "none"
  <2>1. ASSUME NEW h \in Handlers, ApproveInsert(h) PROVE status'[i] # "none"
    BY <1>1, <1>5, <2>1 DEF ApproveInsert
  <2>2. ASSUME NEW h \in Handlers, RevokeRecord(h) PROVE status'[i] # "none"
    BY <1>1, <1>5, <2>2 DEF RevokeRecord
  <2> QED
    BY <1>3, <1>5, <2>1, <2>2, StatusFrame
<1>6. ASSUME NEW i \in Instances, status[i] = "active",
             \A g \in Handlers : ~(stage[g] = "record" /\ work[g] = i)
      PROVE  status'[i] = "active"
  <2>1. ASSUME NEW h \in Handlers, ApproveInsert(h) PROVE status'[i] = "active"
    BY <1>1, <1>6, <2>1 DEF ApproveInsert
  <2>2. ASSUME NEW h \in Handlers, RevokeRecord(h) PROVE status'[i] = "active"
    BY <1>1, <1>6, <2>2 DEF RevokeRecord
  <2> QED
    BY <1>3, <1>6, <2>1, <2>2, StatusFrame
<1>7. ASSUME NEW h \in Handlers, stage'[h] \in RevokeStages
      PROVE  status'[work'[h]] # "none"
  <2>1. status[work'[h]] # "none"
    BY <1>2, <1>7 DEF HandlerMoves, OwnerInv
  <2>2. work'[h] \in Instances
    BY <1>1, <1>7, WorkFitsStep DEF WorkFits
  <2> QED
    BY <1>5, <2>1, <2>2
<1>8. ASSUME NEW r \in Requests, NEW h \in Handlers, r \in upstream, r \in upstream', Owns(h, r)
      PROVE  Owns(h, r)'
  <2>1. <<r, h>> \in Instances
    BY InstancePair
  <2>2. CASE stage[h] = "insert" /\ work[h] = <<r, h>>
    <3>1. CASE stage'[h] = "insert" /\ work'[h] = work[h]
      BY <2>2, <3>1 DEF Owns
    <3>2. CASE ApproveInsert(h)
      <4>1. status'[<<r, h>>] = "active"
        BY <1>1, <2>1, <2>2, <3>2 DEF ApproveInsert
      <4>2. status[<<r, h>>] = "none"
        BY <2>2 DEF RowIsNew
      <4>3. ASSUME NEW g \in Handlers, stage'[g] = "record", work'[g] = <<r, h>> PROVE FALSE
        <5>1. work[g] = <<r, h>> /\ stage[g] \in RevokeStages
          BY <1>2, <4>3 DEF HandlerMoves, RevokeStages, RevokeWithdraw
        <5> QED
          BY <4>2, <5>1 DEF OwnerInv
      <4> QED
        BY <4>1, <4>3 DEF Owns
    <3> QED
      BY <1>2, <2>2, <3>1, <3>2 DEF HandlerMoves
  <2>3. CASE /\ status[<<r, h>>] = "active"
             /\ \A g \in Handlers : ~(stage[g] = "record" /\ work[g] = <<r, h>>)
    <3>1. status'[<<r, h>>] = "active"
      BY <1>6, <2>1, <2>3
    <3>2. ASSUME NEW g \in Handlers, stage'[g] = "record", work'[g] = <<r, h>> PROVE FALSE
      <4>1. RevokeWithdraw(g) /\ work[g] = <<r, h>>
        BY <1>2, <2>3, <3>2 DEF HandlerMoves
      <4> QED
        BY <1>8, <4>1 DEF RevokeWithdraw
    <3> QED
      BY <3>1, <3>2 DEF Owns
  <2> QED
    BY <1>8, <2>2, <2>3 DEF Owns
<1>9. ASSUME NEW r \in upstream' PROVE \E h \in Handlers : Owns(h, r)'
  <2>1. upstream' \in SUBSET Requests
    BY TypeStep, <1>1 DEF TypeOK
  <2>2. CASE r \in upstream
    BY <1>8, <1>9, <2>1, <2>2 DEF OwnerInv
  <2>3. CASE r \notin upstream
    <3>1. PICK h \in Handlers : ApproveGrant(h) /\ work[h][1] = r
      BY <1>9, <2>3, UpstreamFrame DEF ApproveGrant, GrantError, RevokeWithdraw,
             WithdrawError, Quiet
    <3>2. work[h] = <<r, h>>
      BY <1>1, <3>1, OwnRow DEF ApproveGrant, ApproveStages
    <3>3. stage'[h] = "insert" /\ work'[h] = <<r, h>>
      BY <1>1, <3>1, <3>2 DEF ApproveGrant, GoTo
    <3> QED
      BY <3>3 DEF Owns
  <2> QED
    BY <2>2, <2>3
<1> QED
  BY <1>2, <1>4, <1>7, <1>9 DEF OwnerInv, HandlerMoves

\* For any number of handlers and requests: whatever approvals, revokes,
\* recertifications and reaper passes interleave, and however often the
\* provider refuses, access at the provider belongs to an active row or to
\* an approval about to insert one (ai.go: the insert follows the grant,
\* the revoke is recorded after the withdrawal).
THEOREM AccessHasOwnerHolds ==
    ASSUME Quiet
    PROVE  Spec => []AccessHasOwner
<1>1. Init => ControlInv /\ RowIsNew /\ OwnerInv
  BY InitControl, InitRowIsNew DEF Init, OwnerInv, RevokeStages
<1>2. ControlInv /\ RowIsNew /\ OwnerInv /\ [Next]_vars => (ControlInv /\ RowIsNew /\ OwnerInv)'
  BY ControlStep, RowIsNewStep, OwnerStep
<1>3. OwnerInv => AccessHasOwner
  BY DEF OwnerInv, Owns, AccessHasOwner, Holds
<1> QED
  BY <1>1, <1>2, <1>3, PTL DEF Spec

-----------------------------------------------------------------------------
(***************************************************************************)
(* AccessLifecycle keeps the contract of AccessContract, for any number of *)
(* requests and handlers and every quiet environment.                      *)
(***************************************************************************)


\* Somebody has filed the request that a handler decides on.
Filed ==
    \A h \in Handlers :
        stage[h] \in ApproveStages \cup {"reject"} => request[work[h][1]] # "absent"

ContractInv == ControlInv /\ RowIsNew /\ OwnerInv /\ Filed

\* How a step moves the handlers that decide on requests.
DeciderMoves ==
    \A g \in Handlers :
        /\ stage'[g] \in ApproveStages \cup {"reject"} =>
               \/ request[work'[g][1]] = "pending_approval"
               \/ stage[g] \in ApproveStages \cup {"reject"} /\ work'[g] = work[g]
        /\ stage'[g] = "insert" =>
               \/ ApproveGrant(g) /\ work'[g] = work[g]
               \/ stage[g] = "insert" /\ work'[g] = work[g]

\* Every step of a quiet environment moves them in this way.
LEMMA DecidersMove ==
    ASSUME TypeOK, [Next]_vars, Quiet
    PROVE  DeciderMoves
<1> USE DEF DeciderMoves, ApproveStages
<1>1. stage \in [Handlers -> Stages] /\ work \in [Handlers -> Instances \cup {None}]
  BY DEF TypeOK
<1>2. CASE Tick
  BY <1>2 DEF Tick, handlerVars
<1>3. ASSUME NEW r \in Requests, FileRequest(r) PROVE DeciderMoves
  BY <1>3 DEF FileRequest, handlerVars
<1>4. ASSUME NEW h \in Handlers, NEW r \in Requests, ApproveStart(h, r) PROVE DeciderMoves
  BY <1>4, <1>1 DEF ApproveStart, Calls, Begin, Idle
<1>5. ASSUME NEW h \in Handlers, NEW r \in Requests, RejectStart(h, r) PROVE DeciderMoves
  BY <1>5, <1>1 DEF RejectStart, Calls, Begin, Idle
<1>6. ASSUME NEW h \in Handlers, NEW i \in Instances, RevokeStart(h, i) PROVE DeciderMoves
  BY <1>6, <1>1 DEF RevokeStart, Calls, Begin, Idle
<1>7. ASSUME NEW h \in Handlers, NEW i \in Instances, RecertifyStart(h, i) PROVE DeciderMoves
  BY <1>7, <1>1 DEF RecertifyStart, Calls, Begin, Idle
<1>8. ASSUME NEW h \in Handlers, ReapStart(h) PROVE DeciderMoves
  BY <1>8, <1>1 DEF ReapStart, Idle
<1>9. ASSUME NEW h \in Handlers, DeleteStart(h) PROVE DeciderMoves
  BY <1>9, <1>1 DEF DeleteStart, Calls, Quiet
<1>10. ASSUME NEW h \in Handlers, ApproveDecide(h) PROVE DeciderMoves
  BY <1>10, <1>1 DEF ApproveDecide, GoTo
<1>11. ASSUME NEW h \in Handlers, ApproveGovern(h) PROVE DeciderMoves
  BY <1>11, <1>1 DEF ApproveGovern, GoTo
<1>12. ASSUME NEW h \in Handlers, ApproveGrant(h) PROVE DeciderMoves
  BY <1>12, <1>1 DEF ApproveGrant, GoTo
<1>13. ASSUME NEW h \in Handlers, ApproveInsert(h) PROVE DeciderMoves
  BY <1>13, <1>1 DEF ApproveInsert, GoTo
<1>14. ASSUME NEW h \in Handlers, ApproveEnd(h) PROVE DeciderMoves
  BY <1>14, <1>1 DEF ApproveEnd, Return
<1>15. ASSUME NEW h \in Handlers, RejectDecide(h) PROVE DeciderMoves
  BY <1>15, <1>1 DEF RejectDecide, Return
<1>16. ASSUME NEW h \in Handlers, RevokeLoad(h) PROVE DeciderMoves
  BY <1>16, <1>1 DEF RevokeLoad, GoTo, Return
<1>17. ASSUME NEW h \in Handlers, RevokeWithdraw(h) PROVE DeciderMoves
  BY <1>17, <1>1 DEF RevokeWithdraw, GoTo
<1>18. ASSUME NEW h \in Handlers, RevokeRecord(h) PROVE DeciderMoves
  BY <1>18, <1>1 DEF RevokeRecord, Return
<1>19. ASSUME NEW h \in Handlers, RecertifyWrite(h) PROVE DeciderMoves
  BY <1>19, <1>1 DEF RecertifyWrite, Return
<1>20. ASSUME NEW h \in Handlers, ReapNext(h) PROVE DeciderMoves
  BY <1>20, <1>1 DEF ReapNext, Begin
<1>21. ASSUME NEW h \in Handlers, DeletePurge(h) PROVE DeciderMoves
  BY <1>21, <1>1 DEF DeletePurge, GoTo
<1>22. ASSUME NEW h \in Handlers, DeleteDrop(h) PROVE DeciderMoves
  BY <1>22, <1>1 DEF DeleteDrop, Return
<1>23. ASSUME NEW h \in Handlers, GovernFailsOpen(h) PROVE DeciderMoves
  BY <1>23, <1>1 DEF GovernFailsOpen, GoTo
<1>24. ASSUME NEW h \in Handlers, GrantWithoutKey(h) PROVE DeciderMoves
  BY <1>24, <1>1 DEF GrantWithoutKey, Quiet
<1>25. ASSUME NEW h \in Handlers, GrantError(h) PROVE DeciderMoves
  BY <1>25, <1>1 DEF GrantError, GoTo
<1>26. ASSUME NEW h \in Handlers, WithdrawWithoutKey(h) PROVE DeciderMoves
  BY <1>26, <1>1 DEF WithdrawWithoutKey, Quiet
<1>27. ASSUME NEW h \in Handlers, WithdrawError(h) PROVE DeciderMoves
  BY <1>27, <1>1 DEF WithdrawError, Return
<1>28. ASSUME NEW h \in Handlers, WriteError(h) PROVE DeciderMoves
  BY <1>28, <1>1 DEF WriteError, Quiet
<1>29. ASSUME NEW h \in Handlers, Abandon(h) PROVE DeciderMoves
  BY <1>29, <1>1 DEF Abandon, Quiet
<1>30. CASE UNCHANGED vars
  BY <1>30 DEF vars, handlerVars
<1> QED
  BY <1>2, <1>3, <1>4, <1>5, <1>6, <1>7, <1>8, <1>9, <1>10, <1>11, <1>12, <1>13,
     <1>14, <1>15, <1>16, <1>17, <1>18, <1>19, <1>20, <1>21, <1>22, <1>23,
     <1>24, <1>25, <1>26, <1>27, <1>28, <1>29, <1>30 DEF Next, Start, Continue,
         Fail

\* A handler decides on a request that was filed.
LEMMA FiledStep ==
    ASSUME ContractInv, [Next]_vars, Quiet
    PROVE  Filed'
<1>1. /\ TypeOK /\ WorkFits /\ WorkFits' /\ DeciderMoves
      /\ request \in [Requests -> RequestStatus]
  BY DecidersMove, WorkFitsStep DEF ContractInv, ControlInv, TypeOK
<1>2. ASSUME NEW r \in Requests, request[r] # "absent" PROVE request'[r] # "absent"
  <2>1. CASE Decided(r)
    BY <1>1, <2>1, DecidedStays DEF Decided
  <2>2. CASE request[r] = "pending_approval"
    <3>1. ASSUME NEW q \in Requests, FileRequest(q) PROVE request'[r] # "absent"
      BY <1>1, <2>2, <3>1 DEF FileRequest
    <3>2. ASSUME NEW h \in Handlers, ApproveDecide(h) \/ ApproveEnd(h) \/ RejectDecide(h)
          PROVE  request'[r] # "absent"
      BY <1>1, <2>2, <3>2 DEF ApproveDecide, ApproveEnd, RejectDecide, SetRequest
    <3> QED
      BY <1>2, <3>1, <3>2, RequestFrame
  <2> QED
    BY <1>2, <2>1, <2>2 DEF Decided
<1>3. ASSUME NEW h \in Handlers, stage'[h] \in ApproveStages \cup {"reject"}
      PROVE  request'[work'[h][1]] # "absent"
  <2>1. work'[h][1] \in Requests
    <3>1. PICK r \in Requests : work'[h] = <<r, h>>
      BY <1>1, <1>3 DEF WorkFits
    <3> QED
      BY <3>1
  <2>2. request[work'[h][1]] # "absent"
    BY <1>1, <1>3 DEF DeciderMoves, ContractInv, Filed
  <2> QED
    BY <1>2, <2>1, <2>2
<1> QED
  BY <1>3 DEF Filed

\* The phase of a request changes when it is filed, and once when it is
\* decided on.
LEMMA PhaseFrame ==
    ASSUME ContractInv, [Next]_vars, NEW r \in Requests
    PROVE  \/ Phase(r)' = Phase(r)
           \/ FileRequest(r)
           \/ /\ \E h \in Handlers : ApproveDecide(h) \/ RejectDecide(h)
              /\ Phase(r) = "pending" /\ Phase(r)' = "decided"
<1>1. /\ TypeOK /\ WorkFits /\ DecisionMade /\ Filed
      /\ request \in [Requests -> RequestStatus]
  BY DEF ContractInv, ControlInv, TypeOK
<1>2. ASSUME NEW q \in Requests, FileRequest(q), q # r PROVE Phase(r)' = Phase(r)
  BY <1>1, <1>2 DEF FileRequest, Phase
<1>3. ASSUME NEW h \in Handlers, ApproveEnd(h) PROVE Phase(r)' = Phase(r)
  <2>1. work[h][1] \in Requests /\ Decided(work[h][1])
    BY <1>1, <1>3, OwnRow DEF ApproveEnd, ApproveStages, DecisionMade
  <2> QED
    BY <1>1, <1>3, <2>1 DEF ApproveEnd, SetRequest, Phase, Decided
<1>4. ASSUME NEW h \in Handlers, ApproveDecide(h) \/ RejectDecide(h)
      PROVE  \/ Phase(r)' = Phase(r)
             \/ Phase(r) = "pending" /\ Phase(r)' = "decided"
  <2>1. work[h][1] \in Requests /\ request[work[h][1]] # "absent"
    BY <1>1, <1>4, OwnRow DEF ApproveDecide, RejectDecide, ApproveStages, Filed
  <2> QED
    BY <1>1, <1>4, <2>1 DEF ApproveDecide, RejectDecide, SetRequest, Phase
<1>5. CASE UNCHANGED request
  BY <1>5 DEF Phase
<1> QED
  BY <1>2, <1>3, <1>4, <1>5, RequestFrame

\* A claim is opened by its own grant and closed by the revoke of its row.
LEMMA ClaimFrame ==
    ASSUME ContractInv, [Next]_vars, Quiet, NEW i \in Instances
    PROVE  \/ Claim(i)' = Claim(i)
           \/ /\ ApproveGrant(i[2]) /\ work[i[2]] = i
              /\ Claim(i) = "none" /\ Claim(i)' = "open"
           \/ /\ \E g \in Handlers : RevokeRecord(g) /\ work[g] = i
              /\ Claim(i) = "open" /\ Claim(i)' = "closed"
<1> DEFINE h == i[2]
           Inserting == stage[h] = "insert" /\ work[h] = i
<1>1. /\ TypeOK /\ WorkFits /\ RowIsNew /\ OwnerInv
      /\ status \in [Instances -> InstanceStatus]
      /\ stage \in [Handlers -> Stages]
      /\ h \in Handlers
  BY InstanceParts DEF ContractInv, ControlInv, TypeOK
<1>2. DeciderMoves /\ HandlerMoves /\ OwnerInv' /\ RowIsNew'
  BY <1>1, DecidersMove, QuietMoves, OwnerStep, RowIsNewStep DEF ContractInv, OwnerInv
<1>3. ASSUME NEW g \in Handlers, ApproveInsert(g), work[g] = i PROVE g = h
  BY <1>1, <1>3, OwnRow DEF ApproveInsert, ApproveStages
\* The status of the row changes by its insert and its revoke only.
<1>4. \/ status'[i] = status[i]
      \/ ApproveInsert(h) /\ work[h] = i /\ status'[i] = "active"
      \/ /\ \E g \in Handlers : RevokeRecord(g) /\ work[g] = i
         /\ status[i] # "none" /\ status'[i] = "revoked"
  <2>1. ASSUME NEW g \in Handlers, ApproveInsert(g)
        PROVE  \/ status'[i] = status[i]
               \/ work[g] = i /\ status'[i] = "active"
    BY <1>1, <2>1 DEF ApproveInsert
  <2>2. ASSUME NEW g \in Handlers, RevokeRecord(g)
        PROVE  \/ status'[i] = status[i]
               \/ work[g] = i /\ status[i] # "none" /\ status'[i] = "revoked"
    BY <1>1, <2>2 DEF RevokeRecord
  <2>3. ASSUME NEW g \in Handlers PROVE ~DeletePurge(g)
    BY <1>1 DEF OwnerInv, DeletePurge
  <2> QED
    BY <1>3, <2>1, <2>2, <2>3, StatusFrame
<1>5. CASE Inserting
  <2>1. status[i] = "none"
    BY <1>1, <1>5 DEF RowIsNew
  <2>2. CASE stage'[h] = "insert" /\ work'[h] = work[h]
    BY <1>5, <2>2 DEF Claim
  <2>3. CASE ApproveInsert(h)
    <3>1. status'[i] = "active"
      BY <1>1, <1>5, <2>3 DEF ApproveInsert, OwnerInv
    <3> QED
      BY <1>5, <3>1 DEF Claim
  <2> QED
    BY <1>1, <1>2, <1>5, <2>2, <2>3 DEF HandlerMoves
<1>6. CASE ~Inserting
  <2>1. Claim(i) = IF status[i] = "active" THEN "open"
                   ELSE IF status[i] = "revoked" THEN "closed" ELSE "none"
    BY <1>6 DEF Claim
  <2>2. CASE stage'[h] = "insert" /\ work'[h] = i
    <3>1. ApproveGrant(h) /\ work[h] = i
      BY <1>1, <1>2, <1>6, <2>2 DEF DeciderMoves
    <3>2. status[i] = "none"
      BY <1>1, <3>1 DEF RowIsNew, ApproveGrant
    <3> QED
      BY <2>1, <2>2, <3>1, <3>2 DEF Claim
  <2>3. CASE ~(stage'[h] = "insert" /\ work'[h] = i)
    <3>1. Claim(i)' = IF status'[i] = "active" THEN "open"
                      ELSE IF status'[i] = "revoked" THEN "closed" ELSE "none"
      BY <2>3 DEF Claim
    <3>2. ~(ApproveInsert(h) /\ work[h] = i)
      BY <1>6 DEF ApproveInsert
    <3> QED
      BY <1>1, <1>4, <2>1, <3>1, <3>2 DEF InstanceStatus
  <2> QED
    BY <2>2, <2>3
<1> QED
  BY <1>5, <1>6

-----------------------------------------------------------------------------
(***************************************************************************)
(* The steps of the contract.                                              *)
(***************************************************************************)

\* Each step of the service is one of the contract, or changes nothing that
\* the contract speaks of.
LEMMA ContractStep ==
    ASSUME ContractInv, [Next]_vars, Quiet
    PROVE  [Contract!Next]_(Contract!vars)
<1> DEFINE phases == [r \in Requests |-> Phase(r)]
           claims == [i \in Instances |-> Claim(i)]
<1>1. /\ TypeOK /\ WorkFits /\ RowIsNew /\ OwnerInv /\ DecisionMade /\ Filed
      /\ request \in [Requests -> RequestStatus]
      /\ status \in [Instances -> InstanceStatus]
      /\ stage \in [Handlers -> Stages]
      /\ work \in [Handlers -> Instances \cup {None}]
      /\ upstream \in SUBSET Requests
  BY DEF ContractInv, ControlInv, TypeOK
<1> SUFFICES \/ Contract!Next
             \/ phases' = phases /\ upstream' = upstream /\ claims' = claims
  BY DEF Contract!vars
<1>2. ASSUME NEW r \in Requests, FileRequest(r) PROVE Contract!Ask(r)
  <2>1. Phase(r) = "absent" /\ upstream' = upstream
    BY <1>2 DEF FileRequest, Phase
  <2>2. \A q \in Requests : Phase(q)' = IF q = r THEN "pending" ELSE Phase(q)
    BY <1>1, <1>2 DEF FileRequest, Phase
  <2>3. \A i \in Instances : Claim(i)' = Claim(i)
    BY <1>2 DEF FileRequest, rowVars, handlerVars, Claim
  <2>4. phases' = [phases EXCEPT ![r] = "pending"]
    BY <2>2
  <2> QED
    BY <2>1, <2>3, <2>4 DEF Contract!Ask
<1>3. ASSUME NEW h \in Handlers, ApproveDecide(h) \/ RejectDecide(h)
      PROVE  \/ Contract!Decide(work[h][1])
             \/ phases' = phases /\ upstream' = upstream /\ claims' = claims
  <2>1. /\ work[h][1] \in Requests /\ request[work[h][1]] # "absent"
        /\ upstream' = upstream
    BY <1>1, <1>3, OwnRow DEF ApproveDecide, RejectDecide, ApproveStages, Filed
  <2>2. \A q \in Requests : Phase(q)' = IF q = work[h][1] THEN "decided" ELSE Phase(q)
    BY <1>1, <1>3, <2>1 DEF ApproveDecide, RejectDecide, SetRequest, Phase
  <2>3. ASSUME NEW i \in Instances PROVE Claim(i)' = Claim(i)
    <3>1. i[2] \in Handlers
      BY InstanceParts
    <3>2. status' = status
      BY <1>3 DEF ApproveDecide, RejectDecide, rowVars
    <3>3. CASE ApproveDecide(h)
      BY <1>1, <3>1, <3>2, <3>3 DEF ApproveDecide, GoTo, Claim
    <3>4. CASE RejectDecide(h)
      BY <1>1, <3>1, <3>2, <3>4 DEF RejectDecide, Return, Claim
    <3> QED
      BY <1>3, <3>3, <3>4
  <2>4. CASE Phase(work[h][1]) = "pending"
    <3>1. phases' = [phases EXCEPT ![work[h][1]] = "decided"]
      BY <2>2
    <3> QED
      BY <2>1, <2>3, <2>4, <3>1 DEF Contract!Decide
  <2>5. CASE Phase(work[h][1]) = "decided"
    BY <2>1, <2>2, <2>3, <2>5
  <2> QED
    BY <2>1, <2>4, <2>5 DEF Phase
<1>4. ASSUME NEW h \in Handlers, ApproveGrant(h) PROVE Contract!Give(work[h])
  <2>1. /\ work[h] \in Instances /\ work[h][1] \in Requests
        /\ work[h] = <<work[h][1], h>> /\ work[h][2] = h
    BY <1>1, <1>4, OwnRow DEF ApproveGrant, ApproveStages
  <2>2. Phase(work[h][1]) = "decided"
    BY <1>1, <1>4 DEF ApproveGrant, ApproveStages, DecisionMade, Decided, Phase
  <2>3. Claim(work[h]) = "none"
    BY <1>1, <1>4, <2>1 DEF ApproveGrant, RowIsNew, Claim
  <2>4. ASSUME NEW i \in Instances
        PROVE  Claim(i)' = IF i = work[h] THEN "open" ELSE Claim(i)
    <3>1. i[2] \in Handlers
      BY InstanceParts
    <3> QED
      BY <1>1, <1>4, <2>1, <3>1 DEF ApproveGrant, GoTo, rowVars, Claim
  <2>5. claims' = [claims EXCEPT ![work[h]] = "open"]
    BY <2>4
  <2>6. upstream' = upstream \cup {work[h][1]} /\ phases' = phases
    BY <1>4 DEF ApproveGrant, Phase
  <2> QED
    BY <2>1, <2>2, <2>3, <2>5, <2>6 DEF Contract!Give
<1>5. ASSUME NEW h \in Handlers, RevokeWithdraw(h) PROVE Contract!Take(work[h][1])
  <2>1. ASSUME NEW i \in Instances PROVE Claim(i)' = Claim(i)
    <3>1. i[2] \in Handlers
      BY InstanceParts
    <3> QED
      BY <1>1, <1>5, <3>1 DEF RevokeWithdraw, GoTo, rowVars, Claim
  <2>2. upstream' = upstream \ {work[h][1]} /\ phases' = phases
    BY <1>5 DEF RevokeWithdraw, Phase
  <2> QED
    BY <2>1, <2>2 DEF Contract!Take
<1>6. ASSUME NEW h \in Handlers, RevokeRecord(h)
      PROVE  \/ Contract!Close(work[h])
             \/ phases' = phases /\ upstream' = upstream /\ claims' = claims
  <2>1. work[h] \in Instances /\ status[work[h]] # "none"
    BY <1>1, <1>6 DEF RevokeRecord, RevokeStages, WorkFits, OwnerInv
  <2>2. upstream' = upstream /\ phases' = phases
    BY <1>6 DEF RevokeRecord, Phase
  <2>3. ASSUME NEW i \in Instances
        PROVE  Claim(i)' = IF i = work[h] THEN "closed" ELSE Claim(i)
    <3>1. i[2] \in Handlers
      BY InstanceParts
    <3>2. ~(stage[work[h][2]] = "insert" /\ work[work[h][2]] = work[h])
      BY <1>1, <2>1, InstanceParts DEF RowIsNew
    <3>3. status' = [status EXCEPT ![work[h]] = "revoked"]
      BY <1>6, <2>1 DEF RevokeRecord
    <3>4. \A g \in Handlers : stage'[g] = "insert" /\ work'[g] = i
                            <=> stage[g] = "insert" /\ work[g] = i
      BY <1>1, <1>6 DEF RevokeRecord, Return
    <3> QED
      BY <1>1, <2>1, <3>1, <3>2, <3>3, <3>4 DEF Claim
  <2>4. CASE status[work[h]] = "active"
    <3>1. Claim(work[h]) = "open" /\ claims' = [claims EXCEPT ![work[h]] = "closed"]
      BY <2>1, <2>3, <2>4 DEF Claim
    <3>2. ASSUME work[h][1] \in upstream
          PROVE  \E d \in Instances \ {work[h]} : d[1] = work[h][1] /\ claims[d] = "open"
      <4> DEFINE r == work[h][1]
      <4>1. PICK g \in Handlers : Owns(g, r)
        BY <1>1, <3>2 DEF OwnerInv
      <4>2. <<r, g>> \in Instances /\ r \in Requests
        BY <2>1, InstanceParts, InstancePair
      <4>3. CASE stage[g] = "insert" /\ work[g] = <<r, g>>
        <5>1. status[<<r, g>>] = "none"
          BY <1>1, <4>3 DEF RowIsNew
        <5>2. <<r, g>> # work[h] /\ Claim(<<r, g>>) = "open"
          BY <2>4, <4>3, <5>1 DEF Claim
        <5> QED
          BY <4>2, <5>2
      <4>4. CASE /\ status[<<r, g>>] = "active"
                 /\ \A k \in Handlers : ~(stage[k] = "record" /\ work[k] = <<r, g>>)
        <5>1. <<r, g>> # work[h] /\ Claim(<<r, g>>) = "open"
          BY <1>6, <4>4 DEF RevokeRecord, Claim
        <5> QED
          BY <4>2, <5>1
      <4> QED
        BY <4>1, <4>3, <4>4 DEF Owns
    <3> QED
      BY <2>1, <2>2, <3>1, <3>2 DEF Contract!Close, Contract!Claims, Instances
  <2>5. CASE status[work[h]] = "revoked"
    <3>1. Claim(work[h]) = "closed"
      BY <1>1, <2>1, <2>5, InstanceParts DEF RowIsNew, Claim
    <3> QED
      BY <2>2, <2>3, <3>1
  <2> QED
    BY <1>1, <2>1, <2>4, <2>5 DEF InstanceStatus
<1>7. ASSUME \A r \in Requests : ~FileRequest(r),
             \A h \in Handlers : /\ ~ApproveDecide(h) /\ ~RejectDecide(h) /\ ~ApproveGrant(h)
                                /\ ~RevokeWithdraw(h) /\ ~RevokeRecord(h)
      PROVE  phases' = phases /\ upstream' = upstream /\ claims' = claims
  <2>1. \A r \in Requests : Phase(r)' = Phase(r)
    BY <1>7, PhaseFrame
  <2>2. \A i \in Instances : Claim(i)' = Claim(i)
    BY <1>7, ClaimFrame, InstanceParts
  <2>3. upstream' = upstream
    BY <1>7, UpstreamFrame DEF GrantError, WithdrawError, Quiet
  <2> QED
    BY <2>1, <2>2, <2>3
<1>8. ASSUME NEW h \in Handlers, RevokeWithdraw(h) PROVE work[h][1] \in Requests
  BY <1>1, <1>8, InstanceParts DEF RevokeWithdraw, WorkFits, RevokeStages
<1>9. ASSUME NEW h \in Handlers, ApproveDecide(h) \/ RejectDecide(h) PROVE work[h][1] \in Requests
  BY <1>1, <1>9, OwnRow DEF ApproveDecide, RejectDecide, ApproveStages
<1>10. ASSUME NEW h \in Handlers, ApproveGrant(h) \/ RevokeRecord(h) PROVE work[h] \in Contract!Claims
  BY <1>1, <1>10, OwnRow DEF ApproveGrant, RevokeRecord, WorkFits, ApproveStages, RevokeStages,
         Instances, Contract!Claims
<1> QED
  BY <1>2, <1>3, <1>4, <1>5, <1>6, <1>7, <1>8, <1>9, <1>10 DEF Contract!Next

\* For any number of requests and handlers, in a quiet environment that may
\* refuse calls and answer 404: approvals, rejections, revokes,
\* recertifications and reaper passes in any order do what the contract
\* allows (request.go, ai.go), so that access is always claimed by somebody
\* and a closed claim stays closed.
THEOREM KeepsContractHolds ==
    ASSUME Quiet
    PROVE  Spec => KeepsContract
<1>1. Init => ContractInv
  BY InitControl, InitRowIsNew DEF Init, ContractInv, OwnerInv, Filed, RevokeStages, ApproveStages
<1>2. ContractInv /\ [Next]_vars => ContractInv'
  BY ControlStep, RowIsNewStep, OwnerStep, FiledStep DEF ContractInv
<1>3. Init => Contract!Init
  <2> SUFFICES ASSUME Init PROVE Contract!Init
    OBVIOUS
  <2>1. \A r \in Requests : Phase(r) = "absent"
    BY DEF Init, Phase
  <2>2. \A i \in Instances : Claim(i) = "none"
    BY InstanceParts DEF Init, Claim
  <2> QED
    BY <2>1, <2>2 DEF Init, Contract!Init, Contract!Claims, Instances
<1>4. ContractInv /\ [Next]_vars => [Contract!Next]_(Contract!vars)
  BY ContractStep
<1> QED
  BY <1>1, <1>2, <1>3, <1>4, PTL DEF Spec, KeepsContract, Contract!Spec

-----------------------------------------------------------------------------
\* The contract alone guarantees that access has a claim, whatever order its
\* steps come in: what the approval service owes its callers (ai.go, the
\* instance row of every grant).
THEOREM ClaimedHolds == Contract!Spec => []Contract!Claimed
<1> USE DEF Contract!Claimed
<1>1. Contract!Init => Contract!Claimed
  BY DEF Contract!Init
<1>2. Contract!Claimed /\ [Contract!Next]_(Contract!vars) => Contract!Claimed'
  <2> SUFFICES ASSUME Contract!Claimed, [Contract!Next]_(Contract!vars) PROVE Contract!Claimed'
    OBVIOUS
  <2>1. ASSUME NEW r \in Requests, Contract!Ask(r) \/ Contract!Decide(r) PROVE Contract!Claimed'
    BY <2>1 DEF Contract!Ask, Contract!Decide
  <2>2. ASSUME NEW r \in Requests, Contract!Take(r) PROVE Contract!Claimed'
    BY <2>2 DEF Contract!Take
  <2>3. ASSUME NEW c \in Contract!Claims, Contract!Give(c) PROVE Contract!Claimed'
    BY <2>3 DEF Contract!Give, Contract!Claims
  <2>4. ASSUME NEW c \in Contract!Claims, Contract!Close(c) PROVE Contract!Claimed'
    <3> DEFINE claims == [i \in Instances |-> Claim(i)]
    <3>1. /\ upstream' = upstream
          /\ claims' = [claims EXCEPT ![c] = "closed"]
          /\ claims \in [Contract!Claims -> {"none", "open", "closed"}]
          /\ upstream \subseteq Requests
      BY <2>4 DEF Contract!Close
    <3>2. ASSUME NEW r \in upstream
          PROVE  \E d \in Contract!Claims \ {c} : d[1] = r /\ claims[d] = "open"
      BY <2>4, <3>2 DEF Contract!Close
    <3> HIDE DEF claims
    <3>3. /\ claims' \in [Contract!Claims -> {"none", "open", "closed"}]
          /\ \A d \in Contract!Claims \ {c} : claims'[d] = claims[d]
      BY <3>1
    <3>4. \A r \in upstream' : \E d \in Contract!Claims : d[1] = r /\ claims'[d] = "open"
      BY <3>1, <3>2, <3>3
    <3>5. upstream' \subseteq Requests
      BY <3>1
    <3> QED
      BY <3>3, <3>4, <3>5 DEF claims
  <2>5. CASE UNCHANGED Contract!vars
    BY <2>5 DEF Contract!vars
  <2> QED
    BY <2>1, <2>2, <2>3, <2>4, <2>5 DEF Contract!Next
<1> QED
  BY <1>1, <1>2, PTL DEF Contract!Spec

\* What the two say together: in a quiet environment, whatever handlers run
\* and in whatever order, access at a provider is somebody's.
THEOREM AccessIsClaimed ==
    ASSUME Quiet
    PROVE  Spec => []Contract!Claimed
BY KeepsContractHolds, ClaimedHolds, PTL DEF KeepsContract

-----------------------------------------------------------------------------
(***************************************************************************)
(* The stores agree when nobody runs, with one caller beside the reaper.   *)
(***************************************************************************)

\* An approval whose row is not there, or a rejection.
Undone == {"decide", "govern", "grant", "insert", "fail", "reject"}

\* The one goroutine that serves HTTP calls.
Caller == CHOOSE h \in Handlers : h # Reaper

\* The approval, or rejection, of r is at one of these stages.
At(S, r) == stage[Caller] \in S /\ work[Caller] = <<r, Caller>>

\* A handler revokes the row of r, from one of these stages.
Revoking(S, r) == \E h \in Handlers : stage[h] \in S /\ work[h] = <<r, Caller>>

\* What the stores and the handlers say of r.
Agree(r) ==
    /\ r \in upstream => status[<<r, Caller>>] = "active" \/ At({"insert"}, r)
    /\ status[<<r, Caller>>] = "active" => r \in upstream \/ Revoking({"record"}, r)
    /\ At({"insert"}, r) => r \in upstream
    /\ Revoking({"record"}, r) => r \notin upstream
    /\ status[<<r, Caller>>] = "active" => request[r] = "completed" \/ At({"complete"}, r)
    /\ At(Undone, r) => status[<<r, Caller>>] = "none"
    /\ At({"decide", "reject"}, r) => request[r] = "pending_approval"
    /\ At({"govern", "grant", "insert", "complete", "fail"}, r) => request[r] = "approved"
    /\ revokedAt[<<r, Caller>>] = 0 <=> status[<<r, Caller>>] # "revoked"
    /\ Revoking(RevokeStages, r) =>
           request[r] \in {"approved", "completed"} /\ ~At(Undone, r)

SettledInv ==
    /\ stage[Reaper] \in RevokeStages \cup {"idle", "scan"}
    /\ \A r \in Requests : status[<<r, Reaper>>] = "none"
    /\ \A h \in Handlers : stage[h] \in RevokeStages => work[h][2] = Caller
    /\ \A r \in Requests : Agree(r)
    /\ stage[Caller] \in {"grant", "insert"} => provider
    /\ stage[Caller] = "purge" => Active = {}

\* No write and no answer is lost, no handler is cancelled, and the secret
\* store answers; calls may be refused, reads fail and access be gone.
Sound == Faults \cap {"db", "lost", "secrets", "abort"} = {}

\* The caller and the reaper are all there is.
LEMMA TwoHandlers ==
    ASSUME Cardinality(Callers) = 1
    PROVE  Handlers = {Caller, Reaper} /\ Caller # Reaper /\ Reaper \in Handlers
<1>1. IsFiniteSet(Callers)
  BY FiniteParts
<1>2. PICK c : Callers = {c}
  BY <1>1, FS_Singleton
<1>3. c \in Handlers /\ c # Reaper
  BY <1>2 DEF Callers
<1>4. Caller \in Handlers /\ Caller # Reaper
  BY <1>3 DEF Caller
<1> QED
  BY <1>2, <1>4, AccessAssumption DEF Callers

\* A step of any handler keeps what the stores and the handlers say of a
\* request in agreement.
LEMMA AgreeStep ==
    ASSUME ControlInv, SettledInv, [Next]_vars, Sound, Cardinality(Callers) = 1, NEW r \in Requests
    PROVE  Agree(r)'
<1>1. /\ Handlers = {Caller, Reaper} /\ Caller # Reaper
      /\ stage \in [Handlers -> Stages] /\ work \in [Handlers -> Instances \cup {None}]
      /\ request \in [Requests -> RequestStatus]
      /\ status \in [Instances -> InstanceStatus] /\ revokedAt \in [Instances -> Times]
      /\ now \in 1 .. MaxTime /\ upstream \subseteq Requests
      /\ <<r, Caller>> \in Instances
  BY TwoHandlers, InstancePair DEF ControlInv, TypeOK
<1>2. /\ stage[Reaper] \in RevokeStages \cup {"idle", "scan"}
      /\ status[<<r, Reaper>>] = "none"
      /\ Agree(r)
      /\ stage[Caller] \in {"grant", "insert"} => provider
      /\ stage[Caller] = "purge" => Active = {}
  BY DEF SettledInv
<1>3. \A g \in Handlers : stage[g] \in ApproveStages \cup {"reject"} =>
        /\ g = Caller
        /\ \E q \in Requests : work[Caller] = <<q, Caller>>
  BY <1>1, <1>2 DEF ControlInv, WorkFits, ApproveStages, RevokeStages
<1>r. \A g \in Handlers : stage[g] \in RevokeStages =>
        \E q \in Requests : work[g] = <<q, Caller>>
  BY <1>1, InstanceParts DEF SettledInv, ControlInv, WorkFits
<1>n. request[r] = "pending_approval" => status[<<r, Caller>>] = "none" /\ r \notin upstream
  BY <1>1 DEF ControlInv, NothingBeforeDecision
<1> USE DEF Agree, At, Revoking, Undone, RevokeStages
<1>4. ASSUME NEW h \in Handlers, NEW q \in Requests, ApproveStart(h, q) PROVE Agree(r)'
  <2>1. h = Caller /\ stage[Caller] = "idle" /\ request[q] = "pending_approval"
    BY <1>4, <1>1 DEF ApproveStart, Calls, Idle
  <2>2. /\ stage'[Caller] = "decide" /\ work'[Caller] = <<q, Caller>>
        /\ stage'[Reaper] = stage[Reaper] /\ work'[Reaper] = work[Reaper]
        /\ UNCHANGED <<request, status, revokedAt, upstream>>
    BY <1>4, <1>1, <2>1 DEF ApproveStart, Begin, rowVars
  <2> QED
    BY <1>1, <1>2, <1>n, <2>1, <2>2
<1>5. ASSUME NEW h \in Handlers, NEW q \in Requests, RejectStart(h, q) PROVE Agree(r)'
  <2>1. h = Caller /\ stage[Caller] = "idle" /\ request[q] = "pending_approval"
    BY <1>5, <1>1 DEF RejectStart, Calls, Idle
  <2>2. /\ stage'[Caller] = "reject" /\ work'[Caller] = <<q, Caller>>
        /\ stage'[Reaper] = stage[Reaper] /\ work'[Reaper] = work[Reaper]
        /\ UNCHANGED <<request, status, revokedAt, upstream>>
    BY <1>5, <1>1, <2>1 DEF RejectStart, Begin, rowVars
  <2> QED
    BY <1>1, <1>2, <1>n, <2>1, <2>2
<1>6. ASSUME NEW h \in Handlers, NEW i \in Instances, RevokeStart(h, i) PROVE Agree(r)'
  BY <1>6, <1>1, <1>2, <1>3 DEF RevokeStart, Begin, Calls, rowVars, handlerVars, Idle
<1>7. ASSUME NEW h \in Handlers, NEW i \in Instances, RecertifyStart(h, i) PROVE Agree(r)'
  BY <1>7, <1>1, <1>2, <1>3 DEF RecertifyStart, Begin, Calls, rowVars, handlerVars, Idle
<1>8. ASSUME NEW h \in Handlers, ReapStart(h) PROVE Agree(r)'
  BY <1>8, <1>1, <1>2, <1>3 DEF ReapStart, rowVars, handlerVars, Idle
<1>9. ASSUME NEW h \in Handlers, DeleteStart(h) PROVE Agree(r)'
  BY <1>9, <1>1, <1>2, <1>3 DEF DeleteStart, GoTo, Calls, rowVars, handlerVars, Idle
<1>10. ASSUME NEW h \in Handlers, ApproveDecide(h) PROVE Agree(r)'
  <2>1. h = Caller /\ stage[Caller] = "decide"
    BY <1>10, <1>3 DEF ApproveDecide, ApproveStages
  <2>2. PICK q \in Requests : work[Caller] = <<q, Caller>>
    BY <1>3, <2>1 DEF ApproveStages
  <2>3. /\ stage'[Caller] = "govern" /\ work'[Caller] = work[Caller]
        /\ stage'[Reaper] = stage[Reaper] /\ work'[Reaper] = work[Reaper]
        /\ request' = [request EXCEPT ![q] = "approved"]
        /\ UNCHANGED <<status, revokedAt, upstream>>
    BY <1>10, <1>1, <2>1, <2>2 DEF ApproveDecide, GoTo, SetRequest, rowVars, Sound
  <2> QED
    BY <1>1, <1>2, <1>n, <2>1, <2>2, <2>3
<1>11. ASSUME NEW h \in Handlers, ApproveGovern(h) PROVE Agree(r)'
  BY <1>11, <1>1, <1>2, <1>3 DEF ApproveGovern, GoTo, rowVars, handlerVars, Idle
<1>12. ASSUME NEW h \in Handlers, ApproveGrant(h) PROVE Agree(r)'
  <2>1. h = Caller /\ stage[Caller] = "grant"
    BY <1>12, <1>3 DEF ApproveGrant, ApproveStages
  <2>2. PICK q \in Requests : work[Caller] = <<q, Caller>>
    BY <1>3, <2>1 DEF ApproveStages
  <2>3. /\ stage'[Caller] = "insert" /\ work'[Caller] = work[Caller]
        /\ stage'[Reaper] = stage[Reaper] /\ work'[Reaper] = work[Reaper]
        /\ upstream' = upstream \cup {q}
        /\ UNCHANGED <<request, status, revokedAt>>
    BY <1>12, <1>1, <2>1, <2>2 DEF ApproveGrant, GoTo, rowVars, Sound
  <2> QED
    BY <1>1, <1>2, <1>n, <2>1, <2>2, <2>3
<1>13. ASSUME NEW h \in Handlers, ApproveInsert(h) PROVE Agree(r)'
  BY <1>13, <1>1, <1>2, <1>3 DEF ApproveInsert, GoTo, rowVars, handlerVars, Idle
<1>14. ASSUME NEW h \in Handlers, ApproveEnd(h) PROVE Agree(r)'
  <2>1. h = Caller /\ stage[Caller] \in {"complete", "fail"}
    BY <1>14, <1>3 DEF ApproveEnd, ApproveStages
  <2>2. PICK q \in Requests : work[Caller] = <<q, Caller>>
    BY <1>3, <2>1 DEF ApproveStages
  <2>3. /\ stage'[Caller] \in {"idle", "scan"}
        /\ stage'[Reaper] = stage[Reaper] /\ work'[Reaper] = work[Reaper]
        /\ request' = [request EXCEPT ![q] =
               IF stage[Caller] = "complete" THEN "completed" ELSE "failed"]
        /\ UNCHANGED <<status, revokedAt, upstream>>
    BY <1>14, <1>1, <2>1, <2>2 DEF ApproveEnd, Return, SetRequest, rowVars, Sound
  <2> QED
    BY <1>1, <1>2, <1>n, <2>1, <2>2, <2>3
<1>15. ASSUME NEW h \in Handlers, RejectDecide(h) PROVE Agree(r)'
  BY <1>15, <1>1, <1>2, <1>3 DEF RejectDecide, Return, SetRequest, rowVars, handlerVars, Idle
<1>16. ASSUME NEW h \in Handlers, RevokeLoad(h) PROVE Agree(r)'
  BY <1>16, <1>1, <1>2, <1>3 DEF RevokeLoad, GoTo, Return, rowVars, handlerVars, Idle
<1>17. ASSUME NEW h \in Handlers, RevokeWithdraw(h) PROVE Agree(r)'
  <2>1. stage[h] = "withdraw"
    BY <1>17 DEF RevokeWithdraw
  <2>2. PICK q \in Requests : work[h] = <<q, Caller>>
    BY <1>r, <2>1
  <2>3. /\ stage'[h] = "record" /\ work'[h] = work[h]
        /\ \A g \in Handlers \ {h} : stage'[g] = stage[g] /\ work'[g] = work[g]
        /\ upstream' = upstream \ {q}
        /\ UNCHANGED <<request, status, revokedAt>>
    BY <1>17, <1>1, <2>2 DEF RevokeWithdraw, GoTo, rowVars
  <2> QED
    BY <1>1, <1>2, <2>1, <2>2, <2>3
<1>18. ASSUME NEW h \in Handlers, RevokeRecord(h) PROVE Agree(r)'
  BY <1>18, <1>1, <1>2, <1>3 DEF RevokeRecord, Return, rowVars, handlerVars, Idle
<1>19. ASSUME NEW h \in Handlers, RecertifyWrite(h) PROVE Agree(r)'
  BY <1>19, <1>1, <1>2, <1>3 DEF RecertifyWrite, Return, rowVars, handlerVars, Idle
<1>20. ASSUME NEW h \in Handlers, ReapNext(h) PROVE Agree(r)'
  BY <1>20, <1>1, <1>2, <1>3 DEF ReapNext, Begin, rowVars, handlerVars, Idle
<1>21. ASSUME NEW h \in Handlers, DeletePurge(h) PROVE Agree(r)'
  <2>1. h = Caller /\ stage[Caller] = "purge" /\ r \notin upstream
    BY <1>21, <1>1, <1>2 DEF DeletePurge, Active
  <2>2. /\ stage'[Caller] = "drop"
        /\ stage'[Reaper] = stage[Reaper] /\ work'[Reaper] = work[Reaper]
        /\ status'[<<r, Caller>>] = "none" /\ revokedAt'[<<r, Caller>>] = 0
        /\ UNCHANGED <<request, upstream>>
    BY <1>21, <1>1, <2>1 DEF DeletePurge, GoTo
  <2> QED
    BY <1>1, <1>2, <2>1, <2>2
<1>22. ASSUME NEW h \in Handlers, DeleteDrop(h) PROVE Agree(r)'
  BY <1>22, <1>1, <1>2, <1>3 DEF DeleteDrop, Return, rowVars, handlerVars, Idle
<1>23. ASSUME NEW h \in Handlers, GovernFailsOpen(h) PROVE Agree(r)'
  BY <1>23, <1>1, <1>2, <1>3 DEF GovernFailsOpen, GoTo, rowVars, handlerVars, Idle
<1>24. ASSUME NEW h \in Handlers, GrantError(h) PROVE Agree(r)'
  <2>1. h = Caller /\ stage[Caller] = "grant"
    BY <1>24, <1>3 DEF GrantError, ApproveStages
  <2>2. PICK q \in Requests : work[Caller] = <<q, Caller>>
    BY <1>3, <2>1 DEF ApproveStages
  <2>3. /\ stage'[Caller] = "fail" /\ work'[Caller] = work[Caller]
        /\ stage'[Reaper] = stage[Reaper] /\ work'[Reaper] = work[Reaper]
        /\ UNCHANGED <<request, status, revokedAt, upstream>>
    BY <1>24, <1>1, <2>1, <2>2 DEF GrantError, GoTo, rowVars, Sound
  <2> QED
    BY <1>1, <1>2, <1>n, <2>1, <2>2, <2>3
<1>25. ASSUME NEW h \in Handlers, WithdrawError(h) PROVE Agree(r)'
  <2>1. stage[h] = "withdraw"
    BY <1>25 DEF WithdrawError
  <2>2. /\ stage'[h] \in {"idle", "scan"}
        /\ \A g \in Handlers \ {h} : stage'[g] = stage[g] /\ work'[g] = work[g]
        /\ UNCHANGED <<request, status, revokedAt, upstream>>
    BY <1>25, <1>1 DEF WithdrawError, Return, rowVars, Sound
  <2> QED
    BY <1>1, <1>2, <2>1, <2>2
<1>26. CASE Tick
  BY <1>26, <1>2 DEF Tick, rowVars, handlerVars
<1>27. ASSUME NEW q \in Requests, FileRequest(q) PROVE Agree(r)'
  BY <1>27, <1>1, <1>2 DEF FileRequest, rowVars, handlerVars
<1>28. CASE UNCHANGED vars
  BY <1>28, <1>2 DEF vars, rowVars, handlerVars
<1> QED
  BY <1>4, <1>5, <1>6, <1>7, <1>8, <1>9, <1>10, <1>11, <1>12, <1>13, <1>14, <1>15, <1>16, <1>17, <1>18, <1>19, <1>20, <1>21, <1>22, <1>23, <1>24, <1>25, <1>26, <1>27, <1>28
     DEF Next, Start, Continue, Fail, GrantWithoutKey, WithdrawWithoutKey, WriteError, Abandon, Sound

\* Whoever revokes works on a row of the caller, and only the caller does
\* anything else.
LEMMA SettledControl ==
    ASSUME ControlInv, SettledInv, [Next]_vars, Cardinality(Callers) = 1
    PROVE  /\ stage'[Reaper] \in RevokeStages \cup {"idle", "scan"}
           /\ \A g \in Handlers : stage'[g] \in RevokeStages => work'[g][2] = Caller
<1>1. /\ Handlers = {Caller, Reaper} /\ Caller # Reaper
      /\ stage \in [Handlers -> Stages] /\ work \in [Handlers -> Instances \cup {None}]
      /\ todo \in [Handlers -> SUBSET Instances]
      /\ stage[Reaper] \in RevokeStages \cup {"idle", "scan"}
      /\ \A g \in Handlers : stage[g] \in RevokeStages => work[g][2] = Caller
  BY TwoHandlers DEF ControlInv, TypeOK, SettledInv
<1>2. ASSUME NEW i \in Instances, status[i] = "active" PROVE i[2] = Caller
  <2>1. i[1] \in Requests /\ i[2] \in {Caller, Reaper} /\ i = <<i[1], i[2]>>
    BY <1>1, InstanceParts
  <2> QED
    BY <1>2, <2>1 DEF SettledInv
\* Every step moves its handler in one of these ways.
<1>3. ASSUME NEW h \in Handlers,
             \A g \in Handlers \ {h} : stage'[g] = stage[g] /\ work'[g] = work[g],
             \/ stage'[h] \in {"idle", "scan"}
             \/ h = Caller /\ stage'[h] \notin RevokeStages
             \/ stage'[h] \in RevokeStages /\ stage[h] \in RevokeStages /\ work'[h] = work[h]
             \/ stage'[h] = "load" /\ \E i \in Instances : status[i] = "active" /\ work'[h] = i
      PROVE  /\ stage'[Reaper] \in RevokeStages \cup {"idle", "scan"}
             /\ \A g \in Handlers : stage'[g] \in RevokeStages => work'[g][2] = Caller
  BY <1>1, <1>2, <1>3 DEF RevokeStages
<1>4. CASE UNCHANGED <<stage, work>>
  BY <1>1, <1>4
<1>5. ASSUME NEW h \in Handlers,
             \/ \E r \in Requests : ApproveStart(h, r) \/ RejectStart(h, r)
             \/ \E i \in Instances : RecertifyStart(h, i)
             \/ DeleteStart(h)
      PROVE  /\ h = Caller /\ stage'[h] \notin RevokeStages
             /\ \A g \in Handlers \ {h} : stage'[g] = stage[g] /\ work'[g] = work[g]
  BY <1>1, <1>5 DEF ApproveStart, RejectStart, RecertifyStart, DeleteStart, Calls, Begin,
     GoTo, RevokeStages
<1>6. ASSUME NEW h \in Handlers, NEW i \in Instances, RevokeStart(h, i)
      PROVE  /\ stage'[h] = "load" /\ status[i] = "active" /\ work'[h] = i
             /\ \A g \in Handlers \ {h} : stage'[g] = stage[g] /\ work'[g] = work[g]
  BY <1>1, <1>6 DEF RevokeStart, Begin
<1>7. ASSUME NEW h \in Handlers, ReapNext(h)
      PROVE  /\ \/ stage'[h] \in {"idle", "scan"}
                \/ stage'[h] = "load" /\ \E i \in Instances : status[i] = "active" /\ work'[h] = i
             /\ \A g \in Handlers \ {h} : stage'[g] = stage[g] /\ work'[g] = work[g]
  BY <1>1, <1>7 DEF ReapNext, Begin
<1>8. ASSUME NEW h \in Handlers,
             \/ ApproveDecide(h) \/ ApproveGovern(h) \/ ApproveGrant(h) \/ ApproveInsert(h)
             \/ DeletePurge(h) \/ GovernFailsOpen(h) \/ GrantWithoutKey(h) \/ GrantError(h)
      PROVE  /\ h = Caller /\ stage'[h] \notin RevokeStages
             /\ \A g \in Handlers \ {h} : stage'[g] = stage[g] /\ work'[g] = work[g]
  BY <1>1, <1>8 DEF ApproveDecide, ApproveGovern, ApproveGrant, ApproveInsert, DeletePurge,
     GovernFailsOpen, GrantWithoutKey, GrantError, GoTo, RevokeStages
<1>9. ASSUME NEW h \in Handlers,
             \/ ReapStart(h) \/ ApproveEnd(h) \/ RejectDecide(h) \/ RevokeRecord(h)
             \/ RecertifyWrite(h) \/ DeleteDrop(h) \/ WithdrawError(h) \/ Abandon(h)
      PROVE  /\ stage'[h] \in {"idle", "scan"}
             /\ \A g \in Handlers \ {h} : stage'[g] = stage[g] /\ work'[g] = work[g]
  BY <1>1, <1>9 DEF ReapStart, ApproveEnd, RejectDecide, RevokeRecord, RecertifyWrite,
     DeleteDrop, WithdrawError, Abandon, Return
<1>10. ASSUME NEW h \in Handlers, RevokeLoad(h) \/ RevokeWithdraw(h) \/ WithdrawWithoutKey(h)
       PROVE  /\ \/ stage'[h] \in {"idle", "scan"}
                 \/ stage'[h] \in RevokeStages /\ stage[h] \in RevokeStages /\ work'[h] = work[h]
              /\ \A g \in Handlers \ {h} : stage'[g] = stage[g] /\ work'[g] = work[g]
  BY <1>1, <1>10 DEF RevokeLoad, RevokeWithdraw, WithdrawWithoutKey, GoTo, Return, RevokeStages
<1>11. ASSUME NEW h \in Handlers, WriteError(h)
       PROVE  /\ \/ stage'[h] \in {"idle", "scan"}
                 \/ h = Caller /\ stage'[h] \notin RevokeStages
              /\ \A g \in Handlers \ {h} : stage'[g] = stage[g] /\ work'[g] = work[g]
  BY <1>1, <1>11 DEF WriteError, GoTo, Return, RevokeStages
<1>12. CASE Tick \/ (\E r \in Requests : FileRequest(r)) \/ UNCHANGED vars
  BY <1>4, <1>12 DEF Tick, FileRequest, vars, handlerVars
<1> QED
  BY <1>3, <1>5, <1>6, <1>7, <1>8, <1>9, <1>10, <1>11, <1>12 DEF Next, Start, Continue, Fail

\* Only a deletion takes the provider away ...
LEMMA ProviderFrame ==
    [Next]_vars => UNCHANGED provider \/ \E h \in Handlers : DeleteDrop(h)
BY DEF Next, Start, Continue, Fail, vars, rowVars, handlerVars, Tick, FileRequest,
       ApproveStart, RejectStart, RevokeStart, RecertifyStart, ReapStart, DeleteStart,
       ApproveDecide, ApproveGovern, ApproveGrant, ApproveInsert, ApproveEnd, RejectDecide,
       RevokeLoad, RevokeWithdraw, RevokeRecord, RecertifyWrite, ReapNext, DeletePurge,
       GovernFailsOpen, GrantWithoutKey, GrantError, WithdrawWithoutKey, WithdrawError,
       WriteError, Abandon

\* ... access is granted only after it was seen, and rows are purged only after
\* none was seen live.
LEMMA Entered ==
    ASSUME TypeOK, [Next]_vars, NEW c \in Handlers
    PROVE  /\ stage'[c] \in {"grant", "insert"} => stage[c] \in {"grant", "insert"} \/ provider
           /\ stage'[c] = "purge" => stage[c] = "purge" \/ Active = {}
<1>1. stage \in [Handlers -> Stages]
  BY DEF TypeOK
<1>2. CASE UNCHANGED stage
  BY <1>2
<1>3. ASSUME NEW h \in Handlers,
             \/ \E r \in Requests : ApproveStart(h, r) \/ RejectStart(h, r)
             \/ \E i \in Instances : RevokeStart(h, i) \/ RecertifyStart(h, i)
             \/ ReapStart(h) \/ ReapNext(h) \/ ApproveEnd(h) \/ RejectDecide(h)
             \/ RevokeRecord(h) \/ RecertifyWrite(h) \/ DeleteDrop(h) \/ WithdrawError(h)
             \/ Abandon(h) \/ RevokeLoad(h)
      PROVE  /\ \A g \in Handlers \ {h} : stage'[g] = stage[g]
             /\ stage'[h] \notin {"grant", "insert", "purge"}
  BY <1>1, <1>3 DEF ApproveStart, RejectStart, RevokeStart, RecertifyStart, Begin, ReapStart,
     ReapNext, ApproveEnd, RejectDecide, RevokeRecord, RecertifyWrite, DeleteDrop,
     WithdrawError, Abandon, RevokeLoad, Return, GoTo
<1>4. ASSUME NEW h \in Handlers,
             \/ ApproveDecide(h) \/ ApproveInsert(h) \/ RevokeWithdraw(h)
             \/ WithdrawWithoutKey(h) \/ DeletePurge(h) \/ GrantError(h) \/ WriteError(h)
      PROVE  /\ \A g \in Handlers \ {h} : stage'[g] = stage[g]
             /\ stage'[h] \notin {"grant", "insert", "purge"}
  BY <1>1, <1>4 DEF ApproveDecide, ApproveInsert, RevokeWithdraw, WithdrawWithoutKey,
     DeletePurge, GrantError, WriteError, Return, GoTo
<1>5. ASSUME NEW h \in Handlers, ApproveGrant(h) \/ GrantWithoutKey(h)
      PROVE  /\ \A g \in Handlers \ {h} : stage'[g] = stage[g]
             /\ stage[h] = "grant" /\ stage'[h] = "insert"
  BY <1>1, <1>5 DEF ApproveGrant, GrantWithoutKey, GoTo
<1>6. ASSUME NEW h \in Handlers, ApproveGovern(h) \/ GovernFailsOpen(h)
      PROVE  /\ \A g \in Handlers \ {h} : stage'[g] = stage[g]
             /\ stage'[h] = "fail" \/ (stage'[h] = "grant" /\ provider)
  <2>1. /\ stage[h] = "govern"
        /\ GoTo(h, "fail") \/ (GoTo(h, "grant") /\ provider)
    BY <1>6 DEF ApproveGovern, GovernFailsOpen
  <2> QED
    BY <1>1, <2>1 DEF GoTo
<1>7. ASSUME NEW h \in Handlers, DeleteStart(h)
      PROVE  /\ \A g \in Handlers \ {h} : stage'[g] = stage[g]
             /\ stage'[h] = "purge" /\ Active = {}
  BY <1>1, <1>7 DEF DeleteStart, GoTo
<1> QED
  BY <1>2, <1>3, <1>4, <1>5, <1>6, <1>7 DEF Next, Start, Continue, Fail, Tick, FileRequest,
     vars, handlerVars

\* The provider is there while access is granted, and no row is live when the
\* rows of a provider are purged.
LEMMA SettledStep ==
    ASSUME ControlInv, SettledInv, [Next]_vars, Sound, Cardinality(Callers) = 1
    PROVE  SettledInv'
<1>1. /\ Handlers = {Caller, Reaper} /\ Caller # Reaper
      /\ stage \in [Handlers -> Stages] /\ work \in [Handlers -> Instances \cup {None}]
      /\ status \in [Instances -> InstanceStatus]
      /\ stage[Reaper] \in RevokeStages \cup {"idle", "scan"}
      /\ stage[Caller] \in {"grant", "insert"} => provider
      /\ stage[Caller] = "purge" => Active = {}
  BY TwoHandlers DEF ControlInv, TypeOK, SettledInv
<1>2. ASSUME NEW r \in Requests PROVE status'[<<r, Reaper>>] = "none"
  <2>1. <<r, Reaper>> \in Instances /\ status[<<r, Reaper>>] = "none"
    BY <1>1, InstancePair DEF SettledInv
  <2>2. ASSUME NEW h \in Handlers, ApproveInsert(h) PROVE work[h] # <<r, Reaper>>
    <3>1. work[h] = <<work[h][1], h>> /\ h # Reaper
      BY <1>1, <2>2, OwnRow DEF ApproveInsert, ApproveStages, RevokeStages, ControlInv
    <3> QED
      BY <3>1
  <2> QED
    BY <2>1, <2>2, RowIsCreatedByInsert
<1>3. \A h \in Handlers : stage[h] \in ApproveStages \cup {"purge", "drop"} => h = Caller
  BY <1>1 DEF ApproveStages, RevokeStages
<1>4. stage'[Caller] \in {"grant", "insert"} => provider'
  <2>1. stage'[Caller] \in {"grant", "insert"} => provider
    BY <1>1, Entered DEF ControlInv
  <2>2. stage'[Caller] \in {"grant", "insert"} => \A h \in Handlers : ~DeleteDrop(h)
    BY <1>1, <1>3 DEF DeleteDrop, Return
  <2> QED
    BY <2>1, <2>2, ProviderFrame
<1>5. stage'[Caller] = "purge" => Active' = {}
  <2> SUFFICES ASSUME stage'[Caller] = "purge" PROVE Active' = {}
    OBVIOUS
  <2>1. Active = {}
    BY <1>1, Entered DEF ControlInv
  <2>2. \A h \in Handlers : ~ApproveInsert(h)
    BY <1>1, <1>3 DEF ApproveInsert, GoTo, ApproveStages
  <2> QED
    BY <2>1, <2>2, ActiveFrame DEF ControlInv
<1> QED
  BY <1>2, <1>4, <1>5, AgreeStep, SettledControl DEF SettledInv

\* At the start there is nothing that could disagree.
LEMMA InitSettled ==
    ASSUME Init, Cardinality(Callers) = 1
    PROVE  SettledInv
<1>1. Handlers = {Caller, Reaper}
  BY TwoHandlers
<1>2. \A r \in Requests : status[<<r, Reaper>>] = "none" /\ status[<<r, Caller>>] = "none"
                          /\ revokedAt[<<r, Caller>>] = 0
  BY <1>1, InstancePair DEF Init
<1>3. stage[Reaper] = "idle" /\ stage[Caller] = "idle"
  BY <1>1 DEF Init
<1>4. \A r \in Requests : Agree(r)
  BY <1>1, <1>2, <1>3 DEF Init, Agree, At, Revoking, Undone, RevokeStages
<1> QED
  BY <1>1, <1>2, <1>3, <1>4 DEF SettledInv, RevokeStages

\* With one caller beside the reaper: whenever neither runs, the access at the
\* provider, the row, its date of revocation and the request say the same, in
\* whatever order approvals, rejections, revokes, recertifications, passes of
\* the reaper and deletions have interleaved, calls were refused, reads have
\* failed and access was gone (request.go, ai.go: the order of the statements).
THEOREM SettledStoresAgreeHolds ==
    ASSUME Sound, Cardinality(Callers) = 1
    PROVE  Spec => []SettledStoresAgree
<1>1. Init => ControlInv /\ SettledInv
  BY InitControl, InitSettled
<1>2. ControlInv /\ SettledInv /\ [Next]_vars => (ControlInv /\ SettledInv)'
  BY ControlStep, SettledStep
<1>3. ControlInv /\ SettledInv => SettledStoresAgree
  <2> SUFFICES ASSUME ControlInv, SettledInv, \A h \in Handlers : Idle(h), NEW r \in Requests
               PROVE  /\ r \in upstream <=> \E h \in Handlers : status[<<r, h>>] = "active"
                      /\ \A h \in Handlers : status[<<r, h>>] = "active" <=>
                             status[<<r, h>>] # "none" /\ revokedAt[<<r, h>>] = 0
                      /\ r \in upstream => request[r] = "completed"
    BY DEF SettledStoresAgree
  <2>1. /\ Handlers = {Caller, Reaper}
        /\ status[<<r, Caller>>] \in InstanceStatus /\ status[<<r, Reaper>>] = "none"
    BY TwoHandlers, InstancePair DEF ControlInv, TypeOK, SettledInv
  <2>2. /\ Agree(r) /\ \A S : "idle" \notin S => ~At(S, r) /\ ~Revoking(S, r)
    BY <2>1 DEF SettledInv, At, Revoking, Idle
  <2>3. r \in upstream <=> status[<<r, Caller>>] = "active"
    BY <2>2 DEF Agree
  <2>4. status[<<r, Caller>>] = "active" => request[r] = "completed"
    BY <2>2 DEF Agree
  <2>5. status[<<r, Caller>>] = "active" <=>
            status[<<r, Caller>>] # "none" /\ revokedAt[<<r, Caller>>] = 0
    <3>1. status[<<r, Caller>>] # "revoked" <=> revokedAt[<<r, Caller>>] = 0
      BY <2>2 DEF Agree
    <3> QED
      BY <2>1, <3>1 DEF InstanceStatus
  <2> QED
    BY <2>1, <2>3, <2>4, <2>5
<1> QED
  BY <1>1, <1>2, <1>3, PTL DEF Spec

=============================================================================
