-------------------------- MODULE GovernanceProofs --------------------------
(***************************************************************************)
(* Proofs about Governance, for any tenants, rules, requests and handlers: *)
(* the gate lets nothing through that a rule forbade all the while, and    *)
(* nobody changes a rule of another tenant.                                *)
(***************************************************************************)
EXTENDS Governance, TLAPS

(***************************************************************************)
(* Control: where a handler may be, and the fields of what it holds.       *)
(***************************************************************************)

Stages == {"idle"} \cup Gate \cup Writes

\* A record with the fields of NoWork.
Fields == {"id", "row", "request", "read", "hard", "blind", "approving"}
Shape(w) == DOMAIN w = Fields /\ w.hard \in BOOLEAN

Control ==
    /\ stage \in [Handlers -> Stages]
    /\ work = [h \in Handlers |-> work[h]]
    /\ \A h \in Handlers : Shape(work[h])
    /\ standing = [h \in Handlers |-> standing[h]]

\* One handler moves, and nobody else is touched by that.
LEMMA GotoMoves ==
    ASSUME Control, NEW h \in Handlers, NEW s, NEW w, Goto(h, s, w)
    PROVE  /\ stage'[h] = s /\ work'[h] = w
           /\ \A k \in Handlers \ {h} : stage'[k] = stage[k] /\ work'[k] = work[k]
BY DEF Control, Goto

\* A handler that goes to a stage of the module with a record of the right
\* shape keeps control, ...
LEMMA GotoControl ==
    ASSUME Control, NEW h \in Handlers, NEW s \in Stages, NEW w, Shape(w),
           Goto(h, s, w), Remember
    PROVE  Control'
<1>1. stage' \in [Handlers -> Stages]
  BY DEF Control, Goto
<1>2. work' = [k \in Handlers |-> work'[k]] /\ \A k \in Handlers : Shape(work'[k])
  BY DEF Control, Goto
<1>3. standing' = [k \in Handlers |-> standing'[k]]
  BY DEF Remember
<1> QED
  BY <1>1, <1>2, <1>3 DEF Control, Shape

\* ... and so does a step that moves nobody.
LEMMA StayControl == Control /\ UNCHANGED control /\ Remember => Control'
BY DEF Control, control, Remember, Shape

\* A handler without work holds a record of the right shape, ...
LEMMA NoWorkShape == Shape(NoWork)
BY DEF Shape, Fields, NoWork

\* What the gate writes into its work.
LEMMA ThenShape ==
    ASSUME NEW w, Shape(w), NEW x, NEW y \in BOOLEAN, NEW v,
           v = [w EXCEPT !.read = x, !.hard = @ \/ y]
    PROVE  /\ Shape(v) /\ v.read = x /\ v.hard = (w.hard \/ y)
           /\ v.request = w.request /\ v.blind = w.blind
BY DEF Shape, Fields

\* A part of the gate that could not read adds itself to what it is blind for
\* and keeps its verdict.
LEMMA BlindShape ==
    ASSUME NEW w, Shape(w), NEW part, NEW v,
           v = [w EXCEPT !.read = {}, !.blind = @ \cup {part}]
    PROVE  /\ Shape(v) /\ v.hard = w.hard /\ v.request = w.request
           /\ v.blind = w.blind \cup {part}
BY DEF Shape, Fields

\* What an operation on rules writes into its work.
LEMMA HoldShape ==
    ASSUME NEW i, NEW row
    PROVE  Shape([NoWork EXCEPT !.id = i, !.row = row]) /\ Shape([NoWork EXCEPT !.id = i])
BY NoWorkShape DEF Shape, Fields

\* ... and so does one that has just been asked to evaluate a request.
LEMMA AskShape ==
    ASSUME NEW r, NEW approving
    PROVE  Shape([NoWork EXCEPT !.request = r, !.approving = approving])
BY NoWorkShape DEF Shape, Fields

\* The operations on rules never enter the gate.
LEMMA AdministerMoves ==
    ASSUME NEW h \in Handlers, Administer(h)
    PROVE  /\ UNCHANGED <<active, usage>>
           /\ \/ UNCHANGED control
              \/ \E s \in {"idle"} \cup Writes : \E w : Shape(w) /\ Goto(h, s, w)
<1>1. CASE CreateAIAccessPolicy(h) \/ CreateAIQuota(h) \/ CreateAIBudget(h)
  BY <1>1 DEF CreateAIAccessPolicy, CreateAIQuota, CreateAIBudget
<1>2. CASE GetForUpdatePolicy(h) \/ GetForUpdateQuota(h) \/ GetForUpdateBudget(h)
  <2>1. {"setPolicy", "setQuota", "setBudget"} \subseteq Writes
    BY DEF Writes
  <2>2. \E s \in Writes : \E i : \E row : Goto(h, s, [NoWork EXCEPT !.id = i, !.row = row])
    <3>1. CASE GetForUpdatePolicy(h)
      BY <2>1, <3>1 DEF GetForUpdatePolicy
    <3>2. CASE GetForUpdateQuota(h)
      BY <2>1, <3>2 DEF GetForUpdateQuota
    <3>3. CASE GetForUpdateBudget(h)
      BY <2>1, <3>3 DEF GetForUpdateBudget
    <3> QED
      BY <1>2, <3>1, <3>2, <3>3
  <2> QED
    BY <1>2, <2>2, HoldShape DEF GetForUpdatePolicy, GetForUpdateQuota, GetForUpdateBudget
<1>3. CASE GetForDeletePolicy(h) \/ GetForDeleteQuota(h) \/ GetForDeleteBudget(h)
  <2>1. \E s \in Writes : \E i : Goto(h, s, [NoWork EXCEPT !.id = i])
    BY <1>3 DEF GetForDeletePolicy, GetForDeleteQuota, GetForDeleteBudget, Writes
  <2> QED
    BY <1>3, <2>1, HoldShape DEF GetForDeletePolicy, GetForDeleteQuota, GetForDeleteBudget
<1>4. CASE \/ UpdateAIAccessPolicy(h) \/ UpdateAIQuota(h) \/ UpdateAIBudget(h)
           \/ DeleteAIAccessPolicy(h) \/ DeleteAIQuota(h) \/ DeleteAIBudget(h)
  BY <1>4, NoWorkShape DEF UpdateAIAccessPolicy, UpdateAIQuota, UpdateAIBudget,
     DeleteAIAccessPolicy, DeleteAIQuota, DeleteAIBudget, Return
<1> QED
  BY <1>1, <1>2, <1>3, <1>4 DEF Administer

\* The steps of the gate touch no rules.
LEMMA GateMoves ==
    ASSUME Control, NEW h \in Handlers, evaluateAIGovernance(h)
    PROVE  /\ UNCHANGED <<rules, usage>>
           /\ \E s \in {"idle"} \cup Gate : \E w : Shape(w) /\ Goto(h, s, w)
<1>1. Shape(work[h])
  BY DEF Control
<1>2. CASE CreateAIRequest(h) \/ ProvisionAIRequest(h)
  BY <1>2, AskShape DEF CreateAIRequest, ProvisionAIRequest, Evaluate, Gate
<1>3. CASE GatePolicies(h) \/ GateQuotas(h) \/ GateInstances(h) \/ GateBudgets(h)
  <2>1. ASSUME NEW s \in Gate, NEW x, NEW y \in BOOLEAN, Then(h, s, x, y)
        PROVE  \E w : Shape(w) /\ Goto(h, s, w)
    <3> DEFINE v == [work[h] EXCEPT !.read = x, !.hard = @ \/ y]
    <3>1. Goto(h, s, v)
      BY <2>1 DEF Then
    <3>2. Shape(v)
      BY <1>1 DEF Shape, Fields
    <3> QED
      BY <3>1, <3>2
  <2>2. {"quotas", "instances", "budgets", "usage"} \subseteq Gate
    BY DEF Gate
  <2>3. CASE GatePolicies(h)
    <3> DEFINE y == \E p \in ListAIAccessPolicies(h) : Denies(p, work[h].request)
    <3>1. Then(h, "quotas", {}, y)
      BY <2>3 DEF GatePolicies
    <3> QED
      BY <2>1, <2>2, <2>3, <3>1 DEF GatePolicies, Then
  <2>4. CASE GateInstances(h)
    <3> DEFINE y == \E q \in work[h].read :
                        QuotaBlocks(q, work[h].request, ListAIInstances(h))
    <3>1. Then(h, "budgets", {}, y)
      BY <2>4 DEF GateInstances
    <3> QED
      BY <2>1, <2>2, <2>4, <3>1 DEF GateInstances, Then
  <2>5. CASE GateQuotas(h) \/ GateBudgets(h)
    BY <2>1, <2>2, <2>5 DEF GateQuotas, GateBudgets, Then
  <2> QED
    BY <1>3, <2>3, <2>4, <2>5
<1>4. CASE GateUsage(h)
  <2>1. Shape([work[h] EXCEPT !.read = {}])
    BY <1>1 DEF Shape, Fields
  <2> QED
    BY <1>4, <2>1, NoWorkShape DEF GateUsage, Return, Gate
<1>5. CASE GateReadFails(h)
  <2>1. \/ Return(h)
        \/ \E s \in Gate : \E part :
             Goto(h, s, [work[h] EXCEPT !.read = {}, !.blind = @ \cup {part}])
    BY <1>5 DEF GateReadFails, Gate
  <2> QED
    BY <1>1, <1>5, <2>1, BlindShape, NoWorkShape DEF GateReadFails, Return
<1>6. CASE GateOpen(h)
  BY <1>6, NoWorkShape DEF GateOpen, Return
<1> QED
  BY <1>2, <1>3, <1>4, <1>5, <1>6 DEF evaluateAIGovernance

\* No step of the module leaves control.
LEMMA ControlStep == Control /\ [Next]_vars => Control'
<1> SUFFICES ASSUME Control, [Next]_vars PROVE Control'
  OBVIOUS
<1>1. CASE UNCHANGED vars
  BY <1>1 DEF vars, control, Control, Shape
<1>2. ASSUME NEW h \in Handlers, Administer(h), Remember PROVE Control'
  BY <1>2, AdministerMoves, GotoControl, StayControl DEF Stages
<1>3. ASSUME NEW h \in Handlers, evaluateAIGovernance(h), Remember PROVE Control'
  BY <1>3, GateMoves, GotoControl DEF Stages
<1>4. CASE (AccessEnds \/ UsageRecorded) /\ Remember
  BY <1>4, StayControl DEF AccessEnds, UsageRecorded
<1> QED
  BY <1>1, <1>2, <1>3, <1>4 DEF Next

-----------------------------------------------------------------------------
(***************************************************************************)
(* The gate.                                                               *)
(***************************************************************************)

\* The kinds of rule that have had their verdict at a stage.
Judged(s) ==
    CASE s \in {"quotas", "instances"} -> {"policy"}
      [] s \in {"budgets", "usage"} -> {"policy", "quota"}
      [] OTHER -> {}

\* What has forbidden the request of k all the while has been found by the
\* part of the gate that is over, and read by the one at work.
Fit(k) ==
    /\ \A f \in standing[k] :
         /\ f.kind \in {"policy", "quota", "budget"}
         /\ f.kind \in Judged(stage[k]) \ work[k].blind => work[k].hard
         /\ stage[k] = "instances" /\ f.kind = "quota" => f.is \in work[k].read
         /\ stage[k] = "usage" /\ f.kind = "budget" => f.is \in work[k].read
         /\ stage[k] = "open" => f.kind \in work[k].blind

GateFits == \A k \in Handlers : Fit(k)

\* A handler that does not move stays fit: what stands only shrinks.
LEMMA StayFit ==
    ASSUME NEW k \in Handlers, Fit(k), Remember, stage'[k] = stage[k], work'[k] = work[k]
    PROVE  Fit(k)'
<1>1. standing'[k] = {} \/ standing'[k] = standing[k] \cap Forbidding(k)'
  BY DEF Remember
<1>2. \A f \in standing'[k] : f \in standing[k]
  BY <1>1
<1> QED
  BY <1>2 DEF Fit

\* Outside the gate nothing stands.
LEMMA OutFit ==
    ASSUME NEW k \in Handlers, Remember, stage'[k] \notin Gate
    PROVE  Fit(k)'
BY DEF Remember, Fit

\* What a rule that forbids a request is.
LEMMA Forbidden ==
    ASSUME NEW h \in Handlers, NEW f \in Forbidding(h)'
    PROVE  \/ /\ f.kind = "policy" /\ f.is \in ListAIAccessPolicies(h)'
              /\ Denies(f.is, work'[h].request)
           \/ /\ f.kind = "quota" /\ f.is \in ListAIQuotas(h)'
              /\ QuotaBlocks(f.is, work'[h].request, ListAIInstances(h)')
           \/ /\ f.kind = "budget" /\ f.is \in ListAIBudgets(h)'
              /\ BudgetBlocks(f.is, work'[h].request, ListAIUsageRecords(h)')
BY DEF Forbidding, Named

\* A handler is shown the same while nobody writes.
LEMMA SameLists ==
    ASSUME NEW h \in Handlers, UNCHANGED <<rules, active, usage>>
    PROVE  /\ ListAIAccessPolicies(h)' = ListAIAccessPolicies(h)
           /\ ListAIQuotas(h)' = ListAIQuotas(h)
           /\ ListAIBudgets(h)' = ListAIBudgets(h)
           /\ ListAIInstances(h)' = ListAIInstances(h)
           /\ ListAIUsageRecords(h)' = ListAIUsageRecords(h)
BY DEF rules, ListAIAccessPolicies, ListAIQuotas, ListAIBudgets, ListAIInstances,
   ListAIUsageRecords, Rows, Visible

\* A step inside the gate that goes on with the request.
LEMMA Standing ==
    ASSUME NEW h \in Handlers, Remember, UNCHANGED <<rules, active, usage>>,
           stage[h] \in Gate, work'[h].request = work[h].request, NEW f \in standing'[h]
    PROVE  /\ f \in standing[h]
           /\ \/ /\ f.kind = "policy" /\ f.is \in ListAIAccessPolicies(h)
                 /\ Denies(f.is, work[h].request)
              \/ /\ f.kind = "quota" /\ f.is \in ListAIQuotas(h)
                 /\ QuotaBlocks(f.is, work[h].request, ListAIInstances(h))
              \/ /\ f.kind = "budget" /\ f.is \in ListAIBudgets(h)
                 /\ BudgetBlocks(f.is, work[h].request, ListAIUsageRecords(h))
<1>1. f \in standing[h] /\ f \in Forbidding(h)'
  BY DEF Remember
<1> QED
  BY <1>1, Forbidden, SameLists

\* A part of the gate that goes on leaves its handler fit.
LEMMA ThenFit ==
    ASSUME Control, GateFits, Remember, NEW h \in Handlers,
           NEW next, NEW read, NEW hard \in BOOLEAN, Then(h, next, read, hard),
           \/ /\ stage[h] = "policies" /\ next = "quotas"
              /\ \A p \in ListAIAccessPolicies(h) : Denies(p, work[h].request) => hard
           \/ stage[h] = "quotas" /\ next = "instances" /\ read = ListAIQuotas(h)
           \/ /\ stage[h] = "instances" /\ next = "budgets"
              /\ \A q \in work[h].read :
                   QuotaBlocks(q, work[h].request, ListAIInstances(h)) => hard
           \/ stage[h] = "budgets" /\ next = "usage" /\ read = ListAIBudgets(h)
    PROVE  Fit(h)'
<1> DEFINE v == [work[h] EXCEPT !.read = read, !.hard = @ \/ hard]
<1>1. Goto(h, next, v) /\ UNCHANGED <<rules, active, usage>> /\ stage[h] \in Gate
  BY DEF Then, Gate
<1>2. /\ v.read = read /\ v.hard = (work[h].hard \/ hard)
      /\ v.request = work[h].request /\ v.blind = work[h].blind
  BY DEF Control, Shape, Fields
<1>3. stage'[h] = next /\ work'[h] = v
  BY <1>1, GotoMoves
<1> HIDE DEF v
<1>4. Fit(h)
  BY DEF GateFits
<1>5. ASSUME NEW f \in standing'[h]
      PROVE  /\ f.kind \in {"policy", "quota", "budget"}
             /\ f.kind \in Judged(next) \ work[h].blind => work[h].hard \/ hard
             /\ next = "instances" /\ f.kind = "quota" => f.is \in read
             /\ next = "usage" /\ f.kind = "budget" => f.is \in read
             /\ next # "open"
  <2>1. /\ f \in standing[h]
        /\ \/ /\ f.kind = "policy" /\ f.is \in ListAIAccessPolicies(h)
              /\ Denies(f.is, work[h].request)
           \/ /\ f.kind = "quota" /\ f.is \in ListAIQuotas(h)
              /\ QuotaBlocks(f.is, work[h].request, ListAIInstances(h))
           \/ f.kind = "budget" /\ f.is \in ListAIBudgets(h)
    BY <1>1, <1>2, <1>3, Standing
  <2>2. CASE stage[h] = "policies"
    BY <2>1, <2>2 DEF Judged
  <2>3. CASE stage[h] = "quotas"
    BY <1>4, <2>1, <2>3 DEF Judged, Fit
  <2>4. CASE stage[h] = "instances"
    BY <1>4, <2>1, <2>4 DEF Judged, Fit
  <2>5. CASE stage[h] = "budgets"
    BY <1>4, <2>1, <2>5 DEF Judged, Fit
  <2> QED
    BY <2>2, <2>3, <2>4, <2>5
<1> QED
  BY <1>2, <1>3, <1>5 DEF Fit

\* The verdict: a handler that gets through holds nothing against its request.
LEMMA OpenFit ==
    ASSUME Control, GateFits, Remember, NEW h \in Handlers, GateUsage(h)
    PROVE  Fit(h)'
<1>1. CASE Return(h)
  <2>1. stage'[h] = "idle"
    BY <1>1, GotoMoves DEF Return
  <2> QED
    BY <2>1, OutFit DEF Gate
<1>2. CASE /\ ~work[h].hard
           /\ \A b \in work[h].read : ~BudgetBlocks(b, work[h].request, ListAIUsageRecords(h))
           /\ Goto(h, "open", [work[h] EXCEPT !.read = {}])
  <2> DEFINE v == [work[h] EXCEPT !.read = {}]
  <2>1. v.request = work[h].request /\ v.blind = work[h].blind
    BY DEF Control, Shape, Fields
  <2>2. stage'[h] = "open" /\ work'[h] = v
    BY <1>2, GotoMoves
  <2>3. Fit(h) /\ stage[h] = "usage" /\ UNCHANGED <<rules, active, usage>>
    BY DEF GateFits, GateUsage
  <2> HIDE DEF v
  <2>4. ASSUME NEW f \in standing'[h]
        PROVE  f.kind \in {"policy", "quota", "budget"} /\ f.kind \in work[h].blind
    <3>1. /\ f \in standing[h]
          /\ \/ f.kind = "policy" \/ f.kind = "quota"
             \/ f.kind = "budget" /\ BudgetBlocks(f.is, work[h].request, ListAIUsageRecords(h))
      BY <2>1, <2>2, <2>3, Standing DEF Gate
    <3> QED
      BY <1>2, <2>3, <3>1 DEF Fit, Judged
  <2> QED
    BY <2>1, <2>2, <2>4 DEF Fit, Judged
<1> QED
  BY <1>1, <1>2 DEF GateUsage

\* A read that fails hides its part.
LEMMA BlindFit ==
    ASSUME Control, GateFits, Remember, NEW h \in Handlers, GateReadFails(h)
    PROVE  Fit(h)'
<1>1. CASE Return(h)
  <2>1. stage'[h] = "idle"
    BY <1>1, GotoMoves DEF Return
  <2> QED
    BY <2>1, OutFit DEF Gate
<1>2. ASSUME NEW next, NEW part,
             Goto(h, next, [work[h] EXCEPT !.read = {}, !.blind = @ \cup {part}]),
             \/ stage[h] = "policies" /\ next = "quotas" /\ part = "policy"
             \/ stage[h] \in {"quotas", "instances"} /\ next = "budgets" /\ part = "quota"
             \/ /\ stage[h] \in {"budgets", "usage"} /\ next = "open" /\ part = "budget"
                /\ ~work[h].hard
      PROVE  Fit(h)'
  <2> DEFINE v == [work[h] EXCEPT !.read = {}, !.blind = @ \cup {part}]
  <2>1. /\ v.request = work[h].request /\ v.hard = work[h].hard
        /\ v.blind = work[h].blind \cup {part}
    BY DEF Control, Shape, Fields
  <2>2. stage'[h] = next /\ work'[h] = v
    BY <1>2, GotoMoves
  <2>3. Fit(h) /\ stage[h] \in Gate
    BY <1>2 DEF GateFits, Gate
  <2> HIDE DEF v
  <2>4. \A f \in standing'[h] : f \in standing[h]
    <3>1. standing'[h] = {} \/ standing'[h] = standing[h] \cap Forbidding(h)'
      BY <2>3 DEF Remember
    <3> QED
      BY <3>1
  <2>5. ASSUME NEW f \in standing'[h]
        PROVE  /\ f.kind \in {"policy", "quota", "budget"}
               /\ f.kind \in Judged(next) \ (work[h].blind \cup {part}) => work[h].hard
               /\ next \notin {"instances", "usage"}
               /\ next = "open" => f.kind \in work[h].blind \cup {part}
    <3>1. /\ f.kind \in {"policy", "quota", "budget"}
          /\ f.kind \in Judged(stage[h]) \ work[h].blind => work[h].hard
      BY <2>3, <2>4 DEF Fit
    <3>2. CASE stage[h] = "policies"
      BY <1>2, <3>1, <3>2 DEF Judged
    <3>3. CASE stage[h] \in {"quotas", "instances"}
      BY <1>2, <3>1, <3>3 DEF Judged
    <3>4. CASE stage[h] \in {"budgets", "usage"}
      BY <1>2, <3>1, <3>4 DEF Judged
    <3> QED
      BY <1>2, <3>2, <3>3, <3>4
  <2> QED
    BY <2>1, <2>2, <2>5 DEF Fit
<1> QED
  BY <1>1, <1>2 DEF GateReadFails

\* Every step keeps what each part of the gate knows of the standing rules.
LEMMA FitStep == Control /\ GateFits /\ [Next]_vars => GateFits'
<1> SUFFICES ASSUME Control, GateFits, [Next]_vars, NEW k \in Handlers PROVE Fit(k)'
  BY DEF GateFits
<1>1. Fit(k)
  BY DEF GateFits
<1>2. CASE UNCHANGED vars
  BY <1>1, <1>2 DEF vars, control, Fit
<1>3. ASSUME UNCHANGED control, Remember PROVE Fit(k)'
  BY <1>1, <1>3, StayFit DEF control
<1>4. ASSUME NEW h \in Handlers, NEW s, NEW w, Goto(h, s, w), Remember, k # h PROVE Fit(k)'
  BY <1>1, <1>4, StayFit, GotoMoves
<1>5. ASSUME NEW s, NEW w, Goto(k, s, w), Remember, s \notin Gate PROVE Fit(k)'
  BY <1>5, OutFit, GotoMoves
<1>6. ASSUME NEW h \in Handlers, Administer(h), Remember PROVE Fit(k)'
  <2>1. \A s \in {"idle"} \cup Writes : s \notin Gate
    BY DEF Writes, Gate
  <2> QED
    BY <1>3, <1>4, <1>5, <1>6, <2>1, AdministerMoves
<1>7. ASSUME NEW h \in Handlers, evaluateAIGovernance(h), Remember, k # h PROVE Fit(k)'
  BY <1>4, <1>7, GateMoves
<1>8. ASSUME evaluateAIGovernance(k), Remember PROVE Fit(k)'
  <2>1. CASE CreateAIRequest(k) \/ ProvisionAIRequest(k)
    <3>1. stage'[k] = "policies"
      BY <2>1, GotoMoves DEF CreateAIRequest, ProvisionAIRequest, Evaluate
    <3>2. \A f \in standing'[k] : f \in Forbidding(k)'
      <4>1. standing'[k] = Forbidding(k)' \/ standing'[k] = standing[k] \cap Forbidding(k)'
        BY <1>8, <3>1 DEF Remember, Gate
      <4> QED
        BY <4>1
    <3>3. \A f \in standing'[k] : f.kind \in {"policy", "quota", "budget"}
      BY <3>2, Forbidden
    <3> QED
      BY <3>1, <3>3 DEF Fit, Judged
  <2>2. CASE GatePolicies(k)
    <3> DEFINE y == \E p \in ListAIAccessPolicies(k) : Denies(p, work[k].request)
    <3>1. Then(k, "quotas", {}, y) /\ stage[k] = "policies"
      BY <2>2 DEF GatePolicies
    <3>2. \A p \in ListAIAccessPolicies(k) : Denies(p, work[k].request) => y
      OBVIOUS
    <3>3. y \in BOOLEAN
      OBVIOUS
    <3> HIDE DEF y
    <3> QED
      BY <1>8, <3>1, <3>2, <3>3, ThenFit
  <2>3. CASE GateQuotas(k)
    BY <1>8, <2>3, ThenFit DEF GateQuotas
  <2>4. CASE GateInstances(k)
    <3> DEFINE y == \E q \in work[k].read :
                        QuotaBlocks(q, work[k].request, ListAIInstances(k))
    <3>1. Then(k, "budgets", {}, y) /\ stage[k] = "instances"
      BY <2>4 DEF GateInstances
    <3>2. \A q \in work[k].read : QuotaBlocks(q, work[k].request, ListAIInstances(k)) => y
      OBVIOUS
    <3>3. y \in BOOLEAN
      OBVIOUS
    <3> HIDE DEF y
    <3> QED
      BY <1>8, <3>1, <3>2, <3>3, ThenFit
  <2>5. CASE GateBudgets(k)
    BY <1>8, <2>5, ThenFit DEF GateBudgets
  <2>6. CASE GateUsage(k)
    BY <1>8, <2>6, OpenFit
  <2>7. CASE GateReadFails(k)
    BY <1>8, <2>7, BlindFit
  <2>8. CASE GateOpen(k)
    BY <1>5, <1>8, <2>8 DEF GateOpen, Return, Gate
  <2> QED
    BY <1>8, <2>1, <2>2, <2>3, <2>4, <2>5, <2>6, <2>7, <2>8 DEF evaluateAIGovernance
<1>9. CASE (AccessEnds \/ UsageRecorded) /\ Remember
  BY <1>3, <1>9 DEF AccessEnds, UsageRecorded
<1> QED
  BY <1>2, <1>6, <1>7, <1>8, <1>9 DEF Next

\* No request gets through that a rule the caller is shown, and that was read,
\* forbade from the first read of the gate to the last (evaluateAIGovernance).
THEOREM StandingRuleBlocksHolds == Spec => []StandingRuleBlocks
<1> DEFINE Inv == Control /\ GateFits
<1>1. Init => Inv
  <2> SUFFICES ASSUME Init PROVE Inv
    OBVIOUS
  <2>1. Control
    BY NoWorkShape DEF Init, Control, Stages
  <2>2. \A k \in Handlers : standing[k] = {}
    BY DEF Init
  <2> QED
    BY <2>1, <2>2 DEF GateFits, Fit
<1>2. Inv /\ [Next]_vars => Inv'
  BY ControlStep, FitStep
<1>3. Inv => StandingRuleBlocks
  BY DEF GateFits, Fit, StandingRuleBlocks
<1> QED
  BY <1>1, <1>2, <1>3, PTL DEF Spec

-----------------------------------------------------------------------------
(***************************************************************************)
(* The tables of rules.                                                    *)
(***************************************************************************)

\* The ids of a table t are given out in order, and what is gone is empty.
RowsFit(t, count) ==
    /\ count \in Nat /\ DOMAIN t = Ids
    /\ \A i \in Ids : t[i].live => i <= count
    /\ \A i \in Ids : ~t[i].live => t[i] = NoRow

\* A handler that is about to write has found its row and passed the guard:
\* the row is gone by now, or has the tenant it had then.
HandFits(h, t, count, set, drop) ==
    /\ stage[h] \in {set, drop} =>
         /\ work[h].id \in Ids /\ work[h].id <= count
         /\ t[work[h].id].live => aiTenantGuard(h, t[work[h].id].tenant)
    /\ stage[h] = set =>
         /\ work[h].row.live
         /\ t[work[h].id].live => work[h].row.tenant = t[work[h].id].tenant

TableFits(t, count, set, drop) ==
    RowsFit(t, count) /\ \A h \in Handlers : HandFits(h, t, count, set, drop)

RulesFit ==
    /\ DOMAIN created = {"policy", "quota", "budget"}
    /\ TableFits(policy, created["policy"], "setPolicy", "dropPolicy")
    /\ TableFits(quota, created["quota"], "setQuota", "dropQuota")
    /\ TableFits(budget, created["budget"], "setBudget", "dropBudget")

\* What a step of the module does to one of the tables: nothing but perhaps
\* to find a row in it, an insert, an update or a delete.
Finds(t, set, drop) ==
    \A k \in Handlers :
       \/ stage'[k] = stage[k] /\ work'[k] = work[k]
       \/ stage'[k] \notin {set, drop}
       \/ /\ work'[k].id \in Ids /\ Found(k, t, work'[k].id)
          /\ stage'[k] = set =>
               work'[k].row.live /\ work'[k].row.tenant = t[work'[k].id].tenant

Inserts(t, t2, count, count2) ==
    /\ count < MaxRows /\ count2 = count + 1 /\ UNCHANGED control
    /\ \E row : row.live /\ t2 = [t EXCEPT ![count + 1] = row]

Leaves(h) ==
    /\ stage'[h] = "idle"
    /\ \A k \in Handlers \ {h} : stage'[k] = stage[k] /\ work'[k] = work[k]

Sets(h, t, t2, set) ==
    /\ stage[h] = set /\ Leaves(h)
    /\ t2 = [t EXCEPT ![work[h].id] = IF @.live THEN work[h].row ELSE @]

Drops(h, t, t2, drop) ==
    stage[h] = drop /\ Leaves(h) /\ t2 = [t EXCEPT ![work[h].id] = NoRow]

TableStep(t, t2, count, count2, set, drop) ==
    \/ t2 = t /\ count2 = count /\ Finds(t, set, drop)
    \/ Inserts(t, t2, count, count2)
    \/ \E h \in Handlers :
         count2 = count /\ (Sets(h, t, t2, set) \/ Drops(h, t, t2, drop))

\* Whatever a step does to a table, its rows stay in order, and the row in the
\* hands of a handler is of the tenant it was checked for, or gone.
LEMMA TableKept ==
    ASSUME NEW t, NEW t2, NEW c, NEW c2, NEW set, NEW drop,
           "idle" \notin {set, drop}, set # drop,
           TableFits(t, c, set, drop), TableStep(t, t2, c, c2, set, drop)
    PROVE  /\ RowsFit(t2, c2)
           /\ \A h \in Handlers :
                /\ stage'[h] \in {set, drop} =>
                     /\ work'[h].id \in Ids /\ work'[h].id <= c2
                     /\ t2[work'[h].id].live => aiTenantGuard(h, t2[work'[h].id].tenant)
                /\ stage'[h] = set =>
                     /\ work'[h].row.live
                     /\ t2[work'[h].id].live => work'[h].row.tenant = t2[work'[h].id].tenant
<1>1. /\ c \in Nat /\ DOMAIN t = Ids
      /\ \A i \in Ids : t[i].live => i <= c
      /\ \A i \in Ids : ~t[i].live => t[i] = NoRow
      /\ MaxRows \in Nat /\ ~NoRow.live
  BY GovernanceAssumption DEF TableFits, RowsFit, NoRow
<1>2. \A k \in Handlers :
        /\ stage[k] \in {set, drop} =>
             /\ work[k].id \in Ids /\ work[k].id <= c
             /\ t[work[k].id].live => aiTenantGuard(k, t[work[k].id].tenant)
        /\ stage[k] = set =>
             /\ work[k].row.live
             /\ t[work[k].id].live => work[k].row.tenant = t[work[k].id].tenant
  BY DEF TableFits, HandFits
<1>3. CASE t2 = t /\ c2 = c /\ Finds(t, set, drop)
  <2>1. RowsFit(t2, c2)
    BY <1>1, <1>3 DEF RowsFit
  <2> QED
    BY <1>1, <1>2, <1>3, <2>1 DEF Finds, Found
<1>4. CASE Inserts(t, t2, c, c2)
  <2>1. PICK row : row.live /\ t2 = [t EXCEPT ![c + 1] = row]
    BY <1>4 DEF Inserts
  <2>2. /\ c2 = c + 1 /\ c2 \in Ids /\ UNCHANGED control
    BY <1>1, <1>4 DEF Inserts, Ids
  <2>3. /\ DOMAIN t2 = Ids /\ t2[c2].live
        /\ \A i \in Ids : i # c2 => t2[i] = t[i]
    BY <1>1, <2>1, <2>2
  <2>4. RowsFit(t2, c2)
    BY <1>1, <2>2, <2>3 DEF RowsFit, Ids
  <2>5. \A i \in Ids : i <= c => i # c2 /\ i <= c2
    BY <1>1, <2>2 DEF Ids
  <2> QED
    BY <1>2, <2>2, <2>3, <2>4, <2>5 DEF control
<1>5. ASSUME NEW h \in Handlers, c2 = c, Leaves(h), stage[h] \in {set, drop},
             DOMAIN t2 = Ids, \A i \in Ids : i # work[h].id => t2[i] = t[i],
             \/ t2[work[h].id] = NoRow
             \/ /\ t[work[h].id].live /\ t2[work[h].id].live
                /\ t2[work[h].id].tenant = t[work[h].id].tenant
      PROVE  /\ RowsFit(t2, c2)
             /\ \A k \in Handlers :
                  /\ stage'[k] \in {set, drop} =>
                       /\ work'[k].id \in Ids /\ work'[k].id <= c2
                       /\ t2[work'[k].id].live => aiTenantGuard(k, t2[work'[k].id].tenant)
                  /\ stage'[k] = set =>
                       /\ work'[k].row.live
                       /\ t2[work'[k].id].live => work'[k].row.tenant = t2[work'[k].id].tenant
  <2>1. \A i \in Ids : t2[i].live => t[i].live /\ t2[i].tenant = t[i].tenant
    BY <1>1, <1>5
  <2>2. RowsFit(t2, c2)
    BY <1>1, <1>5, <2>1 DEF RowsFit
  <2>3. \A k \in Handlers :
          stage'[k] \in {set, drop} => stage[k] = stage'[k] /\ work[k] = work'[k]
    BY <1>5 DEF Leaves
  <2> QED
    BY <1>2, <1>5, <2>1, <2>2, <2>3
<1>6. ASSUME NEW h \in Handlers, c2 = c, Sets(h, t, t2, set)
      PROVE  /\ DOMAIN t2 = Ids /\ \A i \in Ids : i # work[h].id => t2[i] = t[i]
             /\ \/ t2[work[h].id] = NoRow
                \/ /\ t[work[h].id].live /\ t2[work[h].id].live
                   /\ t2[work[h].id].tenant = t[work[h].id].tenant
  BY <1>1, <1>2, <1>6 DEF Sets
<1>7. ASSUME NEW h \in Handlers, c2 = c, Drops(h, t, t2, drop)
      PROVE  /\ DOMAIN t2 = Ids /\ \A i \in Ids : i # work[h].id => t2[i] = t[i]
             /\ t2[work[h].id] = NoRow
  BY <1>1, <1>2, <1>7 DEF Drops
<1> QED
  BY <1>3, <1>4, <1>5, <1>6, <1>7 DEF TableStep, Sets, Drops

\* Who returns from a write has changed a row it may change, or none.
LEMMA TableForeign ==
    ASSUME NEW t, NEW t2, NEW c, NEW c2, NEW set, NEW drop,
           TableFits(t, c, set, drop), TableStep(t, t2, c, c2, set, drop),
           NEW h \in Handlers, stage[h] # "idle", stage'[h] = "idle",
           NEW i \in Ids, t[i] # t2[i]
    PROVE  aiTenantGuard(h, t[i].tenant)
<1>1. PICK g \in Handlers : Sets(g, t, t2, set) \/ Drops(g, t, t2, drop)
  BY DEF TableStep, Inserts, control
<1>2. g = h
  BY <1>1 DEF Sets, Drops, Leaves
<1>3. i = work[h].id /\ t[i].live
  BY <1>1, <1>2 DEF Sets, Drops, TableFits, RowsFit
<1> QED
  BY <1>1, <1>2, <1>3 DEF Sets, Drops, TableFits, HandFits

\* Moves that find nothing in a table.
LEMMA FindsNothing ==
    ASSUME Control, NEW t, NEW set, NEW drop,
           \/ UNCHANGED control
           \/ \E h \in Handlers : \E s : \E w : s \notin {set, drop} /\ Goto(h, s, w)
    PROVE  Finds(t, set, drop)
<1>1. CASE UNCHANGED control
  BY <1>1 DEF Finds, control
<1>2. ASSUME NEW h \in Handlers, NEW s, NEW w, s \notin {set, drop}, Goto(h, s, w)
      PROVE  Finds(t, set, drop)
  BY <1>2, GotoMoves DEF Finds
<1> QED
  BY <1>1, <1>2

\* A move to a write that finds its row.
LEMMA FindsRow ==
    ASSUME Control, NEW t, NEW set, NEW drop, set # drop,
           NEW h \in Handlers, NEW i \in Ids, Found(h, t, i), NEW row,
           \/ /\ Goto(h, set, [NoWork EXCEPT !.id = i, !.row = row])
              /\ row.live /\ row.tenant = t[i].tenant
           \/ Goto(h, drop, [NoWork EXCEPT !.id = i])
    PROVE  Finds(t, set, drop)
<1>1. CASE /\ Goto(h, set, [NoWork EXCEPT !.id = i, !.row = row])
           /\ row.live /\ row.tenant = t[i].tenant
  <2> DEFINE w == [NoWork EXCEPT !.id = i, !.row = row]
  <2>1. w.id = i /\ w.row = row /\ Goto(h, set, w)
    BY <1>1 DEF NoWork
  <2> HIDE DEF w
  <2> QED
    BY <1>1, <2>1, GotoMoves DEF Finds
<1>2. CASE Goto(h, drop, [NoWork EXCEPT !.id = i])
  <2> DEFINE w == [NoWork EXCEPT !.id = i]
  <2>1. w.id = i /\ Goto(h, drop, w)
    BY <1>2 DEF NoWork
  <2> HIDE DEF w
  <2> QED
    BY <2>1, GotoMoves DEF Finds
<1> QED
  BY <1>1, <1>2

\* Every step is one of these to each of the tables.
TablesStep ==
    /\ TableStep(policy, policy', created["policy"], created'["policy"], "setPolicy", "dropPolicy")
    /\ TableStep(quota, quota', created["quota"], created'["quota"], "setQuota", "dropQuota")
    /\ TableStep(budget, budget', created["budget"], created'["budget"], "setBudget", "dropBudget")

\* ... those that write nothing and enter no write,
LEMMA QuietStep ==
    ASSUME Control, UNCHANGED rules,
           \/ UNCHANGED control
           \/ \E h \in Handlers : \E s : \E w : s \notin Writes /\ Goto(h, s, w)
    PROVE  TablesStep
<1>1. /\ Finds(policy, "setPolicy", "dropPolicy") /\ Finds(quota, "setQuota", "dropQuota")
      /\ Finds(budget, "setBudget", "dropBudget")
  BY FindsNothing DEF Writes
<1> QED
  BY <1>1 DEF TablesStep, TableStep, rules

\* ... those that find a row to write,
LEMMA FindStep ==
    ASSUME Control, NEW h \in Handlers,
           \/ GetForUpdatePolicy(h) \/ GetForUpdateQuota(h) \/ GetForUpdateBudget(h)
           \/ GetForDeletePolicy(h) \/ GetForDeleteQuota(h) \/ GetForDeleteBudget(h)
    PROVE  TablesStep
<1>1. UNCHANGED rules
  BY DEF GetForUpdatePolicy, GetForUpdateQuota, GetForUpdateBudget,
     GetForDeletePolicy, GetForDeleteQuota, GetForDeleteBudget
<1>2. \A tenant, is : Row(tenant, is).live /\ Row(tenant, is).tenant = tenant
  BY DEF Row
<1>3. CASE GetForUpdatePolicy(h) \/ GetForDeletePolicy(h)
  <2>1. Finds(policy, "setPolicy", "dropPolicy")
    <3>1. CASE GetForUpdatePolicy(h)
      <4>1. PICK i \in Ids : \E in \in PolicyInputs :
              /\ Found(h, policy, i)
              /\ Goto(h, "setPolicy", [NoWork EXCEPT !.id = i, !.row = Row(policy[i].tenant,
                     [Policy(in) EXCEPT !.name = policy[i].is.name])])
        BY <3>1 DEF GetForUpdatePolicy
      <4>2. PICK is :
              Goto(h, "setPolicy", [NoWork EXCEPT !.id = i, !.row = Row(policy[i].tenant, is)])
        BY <4>1
      <4> DEFINE row == Row(policy[i].tenant, is)
      <4>3. row.live /\ row.tenant = policy[i].tenant
        BY <1>2
      <4>4. Found(h, policy, i) /\ Goto(h, "setPolicy", [NoWork EXCEPT !.id = i, !.row = row])
        BY <4>1, <4>2
      <4> HIDE DEF row
      <4> QED
        BY <4>3, <4>4, FindsRow
    <3>2. CASE GetForDeletePolicy(h)
      BY <3>2, FindsRow DEF GetForDeletePolicy
    <3> QED
      BY <1>3, <3>1, <3>2
  <2>2. Finds(quota, "setQuota", "dropQuota") /\ Finds(budget, "setBudget", "dropBudget")
    BY <1>3, FindsNothing DEF GetForUpdatePolicy, GetForDeletePolicy
  <2> QED
    BY <1>1, <2>1, <2>2 DEF TablesStep, TableStep, rules
<1>4. CASE GetForUpdateQuota(h) \/ GetForDeleteQuota(h)
  <2>1. Finds(quota, "setQuota", "dropQuota")
    <3>1. CASE GetForUpdateQuota(h)
      <4>1. PICK i \in Ids : \E in \in QuotaInputs :
              /\ Found(h, quota, i)
              /\ Goto(h, "setQuota", [NoWork EXCEPT !.id = i, !.row = Row(quota[i].tenant,
                     [quota[i].is EXCEPT !.limit = in.limit, !.enforcement = Quota(in).enforcement])])
        BY <3>1 DEF GetForUpdateQuota
      <4>2. PICK is :
              Goto(h, "setQuota", [NoWork EXCEPT !.id = i, !.row = Row(quota[i].tenant, is)])
        BY <4>1
      <4> DEFINE row == Row(quota[i].tenant, is)
      <4>3. row.live /\ row.tenant = quota[i].tenant
        BY <1>2
      <4>4. Found(h, quota, i) /\ Goto(h, "setQuota", [NoWork EXCEPT !.id = i, !.row = row])
        BY <4>1, <4>2
      <4> HIDE DEF row
      <4> QED
        BY <4>3, <4>4, FindsRow
    <3>2. CASE GetForDeleteQuota(h)
      BY <3>2, FindsRow DEF GetForDeleteQuota
    <3> QED
      BY <1>4, <3>1, <3>2
  <2>2. Finds(policy, "setPolicy", "dropPolicy") /\ Finds(budget, "setBudget", "dropBudget")
    BY <1>4, FindsNothing DEF GetForUpdateQuota, GetForDeleteQuota
  <2> QED
    BY <1>1, <2>1, <2>2 DEF TablesStep, TableStep, rules
<1>5. CASE GetForUpdateBudget(h) \/ GetForDeleteBudget(h)
  <2>1. Finds(budget, "setBudget", "dropBudget")
    <3>1. CASE GetForUpdateBudget(h)
      <4>1. PICK i \in Ids : \E in \in BudgetInputs :
              /\ Found(h, budget, i)
              /\ Goto(h, "setBudget", [NoWork EXCEPT !.id = i, !.row = Row(budget[i].tenant,
                     [Budget(in) EXCEPT !.scope = IF in.scope = Blank THEN budget[i].is.scope ELSE @,
                                     !.ref = IF in.scope = Blank THEN budget[i].is.ref ELSE @])])
        BY <3>1 DEF GetForUpdateBudget
      <4>2. PICK is :
              Goto(h, "setBudget", [NoWork EXCEPT !.id = i, !.row = Row(budget[i].tenant, is)])
        BY <4>1
      <4> DEFINE row == Row(budget[i].tenant, is)
      <4>3. row.live /\ row.tenant = budget[i].tenant
        BY <1>2
      <4>4. Found(h, budget, i) /\ Goto(h, "setBudget", [NoWork EXCEPT !.id = i, !.row = row])
        BY <4>1, <4>2
      <4> HIDE DEF row
      <4> QED
        BY <4>3, <4>4, FindsRow
    <3>2. CASE GetForDeleteBudget(h)
      BY <3>2, FindsRow DEF GetForDeleteBudget
    <3> QED
      BY <1>5, <3>1, <3>2
  <2>2. Finds(policy, "setPolicy", "dropPolicy") /\ Finds(quota, "setQuota", "dropQuota")
    BY <1>5, FindsNothing DEF GetForUpdateBudget, GetForDeleteBudget
  <2> QED
    BY <1>1, <2>1, <2>2 DEF TablesStep, TableStep, rules
<1> QED
  BY <1>3, <1>4, <1>5

\* ... inserts,
LEMMA InsertStep ==
    ASSUME Control, RulesFit, NEW h \in Handlers,
           CreateAIAccessPolicy(h) \/ CreateAIQuota(h) \/ CreateAIBudget(h)
    PROVE  TablesStep
<1>1. UNCHANGED control
  BY DEF CreateAIAccessPolicy, CreateAIQuota, CreateAIBudget
<1>2. /\ Finds(policy, "setPolicy", "dropPolicy") /\ Finds(quota, "setQuota", "dropQuota")
      /\ Finds(budget, "setBudget", "dropBudget")
  BY <1>1, FindsNothing
<1>3. \A is : NewRow(h, is).live
  BY DEF NewRow, Row
<1>4. DOMAIN created = {"policy", "quota", "budget"}
  BY DEF RulesFit
<1>5. CASE CreateAIAccessPolicy(h)
  <2>1. Inserts(policy, policy', created["policy"], created'["policy"])
    BY <1>1, <1>3, <1>4, <1>5 DEF CreateAIAccessPolicy, Insert, Inserts
  <2>2. /\ quota' = quota /\ budget' = budget
        /\ created'["quota"] = created["quota"] /\ created'["budget"] = created["budget"]
    BY <1>4, <1>5 DEF CreateAIAccessPolicy, Insert
  <2> QED
    BY <1>2, <2>1, <2>2 DEF TablesStep, TableStep
<1>6. CASE CreateAIQuota(h)
  <2>1. Inserts(quota, quota', created["quota"], created'["quota"])
    BY <1>1, <1>3, <1>4, <1>6 DEF CreateAIQuota, Insert, Inserts
  <2>2. /\ policy' = policy /\ budget' = budget
        /\ created'["policy"] = created["policy"] /\ created'["budget"] = created["budget"]
    BY <1>4, <1>6 DEF CreateAIQuota, Insert
  <2> QED
    BY <1>2, <2>1, <2>2 DEF TablesStep, TableStep
<1>7. CASE CreateAIBudget(h)
  <2>1. Inserts(budget, budget', created["budget"], created'["budget"])
    BY <1>1, <1>3, <1>4, <1>7 DEF CreateAIBudget, Insert, Inserts
  <2>2. /\ policy' = policy /\ quota' = quota
        /\ created'["policy"] = created["policy"] /\ created'["quota"] = created["quota"]
    BY <1>4, <1>7 DEF CreateAIBudget, Insert
  <2> QED
    BY <1>2, <2>1, <2>2 DEF TablesStep, TableStep
<1> QED
  BY <1>5, <1>6, <1>7

\* ... and writes by id.
LEMMA WriteStep ==
    ASSUME Control, NEW h \in Handlers,
           \/ UpdateAIAccessPolicy(h) \/ UpdateAIQuota(h) \/ UpdateAIBudget(h)
           \/ DeleteAIAccessPolicy(h) \/ DeleteAIQuota(h) \/ DeleteAIBudget(h)
    PROVE  TablesStep
<1>1. Return(h) /\ created' = created
  BY DEF UpdateAIAccessPolicy, UpdateAIQuota, UpdateAIBudget,
     DeleteAIAccessPolicy, DeleteAIQuota, DeleteAIBudget
<1>2. Leaves(h)
  BY <1>1, GotoMoves DEF Return, Leaves
<1>3. /\ Finds(policy, "setPolicy", "dropPolicy") /\ Finds(quota, "setQuota", "dropQuota")
      /\ Finds(budget, "setBudget", "dropBudget")
  BY <1>2 DEF Finds, Leaves
<1>4. CASE UpdateAIAccessPolicy(h) \/ DeleteAIAccessPolicy(h)
  <2>1. \/ Sets(h, policy, policy', "setPolicy") \/ Drops(h, policy, policy', "dropPolicy")
    BY <1>2, <1>4 DEF UpdateAIAccessPolicy, DeleteAIAccessPolicy, SetRow, DropRow, Sets, Drops
  <2>2. quota' = quota /\ budget' = budget
    BY <1>4 DEF UpdateAIAccessPolicy, DeleteAIAccessPolicy
  <2> QED
    BY <1>1, <1>3, <2>1, <2>2 DEF TablesStep, TableStep
<1>5. CASE UpdateAIQuota(h) \/ DeleteAIQuota(h)
  <2>1. Sets(h, quota, quota', "setQuota") \/ Drops(h, quota, quota', "dropQuota")
    BY <1>2, <1>5 DEF UpdateAIQuota, DeleteAIQuota, SetRow, DropRow, Sets, Drops
  <2>2. policy' = policy /\ budget' = budget
    BY <1>5 DEF UpdateAIQuota, DeleteAIQuota
  <2> QED
    BY <1>1, <1>3, <2>1, <2>2 DEF TablesStep, TableStep
<1>6. CASE UpdateAIBudget(h) \/ DeleteAIBudget(h)
  <2>1. Sets(h, budget, budget', "setBudget") \/ Drops(h, budget, budget', "dropBudget")
    BY <1>2, <1>6 DEF UpdateAIBudget, DeleteAIBudget, SetRow, DropRow, Sets, Drops
  <2>2. policy' = policy /\ quota' = quota
    BY <1>6 DEF UpdateAIBudget, DeleteAIBudget
  <2> QED
    BY <1>1, <1>3, <2>1, <2>2 DEF TablesStep, TableStep
<1> QED
  BY <1>4, <1>5, <1>6

\* Every step of the module is such a step of each of the three tables, ...
LEMMA RulesStep == Control /\ RulesFit /\ [Next]_vars => TablesStep
<1> SUFFICES ASSUME Control, RulesFit, [Next]_vars PROVE TablesStep
  OBVIOUS
<1>1. CASE UNCHANGED vars
  BY <1>1, QuietStep DEF vars
<1>2. ASSUME NEW h \in Handlers, Administer(h) PROVE TablesStep
  BY <1>2, InsertStep, FindStep, WriteStep DEF Administer
<1>3. ASSUME NEW h \in Handlers, evaluateAIGovernance(h) PROVE TablesStep
  <2>1. \A s \in {"idle"} \cup Gate : s \notin Writes
    BY DEF Gate, Writes
  <2> QED
    BY <1>3, <2>1, GateMoves, QuietStep
<1>4. CASE AccessEnds \/ UsageRecorded
  BY <1>4, QuietStep DEF AccessEnds, UsageRecorded
<1> QED
  BY <1>1, <1>2, <1>3, <1>4 DEF Next

\* ... and so the rows in the hands of handlers stay theirs to write.
LEMMA RulesKept == Control /\ RulesFit /\ [Next]_vars => RulesFit'
<1> SUFFICES ASSUME Control, RulesFit, [Next]_vars PROVE RulesFit'
  OBVIOUS
<1>1. TablesStep
  BY RulesStep
<1>2. TableFits(policy, created["policy"], "setPolicy", "dropPolicy")'
  BY <1>1, TableKept DEF TablesStep, RulesFit, TableFits, HandFits, aiTenantGuard, RowsFit
<1>3. TableFits(quota, created["quota"], "setQuota", "dropQuota")'
  BY <1>1, TableKept DEF TablesStep, RulesFit, TableFits, HandFits, aiTenantGuard, RowsFit
<1>4. TableFits(budget, created["budget"], "setBudget", "dropBudget")'
  BY <1>1, TableKept DEF TablesStep, RulesFit, TableFits, HandFits, aiTenantGuard, RowsFit
<1>5. DOMAIN created' = {"policy", "quota", "budget"}
  <2>1. created' = created \/ \E n, c : created' = [created EXCEPT ![n] = c]
    <3>1. CASE UNCHANGED rules
      BY <3>1 DEF rules
    <3>2. ASSUME NEW h \in Handlers, Administer(h)
          PROVE  created' = created \/ \E n, c : created' = [created EXCEPT ![n] = c]
      BY <3>2 DEF Administer, CreateAIAccessPolicy, CreateAIQuota, CreateAIBudget, Insert,
         GetForUpdatePolicy, GetForUpdateQuota, GetForUpdateBudget, GetForDeletePolicy,
         GetForDeleteQuota, GetForDeleteBudget, UpdateAIAccessPolicy, UpdateAIQuota,
         UpdateAIBudget, DeleteAIAccessPolicy, DeleteAIQuota, DeleteAIBudget, rules
    <3>3. (UNCHANGED vars \/ AccessEnds \/ UsageRecorded) => UNCHANGED rules
      BY DEF vars, AccessEnds, UsageRecorded
    <3> QED
      BY <3>1, <3>2, <3>3, GateMoves DEF Next
  <2> QED
    BY <2>1 DEF RulesFit
<1> QED
  BY <1>2, <1>3, <1>4, <1>5 DEF RulesFit

\* A caller bound to a tenant changes no rule of another tenant, nor one that
\* has none, whatever others do to the row between its guard and its
\* statement (aiTenantGuard).
THEOREM ForeignRulesUntouchedHolds == Spec => ForeignRulesUntouched
<1> DEFINE Inv == Control /\ RulesFit
<1>1. Init => Inv
  <2> SUFFICES ASSUME Init PROVE Inv
    OBVIOUS
  <2>1. Control
    BY NoWorkShape DEF Init, Control, Stages
  <2>2. /\ RowsFit(policy, created["policy"]) /\ RowsFit(quota, created["quota"])
        /\ RowsFit(budget, created["budget"])
        /\ DOMAIN created = {"policy", "quota", "budget"}
    BY DEF Init, RowsFit, NoRow
  <2>3. \A h \in Handlers : stage[h] = "idle"
    BY DEF Init
  <2> QED
    BY <2>1, <2>2, <2>3 DEF RulesFit, TableFits, HandFits
<1>2. Inv /\ [Next]_vars => Inv'
  BY ControlStep, RulesKept
<1>3. Inv /\ [Next]_vars =>
        [\A h \in Handlers, i \in Ids :
           stage[h] # "idle" /\ stage'[h] = "idle" /\ scopeTenant(CallerOf[h]) =>
             \A table \in {<<policy, policy'>>, <<quota, quota'>>, <<budget, budget'>>} :
               table[1][i] # table[2][i] =>
                 tenantVisible(table[1][i].tenant, CallerOf[h])]_vars
  <2> SUFFICES ASSUME Inv, [Next]_vars, NEW h \in Handlers, NEW i \in Ids,
                      stage[h] # "idle", stage'[h] = "idle", scopeTenant(CallerOf[h]),
                      NEW table \in {<<policy, policy'>>, <<quota, quota'>>, <<budget, budget'>>},
                      table[1][i] # table[2][i]
               PROVE  tenantVisible(table[1][i].tenant, CallerOf[h])
    OBVIOUS
  <2>1. TablesStep /\ RulesFit
    BY RulesStep
  <2>2. policy[i] # policy'[i] => aiTenantGuard(h, policy[i].tenant)
    BY <2>1, TableForeign DEF TablesStep, RulesFit
  <2>3. quota[i] # quota'[i] => aiTenantGuard(h, quota[i].tenant)
    BY <2>1, TableForeign DEF TablesStep, RulesFit
  <2>4. budget[i] # budget'[i] => aiTenantGuard(h, budget[i].tenant)
    BY <2>1, TableForeign DEF TablesStep, RulesFit
  <2> QED
    BY <2>2, <2>3, <2>4 DEF aiTenantGuard
<1> QED
  BY <1>1, <1>2, <1>3, PTL DEF Spec, ForeignRulesUntouched

-----------------------------------------------------------------------------
(***************************************************************************)
(* What the rows hold.                                                     *)
(***************************************************************************)

\* The rows that the checks and the validation let in.
Policies == {p \in createAIPolicyReq : p.status \in {"active", "disabled"}}

Quotas == {q \in createAIQuotaReq : q.enforcement \in {"warn", "block"} /\ q.limit > 0}

Budgets ==
    {b \in [scope : Scopes, ref : Words \cup Tenants, limit : Nat, soft : Nat, hard : Nat,
            period : Periods] :
        b.limit > 0 /\ validateAIBudgetThresholds(b)}

\* So is every row of a table t, and the one in the hand of who is to write.
RowsGood(t, set, good) ==
    /\ \A i \in Ids : t[i].live => t[i].is \in good
    /\ \A h \in Handlers : stage[h] = set => work[h].row.is \in good

\* Names are unique, and a write gives a row the name it has.
NamesFit ==
    /\ \A i, j \in Ids : policy[i].live /\ policy[j].live /\ i # j
                           => policy[i].is.name # policy[j].is.name
    /\ \A h \in Handlers : stage[h] = "setPolicy" /\ policy[work[h].id].live
                             => work[h].row.is.name = policy[work[h].id].is.name

ContentFits ==
    /\ RowsGood(policy, "setPolicy", Policies)
    /\ RowsGood(quota, "setQuota", Quotas)
    /\ RowsGood(budget, "setBudget", Budgets)
    /\ NamesFit
    /\ active \in [Requests -> 0 .. MaxActive]

\* Rows and what is written are good from bodies that pass the validation.
LEMMA GoodPolicy ==
    ASSUME NEW in \in PolicyInputs
    PROVE  /\ Policy(in) \in Policies /\ Policy(in).name = in.name
           /\ \A p \in Policies :
                /\ [Policy(in) EXCEPT !.name = p.name] \in Policies
                /\ [Policy(in) EXCEPT !.name = p.name].name = p.name
<1>1. in \in createAIPolicyReq
  BY GovernanceAssumption
<1> QED
  BY <1>1 DEF Policy, Policies, createAIPolicyReq

\* The same for quotas ...
LEMMA GoodQuota ==
    ASSUME NEW in \in QuotaInputs, in.limit > 0
    PROVE  /\ Quota(in) \in Quotas
           /\ \A q \in Quotas : [q EXCEPT !.limit = in.limit,
                                          !.enforcement = Quota(in).enforcement] \in Quotas
<1>1. in \in createAIQuotaReq
  BY GovernanceAssumption
<1> QED
  BY <1>1 DEF Quota, Quotas, createAIQuotaReq

\* ... and budgets.
LEMMA GoodBudget ==
    ASSUME NEW in \in BudgetInputs, in.limit > 0, validateAIBudgetThresholds(Budget(in))
    PROVE  /\ Budget(in) \in Budgets
           /\ \A b \in Budgets :
                [Budget(in) EXCEPT !.scope = IF in.scope = Blank THEN b.scope ELSE @,
                                   !.ref = IF in.scope = Blank THEN b.ref ELSE @] \in Budgets
<1>1. in \in createAIBudgetReq
  BY GovernanceAssumption
<1>2. /\ in.scope \in Scopes \cup {Blank} /\ in.ref \in Words \cup Tenants
      /\ in.limit \in Nat /\ in.soft \in Nat /\ in.hard \in Nat
      /\ in.period \in Periods \cup {Blank}
  BY <1>1 DEF createAIBudgetReq
<1>3. "global" \in Scopes /\ "monthly" \in Periods
  BY DEF Scopes, Periods
<1>4. Budget(in) \in [scope : Scopes, ref : Words \cup Tenants, limit : Nat, soft : Nat,
                      hard : Nat, period : Periods]
      /\ Budget(in).limit > 0
  BY <1>2, <1>3 DEF Budget
<1>5. Budget(in) \in Budgets
  BY <1>4 DEF Budgets
<1>6. ASSUME NEW b \in Budgets, NEW w,
             w = [Budget(in) EXCEPT !.scope = IF in.scope = Blank THEN b.scope ELSE @,
                                    !.ref = IF in.scope = Blank THEN b.ref ELSE @]
      PROVE  w \in Budgets
  <2>1. b.scope \in Scopes /\ b.ref \in Words \cup Tenants
    BY DEF Budgets
  <2>2. w \in [scope : Scopes, ref : Words \cup Tenants, limit : Nat, soft : Nat,
               hard : Nat, period : Periods]
    BY <1>4, <1>6, <2>1
  <2>3. /\ w.limit = Budget(in).limit /\ w.soft = Budget(in).soft
        /\ w.hard = Budget(in).hard
    BY <1>4, <1>6
  <2> QED
    BY <1>4, <2>2, <2>3 DEF Budgets, validateAIBudgetThresholds
<1> QED
  BY <1>5, <1>6

\* The hand of a handler that is to write.
LEMMA InHand ==
    ASSUME NEW i, NEW row
    PROVE  /\ [NoWork EXCEPT !.id = i, !.row = row].row = row
           /\ [NoWork EXCEPT !.id = i, !.row = row].id = i
BY DEF NoWork

\* A handler comes to an update only by the read of its row.
LEMMA Enters ==
    ASSUME Control, [Next]_vars, NEW k \in Handlers
    PROVE  \/ stage'[k] = stage[k] /\ work'[k] = work[k]
           \/ stage'[k] \notin {"setPolicy", "setQuota", "setBudget"}
           \/ GetForUpdatePolicy(k) /\ stage'[k] = "setPolicy"
           \/ GetForUpdateQuota(k) /\ stage'[k] = "setQuota"
           \/ GetForUpdateBudget(k) /\ stage'[k] = "setBudget"
<1>1. CASE UNCHANGED control
  BY <1>1 DEF control
<1>2. ASSUME NEW h \in Handlers, h # k, Administer(h) \/ evaluateAIGovernance(h)
      PROVE  stage'[k] = stage[k] /\ work'[k] = work[k]
  BY <1>2, AdministerMoves, GateMoves, GotoMoves DEF control
<1>3. CASE evaluateAIGovernance(k)
  <2>1. stage'[k] \in {"idle"} \cup Gate
    BY <1>3, GateMoves, GotoMoves
  <2> QED
    BY <2>1 DEF Gate
<1>4. CASE Administer(k)
  <2>1. CASE CreateAIAccessPolicy(k) \/ CreateAIQuota(k) \/ CreateAIBudget(k)
    BY <2>1, <1>1 DEF CreateAIAccessPolicy, CreateAIQuota, CreateAIBudget
  <2>2. CASE GetForUpdatePolicy(k)
    BY <2>2, GotoMoves DEF GetForUpdatePolicy
  <2>3. CASE GetForUpdateQuota(k)
    BY <2>3, GotoMoves DEF GetForUpdateQuota
  <2>4. CASE GetForUpdateBudget(k)
    BY <2>4, GotoMoves DEF GetForUpdateBudget
  <2>5. CASE GetForDeletePolicy(k) \/ GetForDeleteQuota(k) \/ GetForDeleteBudget(k)
    <3>1. \E s \in {"dropPolicy", "dropQuota", "dropBudget"} : \E w : Goto(k, s, w)
      BY <2>5 DEF GetForDeletePolicy, GetForDeleteQuota, GetForDeleteBudget
    <3> QED
      BY <3>1, GotoMoves
  <2>6. CASE \/ UpdateAIAccessPolicy(k) \/ UpdateAIQuota(k) \/ UpdateAIBudget(k)
             \/ DeleteAIAccessPolicy(k) \/ DeleteAIQuota(k) \/ DeleteAIBudget(k)
    BY <2>6, GotoMoves DEF UpdateAIAccessPolicy, UpdateAIQuota, UpdateAIBudget,
       DeleteAIAccessPolicy, DeleteAIQuota, DeleteAIBudget, Return
  <2> QED
    BY <1>4, <2>1, <2>2, <2>3, <2>4, <2>5, <2>6 DEF Administer
<1> QED
  BY <1>1, <1>2, <1>3, <1>4 DEF Next, vars, AccessEnds, UsageRecorded

\* The tables are written by their own operations alone.
LEMMA RuleFrames ==
    ASSUME Control, [Next]_vars
    PROVE  /\ \/ UNCHANGED policy
              \/ \E h \in Handlers : \/ CreateAIAccessPolicy(h) \/ UpdateAIAccessPolicy(h)
                                     \/ DeleteAIAccessPolicy(h)
           /\ \/ UNCHANGED quota
              \/ \E h \in Handlers : CreateAIQuota(h) \/ UpdateAIQuota(h) \/ DeleteAIQuota(h)
           /\ \/ UNCHANGED budget
              \/ \E h \in Handlers : CreateAIBudget(h) \/ UpdateAIBudget(h) \/ DeleteAIBudget(h)
           /\ UNCHANGED active \/ (\E h \in Handlers : GateOpen(h)) \/ AccessEnds
<1>1. CASE UNCHANGED vars \/ AccessEnds \/ UsageRecorded
  BY <1>1 DEF vars, rules, AccessEnds, UsageRecorded
<1>2. ASSUME NEW h \in Handlers, evaluateAIGovernance(h)
      PROVE  UNCHANGED <<policy, quota, budget>> /\ (UNCHANGED active \/ GateOpen(h))
  BY <1>2, GateMoves DEF rules, evaluateAIGovernance, CreateAIRequest, ProvisionAIRequest,
     Evaluate, GatePolicies, GateQuotas, GateInstances, GateBudgets, Then, GateUsage,
     GateReadFails
<1>3. ASSUME NEW h \in Handlers, Administer(h)
      PROVE  /\ \/ UNCHANGED policy
                \/ CreateAIAccessPolicy(h) \/ UpdateAIAccessPolicy(h) \/ DeleteAIAccessPolicy(h)
             /\ UNCHANGED quota \/ CreateAIQuota(h) \/ UpdateAIQuota(h) \/ DeleteAIQuota(h)
             /\ UNCHANGED budget \/ CreateAIBudget(h) \/ UpdateAIBudget(h) \/ DeleteAIBudget(h)
             /\ UNCHANGED active
  BY <1>3, AdministerMoves DEF Administer, CreateAIAccessPolicy, CreateAIQuota, CreateAIBudget,
     GetForUpdatePolicy, GetForUpdateQuota, GetForUpdateBudget, GetForDeletePolicy,
     GetForDeleteQuota, GetForDeleteBudget, UpdateAIAccessPolicy, UpdateAIQuota,
     UpdateAIBudget, DeleteAIAccessPolicy, DeleteAIQuota, DeleteAIBudget, rules
<1> QED
  BY <1>1, <1>2, <1>3 DEF Next

\* What the writes do to a table of good rows: the hand is good, and the row
\* that an insert adds.
LEMMA WritesGood ==
    ASSUME NEW t, NEW t2, NEW set, NEW good, NEW row, NEW count, DOMAIN t = Ids,
           RowsGood(t, set, good),
           \/ t2 = [t EXCEPT ![count] = row] /\ row.is \in good
           \/ \E h \in Handlers :
                stage[h] = set
                  /\ t2 = [t EXCEPT ![work[h].id] = IF @.live THEN work[h].row ELSE @]
           \/ \E h \in Handlers : t2 = [t EXCEPT ![work[h].id] = NoRow]
    PROVE  \A i \in Ids : t2[i].live => t2[i].is \in good
BY DEF RowsGood, NoRow

-----------------------------------------------------------------------------
\* Policies stay good ...
LEMMA PoliciesStep ==
    ASSUME Control, RulesFit, RowsGood(policy, "setPolicy", Policies), [Next]_vars
    PROVE  RowsGood(policy, "setPolicy", Policies)'
<1>0. DOMAIN policy = Ids
  BY DEF RulesFit, TableFits, RowsFit
<1>1. \A i \in Ids : policy'[i].live => policy'[i].is \in Policies
  <2>1. CASE UNCHANGED policy
    BY <2>1 DEF RowsGood
  <2>2. ASSUME NEW h \in Handlers, CreateAIAccessPolicy(h)
        PROVE  \A i \in Ids : policy'[i].live => policy'[i].is \in Policies
    <3>1. PICK in \in PolicyInputs : Insert(policy, "policy", NewRow(h, Policy(in)))
      BY <2>2 DEF CreateAIAccessPolicy
    <3>2. NewRow(h, Policy(in)).is \in Policies
      BY GoodPolicy DEF NewRow, Row
    <3> QED
      BY <1>0, <3>1, <3>2, WritesGood DEF Insert
  <2>3. ASSUME NEW h \in Handlers, UpdateAIAccessPolicy(h) \/ DeleteAIAccessPolicy(h)
        PROVE  \A i \in Ids : policy'[i].live => policy'[i].is \in Policies
    BY <1>0, <2>3, WritesGood DEF UpdateAIAccessPolicy, DeleteAIAccessPolicy, SetRow, DropRow
  <2> QED
    BY <2>1, <2>2, <2>3, RuleFrames
<1>2. ASSUME NEW k \in Handlers, stage'[k] = "setPolicy" PROVE work'[k].row.is \in Policies
  <2>1. CASE stage'[k] = stage[k] /\ work'[k] = work[k]
    BY <1>2, <2>1 DEF RowsGood
  <2>2. CASE GetForUpdatePolicy(k)
    <3>1. PICK i \in Ids, in \in PolicyInputs :
            /\ Found(k, policy, i)
            /\ Goto(k, "setPolicy", [NoWork EXCEPT !.id = i, !.row =
                   Row(policy[i].tenant, [Policy(in) EXCEPT !.name = policy[i].is.name])])
      BY <2>2 DEF GetForUpdatePolicy
    <3>2. policy[i].is \in Policies
      BY <3>1 DEF RowsGood, Found
    <3> DEFINE is == [Policy(in) EXCEPT !.name = policy[i].is.name]
               row == Row(policy[i].tenant, is)
    <3>3. row.is = is /\ is \in Policies
      BY <3>2, GoodPolicy DEF Row
    <3>4. Goto(k, "setPolicy", [NoWork EXCEPT !.id = i, !.row = row])
      BY <3>1
    <3> HIDE DEF row, is
    <3>5. work'[k].row = row
      <4> DEFINE w == [NoWork EXCEPT !.id = i, !.row = row]
      <4>1. w.row = row /\ Goto(k, "setPolicy", w)
        BY <3>4, InHand
      <4> HIDE DEF w
      <4> QED
        BY <4>1, GotoMoves
    <3> QED
      BY <3>3, <3>5
  <2> QED
    BY <1>2, <2>1, <2>2, Enters
<1> QED
  BY <1>1, <1>2 DEF RowsGood

\* ... quotas ...
LEMMA QuotasStep ==
    ASSUME Control, RulesFit, RowsGood(quota, "setQuota", Quotas), [Next]_vars
    PROVE  RowsGood(quota, "setQuota", Quotas)'
<1>0. DOMAIN quota = Ids
  BY DEF RulesFit, TableFits, RowsFit
<1>1. \A i \in Ids : quota'[i].live => quota'[i].is \in Quotas
  <2>1. CASE UNCHANGED quota
    BY <2>1 DEF RowsGood
  <2>2. ASSUME NEW h \in Handlers, CreateAIQuota(h)
        PROVE  \A i \in Ids : quota'[i].live => quota'[i].is \in Quotas
    <3>1. PICK in \in QuotaInputs : in.limit > 0 /\ Insert(quota, "quota", NewRow(h, Quota(in)))
      BY <2>2 DEF CreateAIQuota
    <3>2. NewRow(h, Quota(in)).is \in Quotas
      BY <3>1, GoodQuota DEF NewRow, Row
    <3> QED
      BY <1>0, <3>1, <3>2, WritesGood DEF Insert
  <2>3. ASSUME NEW h \in Handlers, UpdateAIQuota(h) \/ DeleteAIQuota(h)
        PROVE  \A i \in Ids : quota'[i].live => quota'[i].is \in Quotas
    BY <1>0, <2>3, WritesGood DEF UpdateAIQuota, DeleteAIQuota, SetRow, DropRow
  <2> QED
    BY <2>1, <2>2, <2>3, RuleFrames
<1>2. ASSUME NEW k \in Handlers, stage'[k] = "setQuota" PROVE work'[k].row.is \in Quotas
  <2>1. CASE stage'[k] = stage[k] /\ work'[k] = work[k]
    BY <1>2, <2>1 DEF RowsGood
  <2>2. CASE GetForUpdateQuota(k)
    <3>1. PICK i \in Ids, in \in QuotaInputs :
            /\ in.limit > 0 /\ Found(k, quota, i)
            /\ Goto(k, "setQuota", [NoWork EXCEPT !.id = i, !.row =
                   Row(quota[i].tenant, [quota[i].is EXCEPT
                       !.limit = in.limit, !.enforcement = Quota(in).enforcement])])
      BY <2>2 DEF GetForUpdateQuota
    <3>2. quota[i].is \in Quotas
      BY <3>1 DEF RowsGood, Found
    <3> DEFINE is == [quota[i].is EXCEPT !.limit = in.limit,
                                         !.enforcement = Quota(in).enforcement]
               row == Row(quota[i].tenant, is)
    <3>3. row.is = is /\ is \in Quotas
      BY <3>1, <3>2, GoodQuota DEF Row
    <3>4. Goto(k, "setQuota", [NoWork EXCEPT !.id = i, !.row = row])
      BY <3>1
    <3> HIDE DEF row, is
    <3>5. work'[k].row = row
      <4> DEFINE w == [NoWork EXCEPT !.id = i, !.row = row]
      <4>1. w.row = row /\ Goto(k, "setQuota", w)
        BY <3>4, InHand
      <4> HIDE DEF w
      <4> QED
        BY <4>1, GotoMoves
    <3> QED
      BY <3>3, <3>5
  <2> QED
    BY <1>2, <2>1, <2>2, Enters
<1> QED
  BY <1>1, <1>2 DEF RowsGood

\* ... and budgets.
LEMMA BudgetsStep ==
    ASSUME Control, RulesFit, RowsGood(budget, "setBudget", Budgets), [Next]_vars
    PROVE  RowsGood(budget, "setBudget", Budgets)'
<1>0. DOMAIN budget = Ids
  BY DEF RulesFit, TableFits, RowsFit
<1>1. \A i \in Ids : budget'[i].live => budget'[i].is \in Budgets
  <2>1. CASE UNCHANGED budget
    BY <2>1 DEF RowsGood
  <2>2. ASSUME NEW h \in Handlers, CreateAIBudget(h)
        PROVE  \A i \in Ids : budget'[i].live => budget'[i].is \in Budgets
    <3>1. PICK in \in BudgetInputs :
            /\ in.limit > 0 /\ validateAIBudgetThresholds(Budget(in))
            /\ Insert(budget, "budget", NewRow(h, Budget(in)))
      BY <2>2 DEF CreateAIBudget
    <3>2. NewRow(h, Budget(in)).is \in Budgets
      BY <3>1, GoodBudget DEF NewRow, Row
    <3> QED
      BY <1>0, <3>1, <3>2, WritesGood DEF Insert
  <2>3. ASSUME NEW h \in Handlers, UpdateAIBudget(h) \/ DeleteAIBudget(h)
        PROVE  \A i \in Ids : budget'[i].live => budget'[i].is \in Budgets
    BY <1>0, <2>3, WritesGood DEF UpdateAIBudget, DeleteAIBudget, SetRow, DropRow
  <2> QED
    BY <2>1, <2>2, <2>3, RuleFrames
<1>2. ASSUME NEW k \in Handlers, stage'[k] = "setBudget" PROVE work'[k].row.is \in Budgets
  <2>1. CASE stage'[k] = stage[k] /\ work'[k] = work[k]
    BY <1>2, <2>1 DEF RowsGood
  <2>2. CASE GetForUpdateBudget(k)
    <3>1. PICK i \in Ids, in \in BudgetInputs :
            /\ in.limit > 0 /\ validateAIBudgetThresholds(Budget(in)) /\ Found(k, budget, i)
            /\ Goto(k, "setBudget", [NoWork EXCEPT !.id = i, !.row =
                   Row(budget[i].tenant, [Budget(in) EXCEPT
                       !.scope = IF in.scope = Blank THEN budget[i].is.scope ELSE @,
                       !.ref = IF in.scope = Blank THEN budget[i].is.ref ELSE @])])
      BY <2>2 DEF GetForUpdateBudget
    <3>2. budget[i].is \in Budgets
      BY <3>1 DEF RowsGood, Found
    <3> DEFINE is == [Budget(in) EXCEPT
                         !.scope = IF in.scope = Blank THEN budget[i].is.scope ELSE @,
                         !.ref = IF in.scope = Blank THEN budget[i].is.ref ELSE @]
               row == Row(budget[i].tenant, is)
    <3>3. row.is = is /\ is \in Budgets
      BY <3>1, <3>2, GoodBudget DEF Row
    <3>4. Goto(k, "setBudget", [NoWork EXCEPT !.id = i, !.row = row])
      BY <3>1
    <3> HIDE DEF row, is
    <3>5. work'[k].row = row
      <4> DEFINE w == [NoWork EXCEPT !.id = i, !.row = row]
      <4>1. w.row = row /\ Goto(k, "setBudget", w)
        BY <3>4, InHand
      <4> HIDE DEF w
      <4> QED
        BY <4>1, GotoMoves
    <3> QED
      BY <3>3, <3>5
  <2> QED
    BY <1>2, <2>1, <2>2, Enters
<1> QED
  BY <1>1, <1>2 DEF RowsGood

\* A name is given once, and no update of a row changes it, be it read long
\* before.
LEMMA NamesStep ==
    ASSUME Control, RulesFit, RowsGood(policy, "setPolicy", Policies), NamesFit, [Next]_vars
    PROVE  NamesFit'
<1>0. /\ DOMAIN policy = Ids
      /\ created["policy"] \in Nat
      /\ \A i \in Ids : policy[i].live => i <= created["policy"]
      /\ \A h \in Handlers : stage[h] = "setPolicy" =>
            work[h].id \in Ids /\ work[h].id <= created["policy"]
  BY DEF RulesFit, TableFits, RowsFit, HandFits
<1>1. CASE \A i \in Ids : policy'[i].live =>
              policy[i].live /\ policy'[i].is.name = policy[i].is.name
  <2>1. \A i, j \in Ids : policy'[i].live /\ policy'[j].live /\ i # j
                            => policy'[i].is.name # policy'[j].is.name
    BY <1>1 DEF NamesFit
  <2>2. ASSUME NEW k \in Handlers, stage'[k] = "setPolicy", policy'[work'[k].id].live
        PROVE  work'[k].row.is.name = policy'[work'[k].id].is.name
    <3>1. CASE stage'[k] = stage[k] /\ work'[k] = work[k]
      BY <1>0, <1>1, <2>2, <3>1 DEF NamesFit
    <3>2. CASE GetForUpdatePolicy(k)
      <4>1. PICK i \in Ids, in \in PolicyInputs :
              /\ Found(k, policy, i)
              /\ Goto(k, "setPolicy", [NoWork EXCEPT !.id = i, !.row =
                     Row(policy[i].tenant, [Policy(in) EXCEPT !.name = policy[i].is.name])])
        BY <3>2 DEF GetForUpdatePolicy
      <4>2. policy[i].is \in Policies /\ policy' = policy
        BY <3>2, <4>1 DEF RowsGood, Found, GetForUpdatePolicy, rules
      <4> DEFINE is == [Policy(in) EXCEPT !.name = policy[i].is.name]
                 row == Row(policy[i].tenant, is)
      <4>3. row.is = is /\ is.name = policy[i].is.name
        BY <4>2, GoodPolicy DEF Row
      <4>4. Goto(k, "setPolicy", [NoWork EXCEPT !.id = i, !.row = row])
        BY <4>1
      <4> HIDE DEF row, is
      <4>5. work'[k].row = row /\ work'[k].id = i
        <5> DEFINE w == [NoWork EXCEPT !.id = i, !.row = row]
        <5>1. w.row = row /\ w.id = i /\ Goto(k, "setPolicy", w)
          BY <4>4, InHand
        <5> HIDE DEF w
        <5> QED
          BY <5>1, GotoMoves
      <4> QED
        BY <4>2, <4>3, <4>5
    <3> QED
      BY <2>2, <3>1, <3>2, Enters
  <2> QED
    BY <2>1, <2>2 DEF NamesFit
<1>2. ASSUME NEW h \in Handlers, CreateAIAccessPolicy(h) PROVE NamesFit'
  <2>1. PICK in \in PolicyInputs :
          /\ \A p \in Rows(policy) : p.is.name # in.name
          /\ Insert(policy, "policy", NewRow(h, Policy(in)))
    BY <1>2 DEF CreateAIAccessPolicy
  <2> DEFINE row == NewRow(h, Policy(in))
             n == created["policy"] + 1
  <2>2. row.is.name = in.name
    BY GoodPolicy DEF NewRow, Row
  <2>3. policy' = [policy EXCEPT ![n] = row] /\ UNCHANGED control
    BY <1>2, <2>1 DEF Insert, CreateAIAccessPolicy
  <2>4. \A i \in Ids : policy[i].live => policy[i].is.name # in.name /\ i # n
    BY <1>0, <2>1 DEF Rows, Ids
  <2>5. \A h2 \in Handlers : stage[h2] = "setPolicy" => work[h2].id \in Ids /\ work[h2].id # n
    BY <1>0 DEF Ids
  <2> HIDE DEF row, n
  <2>6. \A i \in Ids : i # n => policy'[i] = policy[i]
    BY <1>0, <2>3
  <2>7. n \in Ids => policy'[n] = row
    BY <1>0, <2>3
  <2> QED
    BY <2>2, <2>3, <2>4, <2>5, <2>6, <2>7 DEF NamesFit, control
<1>3. ASSUME NEW h \in Handlers, UpdateAIAccessPolicy(h) \/ DeleteAIAccessPolicy(h)
      PROVE  \A i \in Ids : policy'[i].live =>
                 policy[i].live /\ policy'[i].is.name = policy[i].is.name
  BY <1>0, <1>3 DEF UpdateAIAccessPolicy, DeleteAIAccessPolicy, SetRow, DropRow, NamesFit,
     NoRow
<1> QED
  BY <1>1, <1>2, <1>3, RuleFrames

\* Access is counted up to its bound.
LEMMA ActiveStep ==
    ASSUME active \in [Requests -> 0 .. MaxActive], Control, [Next]_vars
    PROVE  active' \in [Requests -> 0 .. MaxActive]
<1>0. MaxActive \in Nat
  BY GovernanceAssumption
<1>1. CASE UNCHANGED active
  BY <1>1
<1>2. CASE AccessEnds
  <2>1. PICK r \in Requests : active[r] > 0 /\ active' = [active EXCEPT ![r] = @ - 1]
    BY <1>2 DEF AccessEnds
  <2>2. active[r] - 1 \in 0 .. MaxActive
    BY <1>0, <2>1
  <2> QED
    BY <2>1, <2>2
<1>3. ASSUME NEW h \in Handlers, GateOpen(h)
      PROVE  active' \in [Requests -> 0 .. MaxActive]
  <2> DEFINE r == work[h].request
  <2>1. CASE active[r] < MaxActive /\ active' = [active EXCEPT ![r] = @ + 1]
    <3>1. r \in Requests => active[r] + 1 \in 0 .. MaxActive
      BY <1>0, <2>1
    <3> HIDE DEF r
    <3> QED
      BY <2>1, <3>1
  <2> QED
    BY <1>1, <1>3, <2>1 DEF GateOpen
<1> QED
  BY <1>1, <1>2, <1>3, RuleFrames

\* The tables hold what their checks and the validation let in, also when an
\* update writes back a mixture of a body and of a row read earlier, and the
\* names of policies stay unique (validateAIBudgetThresholds, the defaults of
\* the routes, the unique index of ai_access_policies).
THEOREM WellFormedRulesHolds == Spec => []WellFormedRules
<1> DEFINE Inv == Control /\ RulesFit /\ ContentFits
<1>1. Init => Inv
  <2> SUFFICES ASSUME Init PROVE Inv
    OBVIOUS
  <2>1. Control
    BY NoWorkShape DEF Init, Control, Stages
  <2>2. /\ RowsFit(policy, created["policy"]) /\ RowsFit(quota, created["quota"])
        /\ RowsFit(budget, created["budget"])
        /\ DOMAIN created = {"policy", "quota", "budget"}
    BY DEF Init, RowsFit, NoRow
  <2>3. \A h \in Handlers : stage[h] = "idle"
    BY DEF Init
  <2>4. \A i \in Ids : ~policy[i].live /\ ~quota[i].live /\ ~budget[i].live
    BY DEF Init, NoRow
  <2>5. active \in [Requests -> 0 .. MaxActive]
    BY GovernanceAssumption DEF Init
  <2> QED
    BY <2>1, <2>2, <2>3, <2>4, <2>5 DEF RulesFit, TableFits, HandFits, ContentFits, RowsGood,
       NamesFit
<1>2. Inv /\ [Next]_vars => Inv'
  BY ControlStep, RulesKept, PoliciesStep, QuotasStep, BudgetsStep, NamesStep, ActiveStep
     DEF ContentFits
<1>3. Inv => WellFormedRules
  <2> SUFFICES ASSUME Inv PROVE WellFormedRules
    OBVIOUS
  <2>1. \A p \in Rows(policy) : p.is \in Policies
    BY DEF ContentFits, RowsGood, Rows
  <2>2. \A q \in Rows(quota) : q.is \in Quotas
    BY DEF ContentFits, RowsGood, Rows
  <2>3. \A b \in Rows(budget) : b.is \in Budgets
    BY DEF ContentFits, RowsGood, Rows
  <2>4. \A r \in Requests : active[r] \in 0 .. MaxActive
    BY DEF ContentFits
  <2> QED
    BY <2>1, <2>2, <2>3, <2>4 DEF WellFormedRules, ContentFits, NamesFit, Policies, Quotas,
       Budgets, Control, Stages
<1> QED
  BY <1>1, <1>2, <1>3, PTL DEF Spec

=============================================================================
