----------------------------- MODULE SpendGate -----------------------------
(***************************************************************************)
(* The spend gate of the AI gateway and the ledger it reads: calls proxied *)
(* to a provider (GatewayOpenAIResponses, GatewayAnthropicMessages) leave  *)
(* an estimate in ai_usage_records, cost imports (ImportOpenAICosts,       *)
(* ImportAnthropicCosts) copy the provider's own cost report into the same *)
(* table, and evaluateGatewayBudget sums the table before every call.      *)
(*                                                                         *)
(* The model follows one provider through one budget period of MaxDay      *)
(* days; all rows are in scope of the budget and of the cost quota.  Money *)
(* is counted in whole units and the price table is taken to be exact, so  *)
(* that what goes wrong is the bookkeeping and not the prices.             *)
(***************************************************************************)
EXTENDS Integers, FiniteSets, Functions

CONSTANTS
    Callers,      \* gateway calls served at a time
    Importers,    \* cost imports run at a time
    BudgetLimit,  \* spend at which a budget is at its hard threshold
    CostQuota,    \* limit of a "block" quota on cost_usd
    Costs,        \* what one call may cost
    MaxDay,       \* days in the period
    MaxSpend,     \* bound on what the provider charges in the model
    Faults        \* the faults the environment injects

\* "read"   the gate cannot read budgets, quotas or usage
\* "lost"   the provider serves a call and its answer is lost
\* "db"     a usage row cannot be read or written
\* "cut"    an import reads the beginning of its report only
\* "amount" an amount of the report cannot be read
AllFaults == {"read", "lost", "db", "cut", "amount"}

Days == 1 .. MaxDay
Money == 0 .. MaxSpend

ASSUME SpendAssumption ==
    /\ IsFiniteSet(Callers) /\ IsFiniteSet(Importers)
    /\ BudgetLimit \in Nat \ {0} /\ CostQuota \in Nat \ {0}
    /\ MaxDay \in Nat \ {0} /\ MaxSpend \in Nat
    /\ Costs \subseteq 1 .. MaxSpend
    /\ Faults \subseteq AllFaults

VARIABLES
    now,       \* the day
    bucket,    \* the provider's cost report: what it charged, by day
    estimate,  \* sum of the gateway's rows (source opord_gateway_lite)
    copies,    \* rows imported for each day's bucket, by import_key
    imported,  \* their sum
    stage,     \* where a gateway call is
    cost,      \* the cost in the answer it holds
    report,    \* what the provider reports for the days an import asks for
    left,      \* the buckets of it the import has still to enter
    passed,    \* the buckets it has passed over without an error
    item,      \* the one it is about to insert, 0 while it looks
    failed     \* it was ended by an error

ledger == <<estimate, copies, imported>>
calls == <<stage, cost>>
imports == <<report, left, passed, item, failed>>
vars == <<now, bucket, ledger, calls, imports>>

CallStages == {"idle", "budget", "quota", "send", "record"}

TypeOK ==
    /\ now \in Days
    /\ bucket \in [Days -> Money]
    /\ estimate \in Money
    /\ copies \in [Days -> 0 .. Cardinality(Importers)]
    /\ imported \in [Days -> Nat]
    /\ stage \in [Callers -> CallStages]
    /\ cost \in [Callers -> Money]
    /\ report \in [Importers -> [Days -> Money]]
    /\ left \in [Importers -> SUBSET Days]
    /\ passed \in [Importers -> SUBSET Days]
    /\ item \in [Importers -> Days \cup {0}]
    /\ failed \in [Importers -> BOOLEAN]

Init ==
    /\ now = 1
    /\ bucket = [d \in Days |-> 0]
    /\ estimate = 0
    /\ copies = [d \in Days |-> 0]
    /\ imported = [d \in Days |-> 0]
    /\ stage = [c \in Callers |-> "idle"]
    /\ cost = [c \in Callers |-> 0]
    /\ report = [i \in Importers |-> [d \in Days |-> 0]]
    /\ left = [i \in Importers |-> {}]
    /\ passed = [i \in Importers |-> {}]
    /\ item = [i \in Importers |-> 0]
    /\ failed = [i \in Importers |-> FALSE]

\* What the provider has charged in the period.
Charged == SumFunction(bucket)

Tick ==
    /\ now < MaxDay
    /\ now' = now + 1
    /\ UNCHANGED <<bucket, ledger, calls, imports>>

-----------------------------------------------------------------------------
(***************************************************************************)
(* Steps with a defect, used by no specification: see AccessLifecycle.     *)
(***************************************************************************)

\* Estimates and imports of the same provider are added up.
CountedWithoutSupersession == SumFunction(imported) + estimate

\* The gate lets the call at the limit through.
BudgetGateAfterLimit(c) ==
    /\ stage[c] = "budget"
    /\ stage' = [stage EXCEPT ![c] =
           IF (IF \E d \in Days : copies[d] > 0 THEN SumFunction(imported) ELSE estimate)
                 <= BudgetLimit
           THEN "quota" ELSE "idle"]
    /\ UNCHANGED <<now, bucket, ledger, cost, imports>>

\* The answer is recorded and the call goes round again.
CallRecordAgain(c) ==
    /\ stage[c] = "record"
    /\ estimate' = estimate + cost[c]
    /\ UNCHANGED <<now, bucket, copies, imported, calls, imports>>

\* The lookup of the import key is left out.
ImportFindNothing(i) ==
    /\ item[i] = 0
    /\ \E d \in left[i] : item' = [item EXCEPT ![i] = d]
    /\ UNCHANGED <<now, bucket, ledger, calls, report, left, passed, failed>>

\* A bucket that is there ends the import.
ImportFindStops(i) ==
    /\ item[i] = 0
    /\ \E d \in left[i] :
         IF copies[d] > 0
         THEN left' = [left EXCEPT ![i] = {}] /\ UNCHANGED item
         ELSE item' = [item EXCEPT ![i] = d] /\ UNCHANGED left
    /\ UNCHANGED <<now, bucket, ledger, calls, report, passed, failed>>

-----------------------------------------------------------------------------
(***************************************************************************)
(* A gateway call.  The gate reads the usage once for the budgets and once *)
(* more for the quotas; the row of a call is written when its answer is    *)
(* there.                                                                  *)
(***************************************************************************)

\* aiCostUSD: once a bucket of an authoritative report is in the period, the
\* provider's estimates are superseded, all of them.
Counted == IF \E d \in Days : copies[d] > 0 THEN SumFunction(imported) ELSE estimate

CallStart(c) ==
    /\ stage[c] = "idle"
    /\ stage' = [stage EXCEPT ![c] = "budget"]
    /\ UNCHANGED <<now, bucket, ledger, cost, imports>>

BudgetGate(c) ==
    /\ stage[c] = "budget"
    /\ stage' = [stage EXCEPT ![c] = IF Counted < BudgetLimit THEN "quota" ELSE "idle"]
    /\ UNCHANGED <<now, bucket, ledger, cost, imports>>

QuotaGate(c) ==
    /\ stage[c] = "quota"
    /\ stage' = [stage EXCEPT ![c] = IF Counted < CostQuota THEN "send" ELSE "idle"]
    /\ UNCHANGED <<now, bucket, ledger, cost, imports>>

\* A failed read opens what is left of the gate.
GateFailsOpen(c) ==
    /\ "read" \in Faults
    /\ stage[c] \in {"budget", "quota"}
    /\ stage' = [stage EXCEPT ![c] = "send"]
    /\ UNCHANGED <<now, bucket, ledger, cost, imports>>

\* The provider serves the call and charges for it.
CallSend(c) ==
    /\ stage[c] = "send"
    /\ \E k \in Costs :
         /\ Charged + k <= MaxSpend
         /\ bucket' = [bucket EXCEPT ![now] = @ + k]
         /\ \/ /\ stage' = [stage EXCEPT ![c] = "record"]
               /\ cost' = [cost EXCEPT ![c] = k]
            \/ /\ "lost" \in Faults
               /\ stage' = [stage EXCEPT ![c] = "idle"]
               /\ UNCHANGED cost
    /\ UNCHANGED <<now, ledger, imports>>

\* The payload cannot be redacted (applyGatewayDLP fails closed), or the
\* provider answers with an error.
CallStops(c) ==
    /\ stage[c] = "send"
    /\ stage' = [stage EXCEPT ![c] = "idle"]
    /\ UNCHANGED <<now, bucket, ledger, cost, imports>>

\* recordGatewayUsage; its error is dropped.
CallRecord(c) ==
    /\ stage[c] = "record"
    /\ \/ estimate' = estimate + cost[c]
       \/ "db" \in Faults /\ UNCHANGED estimate
    /\ stage' = [stage EXCEPT ![c] = "idle"]
    /\ cost' = [cost EXCEPT ![c] = 0]
    /\ UNCHANGED <<now, bucket, copies, imported, imports>>

-----------------------------------------------------------------------------
(***************************************************************************)
(* A cost import.  The caller chooses the days, up to now unless it says   *)
(* otherwise, and the bucket of now is that of a day that is not over.     *)
(***************************************************************************)

\* The buckets come in the order of their days.  No more than a number of
\* them is read (one page of 180 from OpenAI, 40 pages from Anthropic), and
\* what is beyond that is left out without an error.
ImportStart(i) ==
    /\ left[i] = {}
    /\ \E first, last \in 1 .. now :
         LET buckets == {d \in first .. last : bucket[d] > 0} IN
         /\ buckets # {}
         /\ report' = [report EXCEPT ![i] =
                           [d \in Days |-> IF d \in buckets THEN bucket[d] ELSE 0]]
         /\ \E end \in first .. last :
              /\ end = last \/ "cut" \in Faults
              /\ left' = [left EXCEPT ![i] = {d \in buckets : d <= end}]
              /\ passed' = [passed EXCEPT ![i] = {d \in buckets : d > end}]
    /\ failed' = [failed EXCEPT ![i] = FALSE]
    /\ UNCHANGED <<now, bucket, ledger, calls, item>>

\* FindAIUsageRecordByImportKey: a bucket that has a row is skipped.
ImportFind(i) ==
    /\ item[i] = 0
    /\ \E d \in left[i] :
         IF copies[d] > 0
         THEN left' = [left EXCEPT ![i] = @ \ {d}] /\ UNCHANGED item
         ELSE item' = [item EXCEPT ![i] = d] /\ UNCHANGED left
    /\ UNCHANGED <<now, bucket, ledger, calls, report, passed, failed>>

\* ImportAnthropicCosts goes on to the next item when the amount does not
\* parse, and does not count it as skipped.
ImportUnread(i) ==
    /\ "amount" \in Faults
    /\ item[i] = 0
    /\ \E d \in left[i] :
         /\ left' = [left EXCEPT ![i] = @ \ {d}]
         /\ passed' = [passed EXCEPT ![i] = @ \cup {d}]
    /\ UNCHANGED <<now, bucket, ledger, calls, report, item, failed>>

ImportInsert(i) ==
    /\ item[i] # 0
    /\ copies' = [copies EXCEPT ![item[i]] = @ + 1]
    /\ imported' = [imported EXCEPT ![item[i]] = @ + report[i][item[i]]]
    /\ left' = [left EXCEPT ![i] = @ \ {item[i]}]
    /\ item' = [item EXCEPT ![i] = 0]
    /\ UNCHANGED <<now, bucket, estimate, calls, report, passed, failed>>

\* The first failed statement ends the import; what is in stays in.
ImportError(i) ==
    /\ "db" \in Faults
    /\ left[i] # {}
    /\ left' = [left EXCEPT ![i] = {}]
    /\ item' = [item EXCEPT ![i] = 0]
    /\ failed' = [failed EXCEPT ![i] = TRUE]
    /\ UNCHANGED <<now, bucket, ledger, calls, report, passed>>

-----------------------------------------------------------------------------
Next ==
    \/ Tick
    \/ \E c \in Callers :
         \/ CallStart(c) \/ BudgetGate(c) \/ QuotaGate(c) \/ GateFailsOpen(c)
         \/ CallSend(c) \/ CallStops(c) \/ CallRecord(c)
    \/ \E i \in Importers :
         \/ ImportStart(i) \/ ImportFind(i) \/ ImportUnread(i)
         \/ ImportInsert(i) \/ ImportError(i)

Spec == Init /\ [][Next]_vars

-----------------------------------------------------------------------------
(***************************************************************************)
(* Properties.                                                             *)
(***************************************************************************)

Limit == IF BudgetLimit < CostQuota THEN BudgetLimit ELSE CostQuota

MaxCost == CHOOSE k \in Costs : \A j \in Costs : j <= k

\* evaluateGatewayBudget is a check before an act: calls that passed it
\* together overspend together.  With working reads and writes and no
\* import, by no more than one call of every caller.
OverspendBounded == Charged <= Limit - 1 + Cardinality(Callers) * MaxCost

\* The ledger never counts the same spend twice: what the gate reads stays
\* within what the provider charged, whatever mixture of estimates and
\* imported buckets it is read from (aiCostUSD, supersession).  The only way
\* to count too much is a bucket that racing imports entered twice; calls
\* may lose answers and rows.
CountedWithinCharged == (\A d \in Days : copies[d] <= 1) => Counted <= Charged

\* Imports that race enter a bucket at most once each.
CopiesBounded == \A d \in Days : copies[d] <= Cardinality(Importers)

\* An import that came to its end without an error has left a row for every
\* bucket that it read, also when another import, or an earlier one that
\* failed half-way, entered some of them (the loop and its "skipped" case in
\* ImportOpenAICosts and ImportAnthropicCosts).  The only buckets of the days
\* it was asked for that may be left out are those it passed over: beyond the
\* pages it reads, or with an amount that does not parse.
ImportCovers ==
    \A i \in Importers :
        left[i] = {} /\ ~failed[i] =>
            \A d \in Days \ passed[i] : report[i][d] > 0 => copies[d] > 0

\* ImportAnthropicCosts: "Idempotent via a per-row import_key".  True of
\* imports that do not overlap, as SpendGateProofs shows, and not of others.
ImportedOnce == \A d \in Days : copies[d] <= 1

=============================================================================
