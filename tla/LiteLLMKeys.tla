---------------------------- MODULE LiteLLMKeys -----------------------------
(***************************************************************************)
(* The virtual keys that approvals mint at a LiteLLM proxy: the raw key on *)
(* its way to the secret store, the row that points to it, its deletion by *)
(* alias or by key, and the import of what it has spent                    *)
(* (aiproviders/litellm, ProvisionAIRequest, RevokeAIInstance and          *)
(* ImportLiteLLMSpend of orchestrator).                                    *)
(*                                                                         *)
(* A handler takes one step per call or statement.  A request is approved  *)
(* once and is the alias of its key, as AccessLifecycle has it decided     *)
(* twice; a proxy whose master key cannot be read is there too.            *)
(***************************************************************************)
EXTENDS Naturals, FiniteSets

CONSTANTS
    Handlers,    \* goroutines that serve HTTP calls
    Requests,    \* for virtual keys
    MaxSpend,    \* bound on what a key spends
    MaxRows,     \* bound on the usage rows
    Faults       \* "refuse", "lost": of a call to the proxy; "store", "read":
                 \* of the secret store; "db": a statement fails

ASSUME KeysAssumption ==
    /\ "none" \notin Requests
    /\ MaxSpend \in Nat /\ MaxRows \in Nat
    /\ Faults \subseteq {"refuse", "lost", "store", "read", "db"}

RowIds == 1 .. MaxRows

VARIABLES
    key,        \* at the proxy: its state and what it has spent
    vault,      \* the requests whose raw key the secret store holds
    approved,   \* the requests whose approval has begun
    instance,   \* ai_service_instances: the row of each request
    usage,      \* ai_usage_records with the source litellm_spend
    lost,       \* keys that no row will answer for
    raced,      \* an import began beside another, or could not look for a row
    stage,      \* the next call or statement of each handler
    held,       \* what it works on
    import      \* the import it runs

vars == <<key, vault, approved, instance, usage, lost, raced, stage, held, import>>
access == <<key, vault, approved, instance, lost>>

Keys == [status : {"none", "live", "deleted"}, spend : 0 .. MaxSpend]

\* The observed state of a row: the raw key itself, or a pointer to it.
Observed == [raw : BOOLEAN, pointer : BOOLEAN]
Instances == [status : {"none", "active", "revoked"}, observed : Observed]
Rows == [request : Requests \cup {"none"}, cost : 0 .. MaxSpend]

\* A request, what the handler would store in its row, whether it has the
\* raw key, the spend it has read and the usage row it has found.
Holds == [request : Requests \cup {"none"}, observed : Observed, minted : BOOLEAN,
          spend : 0 .. MaxSpend, row : 0 .. MaxRows]

\* The keys listed, those still to come, what they had spent at the
\* beginning, and whether nothing went wrong or ran beside it so far.
Imports == [listed : SUBSET Requests, left : SUBSET Requests,
            start : [Requests -> 0 .. MaxSpend], clean : BOOLEAN]

NoObserved == [raw |-> FALSE, pointer |-> FALSE]
NoRow == [request |-> "none", cost |-> 0]
NoHold == [request |-> "none", observed |-> NoObserved, minted |-> FALSE,
           spend |-> 0, row |-> 0]
NoImport == [listed |-> {}, left |-> {}, start |-> [r \in Requests |-> 0], clean |-> FALSE]

Stages == {"idle", "strip", "insert", "byalias", "bykey", "record",
           "import", "find", "update", "create"}

TypeOK ==
    /\ key \in [Requests -> Keys]
    /\ vault \subseteq Requests /\ approved \subseteq Requests /\ lost \subseteq Requests
    /\ instance \in [Requests -> Instances]
    /\ usage \in [RowIds -> Rows]
    /\ raced \in BOOLEAN
    /\ stage \in [Handlers -> Stages]
    /\ held \in [Handlers -> Holds]
    /\ import \in [Handlers -> Imports]

Init ==
    /\ key = [r \in Requests |-> [status |-> "none", spend |-> 0]]
    /\ vault = {} /\ approved = {} /\ lost = {}
    /\ instance = [r \in Requests |-> [status |-> "none", observed |-> NoObserved]]
    /\ usage = [u \in RowIds |-> NoRow]
    /\ raced = FALSE
    /\ stage = [h \in Handlers |-> "idle"]
    /\ held = [h \in Handlers |-> NoHold]
    /\ import = [h \in Handlers |-> NoImport]

-----------------------------------------------------------------------------
(***************************************************************************)
(* The proxy, the secret store and the usage table.                        *)
(***************************************************************************)

Goto(h, s, w) ==
    /\ stage' = [stage EXCEPT ![h] = s]
    /\ held' = [held EXCEPT ![h] = w]

Return(h) == Goto(h, "idle", NoHold)

Live(r) == key[r].status = "live"

SetKey(r, s) == key' = [key EXCEPT ![r].status = s]

\* Whoever has a key spends it.
Spend(r) ==
    /\ Live(r) /\ key[r].spend < MaxSpend
    /\ key' = [key EXCEPT ![r].spend = @ + 1]
    /\ UNCHANGED <<vault, approved, instance, usage, lost, raced, stage, held, import>>

\* mintedKeyPath and readMintedKey: may a raw key be had, and may it not.
CanReadMintedKey(r) == instance[r].observed.pointer /\ r \in vault
MayMissMintedKey(r) == ~CanReadMintedKey(r) \/ "read" \in Faults

\* What GetUsage answers: the spend of a key that is there.
GetUsage(r) == IF Live(r) THEN {key[r].spend} ELSE {}

RowsOf(r) == {u \in RowIds : usage[u].request = r}

\* (A defect: the source of the rows is compared with a name they do not
\* have, so that none is found.)
FindNothing(r) == {}

\* "limit 1" without an order: any of them.
FindAIKeySpendRecord(r) == RowsOf(r)

FreeRow == CHOOSE u \in RowIds : usage[u] = NoRow

CreateAIUsageRecord(r, spend) ==
    /\ \E u \in RowIds : usage[u] = NoRow
    /\ usage' = [usage EXCEPT ![FreeRow] = [request |-> r, cost |-> spend]]

\* The period moves to now with the cost, so that the row always counts.
UpdateAIUsageRecordCost(u, spend) == usage' = [usage EXCEPT ![u].cost = spend]

-----------------------------------------------------------------------------
(***************************************************************************)
(* Steps with a defect, used by no specification.                          *)
(***************************************************************************)

\* The raw key goes when the secret store has taken it.
StripOnSuccess(stored) == [raw |-> ~stored, pointer |-> stored]

\* The pointer is written whether or not the secret store has taken the key.
PointerInAnyCase(stored) == [raw |-> FALSE, pointer |-> TRUE]

\* Without the raw key, an error of the deletion by alias is dropped.
AfterRefusal(h) == IF held[h].minted THEN "bykey" ELSE "record"

\* A revoke writes a status the table does not have.
RevokedAsDeleted(h) ==
    /\ stage[h] = "record"
    /\ instance' = [instance EXCEPT ![held[h].request].status = "deleted"]
    /\ Return(h)
    /\ UNCHANGED <<key, vault, approved, usage, lost, raced, import>>

-----------------------------------------------------------------------------
(***************************************************************************)
(* An approval.                                                            *)
(***************************************************************************)

\* ProvisionAccess.  A key whose answer is lost, or is empty, is minted.
ProvisionAccess(h) ==
    /\ stage[h] = "idle"
    /\ \E r \in Requests \ approved :
         /\ approved' = approved \cup {r}
         /\ \/ /\ SetKey(r, "live")
               /\ Goto(h, "strip", [NoHold EXCEPT !.request = r, !.observed.raw = TRUE])
               /\ UNCHANGED lost
            \/ /\ "lost" \in Faults
               /\ SetKey(r, "live")
               /\ lost' = lost \cup {r}
               /\ Return(h)
            \/ /\ "refuse" \in Faults
               /\ Return(h)
               /\ UNCHANGED <<key, lost>>
    /\ UNCHANGED <<vault, instance, usage, raced, import>>

\* What is left of the observed state: the raw key goes in any case, the
\* pointer comes only with the secret.
Stripped(stored) == [raw |-> FALSE, pointer |-> stored]

stripMintedSecret(h) ==
    /\ stage[h] = "strip"
    /\ \/ /\ vault' = vault \cup {held[h].request}
          /\ Goto(h, "insert", [held[h] EXCEPT !.observed = Stripped(TRUE)])
       \/ /\ "store" \in Faults
          /\ Goto(h, "insert", [held[h] EXCEPT !.observed = Stripped(FALSE)])
          /\ UNCHANGED vault
    /\ UNCHANGED <<key, approved, instance, usage, lost, raced, import>>

\* CreateAIServiceInstance; its failure does not delete the key.
InsertInstance(h) ==
    /\ stage[h] = "insert"
    /\ LET r == held[h].request IN
       \/ /\ instance' = [instance EXCEPT ![r] =
                             [status |-> "active", observed |-> held[h].observed]]
          /\ UNCHANGED lost
       \/ /\ "db" \in Faults
          /\ lost' = lost \cup {r}
          /\ UNCHANGED instance
    /\ Return(h)
    /\ UNCHANGED <<key, vault, approved, usage, raced, import>>

-----------------------------------------------------------------------------
(***************************************************************************)
(* A revoke.                                                               *)
(***************************************************************************)

\* RevokeAIInstance up to the provider: the row, and the raw key for the
\* deletion by key.
RevokeAIInstance(h) ==
    /\ stage[h] = "idle"
    /\ \E r \in Requests, minted \in BOOLEAN :
         /\ instance[r].status = "active"
         /\ IF minted THEN CanReadMintedKey(r) ELSE MayMissMintedKey(r)
         /\ Goto(h, "byalias", [NoHold EXCEPT !.request = r, !.minted = minted])
    /\ UNCHANGED <<access, usage, raced, import>>

\* The error of a deletion by alias, which old proxies do not know, leads to
\* one by key, if there is a key.
AfterAliasError(h) == IF held[h].minted THEN "bykey" ELSE "idle"

\* The proxy deletes the key; of one that is gone it may say so or not.
DeleteKey(r) ==
    IF Live(r) THEN SetKey(r, "deleted") ELSE UNCHANGED key

Refused(h, next) == IF next = "idle" THEN Return(h) ELSE Goto(h, next, held[h])

DeleteByAlias(h) ==
    /\ stage[h] = "byalias"
    /\ \/ /\ DeleteKey(held[h].request)
          /\ \/ Goto(h, "record", held[h])
             \/ "lost" \in Faults /\ Refused(h, AfterAliasError(h))
       \/ /\ "refuse" \in Faults \/ ~Live(held[h].request)
          /\ Refused(h, AfterAliasError(h))
          /\ UNCHANGED key
    /\ UNCHANGED <<vault, approved, instance, usage, lost, raced, import>>

DeleteByKey(h) ==
    /\ stage[h] = "bykey"
    /\ \/ /\ DeleteKey(held[h].request)
          /\ Goto(h, "record", held[h]) \/ ("lost" \in Faults /\ Return(h))
       \/ /\ "refuse" \in Faults \/ ~Live(held[h].request)
          /\ Return(h)
          /\ UNCHANGED key
    /\ UNCHANGED <<vault, approved, instance, usage, lost, raced, import>>

\* RevokeAIServiceInstance, a statement by id.  The secret stays.
RecordRevoke(h) ==
    /\ stage[h] = "record"
    /\ \/ instance' = [instance EXCEPT ![held[h].request].status = "revoked"]
       \/ "db" \in Faults /\ UNCHANGED instance
    /\ Return(h)
    /\ UNCHANGED <<key, vault, approved, usage, lost, raced, import>>

-----------------------------------------------------------------------------
(***************************************************************************)
(* ImportLiteLLMSpend.                                                     *)
(***************************************************************************)

Importing(h) == stage[h] \in {"import", "find", "update", "create"}

Active == {r \in Requests : instance[r].status = "active"}

\* An import of all active rows, beside nobody else's so far.
NewImport == [listed |-> Active, left |-> Active,
              start |-> [r \in Requests |-> key[r].spend],
              clean |-> \A k \in Handlers : ~Importing(k)]

Spoilt(i) == [i EXCEPT !.clean = FALSE]

ImportStart(h) ==
    /\ stage[h] = "idle"
    /\ import' = [k \in Handlers |->
                     IF k = h THEN NewImport
                     ELSE IF Importing(k) THEN Spoilt(import[k])
                     ELSE import[k]]
    /\ raced' = (raced \/ \E k \in Handlers : Importing(k))
    /\ Goto(h, "import", NoHold)
    /\ UNCHANGED <<access, usage>>

Took(r, i) == [i EXCEPT !.left = @ \ {r}]

\* A key is looked up by its raw form or by its alias; one without an answer
\* is skipped.
ImportUsage(h) ==
    /\ stage[h] = "import"
    /\ \E r \in import[h].left :
         \/ /\ \E spend \in GetUsage(r) :
                 Goto(h, "find", [NoHold EXCEPT !.request = r, !.spend = spend])
            /\ import' = [import EXCEPT ![h] = Took(r, @)]
         \/ /\ "refuse" \in Faults \/ GetUsage(r) = {}
            /\ import' = [import EXCEPT ![h] = Spoilt(Took(r, @))]
            /\ UNCHANGED <<stage, held>>
    /\ UNCHANGED <<access, usage, raced>>

\* A lookup that fails is taken for one that finds nothing.
ImportFind(h) ==
    /\ stage[h] = "find"
    /\ LET found == FindAIKeySpendRecord(held[h].request) IN
       \/ /\ \/ \E u \in found : Goto(h, "update", [held[h] EXCEPT !.row = u])
             \/ found = {} /\ Goto(h, "create", held[h])
          /\ UNCHANGED raced
       \/ /\ "db" \in Faults
          /\ Goto(h, "create", held[h])
          /\ raced' = TRUE
    /\ UNCHANGED <<access, usage, import>>

\* Errors of both statements are dropped.
ImportWrite(h) ==
    /\ stage[h] \in {"update", "create"}
    /\ \/ /\ IF stage[h] = "update"
             THEN UpdateAIUsageRecordCost(held[h].row, held[h].spend)
             ELSE CreateAIUsageRecord(held[h].request, held[h].spend)
          /\ UNCHANGED import
       \/ /\ "db" \in Faults
          /\ import' = [import EXCEPT ![h] = Spoilt(@)]
          /\ UNCHANGED usage
    /\ Goto(h, "import", NoHold)
    /\ UNCHANGED <<access, raced>>

ImportEnd(h) ==
    /\ stage[h] = "import" /\ import[h].left = {}
    /\ import' = [import EXCEPT ![h] = NoImport]
    /\ Return(h)
    /\ UNCHANGED <<access, usage, raced>>

-----------------------------------------------------------------------------
Step(h) ==
    \/ ProvisionAccess(h) \/ stripMintedSecret(h) \/ InsertInstance(h)
    \/ RevokeAIInstance(h) \/ DeleteByAlias(h) \/ DeleteByKey(h) \/ RecordRevoke(h)
    \/ ImportStart(h) \/ ImportUsage(h) \/ ImportFind(h) \/ ImportWrite(h) \/ ImportEnd(h)

Next ==
    \/ \E h \in Handlers : Step(h)
    \/ \E r \in Requests : Spend(r)

Spec == Init /\ [][Next]_vars

-----------------------------------------------------------------------------
(***************************************************************************)
(* Properties.                                                             *)
(***************************************************************************)

\* A key that can spend is answered for by an active row, or by the approval
\* that has just minted it; those excepted whose mint was not answered or
\* whose row could not be written.  So no revoke, raced, refused or answered
\* to nobody, leaves a live key under a revoked row (litellm.go: "so a revoke
\* can never silently leave a live, spending key").
LiveKeyIsAnsweredFor ==
    \A r \in Requests : Live(r) =>
        \/ instance[r].status = "active"
        \/ r \in lost
        \/ \E h \in Handlers : stage[h] \in {"strip", "insert"} /\ held[h].request = r

\* A minted key is in the secret store or nowhere: no row of the database
\* holds the raw key, and none points to a secret that is not there, also
\* when the store does not take the key (ai.go: "Never persist it in the DB -
\* move it to OpenBao and record only a pointer").
KeyOnlyInStore ==
    \A r \in Requests :
        /\ ~instance[r].observed.raw
        /\ instance[r].observed.pointer => r \in vault

\* An import that met no error and ran beside no other leaves for every key
\* it listed a row that is no older than its beginning and never ahead of
\* the proxy; and as long as no two imports overlapped there is just one
\* (ai.sql.go: "The single cumulative-spend row").
ImportFollowsSpend ==
    [][\A h \in Handlers :
         stage[h] = "import" /\ stage'[h] = "idle" /\ import[h].clean =>
           \A r \in import[h].listed :
             /\ \E u \in RowsOf(r) :
                  import[h].start[r] <= usage[u].cost /\ usage[u].cost <= key[r].spend
             /\ ~raced => Cardinality(RowsOf(r)) = 1]_vars

=============================================================================
