------------------------- MODULE LiteLLMKeysProofs --------------------------
(***************************************************************************)
(* Proofs about LiteLLMKeys, for any number of handlers, requests and      *)
(* usage rows and under every set of faults.                               *)
(***************************************************************************)
EXTENDS LiteLLMKeys, FiniteSetTheorems, TLAPS

(***************************************************************************)
(* The inductive invariant about keys and rows.                            *)
(***************************************************************************)

\* No key and no row is there before the approval of its request.
Begun ==
    \A r \in Requests :
        key[r].status # "none" \/ instance[r].status # "none" => r \in approved

\* A handler works on a request whose approval has begun; it stores nothing
\* raw and no pointer without a secret, and records the revoke of a key only
\* when the key is gone.
HoldsFit ==
    \A h \in Handlers :
        /\ stage[h] \in {"strip", "insert", "byalias", "bykey", "record"}
              => held[h].request \in approved
        /\ stage[h] = "insert" =>
              ~held[h].observed.raw /\ (held[h].observed.pointer => held[h].request \in vault)
        /\ stage[h] = "record" => ~Live(held[h].request)

KeysInv == TypeOK /\ Begun /\ HoldsFit /\ LiveKeyIsAnsweredFor /\ KeyOnlyInStore

-----------------------------------------------------------------------------
(***************************************************************************)
(* Types.                                                                  *)
(***************************************************************************)

\* The bounds are numbers, and the constant records are well typed.
LEMMA Constant ==
    /\ MaxSpend \in Nat /\ MaxRows \in Nat /\ "none" \notin Requests
    /\ NoObserved \in Observed /\ NoRow \in Rows /\ NoHold \in Holds /\ NoImport \in Imports
BY KeysAssumption DEF NoObserved, Observed, NoRow, Rows, NoHold, Holds, NoImport, Imports

\* A handler keeps its type wherever it goes with well-typed work.
LEMMA GotoTypes ==
    ASSUME TypeOK, NEW h \in Handlers, NEW s \in Stages, NEW w \in Holds, Goto(h, s, w)
    PROVE  stage' \in [Handlers -> Stages] /\ held' \in [Handlers -> Holds]
BY DEF TypeOK, Goto

\* The types of what the handlers share.
TablesOK ==
    /\ key \in [Requests -> Keys]
    /\ vault \subseteq Requests /\ approved \subseteq Requests /\ lost \subseteq Requests
    /\ instance \in [Requests -> Instances]
    /\ usage \in [RowIds -> Rows]
    /\ raced \in BOOLEAN
    /\ import \in [Handlers -> Imports]

\* Types are kept by every step.
LEMMA TypeStep == TypeOK /\ HoldsFit /\ [Next]_vars => TypeOK'
<1> SUFFICES ASSUME TypeOK, HoldsFit, [Next]_vars PROVE TypeOK'
  OBVIOUS
<1> USE Constant
<1>1. ASSUME TablesOK', stage' \in [Handlers -> Stages], held' \in [Handlers -> Holds]
      PROVE  TypeOK'
  BY <1>1 DEF TypeOK, TablesOK
<1>2. TablesOK
  BY DEF TypeOK, TablesOK
<1>3. ASSUME NEW h \in Handlers
      PROVE  /\ held[h] \in Holds /\ held[h].request \in Requests \cup {"none"}
             /\ held[h].observed \in Observed /\ held[h].spend \in 0 .. MaxSpend
             /\ import[h] \in Imports /\ import[h].left \subseteq Requests
  BY DEF TypeOK, Holds, Imports
<1>4. ASSUME NEW h \in Handlers, Return(h)
      PROVE  stage' \in [Handlers -> Stages] /\ held' \in [Handlers -> Holds]
  BY <1>4, GotoTypes DEF Return, Stages
<1>5. ASSUME NEW r \in Requests, NEW s \in {"live", "deleted"}, SetKey(r, s)
      PROVE  key' \in [Requests -> Keys]
  <2>1. [key[r] EXCEPT !.status = s] \in Keys
    BY DEF TypeOK, Keys
  <2> QED
    BY <1>5, <2>1 DEF SetKey, TypeOK
<1>6. ASSUME NEW r \in Requests, DeleteKey(r) PROVE key' \in [Requests -> Keys]
  BY <1>5, <1>6 DEF DeleteKey, TypeOK
<1>7. ASSUME NEW r \in Requests, Spend(r) PROVE TypeOK'
  <2>1. [key[r] EXCEPT !.spend = key[r].spend + 1] \in Keys
    BY <1>7 DEF Spend, TypeOK, Keys
  <2>2. key' \in [Requests -> Keys]
    BY <1>7, <2>1 DEF Spend, TypeOK
  <2> QED
    BY <1>7, <2>2 DEF Spend, TypeOK
<1>8. ASSUME NEW h \in Handlers, ProvisionAccess(h) PROVE TypeOK'
  <2>1. PICK r \in Requests \ approved :
          /\ approved' = approved \cup {r}
          /\ key' = key \/ SetKey(r, "live")
          /\ lost' = lost \/ lost' = lost \cup {r}
          /\ Return(h) \/ Goto(h, "strip", [NoHold EXCEPT !.request = r, !.observed.raw = TRUE])
    BY <1>8 DEF ProvisionAccess
  <2>2. [NoHold EXCEPT !.request = r, !.observed.raw = TRUE] \in Holds
    BY DEF NoHold, NoObserved, Holds, Observed
  <2>3. stage' \in [Handlers -> Stages] /\ held' \in [Handlers -> Holds]
    BY <1>4, <2>1, <2>2, GotoTypes DEF Stages
  <2>4. key' \in [Requests -> Keys]
    BY <1>5, <2>1 DEF TypeOK
  <2>5. TablesOK'
    BY <1>2, <1>8, <2>1, <2>4 DEF ProvisionAccess, TablesOK
  <2> QED
    BY <1>1, <2>3, <2>5
<1>9. ASSUME NEW h \in Handlers, stripMintedSecret(h) PROVE TypeOK'
  <2>1. PICK stored \in BOOLEAN :
          Goto(h, "insert", [held[h] EXCEPT !.observed = Stripped(stored)])
    BY <1>9 DEF stripMintedSecret
  <2>2. [held[h] EXCEPT !.observed = Stripped(stored)] \in Holds
    BY <1>3 DEF Holds, Stripped, Observed
  <2>3. stage' \in [Handlers -> Stages] /\ held' \in [Handlers -> Holds]
    BY <2>1, <2>2, GotoTypes DEF Stages
  <2>4. held[h].request \in Requests
    BY <1>9 DEF stripMintedSecret, HoldsFit, TypeOK
  <2>5. TablesOK'
    BY <1>2, <1>9, <2>4 DEF stripMintedSecret, TablesOK
  <2> QED
    BY <1>1, <2>3, <2>5
<1>10. ASSUME NEW h \in Handlers, InsertInstance(h) PROVE TypeOK'
  <2>1. held[h].request \in Requests
    BY <1>10 DEF InsertInstance, HoldsFit, TypeOK
  <2>2. [status |-> "active", observed |-> held[h].observed] \in Instances
    BY <1>3 DEF Instances
  <2>3. TablesOK'
    BY <1>2, <1>10, <2>1, <2>2 DEF InsertInstance, TablesOK
  <2> QED
    BY <1>1, <1>4, <1>10, <2>3 DEF InsertInstance
<1>11. ASSUME NEW h \in Handlers, RevokeAIInstance(h) PROVE TypeOK'
  <2>1. PICK r \in Requests, minted \in BOOLEAN :
          Goto(h, "byalias", [NoHold EXCEPT !.request = r, !.minted = minted])
    BY <1>11 DEF RevokeAIInstance
  <2>2. [NoHold EXCEPT !.request = r, !.minted = minted] \in Holds
    BY DEF NoHold, Holds
  <2>3. stage' \in [Handlers -> Stages] /\ held' \in [Handlers -> Holds]
    BY <2>1, <2>2, GotoTypes DEF Stages
  <2> QED
    BY <1>1, <1>2, <1>11, <2>3 DEF RevokeAIInstance, access, TablesOK
<1>12. ASSUME NEW h \in Handlers, DeleteByAlias(h) \/ DeleteByKey(h) PROVE TypeOK'
  <2>1. held[h].request \in Requests
    BY <1>12 DEF DeleteByAlias, DeleteByKey, HoldsFit, TypeOK
  <2>2. key' \in [Requests -> Keys]
    BY <1>6, <1>12, <2>1 DEF DeleteByAlias, DeleteByKey, TypeOK
  <2>3. Return(h) \/ \E s \in Stages : Goto(h, s, held[h])
    BY <1>12 DEF DeleteByAlias, DeleteByKey, Refused, AfterAliasError, Stages
  <2>4. stage' \in [Handlers -> Stages] /\ held' \in [Handlers -> Holds]
    BY <1>3, <1>4, <2>3, GotoTypes
  <2> QED
    BY <1>1, <1>2, <1>12, <2>2, <2>4 DEF DeleteByAlias, DeleteByKey, TablesOK
<1>13. ASSUME NEW h \in Handlers, RecordRevoke(h) PROVE TypeOK'
  <2>1. held[h].request \in Requests
    BY <1>13 DEF RecordRevoke, HoldsFit, TypeOK
  <2>2. [instance[held[h].request] EXCEPT !.status = "revoked"] \in Instances
    BY <2>1 DEF TypeOK, Instances
  <2>3. TablesOK'
    BY <1>2, <1>13, <2>1, <2>2 DEF RecordRevoke, TablesOK
  <2> QED
    BY <1>1, <1>4, <1>13, <2>3 DEF RecordRevoke
<1>14. ASSUME NEW h \in Handlers, ImportStart(h) PROVE TypeOK'
  <2>1. NewImport \in Imports
    BY DEF TypeOK, Keys, Imports, NewImport, Active
  <2>2. \A k \in Handlers : Spoilt(import[k]) \in Imports
    BY DEF TypeOK, Imports, Spoilt
  <2>4. import' \in [Handlers -> Imports]
    BY <1>14, <2>1, <2>2 DEF ImportStart, TypeOK
  <2>5. stage' \in [Handlers -> Stages] /\ held' \in [Handlers -> Holds]
    BY <1>14, GotoTypes DEF ImportStart, Stages
  <2>6. raced' \in BOOLEAN
    BY <1>14 DEF ImportStart, TypeOK
  <2> QED
    BY <1>1, <1>2, <1>14, <2>4, <2>5, <2>6 DEF ImportStart, access, TablesOK
<1>15. ASSUME NEW h \in Handlers, NEW r
       PROVE  /\ Took(r, import[h]) \in Imports /\ Spoilt(import[h]) \in Imports
              /\ Spoilt(Took(r, import[h])) \in Imports
  BY <1>3 DEF Took, Spoilt, Imports
<1>16. ASSUME NEW h \in Handlers, ImportUsage(h) PROVE TypeOK'
  <2>1. import' \in [Handlers -> Imports]
    <3>1. PICK r \in import[h].left :
            \/ import' = [import EXCEPT ![h] = Took(r, import[h])]
            \/ import' = [import EXCEPT ![h] = Spoilt(Took(r, import[h]))]
      BY <1>16 DEF ImportUsage, TypeOK
    <3> QED
      BY <1>15, <3>1 DEF TypeOK
  <2>2. \A r \in Requests : \A spend \in GetUsage(r) :
          [NoHold EXCEPT !.request = r, !.spend = spend] \in Holds
    BY DEF NoHold, Holds, GetUsage, TypeOK, Keys
  <2>3. stage' \in [Handlers -> Stages] /\ held' \in [Handlers -> Holds]
    <3>1. CASE UNCHANGED <<stage, held>>
      BY <3>1 DEF TypeOK
    <3>2. CASE \E r \in import[h].left : \E spend \in GetUsage(r) :
                 Goto(h, "find", [NoHold EXCEPT !.request = r, !.spend = spend])
      BY <1>3, <2>2, <3>2, GotoTypes DEF Stages
    <3> QED
      BY <1>16, <3>1, <3>2 DEF ImportUsage
  <2> QED
    BY <1>1, <1>2, <1>16, <2>1, <2>3 DEF ImportUsage, access, TablesOK
<1>17. ASSUME NEW h \in Handlers, ImportFind(h) PROVE TypeOK'
  <2>1. \A u \in RowIds : u \in 0 .. MaxRows
    BY DEF RowIds
  <2>2. \A u \in RowIds : [held[h] EXCEPT !.row = u] \in Holds
    BY <1>3, <2>1 DEF Holds
  <2>3. stage' \in [Handlers -> Stages] /\ held' \in [Handlers -> Holds]
    <3>1. CASE Goto(h, "create", held[h])
      BY <1>3, <3>1, GotoTypes DEF Stages
    <3>2. CASE \E u \in RowIds : Goto(h, "update", [held[h] EXCEPT !.row = u])
      BY <2>2, <3>2, GotoTypes DEF Stages
    <3> QED
      BY <1>17, <3>1, <3>2 DEF ImportFind, FindAIKeySpendRecord, RowsOf
  <2>4. raced' \in BOOLEAN
    BY <1>17 DEF ImportFind, TypeOK
  <2> QED
    BY <1>1, <1>2, <1>17, <2>3, <2>4 DEF ImportFind, access, TablesOK
<1>18. ASSUME NEW h \in Handlers, ImportWrite(h) PROVE TypeOK'
  <2>1. usage' \in [RowIds -> Rows]
    <3>1. [request |-> held[h].request, cost |-> held[h].spend] \in Rows
      BY <1>3 DEF Rows
    <3>2. \A u \in RowIds : [usage[u] EXCEPT !.cost = held[h].spend] \in Rows
      BY <1>3 DEF TypeOK, Rows
    <3> QED
      BY <1>18, <3>1, <3>2 DEF ImportWrite, CreateAIUsageRecord, UpdateAIUsageRecordCost, TypeOK
  <2>2. import' \in [Handlers -> Imports]
    BY <1>15, <1>18 DEF ImportWrite, TypeOK
  <2>3. stage' \in [Handlers -> Stages] /\ held' \in [Handlers -> Holds]
    BY <1>18, GotoTypes DEF ImportWrite, Stages
  <2> QED
    BY <1>1, <1>2, <1>18, <2>1, <2>2, <2>3 DEF ImportWrite, access, TablesOK
<1>19. ASSUME NEW h \in Handlers, ImportEnd(h) PROVE TypeOK'
  BY <1>1, <1>2, <1>4, <1>19 DEF ImportEnd, access, TablesOK
<1>20. CASE UNCHANGED vars
  BY <1>20 DEF vars, TypeOK
<1> QED
  BY <1>7, <1>8, <1>9, <1>10, <1>11, <1>12, <1>13, <1>14, <1>16, <1>17, <1>18, <1>19, <1>20
     DEF Next, Step

-----------------------------------------------------------------------------
(***************************************************************************)
(* Keys and rows.                                                          *)
(***************************************************************************)

\* The step of one handler moves no other.
LEMMA Moves ==
    ASSUME TypeOK, NEW h \in Handlers, NEW s, NEW w, Goto(h, s, w)
    PROVE  /\ stage'[h] = s /\ held'[h] = w
           /\ \A k \in Handlers \ {h} : stage'[k] = stage[k] /\ held'[k] = held[k]
BY DEF TypeOK, Goto

ImportStages == {"import", "find", "update", "create"}

\* Imports touch neither keys nor rows, and work on nothing that concerns them.
LEMMA ImportFrame ==
    ASSUME TypeOK, NEW h \in Handlers,
           \/ ImportStart(h) \/ ImportUsage(h) \/ ImportFind(h) \/ ImportWrite(h) \/ ImportEnd(h)
    PROVE  /\ UNCHANGED access
           /\ stage[h] \notin {"strip", "insert"}
           /\ \/ UNCHANGED <<stage, held>>
              \/ \E s \in ImportStages \cup {"idle"} : \E w : Goto(h, s, w)
<1>1. CASE ImportStart(h)
  BY <1>1 DEF ImportStart, ImportStages
<1>2. CASE ImportUsage(h)
  BY <1>2 DEF ImportUsage, ImportStages
<1>3. CASE ImportFind(h)
  BY <1>3 DEF ImportFind, ImportStages
<1>4. CASE ImportWrite(h)
  BY <1>4 DEF ImportWrite, ImportStages
<1>5. CASE ImportEnd(h)
  BY <1>5 DEF ImportEnd, Return
<1> QED
  BY <1>1, <1>2, <1>3, <1>4, <1>5

\* The invariant is kept by every step.
LEMMA KeysStep ==
    KeysInv /\ [Next]_vars => Begun' /\ HoldsFit' /\ LiveKeyIsAnsweredFor' /\ KeyOnlyInStore'
<1> SUFFICES ASSUME KeysInv, [Next]_vars
             PROVE  Begun' /\ HoldsFit' /\ LiveKeyIsAnsweredFor' /\ KeyOnlyInStore'
  OBVIOUS
<1> USE DEF KeysInv
<1>1. /\ TypeOK /\ Begun /\ HoldsFit /\ LiveKeyIsAnsweredFor /\ KeyOnlyInStore
      /\ key \in [Requests -> Keys] /\ instance \in [Requests -> Instances]
      /\ approved \subseteq Requests
  BY DEF TypeOK
<1>2. CASE UNCHANGED vars
  BY <1>1, <1>2 DEF vars, Begun, HoldsFit, LiveKeyIsAnsweredFor, KeyOnlyInStore, Live
<1>3. ASSUME NEW r \in Requests, Spend(r)
      PROVE  Begun' /\ HoldsFit' /\ LiveKeyIsAnsweredFor' /\ KeyOnlyInStore'
  <2>1. \A k \in Requests : key'[k].status = key[k].status
    BY <1>1, <1>3 DEF Spend, Keys
  <2> QED
    BY <1>1, <1>3, <2>1 DEF Spend, Begun, HoldsFit, LiveKeyIsAnsweredFor, KeyOnlyInStore, Live
<1>4. ASSUME NEW h \in Handlers, ProvisionAccess(h)
      PROVE  Begun' /\ HoldsFit' /\ LiveKeyIsAnsweredFor' /\ KeyOnlyInStore'
  <2>1. PICK r \in Requests \ approved :
          /\ approved' = approved \cup {r}
          /\ \/ /\ SetKey(r, "live") /\ lost' = lost
                /\ Goto(h, "strip", [NoHold EXCEPT !.request = r, !.observed.raw = TRUE])
             \/ SetKey(r, "live") /\ lost' = lost \cup {r} /\ Return(h)
             \/ key' = key /\ lost' = lost /\ Return(h)
    BY <1>4 DEF ProvisionAccess
  <2>2. /\ \A k \in Requests \ {r} : key'[k] = key[k]
        /\ instance' = instance /\ vault' = vault /\ stage[h] = "idle"
    BY <1>1, <1>4, <2>1 DEF ProvisionAccess, SetKey
  <2>3. /\ \A k \in Handlers \ {h} : stage'[k] = stage[k] /\ held'[k] = held[k]
        /\ (stage'[h] = "strip" /\ held'[h].request = r) \/ stage'[h] = "idle"
    <3> DEFINE w == [NoHold EXCEPT !.request = r, !.observed.raw = TRUE]
    <3>1. w.request = r
      BY DEF NoHold
    <3>2. Goto(h, "strip", w) \/ Goto(h, "idle", NoHold)
      BY <2>1 DEF Return
    <3>3. CASE Goto(h, "strip", w)
      <4> HIDE DEF w
      <4> QED
        BY <1>1, <3>1, <3>3, Moves
    <3>4. CASE Goto(h, "idle", NoHold)
      BY <1>1, <3>4, Moves
    <3> QED
      BY <3>2, <3>3, <3>4
  <2>4. Begun' /\ KeyOnlyInStore'
    BY <1>1, <2>1, <2>2 DEF Begun, KeyOnlyInStore
  <2>5. HoldsFit'
    BY <1>1, <2>1, <2>2, <2>3 DEF HoldsFit, Live
  <2>6. ASSUME NEW k \in Requests, Live(k)'
        PROVE  \/ instance'[k].status = "active" \/ k \in lost'
               \/ \E g \in Handlers : stage'[g] \in {"strip", "insert"} /\ held'[g].request = k
    <3>1. CASE k = r
      <4>1. key'[r].status # "none"
        BY <2>6, <3>1 DEF Live
      <4>2. key[r].status = "none"
        BY <1>1 DEF Begun
      <4>3. CASE SetKey(r, "live") /\ lost' = lost
                 /\ Goto(h, "strip", [NoHold EXCEPT !.request = r, !.observed.raw = TRUE])
        <5> DEFINE w == [NoHold EXCEPT !.request = r, !.observed.raw = TRUE]
        <5>1. w.request = r
          BY DEF NoHold
        <5>2. Goto(h, "strip", w)
          BY <4>3
        <5> HIDE DEF w
        <5>3. stage'[h] = "strip" /\ held'[h].request = r
          BY <1>1, <5>1, <5>2, Moves
        <5> QED
          BY <3>1, <5>3
      <4> QED
        BY <2>1, <3>1, <4>1, <4>2, <4>3
    <3>2. CASE k # r
      BY <1>1, <2>1, <2>2, <2>3, <2>6, <3>2 DEF LiveKeyIsAnsweredFor, Live
    <3> QED
      BY <3>1, <3>2
  <2> QED
    BY <2>4, <2>5, <2>6 DEF LiveKeyIsAnsweredFor
<1>5. ASSUME NEW h \in Handlers, stripMintedSecret(h)
      PROVE  Begun' /\ HoldsFit' /\ LiveKeyIsAnsweredFor' /\ KeyOnlyInStore'
  <2>1. PICK stored \in BOOLEAN :
          /\ Goto(h, "insert", [held[h] EXCEPT !.observed = Stripped(stored)])
          /\ stored => vault' = vault \cup {held[h].request}
    BY <1>5 DEF stripMintedSecret
  <2>2. /\ key' = key /\ instance' = instance /\ approved' = approved /\ lost' = lost
        /\ stage[h] = "strip" /\ vault \subseteq vault'
        /\ stored => held[h].request \in vault'
    BY <1>5, <2>1 DEF stripMintedSecret
  <2>3. /\ stage'[h] = "insert" /\ held'[h].request = held[h].request
        /\ ~held'[h].observed.raw /\ (held'[h].observed.pointer => stored)
        /\ \A k \in Handlers \ {h} : stage'[k] = stage[k] /\ held'[k] = held[k]
    <3>1. held[h] \in Holds
      BY DEF TypeOK
    <3>2. [held[h] EXCEPT !.observed = Stripped(stored)].request = held[h].request
      BY <3>1 DEF Holds
    <3>3. [held[h] EXCEPT !.observed = Stripped(stored)].observed = Stripped(stored)
      BY <3>1 DEF Holds
    <3> DEFINE w == [held[h] EXCEPT !.observed = Stripped(stored)]
    <3>4. Goto(h, "insert", w) /\ w.request = held[h].request /\ ~w.observed.raw
          /\ (w.observed.pointer => stored)
      BY <2>1, <3>2, <3>3 DEF Stripped
    <3> HIDE DEF w
    <3> QED
      BY <1>1, <3>4, Moves
  <2> QED
    BY <1>1, <2>2, <2>3 DEF Begun, HoldsFit, LiveKeyIsAnsweredFor, KeyOnlyInStore, Live
<1>6. ASSUME NEW h \in Handlers, InsertInstance(h)
      PROVE  Begun' /\ HoldsFit' /\ LiveKeyIsAnsweredFor' /\ KeyOnlyInStore'
  <2> DEFINE r == held[h].request
  <2>1. /\ r \in approved /\ r \in Requests /\ ~held[h].observed.raw
        /\ held[h].observed.pointer => r \in vault
    BY <1>1, <1>6 DEF InsertInstance, HoldsFit
  <2>2. /\ key' = key /\ approved' = approved /\ vault' = vault
        /\ \A k \in Requests \ {r} : instance'[k] = instance[k]
        /\ lost \subseteq lost'
        /\ \/ /\ instance'[r].status = "active" /\ ~instance'[r].observed.raw
              /\ instance'[r].observed.pointer => r \in vault
           \/ instance' = instance /\ r \in lost'
    BY <1>1, <1>6, <2>1 DEF InsertInstance
  <2>3. /\ stage'[h] = "idle" /\ stage[h] = "insert"
        /\ \A k \in Handlers \ {h} : stage'[k] = stage[k] /\ held'[k] = held[k]
    BY <1>1, <1>6, Moves DEF InsertInstance, Return
  <2>4. Begun' /\ HoldsFit' /\ KeyOnlyInStore'
    BY <1>1, <2>1, <2>2, <2>3 DEF Begun, HoldsFit, KeyOnlyInStore, Live
  <2>5. LiveKeyIsAnsweredFor'
    BY <1>1, <2>1, <2>2, <2>3 DEF LiveKeyIsAnsweredFor, Live
  <2> QED
    BY <2>4, <2>5
<1>7. ASSUME NEW h \in Handlers, RevokeAIInstance(h)
      PROVE  Begun' /\ HoldsFit' /\ LiveKeyIsAnsweredFor' /\ KeyOnlyInStore'
  <2>1. PICK r \in Requests, minted \in BOOLEAN :
          /\ instance[r].status = "active"
          /\ Goto(h, "byalias", [NoHold EXCEPT !.request = r, !.minted = minted])
    BY <1>7 DEF RevokeAIInstance
  <2>2. /\ UNCHANGED access /\ stage[h] = "idle" /\ r \in approved
    BY <1>1, <1>7, <2>1 DEF RevokeAIInstance, Begun
  <2>3. /\ stage'[h] = "byalias" /\ held'[h].request = r
        /\ \A k \in Handlers \ {h} : stage'[k] = stage[k] /\ held'[k] = held[k]
    <3> DEFINE w == [NoHold EXCEPT !.request = r, !.minted = minted]
    <3>1. Goto(h, "byalias", w) /\ w.request = r
      BY <2>1 DEF NoHold
    <3> HIDE DEF w
    <3> QED
      BY <1>1, <3>1, Moves
  <2> QED
    BY <1>1, <2>2, <2>3 DEF access, Begun, HoldsFit, LiveKeyIsAnsweredFor, KeyOnlyInStore, Live
<1>8. ASSUME NEW h \in Handlers, DeleteByAlias(h) \/ DeleteByKey(h)
      PROVE  Begun' /\ HoldsFit' /\ LiveKeyIsAnsweredFor' /\ KeyOnlyInStore'
  <2> DEFINE r == held[h].request
  <2>1. r \in approved /\ r \in Requests /\ stage[h] \in {"byalias", "bykey"}
    BY <1>1, <1>8 DEF DeleteByAlias, DeleteByKey, HoldsFit
  <2>2. /\ instance' = instance /\ approved' = approved /\ lost' = lost /\ vault' = vault
        /\ DeleteKey(r) \/ key' = key
    BY <1>8 DEF DeleteByAlias, DeleteByKey
  <2>3. /\ \A k \in Requests : Live(k)' => Live(k)
        /\ \A k \in Requests : key'[k].status # "none" => key[k].status # "none"
        /\ DeleteKey(r) => key'[r].status # "live"
    <3>1. CASE key' = key
      <4>1. DeleteKey(r) => key[r].status # "live"
        <5> SUFFICES ASSUME DeleteKey(r), Live(r) PROVE key'[r].status # "live"
          BY <3>1 DEF Live
        <5>1. key' = [key EXCEPT ![r].status = "deleted"]
          BY DEF DeleteKey, SetKey
        <5>2. key'[r].status = "deleted"
          BY <1>1, <2>1, <5>1 DEF Keys
        <5> QED
          BY <5>2
      <4> QED
        BY <3>1, <4>1 DEF Live
    <3>2. CASE Live(r) /\ key' = [key EXCEPT ![r].status = "deleted"]
      <4>1. key'[r].status = "deleted"
        BY <1>1, <2>1, <3>2 DEF Keys
      <4>2. \A k \in Requests : k # r => key'[k] = key[k]
        BY <1>1, <3>2
      <4>3. key[r].status = "live"
        BY <3>2 DEF Live
      <4> HIDE DEF r
      <4> QED
        BY <4>1, <4>2, <4>3 DEF Live
    <3> QED
      BY <2>2, <3>1, <3>2 DEF DeleteKey, SetKey
  <2>4. \/ Goto(h, "record", held[h]) /\ DeleteKey(r)
        \/ Goto(h, "bykey", held[h]) \/ Return(h)
    BY <1>8 DEF DeleteByAlias, DeleteByKey, Refused, AfterAliasError
  <2>5. /\ \A k \in Handlers \ {h} : stage'[k] = stage[k] /\ held'[k] = held[k]
        /\ \/ stage'[h] = "record" /\ held'[h] = held[h] /\ key'[r].status # "live"
           \/ stage'[h] = "bykey" /\ held'[h] = held[h]
           \/ stage'[h] = "idle"
    BY <1>1, <2>3, <2>4, Moves DEF Return
  <2>6. Begun' /\ KeyOnlyInStore'
    BY <1>1, <2>2, <2>3 DEF Begun, KeyOnlyInStore
  <2>7. HoldsFit'
    <3>1. ASSUME NEW k \in Handlers, stage'[k] = "record" PROVE ~Live(held[k].request)'
      <4>1. held[k].request \in Requests
        BY <1>1, <2>1, <2>5, <3>1 DEF HoldsFit
      <4>2. held'[k] = held[k]
        BY <2>5, <3>1
      <4>3. CASE k = h
        BY <2>5, <3>1, <4>2, <4>3 DEF Live
      <4>4. CASE k # h
        <5>1. key[held[k].request].status # "live"
          BY <1>1, <2>5, <3>1, <4>4 DEF HoldsFit, Live
        <5>2. key'[held[k].request].status # "live"
          BY <2>3, <4>1, <5>1 DEF Live
        <5> QED
          BY <4>2, <5>2 DEF Live
      <4> QED
        BY <4>3, <4>4
    <3> QED
      BY <1>1, <2>1, <2>2, <2>5, <3>1 DEF HoldsFit, Live
  <2>8. LiveKeyIsAnsweredFor'
    BY <1>1, <2>1, <2>2, <2>3, <2>5 DEF LiveKeyIsAnsweredFor
  <2> QED
    BY <2>6, <2>7, <2>8
<1>9. ASSUME NEW h \in Handlers, RecordRevoke(h)
      PROVE  Begun' /\ HoldsFit' /\ LiveKeyIsAnsweredFor' /\ KeyOnlyInStore'
  <2> DEFINE r == held[h].request
  <2>1. r \in approved /\ r \in Requests /\ ~Live(r) /\ stage[h] = "record"
    BY <1>1, <1>9 DEF RecordRevoke, HoldsFit
  <2>2. /\ key' = key /\ approved' = approved /\ lost' = lost /\ vault' = vault
        /\ \A k \in Requests \ {r} : instance'[k] = instance[k]
        /\ instance'[r].observed = instance[r].observed
    <3>1. [instance[r] EXCEPT !.status = "revoked"].observed = instance[r].observed
      BY <1>1, <2>1 DEF Instances
    <3> QED
      BY <1>1, <1>9, <2>1, <3>1 DEF RecordRevoke
  <2>3. /\ stage'[h] = "idle"
        /\ \A k \in Handlers \ {h} : stage'[k] = stage[k] /\ held'[k] = held[k]
    BY <1>1, <1>9, Moves DEF RecordRevoke, Return
  <2>4. Begun' /\ HoldsFit' /\ KeyOnlyInStore'
    BY <1>1, <2>1, <2>2, <2>3 DEF Begun, HoldsFit, KeyOnlyInStore, Live
  <2>5. LiveKeyIsAnsweredFor'
    BY <1>1, <2>1, <2>2, <2>3 DEF LiveKeyIsAnsweredFor, Live
  <2> QED
    BY <2>4, <2>5
<1>10. ASSUME NEW h \in Handlers,
              \/ ImportStart(h) \/ ImportUsage(h) \/ ImportFind(h) \/ ImportWrite(h) \/ ImportEnd(h)
       PROVE  Begun' /\ HoldsFit' /\ LiveKeyIsAnsweredFor' /\ KeyOnlyInStore'
  <2>1. /\ UNCHANGED access /\ stage[h] \notin {"strip", "insert"}
        /\ \/ UNCHANGED <<stage, held>>
           \/ \E s \in ImportStages \cup {"idle"} : \E w : Goto(h, s, w)
    BY <1>1, <1>10, ImportFrame
  <2>2. CASE UNCHANGED <<stage, held>>
    BY <1>1, <2>1, <2>2 DEF access, Begun, HoldsFit, LiveKeyIsAnsweredFor, KeyOnlyInStore, Live
  <2>3. ASSUME NEW s \in ImportStages \cup {"idle"}, NEW w, Goto(h, s, w)
        PROVE  Begun' /\ HoldsFit' /\ LiveKeyIsAnsweredFor' /\ KeyOnlyInStore'
    <3>1. /\ stage'[h] \notin {"strip", "insert", "byalias", "bykey", "record"}
          /\ \A k \in Handlers \ {h} : stage'[k] = stage[k] /\ held'[k] = held[k]
      BY <1>1, <2>3, Moves DEF ImportStages
    <3> QED
      BY <1>1, <2>1, <3>1 DEF access, Begun, HoldsFit, LiveKeyIsAnsweredFor, KeyOnlyInStore, Live
  <2> QED
    BY <2>1, <2>2, <2>3
<1> QED
  BY <1>2, <1>3, <1>4, <1>5, <1>6, <1>7, <1>8, <1>9, <1>10 DEF Next, Step

\* The inductive invariant holds at the start.
LEMMA KeysInit == Init => KeysInv
<1> SUFFICES ASSUME Init PROVE KeysInv
  OBVIOUS
<1>1. TypeOK
  <2>1. key \in [Requests -> Keys]
    BY Constant DEF Init, Keys
  <2>2. instance \in [Requests -> Instances]
    BY Constant DEF Init, Instances
  <2>3. usage \in [RowIds -> Rows] /\ held \in [Handlers -> Holds] /\ import \in [Handlers -> Imports]
    BY Constant DEF Init
  <2> QED
    BY <2>1, <2>2, <2>3 DEF Init, TypeOK, Stages
<1>2. ASSUME NEW r \in Requests
      PROVE  /\ key[r].status = "none" /\ instance[r].status = "none"
             /\ ~instance[r].observed.raw /\ ~instance[r].observed.pointer
  BY DEF Init, NoObserved
<1>3. \A h \in Handlers : stage[h] = "idle"
  BY DEF Init
<1>4. Begun /\ KeyOnlyInStore /\ LiveKeyIsAnsweredFor
  BY <1>2 DEF Begun, LiveKeyIsAnsweredFor, KeyOnlyInStore, Live
<1>5. HoldsFit
  BY <1>3 DEF HoldsFit
<1> QED
  BY <1>1, <1>4, <1>5 DEF KeysInv

\* Whatever interleaves and fails, the claims about keys and rows hold.
THEOREM KeysInvariant == Spec => []KeysInv
<1>1. KeysInv /\ [Next]_vars => KeysInv'
  BY TypeStep, KeysStep DEF KeysInv
<1> QED
  BY <1>1, KeysInit, PTL DEF Spec

\* Types: keys, rows, handlers and imports stay in their domains.
THEOREM KeysTypeCorrect == Spec => []TypeOK
<1>1. KeysInv => TypeOK
  BY DEF KeysInv
<1> QED
  BY <1>1, KeysInvariant, PTL

\* No revoke leaves a live key behind (RevokeAccess and RevokeAIInstance).
THEOREM LiveKeyIsAnsweredForHolds == Spec => []LiveKeyIsAnsweredFor
<1>1. KeysInv => LiveKeyIsAnsweredFor
  BY DEF KeysInv
<1> QED
  BY <1>1, KeysInvariant, PTL

\* No raw key reaches the database, and no row points to a secret that is not
\* in the store (stripMintedSecret).
THEOREM KeyOnlyInStoreHolds == Spec => []KeyOnlyInStore
<1>1. KeysInv => KeyOnlyInStore
  BY DEF KeysInv
<1> QED
  BY <1>1, KeysInvariant, PTL

-----------------------------------------------------------------------------
(***************************************************************************)
(* Imports of spend.                                                       *)
(***************************************************************************)

\* A handler that looks for the row of a key, or writes it.
Looking(h) == stage[h] \in {"find", "update", "create"}

\* An import without an error runs alone.
CleanIsAlone ==
    \A h \in Handlers : import[h].clean =>
        Importing(h) /\ \A k \in Handlers \ {h} : ~Importing(k)

\* What an import took down at its beginning, what it has read since, and
\* every row it wrote are figures the proxy has reached.
FiguresReached ==
    /\ \A h \in Handlers, r \in Requests : import[h].start[r] <= key[r].spend
    /\ \A h \in Handlers : Looking(h) =>
           held[h].request \in Requests /\ held[h].spend <= key[held[h].request].spend
    /\ \A u \in RowIds : usage[u].request \in Requests =>
           usage[u].cost <= key[usage[u].request].spend

\* An import writes to a row of the key it has read, and a figure no older
\* than its beginning.
WritesFit ==
    \A h \in Handlers :
        /\ stage[h] = "update" => held[h].row \in RowsOf(held[h].request)
        /\ Looking(h) /\ import[h].clean => import[h].start[held[h].request] <= held[h].spend

\* What an import without an error has taken off its list is in its hands or
\* has a row that is no older than the import.
TakenHasRow ==
    \A h \in Handlers : import[h].clean =>
        \A r \in import[h].listed \ import[h].left :
            \/ Looking(h) /\ held[h].request = r
            \/ \E u \in RowsOf(r) : import[h].start[r] <= usage[u].cost

\* As long as no two imports overlapped and no lookup failed, a key has one
\* row at most, and who creates one found none.
OneRow ==
    ~raced =>
        /\ \A h, k \in Handlers : Importing(h) /\ Importing(k) => h = k
        /\ \A u, v \in RowIds :
               usage[u].request \in Requests /\ usage[u].request = usage[v].request => u = v
        /\ \A h \in Handlers : stage[h] = "create" => RowsOf(held[h].request) = {}

ImportsInv == CleanIsAlone /\ FiguresReached /\ WritesFit /\ TakenHasRow /\ OneRow

\* The figures compared are numbers.
LEMMA Figures ==
    ASSUME TypeOK
    PROVE  /\ \A r \in Requests : key[r].spend \in Nat
           /\ \A h \in Handlers : /\ held[h].spend \in Nat
                                  /\ \A r \in Requests : import[h].start[r] \in Nat
           /\ \A u \in RowIds : usage[u].cost \in Nat
<1>1. 0 .. MaxSpend \subseteq Nat
  BY Constant
<1>2. ASSUME NEW r \in Requests PROVE key[r].spend \in 0 .. MaxSpend
  BY DEF TypeOK, Keys
<1>3. ASSUME NEW h \in Handlers
      PROVE  /\ held[h].spend \in 0 .. MaxSpend
             /\ \A r \in Requests : import[h].start[r] \in 0 .. MaxSpend
  BY DEF TypeOK, Holds, Imports
<1>4. ASSUME NEW u \in RowIds PROVE usage[u].cost \in 0 .. MaxSpend
  BY DEF TypeOK, Rows
<1> QED
  BY <1>1, <1>2, <1>3, <1>4

\* What is left of an import that took a key off its list, or met an error.
LEMMA ImportFields ==
    ASSUME NEW i \in Imports, NEW r
    PROVE  /\ Took(r, i).listed = i.listed /\ Took(r, i).left = i.left \ {r}
           /\ Took(r, i).start = i.start /\ (Took(r, i).clean <=> i.clean)
           /\ Spoilt(i).start = i.start /\ ~Spoilt(i).clean
           /\ Spoilt(Took(r, i)).start = i.start /\ ~Spoilt(Took(r, i)).clean
<1>1. Took(r, i) = [i EXCEPT !.left = i.left \ {r}]
  BY DEF Took
<1>2. /\ Took(r, i).listed = i.listed /\ Took(r, i).left = i.left \ {r}
      /\ Took(r, i).start = i.start /\ Took(r, i).clean = i.clean
  BY <1>1 DEF Imports
<1>3. Took(r, i) \in Imports
  BY DEF Took, Imports
<1>4. \A j \in Imports : Spoilt(j).start = j.start /\ ~Spoilt(j).clean
  BY DEF Spoilt, Imports
<1> QED
  BY <1>2, <1>3, <1>4

\* No step takes back what a key has spent.
LEMMA SpendGrows ==
    ASSUME TypeOK, [Next]_vars, NEW r \in Requests
    PROVE  key'[r].spend \in Nat /\ key[r].spend <= key'[r].spend
<1>1. /\ key[r].spend \in Nat /\ key[r] \in Keys
      /\ key \in [Requests -> Keys]
  BY Figures DEF TypeOK
<1>2. ASSUME NEW q, NEW s, SetKey(q, s) PROVE key'[r].spend = key[r].spend
  BY <1>1, <1>2 DEF SetKey, Keys
<1>3. ASSUME NEW q \in Requests, Spend(q) PROVE key'[r].spend \in Nat /\ key[r].spend <= key'[r].spend
  <2>1. CASE q = r
    <3>1. key'[r].spend = key[r].spend + 1
      BY <1>1, <1>3, <2>1 DEF Spend, Keys
    <3> QED
      BY <1>1, <3>1
  <2>2. CASE q # r
    BY <1>1, <1>3, <2>2 DEF Spend
  <2> QED
    BY <2>1, <2>2
<1>4. \/ UNCHANGED key
      \/ \E q, s : SetKey(q, s)
      \/ \E q \in Requests : Spend(q)
  BY DEF Next, Step, vars, access, ProvisionAccess, stripMintedSecret, InsertInstance,
     RevokeAIInstance, DeleteByAlias, DeleteByKey, DeleteKey, RecordRevoke, ImportStart,
     ImportUsage, ImportFind, ImportWrite, ImportEnd
<1> QED
  BY <1>1, <1>2, <1>3, <1>4

\* The steps that are no step of an import.
OtherStep ==
    \/ UNCHANGED vars
    \/ \E r \in Requests : Spend(r)
    \/ \E h \in Handlers :
         \/ ProvisionAccess(h) \/ stripMintedSecret(h) \/ InsertInstance(h)
         \/ RevokeAIInstance(h) \/ DeleteByAlias(h) \/ DeleteByKey(h) \/ RecordRevoke(h)

\* They change nothing an import keeps, and move no handler into or out of one.
LEMMA OtherFrame ==
    ASSUME TypeOK, OtherStep
    PROVE  /\ UNCHANGED <<usage, raced, import>>
           /\ \A k \in Handlers :
                \/ stage'[k] = stage[k] /\ held'[k] = held[k]
                \/ stage[k] \notin ImportStages /\ stage'[k] \notin ImportStages
<1>1. ASSUME NEW h \in Handlers, stage[h] \notin ImportStages,
             NEW s \in Stages \ ImportStages, NEW w, Goto(h, s, w)
      PROVE  \A k \in Handlers :
                \/ stage'[k] = stage[k] /\ held'[k] = held[k]
                \/ stage[k] \notin ImportStages /\ stage'[k] \notin ImportStages
  BY <1>1, Moves
<1>2. {"idle", "strip", "insert", "byalias", "bykey", "record"} \subseteq Stages \ ImportStages
  BY DEF Stages, ImportStages
<1>3. CASE UNCHANGED vars \/ \E r \in Requests : Spend(r)
  BY <1>3 DEF vars, Spend
<1>4. ASSUME NEW h \in Handlers,
             \/ ProvisionAccess(h) \/ stripMintedSecret(h) \/ InsertInstance(h)
             \/ RevokeAIInstance(h) \/ DeleteByAlias(h) \/ DeleteByKey(h) \/ RecordRevoke(h)
      PROVE  /\ UNCHANGED <<usage, raced, import>>
             /\ stage[h] \in {"idle", "strip", "insert", "byalias", "bykey", "record"}
             /\ \E s \in {"idle", "strip", "insert", "byalias", "bykey", "record"} :
                    \E w : Goto(h, s, w)
  <2>1. CASE ProvisionAccess(h)
    BY <2>1 DEF ProvisionAccess, Return
  <2>2. CASE stripMintedSecret(h) \/ InsertInstance(h) \/ RecordRevoke(h)
    BY <2>2 DEF stripMintedSecret, InsertInstance, RecordRevoke, Return
  <2>3. CASE RevokeAIInstance(h)
    BY <2>3 DEF RevokeAIInstance
  <2>4. CASE DeleteByAlias(h) \/ DeleteByKey(h)
    BY <2>4 DEF DeleteByAlias, DeleteByKey, Refused, AfterAliasError, Return
  <2> QED
    BY <1>4, <2>1, <2>2, <2>3, <2>4
<1> QED
  BY <1>1, <1>2, <1>3, <1>4 DEF OtherStep

\* The steps of an import keep the proxy as it is.
LEMMA OtherOrImport ==
    ASSUME [Next]_vars
    PROVE  \/ OtherStep
           \/ \E h \in Handlers :
                ImportStart(h) \/ ImportUsage(h) \/ ImportFind(h) \/ ImportWrite(h) \/ ImportEnd(h)
BY DEF Next, Step, OtherStep

\* Approvals, revokes and spending leave the imports as they are: figures only
\* grow.
LEMMA OtherKeepsImports ==
    ASSUME TypeOK, ImportsInv, [Next]_vars, OtherStep
    PROVE  ImportsInv'
<1>1. /\ usage' = usage /\ raced' = raced /\ import' = import
      /\ \A k \in Handlers :
           \/ stage'[k] = stage[k] /\ held'[k] = held[k]
           \/ stage[k] \notin ImportStages /\ stage'[k] \notin ImportStages
  BY OtherFrame
<1>2. \A k \in Handlers :
        /\ Importing(k)' <=> Importing(k)
        /\ Looking(k)' <=> Looking(k)
        /\ Looking(k) => held'[k] = held[k] /\ stage'[k] = stage[k]
        /\ stage'[k] = "update" => stage[k] = "update"
        /\ stage'[k] = "create" => stage[k] = "create"
  BY <1>1 DEF Importing, Looking, ImportStages
<1>3. \A r : RowsOf(r)' = RowsOf(r)
  BY <1>1 DEF RowsOf
<1>4. CleanIsAlone'
  BY <1>1, <1>2 DEF CleanIsAlone, ImportsInv
<1>5. FiguresReached'
  <2>1. ASSUME NEW r \in Requests, NEW x \in Nat, x <= key[r].spend PROVE x <= key'[r].spend
    <3>1. key[r].spend <= key'[r].spend /\ key[r].spend \in Nat /\ key'[r].spend \in Nat
      BY SpendGrows, Figures
    <3> QED
      BY <2>1, <3>1
  <2> QED
    BY <1>1, <1>2, <2>1, Figures DEF FiguresReached, ImportsInv
<1>6. WritesFit'
  BY <1>1, <1>2, <1>3 DEF WritesFit, Looking, ImportsInv
<1>7. TakenHasRow'
  BY <1>1, <1>2, <1>3 DEF TakenHasRow, ImportsInv
<1>8. OneRow'
  BY <1>1, <1>2, <1>3 DEF OneRow, Looking, ImportsInv
<1> QED
  BY <1>4, <1>5, <1>6, <1>7, <1>8 DEF ImportsInv

\* An import that begins beside another spoils both.
LEMMA StartKeepsImports ==
    ASSUME TypeOK, ImportsInv, NEW h \in Handlers, ImportStart(h)
    PROVE  ImportsInv'
<1>1. /\ stage[h] = "idle" /\ stage'[h] = "import"
      /\ \A k \in Handlers \ {h} : stage'[k] = stage[k] /\ held'[k] = held[k]
      /\ key' = key /\ usage' = usage
      /\ raced' = (raced \/ \E k \in Handlers : Importing(k))
  BY Moves DEF ImportStart, access
<1>2. /\ import'[h] = NewImport
      /\ \A k \in Handlers \ {h} :
           import'[k] = IF Importing(k) THEN Spoilt(import[k]) ELSE import[k]
  BY DEF ImportStart, TypeOK
<1>3. /\ \A k \in Handlers \ {h} : ~import'[k].clean /\ import'[k].start = import[k].start
      /\ import'[h].clean = \A k \in Handlers : ~Importing(k)
      /\ import'[h].left = import'[h].listed
      /\ \A r \in Requests : import'[h].start[r] = key[r].spend
  <2>1. ASSUME NEW k \in Handlers \ {h}
        PROVE  ~import'[k].clean /\ import'[k].start = import[k].start
    <3>1. import[k] \in Imports /\ (import[k].clean => Importing(k))
      BY DEF TypeOK, ImportsInv, CleanIsAlone
    <3>2. Spoilt(import[k]).start = import[k].start /\ ~Spoilt(import[k]).clean
      BY <3>1, ImportFields
    <3> QED
      BY <1>2, <3>1, <3>2
  <2> QED
    BY <1>2, <2>1 DEF NewImport
<1>4. \A k \in Handlers :
        /\ Importing(k)' <=> k = h \/ Importing(k)
        /\ Looking(k)' <=> Looking(k)
        /\ Looking(k) => held'[k] = held[k] /\ stage'[k] = stage[k]
        /\ stage'[k] = "update" => stage[k] = "update" /\ held'[k] = held[k]
        /\ stage'[k] = "create" => stage[k] = "create" /\ held'[k] = held[k]
  BY <1>1 DEF Importing, Looking
<1>5. \A r : RowsOf(r)' = RowsOf(r)
  BY <1>1 DEF RowsOf
<1>6. CleanIsAlone'
  BY <1>3, <1>4 DEF CleanIsAlone
<1>7. FiguresReached'
  BY <1>1, <1>3, <1>4, Figures DEF FiguresReached, ImportsInv
<1>8. WritesFit'
  <2>1. ~Looking(h)'
    BY <1>1 DEF Looking
  <2> QED
    BY <1>3, <1>4, <1>5, <2>1 DEF WritesFit, ImportsInv
<1>9. TakenHasRow'
  BY <1>3 DEF TakenHasRow
<1>10. OneRow'
  BY <1>1, <1>4, <1>5 DEF OneRow, ImportsInv
<1> QED
  BY <1>6, <1>7, <1>8, <1>9, <1>10 DEF ImportsInv

\* A figure is read from the proxy; a key without an answer spoils the import.
LEMMA UsageKeepsImports ==
    ASSUME TypeOK, ImportsInv, NEW h \in Handlers, ImportUsage(h)
    PROVE  ImportsInv'
<1>1. PICK r \in import[h].left :
        \/ /\ Live(r) /\ Goto(h, "find", [NoHold EXCEPT !.request = r, !.spend = key[r].spend])
           /\ import' = [import EXCEPT ![h] = Took(r, import[h])]
        \/ /\ import' = [import EXCEPT ![h] = Spoilt(Took(r, import[h]))]
           /\ UNCHANGED <<stage, held>>
  BY DEF ImportUsage, GetUsage, TypeOK
<1>2. /\ stage[h] = "import" /\ key' = key /\ usage' = usage /\ raced' = raced
      /\ import[h] \in Imports /\ r \in Requests
  BY DEF ImportUsage, access, TypeOK, Imports
<1>3. /\ \A k \in Handlers \ {h} : import'[k] = import[k]
      /\ import'[h].start = import[h].start
      /\ import'[h].clean => /\ import[h].clean /\ import'[h].listed = import[h].listed
                             /\ import'[h].left = import[h].left \ {r}
                             /\ stage'[h] = "find" /\ held'[h].request = r
      /\ \A k \in Handlers \ {h} : stage'[k] = stage[k] /\ held'[k] = held[k]
      /\ \/ stage'[h] = "find" /\ held'[h].request = r /\ held'[h].spend = key[r].spend
         \/ stage'[h] = "import"
  <2> DEFINE w == [NoHold EXCEPT !.request = r, !.spend = key[r].spend]
  <2>1. w.request = r /\ w.spend = key[r].spend
    BY DEF NoHold
  <2>2. CASE Goto(h, "find", w) /\ import' = [import EXCEPT ![h] = Took(r, import[h])]
    <3> HIDE DEF w
    <3>1. import'[h] = Took(r, import[h]) /\ \A k \in Handlers \ {h} : import'[k] = import[k]
      BY <2>2 DEF TypeOK
    <3>2. stage'[h] = "find" /\ held'[h] = w
          /\ \A k \in Handlers \ {h} : stage'[k] = stage[k] /\ held'[k] = held[k]
      BY <2>2, Moves
    <3>3. /\ import'[h].listed = import[h].listed /\ import'[h].left = import[h].left \ {r}
          /\ import'[h].start = import[h].start /\ (import'[h].clean <=> import[h].clean)
      BY <1>2, <3>1, ImportFields
    <3> QED
      BY <2>1, <3>1, <3>2, <3>3
  <2>3. CASE import' = [import EXCEPT ![h] = Spoilt(Took(r, import[h]))]
             /\ UNCHANGED <<stage, held>>
    <3>1. /\ import'[h] = Spoilt(Took(r, import[h]))
          /\ \A k \in Handlers \ {h} : import'[k] = import[k]
      BY <2>3 DEF TypeOK
    <3>2. import'[h].start = import[h].start /\ ~import'[h].clean
      BY <1>2, <3>1, ImportFields
    <3> QED
      BY <1>2, <2>3, <3>1, <3>2
  <2> QED
    BY <1>1, <2>2, <2>3
<1>4. \A k \in Handlers : Importing(k)' <=> Importing(k)
  BY <1>2, <1>3 DEF Importing
<1>5. \A q : RowsOf(q)' = RowsOf(q)
  BY <1>2 DEF RowsOf
<1>6. CleanIsAlone'
  BY <1>3, <1>4 DEF CleanIsAlone, ImportsInv
<1>7. FiguresReached'
  BY <1>2, <1>3, Figures DEF FiguresReached, Looking, ImportsInv
<1>8. WritesFit'
  BY <1>2, <1>3, <1>5 DEF WritesFit, FiguresReached, Looking, ImportsInv
<1>9. TakenHasRow'
  <2>1. ~Looking(h)
    BY <1>2 DEF Looking
  <2> QED
    BY <1>2, <1>3, <1>5, <2>1 DEF TakenHasRow, Looking, ImportsInv
<1>10. OneRow'
  BY <1>2, <1>3, <1>4, <1>5 DEF OneRow, ImportsInv
<1> QED
  BY <1>6, <1>7, <1>8, <1>9, <1>10 DEF ImportsInv

\* The row of the key is found, or none is.
LEMMA FindKeepsImports ==
    ASSUME TypeOK, ImportsInv, NEW h \in Handlers, ImportFind(h)
    PROVE  ImportsInv'
<1>1. /\ stage[h] = "find" /\ key' = key /\ usage' = usage /\ import' = import
      /\ raced => raced'
  BY DEF ImportFind, access
<1>2. /\ \A k \in Handlers \ {h} : stage'[k] = stage[k] /\ held'[k] = held[k]
      /\ held'[h].request = held[h].request /\ held'[h].spend = held[h].spend
      /\ \/ stage'[h] = "update" /\ held'[h].row \in RowsOf(held[h].request)
         \/ stage'[h] = "create" /\ (RowsOf(held[h].request) = {} \/ raced')
  <2>1. held[h] \in Holds
    BY DEF TypeOK
  <2>2. ASSUME NEW u \in RowsOf(held[h].request), Goto(h, "update", [held[h] EXCEPT !.row = u])
        PROVE  /\ \A k \in Handlers \ {h} : stage'[k] = stage[k] /\ held'[k] = held[k]
               /\ held'[h].request = held[h].request /\ held'[h].spend = held[h].spend
               /\ stage'[h] = "update" /\ held'[h].row = u
    <3> DEFINE w == [held[h] EXCEPT !.row = u]
    <3>1. w.request = held[h].request /\ w.spend = held[h].spend /\ w.row = u
      BY <2>1 DEF Holds
    <3>2. Goto(h, "update", w)
      BY <2>2
    <3> HIDE DEF w
    <3> QED
      BY <3>1, <3>2, Moves
  <2>3. ASSUME Goto(h, "create", held[h])
        PROVE  /\ \A k \in Handlers \ {h} : stage'[k] = stage[k] /\ held'[k] = held[k]
               /\ held'[h] = held[h] /\ stage'[h] = "create"
    BY <2>3, Moves
  <2> QED
    BY <2>2, <2>3 DEF ImportFind, FindAIKeySpendRecord
<1>3. \A k \in Handlers : /\ Importing(k)' <=> Importing(k)
                          /\ Looking(k)' <=> Looking(k)
                          /\ held'[k].request = held[k].request /\ held'[k].spend = held[k].spend
  BY <1>1, <1>2 DEF Importing, Looking
<1>4. \A q : RowsOf(q)' = RowsOf(q)
  BY <1>1 DEF RowsOf
<1>5. CleanIsAlone'
  BY <1>1, <1>3 DEF CleanIsAlone, ImportsInv
<1>6. FiguresReached'
  BY <1>1, <1>3 DEF FiguresReached, ImportsInv
<1>7. WritesFit'
  BY <1>1, <1>2, <1>3, <1>4 DEF WritesFit, ImportsInv
<1>8. TakenHasRow'
  BY <1>1, <1>3, <1>4 DEF TakenHasRow, ImportsInv
<1>9. OneRow'
  BY <1>1, <1>2, <1>3, <1>4 DEF OneRow, ImportsInv
<1> QED
  BY <1>5, <1>6, <1>7, <1>8, <1>9 DEF ImportsInv

\* What a write does to the rows of the keys: one row of one key gets a figure.
LEMMA WriteRows ==
    ASSUME TypeOK, ImportsInv, NEW h \in Handlers, stage[h] \in {"update", "create"},
           IF stage[h] = "update"
           THEN UpdateAIUsageRecordCost(held[h].row, held[h].spend)
           ELSE CreateAIUsageRecord(held[h].request, held[h].spend)
    PROVE  \E u \in RowIds :
             /\ usage'[u].request = held[h].request /\ usage'[u].cost = held[h].spend
             /\ \A v \in RowIds \ {u} : usage'[v] = usage[v]
             /\ IF stage[h] = "update" THEN usage[u].request = held[h].request
                ELSE usage[u].request = "none"
<1>1. CASE stage[h] = "update"
  <2>1. held[h].row \in RowIds /\ usage[held[h].row].request = held[h].request
    BY <1>1 DEF ImportsInv, WritesFit, RowsOf
  <2>2. usage' = [usage EXCEPT ![held[h].row].cost = held[h].spend]
    BY <1>1 DEF UpdateAIUsageRecordCost
  <2>3. usage[held[h].row] \in Rows
    BY <2>1 DEF TypeOK
  <2>4. /\ usage'[held[h].row].request = usage[held[h].row].request
        /\ usage'[held[h].row].cost = held[h].spend
        /\ \A v \in RowIds \ {held[h].row} : usage'[v] = usage[v]
    BY <2>1, <2>2, <2>3 DEF TypeOK, Rows
  <2> QED
    BY <1>1, <2>1, <2>4
<1>2. CASE stage[h] = "create"
  <2>1. /\ \E u \in RowIds : usage[u] = NoRow
        /\ usage' = [usage EXCEPT ![FreeRow] =
                        [request |-> held[h].request, cost |-> held[h].spend]]
    BY <1>2 DEF CreateAIUsageRecord
  <2>2. FreeRow \in RowIds /\ usage[FreeRow] = NoRow
    BY <2>1 DEF FreeRow
  <2>3. usage[FreeRow].request = "none"
    BY <2>2 DEF NoRow
  <2>4. /\ usage'[FreeRow] = [request |-> held[h].request, cost |-> held[h].spend]
        /\ \A v \in RowIds \ {FreeRow} : usage'[v] = usage[v]
    BY <2>1, <2>2 DEF TypeOK
  <2> QED
    BY <1>2, <2>2, <2>3, <2>4
<1> QED
  BY <1>1, <1>2

\* A write that fails spoils the import.
LEMMA WriteKeepsImports ==
    ASSUME TypeOK, ImportsInv, NEW h \in Handlers, ImportWrite(h)
    PROVE  ImportsInv'
<1>1. /\ stage[h] \in {"update", "create"} /\ stage'[h] = "import"
      /\ \A k \in Handlers \ {h} : stage'[k] = stage[k] /\ held'[k] = held[k]
      /\ key' = key /\ raced' = raced /\ Looking(h)
  BY Moves DEF ImportWrite, access, Looking
<1>2. \A k \in Handlers : /\ Importing(k)' <=> Importing(k)
                          /\ Looking(k)' <=> Looking(k) /\ k # h
                          /\ Looking(k)' => held'[k] = held[k] /\ stage'[k] = stage[k]
                          /\ stage'[k] = "update" => k # h /\ stage[k] = "update"
                          /\ stage'[k] = "create" => k # h /\ stage[k] = "create"
  BY <1>1 DEF Importing, Looking
<1>3. CASE import' = [import EXCEPT ![h] = Spoilt(import[h])] /\ usage' = usage
  <2>1. /\ \A k \in Handlers \ {h} : import'[k] = import[k]
        /\ import'[h].start = import[h].start /\ ~import'[h].clean
    <3>1. import'[h] = Spoilt(import[h]) /\ \A k \in Handlers \ {h} : import'[k] = import[k]
      BY <1>3 DEF TypeOK
    <3>2. import[h] \in Imports
      BY DEF TypeOK
    <3>3. Spoilt(import[h]).start = import[h].start /\ ~Spoilt(import[h]).clean
      BY <3>2, ImportFields
    <3> QED
      BY <3>1, <3>3
  <2>2. \A q : RowsOf(q)' = RowsOf(q)
    BY <1>3 DEF RowsOf
  <2>3. CleanIsAlone'
    BY <1>2, <2>1 DEF CleanIsAlone, ImportsInv
  <2>4. FiguresReached'
    BY <1>1, <1>2, <1>3, <2>1 DEF FiguresReached, ImportsInv
  <2>5. WritesFit'
    BY <1>1, <1>2, <2>1, <2>2 DEF WritesFit, ImportsInv
  <2>6. TakenHasRow'
    BY <1>1, <1>2, <1>3, <2>1, <2>2 DEF TakenHasRow, ImportsInv
  <2>7. OneRow'
    BY <1>1, <1>2, <1>3, <2>2 DEF OneRow, ImportsInv
  <2> QED
    BY <2>3, <2>4, <2>5, <2>6, <2>7 DEF ImportsInv
<1>4. CASE /\ import' = import
           /\ IF stage[h] = "update"
              THEN UpdateAIUsageRecordCost(held[h].row, held[h].spend)
              ELSE CreateAIUsageRecord(held[h].request, held[h].spend)
  <2>0. PICK r \in Requests : r = held[h].request
    BY <1>1 DEF ImportsInv, FiguresReached
  <2>1. PICK u \in RowIds :
          /\ usage'[u].request = r /\ usage'[u].cost = held[h].spend
          /\ \A v \in RowIds \ {u} : usage'[v] = usage[v]
          /\ IF stage[h] = "update" THEN usage[u].request = r ELSE usage[u].request = "none"
    BY <1>1, <1>4, <2>0, WriteRows
  <2>2. /\ r \in Requests /\ held[h].spend <= key[r].spend
        /\ import[h].clean => import[h].start[r] <= held[h].spend
        /\ r # "none"
    BY <1>1, <2>0, Constant DEF ImportsInv, FiguresReached, WritesFit
  <2>3. /\ RowsOf(r)' = RowsOf(r) \cup {u}
        /\ \A q \in Requests \ {r} : RowsOf(q)' = RowsOf(q) /\ u \notin RowsOf(q)
    <3>1. usage[u].request \in {r, "none"}
      BY <2>1
    <3>2. \A q \in Requests \ {r} : usage[u].request # q /\ usage'[u].request # q
      BY <2>1, <3>1, Constant
    <3>3. \A v \in RowIds : v # u => usage'[v].request = usage[v].request
      BY <2>1
    <3> QED
      BY <2>1, <3>2, <3>3 DEF RowsOf
  <2>4. CleanIsAlone'
    BY <1>2, <1>4 DEF CleanIsAlone, ImportsInv
  <2>5. FiguresReached'
    BY <1>1, <1>2, <1>4, <2>1, <2>2 DEF FiguresReached, ImportsInv
  <2>6. WritesFit'
    <3>1. \A q \in Requests : RowsOf(q) \subseteq RowsOf(q)'
      BY <2>3
    <3> SUFFICES ASSUME NEW k \in Handlers \ {h}
                 PROVE  (/\ stage[k] = "update" => held[k].row \in RowsOf(held[k].request)
                         /\ Looking(k) /\ import[k].clean =>
                               import[k].start[held[k].request] <= held[k].spend)'
      BY <1>2 DEF WritesFit
    <3>2. /\ stage'[k] = stage[k] /\ held'[k] = held[k] /\ import'[k] = import[k]
          /\ Looking(k)' <=> Looking(k)
      BY <1>1, <1>2, <1>4
    <3>3. stage[k] = "update" => held[k].request \in Requests
      BY DEF ImportsInv, FiguresReached, Looking
    <3>4. ASSUME NEW q \in Requests, held[k].row \in RowsOf(q), held'[k].request = q,
                 held'[k].row = held[k].row
          PROVE  (held[k].row \in RowsOf(held[k].request))'
      BY <3>1, <3>4 DEF RowsOf
    <3> QED
      BY <3>2, <3>3, <3>4 DEF WritesFit, ImportsInv
  <2>7. TakenHasRow'
    <3> SUFFICES ASSUME NEW k \in Handlers, import[k].clean,
                        NEW q \in import[k].listed \ import[k].left
                 PROVE  \E v \in RowsOf(q)' : import[k].start[q] <= usage'[v].cost
      BY <1>4 DEF TakenHasRow
    <3>1. k = h
      BY <1>1, <1>2 DEF ImportsInv, CleanIsAlone, Importing
    <3>2. CASE q = r
      <4>1. u \in RowsOf(q)' /\ import[k].start[q] <= usage'[u].cost
        BY <2>1, <2>2, <2>3, <3>1, <3>2
      <4> QED
        BY <4>1
    <3>3. CASE q # r
      <4>1. q \in Requests
        BY DEF TypeOK, Imports
      <4>2. PICK v \in RowsOf(q) : import[k].start[q] <= usage[v].cost
        BY <2>0, <3>1, <3>3 DEF ImportsInv, TakenHasRow
      <4>3. v \in RowsOf(q)' /\ v # u /\ v \in RowIds
        BY <2>3, <3>3, <4>1 DEF RowsOf
      <4> QED
        BY <2>1, <4>2, <4>3
    <3> QED
      BY <3>2, <3>3
  <2>8. OneRow'
    <3> SUFFICES ASSUME ~raced PROVE OneRow'
      BY <1>1 DEF OneRow
    <3>1. /\ \A j, k \in Handlers : Importing(j) /\ Importing(k) => j = k
          /\ \A v, x \in RowIds :
               usage[v].request \in Requests /\ usage[v].request = usage[x].request => v = x
          /\ stage[h] = "create" => RowsOf(r) = {}
      BY <2>0 DEF ImportsInv, OneRow
    <3>2. \A k \in Handlers : stage'[k] # "create"
      BY <1>1, <1>2, <3>1 DEF Importing
    <3>3. \A v \in RowIds \ {u} : usage[v].request # r
      BY <1>1, <2>1, <2>2, <3>1 DEF RowsOf
    <3>4. \A v, x \in RowIds :
            usage'[v].request \in Requests /\ usage'[v].request = usage'[x].request => v = x
      BY <2>1, <3>1, <3>3
    <3> QED
      BY <1>2, <3>1, <3>2, <3>4 DEF OneRow
  <2> QED
    BY <2>4, <2>5, <2>6, <2>7, <2>8 DEF ImportsInv
<1> QED
  BY <1>3, <1>4 DEF ImportWrite

\* An import ends.
LEMMA EndKeepsImports ==
    ASSUME TypeOK, ImportsInv, NEW h \in Handlers, ImportEnd(h)
    PROVE  ImportsInv'
<1>1. /\ stage[h] = "import" /\ stage'[h] = "idle"
      /\ \A k \in Handlers \ {h} : stage'[k] = stage[k] /\ held'[k] = held[k]
      /\ key' = key /\ usage' = usage /\ raced' = raced
      /\ import'[h] = NoImport /\ \A k \in Handlers \ {h} : import'[k] = import[k]
  <2>1. /\ stage'[h] = "idle"
        /\ \A k \in Handlers \ {h} : stage'[k] = stage[k] /\ held'[k] = held[k]
    BY Moves DEF ImportEnd, Return
  <2> QED
    BY <2>1 DEF ImportEnd, access, TypeOK
<1>2. ~NoImport.clean /\ \A r \in Requests : NoImport.start[r] = 0
  BY DEF NoImport
<1>3. \A k \in Handlers : /\ Importing(k)' <=> Importing(k) /\ k # h
                          /\ Looking(k)' <=> Looking(k) /\ k # h
                          /\ stage'[k] = "update" => k # h /\ stage[k] = "update"
                          /\ stage'[k] = "create" => k # h /\ stage[k] = "create"
  BY <1>1 DEF Importing, Looking
<1>4. \A q : RowsOf(q)' = RowsOf(q)
  BY <1>1 DEF RowsOf
<1>5. CleanIsAlone'
  BY <1>1, <1>2, <1>3 DEF CleanIsAlone, ImportsInv
<1>6. FiguresReached'
  <2>1. \A r \in Requests : 0 <= key[r].spend
    BY Figures
  <2> QED
    BY <1>1, <1>2, <1>3, <2>1 DEF FiguresReached, ImportsInv
<1>7. WritesFit'
  BY <1>1, <1>3, <1>4 DEF WritesFit, ImportsInv
<1>8. TakenHasRow'
  BY <1>1, <1>2, <1>3, <1>4 DEF TakenHasRow, ImportsInv
<1>9. OneRow'
  BY <1>1, <1>3, <1>4 DEF OneRow, ImportsInv
<1> QED
  BY <1>5, <1>6, <1>7, <1>8, <1>9 DEF ImportsInv

\* Whatever interleaves and fails, the claims about imports hold.
LEMMA ImportsStep == KeysInv /\ ImportsInv /\ [Next]_vars => ImportsInv'
<1> SUFFICES ASSUME TypeOK, ImportsInv, [Next]_vars, OtherStep PROVE ImportsInv'
  BY OtherOrImport, StartKeepsImports, UsageKeepsImports, FindKeepsImports, WriteKeepsImports,
     EndKeepsImports DEF KeysInv
<1> QED
  BY OtherKeepsImports

\* No import has begun at the start.
LEMMA ImportsInit == Init => ImportsInv
<1> SUFFICES ASSUME Init PROVE ImportsInv
  OBVIOUS
<1>1. /\ \A h \in Handlers : /\ stage[h] = "idle" /\ ~import[h].clean
                             /\ \A r \in Requests : import[h].start[r] = 0
      /\ \A r \in Requests : key[r].spend = 0
      /\ \A u \in RowIds : usage[u].request = "none"
  BY DEF Init, NoImport, NoRow
<1>2. \A h \in Handlers : ~Importing(h) /\ ~Looking(h)
  BY <1>1 DEF Importing, Looking
<1>3. CleanIsAlone /\ TakenHasRow
  BY <1>1 DEF CleanIsAlone, TakenHasRow
<1>4. FiguresReached
  BY <1>1, <1>2, Constant DEF FiguresReached
<1>5. WritesFit /\ OneRow
  BY <1>1, <1>2, Constant DEF WritesFit, OneRow
<1> QED
  BY <1>3, <1>4, <1>5 DEF ImportsInv

\* Only the end of an import makes the handler of one idle.
LEMMA OnlyEndEnds ==
    ASSUME TypeOK, [Next]_vars, NEW h \in Handlers, stage[h] = "import", stage'[h] = "idle"
    PROVE  import[h].left = {}
<1>1. CASE OtherStep
  BY <1>1, OtherFrame DEF ImportStages
<1>2. ASSUME NEW k \in Handlers, ImportStart(k) \/ ImportFind(k) \/ ImportWrite(k) PROVE FALSE
  BY <1>2 DEF ImportStart, ImportFind, ImportWrite, Goto, TypeOK
<1>3. ASSUME NEW k \in Handlers, ImportUsage(k) PROVE FALSE
  BY <1>3 DEF ImportUsage, Goto, TypeOK
<1>4. ASSUME NEW k \in Handlers, ImportEnd(k) PROVE import[h].left = {}
  BY <1>4 DEF ImportEnd, Return, Goto, TypeOK
<1> QED
  BY <1>1, <1>2, <1>3, <1>4, OtherOrImport

\* An import that met no error and ran alone leaves for every key a row that
\* is no older than its beginning and not ahead of the proxy, and one only as
\* long as no imports overlapped (ImportLiteLLMSpend).
THEOREM ImportFollowsSpendHolds == Spec => ImportFollowsSpend
<1> DEFINE Followed(h, r) ==
             /\ \E u \in RowsOf(r) :
                  import[h].start[r] <= usage[u].cost /\ usage[u].cost <= key[r].spend
             /\ ~raced => Cardinality(RowsOf(r)) = 1
<1>1. ASSUME TypeOK, ImportsInv, [Next]_vars, NEW h \in Handlers,
             stage[h] = "import", stage'[h] = "idle", import[h].clean,
             NEW r \in import[h].listed
      PROVE  Followed(h, r)
  <2>1. r \in Requests /\ import[h].left = {} /\ ~Looking(h)
    BY <1>1, OnlyEndEnds DEF TypeOK, Imports, Looking
  <2>2. PICK u \in RowsOf(r) : import[h].start[r] <= usage[u].cost
    BY <1>1, <2>1 DEF ImportsInv, TakenHasRow
  <2>3. u \in RowIds /\ usage[u].request = r
    BY <2>2 DEF RowsOf
  <2>4. usage[u].cost <= key[r].spend
    BY <1>1, <2>1, <2>3 DEF ImportsInv, FiguresReached
  <2>5. ASSUME ~raced PROVE Cardinality(RowsOf(r)) = 1
    <3>1. \A v \in RowsOf(r) : v = u
      BY <1>1, <2>1, <2>3, <2>5 DEF ImportsInv, OneRow, RowsOf
    <3>2. RowsOf(r) = {u}
      BY <2>2, <3>1
    <3> QED
      BY <3>2, FS_Singleton
  <2> QED
    BY <2>2, <2>4, <2>5
<1>2. KeysInv /\ ImportsInv /\ [Next]_vars =>
        \A h \in Handlers :
          stage[h] = "import" /\ stage'[h] = "idle" /\ import[h].clean =>
            \A r \in import[h].listed : Followed(h, r)
  BY <1>1 DEF KeysInv
<1>3. KeysInv /\ ImportsInv /\ [Next]_vars => ImportsInv'
  BY ImportsStep
<1> QED
  BY <1>2, <1>3, KeysInvariant, ImportsInit, PTL DEF Spec, ImportFollowsSpend

=============================================================================
