--------------------------- MODULE CatalogProofs ---------------------------
(***************************************************************************)
(* Proofs about Catalog, for any number of handlers, callers, providers,   *)
(* services, models and requests.                                          *)
(***************************************************************************)
EXTENDS Catalog, TLAPS

(***************************************************************************)
(* What the rows and the handlers keep to.                                 *)
(***************************************************************************)

\* Ids are given out once: every provider has one of its own.
IdsInv ==
    /\ \A n \in Names : /\ provider[n].id <= registered
                        /\ provider[n].id = 0 => provider[n] = NoProvider
    /\ \A n, m \in Names : provider[n].id = provider[m].id /\ provider[n].id # 0 => n = m

HoldsId == {"insertRef", "rotate", "list", "sync", "synced", "syncModels",
            "update", "purge", "drop"}

\* What a handler holds fits what it is about to do with it.
Fits(h) ==
    /\ stage[h] \in HoldsId => work[h].id \in 1 .. registered
    /\ stage[h] \in {"insertRef", "rotate"} => work[h].ref # Same
    /\ stage[h] \in {"insertRef", "list", "sync"} => work[h].todo \subseteq Slugs
    /\ stage[h] = "syncModels" => work[h].todo \subseteq Models
    /\ stage[h] \in {"file", "grant", "insert"} => work[h].request \in Requests
    /\ stage[h] \in {"grant", "insert"} => work[h].service \in Services

WorkInv == \A h \in Handlers : Fits(h)

RowsInv == TypeOK /\ IdsInv /\ WorkInv /\ CatalogHasProvider

\* A spec that names a provider pins a service, and only the provider that is
\* named can have the id that is pinned.
Pinned(spec) ==
    /\ spec.provider # "" => spec.id # NoService
    /\ spec.id # NoService =>
           /\ spec.id[1] <= registered
           /\ \A n \in Names : provider[n].id = spec.id[1] => spec.provider = n

\* s is a service that the request r asks for.
AskedFor(s, r) ==
    /\ request[r] # NoSpec
    /\ request[r].id # NoService => s = request[r].id

PinOK(g) ==
    /\ stage[g] = "file" => Pinned(work[g].spec)
    /\ stage[g] \in {"grant", "insert"} => AskedFor(work[g].service, work[g].request)

PinInv ==
    /\ \A r \in Requests : /\ Pinned(request[r])
                           /\ instance[r] # NoService => AskedFor(instance[r], r)
    /\ \A g \in Handlers : PinOK(g)

\* What a handler found by name and is about to write or remove by id, it may.
TouchOK(g) ==
    \A n \in Names :
        stage[g] \in {"update", "purge", "drop"} /\ provider[n].id = work[g].id
            => Touches(g, provider[n])


-----------------------------------------------------------------------------
(***************************************************************************)
(* Control.                                                                *)
(***************************************************************************)

\* Ids are numbers.
LEMMA Bounds == MaxProviders \in Nat
BY CatalogAssumption

\* The idle handler holds nothing.
LEMMA NoWorkTyped == NoWork \in Works
<1>1. NoSpec \in Specs
  BY DEF NoSpec, Specs
<1> QED
  BY <1>1, Bounds DEF NoWork, Works

\* A jump moves the handler that makes it, and nobody else.
LEMMA GotoMoves ==
    ASSUME TypeOK, NEW h \in Handlers, NEW s \in Stages, NEW w \in Works, Goto(h, s, w)
    PROVE  /\ stage' \in [Handlers -> Stages] /\ work' \in [Handlers -> Works]
           /\ stage'[h] = s /\ work'[h] = w
           /\ \A g \in Handlers \ {h} : stage'[g] = stage[g] /\ work'[g] = work[g]
BY DEF TypeOK, Goto

\* Whoever is idle fits.
LEMMA ReturnMoves ==
    ASSUME TypeOK, NEW h \in Handlers, Return(h)
    PROVE  /\ stage' \in [Handlers -> Stages] /\ work' \in [Handlers -> Works]
           /\ stage'[h] = "idle"
           /\ \A g \in Handlers \ {h} : stage'[g] = stage[g] /\ work'[g] = work[g]
           /\ Fits(h)'
<1>1. /\ stage' \in [Handlers -> Stages] /\ work' \in [Handlers -> Works]
      /\ stage'[h] = "idle" /\ work'[h] = NoWork
      /\ \A g \in Handlers \ {h} : stage'[g] = stage[g] /\ work'[g] = work[g]
  BY NoWorkTyped, GotoMoves DEF Return, Stages
<1>2. Fits(h)'
  BY <1>1 DEF Fits, HoldsId
<1> QED
  BY <1>1, <1>2

\* So is the next statement of whoever goes on with what it holds.
LEMMA ProceedMoves ==
    ASSUME TypeOK, NEW h \in Handlers, NEW s \in Stages, Proceed(h, s)
    PROVE  /\ stage' \in [Handlers -> Stages] /\ work' \in [Handlers -> Works]
           /\ stage'[h] = s /\ work'[h] = work[h]
           /\ \A g \in Handlers \ {h} : stage'[g] = stage[g] /\ work'[g] = work[g]
<1>1. work[h] \in Works
  BY DEF TypeOK
<1> QED
  BY <1>1, GotoMoves DEF Proceed

\* How a step moves the handlers: only the one that makes it.
Moved(h) ==
    /\ stage' \in [Handlers -> Stages] /\ work' \in [Handlers -> Works]
    /\ \A g \in Handlers \ {h} : stage'[g] = stage[g] /\ work'[g] = work[g]
    /\ Fits(h)'

\* The row that a name is looked up in.
LEMMA FoundById ==
    ASSUME TypeOK, IdsInv, NEW n \in Names, provider[n] # NoProvider
    PROVE  /\ provider[n] \in Providers /\ provider[n].id \in 1 .. registered
           /\ registered \in Nat /\ registered <= MaxProviders
<1>1. provider[n] \in Providers /\ provider[n].id \in 0 .. MaxProviders
  <2>1. provider[n] \in Providers
    BY DEF TypeOK
  <2> QED
    BY <2>1 DEF Providers
<1>2. registered \in Nat /\ registered <= MaxProviders
  BY Bounds DEF TypeOK
<1>3. provider[n].id <= registered /\ provider[n].id # 0
  BY DEF IdsInv
<1> QED
  BY <1>1, <1>2, <1>3, Bounds


\* Whoever jumps and fits where it comes to, has moved.
LEMMA JumpMoves ==
    ASSUME TypeOK, NEW h \in Handlers, NEW s \in Stages, NEW w \in Works, Goto(h, s, w),
           s \in HoldsId => w.id \in 1 .. registered',
           s \in {"insertRef", "rotate"} => w.ref # Same,
           s \in {"insertRef", "list", "sync"} => w.todo \subseteq Slugs,
           s = "syncModels" => w.todo \subseteq Models,
           s \in {"file", "grant", "insert"} => w.request \in Requests,
           s \in {"grant", "insert"} => w.service \in Services
    PROVE  Moved(h)
<1>1. /\ stage' \in [Handlers -> Stages] /\ work' \in [Handlers -> Works]
      /\ stage'[h] = s /\ work'[h] = w
      /\ \A g \in Handlers \ {h} : stage'[g] = stage[g] /\ work'[g] = work[g]
  BY GotoMoves
<1>2. Fits(h)'
  BY <1>1 DEF Fits
<1> QED
  BY <1>1, <1>2 DEF Moved

\* Whoever goes on holds what it held.
LEMMA GoesOn ==
    ASSUME TypeOK, WorkInv, NEW h \in Handlers, NEW s \in Stages, Proceed(h, s),
           registered' = registered, stage[h] \in HoldsId, s \in HoldsId,
           s \in {"insertRef", "rotate"} => work[h].ref # Same,
           s \in {"insertRef", "list", "sync"} => work[h].todo \subseteq Slugs,
           s # "syncModels"
    PROVE  Moved(h)
<1>1. work[h] \in Works /\ work[h].id \in 1 .. registered
  BY DEF TypeOK, WorkInv, Fits
<1>2. s \notin {"file", "grant", "insert"}
  BY DEF HoldsId
<1>3. Goto(h, s, work[h])
  BY DEF Proceed
<1> QED
  BY <1>1, <1>2, <1>3, JumpMoves

\* Whoever returns has moved.
LEMMA ReturnIsMove ==
    ASSUME TypeOK, NEW h \in Handlers, Return(h)
    PROVE  Moved(h)
BY ReturnMoves DEF Moved


\* The spec that a caller sends for a service.
LEMMA ServiceSpec ==
    ASSUME RowsInv, NEW s \in service
    PROVE  /\ SpecOf(s) \in Specs /\ s \in Services
           /\ SpecOf(s).id = s /\ SpecOf(s).provider \in Names
           /\ provider[SpecOf(s).provider].id = s[1]
<1>1. s \in Services /\ s[1] \in Ids /\ s[2] \in Slugs
  BY DEF RowsInv, TypeOK, Services
<1>2. \E n \in Names : provider[n].id = s[1]
  BY DEF RowsInv, CatalogHasProvider, Exists
<1>3. NameOf(s[1]) \in Names /\ provider[NameOf(s[1])].id = s[1]
  BY <1>2 DEF NameOf
<1> QED
  BY <1>1, <1>3 DEF SpecOf, Specs

\* Every step of a handler moves it to a statement that fits what it holds.
LEMMA StepMoves ==
    ASSUME RowsInv, NEW h \in Handlers, Step(h)
    PROVE  Moved(h) \/ UNCHANGED control
<1>0. /\ TypeOK /\ IdsInv /\ WorkInv /\ CatalogHasProvider /\ Fits(h)
      /\ stage[h] \in Stages /\ work[h] \in Works
      /\ service \subseteq Services
      /\ MaxProviders \in Nat /\ registered \in Nat /\ registered <= MaxProviders
  BY Bounds DEF RowsInv, WorkInv, TypeOK
<1>1. CASE CreateAIProvider(h)
  <2>1. PICK in \in CreateInputs :
          /\ registered' = registered + 1 /\ registered < MaxProviders
          /\ Goto(h, IF in.ref = NoRef THEN "list" ELSE "insertRef",
                  [NoWork EXCEPT !.id = registered + 1, !.ref = in.ref,
                                 !.todo = Advertised(in)])
    BY <1>1 DEF CreateAIProvider, InsertProvider
  <2> DEFINE s == IF in.ref = NoRef THEN "list" ELSE "insertRef"
             w == [NoWork EXCEPT !.id = registered + 1, !.ref = in.ref, !.todo = Advertised(in)]
  <2>2. in.ref \in Refs \cup {NoRef}
    BY CatalogAssumption DEF createAIProviderReq
  <2>3. in.ref # Same
    BY <2>2, CatalogAssumption DEF NoRef, Same
  <2>4. Advertised(in) \subseteq Slugs
    BY DEF Advertised
  <2>5. w \in Works /\ w.id = registered + 1 /\ w.ref = in.ref /\ w.todo = Advertised(in)
    <3>1. registered + 1 \in 0 .. MaxProviders
      BY <1>0, <2>1
    <3> QED
      BY <2>2, <2>4, <3>1, NoWorkTyped DEF NoWork, Works
  <2>6. s \in Stages /\ s \in {"list", "insertRef"} /\ Goto(h, s, w)
    BY <2>1 DEF Stages
  <2>7. registered + 1 \in 1 .. registered'
    BY <1>0, <2>1
  <2> HIDE DEF s, w
  <2> QED
    BY <1>0, <2>3, <2>4, <2>5, <2>6, <2>7, JumpMoves
<1>2. CASE CreateAIProviderCredential(h)
  <2>1. registered' = registered /\ stage[h] \in {"insertRef", "rotate"}
    BY <1>2 DEF CreateAIProviderCredential
  <2>2. Return(h) \/ (stage[h] = "insertRef" /\ Proceed(h, "list"))
    BY <1>2 DEF CreateAIProviderCredential
  <2>3. stage[h] \in HoldsId /\ (stage[h] = "insertRef" => work[h].todo \subseteq Slugs)
    BY <1>0, <2>1 DEF HoldsId, Fits
  <2>4. "list" \in HoldsId /\ "list" \in Stages
    BY DEF HoldsId, Stages
  <2> QED
    BY <1>0, <2>1, <2>2, <2>3, <2>4, GoesOn, ReturnIsMove
<1>3. CASE SyncAIProviderServicesByName(h)
  <2>1. PICK n \in Names :
          /\ provider[n] # NoProvider
          /\ Goto(h, "list", [NoWork EXCEPT !.id = provider[n].id,
                                            !.todo = Advertised(provider[n])])
    BY <1>3 DEF SyncAIProviderServicesByName, GetAIProviderByName
  <2> DEFINE w == [NoWork EXCEPT !.id = provider[n].id, !.todo = Advertised(provider[n])]
  <2>2. provider[n].id \in 1 .. registered
    BY <1>0, <2>1, FoundById
  <2>3. Advertised(provider[n]) \subseteq Slugs
    BY DEF Advertised
  <2>4. w \in Works /\ w.id = provider[n].id /\ w.todo = Advertised(provider[n])
    <3>1. provider[n].id \in 0 .. MaxProviders
      BY <1>0, <2>2
    <3> QED
      BY <2>2, <2>3, NoWorkTyped, <3>1 DEF NoWork, Works
  <2>5. registered' = registered /\ Goto(h, "list", w) /\ "list" \in Stages
    BY <1>3, <2>1 DEF SyncAIProviderServicesByName, Stages
  <2> HIDE DEF w
  <2> QED
    BY <1>0, <2>2, <2>3, <2>4, <2>5, JumpMoves
<1>4. CASE ListAvailableServices(h)
  <2>1. registered' = registered /\ stage[h] = "list"
    BY <1>4 DEF ListAvailableServices
  <2>2. Return(h) \/ Proceed(h, "sync")
    BY <1>4 DEF ListAvailableServices
  <2>3. /\ stage[h] \in HoldsId /\ work[h].todo \subseteq Slugs
        /\ "sync" \in HoldsId /\ "sync" \in Stages
    BY <1>0, <2>1 DEF HoldsId, Fits, Stages
  <2> QED
    BY <1>0, <2>1, <2>2, <2>3, GoesOn, ReturnIsMove
<1>5. CASE SyncAIProviderServices(h)
  <2>1. registered' = registered /\ stage[h] = "sync"
    BY <1>5 DEF SyncAIProviderServices
  <2>2. \/ Return(h) \/ Proceed(h, "synced")
        \/ \E s \in work[h].todo : Goto(h, "sync", [work[h] EXCEPT !.todo = @ \ {s}])
    BY <1>5 DEF SyncAIProviderServices
  <2>3. /\ stage[h] \in HoldsId /\ work[h].todo \subseteq Slugs
        /\ "synced" \in HoldsId /\ "synced" \in Stages /\ "sync" \in Stages
        /\ work[h].id \in 1 .. registered
    BY <1>0, <2>1 DEF HoldsId, Fits, Stages
  <2>4. ASSUME NEW s \in work[h].todo, Goto(h, "sync", [work[h] EXCEPT !.todo = @ \ {s}])
        PROVE  Moved(h)
    <3> DEFINE w == [work[h] EXCEPT !.todo = @ \ {s}]
    <3>1. w \in Works /\ w.id = work[h].id /\ w.todo = work[h].todo \ {s}
      BY <1>0 DEF Works
    <3>2. Goto(h, "sync", w)
      BY <2>4
    <3> HIDE DEF w
    <3> QED
      BY <1>0, <2>1, <2>3, <3>1, <3>2, JumpMoves
  <2> QED
    BY <1>0, <2>1, <2>2, <2>3, <2>4, GoesOn, ReturnIsMove
<1>6. CASE Synced(h)
  BY <1>0, <1>6, ReturnIsMove DEF Synced
<1>7. CASE SyncAIProviderModelsByName(h)
  <2>1. PICK n \in Names :
          /\ provider[n] # NoProvider
          /\ Goto(h, "syncModels", [NoWork EXCEPT !.id = provider[n].id, !.todo = Models])
    BY <1>7 DEF SyncAIProviderModelsByName, GetAIProviderByName
  <2> DEFINE w == [NoWork EXCEPT !.id = provider[n].id, !.todo = Models]
  <2>2. provider[n].id \in 1 .. registered
    BY <1>0, <2>1, FoundById
  <2>3. w \in Works /\ w.id = provider[n].id /\ w.todo = Models
    <3>1. provider[n].id \in 0 .. MaxProviders
      BY <1>0, <2>2
    <3> QED
      BY <2>2, NoWorkTyped, <3>1 DEF NoWork, Works
  <2>4. registered' = registered /\ Goto(h, "syncModels", w) /\ "syncModels" \in Stages
    BY <1>7, <2>1 DEF SyncAIProviderModelsByName, Stages
  <2> HIDE DEF w
  <2> QED
    BY <1>0, <2>2, <2>3, <2>4, JumpMoves
<1>8. CASE UpsertAIModelCatalog(h)
  <2>1. registered' = registered /\ stage[h] = "syncModels"
    BY <1>8 DEF UpsertAIModelCatalog
  <2>2. \/ Return(h)
        \/ \E m \in work[h].todo : Goto(h, "syncModels", [work[h] EXCEPT !.todo = @ \ {m}])
    BY <1>8 DEF UpsertAIModelCatalog
  <2>3. /\ work[h].todo \subseteq Models /\ "syncModels" \in Stages
        /\ work[h].id \in 1 .. registered
    BY <1>0, <2>1 DEF HoldsId, Fits, Stages
  <2>4. ASSUME NEW m \in work[h].todo, Goto(h, "syncModels", [work[h] EXCEPT !.todo = @ \ {m}])
        PROVE  Moved(h)
    <3> DEFINE w == [work[h] EXCEPT !.todo = @ \ {m}]
    <3>1. w \in Works /\ w.id = work[h].id /\ w.todo = work[h].todo \ {m}
      BY <1>0 DEF Works
    <3>2. Goto(h, "syncModels", w)
      BY <2>4
    <3> HIDE DEF w
    <3> QED
      BY <1>0, <2>1, <2>3, <3>1, <3>2, JumpMoves
  <2> QED
    BY <1>0, <2>2, <2>4, ReturnIsMove
<1>9. CASE GetForUpdate(h)
  <2>1. PICK n \in Names, in \in UpdateInputs :
          /\ provider[n] # NoProvider
          /\ Goto(h, "update", [NoWork EXCEPT
                !.id = provider[n].id, !.config = (provider[n].config \cup in.put) \ in.del,
                !.status = StatusAfter(provider[n], in),
                !.ref = in.ref])
    BY <1>9 DEF GetForUpdate, GetAIProviderByName
  <2> DEFINE w == [NoWork EXCEPT
                !.id = provider[n].id, !.config = (provider[n].config \cup in.put) \ in.del,
                !.status = StatusAfter(provider[n], in),
                !.ref = in.ref]
  <2>2. provider[n] \in Providers /\ provider[n].id \in 1 .. registered
    BY <1>0, <2>1, FoundById
  <2>3. /\ in.put \subseteq Keys /\ in.status \in {"active", "disabled", "keep"}
        /\ in.ref \in Refs \cup {NoRef, Same}
    BY CatalogAssumption DEF updateAIProviderReq
  <2>4. /\ (provider[n].config \cup in.put) \ in.del \subseteq Keys
        /\ StatusAfter(provider[n], in) \in {"active", "disabled"}
    BY <2>2, <2>3 DEF Providers, StatusAfter
  <2>5. w \in Works /\ w.id = provider[n].id
    <3>1. provider[n].id \in 0 .. MaxProviders
      BY <1>0, <2>2
    <3> QED
      BY <2>2, <2>3, <2>4, NoWorkTyped, <3>1 DEF NoWork, Works
  <2>6. registered' = registered /\ Goto(h, "update", w) /\ "update" \in Stages
    BY <1>9, <2>1 DEF GetForUpdate, Stages
  <2> HIDE DEF w
  <2> QED
    BY <1>0, <2>2, <2>5, <2>6, JumpMoves
<1>10. CASE UpdateAIProvider(h)
  <2>1. registered' = registered /\ stage[h] = "update"
    BY <1>10 DEF UpdateAIProvider
  <2>2. Return(h) \/ (work[h].ref # Same /\ Proceed(h, "rotate"))
    BY <1>10 DEF UpdateAIProvider
  <2>3. stage[h] \in HoldsId /\ "rotate" \in HoldsId /\ "rotate" \in Stages
    BY <2>1 DEF HoldsId, Stages
  <2> QED
    BY <1>0, <2>1, <2>2, <2>3, GoesOn, ReturnIsMove
<1>11. CASE CountActiveAIInstancesByProvider(h)
  <2>1. PICK n \in Names :
          /\ provider[n] # NoProvider
          /\ Goto(h, "purge", [NoWork EXCEPT !.id = provider[n].id])
    BY <1>11 DEF CountActiveAIInstancesByProvider, GetAIProviderByName
  <2> DEFINE w == [NoWork EXCEPT !.id = provider[n].id]
  <2>2. provider[n].id \in 1 .. registered
    BY <1>0, <2>1, FoundById
  <2>3. w \in Works /\ w.id = provider[n].id
    BY <1>0, <2>2, NoWorkTyped DEF NoWork, Works
  <2>4. registered' = registered /\ Goto(h, "purge", w) /\ "purge" \in Stages
    BY <1>11, <2>1 DEF CountActiveAIInstancesByProvider, Stages
  <2> HIDE DEF w
  <2> QED
    BY <1>0, <2>2, <2>3, <2>4, JumpMoves
<1>12. CASE DeleteAIServiceInstancesByProvider(h)
  <2>1. registered' = registered /\ stage[h] = "purge" /\ Proceed(h, "drop")
    BY <1>12 DEF DeleteAIServiceInstancesByProvider
  <2>2. stage[h] \in HoldsId /\ "drop" \in HoldsId /\ "drop" \in Stages
    BY <2>1 DEF HoldsId, Stages
  <2> QED
    BY <1>0, <2>1, <2>2, GoesOn
<1>13. CASE DeleteAIProvider(h)
  BY <1>0, <1>13, ReturnIsMove DEF DeleteAIProvider
<1>14. CASE CreateAIRequest(h)
  <2>1. PICK r \in Requests, s \in service :
          Goto(h, "file", [NoWork EXCEPT !.request = r, !.spec = SpecOf(s)])
    BY <1>14 DEF CreateAIRequest
  <2> DEFINE w == [NoWork EXCEPT !.request = r, !.spec = SpecOf(s)]
  <2>2. SpecOf(s) \in Specs
    BY <1>0, ServiceSpec
  <2>3. w \in Works /\ w.request = r
    BY <1>0, <2>2, NoWorkTyped DEF NoWork, Works
  <2>4. Goto(h, "file", w) /\ "file" \in Stages /\ "file" \notin HoldsId
    BY <2>1 DEF Stages, HoldsId
  <2> HIDE DEF w
  <2> QED
    BY <1>0, <2>3, <2>4, JumpMoves
<1>15. CASE FileRequest(h)
  BY <1>0, <1>15, ReturnIsMove DEF FileRequest
<1>16. CASE CreateRequest(h)
  BY <1>16 DEF CreateRequest
<1>17. CASE ProvisionAIRequest(h)
  <2>1. PICK r \in Requests : \E s \in lookupAIService(request[r]) :
          Goto(h, "grant", [NoWork EXCEPT !.request = r, !.service = s])
    BY <1>17 DEF ProvisionAIRequest
  <2>0. PICK s \in lookupAIService(request[r]) :
          Goto(h, "grant", [NoWork EXCEPT !.request = r, !.service = s])
    BY <2>1
  <2> DEFINE w == [NoWork EXCEPT !.request = r, !.service = s]
  <2>2. s \in Services
    BY <1>0 DEF lookupAIService
  <2>3. w \in Works /\ w.request = r /\ w.service = s
    BY <1>0, <2>2, NoWorkTyped DEF NoWork, Works
  <2>4. Goto(h, "grant", w) /\ "grant" \in Stages /\ "grant" \notin HoldsId
    BY <2>0 DEF Stages, HoldsId
  <2> HIDE DEF w
  <2> QED
    BY <1>0, <2>2, <2>3, <2>4, JumpMoves
<1>18. CASE GetAIProvider(h)
  <2>1. stage[h] = "grant" /\ (Return(h) \/ Goto(h, "insert", work[h]))
    BY <1>18 DEF GetAIProvider, Proceed
  <2>2. work[h].request \in Requests /\ work[h].service \in Services
    BY <1>0, <2>1 DEF Fits
  <2>3. "insert" \in Stages /\ "insert" \notin HoldsId
    BY DEF Stages, HoldsId
  <2> QED
    BY <1>0, <2>1, <2>2, <2>3, JumpMoves, ReturnIsMove
<1>19. CASE CreateAIServiceInstance(h)
  BY <1>0, <1>19, ReturnIsMove DEF CreateAIServiceInstance
<1>20. CASE RevokeAIServiceInstance(h)
  BY <1>20 DEF RevokeAIServiceInstance
<1>21. CASE WriteError(h)
  BY <1>0, <1>21, ReturnIsMove DEF WriteError
<1> QED
  BY <1>1, <1>2, <1>3, <1>4, <1>5, <1>6, <1>7, <1>8, <1>9, <1>10, <1>11, <1>12, <1>13,
     <1>14, <1>15, <1>16, <1>17, <1>18, <1>19, <1>20, <1>21 DEF Step


-----------------------------------------------------------------------------
(***************************************************************************)
(* The rows.                                                               *)
(***************************************************************************)

\* The part of the invariant that is about rows.
DataInv ==
    /\ provider \in [Names -> Providers]
    /\ registered \in 0 .. MaxProviders
    /\ credential \in [Ids -> Refs \cup {NoRef}]
    /\ service \subseteq Services
    /\ model \subseteq Ids \X Models
    /\ request \in [Requests -> Specs]
    /\ instance \in [Requests -> Services \cup {NoService}]
    /\ live \subseteq Requests
    /\ IdsInv
    /\ CatalogHasProvider

\* A step gives no id out again, leaves every provider its name and tenant,
\* and takes services only with their provider.
Kept ==
    /\ registered' \in Nat /\ registered <= registered'
    /\ \A n \in Names :
           provider'[n].id \in 1 .. registered =>
               /\ provider'[n].id = provider[n].id
               /\ provider'[n].tenant = provider[n].tenant
    /\ \A x \in service : Exists(x[1])' => x \in service'

\* A new provider: the next id, and a name that was free.
LEMMA InsertKeeps ==
    ASSUME RowsInv, NEW h \in Handlers, CreateAIProvider(h)
    PROVE  DataInv' /\ Kept
<1>0. /\ TypeOK /\ IdsInv /\ CatalogHasProvider
      /\ registered \in Nat /\ registered <= MaxProviders /\ MaxProviders \in Nat
  BY Bounds DEF RowsInv, TypeOK
<1>1. PICK in \in CreateInputs :
        InsertProvider(in.name,
            [id |-> registered + 1, implemented |-> in.implemented,
             config |-> in.config, status |-> "active",
             tenant |-> tenantForCreate(CallerOf[h])])
  BY DEF CreateAIProvider
<1> DEFINE row == [id |-> registered + 1, implemented |-> in.implemented,
                   config |-> in.config, status |-> "active",
                   tenant |-> tenantForCreate(CallerOf[h])]
<1>2. /\ in.name \in Names /\ in.implemented \in BOOLEAN /\ in.config \subseteq Keys
      /\ CallerOf[h] \in Identities
  BY CatalogAssumption DEF createAIProviderReq
<1>3. /\ registered' = registered + 1 /\ registered < MaxProviders
      /\ provider[in.name] = NoProvider
      /\ provider' = [provider EXCEPT ![in.name] = row]
      /\ UNCHANGED <<credential, service, model, request, instance, live>>
  BY <1>1 DEF InsertProvider, CreateAIProvider, catalog, access
<1>4. row \in Providers /\ row.id = registered + 1
  <2>1. CallerOf[h].tenant \in Tenants \cup {NoTenant}
    BY <1>2 DEF Identities
  <2>2. registered + 1 \in 0 .. MaxProviders
    BY <1>0, <1>3
  <2> QED
    BY <1>2, <2>1, <2>2 DEF Providers, tenantForCreate
<1> HIDE DEF row
<1>5. /\ provider' \in [Names -> Providers] /\ registered' \in 0 .. MaxProviders
      /\ provider'[in.name] = row
      /\ \A n \in Names \ {in.name} : provider'[n] = provider[n]
  BY <1>0, <1>2, <1>3, <1>4 DEF TypeOK
<1>6. \A n \in Names : provider[n].id \in Nat /\ provider[n].id <= registered
  BY <1>0 DEF IdsInv, TypeOK, Providers
<1>7. IdsInv'
  BY <1>0, <1>2, <1>3, <1>4, <1>5, <1>6 DEF IdsInv
<1>8. \A i : i # 0 /\ Exists(i) => Exists(i)'
  <2>1. provider[in.name].id = 0
    BY <1>3 DEF NoProvider
  <2> QED
    BY <1>5, <2>1 DEF Exists
<1>9. CatalogHasProvider'
  <2>1. /\ \A x \in service \cup model : x[1] \in Ids
        /\ 0 \notin Ids
    BY <1>0 DEF TypeOK, Services, Ids
  <2> QED
    BY <1>0, <1>3, <1>8, <2>1 DEF CatalogHasProvider
<1>10. DataInv'
  BY <1>0, <1>3, <1>5, <1>7, <1>9 DEF DataInv, TypeOK
<1>11. Kept
  BY <1>0, <1>3, <1>4, <1>5, <1>6 DEF Kept
<1> QED
  BY <1>10, <1>11

\* An update writes the row of one id, and keeps id and tenant.
LEMMA UpdateKeeps ==
    ASSUME RowsInv, NEW h \in Handlers, UpdateAIProvider(h)
    PROVE  DataInv' /\ Kept
<1>0. /\ TypeOK /\ IdsInv /\ CatalogHasProvider /\ registered \in Nat
      /\ work[h] \in Works /\ stage[h] = "update" /\ Fits(h)
  BY Bounds DEF RowsInv, TypeOK, UpdateAIProvider, WorkInv
<1>1. work[h].id \in Nat \ {0} /\ work[h].config \subseteq Keys
      /\ work[h].status \in {"active", "disabled"}
  BY <1>0 DEF Fits, HoldsId, Works
<1>2. /\ provider' = [n \in Names |->
            IF provider[n].id = work[h].id
            THEN [provider[n] EXCEPT !.config = work[h].config, !.status = work[h].status]
            ELSE provider[n]]
      /\ UNCHANGED <<registered, credential, service, model, request, instance, live>>
  BY DEF UpdateAIProvider, UpdateProvider, catalog, access
<1>3. ASSUME NEW n \in Names
      PROVE  /\ provider'[n] \in Providers /\ provider'[n].id = provider[n].id
             /\ provider'[n].tenant = provider[n].tenant
             /\ provider[n].id = 0 => provider'[n] = provider[n]
  <2>1. provider[n] \in Providers
    BY <1>0 DEF TypeOK
  <2> QED
    BY <1>1, <1>2, <2>1 DEF Providers
<1>4. provider' \in [Names -> Providers]
  BY <1>2, <1>3
<1>5. registered' = registered /\ service' = service
  BY <1>2
<1>6. IdsInv'
  <2>1. \A n \in Names : /\ provider'[n].id <= registered'
                         /\ provider'[n].id = 0 => provider'[n] = NoProvider
    BY <1>0, <1>3, <1>5 DEF IdsInv
  <2>2. ASSUME NEW n \in Names, NEW m \in Names,
               provider'[n].id = provider'[m].id, provider'[n].id # 0
        PROVE  n = m
    BY <1>0, <1>3, <2>2 DEF IdsInv
  <2> QED
    BY <2>1, <2>2 DEF IdsInv
<1>7. \A i : Exists(i)' <=> Exists(i)
  BY <1>3 DEF Exists
<1>8. CatalogHasProvider'
  BY <1>0, <1>2, <1>7 DEF CatalogHasProvider
<1>9. DataInv'
  BY <1>0, <1>2, <1>4, <1>6, <1>8 DEF DataInv, TypeOK
<1>10. Kept
  BY <1>0, <1>3, <1>5 DEF Kept
<1> QED
  BY <1>9, <1>10

\* A deletion takes the row of an id, and what refers to it.
LEMMA DeleteKeeps ==
    ASSUME RowsInv, NEW h \in Handlers, DeleteAIProvider(h)
    PROVE  DataInv' /\ Kept
<1>0. /\ TypeOK /\ IdsInv /\ CatalogHasProvider /\ registered \in Nat
      /\ stage[h] = "drop" /\ Fits(h) /\ MaxProviders \in Nat
      /\ UNCHANGED <<registered, request, instance, live>>
  BY Bounds DEF RowsInv, TypeOK, DeleteAIProvider, WorkInv, access
<1> DEFINE id == work[h].id
<1>1. id \in Nat \ {0}
  BY <1>0 DEF Fits, HoldsId
<1>2. CASE UNCHANGED <<provider, credential, service, model>>
  BY <1>0, <1>2 DEF DataInv, TypeOK, IdsInv, CatalogHasProvider, Exists, Kept
<1>3. CASE /\ InstancesOf(id) = {}
           /\ DeleteProvider(id)
  <2>1. /\ provider' = [n \in Names |-> IF provider[n].id = id THEN NoProvider ELSE provider[n]]
        /\ credential' = [credential EXCEPT ![id] = NoRef]
        /\ service' = {s \in service : s[1] # id}
        /\ model' = {m \in model : m[1] # id}
    BY <1>3 DEF DeleteProvider
  <2>2. NoProvider \in Providers /\ NoProvider.id = 0
    BY <1>0 DEF NoProvider, Providers
  <2>3. /\ provider' \in [Names -> Providers] /\ service' \subseteq service /\ model' \subseteq model
        /\ credential' \in [Ids -> Refs \cup {NoRef}]
    BY <1>0, <2>1, <2>2 DEF TypeOK
  <2>4. IdsInv'
    BY <1>0, <2>1, <2>2 DEF IdsInv
  <2>5. \A i : i # id /\ Exists(i) => Exists(i)'
    BY <2>1 DEF Exists
  <2>6. CatalogHasProvider'
    <3>1. \A x \in service' \cup model' : x \in service \cup model /\ x[1] # id
      BY <2>1
    <3>2. \A x \in service' \cup model' : Exists(x[1])'
      BY <1>0, <2>5, <3>1 DEF CatalogHasProvider
    <3>3. ASSUME NEW i \in Ids, credential'[i] # NoRef PROVE Exists(i)'
      <4>1. credential \in [Ids -> Refs \cup {NoRef}]
        BY <1>0 DEF TypeOK
      <4>2. i # id /\ credential[i] # NoRef
        BY <2>1, <3>3, <4>1
      <4> QED
        BY <1>0, <2>5, <4>2 DEF CatalogHasProvider
    <3>4. ASSUME NEW r \in Requests, instance[r] # NoService PROVE instance[r] \in service'
      <4>1. instance[r] \in service /\ instance[r][1] # id
        BY <1>0, <1>3, <3>4 DEF CatalogHasProvider, InstancesOf
      <4> QED
        BY <2>1, <4>1
    <3> QED
      BY <1>0, <3>2, <3>3, <3>4 DEF CatalogHasProvider
  <2>7. DataInv'
    BY <1>0, <2>3, <2>4, <2>6 DEF DataInv, TypeOK
  <2>8. \A n \in Names : provider'[n].id # id
    BY <1>1, <2>1, <2>2
  <2>9. Kept
    <3>1. \A x \in service : Exists(x[1])' => x \in service'
      BY <2>1, <2>8 DEF Exists
    <3> QED
      BY <1>0, <2>1, <2>2, <3>1 DEF Kept
  <2> QED
    BY <2>7, <2>9
<1> QED
  BY <1>2, <1>3 DEF DeleteAIProvider, catalog


\* The other writes leave the providers alone, and add to the catalog only
\* what has a provider.
LEMMA RowsKeep ==
    ASSUME RowsInv, NEW h \in Handlers, Step(h),
           ~CreateAIProvider(h), ~UpdateAIProvider(h), ~DeleteAIProvider(h)
    PROVE  DataInv' /\ Kept
<1>0. /\ TypeOK /\ IdsInv /\ CatalogHasProvider /\ registered \in Nat /\ Fits(h)
      /\ work[h] \in Works /\ MaxProviders \in Nat
  BY Bounds DEF RowsInv, TypeOK, WorkInv
<1>1. provider' = provider /\ registered' = registered
  BY DEF Step, CreateAIProviderCredential, SyncAIProviderServicesByName,
         ListAvailableServices, SyncAIProviderServices, Synced, SyncAIProviderModelsByName,
         UpsertAIModelCatalog, GetForUpdate, CountActiveAIInstancesByProvider,
         DeleteAIServiceInstancesByProvider, CreateAIRequest, FileRequest, CreateRequest,
         ProvisionAIRequest, GetAIProvider, CreateAIServiceInstance,
         RevokeAIServiceInstance, WriteError
<1>2. Kept <=> service \subseteq service' \/ \A x \in service : Exists(x[1]) => x \in service'
  BY <1>0, <1>1 DEF Kept, Exists
<1>3. provider' \in [Names -> Providers] /\ registered' \in 0 .. MaxProviders /\ IdsInv'
      /\ \A i : Exists(i)' <=> Exists(i)
  BY <1>0, <1>1 DEF TypeOK, IdsInv, Exists
<1>4. CASE UNCHANGED <<credential, catalog, access>>
  BY <1>0, <1>1, <1>2, <1>3, <1>4 DEF DataInv, TypeOK, CatalogHasProvider, catalog, access
<1>5. CASE CreateAIProviderCredential(h)
  <2>1. UNCHANGED <<service, model, request, instance, live>>
    BY <1>5 DEF CreateAIProviderCredential, catalog, access
  <2>2. work[h].ref \in Refs \cup {NoRef} /\ work[h].id \in Ids
    BY <1>0, <1>5 DEF CreateAIProviderCredential, Fits, HoldsId, Works, Ids
  <2>3. \/ Exists(work[h].id) /\ credential' = [credential EXCEPT ![work[h].id] = work[h].ref]
        \/ credential' = credential
    BY <1>5 DEF CreateAIProviderCredential
  <2>4. credential \in [Ids -> Refs \cup {NoRef}] /\ credential' \in [Ids -> Refs \cup {NoRef}]
    BY <1>0, <2>2, <2>3 DEF TypeOK
  <2>5. CatalogHasProvider'
    BY <1>0, <1>3, <2>1, <2>3, <2>4 DEF CatalogHasProvider
  <2> QED
    BY <1>0, <1>2, <1>3, <2>1, <2>4, <2>5 DEF DataInv, TypeOK
<1>6. CASE SyncAIProviderServices(h)
  <2>1. UNCHANGED <<credential, model, request, instance, live>>
    BY <1>6 DEF SyncAIProviderServices, access
  <2>2. \/ service' = service
        \/ \E s \in work[h].todo :
              Exists(work[h].id) /\ service' = service \cup {<<work[h].id, s>>}
    BY <1>6 DEF SyncAIProviderServices
  <2>3. work[h].todo \subseteq Slugs /\ work[h].id \in Ids
    BY <1>0, <1>6 DEF SyncAIProviderServices, Fits, HoldsId, Works, Ids
  <2>4. service' \subseteq Services /\ service \subseteq service'
    BY <1>0, <2>2, <2>3 DEF TypeOK, Services
  <2>5. CatalogHasProvider'
    BY <1>0, <1>3, <2>1, <2>2 DEF CatalogHasProvider
  <2> QED
    BY <1>0, <1>2, <1>3, <2>1, <2>4, <2>5 DEF DataInv, TypeOK
<1>7. CASE UpsertAIModelCatalog(h)
  <2>1. UNCHANGED <<credential, service, request, instance, live>>
    BY <1>7 DEF UpsertAIModelCatalog, access
  <2>2. \/ model' = model
        \/ \E m \in work[h].todo :
              Exists(work[h].id) /\ model' = model \cup {<<work[h].id, m>>}
    BY <1>7 DEF UpsertAIModelCatalog
  <2>3. work[h].todo \subseteq Models /\ work[h].id \in Ids
    BY <1>0, <1>7 DEF UpsertAIModelCatalog, Fits, HoldsId, Works, Ids
  <2>4. model' \subseteq Ids \X Models
    BY <1>0, <2>2, <2>3 DEF TypeOK
  <2>5. CatalogHasProvider'
    BY <1>0, <1>3, <2>1, <2>2 DEF CatalogHasProvider
  <2> QED
    BY <1>0, <1>2, <1>3, <2>1, <2>4, <2>5 DEF DataInv, TypeOK
<1>8. CASE DeleteAIServiceInstancesByProvider(h)
  <2>1. UNCHANGED <<credential, service, model, request>>
    BY <1>8 DEF DeleteAIServiceInstancesByProvider, catalog
  <2>2. /\ live' \subseteq live
        /\ instance' = [r \in Requests |->
                IF r \in InstancesOf(work[h].id) THEN NoService ELSE instance[r]]
    BY <1>8 DEF DeleteAIServiceInstancesByProvider
  <2>3. instance' \in [Requests -> Services \cup {NoService}]
    BY <1>0, <2>2 DEF TypeOK
  <2>4. CatalogHasProvider'
    BY <1>0, <1>3, <2>1, <2>2 DEF CatalogHasProvider
  <2> QED
    BY <1>0, <1>2, <1>3, <2>1, <2>2, <2>3, <2>4 DEF DataInv, TypeOK
<1>9. CASE FileRequest(h) \/ CreateRequest(h)
  <2>1. UNCHANGED <<credential, service, model, instance, live>>
    BY <1>9 DEF FileRequest, CreateRequest, catalog
  <2>2. request' \in [Requests -> Specs]
    <3>1. CASE FileRequest(h)
      <4>1. work[h].spec \in Specs /\ request \in [Requests -> Specs]
        BY <1>0 DEF Works, TypeOK
      <4>2. request' = [request EXCEPT ![work[h].request] = work[h].spec] \/ request' = request
        BY <3>1 DEF FileRequest
      <4> QED
        BY <4>1, <4>2
    <3>2. CASE CreateRequest(h)
      <4>1. PICK r \in Requests, s \in Slugs :
              request' = [request EXCEPT ![r] = [NoSpec EXCEPT !.slug = s]]
        BY <3>2 DEF CreateRequest
      <4>2. [NoSpec EXCEPT !.slug = s] \in Specs
        BY DEF NoSpec, Specs
      <4> QED
        BY <1>0, <4>1, <4>2 DEF TypeOK
    <3> QED
      BY <1>9, <3>1, <3>2
  <2>3. CatalogHasProvider'
    BY <1>0, <1>3, <2>1 DEF CatalogHasProvider
  <2> QED
    BY <1>0, <1>2, <1>3, <2>1, <2>2, <2>3 DEF DataInv, TypeOK
<1>10. CASE CreateAIServiceInstance(h)
  <2>1. UNCHANGED <<credential, service, model, request>>
    BY <1>10 DEF CreateAIServiceInstance, catalog
  <2>2. \/ UNCHANGED <<instance, live>>
        \/ /\ work[h].service \in service
           /\ instance' = [instance EXCEPT ![work[h].request] = work[h].service]
           /\ live' = live \cup {work[h].request}
    BY <1>10 DEF CreateAIServiceInstance
  <2>3. work[h].request \in Requests /\ work[h].service \in Services
    BY <1>0, <1>10 DEF CreateAIServiceInstance, Fits
  <2>4. instance' \in [Requests -> Services \cup {NoService}] /\ live' \subseteq Requests
    BY <1>0, <2>2, <2>3 DEF TypeOK
  <2>5. \A r \in Requests : instance'[r] = instance[r] \/ instance'[r] \in service
    BY <1>0, <2>2, <2>3 DEF TypeOK
  <2>6. CatalogHasProvider'
    BY <1>0, <1>3, <2>1, <2>5 DEF CatalogHasProvider
  <2> QED
    BY <1>0, <1>2, <1>3, <2>1, <2>4, <2>6 DEF DataInv, TypeOK
<1>11. CASE RevokeAIServiceInstance(h)
  <2>1. UNCHANGED <<credential, service, model, request, instance>> /\ live' \subseteq live
    BY <1>11 DEF RevokeAIServiceInstance, catalog
  <2>2. CatalogHasProvider'
    BY <1>0, <1>3, <2>1 DEF CatalogHasProvider
  <2> QED
    BY <1>0, <1>2, <1>3, <2>1, <2>2 DEF DataInv, TypeOK
<1>12. \/ UNCHANGED <<credential, catalog, access>>
       \/ CreateAIProviderCredential(h) \/ SyncAIProviderServices(h) \/ UpsertAIModelCatalog(h)
       \/ DeleteAIServiceInstancesByProvider(h) \/ FileRequest(h) \/ CreateRequest(h)
       \/ CreateAIServiceInstance(h) \/ RevokeAIServiceInstance(h)
  BY DEF Step, SyncAIProviderServicesByName, ListAvailableServices, Synced,
         SyncAIProviderModelsByName, GetForUpdate, CountActiveAIInstancesByProvider,
         CreateAIRequest, ProvisionAIRequest, GetAIProvider, WriteError
<1> QED
  BY <1>4, <1>5, <1>6, <1>7, <1>8, <1>9, <1>10, <1>11, <1>12

\* Every step keeps the rows in order.
LEMMA RowsStep == RowsInv /\ [Next]_vars => RowsInv'
<1> SUFFICES ASSUME RowsInv, [Next]_vars PROVE RowsInv'
  OBVIOUS
<1>1. ASSUME NEW h \in Handlers, Step(h) PROVE RowsInv'
  <2>1. DataInv' /\ Kept
    BY <1>1, InsertKeeps, UpdateKeeps, DeleteKeeps, RowsKeep
  <2>2. \A g \in Handlers : stage'[g] = stage[g] /\ work'[g] = work[g] => Fits(g)'
    <3>1. registered \in Nat /\ registered' \in Nat /\ registered <= registered'
      BY <2>1, Bounds DEF Kept, RowsInv, TypeOK
    <3>2. \A g \in Handlers : Fits(g)
      BY DEF RowsInv, WorkInv
    <3> QED
      BY <3>1, <3>2 DEF Fits
  <2>3. stage' \in [Handlers -> Stages] /\ work' \in [Handlers -> Works] /\ WorkInv'
    <3>1. CASE Moved(h)
      BY <2>2, <3>1 DEF Moved, WorkInv
    <3>2. CASE UNCHANGED control
      BY <2>2, <3>2 DEF control, RowsInv, TypeOK, WorkInv
    <3> QED
      BY <1>1, <3>1, <3>2, StepMoves
  <2> QED
    BY <2>1, <2>3 DEF DataInv, RowsInv, TypeOK
<1>2. CASE UNCHANGED vars
  BY <1>2 DEF vars, catalog, access, control, RowsInv, TypeOK, IdsInv, WorkInv, Fits,
              CatalogHasProvider, Exists
<1> QED
  BY <1>1, <1>2 DEF Next

\* Nothing is registered at the start.
LEMMA InitRows == Init => RowsInv
<1> SUFFICES ASSUME Init PROVE RowsInv
  OBVIOUS
<1>1. NoProvider \in Providers /\ NoProvider.id = 0 /\ NoSpec \in Specs /\ NoWork \in Works
  BY Bounds, NoWorkTyped DEF NoProvider, Providers, NoSpec, Specs
<1>2. TypeOK
  BY <1>1, Bounds DEF Init, TypeOK, Stages
<1>3. IdsInv /\ WorkInv /\ CatalogHasProvider
  BY <1>1 DEF Init, IdsInv, WorkInv, Fits, HoldsId, CatalogHasProvider
<1> QED
  BY <1>2, <1>3 DEF RowsInv

\* Every reachable state of the catalog is well typed, for any number of
\* handlers that register, sync, update, delete, file and grant, and any
\* failure of their writes (ai.go, ai_governance.go).
THEOREM CatalogTypeCorrect == Spec => []TypeOK
<1>1. RowsInv => TypeOK
  BY DEF RowsInv
<1> QED
  BY <1>1, InitRows, RowsStep, PTL DEF Spec

\* DeleteAIProvider and the foreign keys: whatever syncs, rotations and
\* grants still hold the id of a provider that is deleted under them, no
\* service, model, credential reference or instance is left without it.
THEOREM CatalogHasProviderHolds == Spec => []CatalogHasProvider
<1>1. RowsInv => CatalogHasProvider
  BY DEF RowsInv
<1> QED
  BY <1>1, InitRows, RowsStep, PTL DEF Spec


-----------------------------------------------------------------------------
(***************************************************************************)
(* What a sync leaves.                                                     *)
(***************************************************************************)

Syncing == {"insertRef", "list", "sync", "synced"}

\* What a sync of handler g has done so far, and what is then done.
SyncOK(g) ==
    /\ stage[g] \in {"insertRef", "list"} => work[g].todo \in {{}, Slugs}
    /\ stage[g] = "sync" /\ Exists(work[g].id) =>
           \A s \in Slugs \ work[g].todo : <<work[g].id, s>> \in service
    /\ stage[g] = "synced" /\ Exists(work[g].id) =>
           {work[g].id} \X Slugs \subseteq service

\* A handler that is not moved keeps what its sync has entered: a service
\* goes only with its provider, and no other gets the id.
LEMMA SyncFrame ==
    ASSUME RowsInv, Kept, NEW g \in Handlers, SyncOK(g),
           stage'[g] = stage[g], work'[g] = work[g]
    PROVE  SyncOK(g)'
<1>1. ASSUME Exists(work[g].id)', stage[g] \in {"sync", "synced"} PROVE Exists(work[g].id)
  <2>1. work[g].id \in 1 .. registered
    BY <1>1 DEF RowsInv, WorkInv, Fits, HoldsId
  <2> QED
    BY <1>1, <2>1 DEF Kept, Exists
<1>2. \A s : <<work[g].id, s>> \in service /\ Exists(work[g].id)' => <<work[g].id, s>> \in service'
  BY DEF Kept
<1> QED
  BY <1>1, <1>2 DEF SyncOK

\* Every step keeps what the syncs have entered.
LEMMA SyncStep ==
    ASSUME RowsInv, \A g \in Handlers : SyncOK(g), [Next]_vars
    PROVE  \A g \in Handlers : SyncOK(g)'
<1>1. ASSUME NEW h \in Handlers, Step(h) PROVE \A g \in Handlers : SyncOK(g)'
  <2>1. Kept /\ (Moved(h) \/ UNCHANGED control)
    BY <1>1, InsertKeeps, UpdateKeeps, DeleteKeeps, RowsKeep, StepMoves
  <2>2. \A g \in Handlers \ {h} : SyncOK(g)'
    BY <2>1, SyncFrame DEF Moved, control
  <2>3. stage[h] \in Stages /\ work[h] \in Works /\ TypeOK
    BY DEF RowsInv, TypeOK
  <2>4. CASE stage'[h] \notin Syncing
    BY <2>2, <2>4 DEF SyncOK, Syncing
  <2>5. CASE UNCHANGED control
    BY <2>1, <2>2, <2>5, SyncFrame DEF control
  <2>6. CASE CreateAIProvider(h)
    <3>1. PICK in \in CreateInputs :
            Goto(h, IF in.ref = NoRef THEN "list" ELSE "insertRef",
                  [NoWork EXCEPT !.id = registered + 1, !.ref = in.ref,
                                 !.todo = Advertised(in)])
      BY <2>6 DEF CreateAIProvider
    <3>2. /\ stage'[h] \in {"list", "insertRef"}
          /\ work'[h].todo = Advertised(in)
      BY <2>3, <3>1 DEF Goto, TypeOK, NoWork
    <3> QED
      BY <2>2, <3>2 DEF SyncOK, Advertised
  <2>7. CASE SyncAIProviderServicesByName(h)
    <3>1. PICK n \in Names :
            Goto(h, "list", [NoWork EXCEPT !.id = provider[n].id,
                                           !.todo = Advertised(provider[n])])
      BY <2>7 DEF SyncAIProviderServicesByName, GetAIProviderByName
    <3>2. stage'[h] = "list" /\ work'[h].todo = Advertised(provider[n])
      BY <2>3, <3>1 DEF Goto, TypeOK, NoWork
    <3> QED
      BY <2>2, <3>2 DEF SyncOK, Advertised
  <2>8. CASE CreateAIProviderCredential(h)
    <3>1. CASE Return(h)
      <4>1. stage'[h] = "idle"
        BY <2>3, <3>1 DEF Return, Goto, TypeOK
      <4> QED
        BY <2>2, <4>1 DEF SyncOK
    <3>2. CASE stage[h] = "insertRef" /\ Proceed(h, "list")
      <4>1. stage'[h] = "list" /\ work'[h] = work[h]
        BY <2>3, <3>2 DEF Proceed, Goto, TypeOK
      <4> QED
        BY <2>2, <3>2, <4>1 DEF SyncOK
    <3> QED
      BY <2>8, <3>1, <3>2 DEF CreateAIProviderCredential
  <2>9. CASE ListAvailableServices(h)
    <3>1. CASE Return(h)
      <4>1. stage'[h] = "idle"
        BY <2>3, <3>1 DEF Return, Goto, TypeOK
      <4> QED
        BY <2>2, <4>1 DEF SyncOK
    <3>2. CASE work[h].todo # {} /\ Proceed(h, "sync")
      <4>1. stage'[h] = "sync" /\ work'[h] = work[h]
        BY <2>3, <3>2 DEF Proceed, Goto, TypeOK
      <4>2. work[h].todo = Slugs
        BY <2>9, <3>2 DEF ListAvailableServices, SyncOK
      <4> QED
        BY <2>2, <4>1, <4>2 DEF SyncOK
    <3> QED
      BY <2>9, <3>1, <3>2 DEF ListAvailableServices
  <2>10. CASE SyncAIProviderServices(h)
    <3>1. stage[h] = "sync" /\ provider' = provider
      BY <2>10 DEF SyncAIProviderServices
    <3>2. CASE work[h].todo = {} /\ Proceed(h, "synced") /\ service' = service
      <4>1. stage'[h] = "synced" /\ work'[h] = work[h]
        BY <2>3, <3>2 DEF Proceed, Goto, TypeOK
      <4>2. Exists(work[h].id) => {work[h].id} \X Slugs \subseteq service
        BY <3>1, <3>2 DEF SyncOK
      <4> QED
        BY <2>2, <3>1, <3>2, <4>1, <4>2 DEF SyncOK, Exists
    <3>3. CASE \E s \in work[h].todo :
                 /\ service' = service \cup {<<work[h].id, s>>}
                 /\ Goto(h, "sync", [work[h] EXCEPT !.todo = @ \ {s}])
      <4>1. PICK s \in work[h].todo :
                 /\ service' = service \cup {<<work[h].id, s>>}
                 /\ Goto(h, "sync", [work[h] EXCEPT !.todo = @ \ {s}])
        BY <3>3
      <4>2. stage'[h] = "sync" /\ work'[h] = [work[h] EXCEPT !.todo = @ \ {s}]
        BY <2>3, <4>1 DEF Goto, TypeOK
      <4>3. work'[h].id = work[h].id /\ work'[h].todo = work[h].todo \ {s}
        BY <2>3, <4>2 DEF Works
      <4>4. Exists(work[h].id) =>
               \A t \in Slugs \ (work[h].todo \ {s}) : <<work[h].id, t>> \in service'
        BY <3>1, <4>1 DEF SyncOK
      <4>5. SyncOK(h)'
        BY <3>1, <4>2, <4>3, <4>4 DEF SyncOK, Exists
      <4> QED
        BY <2>2, <4>5
    <3>4. CASE Return(h)
      <4>1. stage'[h] = "idle"
        BY <2>3, <3>4 DEF Return, Goto, TypeOK
      <4> QED
        BY <2>2, <4>1 DEF SyncOK
    <3> QED
      BY <2>10, <3>2, <3>3, <3>4 DEF SyncAIProviderServices
  <2>11. \/ stage'[h] \notin Syncing \/ UNCHANGED control
         \/ CreateAIProvider(h) \/ SyncAIProviderServicesByName(h)
         \/ CreateAIProviderCredential(h) \/ ListAvailableServices(h)
         \/ SyncAIProviderServices(h)
    <3>1. \/ UNCHANGED control
          \/ CreateAIProvider(h) \/ SyncAIProviderServicesByName(h)
          \/ CreateAIProviderCredential(h) \/ ListAvailableServices(h)
          \/ SyncAIProviderServices(h)
          \/ Return(h)
          \/ \E s \in {"rotate", "syncModels", "update", "purge", "drop", "file", "grant",
                       "insert"} :
                \E w : Goto(h, s, w)
      BY <1>1 DEF Step, Synced, SyncAIProviderModelsByName, UpsertAIModelCatalog, GetForUpdate,
             UpdateAIProvider, CountActiveAIInstancesByProvider,
             DeleteAIServiceInstancesByProvider, DeleteAIProvider, CreateAIRequest,
             FileRequest, CreateRequest, ProvisionAIRequest, GetAIProvider,
             CreateAIServiceInstance, RevokeAIServiceInstance, WriteError, Proceed
    <3>2. Return(h) => stage'[h] = "idle"
      BY <2>3 DEF Return, Goto, TypeOK
    <3>3. \A s, w : Goto(h, s, w) => stage'[h] = s
      BY <2>3 DEF Goto, TypeOK
    <3> QED
      BY <3>1, <3>2, <3>3 DEF Syncing
  <2> QED
    BY <2>4, <2>5, <2>6, <2>7, <2>8, <2>9, <2>10, <2>11
<1>2. CASE UNCHANGED vars
  BY <1>2 DEF vars, catalog, control, SyncOK, Exists
<1> QED
  BY <1>1, <1>2 DEF Next

\* SyncAIProviderServices: a sync that reports success has entered every
\* service that is advertised, whoever else syncs, updates or deletes the
\* provider beside it, for any number of services.
THEOREM SyncCoversHolds == Spec => []SyncCovers
<1> DEFINE I == RowsInv /\ \A g \in Handlers : SyncOK(g)
<1>1. Init => I
  BY InitRows DEF Init, SyncOK
<1>2. I /\ [Next]_vars => I'
  BY RowsStep, SyncStep
<1>3. I => SyncCovers
  BY DEF SyncOK, SyncCovers
<1> QED
  BY <1>1, <1>2, <1>3, PTL DEF Spec


-----------------------------------------------------------------------------
(***************************************************************************)
(* Which provider a request gets.                                          *)
(***************************************************************************)

\* A spec stays pinned: neither the id nor the name it has goes to another
\* provider together with the other.
LEMMA PinKept ==
    ASSUME RowsInv, Kept, NEW spec \in Specs, Pinned(spec)
    PROVE  Pinned(spec)'
<1>1. spec.id # NoService => spec.id[1] \in Ids
  BY DEF Specs, Services
<1>2. registered \in Nat /\ registered' \in Nat /\ registered <= registered'
  BY Bounds DEF Kept, RowsInv, TypeOK
<1>3. ASSUME spec.id # NoService
      PROVE  /\ spec.id[1] <= registered'
             /\ \A n \in Names : provider'[n].id = spec.id[1] => spec.provider = n
  <2>1. spec.id[1] \in 1 .. registered
    <3>1. spec.id[1] <= registered
      BY <1>3 DEF Pinned
    <3>2. spec.id[1] \in Nat /\ spec.id[1] >= 1
      BY <1>1, <1>3, Bounds DEF Ids
    <3> QED
      BY <1>2, <3>1, <3>2
  <2>2. ASSUME NEW n \in Names, provider'[n].id = spec.id[1] PROVE spec.provider = n
    <3>1. provider[n].id = spec.id[1]
      BY <2>1, <2>2 DEF Kept
    <3> QED
      BY <1>3, <3>1 DEF Pinned
  <2>3. spec.id[1] <= registered'
    BY <1>2, <2>1
  <2> QED
    BY <2>2, <2>3
<1> QED
  BY <1>3 DEF Pinned

\* A request that is filed keeps its spec, and what it has asked for it
\* keeps asking for.
LEMMA FiledStays ==
    ASSUME RowsInv, NEW h \in Handlers, Step(h), NEW r \in Requests
    PROVE  /\ request[r] # NoSpec => request'[r] = request[r]
           /\ \A s : AskedFor(s, r) => AskedFor(s, r)'
<1>1. request \in [Requests -> Specs]
  BY DEF RowsInv, TypeOK
<1>2. request[r] # NoSpec => request'[r] = request[r]
  <2>1. CASE FileRequest(h)
    BY <1>1, <2>1 DEF FileRequest
  <2>2. CASE CreateRequest(h)
    BY <1>1, <2>2 DEF CreateRequest
  <2>3. CASE ~FileRequest(h) /\ ~CreateRequest(h)
    BY <2>3 DEF Step, CreateAIProvider, CreateAIProviderCredential, SyncAIProviderServicesByName,
           ListAvailableServices, SyncAIProviderServices, Synced, SyncAIProviderModelsByName,
           UpsertAIModelCatalog, GetForUpdate, UpdateAIProvider, CountActiveAIInstancesByProvider,
           DeleteAIServiceInstancesByProvider, DeleteAIProvider, CreateAIRequest,
           ProvisionAIRequest, GetAIProvider, CreateAIServiceInstance,
           RevokeAIServiceInstance, WriteError, access
  <2> QED
    BY <2>1, <2>2, <2>3
<1> QED
  BY <1>2 DEF AskedFor

\* The request of a caller is filed with the spec it was given, or not at all.
LEMMA FiledPinned ==
    ASSUME RowsInv, PinInv, NEW h \in Handlers, Step(h), Kept, NEW r \in Requests
    PROVE  Pinned(request[r])'
<1>1. request \in [Requests -> Specs] /\ request[r] \in Specs /\ Pinned(request[r])
  BY DEF RowsInv, TypeOK, PinInv
<1>2. CASE request'[r] = request[r]
  BY <1>1, <1>2, PinKept DEF Pinned
<1>3. CASE FileRequest(h)
  <2>1. request'[r] = request[r] \/ request'[r] = work[h].spec
    BY <1>1, <1>3 DEF FileRequest
  <2>2. work[h].spec \in Specs /\ Pinned(work[h].spec)
    BY <1>3 DEF FileRequest, PinInv, PinOK, RowsInv, TypeOK, Works
  <2>3. \A spec \in Specs : Pinned(spec) =>
          /\ spec.provider # "" => spec.id # NoService
          /\ spec.id # NoService =>
                 /\ spec.id[1] <= registered'
                 /\ \A n \in Names : provider'[n].id = spec.id[1] => spec.provider = n
    BY PinKept DEF Pinned
  <2>4. CASE request'[r] = work[h].spec
    BY <2>2, <2>3, <2>4 DEF Pinned
  <2> QED
    BY <1>2, <2>1, <2>4
<1>4. CASE CreateRequest(h)
  <2>1. request'[r] = request[r] \/ \E s \in Slugs : request'[r] = [NoSpec EXCEPT !.slug = s]
    BY <1>1, <1>4 DEF CreateRequest
  <2>2. \A s \in Slugs : /\ [NoSpec EXCEPT !.slug = s].provider = ""
                         /\ [NoSpec EXCEPT !.slug = s].id = NoService
    BY DEF NoSpec
  <2>3. CASE \E s \in Slugs : request'[r] = [NoSpec EXCEPT !.slug = s]
    BY <2>2, <2>3 DEF Pinned
  <2> QED
    BY <1>2, <2>1, <2>3
<1>5. CASE ~FileRequest(h) /\ ~CreateRequest(h)
  <2>1. request' = request
    BY <1>5 DEF Step, CreateAIProvider, CreateAIProviderCredential, SyncAIProviderServicesByName,
           ListAvailableServices, SyncAIProviderServices, Synced, SyncAIProviderModelsByName,
           UpsertAIModelCatalog, GetForUpdate, UpdateAIProvider, CountActiveAIInstancesByProvider,
           DeleteAIServiceInstancesByProvider, DeleteAIProvider, CreateAIRequest,
           ProvisionAIRequest, GetAIProvider, CreateAIServiceInstance,
           RevokeAIServiceInstance, WriteError, access
  <2> QED
    BY <1>2, <2>1
<1> QED
  BY <1>3, <1>4, <1>5


\* An instance is of the service its request asked for.
LEMMA InstanceAskedFor ==
    ASSUME RowsInv, PinInv, NEW h \in Handlers, Step(h), NEW r \in Requests
    PROVE  (instance[r] # NoService => AskedFor(instance[r], r))'
<1>1. instance \in [Requests -> Services \cup {NoService}]
  BY DEF RowsInv, TypeOK
<1>2. CASE instance'[r] = NoService
  BY <1>2
<1>3. CASE instance'[r] = instance[r]
  BY <1>3, FiledStays DEF PinInv, AskedFor
<1>4. CASE CreateAIServiceInstance(h) /\ instance'[r] # instance[r]
  <2>1. instance'[r] = work[h].service /\ r = work[h].request /\ stage[h] = "insert"
    BY <1>1, <1>4 DEF CreateAIServiceInstance
  <2>2. AskedFor(work[h].service, r)
    BY <2>1 DEF PinInv, PinOK
  <2>3. request' = request
    BY <1>4 DEF CreateAIServiceInstance
  <2> QED
    BY <2>1, <2>2, <2>3 DEF AskedFor
<1>5. \/ instance' = instance
      \/ CreateAIServiceInstance(h)
      \/ \A q \in Requests : instance'[q] \in {NoService, instance[q]}
  BY DEF Step, CreateAIProvider, CreateAIProviderCredential, SyncAIProviderServicesByName,
         ListAvailableServices, SyncAIProviderServices, Synced, SyncAIProviderModelsByName,
         UpsertAIModelCatalog, GetForUpdate, UpdateAIProvider, CountActiveAIInstancesByProvider,
         DeleteAIServiceInstancesByProvider, DeleteAIProvider, CreateAIRequest, FileRequest,
         CreateRequest, ProvisionAIRequest, GetAIProvider, RevokeAIServiceInstance,
         WriteError, access
<1> QED
  BY <1>2, <1>3, <1>4, <1>5

\* The service that is looked up for a request is one it asks for.
LEMMA LookupAskedFor ==
    ASSUME RowsInv, NEW r \in Requests, NEW s \in lookupAIService(request[r])
    PROVE  AskedFor(s, r)
<1>1. s \in Services
  BY DEF RowsInv, TypeOK, lookupAIService
<1>2. s[2] # ""
  BY <1>1, CatalogAssumption DEF Services
<1>3. request[r] # NoSpec
  <2>1. CASE request[r] = NoSpec
    <3>1. request[r].id = NoService /\ request[r].slug = ""
      <4>1. NoSpec.id = NoService /\ NoSpec.slug = ""
        BY DEF NoSpec
      <4> QED
        BY <2>1, <4>1
    <3>2. s \in {x \in service : x[2] = ""}
      BY <3>1 DEF lookupAIService
    <3> QED
      BY <1>2, <3>2
  <2> QED
    BY <2>1
<1>4. request[r].id # NoService => s = request[r].id
  BY DEF lookupAIService
<1> QED
  BY <1>3, <1>4 DEF AskedFor

\* A handler that is not moved holds what it is to file and to grant.
LEMMA PinFrame ==
    ASSUME RowsInv, Kept, NEW h \in Handlers, Step(h), NEW g \in Handlers, PinOK(g),
           stage'[g] = stage[g], work'[g] = work[g]
    PROVE  PinOK(g)'
<1>1. stage[g] = "file" => work[g].spec \in Specs
  BY DEF RowsInv, TypeOK, Works
<1>2. stage[g] \in {"grant", "insert"} => work[g].request \in Requests
  BY DEF RowsInv, WorkInv, Fits
<1>3. stage'[g] = "file" => Pinned(work[g].spec)'
  BY <1>1, PinKept DEF PinOK, Pinned
<1>4. stage'[g] \in {"grant", "insert"} => AskedFor(work[g].service, work[g].request)'
  BY <1>2, FiledStays DEF PinOK, AskedFor
<1> QED
  BY <1>3, <1>4 DEF PinOK

\* Every step keeps requests and instances pinned.
LEMMA PinStep == RowsInv /\ PinInv /\ [Next]_vars => PinInv'
<1> SUFFICES ASSUME RowsInv, PinInv, [Next]_vars PROVE PinInv'
  OBVIOUS
<1>1. ASSUME NEW h \in Handlers, Step(h) PROVE PinInv'
  <2>1. Kept /\ (Moved(h) \/ UNCHANGED control)
    BY <1>1, InsertKeeps, UpdateKeeps, DeleteKeeps, RowsKeep, StepMoves
  <2>2. \A r \in Requests : /\ Pinned(request[r])'
                            /\ (instance[r] # NoService => AskedFor(instance[r], r))'
    BY <1>1, <2>1, FiledPinned, InstanceAskedFor
  <2>3. ASSUME NEW g \in Handlers, stage'[g] = stage[g], work'[g] = work[g] PROVE PinOK(g)'
    BY <1>1, <2>1, <2>3, PinFrame DEF PinInv
  <2>4. stage[h] \in Stages /\ work[h] \in Works /\ TypeOK
    BY DEF RowsInv, TypeOK
  <2>5. CASE CreateAIRequest(h)
    <3>1. PICK r \in Requests, s \in service :
            Goto(h, "file", [NoWork EXCEPT !.request = r, !.spec = SpecOf(s)])
      BY <2>5 DEF CreateAIRequest
    <3>2. stage'[h] = "file" /\ work'[h].spec = SpecOf(s)
      BY <2>4, <3>1 DEF Goto, TypeOK, NoWork
    <3>3. /\ SpecOf(s).id = s /\ SpecOf(s).provider \in Names /\ s \in Services
          /\ provider[SpecOf(s).provider].id = s[1]
      BY ServiceSpec
    <3>4. s[1] # 0 /\ s[1] <= registered /\ s # NoService
      <4>1. s[1] \in 1 .. MaxProviders
        BY <3>3 DEF Services, Ids
      <4>2. provider[SpecOf(s).provider].id <= registered
        BY <3>3 DEF RowsInv, IdsInv
      <4>3. NoService[1] = 0
        BY DEF NoService
      <4> QED
        BY <3>3, <4>1, <4>2, <4>3, Bounds
    <3>5. \A n \in Names : provider[n].id = s[1] => SpecOf(s).provider = n
      BY <3>3, <3>4 DEF RowsInv, IdsInv
    <3>6. UNCHANGED <<provider, registered>>
      BY <2>5 DEF CreateAIRequest
    <3>7. PinOK(h)'
      BY <3>2, <3>3, <3>4, <3>5, <3>6 DEF PinOK, Pinned
    <3> QED
      BY <2>1, <2>2, <2>3, <3>7 DEF PinInv, Moved, control
  <2>6. CASE ProvisionAIRequest(h)
    <3>1. PICK r \in Requests : \E s \in lookupAIService(request[r]) :
            Goto(h, "grant", [NoWork EXCEPT !.request = r, !.service = s])
      BY <2>6 DEF ProvisionAIRequest
    <3>2. PICK s \in lookupAIService(request[r]) :
            Goto(h, "grant", [NoWork EXCEPT !.request = r, !.service = s])
      BY <3>1
    <3>3. stage'[h] = "grant" /\ work'[h].request = r /\ work'[h].service = s
      BY <2>4, <3>2 DEF Goto, TypeOK, NoWork
    <3>4. AskedFor(s, r) /\ request' = request
      BY <2>6, LookupAskedFor DEF ProvisionAIRequest, access
    <3>5. PinOK(h)'
      BY <3>3, <3>4 DEF PinOK, AskedFor
    <3> QED
      BY <2>1, <2>2, <2>3, <3>5 DEF PinInv, Moved, control
  <2>7. CASE GetAIProvider(h)
    <3>1. CASE Return(h)
      <4>1. stage'[h] = "idle"
        BY <2>4, <3>1 DEF Return, Goto, TypeOK
      <4> QED
        BY <2>1, <2>2, <2>3, <4>1 DEF PinInv, PinOK, Moved, control
    <3>2. CASE Proceed(h, "insert")
      <4>1. stage'[h] = "insert" /\ work'[h] = work[h] /\ stage[h] = "grant" /\ request' = request
        BY <2>4, <2>7, <3>2 DEF Proceed, Goto, TypeOK, GetAIProvider, access
      <4>2. PinOK(h)'
        BY <4>1 DEF PinInv, PinOK, AskedFor
      <4> QED
        BY <2>1, <2>2, <2>3, <4>2 DEF PinInv, Moved, control
    <3> QED
      BY <2>7, <3>1, <3>2 DEF GetAIProvider
  <2>8. CASE stage'[h] \notin {"file", "grant", "insert"} \/ UNCHANGED control
    <3>1. PinOK(h)'
      BY <2>3, <2>8 DEF PinOK, control
    <3> QED
      BY <2>1, <2>2, <2>3, <3>1 DEF PinInv, Moved, control
  <2>9. \/ CreateAIRequest(h) \/ ProvisionAIRequest(h) \/ GetAIProvider(h)
        \/ stage'[h] \notin {"file", "grant", "insert"} \/ UNCHANGED control
    <3>1. \/ CreateAIRequest(h) \/ ProvisionAIRequest(h) \/ GetAIProvider(h)
          \/ UNCHANGED control \/ Return(h)
          \/ \E s \in HoldsId : \E w : Goto(h, s, w)
      BY <1>1 DEF Step, CreateAIProvider, CreateAIProviderCredential, SyncAIProviderServicesByName,
             ListAvailableServices, SyncAIProviderServices, Synced, SyncAIProviderModelsByName,
             UpsertAIModelCatalog, GetForUpdate, UpdateAIProvider,
             CountActiveAIInstancesByProvider, DeleteAIServiceInstancesByProvider,
             DeleteAIProvider, FileRequest, CreateRequest, CreateAIServiceInstance,
             RevokeAIServiceInstance, WriteError, Proceed, HoldsId
    <3>2. Return(h) => stage'[h] = "idle"
      BY <2>4 DEF Return, Goto, TypeOK
    <3>3. \A s, w : Goto(h, s, w) => stage'[h] = s
      BY <2>4 DEF Goto, TypeOK
    <3> QED
      BY <3>1, <3>2, <3>3 DEF HoldsId
  <2> QED
    BY <2>5, <2>6, <2>7, <2>8, <2>9
<1>2. CASE UNCHANGED vars
  BY <1>2 DEF vars, access, control, PinInv, PinOK, Pinned, AskedFor
<1> QED
  BY <1>1, <1>2 DEF Next

\* CreateAIRequest pins the id of the service in the spec: whoever files a
\* request by a service gets access from the provider the request names,
\* whatever is registered, deleted and registered again under that name
\* before the request is decided.
THEOREM InstanceOfNamedProviderHolds == Spec => []InstanceOfNamedProvider
<1>1. Init => RowsInv /\ PinInv
  <2> SUFFICES ASSUME Init PROVE PinInv
    BY InitRows
  <2>1. NoSpec.provider = "" /\ NoSpec.id = NoService
    BY DEF NoSpec
  <2> QED
    BY <2>1 DEF Init, PinInv, PinOK, Pinned
<1>2. RowsInv /\ PinInv /\ [Next]_vars => (RowsInv /\ PinInv)'
  BY RowsStep, PinStep
<1>3. RowsInv /\ PinInv => InstanceOfNamedProvider
  <2> SUFFICES ASSUME RowsInv, PinInv, NEW r \in Requests,
                      instance[r] # NoService, request[r].provider # ""
               PROVE  provider[request[r].provider].id = instance[r][1]
    BY DEF InstanceOfNamedProvider
  <2>1. instance[r] = request[r].id /\ request[r].id # NoService
    BY DEF PinInv, Pinned, AskedFor
  <2>2. PICK n \in Names : provider[n].id = instance[r][1]
    BY DEF RowsInv, CatalogHasProvider, Exists
  <2> QED
    BY <2>1, <2>2 DEF PinInv, Pinned
<1> QED
  BY <1>1, <1>2, <1>3, PTL DEF Spec

-----------------------------------------------------------------------------
(***************************************************************************)
(* Providers of other tenants.                                             *)
(***************************************************************************)

\* Every step keeps the handlers off what they may not touch: the id that a
\* handler holds stays with the provider it found.
LEMMA TouchStep ==
    ASSUME RowsInv, \A g \in Handlers : TouchOK(g), [Next]_vars
    PROVE  \A g \in Handlers : TouchOK(g)'
<1>1. ASSUME NEW h \in Handlers, Step(h) PROVE \A g \in Handlers : TouchOK(g)'
  <2>1. Kept /\ (Moved(h) \/ UNCHANGED control)
    BY <1>1, InsertKeeps, UpdateKeeps, DeleteKeeps, RowsKeep, StepMoves
  <2>2. ASSUME NEW g \in Handlers, work'[g] = work[g],
               stage'[g] = stage[g] \/ stage[g] = "purge"
        PROVE  TouchOK(g)'
    <3> SUFFICES ASSUME NEW n \in Names, stage'[g] \in {"update", "purge", "drop"},
                        provider'[n].id = work[g].id
                 PROVE  Touches(g, provider'[n])
      BY <2>2 DEF TouchOK, Touches
    <3>1. stage[g] \in {"update", "purge", "drop"}
      BY <2>2
    <3>2. work[g].id \in 1 .. registered
      BY <3>1 DEF RowsInv, WorkInv, Fits, HoldsId
    <3>3. provider[n].id = work[g].id /\ provider'[n].tenant = provider[n].tenant
      BY <2>1, <3>2 DEF Kept
    <3>4. Touches(g, provider[n])
      BY <3>1, <3>3 DEF TouchOK
    <3> QED
      BY <3>3, <3>4 DEF Touches
  <2>3. stage[h] \in Stages /\ work[h] \in Works /\ TypeOK
    BY DEF RowsInv, TypeOK
  <2>4. CASE GetForUpdate(h) \/ CountActiveAIInstancesByProvider(h)
    <3>1. PICK n \in Names :
            /\ provider[n] # NoProvider /\ Touches(h, provider[n])
            /\ work'[h].id = provider[n].id
      <4>1. CASE GetForUpdate(h)
        BY <2>3, <4>1 DEF GetForUpdate, GetAIProviderByName, Goto, TypeOK, NoWork
      <4>2. CASE CountActiveAIInstancesByProvider(h)
        BY <2>3, <4>2 DEF CountActiveAIInstancesByProvider, GetAIProviderByName, Goto, TypeOK,
               NoWork
      <4> QED
        BY <2>4, <4>1, <4>2
    <3>2. provider[n].id # 0 /\ provider' = provider
      BY <2>4, <3>1 DEF RowsInv, IdsInv, GetForUpdate, CountActiveAIInstancesByProvider
    <3>3. \A m \in Names : provider[m].id = provider[n].id => m = n
      BY <3>2 DEF RowsInv, IdsInv
    <3>4. TouchOK(h)'
      BY <3>1, <3>2, <3>3 DEF TouchOK, Touches
    <3> QED
      BY <2>1, <2>2, <3>4 DEF Moved, control
  <2>5. CASE \/ UNCHANGED control
             \/ stage'[h] \notin {"update", "purge", "drop"}
             \/ stage[h] = "purge" /\ work'[h] = work[h]
    <3>1. TouchOK(h)'
      BY <2>2, <2>5 DEF TouchOK, control
    <3> QED
      BY <2>1, <2>2, <3>1 DEF Moved, control
  <2>6. \/ GetForUpdate(h) \/ CountActiveAIInstancesByProvider(h) \/ UNCHANGED control
        \/ stage'[h] \notin {"update", "purge", "drop"}
        \/ stage[h] = "purge" /\ work'[h] = work[h]
    <3>1. \/ GetForUpdate(h) \/ CountActiveAIInstancesByProvider(h) \/ UNCHANGED control
          \/ Return(h)
          \/ stage[h] = "purge" /\ Proceed(h, "drop")
          \/ \E s \in Stages \ {"update", "purge", "drop"} : \E w : Goto(h, s, w)
      BY <1>1 DEF Step, CreateAIProvider, CreateAIProviderCredential, SyncAIProviderServicesByName,
             ListAvailableServices, SyncAIProviderServices, Synced, SyncAIProviderModelsByName,
             UpsertAIModelCatalog, UpdateAIProvider, DeleteAIServiceInstancesByProvider,
             DeleteAIProvider, CreateAIRequest, FileRequest, CreateRequest, ProvisionAIRequest,
             GetAIProvider, CreateAIServiceInstance, RevokeAIServiceInstance, WriteError, Proceed,
             Stages
    <3>2. Return(h) => stage'[h] = "idle"
      BY <2>3 DEF Return, Goto, TypeOK
    <3>3. \A s, w : Goto(h, s, w) => stage'[h] = s /\ work'[h] = w
      BY <2>3 DEF Goto, TypeOK
    <3> QED
      BY <3>1, <3>2, <3>3 DEF Proceed
  <2> QED
    BY <2>4, <2>5, <2>6
<1>2. CASE UNCHANGED vars
  BY <1>2 DEF vars, control, TouchOK, Touches
<1> QED
  BY <1>1, <1>2 DEF Next

\* A call changes or removes no provider it may not touch.
LEMMA ForeignStep ==
    ASSUME RowsInv, \A g \in Handlers : TouchOK(g), NEW h \in Handlers, Step(h),
           NEW n \in Names, scopeTenant(CallerOf[h]),
           provider[n].tenant \notin {NoTenant, CallerOf[h].tenant}
    PROVE  provider'[n] = provider[n]
<1>1. provider \in [Names -> Providers]
  BY DEF RowsInv, TypeOK
<1>2. CASE provider' = provider
  BY <1>2
<1>3. CASE CreateAIProvider(h)
  <2>1. PICK m, row : provider[m] = NoProvider /\ provider' = [provider EXCEPT ![m] = row]
    BY <1>3 DEF CreateAIProvider, InsertProvider
  <2>2. NoProvider.tenant = NoTenant
    BY DEF NoProvider
  <2> QED
    BY <1>1, <2>1, <2>2
<1>4. CASE UpdateAIProvider(h) \/ DeleteAIProvider(h)
  <2>1. stage[h] \in {"update", "drop"}
    BY <1>4 DEF UpdateAIProvider, DeleteAIProvider
  <2>2. ~Touches(h, provider[n])
    BY DEF Touches, tenantVisible
  <2>3. provider[n].id # work[h].id
    BY <2>1, <2>2 DEF TouchOK
  <2> QED
    BY <1>4, <2>3 DEF UpdateAIProvider, UpdateProvider, DeleteAIProvider, DeleteProvider
<1>5. \/ provider' = provider
      \/ CreateAIProvider(h) \/ UpdateAIProvider(h) \/ DeleteAIProvider(h)
  BY DEF Step, CreateAIProviderCredential, SyncAIProviderServicesByName,
         ListAvailableServices, SyncAIProviderServices, Synced, SyncAIProviderModelsByName,
         UpsertAIModelCatalog, GetForUpdate, CountActiveAIInstancesByProvider,
         DeleteAIServiceInstancesByProvider, CreateAIRequest, FileRequest, CreateRequest,
         ProvisionAIRequest, GetAIProvider, CreateAIServiceInstance,
         RevokeAIServiceInstance, WriteError
<1> QED
  BY <1>2, <1>3, <1>4, <1>5

\* UpdateAIProvider and DeleteAIProvider find by name and write by id: no
\* call of one tenant changes or removes a provider of another, however the
\* name it looked up passes on between its two statements.
THEOREM ForeignProvidersUntouchedHolds == Spec => ForeignProvidersUntouched
<1> DEFINE I == RowsInv /\ \A g \in Handlers : TouchOK(g)
           A == \A h \in Handlers, n \in Names :
                    scopeTenant(CallerOf[h]) /\ stage[h] # stage'[h]
                      /\ provider[n].tenant \notin {NoTenant, CallerOf[h].tenant}
                        => provider'[n] = provider[n]
<1>1. Init => I
  BY InitRows DEF Init, TouchOK
<1>2. I /\ [Next]_vars => I'
  BY RowsStep, TouchStep
<1>3. I /\ [Next]_vars => [A]_vars
  <2> SUFFICES ASSUME I, NEW g \in Handlers, Step(g) PROVE A
    BY DEF Next
  <2>1. \A h \in Handlers : stage[h] # stage'[h] => h = g
    BY StepMoves DEF Moved, control
  <2> QED
    BY <2>1, ForeignStep
<1> QED
  BY <1>1, <1>2, <1>3, PTL DEF Spec, ForeignProvidersUntouched


=============================================================================
