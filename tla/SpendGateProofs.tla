-------------------------- MODULE SpendGateProofs --------------------------
(***************************************************************************)
(* Proofs about SpendGate, for any number of callers, imports and days.    *)
(***************************************************************************)
EXTENDS SpendGate, FiniteSetTheorems, TLAPS

-----------------------------------------------------------------------------
(***************************************************************************)
(* Sums over finite sets, by induction on their subsets.                   *)
(***************************************************************************)

\* Strict inclusion of the subsets of a finite set is well-founded: a
\* property, given as the set of those that have it, that a subset has
\* whenever all smaller ones have it, holds of all of them.
LEMMA SubsetInduction ==
    ASSUME NEW S, IsFiniteSet(S), NEW Good,
           \A U \in SUBSET S :
               (\A V \in SUBSET U : V # U => V \in Good) => U \in Good
    PROVE  \A U \in SUBSET S : U \in Good
<1> DEFINE Bad == (SUBSET S) \ Good
<1> SUFFICES ASSUME Bad # {} PROVE FALSE
  OBVIOUS
<1>1. IsWellFoundedOn(StrictSubsetOrdering(S), SUBSET S)
  <2>1. IsWellFoundedOn(StrictSubsetOrdering(S), FiniteSubsetsOf(S))
    BY FS_StrictSubsetOrderingWellFounded
  <2>2. FiniteSubsetsOf(S) = SUBSET S
    BY FS_FiniteSubsetsOfFinite
  <2> QED
    BY <2>1, <2>2
<1>2. PICK M \in Bad : \A U \in Bad : ~(<<U, M>> \in StrictSubsetOrdering(S))
  <2>1. Bad \subseteq SUBSET S
    OBVIOUS
  <2> HIDE DEF Bad
  <2> QED
    BY <1>1, <2>1, WFMin
<1>3. ASSUME NEW V \in SUBSET M, V # M PROVE V \in Good
  <2>1. V \in SUBSET S /\ <<V, M>> \in StrictSubsetOrdering(S)
    BY <1>3 DEF StrictSubsetOrdering
  <2> QED
    BY <1>2, <2>1
<1> QED
  BY <1>3

\* The element of a set that a sum takes first.
First(S) == CHOOSE x \in S : TRUE

\* g[U] is the sum of f over U, for the subsets U of S.
SumsOf(f, g, S) ==
    g = [U \in SUBSET S |-> IF U = {} THEN 0 ELSE f[First(U)] + g[U \ {First(U)}]]

\* The definition of SumFunctionOnSet, unfolded.
LEMMA SumUnfold ==
    ASSUME NEW f, NEW S
    PROVE  SumFunctionOnSet(f, S) = (CHOOSE g : SumsOf(f, g, S))[S]
BY DEF SumFunctionOnSet, FoldFunctionOnSet, MapThenFoldSet, First, SumsOf

\* A set that is not empty has a first element.
LEMMA FirstIn == \A S : S # {} => First(S) \in S
BY DEF First

\* Such functions agree wherever they are defined.
LEMMA SumsUnique ==
    ASSUME NEW f, NEW S, IsFiniteSet(S), NEW T, NEW g, SumsOf(f, g, S), NEW h, SumsOf(f, h, T)
    PROVE  \A U \in SUBSET S : U \in SUBSET T => g[U] = h[U]
<1> DEFINE Good == {U \in SUBSET S : U \in SUBSET T => g[U] = h[U]}
<1>1. ASSUME NEW U \in SUBSET S, \A V \in SUBSET U : V # U => V \in Good
      PROVE  U \in Good
  <2> SUFFICES ASSUME U \in SUBSET T PROVE g[U] = h[U]
    OBVIOUS
  <2>1. g[U] = (IF U = {} THEN 0 ELSE f[First(U)] + g[U \ {First(U)}])
    BY DEF SumsOf
  <2>2. h[U] = (IF U = {} THEN 0 ELSE f[First(U)] + h[U \ {First(U)}])
    BY DEF SumsOf
  <2>3. CASE U # {}
    <3>1. U \ {First(U)} \in Good
      BY <1>1, <2>3, FirstIn
    <3> QED
      BY <2>1, <2>2, <3>1
  <2> QED
    BY <2>1, <2>2, <2>3
<1> HIDE DEF Good
<1>2. \A U \in SUBSET S : U \in Good
  BY <1>1, SubsetInduction
<1> QED
  BY <1>2 DEF Good

\* The sums over the subsets of a finite set exist.
LEMMA SumsExist ==
    ASSUME NEW f, NEW S, IsFiniteSet(S)
    PROVE  \E g : SumsOf(f, g, S)
<1> DEFINE Good == {U \in SUBSET S : \E g : SumsOf(f, g, U)}
           G(U) == CHOOSE g : SumsOf(f, g, U)
<1>1. ASSUME NEW U \in SUBSET S, \A V \in SUBSET U : V # U => V \in Good
      PROVE  U \in Good
  <2>1. ASSUME NEW V \in SUBSET U, V # U PROVE SumsOf(f, G(V), V)
    BY <1>1, <2>1
  <2> HIDE DEF G
  <2> DEFINE W(V) == V \ {First(V)}
             g == [V \in SUBSET U |-> IF V # U THEN G(V)[V]
                                      ELSE IF U = {} THEN 0
                                      ELSE f[First(U)] + G(W(U))[W(U)]]
  <2>2. ASSUME NEW V \in SUBSET U, V # {}
        PROVE  g[V] = f[First(V)] + g[W(V)]
    <3>1. W(V) \in SUBSET V /\ W(V) # V /\ W(V) \in SUBSET U /\ W(V) # U
      BY <2>2, FirstIn
    <3>2. g[W(V)] = G(W(V))[W(V)]
      BY <3>1
    <3>3. CASE V = U
      BY <2>2, <3>2, <3>3
    <3>4. CASE V # U
      <4>1. SumsOf(f, G(V), V) /\ SumsOf(f, G(W(V)), W(V))
        BY <2>1, <3>1, <3>4
      <4>2. IsFiniteSet(V)
        BY FS_Subset
      <4>3. G(V)[W(V)] = G(W(V))[W(V)]
        BY <3>1, <4>1, <4>2, SumsUnique
      <4>4. G(V)[V] = f[First(V)] + G(V)[W(V)]
        BY <2>2, <4>1 DEF SumsOf
      <4> QED
        BY <3>2, <3>4, <4>3, <4>4
    <3> QED
      BY <3>3, <3>4
  <2>3. g[{}] = 0
    <3>1. CASE U = {}
      BY <3>1
    <3>2. CASE U # {}
      <4>1. SumsOf(f, G({}), {})
        BY <2>1, <3>2
      <4>2. G({})[{}] = 0
        BY <4>1 DEF SumsOf
      <4> QED
        BY <3>2, <4>2
    <3> QED
      BY <3>1, <3>2
  <2>4. g = [V \in SUBSET U |-> g[V]]
    OBVIOUS
  <2> HIDE DEF g
  <2>5. SumsOf(f, g, U)
    BY <2>2, <2>3, <2>4 DEF SumsOf
  <2> QED
    BY <2>5
<1> HIDE DEF Good
<1>2. S \in Good
  BY <1>1, SubsetInduction
<1> QED
  BY <1>2 DEF Good

\* A sum takes its first element and goes on.
LEMMA SumFirst ==
    ASSUME NEW f, NEW S, IsFiniteSet(S)
    PROVE  SumFunctionOnSet(f, S) =
               IF S = {} THEN 0
               ELSE f[First(S)] + SumFunctionOnSet(f, S \ {First(S)})
<1> DEFINE R == S \ {First(S)}
           g == CHOOSE g : SumsOf(f, g, S)
           h == CHOOSE h : SumsOf(f, h, R)
<1>1. IsFiniteSet(R) /\ R \in SUBSET S /\ S \in SUBSET S
  BY FS_Subset
<1>2. SumsOf(f, g, S) /\ SumsOf(f, h, R)
  BY <1>1, SumsExist
<1>3. SumFunctionOnSet(f, S) = g[S] /\ SumFunctionOnSet(f, R) = h[R]
  BY SumUnfold
<1> HIDE DEF g, h
<1>4. g[R] = h[R]
  BY <1>1, <1>2, SumsUnique
<1>5. g[S] = IF S = {} THEN 0 ELSE f[First(S)] + g[R]
  BY <1>1, <1>2 DEF SumsOf
<1> QED
  BY <1>3, <1>4, <1>5

\* Which element of a set a sum takes first makes no difference to it.
LEMMA SumRemove ==
    ASSUME NEW f, NEW S, IsFiniteSet(S), \A x \in S : f[x] \in Int
    PROVE  /\ SumFunctionOnSet(f, S) \in Int
           /\ \A x \in S : SumFunctionOnSet(f, S) = f[x] + SumFunctionOnSet(f, S \ {x})
<1> DEFINE Sum(U) == SumFunctionOnSet(f, U)
           Good == {U \in SUBSET S : Sum(U) \in Int /\ \A x \in U : Sum(U) = f[x] + Sum(U \ {x})}
<1>1. ASSUME NEW U \in SUBSET S, \A V \in SUBSET U : V # U => V \in Good
      PROVE  U \in Good
  <2> DEFINE p == First(U)
  <2>1. Sum(U) = IF U = {} THEN 0 ELSE f[p] + Sum(U \ {p})
    BY FS_Subset, SumFirst
  <2>2. CASE U = {}
    BY <2>1, <2>2
  <2>3. CASE U # {}
    <3>1. p \in U /\ p \in S
      BY <2>3, FirstIn
    <3> HIDE DEF p, Sum
    <3>2. \A x \in U : Sum(U \ {x}) \in Int /\ f[x] \in Int
      BY <1>1
    <3>3. ASSUME NEW x \in U, x # p PROVE Sum(U) = f[x] + Sum(U \ {x})
      <4>1. Sum(U \ {p}) = f[x] + Sum((U \ {p}) \ {x})
        BY <1>1, <3>1, <3>3
      <4>2. Sum(U \ {x}) = f[p] + Sum((U \ {x}) \ {p})
        BY <1>1, <3>1, <3>3
      <4>3. (U \ {p}) \ {x} = (U \ {x}) \ {p}
        OBVIOUS
      <4>4. Sum((U \ {x}) \ {p}) \in Int
        BY <1>1, <3>1, <3>3
      <4> QED
        BY <2>1, <2>3, <3>1, <3>2, <4>1, <4>2, <4>3, <4>4
    <3>4. Sum(U) = f[p] + Sum(U \ {p}) /\ Sum(U) \in Int
      BY <2>1, <2>3, <3>1, <3>2
    <3> QED
      BY <3>3, <3>4
  <2> QED
    BY <2>2, <2>3
<1> HIDE DEF Good
<1>2. S \in Good
  BY <1>1, SubsetInduction
<1> QED
  BY <1>2 DEF Good

\* Smaller summands, smaller sum.
LEMMA SumMonotone ==
    ASSUME NEW f, NEW g, NEW S, IsFiniteSet(S),
           \A x \in S : f[x] \in Int /\ g[x] \in Int /\ f[x] <= g[x]
    PROVE  SumFunctionOnSet(f, S) <= SumFunctionOnSet(g, S)
<1> DEFINE Good == {U \in SUBSET S : SumFunctionOnSet(f, U) <= SumFunctionOnSet(g, U)}
<1>1. ASSUME NEW U \in SUBSET S, \A V \in SUBSET U : V # U => V \in Good
      PROVE  U \in Good
  <2>1. IsFiniteSet(U)
    BY FS_Subset
  <2>2. CASE U = {}
    <3>1. SumFunctionOnSet(f, U) = 0 /\ SumFunctionOnSet(g, U) = 0
      BY <2>1, <2>2, SumFirst
    <3> QED
      BY <3>1
  <2>3. CASE U # {}
    <3>1. PICK x \in U : TRUE
      BY <2>3
    <3>2. IsFiniteSet(U \ {x}) /\ U \ {x} \in SUBSET U /\ U \ {x} # U
      BY <2>1, <3>1, FS_Subset
    <3>3. SumFunctionOnSet(f, U \ {x}) <= SumFunctionOnSet(g, U \ {x})
      BY <1>1, <3>2
    <3>4. /\ SumFunctionOnSet(f, U) = f[x] + SumFunctionOnSet(f, U \ {x})
          /\ SumFunctionOnSet(g, U) = g[x] + SumFunctionOnSet(g, U \ {x})
          /\ SumFunctionOnSet(f, U \ {x}) \in Int /\ SumFunctionOnSet(g, U \ {x}) \in Int
      BY <2>1, <3>1, <3>2, SumRemove
    <3> QED
      BY <3>1, <3>3, <3>4
  <2> QED
    BY <2>2, <2>3
<1> HIDE DEF Good
<1>2. S \in Good
  BY <1>1, SubsetInduction
<1> QED
  BY <1>2 DEF Good

\* A sum of numbers up to k.
LEMMA SumBounded ==
    ASSUME NEW f, NEW S, IsFiniteSet(S), NEW k \in Nat,
           \A x \in S : f[x] \in 0 .. k
    PROVE  /\ SumFunctionOnSet(f, S) \in Nat
           /\ SumFunctionOnSet(f, S) <= Cardinality(S) * k
<1> DEFINE Good == {U \in SUBSET S : /\ SumFunctionOnSet(f, U) \in Nat
                                    /\ SumFunctionOnSet(f, U) <= Cardinality(U) * k}
<1>1. ASSUME NEW U \in SUBSET S, \A V \in SUBSET U : V # U => V \in Good
      PROVE  U \in Good
  <2>1. IsFiniteSet(U) /\ Cardinality(U) \in Nat
    BY FS_Subset, FS_CardinalityType
  <2>2. CASE U = {}
    <3>1. SumFunctionOnSet(f, U) = 0 /\ Cardinality(U) = 0
      BY <2>1, <2>2, SumFirst, FS_EmptySet
    <3> QED
      BY <3>1
  <2>3. CASE U # {}
    <3>1. PICK x \in U : TRUE
      BY <2>3
    <3>2. /\ U \ {x} \in Good
          /\ SumFunctionOnSet(f, U) = f[x] + SumFunctionOnSet(f, U \ {x})
      BY <1>1, <2>1, <3>1, SumRemove
    <3>3. /\ IsFiniteSet(U \ {x}) /\ Cardinality(U) = Cardinality(U \ {x}) + 1
          /\ Cardinality(U \ {x}) \in Nat
      <4>1. IsFiniteSet(U \ {x}) /\ Cardinality(U \ {x}) = Cardinality(U) - 1
        BY <2>1, <3>1, FS_RemoveElement
      <4> QED
        BY <2>1, <4>1, FS_CardinalityType
    <3>4. \A n \in Nat : (n + 1) * k = n * k + k
      OBVIOUS
    <3>5. Cardinality(U \ {x}) * k \in Nat
      BY <3>3
    <3> QED
      BY <3>1, <3>2, <3>3, <3>4, <3>5
  <2> QED
    BY <2>2, <2>3
<1> HIDE DEF Good
<1>2. S \in Good
  BY <1>1, SubsetInduction
<1> QED
  BY <1>2 DEF Good

\* A summand that changes.
LEMMA SumChange ==
    ASSUME NEW S, IsFiniteSet(S), NEW f \in [S -> Int], NEW g \in [S -> Int], NEW x \in S,
           \A y \in S \ {x} : g[y] = f[y]
    PROVE  /\ SumFunction(f) \in Int /\ SumFunction(g) \in Int
           /\ SumFunction(g) - g[x] = SumFunction(f) - f[x]
<1> DEFINE R == S \ {x}
<1>1. IsFiniteSet(R)
  BY FS_Subset
<1>2. SumFunction(f) = SumFunctionOnSet(f, S) /\ SumFunction(g) = SumFunctionOnSet(g, S)
  BY DEF SumFunction
<1>3. SumFunctionOnSet(f, R) <= SumFunctionOnSet(g, R)
  BY <1>1, SumMonotone
<1>4. SumFunctionOnSet(g, R) <= SumFunctionOnSet(f, R)
  BY <1>1, SumMonotone
<1>5. /\ SumFunctionOnSet(f, S) = f[x] + SumFunctionOnSet(f, R)
      /\ SumFunctionOnSet(f, R) \in Int /\ SumFunctionOnSet(f, S) \in Int
  BY <1>1, SumRemove
<1>6. /\ SumFunctionOnSet(g, S) = g[x] + SumFunctionOnSet(g, R)
      /\ SumFunctionOnSet(g, R) \in Int /\ SumFunctionOnSet(g, S) \in Int
  BY <1>1, SumRemove
<1> HIDE DEF R
<1>7. SumFunctionOnSet(f, R) = SumFunctionOnSet(g, R)
  BY <1>3, <1>4, <1>5, <1>6
<1>8. f[x] \in Int /\ g[x] \in Int
  OBVIOUS
<1> QED
  BY <1>2, <1>5, <1>6, <1>7, <1>8

\* A sum of zeroes.
LEMMA SumZero ==
    ASSUME NEW f, IsFiniteSet(DOMAIN f), \A x \in DOMAIN f : f[x] \in 0 .. 0
    PROVE  SumFunction(f) = 0
<1>1. /\ SumFunctionOnSet(f, DOMAIN f) \in Nat
      /\ SumFunctionOnSet(f, DOMAIN f) <= Cardinality(DOMAIN f) * 0
  BY SumBounded
<1>2. Cardinality(DOMAIN f) \in Nat
  BY FS_CardinalityType
<1> QED
  BY <1>1, <1>2 DEF SumFunction

\* A sum of natural numbers is one.
LEMMA SumNat ==
    ASSUME NEW S, IsFiniteSet(S), NEW f \in [S -> Nat]
    PROVE  SumFunction(f) \in Nat
<1> DEFINE z == [x \in S |-> 0]
<1>1. /\ \A x \in S : z[x] \in Int /\ f[x] \in Int /\ z[x] <= f[x]
      /\ DOMAIN z = S /\ DOMAIN f = S /\ \A x \in S : z[x] \in 0 .. 0
  OBVIOUS
<1> HIDE DEF z
<1>2. SumFunctionOnSet(z, S) <= SumFunctionOnSet(f, S) /\ SumFunctionOnSet(f, S) \in Int
  BY <1>1, SumMonotone, SumRemove
<1>3. SumFunction(z) = 0
  BY <1>1, SumZero
<1> QED
  BY <1>1, <1>2, <1>3 DEF SumFunction

\* A summand is within the sum.
LEMMA SumMember ==
    ASSUME NEW S, IsFiniteSet(S), NEW f \in [S -> Nat], NEW x \in S
    PROVE  f[x] <= SumFunction(f)
<1> DEFINE g == [f EXCEPT ![x] = 0]
<1>1. g \in [S -> Nat] /\ g \in [S -> Int] /\ f \in [S -> Int] /\ g[x] = 0
      /\ \A y \in S \ {x} : g[y] = f[y]
  OBVIOUS
<1> HIDE DEF g
<1>2. SumFunction(g) \in Nat
  BY <1>1, SumNat
<1>3. SumFunction(g) - g[x] = SumFunction(f) - f[x] /\ SumFunction(f) \in Int
  BY <1>1, SumChange
<1>4. f[x] \in Nat
  OBVIOUS
<1> QED
  BY <1>1, <1>2, <1>3, <1>4

-----------------------------------------------------------------------------
\* The imports about to insert a row for the bucket of day d.
Inserting(d) == {i \in Importers : item[i] = d}

\* The types the argument needs.
ImportTypes ==
    /\ now \in Days
    /\ copies \in [Days -> Nat]
    /\ left \in [Importers -> SUBSET Days]
    /\ passed \in [Importers -> SUBSET Days]
    /\ item \in [Importers -> Days \cup {0}]

\* An import inserts on the strength of a lookup that may be old: every row
\* there is, or is about to be, is another import's.
CopiesInv ==
    /\ ImportTypes
    /\ \A d \in Days : copies[d] + Cardinality(Inserting(d)) <= Cardinality(Importers)

-----------------------------------------------------------------------------
\* The imports about to insert can be counted.
LEMMA InsertingFinite ==
    ASSUME NEW d \in Days
    PROVE  /\ IsFiniteSet(Inserting(d)) /\ Cardinality(Inserting(d)) \in Nat
           /\ Cardinality(Inserting(d)) <= Cardinality(Importers)
           /\ Cardinality(Importers) \in Nat
<1>1. Inserting(d) \subseteq Importers /\ IsFiniteSet(Importers)
  BY SpendAssumption DEF Inserting
<1> QED
  BY <1>1, FS_Subset, FS_CardinalityType

\* Only imports write what the invariant speaks of.
LEMMA ImportFrame ==
    [Next]_vars =>
        \/ UNCHANGED <<now, copies, imports>>
        \/ Tick
        \/ \E i \in Importers :
             \/ ImportStart(i) \/ ImportFind(i) \/ ImportUnread(i)
             \/ ImportInsert(i) \/ ImportError(i)
BY DEF Next, vars, ledger, calls, imports, CallStart, BudgetGate, QuotaGate,
       GateFailsOpen, CallSend, CallStops, CallRecord

\* The types are inductive.
LEMMA ImportTypesStep == ImportTypes /\ [Next]_vars => ImportTypes'
<1> SUFFICES ASSUME ImportTypes, [Next]_vars PROVE ImportTypes'
  OBVIOUS
<1> USE DEF ImportTypes
<1>1. CASE UNCHANGED <<now, copies, imports>>
  BY <1>1 DEF imports
<1>2. CASE Tick
  BY <1>2, SpendAssumption DEF Tick, Days, ledger, imports
<1>3. ASSUME NEW i \in Importers, ImportStart(i) PROVE ImportTypes'
  <2>1. PICK first \in 1 .. now, last \in 1 .. now :
          LET buckets == {d \in first .. last : bucket[d] > 0} IN
          \E end \in first .. last :
             /\ left' = [left EXCEPT ![i] = {d \in buckets : d <= end}]
             /\ passed' = [passed EXCEPT ![i] = {d \in buckets : d > end}]
    <3> HIDE DEF ImportTypes
    <3>1. ImportStart(i)
      BY <1>3
    <3> QED
      BY <3>1 DEF ImportStart
  <2>2. {d \in first .. last : bucket[d] > 0} \subseteq Days
    BY <2>1, SpendAssumption DEF Days
  <2>3. UNCHANGED <<now, copies, item>>
    BY <1>3 DEF ImportStart, ledger
  <2> QED
    BY <2>1, <2>2, <2>3
<1>4. ASSUME NEW i \in Importers, ImportFind(i) PROVE ImportTypes'
  BY <1>4 DEF ImportFind, ledger
<1>5. ASSUME NEW i \in Importers, ImportInsert(i) PROVE ImportTypes'
  BY <1>5 DEF ImportInsert
<1>6. ASSUME NEW i \in Importers, ImportError(i) PROVE ImportTypes'
  BY <1>6 DEF ImportError, ledger
<1>7. ASSUME NEW i \in Importers, ImportUnread(i) PROVE ImportTypes'
  BY <1>7 DEF ImportUnread, ledger
<1> QED
  BY <1>1, <1>2, <1>3, <1>4, <1>5, <1>6, <1>7, ImportFrame

\* No step adds to the rows and pending inserts of a bucket that has a row.
LEMMA CopiesStep == CopiesInv /\ [Next]_vars => CopiesInv'
<1> SUFFICES ASSUME CopiesInv, [Next]_vars, NEW d \in Days
             PROVE  copies'[d] + Cardinality(Inserting(d)') <= Cardinality(Importers)
  BY ImportTypesStep DEF CopiesInv
<1>1. ImportTypes /\ ImportTypes'
  BY ImportTypesStep DEF CopiesInv
<1>2. copies[d] \in Nat /\ copies'[d] \in Nat
  BY <1>1 DEF ImportTypes
<1>3. copies[d] + Cardinality(Inserting(d)) <= Cardinality(Importers)
  BY DEF CopiesInv
<1>4. /\ Cardinality(Inserting(d)) \in Nat /\ IsFiniteSet(Inserting(d))
      /\ Cardinality(Importers) \in Nat
  BY InsertingFinite
<1>5. /\ Inserting(d)' \subseteq Importers /\ IsFiniteSet(Inserting(d)')
      /\ Cardinality(Inserting(d)') \in Nat
      /\ Cardinality(Inserting(d)') <= Cardinality(Importers)
  <2>1. Inserting(d)' \subseteq Importers /\ IsFiniteSet(Importers)
    BY SpendAssumption DEF Inserting
  <2> QED
    BY <2>1, FS_Subset, FS_CardinalityType
\* A step that starts no insert into d and writes no row of it.
<1>6. CASE copies'[d] = copies[d] /\ Inserting(d)' \subseteq Inserting(d)
  BY <1>2, <1>3, <1>4, <1>5, <1>6, FS_Subset
<1>7. CASE UNCHANGED <<now, copies, imports>>
  BY <1>6, <1>7 DEF imports, Inserting
<1>8. CASE Tick
  BY <1>6, <1>8 DEF Tick, ledger, imports, Inserting
<1>9. ASSUME NEW i \in Importers,
             ImportStart(i) \/ ImportUnread(i) \/ ImportError(i)
      PROVE  copies'[d] + Cardinality(Inserting(d)') <= Cardinality(Importers)
  <2>1. copies'[d] = copies[d]
    BY <1>9 DEF ImportStart, ImportUnread, ImportError, ledger
  <2>2. Inserting(d)' \subseteq Inserting(d)
    BY <1>1, <1>9
       DEF ImportStart, ImportUnread, ImportError, ImportTypes, Inserting, Days
  <2> QED
    BY <1>6, <2>1, <2>2
\* The lookup found no row of d: the bound is what is left of the imports.
<1>10. ASSUME NEW i \in Importers, ImportFind(i)
       PROVE  copies'[d] + Cardinality(Inserting(d)') <= Cardinality(Importers)
  <2>1. copies'[d] = copies[d]
    BY <1>10 DEF ImportFind, ledger
  <2>2. CASE copies[d] = 0
    BY <1>5, <2>1, <2>2
  <2>3. CASE copies[d] # 0
    <3>1. Inserting(d)' \subseteq Inserting(d)
      BY <1>1, <1>2, <1>10, <2>3 DEF ImportFind, ImportTypes, Inserting
    <3> QED
      BY <1>6, <2>1, <3>1
  <2> QED
    BY <2>2, <2>3
\* An import about to insert becomes a row.
<1>11. ASSUME NEW i \in Importers, ImportInsert(i)
       PROVE  copies'[d] + Cardinality(Inserting(d)') <= Cardinality(Importers)
  <2>1. CASE item[i] = d
    <3>1. copies'[d] = copies[d] + 1
      BY <1>1, <1>11, <2>1 DEF ImportInsert, ImportTypes
    <3>2. i \in Inserting(d) /\ Inserting(d)' = Inserting(d) \ {i}
      BY <1>1, <1>11, <2>1 DEF ImportInsert, ImportTypes, Inserting, Days
    <3>3. Cardinality(Inserting(d)') = Cardinality(Inserting(d)) - 1
      BY <1>4, <3>2, FS_RemoveElement
    <3> QED
      BY <1>2, <1>3, <1>4, <3>1, <3>3
  <2>2. CASE item[i] # d
    <3>1. copies'[d] = copies[d]
      BY <1>1, <1>11, <2>2 DEF ImportInsert, ImportTypes
    <3>2. Inserting(d)' \subseteq Inserting(d)
      BY <1>1, <1>11 DEF ImportInsert, ImportTypes, Inserting, Days
    <3> QED
      BY <1>6, <3>1, <3>2
  <2> QED
    BY <2>1, <2>2
<1> QED
  BY <1>7, <1>8, <1>9, <1>10, <1>11, ImportFrame

\* There is no row at first.
LEMMA InitCopies == Init => CopiesInv
<1> SUFFICES ASSUME Init PROVE CopiesInv
  OBVIOUS
<1>1. ImportTypes
  BY SpendAssumption DEF Init, ImportTypes, Days
<1>2. ASSUME NEW d \in Days
      PROVE  copies[d] + Cardinality(Inserting(d)) <= Cardinality(Importers)
  BY InsertingFinite DEF Init
<1> QED
  BY <1>1, <1>2 DEF CopiesInv

\* The invariant bounds the rows.
LEMMA CopiesBound == CopiesInv => CopiesBounded
<1> SUFFICES ASSUME CopiesInv, NEW d \in Days PROVE copies[d] <= Cardinality(Importers)
  BY DEF CopiesBounded
<1>1. copies[d] \in Nat /\ copies[d] + Cardinality(Inserting(d)) <= Cardinality(Importers)
  BY DEF CopiesInv, ImportTypes
<1> QED
  BY <1>1, InsertingFinite

\* However imports race, fail and run again, a bucket of the cost report is
\* entered at most once by each import that can run at a time: the lookup of
\* its import key is old only by what is running (ai_governance.go:
\* ImportOpenAICosts, ImportAnthropicCosts).
THEOREM CopiesBoundedHolds == Spec => []CopiesBounded
BY InitCopies, CopiesStep, CopiesBound, PTL DEF Spec

\* The import key does make imports idempotent when no two of them overlap.
THEOREM ImportedOnceHolds ==
    ASSUME Cardinality(Importers) = 1
    PROVE  Spec => []ImportedOnce
<1>1. CopiesInv => ImportedOnce
  BY CopiesBound DEF CopiesBounded, ImportedOnce
<1> QED
  BY <1>1, InitCopies, CopiesStep, PTL DEF Spec

-----------------------------------------------------------------------------
\* What the provider has reported to an import that has not failed is
\* entered, still to come, or passed over.
CoverInv ==
    /\ ImportTypes
    /\ failed \in [Importers -> BOOLEAN]
    /\ DOMAIN report = Importers
    /\ \A i \in Importers, d \in Days :
         ~failed[i] /\ report[i][d] > 0 =>
             d \in left[i] \/ d \in passed[i] \/ copies[d] > 0

\* No step takes a row away, and an import drops a bucket from its list only
\* when the bucket has a row or is passed over, and forgets no bucket that it
\* has passed over before it starts again.
LEMMA CoverStep == CoverInv /\ [Next]_vars => CoverInv'
<1> SUFFICES ASSUME CoverInv, [Next]_vars PROVE CoverInv'
  OBVIOUS
<1> DEFINE Covered(i, d) ==
             ~failed[i] /\ report[i][d] > 0 =>
                 d \in left[i] \/ d \in passed[i] \/ copies[d] > 0
<1>1. ImportTypes /\ ImportTypes'
  BY ImportTypesStep DEF CoverInv
<1>2. failed \in [Importers -> BOOLEAN] /\ DOMAIN report = Importers
  BY DEF CoverInv
<1>3. \A i \in Importers, d \in Days : Covered(i, d)
  BY DEF CoverInv
<1>4. CASE UNCHANGED <<now, copies, imports>>
  BY <1>1, <1>2, <1>3, <1>4 DEF CoverInv, imports
<1>5. CASE Tick
  BY <1>1, <1>2, <1>3, <1>5 DEF CoverInv, Tick, ledger, imports
<1>6. ASSUME NEW i \in Importers,
             \/ ImportStart(i) \/ ImportFind(i) \/ ImportUnread(i)
             \/ ImportInsert(i) \/ ImportError(i)
      PROVE  CoverInv'
  <2>1. failed' \in [Importers -> BOOLEAN] /\ DOMAIN report' = Importers
    BY <1>2, <1>6 DEF ImportStart, ImportFind, ImportUnread, ImportInsert, ImportError
  <2>2. ASSUME NEW d \in Days, copies[d] > 0 PROVE copies'[d] > 0
    BY <1>1, <1>6, <2>2
       DEF ImportTypes, ImportStart, ImportFind, ImportUnread, ImportInsert,
           ImportError, ledger
  \* The other imports keep what they have.
  <2>3. ASSUME NEW j \in Importers \ {i}, NEW d \in Days PROVE Covered(j, d)'
    <3>1. /\ failed'[j] = failed[j] /\ report'[j] = report[j]
          /\ left'[j] = left[j] /\ passed'[j] = passed[j]
      BY <1>1, <1>2, <1>6
         DEF ImportTypes, ImportStart, ImportFind, ImportUnread, ImportInsert, ImportError
    <3> QED
      BY <1>3, <2>2, <3>1
  <2>4. ASSUME NEW d \in Days PROVE Covered(i, d)'
    <3>1. CASE ImportStart(i)
      <4>1. PICK first \in 1 .. now, last \in 1 .. now :
              LET buckets == {e \in first .. last : bucket[e] > 0} IN
              /\ report' = [report EXCEPT ![i] =
                               [e \in Days |-> IF e \in buckets THEN bucket[e] ELSE 0]]
              /\ \E end \in first .. last :
                   /\ left' = [left EXCEPT ![i] = {e \in buckets : e <= end}]
                   /\ passed' = [passed EXCEPT ![i] = {e \in buckets : e > end}]
        BY <3>1 DEF ImportStart
      <4>2. now \in Int /\ d \in Int
        BY <1>1, SpendAssumption DEF ImportTypes, Days
      <4>3. CASE d \in first .. last /\ bucket[d] > 0
        <5>1. PICK end \in first .. last :
                LET buckets == {e \in first .. last : bucket[e] > 0} IN
                /\ left'[i] = {e \in buckets : e <= end}
                /\ passed'[i] = {e \in buckets : e > end}
          BY <1>1, <4>1 DEF ImportTypes
        <5>2. d <= end \/ d > end
          BY <4>1, <4>2
        <5> QED
          BY <4>3, <5>1, <5>2
      <4>4. CASE ~(d \in first .. last /\ bucket[d] > 0)
        <5>1. report'[i][d] = 0
          BY <1>2, <4>1, <4>4
        <5> QED
          BY <5>1
      <4> QED
        BY <4>3, <4>4
    <3>2. CASE ImportFind(i)
      <4>1. /\ failed' = failed /\ report' = report
            /\ passed' = passed /\ copies' = copies
        BY <3>2 DEF ImportFind, ledger
      <4>2. d \in left[i] => d \in left'[i] \/ copies[d] > 0
        BY <1>1, <3>2 DEF ImportFind, ImportTypes
      <4> QED
        BY <1>3, <4>1, <4>2
    <3>3. CASE ImportInsert(i)
      <4>1. failed' = failed /\ report' = report /\ passed' = passed
        BY <3>3 DEF ImportInsert
      <4>2. d \in left[i] => d \in left'[i] \/ copies'[d] > 0
        BY <1>1, <3>3 DEF ImportInsert, ImportTypes
      <4> QED
        BY <1>3, <2>2, <4>1, <4>2
    <3>4. CASE ImportError(i)
      BY <1>2, <3>4 DEF ImportError
    <3>5. CASE ImportUnread(i)
      <4>1. failed' = failed /\ report' = report /\ copies' = copies
        BY <3>5 DEF ImportUnread, ledger
      <4>2. /\ d \in left[i] => d \in left'[i] \/ d \in passed'[i]
            /\ d \in passed[i] => d \in passed'[i]
        BY <1>1, <3>5 DEF ImportUnread, ImportTypes
      <4> QED
        BY <1>3, <4>1, <4>2
    <3> QED
      BY <1>6, <3>1, <3>2, <3>3, <3>4, <3>5
  <2> QED
    BY <1>1, <2>1, <2>3, <2>4 DEF CoverInv
<1> QED
  BY <1>4, <1>5, <1>6, ImportFrame

\* No import has been given a report at first.
LEMMA InitCovers == Init => CoverInv
<1> SUFFICES ASSUME Init PROVE CoverInv
  OBVIOUS
<1>1. ImportTypes
  BY InitCopies DEF CopiesInv
<1> QED
  BY <1>1 DEF Init, CoverInv

\* An import that ended without an error has entered, or found, every bucket
\* of the days it was asked for but those it passed over, whatever other
\* imports did meanwhile and wherever earlier ones failed (ai_governance.go:
\* ImportOpenAICosts, ImportAnthropicCosts).
THEOREM ImportCoversHolds == Spec => []ImportCovers
<1>1. CoverInv => ImportCovers
  BY DEF CoverInv, ImportCovers
<1> QED
  BY <1>1, InitCovers, CoverStep, PTL DEF Spec

-----------------------------------------------------------------------------
(***************************************************************************)
(* The ledger.                                                             *)
(***************************************************************************)

\* The types of everything the ledger is made from.
LedgerTypes ==
    /\ ImportTypes
    /\ bucket \in [Days -> Nat]
    /\ estimate \in Nat
    /\ imported \in [Days -> Nat]
    /\ stage \in [Callers -> CallStages]
    /\ cost \in [Callers -> Nat]
    /\ report \in [Importers -> [Days -> Nat]]
    /\ failed \in [Importers -> BOOLEAN]

\* What the gateway has estimated, and is about to, is within the charges.
MoneyInv ==
    /\ Charged <= MaxSpend
    /\ estimate + SumFunction(cost) <= Charged
    /\ \A c \in Callers : stage[c] # "record" => cost[c] = 0

\* A bucket only grows after it was reported, and the row of a bucket that
\* was entered once is a report of it.
BucketInv ==
    \A d \in Days :
        /\ \A i \in Importers : report[i][d] <= bucket[d]
        /\ copies[d] = 0 => imported[d] = 0
        /\ copies[d] = 1 => imported[d] <= bucket[d]

LedgerInv == LedgerTypes /\ MoneyInv /\ BucketInv

\* Days and callers can be summed over.
LEMMA LedgerFinite ==
    /\ IsFiniteSet(Days) /\ Days \subseteq Nat
    /\ IsFiniteSet(Callers)
    /\ LedgerTypes => Charged \in Nat /\ SumFunction(cost) \in Nat
<1>1. IsFiniteSet(Days) /\ Days \subseteq Nat
  BY SpendAssumption, FS_Interval DEF Days
<1>2. IsFiniteSet(Callers)
  BY SpendAssumption
<1>3. ASSUME LedgerTypes PROVE Charged \in Nat /\ SumFunction(cost) \in Nat
  BY <1>1, <1>2, <1>3, SumNat DEF LedgerTypes, Charged
<1> QED
  BY <1>1, <1>2, <1>3

\* What the provider serves it charges for, today.
LEMMA SendCharges ==
    ASSUME LedgerTypes, NEW c \in Callers, CallSend(c)
    PROVE  \E k \in Costs :
             /\ k \in Nat
             /\ bucket' = [bucket EXCEPT ![now] = @ + k]
             /\ Charged' = Charged + k
             /\ Charged' <= MaxSpend
             /\ \/ /\ stage' = [stage EXCEPT ![c] = "record"]
                   /\ cost' = [cost EXCEPT ![c] = k]
                \/ /\ "lost" \in Faults
                   /\ stage' = [stage EXCEPT ![c] = "idle"]
                   /\ cost' = cost
<1>1. PICK k \in Costs :
        /\ Charged + k <= MaxSpend
        /\ bucket' = [bucket EXCEPT ![now] = @ + k]
        /\ \/ /\ stage' = [stage EXCEPT ![c] = "record"]
              /\ cost' = [cost EXCEPT ![c] = k]
           \/ /\ "lost" \in Faults
              /\ stage' = [stage EXCEPT ![c] = "idle"]
              /\ cost' = cost
  BY DEF CallSend
<1>2. k \in Nat
  BY SpendAssumption
<1>3. now \in Days /\ bucket \in [Days -> Int] /\ bucket' \in [Days -> Int]
  BY <1>1, <1>2 DEF LedgerTypes, ImportTypes
<1>4. bucket'[now] = bucket[now] + k /\ bucket[now] \in Nat
      /\ \A d \in Days \ {now} : bucket'[d] = bucket[d]
  BY <1>1, <1>3 DEF LedgerTypes
<1>5. Charged' = Charged + k
  <2>1. /\ SumFunction(bucket) \in Int /\ SumFunction(bucket') \in Int
        /\ SumFunction(bucket') - bucket'[now] = SumFunction(bucket) - bucket[now]
    BY <1>3, <1>4, LedgerFinite, SumChange
  <2> QED
    BY <1>2, <1>4, <2>1 DEF Charged
<1> QED
  BY <1>1, <1>2, <1>5

\* Every step keeps the types of the ledger.
LEMMA LedgerTypesStep == LedgerTypes /\ [Next]_vars => LedgerTypes'
<1> SUFFICES ASSUME LedgerTypes, [Next]_vars PROVE LedgerTypes'
  OBVIOUS
<1>1. ImportTypes'
  BY ImportTypesStep DEF LedgerTypes
<1> USE DEF LedgerTypes
<1>2. CASE UNCHANGED vars \/ Tick
  BY <1>1, <1>2 DEF vars, Tick, ledger, calls, imports
<1>3. ASSUME NEW c \in Callers,
             CallStart(c) \/ BudgetGate(c) \/ QuotaGate(c) \/ GateFailsOpen(c) \/ CallStops(c)
      PROVE  LedgerTypes'
  <2>1. UNCHANGED <<bucket, ledger, cost, imports>>
    BY <1>3 DEF CallStart, BudgetGate, QuotaGate, GateFailsOpen, CallStops
  <2>2. stage' \in [Callers -> CallStages]
    BY <1>3 DEF CallStart, BudgetGate, QuotaGate, GateFailsOpen, CallStops, CallStages
  <2> QED
    BY <1>1, <2>1, <2>2 DEF ledger, imports
<1>4. ASSUME NEW c \in Callers, CallSend(c) PROVE LedgerTypes'
  <2>1. UNCHANGED <<ledger, imports>>
    BY <1>4 DEF CallSend
  <2>2. PICK k \in Costs :
          /\ k \in Nat /\ bucket' = [bucket EXCEPT ![now] = @ + k]
          /\ \/ /\ stage' = [stage EXCEPT ![c] = "record"]
                /\ cost' = [cost EXCEPT ![c] = k]
             \/ /\ stage' = [stage EXCEPT ![c] = "idle"]
                /\ cost' = cost
    BY <1>4, SendCharges
  <2>3. bucket' \in [Days -> Nat]
    BY <2>2 DEF ImportTypes
  <2>4. stage' \in [Callers -> CallStages] /\ cost' \in [Callers -> Nat]
    BY <2>2 DEF CallStages
  <2> QED
    BY <1>1, <2>1, <2>3, <2>4 DEF ledger, imports
<1>5. ASSUME NEW c \in Callers, CallRecord(c) PROVE LedgerTypes'
  BY <1>1, <1>5 DEF CallRecord, CallStages, imports
<1>6. ASSUME NEW i \in Importers, ImportStart(i) PROVE LedgerTypes'
  <2>1. UNCHANGED <<bucket, ledger, calls>>
    BY <1>6 DEF ImportStart
  <2>2. report' \in [Importers -> [Days -> Nat]] /\ failed' \in [Importers -> BOOLEAN]
    BY <1>6 DEF ImportStart
  <2> QED
    BY <1>1, <2>1, <2>2 DEF ledger, calls
<1>7. ASSUME NEW i \in Importers,
             ImportFind(i) \/ ImportUnread(i) \/ ImportError(i)
      PROVE  LedgerTypes'
  BY <1>1, <1>7 DEF ImportFind, ImportUnread, ImportError, ledger, calls
<1>8. ASSUME NEW i \in Importers, ImportInsert(i) PROVE LedgerTypes'
  <2>1. item[i] \in Days
    BY <1>8 DEF ImportInsert, ImportTypes
  <2> QED
    BY <1>1, <1>8, <2>1 DEF ImportInsert, calls
<1> QED
  BY <1>2, <1>3, <1>4, <1>5, <1>6, <1>7, <1>8 DEF Next

\* An estimate is a charge that was answered.
LEMMA MoneyStep == LedgerTypes /\ MoneyInv /\ [Next]_vars => MoneyInv'
<1> SUFFICES ASSUME LedgerTypes, MoneyInv, [Next]_vars PROVE MoneyInv'
  OBVIOUS
<1>1. /\ Charged \in Nat /\ SumFunction(cost) \in Nat /\ estimate \in Nat
      /\ IsFiniteSet(Callers) /\ MaxSpend \in Nat
  BY LedgerFinite, SpendAssumption DEF LedgerTypes
<1>2. CASE /\ UNCHANGED <<bucket, estimate, cost>>
           /\ \A c \in Callers : stage'[c] # "record" => stage[c] # "record" \/ cost[c] = 0
  <2>1. Charged' = Charged /\ SumFunction(cost)' = SumFunction(cost) /\ estimate' = estimate
    BY <1>2 DEF Charged
  <2> QED
    BY <1>2, <2>1 DEF MoneyInv
<1>3. CASE UNCHANGED vars \/ Tick
  BY <1>2, <1>3 DEF vars, Tick, ledger, calls, imports, MoneyInv
<1>4. ASSUME NEW c \in Callers,
             CallStart(c) \/ BudgetGate(c) \/ QuotaGate(c) \/ GateFailsOpen(c) \/ CallStops(c)
      PROVE  MoneyInv'
  <2>1. UNCHANGED <<bucket, estimate, cost>>
    BY <1>4 DEF CallStart, BudgetGate, QuotaGate, GateFailsOpen, CallStops, ledger
  <2>2. ASSUME NEW k \in Callers, stage[k] = "record" PROVE stage'[k] = "record"
    BY <1>4, <2>2 DEF CallStart, BudgetGate, QuotaGate, GateFailsOpen, CallStops, LedgerTypes
  <2> QED
    BY <1>2, <2>1, <2>2
<1>5. ASSUME NEW c \in Callers, CallSend(c) PROVE MoneyInv'
  <2>1. estimate' = estimate /\ cost[c] = 0
    BY <1>5 DEF CallSend, ledger, MoneyInv
  <2>2. PICK k \in Costs :
          /\ k \in Nat /\ Charged' = Charged + k /\ Charged' <= MaxSpend
          /\ \/ /\ stage' = [stage EXCEPT ![c] = "record"]
                /\ cost' = [cost EXCEPT ![c] = k]
             \/ /\ stage' = [stage EXCEPT ![c] = "idle"]
                /\ cost' = cost
    BY <1>5, SendCharges
  <2>3. \A b \in Callers : stage'[b] # "record" => cost'[b] = 0
    BY <2>1, <2>2 DEF MoneyInv, LedgerTypes
  <2>4. SumFunction(cost') <= SumFunction(cost) + k
    <3>1. CASE cost' = cost
      BY <1>1, <2>2, <3>1
    <3>2. CASE cost' = [cost EXCEPT ![c] = k]
      <4>1. cost \in [Callers -> Int] /\ cost' \in [Callers -> Int]
        BY <2>2, <3>2 DEF LedgerTypes
      <4>2. cost'[c] = k /\ \A b \in Callers \ {c} : cost'[b] = cost[b]
        BY <3>2, <4>1
      <4>3. SumFunction(cost') - cost'[c] = SumFunction(cost) - cost[c]
            /\ SumFunction(cost') \in Int
        BY <1>1, <4>1, <4>2, SumChange
      <4> QED
        BY <1>1, <2>1, <2>2, <4>2, <4>3
    <3> QED
      BY <2>2, <3>1, <3>2
  <2>5. SumFunction(cost') \in Nat
    BY LedgerTypesStep, LedgerFinite, <1>1, SumNat DEF LedgerTypes
  <2> QED
    BY <1>1, <2>1, <2>2, <2>3, <2>4, <2>5 DEF MoneyInv
<1>6. ASSUME NEW c \in Callers, CallRecord(c) PROVE MoneyInv'
  <2>1. Charged' = Charged
    BY <1>6 DEF CallRecord, Charged
  <2>2. /\ cost \in [Callers -> Int] /\ cost' \in [Callers -> Int]
        /\ cost' = [cost EXCEPT ![c] = 0] /\ cost[c] \in Nat
    BY <1>6 DEF CallRecord, LedgerTypes
  <2>3. cost'[c] = 0 /\ \A b \in Callers \ {c} : cost'[b] = cost[b]
    BY <2>2
  <2>4. SumFunction(cost') - cost'[c] = SumFunction(cost) - cost[c]
        /\ SumFunction(cost') \in Int
    <3>1. cost \in [Callers -> Int] /\ cost' \in [Callers -> Int] /\ IsFiniteSet(Callers)
      BY <1>1, <2>2
    <3>2. \A b \in Callers \ {c} : cost'[b] = cost[b]
      BY <2>3
    <3> QED
      BY <3>1, <3>2, SumChange
  <2>5. estimate' = estimate + cost[c] \/ estimate' = estimate
    BY <1>6 DEF CallRecord
  <2>6. \A b \in Callers : stage'[b] # "record" => cost'[b] = 0
    BY <1>6, <2>3 DEF CallRecord, MoneyInv, LedgerTypes
  <2> QED
    BY <1>1, <2>1, <2>2, <2>3, <2>4, <2>5, <2>6 DEF MoneyInv
<1>7. ASSUME NEW i \in Importers,
             \/ ImportStart(i) \/ ImportFind(i) \/ ImportUnread(i)
             \/ ImportInsert(i) \/ ImportError(i)
      PROVE  MoneyInv'
  <2>1. UNCHANGED <<bucket, estimate, calls>>
    BY <1>7
       DEF ImportStart, ImportFind, ImportUnread, ImportInsert, ImportError, ledger
  <2> QED
    BY <1>2, <2>1 DEF calls, MoneyInv
<1> QED
  BY <1>3, <1>4, <1>5, <1>6, <1>7 DEF Next

\* A row is written from a report, and a bucket grows only by charges.
LEMMA BucketStep == LedgerTypes /\ BucketInv /\ [Next]_vars => BucketInv'
<1> SUFFICES ASSUME LedgerTypes, BucketInv, [Next]_vars, NEW d \in Days
             PROVE  /\ \A i \in Importers : report'[i][d] <= bucket'[d]
                    /\ copies'[d] = 0 => imported'[d] = 0
                    /\ copies'[d] = 1 => imported'[d] <= bucket'[d]
  BY DEF BucketInv
<1>1. LedgerTypes'
  BY LedgerTypesStep
<1>2. /\ bucket[d] \in Nat /\ bucket'[d] \in Nat
      /\ imported[d] \in Nat /\ imported'[d] \in Nat /\ copies[d] \in Nat
      /\ \A i \in Importers : report[i][d] \in Nat /\ report'[i][d] \in Nat
  BY <1>1 DEF LedgerTypes, ImportTypes
<1>3. CASE bucket[d] <= bucket'[d] /\ UNCHANGED <<copies, imported, report>>
  BY <1>2, <1>3 DEF BucketInv
<1>4. CASE UNCHANGED vars \/ Tick
  BY <1>2, <1>3, <1>4 DEF vars, Tick, ledger, calls, imports
<1>5. ASSUME NEW c \in Callers,
             \/ CallStart(c) \/ BudgetGate(c) \/ QuotaGate(c) \/ GateFailsOpen(c)
             \/ CallStops(c) \/ CallRecord(c)
      PROVE  bucket[d] <= bucket'[d] /\ UNCHANGED <<copies, imported, report>>
  BY <1>2, <1>5
     DEF CallStart, BudgetGate, QuotaGate, GateFailsOpen, CallStops, CallRecord, ledger, imports
<1>6. ASSUME NEW c \in Callers, CallSend(c)
      PROVE  bucket[d] <= bucket'[d] /\ UNCHANGED <<copies, imported, report>>
  <2>1. PICK k \in Costs : k \in Nat /\ bucket' = [bucket EXCEPT ![now] = @ + k]
    BY <1>6, SendCharges
  <2>2. bucket[d] <= bucket'[d]
    BY <1>2, <2>1 DEF LedgerTypes, ImportTypes
  <2> QED
    BY <1>6, <2>2 DEF CallSend, ledger, imports
<1>7. ASSUME NEW i \in Importers, ImportStart(i)
      PROVE  /\ \A j \in Importers : report'[j][d] <= bucket'[d]
             /\ UNCHANGED <<bucket, copies, imported>>
  <2>1. UNCHANGED <<bucket, copies, imported>>
    BY <1>7 DEF ImportStart, ledger
  <2>2. \A j \in Importers \ {i} : report'[j] = report[j]
    BY <1>7 DEF ImportStart, LedgerTypes
  <2>3. report'[i][d] = bucket[d] \/ report'[i][d] = 0
    BY <1>7 DEF ImportStart, LedgerTypes
  <2> QED
    BY <1>2, <2>1, <2>2, <2>3 DEF BucketInv
<1>8. ASSUME NEW i \in Importers,
             ImportFind(i) \/ ImportUnread(i) \/ ImportError(i)
      PROVE  bucket[d] <= bucket'[d] /\ UNCHANGED <<copies, imported, report>>
  BY <1>2, <1>8 DEF ImportFind, ImportUnread, ImportError, ledger
<1>9. ASSUME NEW i \in Importers, ImportInsert(i)
      PROVE  /\ copies'[d] = 0 => imported'[d] = 0
             /\ copies'[d] = 1 => imported'[d] <= bucket'[d]
             /\ UNCHANGED <<bucket, report>>
  <2>1. item[i] \in Days /\ UNCHANGED <<bucket, report>>
    BY <1>9 DEF ImportInsert, LedgerTypes, ImportTypes
  <2>2. CASE item[i] = d
    <3>1. copies'[d] = copies[d] + 1 /\ imported'[d] = imported[d] + report[i][d]
      BY <1>9, <2>2 DEF ImportInsert, LedgerTypes, ImportTypes
    <3> QED
      BY <1>2, <2>1, <3>1 DEF BucketInv
  <2>3. CASE item[i] # d
    <3>1. copies'[d] = copies[d] /\ imported'[d] = imported[d]
      BY <1>9, <2>3 DEF ImportInsert, LedgerTypes, ImportTypes
    <3> QED
      BY <2>1, <3>1 DEF BucketInv
  <2> QED
    BY <2>2, <2>3
<1> QED
  BY <1>3, <1>4, <1>5, <1>6, <1>7, <1>8, <1>9 DEF Next, BucketInv

\* An empty ledger is in order.
LEMMA InitLedger == Init => LedgerInv
<1> SUFFICES ASSUME Init PROVE LedgerInv
  OBVIOUS
<1>1. LedgerTypes
  BY InitCopies DEF Init, CopiesInv, LedgerTypes, CallStages
<1>2. SumFunction(cost) = 0 /\ Charged = 0
  <2>1. \A c \in Callers : cost[c] \in 0 .. 0
    BY DEF Init
  <2>2. \A d \in Days : bucket[d] \in 0 .. 0
    BY DEF Init
  <2>3. DOMAIN cost = Callers /\ DOMAIN bucket = Days
    BY DEF Init
  <2> QED
    BY <2>1, <2>2, <2>3, LedgerFinite, SumZero DEF Charged
<1>3. MoneyInv
  BY <1>2, SpendAssumption DEF Init, MoneyInv
<1>4. BucketInv
  BY DEF Init, BucketInv
<1> QED
  BY <1>1, <1>3, <1>4 DEF LedgerInv

\* Every step keeps the ledger in order.
LEMMA LedgerStep == LedgerInv /\ [Next]_vars => LedgerInv'
BY LedgerTypesStep, MoneyStep, BucketStep DEF LedgerInv

\* The ledger is within its types: no bucket, no report, no cost and no
\* estimate exceeds what the provider may charge, and no bucket has more rows
\* than there are imports (ai_usage_records).
LEMMA LedgerIsTyped == LedgerInv /\ CopiesInv => TypeOK
<1> SUFFICES ASSUME LedgerInv, CopiesInv PROVE TypeOK
  OBVIOUS
<1> USE DEF LedgerInv, LedgerTypes, ImportTypes
<1>1. /\ Charged \in Nat /\ Charged <= MaxSpend /\ MaxSpend \in Nat
      /\ estimate + SumFunction(cost) <= Charged /\ SumFunction(cost) \in Nat
  BY LedgerFinite, SpendAssumption DEF MoneyInv
<1>2. \A d \in Days : bucket[d] <= Charged
  BY LedgerFinite, SumMember DEF Charged
<1>3. \A c \in Callers : cost[c] <= SumFunction(cost)
  BY LedgerFinite, SumMember
<1>4. bucket \in [Days -> Money]
  BY <1>1, <1>2 DEF Money
<1>5. estimate \in Money
  BY <1>1 DEF Money
<1>6. cost \in [Callers -> Money]
  BY <1>1, <1>3 DEF Money
<1>7. report \in [Importers -> [Days -> Money]]
  <2>1. \A i \in Importers, d \in Days : report[i][d] <= MaxSpend
    BY <1>1, <1>2 DEF BucketInv
  <2> QED
    BY <1>1, <2>1 DEF Money
<1>8. copies \in [Days -> 0 .. Cardinality(Importers)]
  <2>1. \A d \in Days : copies[d] <= Cardinality(Importers)
    BY CopiesBound DEF CopiesBounded
  <2>2. Cardinality(Importers) \in Nat
    BY SpendAssumption, FS_CardinalityType
  <2> QED
    BY <2>1, <2>2
<1> QED
  BY <1>4, <1>5, <1>6, <1>7, <1>8 DEF TypeOK

\* What the bookkeeping of the gateway and of the imports may hold.
THEOREM SpendTypeOK == Spec => []TypeOK
BY InitLedger, LedgerStep, InitCopies, CopiesStep, LedgerIsTyped, PTL DEF Spec

\* The ledger does not count more than the provider has charged, from
\* whichever rows it counts: estimates are charges that were answered, and a
\* bucket that was entered once was entered as it was reported.
LEMMA LedgerCounts == LedgerInv => CountedWithinCharged
<1> SUFFICES ASSUME LedgerInv, \A d \in Days : copies[d] <= 1 PROVE Counted <= Charged
  BY DEF CountedWithinCharged
<1> USE DEF LedgerInv, LedgerTypes, ImportTypes
<1>1. Charged \in Nat /\ SumFunction(cost) \in Nat
  BY LedgerFinite
<1>2. estimate <= Charged
  BY <1>1 DEF MoneyInv
<1>3. SumFunction(imported) <= Charged
  <2>1. ASSUME NEW d \in Days
        PROVE  imported[d] \in Int /\ bucket[d] \in Int /\ imported[d] <= bucket[d]
    <3>1. copies[d] \in Nat /\ copies[d] <= 1 /\ imported[d] \in Nat /\ bucket[d] \in Nat
      OBVIOUS
    <3>2. \A n \in Nat : n <= 1 => n = 0 \/ n = 1
      OBVIOUS
    <3>3. /\ copies[d] = 0 => imported[d] = 0
          /\ copies[d] = 1 => imported[d] <= bucket[d]
      BY DEF BucketInv
    <3>4. copies[d] = 0 \/ copies[d] = 1
      BY <3>1, <3>2
    <3> QED
      BY <3>1, <3>3, <3>4
  <2>2. SumFunctionOnSet(imported, Days) <= SumFunctionOnSet(bucket, Days)
    BY <2>1, LedgerFinite, SumMonotone
  <2> QED
    BY <2>2 DEF SumFunction, Charged
<1> QED
  BY <1>2, <1>3 DEF Counted

\* Whatever callers and imports do at a time, whatever answers and rows are
\* lost and whichever import fails half-way, a ledger without a bucket that
\* racing imports entered twice never shows more than was charged, so that
\* the gate refuses no call too early (ai_governance.go: aiCostUSD and the
\* rule that a provider's report supersedes the estimates).
THEOREM CountedWithinChargedHolds == Spec => []CountedWithinCharged
BY InitLedger, LedgerStep, LedgerCounts, PTL DEF Spec

-----------------------------------------------------------------------------
(***************************************************************************)
(* The overspend of calls that pass the gate together.                     *)
(***************************************************************************)

\* What is still to come of a call that has passed the lower of the two
\* limits: its cost, once that is known.
Exposure ==
    [c \in Callers |->
        IF stage[c] = "record" THEN cost[c]
        ELSE IF stage[c] = "send" \/ (stage[c] = "quota" /\ BudgetLimit <= CostQuota)
             THEN MaxCost ELSE 0]

Bound == Limit - 1 + Cardinality(Callers) * MaxCost

\* Every charge is an estimate or about to become one, and estimates and
\* exposure together never grow past what they are when a call passes: there
\* is less than the limit, and no call has more to come than the highest cost.
ExposureInv ==
    /\ LedgerTypes
    /\ estimate + SumFunction(cost) = Charged
    /\ \A c \in Callers : cost[c] <= MaxCost /\ (stage[c] # "record" => cost[c] = 0)
    /\ \A d \in Days : copies[d] = 0
    /\ estimate + SumFunction(Exposure) <= Bound

\* There is a highest cost.
LEMMA MaxCostIs ==
    ASSUME Costs # {}
    PROVE  MaxCost \in Costs /\ MaxCost \in Nat /\ \A k \in Costs : k <= MaxCost
<1> DEFINE T == {MaxSpend - k : k \in Costs}
           R == OpToRel(<, Nat)
<1>0. MaxSpend \in Nat /\ \A k \in Costs : k \in Nat /\ k <= MaxSpend
  BY SpendAssumption
<1>1. T \subseteq Nat /\ T # {}
  <2>1. \A k \in Costs : MaxSpend - k \in Nat
    BY <1>0
  <2> QED
    BY <2>1
<1>2. PICK m \in T : \A n \in T : ~(<<n, m>> \in R)
  <2>1. IsWellFoundedOn(R, Nat)
    BY NatLessThanWellFounded
  <2> HIDE DEF T, R
  <2> QED
    BY <1>1, <2>1, WFMin
<1>3. \A n \in T : m <= n
  <2> SUFFICES ASSUME NEW n \in T, ~(m <= n) PROVE FALSE
    OBVIOUS
  <2>1. n \in Nat /\ m \in Nat
    BY <1>1
  <2>2. n < m
    BY <2>1
  <2>3. <<n, m>> \in R
    BY <2>1, <2>2 DEF OpToRel
  <2> QED
    BY <1>2, <2>3
<1>4. PICK k \in Costs : m = MaxSpend - k
  OBVIOUS
<1>5. \A j \in Costs : j <= k
  <2> SUFFICES ASSUME NEW j \in Costs PROVE j <= k
    OBVIOUS
  <2>1. MaxSpend - k <= MaxSpend - j
    BY <1>3, <1>4
  <2> QED
    BY <1>0, <2>1
<1>6. \E i \in Costs : \A j \in Costs : j <= i
  BY <1>5
<1>7. MaxCost \in Costs /\ \A j \in Costs : j <= MaxCost
  <2> HIDE DEF T, R
  <2> QED
    BY <1>6, Zenon DEF MaxCost
<1> QED
  BY <1>0, <1>7

\* A caller's exposure is a cost.
LEMMA ExposureTyped ==
    ASSUME ExposureInv, Costs # {}
    PROVE  /\ Exposure \in [Callers -> Nat]
           /\ \A c \in Callers : Exposure[c] \in 0 .. MaxCost /\ cost[c] <= Exposure[c]
           /\ SumFunction(Exposure) \in Nat
<1>1. MaxCost \in Nat
  BY MaxCostIs
<1>2. \A c \in Callers : Exposure[c] \in 0 .. MaxCost /\ cost[c] <= Exposure[c]
  BY <1>1 DEF ExposureInv, LedgerTypes, Exposure
<1>3. Exposure \in [Callers -> Nat]
  BY <1>1 DEF ExposureInv, LedgerTypes, Exposure
<1> QED
  BY <1>2, <1>3, LedgerFinite, SumNat

\* No exposure is more than that of all callers at their highest cost.
LEMMA ExposureMost ==
    ASSUME Costs # {}, NEW f \in [Callers -> Nat], \A c \in Callers : f[c] \in 0 .. MaxCost
    PROVE  SumFunction(f) <= Cardinality(Callers) * MaxCost
<1>1. DOMAIN f = Callers /\ IsFiniteSet(Callers) /\ MaxCost \in Nat
  BY LedgerFinite, MaxCostIs
<1> QED
  BY <1>1, SumBounded DEF SumFunction

\* The bound is a number, with the parts it is made of.
LEMMA BoundTyped ==
    ASSUME Costs # {}
    PROVE  /\ Bound \in Nat /\ Cardinality(Callers) * MaxCost \in Nat /\ Limit \in Nat \ {0}
           /\ Bound = Limit - 1 + Cardinality(Callers) * MaxCost
<1>1. Limit \in Nat \ {0}
  BY SpendAssumption DEF Limit
<1>2. Cardinality(Callers) \in Nat /\ MaxCost \in Nat
  BY LedgerFinite, FS_CardinalityType, MaxCostIs
<1>3. Cardinality(Callers) * MaxCost \in Nat
  BY <1>2
<1> QED
  BY <1>1, <1>3 DEF Bound

\* How a step keeps the bound: by adding nothing to the exposure of anybody,
\* by being below the limit, or by turning exposure into an estimate.
LEMMA ExposureKept ==
    ASSUME Costs # {}, ExposureInv,
           estimate' \in Nat, Exposure' \in [Callers -> Nat],
           \A c \in Callers : Exposure'[c] <= MaxCost,
           \/ estimate' = estimate /\ \A c \in Callers : Exposure'[c] <= Exposure[c]
           \/ estimate' < Limit
           \/ \E c \in Callers :
                /\ estimate' = estimate + Exposure[c] /\ Exposure'[c] = 0
                /\ \A b \in Callers \ {c} : Exposure'[b] = Exposure[b]
    PROVE  estimate' + SumFunction(Exposure') <= Bound
<1>1. /\ SumFunction(Exposure) \in Nat /\ SumFunction(Exposure') \in Nat
      /\ estimate \in Nat /\ IsFiniteSet(Callers) /\ MaxCost \in Nat
      /\ Exposure \in [Callers -> Nat]
      /\ estimate + SumFunction(Exposure) <= Bound
  BY ExposureTyped, LedgerFinite, MaxCostIs, SumNat DEF ExposureInv, LedgerTypes
<1>2. CASE estimate' = estimate /\ \A c \in Callers : Exposure'[c] <= Exposure[c]
  <2>1. SumFunctionOnSet(Exposure', Callers) <= SumFunctionOnSet(Exposure, Callers)
    <3>1. \A c \in Callers : /\ Exposure'[c] \in Int /\ Exposure[c] \in Int
                             /\ Exposure'[c] <= Exposure[c]
      BY <1>1, <1>2
    <3> QED
      BY <1>1, <3>1, SumMonotone
  <2>2. DOMAIN Exposure = Callers /\ DOMAIN (Exposure') = Callers
    BY <1>1
  <2>3. SumFunction(Exposure') <= SumFunction(Exposure)
    BY <2>1, <2>2 DEF SumFunction
  <2> QED
    BY <1>1, <1>2, <2>3, BoundTyped
<1>3. CASE estimate' < Limit
  <2>1. \A c \in Callers : Exposure'[c] \in 0 .. MaxCost
    BY <1>1
  <2>2. SumFunction(Exposure') <= Cardinality(Callers) * MaxCost
    BY <2>1, ExposureMost
  <2> QED
    BY <1>1, <1>3, <2>2, BoundTyped
<1>4. ASSUME NEW c \in Callers,
             estimate' = estimate + Exposure[c] /\ Exposure'[c] = 0,
             \A b \in Callers \ {c} : Exposure'[b] = Exposure[b]
      PROVE  estimate' + SumFunction(Exposure') <= Bound
  <2>1. Exposure \in [Callers -> Int] /\ Exposure' \in [Callers -> Int] /\ Exposure[c] \in Nat
    BY <1>1
  <2>2. SumFunction(Exposure') - Exposure'[c] = SumFunction(Exposure) - Exposure[c]
    BY <1>1, <1>4, <2>1, SumChange
  <2> QED
    BY <1>1, <1>4, <2>1, <2>2, BoundTyped
<1> QED
  BY <1>2, <1>3, <1>4

\* What the money that a step moves leaves equal: nothing is imported, and the
\* charges are the estimates and the answers in flight.
LEMMA ExposureMoney ==
    ASSUME Faults = {}, Importers = {}, LedgerTypes, ExposureInv, [Next]_vars
    PROVE  /\ estimate' + SumFunction(cost') = Charged'
           /\ \A d \in Days : copies'[d] = 0
<1>0. /\ SumFunction(cost) \in Nat /\ estimate \in Nat /\ IsFiniteSet(Callers)
      /\ cost \in [Callers -> Int] /\ DOMAIN cost = Callers
      /\ estimate + SumFunction(cost) = Charged
      /\ \A d \in Days : copies[d] = 0
      /\ \A c \in Callers : stage[c] # "record" => cost[c] = 0
  <2>1. cost \in [Callers -> Nat]
    BY DEF ExposureInv, LedgerTypes
  <2> QED
    BY <2>1, LedgerFinite, SumNat DEF ExposureInv, LedgerTypes
<1>1. CASE UNCHANGED <<bucket, estimate, cost, copies>>
  BY <1>0, <1>1 DEF Charged
<1>2. ASSUME NEW c \in Callers, CallSend(c)
      PROVE  estimate' + SumFunction(cost') = Charged' /\ copies' = copies
  <2>1. PICK k \in Costs :
          /\ Charged' = Charged + k
          /\ cost' = [cost EXCEPT ![c] = k]
    <3>1. "lost" \notin Faults
      OBVIOUS
    <3> QED
      BY <1>2, <3>1, SendCharges
  <2>2. k \in Nat
    BY SpendAssumption
  <2>3. cost' \in [Callers -> Int] /\ cost'[c] = k /\ \A b \in Callers \ {c} : cost'[b] = cost[b]
    BY <1>0, <2>1, <2>2
  <2>4. SumFunction(cost') - k = SumFunction(cost) - cost[c]
    <3>1. SumFunction(cost') - cost'[c] = SumFunction(cost) - cost[c]
      <4>1. IsFiniteSet(Callers) /\ cost \in [Callers -> Int]
        BY <1>0
      <4> QED
        BY <2>3, <4>1, SumChange
    <3> QED
      BY <2>3, <3>1
  <2>5. cost[c] = 0
    BY <1>0, <1>2 DEF CallSend
  <2>6. SumFunction(cost') \in Int /\ estimate' = estimate /\ copies' = copies
    <3>1. cost' \in [Callers -> Nat]
      BY <2>1, <2>2 DEF ExposureInv, LedgerTypes
    <3>2. estimate' = estimate /\ copies' = copies
      BY <1>2 DEF CallSend, ledger
    <3> QED
      BY <3>1, <3>2, LedgerFinite, SumNat
  <2> QED
    BY <1>0, <2>1, <2>2, <2>4, <2>5, <2>6
<1>3. ASSUME NEW c \in Callers, CallRecord(c)
      PROVE  estimate' + SumFunction(cost') = Charged' /\ copies' = copies
  <2>1. /\ estimate' = estimate + cost[c] /\ cost' = [cost EXCEPT ![c] = 0]
        /\ bucket' = bucket /\ copies' = copies
    BY <1>3 DEF CallRecord
  <2>2. /\ cost' \in [Callers -> Int] /\ cost'[c] = 0 /\ cost[c] \in Int
        /\ \A b \in Callers \ {c} : cost'[b] = cost[b]
    BY <1>0, <2>1
  <2>3. SumFunction(cost') - 0 = SumFunction(cost) - cost[c]
    <3>1. SumFunction(cost') - cost'[c] = SumFunction(cost) - cost[c]
      <4>1. IsFiniteSet(Callers) /\ cost \in [Callers -> Int]
        BY <1>0
      <4> QED
        BY <2>2, <4>1, SumChange
    <3> QED
      BY <2>2, <3>1
  <2>4. SumFunction(cost') \in Int
    <3>1. cost' \in [Callers -> Nat]
      BY <2>1 DEF ExposureInv, LedgerTypes
    <3> QED
      BY <3>1, LedgerFinite, SumNat
  <2>5. Charged' = Charged
    BY <2>1 DEF Charged
  <2> QED
    BY <1>0, <2>1, <2>2, <2>3, <2>4, <2>5
<1>4. \/ UNCHANGED <<bucket, estimate, cost, copies>>
      \/ \E c \in Callers : CallSend(c) \/ CallRecord(c)
  BY DEF Next, Tick, CallStart, BudgetGate, QuotaGate, GateFailsOpen, CallStops,
         vars, ledger, calls, imports
<1> QED
  BY <1>0, <1>1, <1>2, <1>3, <1>4

\* While nothing is imported the gate reads the estimates.
LEMMA CountedIsEstimate == ExposureInv => Counted = estimate
  BY DEF ExposureInv, Counted


\* What the answers in flight hold: a cost that is possible, and nothing
\* before the answer is there or after it is recorded.
LEMMA AnswersKept ==
    ASSUME Faults = {}, Costs # {}, LedgerTypes, ExposureInv, [Next]_vars
    PROVE  \A c \in Callers : cost'[c] <= MaxCost /\ (stage'[c] # "record" => cost'[c] = 0)
<1> SUFFICES ASSUME NEW c \in Callers
             PROVE  cost'[c] <= MaxCost /\ (stage'[c] # "record" => cost'[c] = 0)
  OBVIOUS
<1>0. /\ MaxCost \in Nat /\ \A k \in Costs : k \in Nat /\ k <= MaxCost
      /\ stage \in [Callers -> CallStages] /\ cost \in [Callers -> Nat]
      /\ cost[c] <= MaxCost /\ (stage[c] # "record" => cost[c] = 0)
  <2>1. MaxCost \in Nat /\ \A k \in Costs : k \in Nat /\ k <= MaxCost
    BY MaxCostIs, SpendAssumption
  <2>2. /\ stage \in [Callers -> CallStages] /\ cost \in [Callers -> Nat]
        /\ \A b \in Callers : cost[b] <= MaxCost /\ (stage[b] # "record" => cost[b] = 0)
    BY DEF ExposureInv, LedgerTypes
  <2> QED
    BY <2>1, <2>2
<1>1. CASE UNCHANGED <<stage, cost>>
  BY <1>0, <1>1
<1>2. ASSUME NEW b \in Callers,
             CallStart(b) \/ BudgetGate(b) \/ QuotaGate(b) \/ GateFailsOpen(b) \/ CallStops(b)
      PROVE  cost'[c] <= MaxCost /\ (stage'[c] # "record" => cost'[c] = 0)
  BY <1>0, <1>2 DEF CallStart, BudgetGate, QuotaGate, GateFailsOpen, CallStops
<1>3. ASSUME NEW b \in Callers, CallSend(b)
      PROVE  cost'[c] <= MaxCost /\ (stage'[c] # "record" => cost'[c] = 0)
  BY <1>0, <1>3 DEF CallSend
<1>4. ASSUME NEW b \in Callers, CallRecord(b)
      PROVE  cost'[c] <= MaxCost /\ (stage'[c] # "record" => cost'[c] = 0)
  BY <1>0, <1>4 DEF CallRecord
<1>5. \/ UNCHANGED <<stage, cost>>
      \/ \E b \in Callers : \/ CallStart(b) \/ BudgetGate(b) \/ QuotaGate(b)
                            \/ GateFailsOpen(b) \/ CallStops(b)
                            \/ CallSend(b) \/ CallRecord(b)
  BY DEF Next, Tick, ImportStart, ImportFind, ImportUnread, ImportInsert,
         ImportError, vars, calls
<1> QED
  BY <1>1, <1>2, <1>3, <1>4, <1>5

\* How a step moves the exposure: see ExposureKept.
LEMMA ExposureMoves ==
    ASSUME Faults = {}, Importers = {}, Costs # {}, LedgerTypes, ExposureInv, [Next]_vars
    PROVE  \/ estimate' = estimate /\ \A c \in Callers : Exposure'[c] <= Exposure[c]
           \/ estimate' < Limit
           \/ \E c \in Callers :
                /\ estimate' = estimate + Exposure[c] /\ Exposure'[c] = 0
                /\ \A b \in Callers \ {c} : Exposure'[b] = Exposure[b]
<1> DEFINE Less == estimate' = estimate /\ \A b \in Callers : Exposure'[b] <= Exposure[b]
<1>0. /\ MaxCost \in Nat /\ \A k \in Costs : k \in Nat /\ k <= MaxCost
      /\ stage \in [Callers -> CallStages] /\ cost \in [Callers -> Nat]
      /\ BudgetLimit \in Nat /\ CostQuota \in Nat /\ estimate \in Nat
      /\ Counted = estimate
  BY MaxCostIs, SpendAssumption, CountedIsEstimate DEF LedgerTypes, Money
<1>1. CASE UNCHANGED <<estimate, stage, cost>>
  BY <1>0, <1>1, ExposureTyped DEF Exposure
<1>2. ASSUME NEW c \in Callers, CallStart(c) \/ CallStops(c) PROVE Less
  <2>1. /\ estimate' = estimate /\ cost' = cost
        /\ \/ stage' = [stage EXCEPT ![c] = "budget"] /\ stage[c] = "idle"
           \/ stage' = [stage EXCEPT ![c] = "idle"] /\ stage[c] = "send"
    BY <1>2 DEF CallStart, CallStops, ledger
  <2> QED
    BY <1>0, <2>1 DEF Exposure
<1>3. ASSUME NEW c \in Callers, BudgetGate(c) PROVE Less \/ estimate' < Limit
  <2>1. /\ estimate' = estimate /\ cost' = cost /\ stage[c] = "budget"
        /\ \/ stage' = [stage EXCEPT ![c] = "quota"] /\ estimate < BudgetLimit
           \/ stage' = [stage EXCEPT ![c] = "idle"]
    BY <1>0, <1>3 DEF BudgetGate, ledger
  <2>2. CASE BudgetLimit <= CostQuota /\ estimate < BudgetLimit
    BY <1>0, <2>1, <2>2 DEF Limit
  <2>3. CASE ~(BudgetLimit <= CostQuota) \/ stage' = [stage EXCEPT ![c] = "idle"]
    BY <1>0, <2>1, <2>3 DEF Exposure
  <2> QED
    BY <2>1, <2>2, <2>3
<1>4. ASSUME NEW c \in Callers, QuotaGate(c) PROVE Less \/ estimate' < Limit
  <2>1. /\ estimate' = estimate /\ cost' = cost /\ stage[c] = "quota"
        /\ \/ stage' = [stage EXCEPT ![c] = "send"] /\ estimate < CostQuota
           \/ stage' = [stage EXCEPT ![c] = "idle"]
    BY <1>0, <1>4 DEF QuotaGate, ledger
  <2>2. CASE ~(BudgetLimit <= CostQuota) /\ estimate < CostQuota
    BY <1>0, <2>1, <2>2 DEF Limit
  <2>3. CASE BudgetLimit <= CostQuota \/ stage' = [stage EXCEPT ![c] = "idle"]
    BY <1>0, <2>1, <2>3 DEF Exposure
  <2> QED
    BY <2>1, <2>2, <2>3
<1>5. ASSUME NEW c \in Callers, CallSend(c) PROVE Less
  <2>1. PICK k \in Costs :
          /\ stage' = [stage EXCEPT ![c] = "record"]
          /\ cost' = [cost EXCEPT ![c] = k]
    BY <1>5 DEF CallSend
  <2>2. estimate' = estimate /\ stage[c] = "send"
    BY <1>5 DEF CallSend, ledger
  <2> QED
    BY <1>0, <2>1, <2>2 DEF Exposure
<1>6. ASSUME NEW c \in Callers, CallRecord(c)
      PROVE  /\ estimate' = estimate + Exposure[c] /\ Exposure'[c] = 0
             /\ \A b \in Callers \ {c} : Exposure'[b] = Exposure[b]
  <2>1. /\ estimate' = estimate + cost[c] /\ stage[c] = "record"
        /\ stage' = [stage EXCEPT ![c] = "idle"] /\ cost' = [cost EXCEPT ![c] = 0]
    BY <1>6 DEF CallRecord
  <2> QED
    BY <1>0, <2>1 DEF Exposure
<1>7. \/ UNCHANGED <<estimate, stage, cost>>
      \/ \E c \in Callers : \/ CallStart(c) \/ BudgetGate(c) \/ QuotaGate(c)
                            \/ CallStops(c) \/ CallSend(c) \/ CallRecord(c)
  BY DEF Next, Tick, GateFailsOpen, vars, ledger, calls
<1> QED
  BY <1>1, <1>2, <1>3, <1>4, <1>5, <1>6, <1>7

\* The gate bounds the overspend: no step takes the estimates and what is
\* still to come of the calls that passed beyond the limit and one call each.
LEMMA ExposureStep ==
    ASSUME Faults = {}, Importers = {}, Costs # {}, ExposureInv, [Next]_vars
    PROVE  ExposureInv'
<1>0. LedgerTypes
  BY DEF ExposureInv
<1>1. LedgerTypes'
  BY <1>0, LedgerTypesStep
<1>2. estimate' + SumFunction(cost') = Charged' /\ \A d \in Days : copies'[d] = 0
  BY <1>0, ExposureMoney
<1>3. \A c \in Callers : cost'[c] <= MaxCost /\ (stage'[c] # "record" => cost'[c] = 0)
  BY <1>0, AnswersKept
<1>4. /\ estimate' \in Nat /\ Exposure' \in [Callers -> Nat]
      /\ \A c \in Callers : Exposure'[c] <= MaxCost
  BY <1>1, <1>3, MaxCostIs DEF LedgerTypes, Exposure, Money
<1>5. estimate' + SumFunction(Exposure') <= Bound
  BY <1>0, <1>4, ExposureMoves, ExposureKept
<1> QED
  BY <1>1, <1>2, <1>3, <1>5 DEF ExposureInv, Bound, Limit, MaxCost

\* At the start nothing is spent and nobody has passed the gate.
LEMMA InitExposure ==
    ASSUME Costs # {}, Init
    PROVE  ExposureInv
<1>1. LedgerTypes
  BY InitLedger DEF LedgerInv
<1>2. MaxCost \in Nat
  BY MaxCostIs
<1>3. /\ \A c \in Callers : cost[c] = 0 /\ Exposure[c] = 0
      /\ \A d \in Days : copies[d] = 0 /\ bucket[d] = 0
      /\ estimate = 0
      /\ DOMAIN cost = Callers /\ DOMAIN Exposure = Callers /\ DOMAIN bucket = Days
  BY <1>2 DEF Init, Exposure
<1>4. SumFunction(cost) = 0 /\ SumFunction(Exposure) = 0 /\ SumFunction(bucket) = 0
  <2>1. /\ \A c \in DOMAIN cost : cost[c] \in 0 .. 0
        /\ \A c \in DOMAIN Exposure : Exposure[c] \in 0 .. 0
        /\ \A d \in DOMAIN bucket : bucket[d] \in 0 .. 0
    BY <1>3
  <2> QED
    BY <1>3, <2>1, LedgerFinite, SumZero
<1> QED
  BY <1>1, <1>2, <1>3, <1>4, BoundTyped DEF ExposureInv, Charged

\* What was charged is what is recorded and what is in flight, and that is at
\* most what those that passed were exposed to.
LEMMA ExposureBounds ==
    ASSUME Costs # {}, ExposureInv
    PROVE  OverspendBounded
<1>1. /\ cost \in [Callers -> Nat] /\ Exposure \in [Callers -> Nat] /\ estimate \in Nat
      /\ \A c \in Callers : cost[c] <= Exposure[c]
      /\ SumFunction(Exposure) \in Nat /\ IsFiniteSet(Callers)
      /\ estimate + SumFunction(cost) = Charged
      /\ estimate + SumFunction(Exposure) <= Bound
  BY ExposureTyped, LedgerFinite DEF ExposureInv, LedgerTypes, Money
<1>2. SumFunction(cost) \in Nat
  BY <1>1, SumNat
<1>3. SumFunctionOnSet(cost, Callers) <= SumFunctionOnSet(Exposure, Callers)
  <2>1. \A c \in Callers : /\ cost[c] \in Int /\ Exposure[c] \in Int
                           /\ cost[c] <= Exposure[c]
    BY <1>1
  <2> QED
    BY <1>1, <2>1, SumMonotone
<1>4. DOMAIN cost = Callers /\ DOMAIN Exposure = Callers
  BY <1>1
<1>5. SumFunction(cost) <= SumFunction(Exposure)
  BY <1>3, <1>4 DEF SumFunction
<1>6. Charged <= Bound
  BY <1>1, <1>2, <1>5, BoundTyped
<1> QED
  BY <1>6 DEF OverspendBounded, Bound

\* evaluateGatewayBudget checks before the act, and a call is entered only
\* when its answer is there, so calls that pass together overspend together:
\* with reads and writes that work and no import, by at most one call of
\* every caller, whichever of budget and quota is the lower, however the
\* calls interleave and for however many callers.
THEOREM OverspendBoundedHolds ==
    ASSUME Faults = {}, Importers = {}, Costs # {}
    PROVE  Spec => []OverspendBounded
<1>1. Init => ExposureInv
  BY InitExposure
<1>2. ExposureInv /\ [Next]_vars => ExposureInv'
  BY ExposureStep
<1>3. ExposureInv => OverspendBounded
  BY ExposureBounds
<1> QED
  BY <1>1, <1>2, <1>3, PTL DEF Spec


=============================================================================
