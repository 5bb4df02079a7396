--------------------------- MODULE TrendTopProofs ---------------------------
(***************************************************************************)
(* Proofs about TrendTop for every number of instances and requests, every *)
(* window and every pair of TTLs with the margins the assumptions name:    *)
(* no refresh aggregates a bucket that lost a count, and none reads back a *)
(* half-made or expired trend:top.  The types rest on what SumFunction     *)
(* computes; for the rest, that two windows with the same buckets have the *)
(* same union is enough.                                                   *)
(***************************************************************************)
EXTENDS TrendTop, FiniteSetTheorems, TLAPS

\* Only finitely many queries have a score: Query itself may be infinite.
FewScored ==
    /\ \A m \in Minute : IsFiniteSet(Positive(bucket[m]))
    /\ IsFiniteSet(Positive(top))

TInv == TypeOK /\ FewScored

\* A refresh under way began at most Stall minutes ago.
RefreshBounded ==
    \A r \in Refresher :
        phase[r] # "idle" => asOf[r] <= now /\ now <= asOf[r] + Stall

\* A bucket that lost its counts is out of every window still aggregated.
KeptBucket(m) ==
    /\ bucket[m] = total[m]
    /\ bucketTTL[m] = 0 \/ now + bucketTTL[m] >= m + BucketTTL - Early

BucketsLast ==
    \A m \in Minute : KeptBucket(m) \/ now >= m + WindowMinutes + Stall

\* trend:top outlasts every refresh that has written it.
TopLasts ==
    \A r \in Refresher :
        phase[r] \in {"expire", "read"} =>
            /\ top = union
            /\ unionOf >= asOf[r] - Stall
            /\ topTTL = 0 \/ now + topTTL >= asOf[r] + TopTTL

\* A bucket about to get its TTL is not further ahead than an event may be.
CountingBounded ==
    \A i \in Instance : counting[i] # NoMinute => counting[i] <= now + Early

IInv == RefreshBounded /\ BucketsLast /\ TopLasts /\ CountingBounded
-----------------------------------------------------------------------------
(***************************************************************************)
(* What SumFunction computes.  It is defined by recursion on sets; instead *)
(* of an induction, suppose some set is bad and take a smallest one.       *)
(***************************************************************************)

\* As many units for each member of S as the function gives it.
Units(f, S) == {u \in S \X Nat : u[2] \in 1..f[u[1]]}

\* What makes a function on sets the running sum of f.
SumsUp(f, g) ==
    g = [S \in SUBSET DOMAIN f |->
           IF S = {} THEN 0
           ELSE LET x == CHOOSE x \in S : TRUE IN f[x] + g[S \ {x}]]

\* Among bad subsets of a finite set one has no bad subset with one member less.
LEMMA SmallestSubset ==
    ASSUME NEW D, IsFiniteSet(D), NEW Bad \in SUBSET SUBSET D, Bad # {}
    PROVE  \E S \in Bad : \A x \in S : S \ {x} \notin Bad
<1>1. IsWellFoundedOn(StrictSubsetOrdering(D), SUBSET D)
  BY FS_StrictSubsetOrderingWellFounded, FS_FiniteSubsetsOfFinite
<1>2. PICK S \in Bad : \A T \in Bad : <<T, S>> \notin StrictSubsetOrdering(D)
  BY <1>1, WFMin
<1>3. ASSUME NEW x \in S, S \ {x} \in Bad
      PROVE  FALSE
  BY <1>2, <1>3 DEF StrictSubsetOrdering
<1> QED
  BY <1>2, <1>3

\* One more member adds its units.
LEMMA UnitsOfOneMore ==
    ASSUME NEW D, NEW f \in [D -> Nat], NEW S \in SUBSET D, NEW x \in S,
           IsFiniteSet(Units(f, S \ {x}))
    PROVE  /\ IsFiniteSet(Units(f, S))
           /\ Cardinality(Units(f, S)) = f[x] + Cardinality(Units(f, S \ {x}))
<1> DEFINE Rest == Units(f, S \ {x})
           Own == {x} \X (1..f[x])
<1>1. f[x] \in Nat
  OBVIOUS
<1>2. IsFiniteSet(1..f[x]) /\ Cardinality(1..f[x]) = f[x]
  BY <1>1, FS_Interval
<1>3. IsFiniteSet(Own) /\ Cardinality(Own) = f[x]
  <2>1. Cardinality({x}) = 1 /\ IsFiniteSet({x})
    BY FS_Singleton
  <2>2. /\ IsFiniteSet(Own)
        /\ Cardinality(Own) = Cardinality({x}) * Cardinality(1..f[x])
    BY <1>2, <2>1, FS_Product, Zenon
  <2> QED
    BY <1>1, <1>2, <2>1, <2>2
<1>4. Units(f, S) = Rest \cup Own /\ Rest \cap Own = {}
  BY <1>1 DEF Units
<1> HIDE DEF Rest, Own
<1>5. /\ IsFiniteSet(Rest \cup Own)
      /\ Cardinality(Rest \cup Own) =
           Cardinality(Rest) + Cardinality(Own) - Cardinality(Rest \cap Own)
  BY <1>3, FS_Union, Zenon DEF Rest
<1>6. Cardinality(Rest) \in Nat /\ Cardinality(Rest \cap Own) = 0
  BY <1>4, FS_CardinalityType, FS_EmptySet DEF Rest
<1>7. Cardinality(Units(f, S)) = f[x] + Cardinality(Rest)
  BY <1>1, <1>3, <1>4, <1>5, <1>6
<1> QED
  BY <1>4, <1>5, <1>7 DEF Rest

\* The units of a finite set are finitely many.
LEMMA UnitsFinite ==
    ASSUME NEW D, IsFiniteSet(D), NEW f \in [D -> Nat], NEW S \in SUBSET D
    PROVE  IsFiniteSet(Units(f, S))
<1> DEFINE Bad == {T \in SUBSET D : ~ IsFiniteSet(Units(f, T))}
<1> SUFFICES ASSUME Bad # {} PROVE FALSE
  OBVIOUS
<1>1. PICK T \in Bad : \A x \in T : T \ {x} \notin Bad
  BY SmallestSubset
<1>2. T # {}
  BY FS_EmptySet DEF Units
<1> QED
  BY <1>1, <1>2, UnitsOfOneMore

\* SumFunction is such a running sum, provided there is one.
LEMMA SumSumsUp ==
    ASSUME NEW f, \E g : SumsUp(f, g)
    PROVE  \E g : SumsUp(f, g) /\ SumFunction(f) = g[DOMAIN f]
<1> DEFINE g == CHOOSE g : SumsUp(f, g)
<1>1. SumsUp(f, g)
  BY Zenon
<1>2. SumFunction(f) = g[DOMAIN f]
  BY Zenon DEF SumFunction, SumFunctionOnSet, FoldFunctionOnSet, MapThenFoldSet, SumsUp
<1> QED
  BY <1>1, <1>2

\* The sum is the number of units.
LEMMA SumIsUnits ==
    ASSUME NEW D, IsFiniteSet(D), NEW f \in [D -> Nat]
    PROVE  SumFunction(f) = Cardinality(Units(f, D))
<1> DEFINE Size == [S \in SUBSET D |-> Cardinality(Units(f, S))]
<1>1. Units(f, {}) = {} /\ Cardinality({}) = 0
  BY FS_EmptySet DEF Units
<1>2. \A S \in SUBSET D : \A x \in S : Size[S] = f[x] + Size[S \ {x}]
  <2> SUFFICES ASSUME NEW S \in SUBSET D, NEW x \in S
               PROVE  Size[S] = f[x] + Size[S \ {x}]
    OBVIOUS
  <2>1. IsFiniteSet(Units(f, S \ {x}))
    BY UnitsFinite
  <2> QED
    BY <2>1, UnitsOfOneMore
<1>3. SumsUp(f, Size)
  BY <1>1, <1>2 DEF SumsUp
<1>4. PICK g : SumsUp(f, g) /\ SumFunction(f) = g[D]
  BY <1>3, SumSumsUp
<1> DEFINE Bad == {S \in SUBSET D : g[S] # Size[S]}
<1>5. ASSUME Bad # {}
      PROVE  FALSE
  <2>1. PICK S \in Bad : \A x \in S : S \ {x} \notin Bad
    BY <1>5, SmallestSubset
  <2>2. CASE S = {}
    BY <1>1, <1>4, <2>1, <2>2 DEF SumsUp
  <2>3. CASE S # {}
    <3> DEFINE x == CHOOSE x \in S : TRUE
    <3>1. x \in S
      BY <2>3
    <3>2. g[S] = f[x] + g[S \ {x}]
      BY <1>4, <2>3 DEF SumsUp
    <3> QED
      BY <1>2, <2>1, <3>1, <3>2
  <2> QED
    BY <2>2, <2>3
<1> QED
  BY <1>4, <1>5

\* So it is a natural number.
LEMMA SumIsNat ==
    ASSUME NEW D, IsFiniteSet(D), NEW f \in [D -> Nat]
    PROVE  SumFunction(f) \in Nat
BY SumIsUnits, UnitsFinite, FS_CardinalityType
\* The sum of nothing but zeros.
LEMMA SumOfZeros ==
    ASSUME NEW D, IsFiniteSet(D), NEW f \in [D -> Nat], \A d \in D : f[d] = 0
    PROVE  SumFunction(f) = 0
<1>1. Units(f, D) = {}
  BY DEF Units
<1> QED
  BY <1>1, SumIsUnits, FS_EmptySet

\* An aggregated list has scores again, and only of queries that some bucket
\* of the window has.
LEMMA UnionScores ==
    ASSUME NEW b \in [Minute -> Scores], NEW t \in Minute
    PROVE  /\ Union(b, t) \in Scores
           /\ Positive(Union(b, t)) \subseteq
                {q \in Query : \E m \in Minute : q \in Positive(b[m])}
<1> DEFINE Score(q) == [m \in Window(t) |-> b[m][q]]
<1>1. Window(t) \subseteq Minute /\ IsFiniteSet(Window(t))
  <2>1. IsFiniteSet(Minute)
    BY TopAssumption, FS_Interval DEF Minute
  <2> QED
    BY <2>1, FS_Subset DEF Window
<1>2. Union(b, t) = [q \in Query |-> SumFunction(Score(q))]
  BY DEF Union
<1>3. \A m \in Minute : b[m] \in Scores /\ DOMAIN b[m] = Query
  BY DEF Scores
<1>4. \A q \in Query : Score(q) \in [Window(t) -> Nat]
  BY <1>1, <1>3 DEF Scores
<1>5. Union(b, t) \in Scores
  <2> HIDE DEF Score
  <2>1. ASSUME NEW q \in Query
        PROVE  SumFunction(Score(q)) \in Nat
    BY <1>1, <1>4, SumIsNat
  <2> QED
    BY <1>2, <2>1 DEF Scores
<1>6. ASSUME NEW q \in Positive(Union(b, t))
      PROVE  q \in Query /\ \E m \in Minute : q \in Positive(b[m])
  <2>1. q \in Query /\ SumFunction(Score(q)) > 0
    BY <1>2, <1>6 DEF Positive
  <2>2. PICK m \in Window(t) : Score(q)[m] # 0
    <3> HIDE DEF Score
    <3> QED
      BY <1>1, <1>4, <2>1, SumOfZeros
  <2>3. m \in Minute /\ b[m][q] \in Nat /\ b[m][q] # 0
    BY <1>1, <1>3, <2>1, <2>2 DEF Scores
  <2> QED
    BY <1>3, <2>1, <2>3 DEF Positive
<1> QED
  BY <1>5, <1>6

\* These are finitely many.
LEMMA UnionFewScored ==
    ASSUME NEW b \in [Minute -> Scores], NEW t \in Minute,
           \A m \in Minute : IsFiniteSet(Positive(b[m]))
    PROVE  IsFiniteSet(Positive(Union(b, t)))
<1> DEFINE Scored(T) == {q \in Query : \E m \in T : q \in Positive(b[m])}
           Bad == {T \in SUBSET Minute : ~ IsFiniteSet(Scored(T))}
<1>1. IsFiniteSet(Minute)
  BY TopAssumption, FS_Interval DEF Minute
<1>2. ASSUME Bad # {}
      PROVE  FALSE
  <2>1. PICK T \in Bad : \A m \in T : T \ {m} \notin Bad
    <3> HIDE DEF Bad
    <3>1. Bad \in SUBSET SUBSET Minute
      BY DEF Bad
    <3> QED
      BY <1>1, <1>2, <3>1, SmallestSubset
  <2>2. T # {}
    <3>1. Scored({}) = {}
      OBVIOUS
    <3> QED
      BY <2>1, <3>1, FS_EmptySet
  <2>3. PICK m \in T : IsFiniteSet(Scored(T \ {m}))
    BY <2>1, <2>2
  <2>4. Scored(T) \subseteq Scored(T \ {m}) \cup Positive(b[m])
    OBVIOUS
  <2>5. IsFiniteSet(Scored(T \ {m}) \cup Positive(b[m]))
    <3> HIDE DEF Scored
    <3> QED
      BY <2>1, <2>3, FS_Union
  <2>6. IsFiniteSet(Scored(T))
    <3> HIDE DEF Scored
    <3> QED
      BY <2>4, <2>5, FS_Subset
  <2> QED
    BY <2>1, <2>6
<1>3. IsFiniteSet(Scored(Minute))
  BY <1>2
<1>4. Positive(Union(b, t)) \subseteq Scored(Minute)
  BY UnionScores
<1> HIDE DEF Scored
<1> QED
  BY <1>3, <1>4, FS_Subset

\* A cached list has scores of at most MaxTopSize queries.
LEMMA LeadingEntries ==
    ASSUME NEW s \in Scores, IsFiniteSet(Positive(s)), NEW e \in Leading(s, MaxTopSize)
    PROVE  IsEntries(e) /\ Cardinality(DOMAIN e) <= MaxTopSize
<1>1. PICK S \in SUBSET Positive(s) :
        /\ e = [q \in S |-> s[q]]
        /\ \/ Cardinality(S) = MaxTopSize
           \/ Cardinality(S) < MaxTopSize /\ S = Positive(s)
  BY DEF Leading
<1>2. Cardinality(S) \in Nat
  BY FS_Subset, FS_CardinalityType
<1>3. S \subseteq Query
  BY DEF Positive, Scores
<1>4. IsEntries(e)
  BY <1>1, <1>3 DEF IsEntries, Scores
<1> QED
  BY <1>1, <1>2, <1>4, TopAssumption

\* One more count.
LEMMA ScoreAdded ==
    ASSUME NEW b \in [Minute -> Scores], NEW m \in Minute, NEW q \in Query
    PROVE  LET c == [b EXCEPT ![m][q] = @ + 1]
           IN /\ c \in [Minute -> Scores]
              /\ \A n \in Minute : Positive(c[n]) \subseteq Positive(b[n]) \cup {q}
<1> DEFINE c == [b EXCEPT ![m][q] = @ + 1]
<1>1. [b[m] EXCEPT ![q] = @ + 1] \in Scores
  BY DEF Scores
<1>2. c \in [Minute -> Scores]
  BY <1>1
<1>3. ASSUME NEW n \in Minute
      PROVE  Positive(c[n]) \subseteq Positive(b[n]) \cup {q}
  BY DEF Positive, Scores
<1> QED
  BY <1>2, <1>3
-----------------------------------------------------------------------------
\* Where the refreshers are.
RefreshTypes ==
    /\ phase \in [Refresher -> {"idle", "union", "expire", "read"}]
    /\ asOf \in [Refresher -> Minute]

\* At first no query has a score.
LEMMA TypeInit == Init => TInv
<1> SUFFICES ASSUME Init
             PROVE  TInv
  OBVIOUS
<1>1. 0 \in Minute
  BY TopAssumption DEF Minute
<1>2. NoScores \in Scores /\ Positive(NoScores) = {}
  BY DEF NoScores, Scores, Positive
<1>3. IsEntries(Nothing) /\ Cardinality(DOMAIN Nothing) <= MaxTopSize
  <2>1. DOMAIN Nothing = {}
    BY DEF Nothing
  <2> QED
    BY <2>1, FS_EmptySet, TopAssumption DEF IsEntries, Nothing
<1>4. TypeOK
  BY <1>1, <1>2, <1>3, TopAssumption DEF Init, TypeOK
<1>5. FewScored
  BY <1>2, FS_EmptySet DEF Init, FewScored
<1> QED
  BY <1>4, <1>5 DEF TInv

\* Counting adds at most one query to those that have a score.
LEMMA TypeIncrement ==
    ASSUME TInv, NEW i \in Instance, NEW m \in Minute, NEW q \in Query,
           IncrBucket(i, m, q)
    PROVE  TInv'
<1> USE DEF TInv, IncrBucket, topVars
<1>1. /\ bucket' \in [Minute -> Scores] /\ total' \in [Minute -> Scores]
      /\ \A n \in Minute : Positive(bucket'[n]) \subseteq Positive(bucket[n]) \cup {q}
  BY ScoreAdded DEF TypeOK
<1>2. counting' \in [Instance -> Minute \cup {NoMinute}]
  BY DEF TypeOK
<1>3. TypeOK'
  BY <1>1, <1>2 DEF TypeOK
<1>4. ASSUME NEW n \in Minute
      PROVE  IsFiniteSet(Positive(bucket'[n]))
  <2>1. IsFiniteSet(Positive(bucket[n]) \cup {q})
    BY FS_AddElement DEF FewScored
  <2> QED
    BY <1>1, <2>1, FS_Subset
<1>5. FewScored'
  BY <1>4 DEF FewScored
<1> QED
  BY <1>3, <1>5

\* The end of a count leaves the scores alone.
LEMMA TypeCounted ==
    ASSUME TInv, NEW i \in Instance, ExpireBucket(i) \/ CountFails(i)
    PROVE  TInv'
<1> USE DEF TInv, ExpireBucket, ExpireWithTTL, CountFails, topVars
<1>1. bucketTTL' \in [Minute -> 0..BucketTTL]
  <2>1. PICK n \in 0..BucketTTL :
          bucketTTL' = [bucketTTL EXCEPT ![counting[i]] = n] \/ bucketTTL' = bucketTTL
    BY TopAssumption
  <2> QED
    BY <2>1 DEF TypeOK
<1>2. counting' \in [Instance -> Minute \cup {NoMinute}]
  BY DEF TypeOK
<1>3. TypeOK'
  BY <1>1, <1>2 DEF TypeOK
<1>4. FewScored'
  BY DEF FewScored
<1> QED
  BY <1>3, <1>4

\* A refresher that begins, goes on or ends.
LEMMA TypePhase ==
    ASSUME TypeOK, NEW r \in Refresher,
           NEW p \in {"idle", "union", "expire", "read"}, NEW t \in Minute,
           phase' = [phase EXCEPT ![r] = p],
           asOf' \in {asOf, [asOf EXCEPT ![r] = t]}
    PROVE  RefreshTypes'
BY DEF TypeOK, RefreshTypes

\* A command of a refresh, and a refresh that ends without storing its list.
LEMMA TypeTop ==
    ASSUME TInv, NEW r \in Refresher,
           \/ UNCHANGED topVars
           \/ ZUnionStore(r)
           \/ ExpireTop /\ UNCHANGED <<top, union, unionOf>>,
           RefreshTypes', UNCHANGED <<now, bucketVars, cachedTop>>
    PROVE  TInv'
<1> USE DEF TInv, bucketVars, topVars, RefreshTypes
<1>1. /\ top' \in Scores /\ IsFiniteSet(Positive(top'))
      /\ union' \in Scores /\ unionOf' \in Minute
  <2>1. CASE ZUnionStore(r)
    <3>1. asOf[r] \in Minute /\ bucket \in [Minute -> Scores] /\ total \in [Minute -> Scores]
      BY DEF TypeOK
    <3>2. Union(bucket, asOf[r]) \in Scores /\ Union(total, asOf[r]) \in Scores
      BY <3>1, UnionScores
    <3>3. IsFiniteSet(Positive(Union(bucket, asOf[r])))
      BY <3>1, UnionFewScored DEF FewScored
    <3> QED
      BY <2>1, <3>1, <3>2, <3>3 DEF ZUnionStore
  <2>2. CASE UNCHANGED <<top, union, unionOf>>
    BY <2>2 DEF TypeOK, FewScored
  <2> QED
    BY <2>1, <2>2
<1>2. topTTL' \in 0..TopTTL
  BY TopAssumption DEF TypeOK, ZUnionStore, ExpireTop
<1>3. TypeOK'
  BY <1>1, <1>2 DEF TypeOK
<1>4. FewScored'
  BY <1>1 DEF FewScored
<1> QED
  BY <1>3, <1>4

\* A minute passes: TTLs stay in their ranges, keys that expire are empty.
LEMMA TypeMinute ==
    ASSUME TInv, MinutePasses
    PROVE  TInv'
<1> USE DEF TInv, MinutePasses
<1>1. NoScores \in Scores /\ IsFiniteSet(Positive(NoScores))
  <2>1. Positive(NoScores) = {}
    BY DEF NoScores, Positive
  <2> QED
    BY <2>1, FS_EmptySet DEF NoScores, Scores
<1>2. now' \in Minute
  BY TopAssumption DEF TypeOK, Minute
<1>3. \A k \in Nat : \A n \in 0..k : Countdown(n) \in 0..k
  BY DEF Countdown
<1>4. bucketTTL' \in [Minute -> 0..BucketTTL] /\ topTTL' \in 0..TopTTL
  BY <1>3, TopAssumption DEF TypeOK
<1>5. bucket' \in [Minute -> Scores] /\ top' \in Scores
  BY <1>1 DEF TypeOK
<1>6. TypeOK'
  BY <1>2, <1>4, <1>5 DEF TypeOK
<1>7. FewScored'
  BY <1>1 DEF TypeOK, FewScored
<1> QED
  BY <1>6, <1>7

\* The types are kept by every action.
LEMMA TypeStep == TInv /\ [Next]_vars => TInv'
<1> SUFFICES ASSUME TInv, [Next]_vars
             PROVE  TInv'
  OBVIOUS
<1>1. TypeOK /\ now \in Minute /\ 0 \in Minute
  BY TopAssumption DEF TInv, TypeOK, Minute
<1>2. ASSUME NEW r \in Refresher, Begin(r), UNCHANGED <<now, bucketVars, topVars, cachedTop>>
      PROVE  TInv'
  <2>1. RefreshTypes'
    BY <1>1, <1>2, TypePhase DEF Begin
  <2> QED
    BY <1>2, <2>1, TypeTop
<1>3. ASSUME NEW r \in Refresher, Refresh(r)
      PROVE  TInv'
  <2>1. RefreshTypes'
    BY <1>1, <1>3, TypePhase DEF Refresh, AggregateUnion, AggregateExpire
  <2> QED
    BY <1>3, <2>1, TypeTop DEF Refresh, AggregateUnion, AggregateExpire
<1>4. ASSUME NEW r \in Refresher, Read(r)
      PROVE  RefreshTypes'
  BY <1>1, <1>4, TypePhase DEF Read
<1>5. ASSUME NEW i \in Instance, CacheTop(i)
      PROVE  TInv'
  <2>1. RefreshTypes' /\ UNCHANGED <<now, bucketVars, topVars>>
    BY <1>4, <1>5 DEF CacheTop, Read, Refresher
  <2>2. PICK e \in Leading(top, MaxTopSize) : cachedTop' = [cachedTop EXCEPT ![i] = e]
    BY <1>5 DEF CacheTop
  <2>3. IsEntries(e) /\ Cardinality(DOMAIN e) <= MaxTopSize
    BY <1>1, LeadingEntries DEF TInv, TypeOK, FewScored
  <2>4. TypeOK'
    BY <1>1, <2>1, <2>2, <2>3 DEF TypeOK, RefreshTypes, bucketVars, topVars
  <2>5. FewScored'
    BY <2>1 DEF TInv, FewScored, bucketVars, topVars
  <2> QED
    BY <2>4, <2>5 DEF TInv
<1>6. ASSUME NEW g \in Request, AnswerMiss(g)
      PROVE  TInv'
  <2>1. g \in Refresher
    BY DEF Refresher
  <2>2. RefreshTypes'
    BY <1>4, <1>6, <2>1 DEF AnswerMiss
  <2> QED
    BY <1>6, <2>1, <2>2, TypeTop DEF AnswerMiss, Read
<1>7. ASSUME NEW r \in Refresher, RefreshFails(r)
      PROVE  TInv'
  <2>1. RefreshTypes'
    BY <1>1, <1>7, TypePhase DEF RefreshFails
  <2> QED
    BY <1>7, <2>1, TypeTop DEF RefreshFails
<1>8. CASE \/ \E i \in Instance, m \in Minute, q \in Query : IncrBucket(i, m, q)
           \/ \E i \in Instance : ExpireBucket(i) \/ CountFails(i)
  BY <1>8, TypeIncrement, TypeCounted
<1>9. CASE \E i \in Instance : Aggregator(i)
  BY <1>2, <1>3, <1>5, <1>9 DEF Aggregator, AggregatorTick, Refresher
<1>10. CASE \E g \in Request : GetTop(g)
  BY <1>2, <1>3, <1>6, <1>10 DEF GetTop, GetTopMiss, Refresher
<1>11. CASE MinutePasses
  BY <1>11, TypeMinute
<1>12. CASE UNCHANGED vars
  BY <1>12 DEF vars, bucketVars, topVars, TInv, TypeOK, FewScored
<1> QED
  BY <1>7, <1>8, <1>9, <1>10, <1>11, <1>12 DEF Next

(***************************************************************************)
(* TypeOK, with what it says of computed values: an aggregated list has a  *)
(* natural number for every query, however many buckets it sums up, and no *)
(* aggregator caches more than MaxTopSize entries.                         *)
(***************************************************************************)
THEOREM Typed == Spec => []TypeOK
<1>1. TInv => TypeOK
  BY DEF TInv
<1> QED
  BY <1>1, TypeInit, TypeStep, PTL DEF Spec
-----------------------------------------------------------------------------
\* A refresher that is about to aggregate finds every count of its window.
LEMMA BucketsKept ==
    ASSUME TypeOK, RefreshBounded, BucketsLast
    PROVE  WindowIntact
<1> SUFFICES ASSUME NEW r \in Refresher, phase[r] = "union",
                    NEW m \in Window(asOf[r])
             PROVE  bucket[m] = total[m]
  BY DEF WindowIntact
<1>1. m \in Minute /\ asOf[r] - WindowMinutes < m
  BY DEF Window
<1>2. now <= asOf[r] + Stall
  BY DEF RefreshBounded
<1>3. now \in Int /\ asOf[r] \in Int /\ m \in Int
  BY <1>1 DEF TypeOK, Minute
<1>4. ~ (now >= m + WindowMinutes + Stall)
  BY <1>1, <1>2, <1>3, TopAssumption
<1> QED
  BY <1>1, <1>4 DEF BucketsLast, KeptBucket

\* Then the union of the buckets is the union of all counts ever made.
LEMMA UnionExact ==
    ASSUME WindowIntact, NEW r \in Refresher, phase[r] = "union"
    PROVE  Union(bucket, asOf[r]) = Union(total, asOf[r])
<1>1. \A m \in Window(asOf[r]) : bucket[m] = total[m]
  BY DEF WindowIntact
<1>2. [m \in Window(asOf[r]) |-> bucket[m]] = [m \in Window(asOf[r]) |-> total[m]]
  BY <1>1
<1> QED
  BY <1>2 DEF Union

\* Nothing is counted at first and no refresh is under way.
LEMMA InitStep == Init => IInv
<1> SUFFICES ASSUME Init
             PROVE  IInv
  OBVIOUS
<1> USE TopAssumption DEF Init, Minute
<1>0. CountingBounded
  BY DEF CountingBounded
<1>1. RefreshBounded
  BY DEF RefreshBounded
<1>2. BucketsLast
  BY DEF BucketsLast, KeptBucket
<1>3. TopLasts
  BY DEF TopLasts
<1> QED
  BY <1>0, <1>1, <1>2, <1>3 DEF IInv

\* Counting an event, late or early, keeps its bucket whole.
LEMMA IncrementStep ==
    ASSUME TypeOK, IInv, NEW i \in Instance, NEW m \in Minute, NEW q \in Query,
           IncrBucket(i, m, q)
    PROVE  IInv'
<1> USE DEF IInv, IncrBucket
<1>1. \A n \in Minute : bucket[n] = total[n] => bucket'[n] = total'[n]
  BY DEF TypeOK
<1>2. RefreshBounded'
  BY DEF RefreshBounded
<1>3. BucketsLast'
  BY <1>1 DEF BucketsLast, KeptBucket
<1>4. TopLasts'
  BY DEF TopLasts, topVars
<1>5. CountingBounded'
  BY DEF CountingBounded, TypeOK
<1> QED
  BY <1>2, <1>3, <1>4, <1>5

\* The TTL it gets keeps a bucket alive as long as a window may hold it.
LEMMA CountedStep ==
    ASSUME TypeOK, IInv, NEW i \in Instance, ExpireBucket(i) \/ CountFails(i)
    PROVE  IInv'
<1> USE DEF IInv, ExpireBucket, ExpireWithTTL, CountFails
<1>1. RefreshBounded'
  BY DEF RefreshBounded
<1>2. BucketsLast'
  <2> SUFFICES ASSUME NEW n \in Minute, ~ (now >= n + WindowMinutes + Stall)
               PROVE  KeptBucket(n)'
    BY DEF BucketsLast
  <2>1. KeptBucket(n)
    BY DEF BucketsLast
  <2>2. \/ bucketTTL'[n] = bucketTTL[n]
        \/ bucketTTL'[n] = 0
        \/ n = counting[i] /\ n # NoMinute /\ bucketTTL'[n] = BucketTTL
    BY DEF TypeOK
  <2>3. bucketTTL'[n] = 0 \/ now + bucketTTL'[n] >= n + BucketTTL - Early
    <3>1. CASE bucketTTL'[n] = bucketTTL[n]
      BY <2>1, <3>1 DEF KeptBucket
    <3>2. CASE n = counting[i] /\ n # NoMinute /\ bucketTTL'[n] = BucketTTL
      <4>1. n <= now + Early /\ n \in Int /\ now \in Int
        BY <3>2 DEF CountingBounded, TypeOK, Minute
      <4> QED
        BY <3>2, <4>1, TopAssumption
    <3> QED
      BY <2>2, <3>1, <3>2
  <2> QED
    BY <2>1, <2>3 DEF KeptBucket
<1>3. TopLasts'
  BY DEF TopLasts, topVars
<1>4. CountingBounded'
  BY DEF CountingBounded, TypeOK
<1> QED
  BY <1>1, <1>2, <1>3, <1>4

\* A refresh begins in the current minute.
LEMMA BeginStep ==
    ASSUME TypeOK, IInv, NEW r \in Refresher, Begin(r),
           UNCHANGED <<now, bucketVars, topVars>>
    PROVE  IInv'
<1> USE TopAssumption DEF IInv, Begin
<1>1. phase' = [phase EXCEPT ![r] = "union"] /\ asOf' = [asOf EXCEPT ![r] = now]
  OBVIOUS
<1>2. RefreshBounded'
  BY <1>1 DEF RefreshBounded, TypeOK, Minute
<1>3. BucketsLast'
  BY DEF BucketsLast, KeptBucket, bucketVars
<1>4. TopLasts'
  BY <1>1 DEF TopLasts, TypeOK, topVars
<1>5. CountingBounded'
  BY DEF CountingBounded, bucketVars
<1> QED
  BY <1>2, <1>3, <1>4, <1>5

\* ZUNIONSTORE stores the exact sum of the refresher's window.
LEMMA UnionStep ==
    ASSUME TypeOK, IInv, NEW r \in Refresher, phase[r] = "union", ZUnionStore(r),
           phase' \in {[phase EXCEPT ![r] = "expire"], [phase EXCEPT ![r] = "idle"]},
           asOf' \in {asOf, [asOf EXCEPT ![r] = 0]},
           phase'[r] = "idle" \/ asOf' = asOf,
           UNCHANGED <<now, bucketVars>>
    PROVE  IInv'
<1> USE TopAssumption DEF IInv, ZUnionStore
<1>1. top' = union'
  BY BucketsKept, UnionExact
<1>2. 0 \in Minute /\ phase \in [Refresher -> {"idle", "union", "expire", "read"}]
        /\ asOf \in [Refresher -> Minute]
  BY DEF TypeOK, Minute
<1>3. \A s \in Refresher : s # r => phase'[s] = phase[s] /\ asOf'[s] = asOf[s]
  BY <1>2
<1>4. phase'[r] # "idle" => asOf'[r] = asOf[r]
  OBVIOUS
<1>5. RefreshBounded'
  BY <1>3, <1>4 DEF RefreshBounded
<1>6. BucketsLast'
  BY DEF BucketsLast, KeptBucket, bucketVars
<1>7. TopLasts'
  <2> SUFFICES ASSUME NEW s \in Refresher, phase'[s] \in {"expire", "read"}
               PROVE  /\ top' = union'
                      /\ unionOf' >= asOf'[s] - Stall
                      /\ topTTL' = 0
    BY DEF TopLasts
  <2>1. phase[s] # "idle" /\ asOf'[s] = asOf[s]
    BY <1>3, <1>4
  <2>2. asOf[s] <= now /\ now <= asOf[r] + Stall
    BY <2>1 DEF RefreshBounded
  <2>3. asOf[r] >= asOf[s] - Stall
    <3>1. asOf[s] \in Int /\ asOf[r] \in Int /\ now \in Int
      BY <1>2 DEF TypeOK, Minute
    <3> QED
      BY <2>2, <3>1
  <2> QED
    BY <1>1, <2>1, <2>3
<1>8. CountingBounded'
  BY DEF CountingBounded, bucketVars
<1> QED
  BY <1>5, <1>6, <1>7, <1>8

\* EXPIRE gives the key a whole new TTL, whoever's list it holds by then.
LEMMA ExpireStep ==
    ASSUME TypeOK, IInv, NEW r \in Refresher, phase[r] = "expire", ExpireTop,
           phase' \in {[phase EXCEPT ![r] = "read"], [phase EXCEPT ![r] = "idle"]},
           asOf' \in {asOf, [asOf EXCEPT ![r] = 0]},
           phase'[r] = "idle" \/ asOf' = asOf,
           UNCHANGED <<now, bucketVars, top, union, unionOf>>
    PROVE  IInv'
<1> USE TopAssumption, TopTTLAssumption DEF IInv, ExpireTop
<1>1. 0 \in Minute /\ phase \in [Refresher -> {"idle", "union", "expire", "read"}]
        /\ asOf \in [Refresher -> Minute]
  BY DEF TypeOK, Minute
<1>2. \A s \in Refresher : s # r => phase'[s] = phase[s] /\ asOf'[s] = asOf[s]
  BY <1>1
<1>3. phase'[r] # "idle" => asOf'[r] = asOf[r]
  OBVIOUS
<1>4. RefreshBounded'
  BY <1>2, <1>3 DEF RefreshBounded
<1>5. BucketsLast'
  BY DEF BucketsLast, KeptBucket, bucketVars
<1>6. TopLasts'
  <2> SUFFICES ASSUME NEW s \in Refresher, phase'[s] \in {"expire", "read"}
               PROVE  /\ top' = union'
                      /\ unionOf' >= asOf'[s] - Stall
                      /\ topTTL' = 0 \/ now' + topTTL' >= asOf'[s] + TopTTL
    BY DEF TopLasts
  <2>1. phase[s] \in {"expire", "read"} /\ asOf'[s] = asOf[s]
    BY <1>2, <1>3
  <2>2. asOf[s] <= now
    BY <2>1 DEF RefreshBounded
  <2>3. topTTL' = 0 \/ topTTL' = TopTTL
    OBVIOUS
  <2>4. asOf[s] \in Int /\ now \in Int
    BY <1>1 DEF TypeOK, Minute
  <2> QED
    BY <2>1, <2>2, <2>3, <2>4 DEF TopLasts
<1>7. CountingBounded'
  BY DEF CountingBounded, bucketVars
<1> QED
  BY <1>4, <1>5, <1>6, <1>7

\* A refresh ends: nothing is claimed of it any more.
LEMMA EndStep ==
    ASSUME TypeOK, IInv, NEW r \in Refresher,
           phase' = [phase EXCEPT ![r] = "idle"], asOf' = [asOf EXCEPT ![r] = 0],
           UNCHANGED <<now, bucketVars, topVars>>
    PROVE  IInv'
<1> USE TopAssumption DEF IInv
<1>1. 0 \in Minute
  BY DEF Minute
<1>3. RefreshBounded'
  BY DEF RefreshBounded, TypeOK
<1>4. BucketsLast'
  BY DEF BucketsLast, KeptBucket, bucketVars
<1>5. TopLasts'
  BY DEF TopLasts, TypeOK, topVars
<1>6. CountingBounded'
  BY DEF CountingBounded, bucketVars
<1> QED
  BY <1>3, <1>4, <1>5, <1>6

\* A key that expires was out of use: its bucket has left every window, and
\* every refresh that wrote trend:top has ended.
LEMMA MinuteStep ==
    ASSUME TypeOK, IInv, MinutePasses
    PROVE  IInv'
<1> USE TopAssumption, MarginAssumption, TopTTLAssumption DEF IInv, MinutePasses
<1>1. now \in Int /\ now' = now + 1 /\ now' \in Minute
  BY DEF TypeOK, Minute
<1>2. \A m \in Minute : bucketTTL[m] \in Nat /\ bucketTTL'[m] = Countdown(bucketTTL[m])
  BY DEF TypeOK
<1>3. topTTL \in Nat /\ topTTL' = Countdown(topTTL)
  BY DEF TypeOK
<1>4. \A r \in Refresher : asOf[r] \in Int
  BY DEF TypeOK, Minute
<1>5. RefreshBounded'
  BY <1>1, <1>4 DEF RefreshBounded
<1>6. BucketsLast'
  <2> SUFFICES ASSUME NEW m \in Minute, ~ (now + 1 >= m + WindowMinutes + Stall)
               PROVE  KeptBucket(m)'
    BY <1>1 DEF BucketsLast
  <2>1. m \in Int
    BY DEF Minute
  <2>2. KeptBucket(m)
    BY <1>1, <2>1 DEF BucketsLast
  <2>3. bucketTTL[m] # 1
    BY <1>1, <2>1, <2>2 DEF KeptBucket
  <2>4. bucket'[m] = total'[m]
    BY <2>2, <2>3 DEF KeptBucket
  <2>5. bucketTTL'[m] = 0 \/ now' + bucketTTL'[m] >= m + BucketTTL - Early
    BY <1>1, <1>2, <2>1, <2>2, <2>3 DEF KeptBucket, Countdown
  <2> QED
    BY <2>4, <2>5 DEF KeptBucket
<1>7. TopLasts'
  <2> SUFFICES ASSUME NEW r \in Refresher, phase[r] \in {"expire", "read"}
               PROVE  /\ top' = union
                      /\ unionOf >= asOf[r] - Stall
                      /\ topTTL' = 0 \/ now + 1 + topTTL' >= asOf[r] + TopTTL
    BY <1>1 DEF TopLasts
  <2>1. /\ top = union /\ unionOf >= asOf[r] - Stall
        /\ topTTL = 0 \/ now + topTTL >= asOf[r] + TopTTL
    BY DEF TopLasts
  <2>2. now - asOf[r] < Stall
    OBVIOUS
  <2>3. topTTL # 1
    BY <1>1, <1>4, <2>1, <2>2
  <2> QED
    BY <1>1, <1>3, <1>4, <2>1, <2>3 DEF Countdown
<1>8. CountingBounded'
  BY <1>1 DEF CountingBounded, TypeOK, Minute
<1> QED
  BY <1>5, <1>6, <1>7, <1>8
-----------------------------------------------------------------------------
\* The inductive step, one action at a time.
LEMMA NextStep == TypeOK /\ IInv /\ [Next]_vars => IInv'
<1> SUFFICES ASSUME TypeOK, IInv, [Next]_vars
             PROVE  IInv'
  OBVIOUS
<1>1. ASSUME NEW r \in Refresher, AggregateUnion(r)
      PROVE  IInv'
  <2>1. phase'[r] = "idle" \/ asOf' = asOf
    BY <1>1 DEF AggregateUnion
  <2> QED
    BY <1>1, <2>1, UnionStep DEF AggregateUnion
<1>2. ASSUME NEW r \in Refresher, AggregateExpire(r)
      PROVE  IInv'
  BY <1>2, ExpireStep DEF AggregateExpire
<1>3. ASSUME NEW r \in Refresher, Refresh(r)
      PROVE  IInv'
  BY <1>1, <1>2, <1>3 DEF Refresh
<1>4. CASE \/ \E i \in Instance, m \in Minute, q \in Query : IncrBucket(i, m, q)
           \/ \E i \in Instance : ExpireBucket(i) \/ CountFails(i)
  BY <1>4, IncrementStep, CountedStep
<1>5. ASSUME NEW i \in Instance, Aggregator(i)
      PROVE  IInv'
  <2>1. i \in Refresher
    BY DEF Refresher
  <2>2. CASE AggregatorTick(i)
    BY <2>1, <2>2, BeginStep DEF AggregatorTick
  <2>3. CASE Refresh(i)
    BY <2>1, <2>3, <1>3
  <2>4. CASE CacheTop(i)
    BY <2>1, <2>4, EndStep DEF CacheTop, Read
  <2> QED
    BY <1>5, <2>2, <2>3, <2>4 DEF Aggregator
<1>6. ASSUME NEW g \in Request, GetTop(g)
      PROVE  IInv'
  <2>1. g \in Refresher
    BY DEF Refresher
  <2>2. CASE GetTopMiss(g)
    BY <2>1, <2>2, BeginStep DEF GetTopMiss
  <2>3. CASE Refresh(g)
    BY <2>1, <2>3, <1>3
  <2>4. CASE AnswerMiss(g)
    BY <2>1, <2>4, EndStep DEF AnswerMiss, Read
  <2> QED
    BY <1>6, <2>2, <2>3, <2>4 DEF GetTop
<1>7. ASSUME NEW r \in Refresher, RefreshFails(r)
      PROVE  IInv'
  <2> USE <1>7 DEF RefreshFails
  <2>1. phase \in [Refresher -> {"idle", "union", "expire", "read"}]
    BY DEF TypeOK
  <2>2. phase'[r] = "idle"
    BY <2>1
  <2>3. CASE UNCHANGED topVars
    BY <2>3, EndStep
  <2>4. CASE phase[r] = "union" /\ ZUnionStore(r)
    BY <2>2, <2>4, UnionStep
  <2>5. CASE phase[r] = "expire" /\ ExpireTop /\ UNCHANGED <<top, union, unionOf>>
    BY <2>2, <2>5, ExpireStep
  <2> QED
    BY <2>3, <2>4, <2>5
<1>8. CASE MinutePasses
  BY <1>8, MinuteStep
<1>9. CASE UNCHANGED vars
  BY <1>9 DEF vars, bucketVars, topVars, IInv, RefreshBounded,
              BucketsLast, KeptBucket, TopLasts, CountingBounded
<1> QED
  BY <1>4, <1>5, <1>6, <1>7, <1>8, <1>9 DEF Next

\* The strengthening is an invariant.
LEMMA Inductive == Spec => [](TypeOK /\ IInv)
<1>1. Spec => []TypeOK
  BY Typed
<1> QED
  BY <1>1, InitStep, NextStep, PTL DEF Spec

(***************************************************************************)
(* IncrementBucket's TTL outlives the window of every refresh, also for    *)
(* events created early or late and for an EXPIRE that fails, as long as   *)
(* bucketTTL exceeds the window by the clock skew and the longest refresh  *)
(* (ten minutes against five in the code).                                 *)
(***************************************************************************)
THEOREM WindowsIntact == Spec => []WindowIntact
<1>1. TypeOK /\ IInv => WindowIntact
  BY BucketsKept DEF IInv
<1> QED
  BY <1>1, Inductive, PTL

(***************************************************************************)
(* Whatever aggregators and missing requests interleave on trend:top, and  *)
(* whichever of their commands fail, what a refresh reads is the exact sum *)
(* of a window at most Stall minutes older than its own.                   *)
(***************************************************************************)
THEOREM ReadsWindows == Spec => []ReadsAWindow
<1>1. IInv => ReadsAWindow
  BY DEF IInv, TopLasts, ReadsAWindow
<1> QED
  BY <1>1, Inductive, PTL
=============================================================================
