------------------------- MODULE HDProcessorProofs -------------------------
(***************************************************************************)
(* What holds of the levels of every analysis: the merges the recursion    *)
(* has recorded make a forest, whose first entries are replayed for a      *)
(* level, so that each level merges one extremum more and takes no crystal *)
(* of the level before apart.                                              *)
(***************************************************************************)
EXTENDS HDProcessor, NNMSComplexProofs, FunctionTheorems

\* The extrema that the entries under some keys merge.
Merging(K) == {ptmp[t][1] : t \in K}

\* A recorded merge is one up, and its extremum is in no later merge.
MergesClimb ==
    \A t \in DOMAIN ptmp :
        /\ ptmp[t][1] # ptmp[t][2]
        /\ Exceeds(ptmp[t][1][1], ptmp[t][2][2], ptmp[t][1][2])
MergedOnce ==
    \A t, u \in DOMAIN ptmp :
        t < u => ptmp[t][1] \notin {ptmp[u][1], ptmp[u][2]}

\* Every extremum merged under a key of K points to the one it is merged to,
\* and every other to itself.
Forest(M, K) ==
    /\ \A t \in K : M[ptmp[t][1]] = ptmp[t][2]
    /\ \A x \in Extrema \ Merging(K) : M[x] = x

\* A key is how far its extremum stands from some value of the field.
KeyOf(x, pers) ==
    \E s \in Sample :
        pers = IF x[1] = 0 THEN y[x[2]] - y[s] ELSE y[s] - y[x[2]]

\* What the recursion records, and that what it leaves is what it recorded.
Recorded ==
    /\ MergesClimb /\ MergedOnce
    /\ \A t \in DOMAIN ptmp : t < Top
    /\ phase = "merging" =>
        /\ Forest(merge, DOMAIN ptmp)
        /\ \A q \in DOMAIN persistence : KeyOf(persistence[q][1], q)
        /\ held # NoPair =>
            /\ held.p[1][1] = held.pold[1][1]
            /\ KeyOf(held.pold[1], held.pers)
    /\ phase \in {"replaying", "idle"} => persistence = ptmp
    /\ phase = "idle" => held = NoPair

-----------------------------------------------------------------------------
(* The rank of a number in a finite set.                                   *)

Rank(S, p) == Cardinality({q \in S : q < p})

\* A larger element has a higher rank, and a rank is less than the number of
\* the elements.
LEMMA RankGrows ==
    ASSUME NEW S \in SUBSET Int, IsFiniteSet(S), NEW p \in S
    PROVE  /\ Rank(S, p) \in Nat /\ Rank(S, p) < Cardinality(S)
           /\ \A q \in S : p < q => Rank(S, p) < Rank(S, q)
<1> DEFINE below(q) == {r \in S : r < q}
<1>1. /\ Cardinality(S) \in Nat
      /\ \A q \in S : /\ IsFiniteSet(below(q))
                      /\ Cardinality(below(q)) \in Nat
                      /\ Cardinality(below(q)) <= Cardinality(S)
                      /\ Cardinality(S) = Cardinality(below(q)) => S = below(q)
  <2>1. \A q \in S : below(q) \in SUBSET S
    OBVIOUS
  <2> HIDE DEF below
  <2> QED
    BY <2>1, FS_Subset, FS_CardinalityType
<1>2. p \notin below(p)
  OBVIOUS
<1>3. ASSUME NEW q \in S, p < q
      PROVE  Cardinality(below(p)) < Cardinality(below(q))
  <2>1. below(p) \subseteq below(q)
    <3> SUFFICES ASSUME NEW r \in S, r < p PROVE r < q
      OBVIOUS
    <3>1. r \in Int /\ p \in Int /\ q \in Int
      OBVIOUS
    <3> QED
      BY <1>3, <3>1
  <2>2. p \in below(q) /\ p \notin below(p)
    BY <1>2, <1>3
  <2> HIDE DEF below
  <2>3. /\ Cardinality(below(p)) <= Cardinality(below(q))
        /\ Cardinality(below(q)) # Cardinality(below(p))
    BY <1>1, <2>1, <2>2, FS_Subset
  <2> QED
    BY <1>1, <2>3
<1>4. Cardinality(below(p)) # Cardinality(S)
  <2> HIDE DEF below
  <2> QED
    BY <1>1, <1>2
<1>5. Cardinality(below(p)) < Cardinality(S)
  <2> HIDE DEF below
  <2> QED
    BY <1>1, <1>4
<1>6. \A q : Rank(S, q) = Cardinality(below(q))
  BY DEF Rank
<1> HIDE DEF below
<1> QED
  BY <1>1, <1>3, <1>5, <1>6

\* Every rank below the number of the elements is taken.
LEMMA RankTaken ==
    ASSUME NEW S \in SUBSET Int, IsFiniteSet(S),
           NEW n \in Nat, n < Cardinality(S)
    PROVE  \E p \in S : Rank(S, p) = n
<1> DEFINE T == 0 .. Cardinality(S) - 1
           rank == [p \in S |-> Rank(S, p)]
<1>1. /\ Cardinality(S) \in Nat
      /\ IsFiniteSet(T) /\ Cardinality(T) = Cardinality(S)
  <2>1. Cardinality(S) \in Nat
    BY FS_CardinalityType
  <2> DEFINE last == Cardinality(S) - 1
  <2>2. last \in Int /\ 0 \in Int /\ last + 1 = Cardinality(S)
    BY <2>1
  <2>3. T = 0 .. last
    OBVIOUS
  <2> HIDE DEF last, T
  <2>4. /\ IsFiniteSet(T)
        /\ Cardinality(T) = IF 0 > last THEN 0 ELSE last - 0 + 1
    BY <2>2, <2>3, FS_Interval
  <2> QED
    BY <2>1, <2>2, <2>4
<1>2. \A p \in S : Rank(S, p) \in T
  BY <1>1, RankGrows
<1>3. rank \in [S -> T]
  BY <1>2
<1>4. \A p, q \in S : rank[p] = rank[q] => p = q
  <2> SUFFICES ASSUME NEW p \in S, NEW q \in S, p # q
               PROVE  Rank(S, p) # Rank(S, q)
    OBVIOUS
  <2>1. Rank(S, p) \in Nat /\ Rank(S, q) \in Nat
    BY RankGrows
  <2>2. p < q => Rank(S, p) < Rank(S, q)
    BY RankGrows
  <2>3. q < p => Rank(S, q) < Rank(S, p)
    BY RankGrows
  <2>4. p < q \/ q < p
    OBVIOUS
  <2> QED
    BY <2>1, <2>2, <2>3, <2>4
<1>5. n \in T
  BY <1>1
<1>6. \A p \in S : rank[p] = Rank(S, p)
  OBVIOUS
<1> HIDE DEF rank, T
<1>7. rank \in Injection(S, T)
  BY <1>3, <1>4, Fun_IsInj
<1>8. rank \in Surjection(S, T)
  <2>1. Cardinality(S) = Cardinality(T) <=> rank \in Surjection(S, T)
    BY <1>1, <1>7, FS_Injection, Zenon
  <2> QED
    BY <1>1, <2>1
<1>9. \A t \in T : \E p \in S : rank[p] = t
  BY <1>8, Fun_SurjectionProperties, Zenon
<1> QED
  BY <1>5, <1>6, <1>9

-----------------------------------------------------------------------------
(* What the recursion records.                                             *)

LEMMA InitRecords == Init => Recorded
<1> SUFFICES ASSUME Init PROVE Recorded
  OBVIOUS
<1>1. DOMAIN ptmp = {} /\ phase = "gradient"
  BY DEF Init
<1> QED
  BY <1>1 DEF Recorded, MergesClimb, MergedOnce

\* A step that records nothing.
LEMMA RecordFrame ==
    ASSUME Recorded, UNCHANGED <<y, ptmp>>,
           phase' = "merging" =>
            /\ Forest(merge, DOMAIN ptmp)'
            /\ \A q \in DOMAIN persistence' : KeyOf(persistence'[q][1], q)
            /\ held' # NoPair =>
                /\ held'.p[1][1] = held'.pold[1][1]
                /\ KeyOf(held'.pold[1], held'.pers),
           phase' \in {"replaying", "idle"} => persistence' = ptmp',
           phase' = "idle" => held' = NoPair
    PROVE  Recorded'
BY DEF Recorded, MergesClimb, MergedOnce, Exceeds, KeyOf

LEMMA SetPersistenceRecords ==
    ASSUME IInv, Recorded, SetPersistence PROVE Recorded'
<1>1. /\ phase = "paths" /\ phase' = "merging"
      /\ UNCHANGED <<y, extrema, ptmp, held>>
      /\ merge' = [x \in Extrema |-> x]
      /\ \A k \in Kind, i \in Sample : extrema[k][i] # None
  BY DEF SetPersistence, given, flow
<1>2. DOMAIN ptmp = {} /\ held = NoPair /\ Extrema' = Extrema
  BY <1>1, SameExtrema DEF IInv, NothingMerged
<1>3. Forest(merge, DOMAIN ptmp)'
  BY <1>1, <1>2 DEF Forest
<1>4. ASSUME NEW q \in DOMAIN persistence'
      PROVE  KeyOf(persistence'[q][1], q)
  <2>1. /\ \E p \in NeighbourPairs : IsKept(p, q)
        /\ persistence'[q] = CHOOSE p \in NeighbourPairs : IsKept(p, q)
    BY DEF SetPersistence
  <2> DEFINE p == persistence'[q]
  <2>2. p \in NeighbourPairs /\ IsKept(p, q)
    BY <2>1
  <2>3. PICK e \in Edges : q = Depth(p[1], e[1], e[2])
    BY <2>2 DEF IsKept, HasPersistence, Depths
  <2>4. e[1] \in Sample /\ e[2] \in Sample
    BY DEF Edges
  <2>5. p[1][1] \in Kind
    BY <2>2 DEF NeighbourPairs, Extremum
  <2> HIDE DEF p
  <2>6. KeyOf(p[1], q)
    BY <2>3, <2>4, <2>5 DEF Depth, Saddle, KeyOf, Kind
  <2> QED
    BY <2>6 DEF p
<1> QED
  BY <1>1, <1>2, <1>3, <1>4, RecordFrame

LEMMA PopMergeRecords ==
    ASSUME IInv, Recorded, PopMerge PROVE Recorded'
<1>1. /\ phase = "merging" /\ phase' = "merging" /\ phase \in Late
      /\ UNCHANGED <<y, extrema, ptmp, merge>>
  BY DEF PopMerge, given, flow, Late
<1>2. PICK pers \in DOMAIN persistence :
        /\ held' = [pers |-> pers, pold |-> persistence[pers],
                    p |-> persistence[pers]]
        /\ persistence' = Remove(persistence, pers)
  BY DEF PopMerge
<1>3. /\ \A q \in DOMAIN persistence' : KeyOf(persistence'[q][1], q)
      /\ KeyOf(held'.pold[1], held'.pers)
      /\ held'.p[1][1] = held'.pold[1][1]
  BY <1>1, <1>2 DEF Recorded, Remove
<1>4. Forest(merge, DOMAIN ptmp)'
  BY <1>1, SameExtrema DEF Recorded, Forest, Merging
<1> QED
  BY <1>1, <1>3, <1>4, RecordFrame

LEMMA FollowChainRecords ==
    ASSUME IInv, Recorded, FollowChain PROVE Recorded'
<1>1. /\ held # NoPair /\ phase \in Late /\ phase # "idle"
      /\ UNCHANGED <<y, extrema, phase, merge, persistence, ptmp>>
      /\ held' = [held EXCEPT !.p = <<merge[held.p[1]], merge[held.p[2]]>>]
  BY DEF FollowChain, given, flow, Late, IInv, TypeOK, NothingMerged, Recorded
<1>2. /\ held \in Entry /\ held.p \in Found
      /\ \A x \in Extrema : merge[x][1] = x[1]
  BY <1>1, LateFacts
<1>3. /\ held'.pers = held.pers /\ held'.pold = held.pold
      /\ held'.p[1][1] = held.p[1][1]
  BY <1>1, <1>2 DEF Entry, Found
<1>4. phase = "merging" => Forest(merge, DOMAIN ptmp)'
  BY <1>1, SameExtrema DEF Recorded, Forest, Merging
<1> QED
  BY <1>1, <1>3, <1>4, RecordFrame DEF Recorded

LEMMA DiscardRecords ==
    ASSUME IInv, Recorded, Discard PROVE Recorded'
<1>1. /\ phase = "merging" /\ held' = NoPair
      /\ UNCHANGED <<y, extrema, phase, merge, persistence, ptmp>>
  BY DEF Discard, given, flow
<1>2. Forest(merge, DOMAIN ptmp)'
  BY <1>1, SameExtrema DEF Recorded, Forest, Merging
<1> QED
  BY <1>1, <1>2, RecordFrame DEF Recorded

\* The kind of the pair in hand, and of its roots, is the kind it had.
LEMMA RootKind ==
    ASSUME IInv, phase \in Late, AtRoots,
           held.p[1][1] = held.pold[1][1]
    PROVE  /\ RootPair[1][1] = held.pold[1][1]
           /\ RootPair[1][1] \in Kind
           /\ RootPair[1][2] \in Sample /\ held.pold[1][2] \in Sample
           /\ RootPair \in {held.p, <<held.p[2], held.p[1]>>}
<1>1. held.p \in Found /\ held.pold \in Found
  BY LateFacts DEF AtRoots
<1>2. RootPair \in {<<held.p[1], held.p[2]>>, <<held.p[2], held.p[1]>>}
  BY DEF RootPair, Ordered
<1>3. held.p = <<held.p[1], held.p[2]>>
  BY <1>1 DEF Found, Pair
<1> QED
  BY <1>1, <1>2, <1>3 DEF Found, Pair, Extremum

\* A postponed pair goes back under a key of the extremum now to give way.
LEMMA PostponeRecords ==
    ASSUME IInv, Recorded, Postpone PROVE Recorded'
<1>1. /\ phase = "merging" /\ phase \in Late /\ AtRoots /\ held # NoPair
      /\ held' = NoPair
      /\ UNCHANGED <<y, extrema, phase, merge, ptmp>>
      /\ persistence' = Insert(persistence, held.pers + Increase, RootPair)
  BY DEF Postpone, Late, AtRoots, given, flow
<1>2. Forest(merge, DOMAIN ptmp)'
  BY <1>1, SameExtrema DEF Recorded, Forest, Merging
<1>3. /\ held.p[1][1] = held.pold[1][1]
      /\ KeyOf(held.pold[1], held.pers)
  BY <1>1 DEF Recorded
<1>4. KeyOf(RootPair[1], held.pers + Increase)
  <2> DEFINE k == RootPair[1][1]
             r == RootPair[1][2]
             t == held.pold[1][2]
  <2>1. /\ k = held.pold[1][1] /\ r \in Sample /\ t \in Sample
    BY <1>1, <1>3, RootKind
  <2>2. PICK s \in Sample :
            held.pers = IF k = 0 THEN y[t] - y[s] ELSE y[s] - y[t]
    BY <1>3, <2>1 DEF KeyOf
  <2>3. Increase = IF k = 0 THEN y[r] - y[t] ELSE y[t] - y[r]
    BY DEF Increase
  <2>4. y \in [Sample -> Int]
    BY <1>1, LateFacts, NNMSComplexAssumption
  <2>5. y[r] \in Int /\ y[t] \in Int /\ y[s] \in Int
    BY <2>1, <2>4
  <2> HIDE DEF k, r, t
  <2>6. held.pers + Increase = IF k = 0 THEN y[r] - y[s] ELSE y[s] - y[r]
    BY <2>2, <2>3, <2>5
  <2> QED
    BY <2>6 DEF k, r, KeyOf
<1>5. \A q \in DOMAIN persistence' : KeyOf(persistence'[q][1], q)
  BY <1>1, <1>4 DEF Recorded, Insert
<1> QED
  BY <1>1, <1>2, <1>5, RecordFrame

\* A root of a forest is not merged under any of its keys.
LEMMA RootsOfForest ==
    ASSUME MergesClimb, NEW K \in SUBSET DOMAIN ptmp, NEW M, Forest(M, K),
           NEW x \in Extrema
    PROVE  M[x] = x <=> x \notin Merging(K)
BY DEF Forest, Merging, MergesClimb

\* A merge of roots is one up, and of an extremum nothing was merged from.
LEMMA MergeRecords ==
    ASSUME IInv, Drained, Recorded, Merge PROVE Recorded'
<1>1. /\ phase = "merging" /\ phase \in Late /\ AtRoots /\ held # NoPair
      /\ held' = NoPair /\ RootPair[1] # RootPair[2]
      /\ UNCHANGED <<y, extrema, phase, persistence>>
  BY DEF Merge, Late, AtRoots, given, flow
<1>2. Extrema' = Extrema
  BY <1>1, SameExtrema
<1>3. CASE RootPair \in pinv2
  <2>1. UNCHANGED <<merge, ptmp>>
    BY <1>3 DEF Merge
  <2>2. Forest(merge, DOMAIN ptmp)'
    BY <1>1, <1>2, <2>1 DEF Recorded, Forest, Merging
  <2> QED
    BY <1>1, <2>1, <2>2, RecordFrame DEF Recorded
<1>4. CASE RootPair \notin pinv2
  <2> DEFINE a == RootPair[1]
             b == RootPair[2]
             D == DOMAIN ptmp
             pers == held.pers
  <2>1. /\ merge' = [merge EXCEPT ![a] = b]
        /\ ptmp' = Insert(ptmp, pers, RootPair)
    BY <1>4 DEF Merge
  <2>2. /\ RootPair \in Found /\ a \in Extrema /\ b \in Extrema
        /\ a # b /\ Exceeds(a[1], b[2], a[2])
        /\ merge \in [Extrema -> Extrema]
    BY <1>1, RootPairFound, LateFacts DEF Found
  <2>3. merge[a] = a /\ merge[b] = b
    BY <1>1, RootKind DEF AtRoots, Recorded
  <2>4. /\ MergesClimb /\ MergedOnce /\ Forest(merge, D)
        /\ KeyOf(held.pold[1], pers) /\ \A t \in D : t < Top
    BY <1>1 DEF Recorded
  <2>5. a \notin Merging(D) /\ b \notin Merging(D)
    BY <2>2, <2>3, <2>4, RootsOfForest
  <2>6. /\ D \subseteq Int /\ pers \in Int
        /\ \A t \in D : t < pers
    BY <1>1, LateFacts DEF Entry, Drained
  <2>7. /\ DOMAIN ptmp' = D \cup {pers} /\ pers \notin D
        /\ ptmp'[pers] = RootPair /\ \A t \in D : ptmp'[t] = ptmp[t]
    BY <2>1, <2>6 DEF Insert
  <2>8. pers < Top
    <3>1. held.pold[1][2] \in Sample
      BY <1>1, RootKind DEF Recorded
    <3> QED
      BY <1>1, <2>4, <3>1, LateFacts, NNMSComplexAssumption, ZenonT(30) DEF KeyOf
  <2> HIDE DEF a, b, D, pers
  <2>9. MergesClimb'
    <3> SUFFICES ASSUME NEW t \in DOMAIN ptmp'
                 PROVE  /\ ptmp'[t][1] # ptmp'[t][2]
                        /\ Exceeds(ptmp'[t][1][1], ptmp'[t][2][2],
                                   ptmp'[t][1][2])
      BY <1>1 DEF MergesClimb, Exceeds
    <3> QED
      BY <2>2, <2>4, <2>7 DEF MergesClimb, a, b, D
  <2>10. MergedOnce'
    <3> SUFFICES ASSUME NEW t \in D \cup {pers}, NEW u \in D \cup {pers}, t < u
                 PROVE  ptmp'[t][1] \notin {ptmp'[u][1], ptmp'[u][2]}
      BY <2>7 DEF MergedOnce
    <3>1. t \in D
      BY <2>6
    <3>2. CASE u \in D
      BY <2>4, <2>7, <3>1, <3>2 DEF MergedOnce, D
    <3>3. CASE u = pers
      BY <2>5, <2>7, <3>1, <3>3 DEF Merging, a, b
    <3> QED
      BY <3>2, <3>3
  <2>11. \A t \in DOMAIN ptmp' : t < Top
    BY <2>4, <2>7, <2>8
  <2>12. Forest(merge, DOMAIN ptmp)'
    <3>1. \A t \in D : ptmp[t][1] # a
      BY <2>5 DEF Merging
    <3>2. \A t \in D : ptmp[t][1] \in Extrema
      BY <1>1, LateFacts DEF D, Found
    <3>3. \A t \in D \cup {pers} : merge'[ptmp'[t][1]] = ptmp'[t][2]
      BY <2>1, <2>2, <2>4, <2>7, <3>1, <3>2 DEF Forest, a, b
    <3>4. ASSUME NEW x \in Extrema,
                 \A t \in D \cup {pers} : x # ptmp'[t][1]
          PROVE  merge'[x] = x
      <4>1. x # a /\ x \notin Merging(D)
        BY <2>7, <3>4 DEF a, Merging
      <4> QED
        BY <2>1, <2>2, <2>4, <4>1 DEF Forest
    <3> QED
      BY <1>2, <2>7, <3>3, <3>4 DEF Forest, Merging
  <2> QED
    BY <1>1, <2>9, <2>10, <2>11, <2>12 DEF Recorded, KeyOf
<1> QED
  BY <1>3, <1>4

\* No other step records or leaves anything.
LEMMA OthersRecord ==
    ASSUME IInv, Recorded,
           \/ SetGradient \/ StartPath \/ FollowPath \/ EndPath
           \/ SetHierarchy
           \/ PopReplay \/ ReplayMerge \/ Compress \/ mergeCrystals
           \/ getPartitions \/ \E pLevel \in Levels : mergePersistence(pLevel)
    PROVE  Recorded'
<1> USE DEF given, flow, pairs
<1>1. UNCHANGED <<y, ptmp>>
  BY DEF SetGradient, StartPath, FollowPath, EndPath, SetHierarchy,
         PopReplay, ReplayMerge, Compress, mergeCrystals, getPartitions,
         mergePersistence
<1>2. phase' # "merging"
  BY DEF SetGradient, StartPath, FollowPath, EndPath, SetHierarchy,
         PopReplay, ReplayMerge, Compress, mergeCrystals, getPartitions,
         mergePersistence, StartReplay
<1>3. phase' \in {"replaying", "idle"} => persistence' = ptmp'
  BY DEF SetGradient, StartPath, FollowPath, EndPath, SetHierarchy,
         PopReplay, ReplayMerge, Compress, mergeCrystals, getPartitions,
         mergePersistence, Recorded
<1>4. phase' = "idle" => held' = NoPair
  BY DEF SetGradient, StartPath, FollowPath, EndPath, SetHierarchy,
         PopReplay, ReplayMerge, Compress, mergeCrystals, getPartitions,
         mergePersistence, StartReplay, Recorded
<1> QED
  BY <1>1, <1>2, <1>3, <1>4, RecordFrame

LEMMA NextRecords ==
    ASSUME IInv, Drained, Recorded, [Next]_vars PROVE Recorded'
<1>1. CASE UNCHANGED vars
  <2>1. UNCHANGED <<y, extrema, phase, merge, persistence, ptmp, held>>
    BY <1>1 DEF vars, given, flow, pairs
  <2> QED
    BY <2>1, SameExtrema, RecordFrame DEF Recorded, Forest, Merging
<1> QED
  BY <1>1, SetPersistenceRecords, PopMergeRecords, FollowChainRecords,
     DiscardRecords, PostponeRecords, MergeRecords, OthersRecord
  DEF Next, Compute

-----------------------------------------------------------------------------
(* Levels.                                                                 *)

\* The keys of the merges replayed for a level, those still to be replayed
\* among them, and whether a level is being merged or waits to be read.
Below(l) == {t \in DOMAIN ptmp : t < Persistence(l)}
hand == IF held = NoPair THEN {} ELSE {held.pers}
left == todo \cup hand
UnderWay == Len(levelCrystals) > Len(crystalPartitions)

\* There are as many merges below a level as levels.
LEMMA BelowCounts ==
    ASSUME IInv, MergesCounted, Recorded, phase \in {"replaying", "idle"}
    PROVE  /\ IsFiniteSet(Levels) /\ Levels \subseteq Int
           /\ persistenceN \in Nat
           /\ \A l \in Nat : l < persistenceN =>
                /\ Persistence(l) \in Levels
                /\ Rank(Levels, Persistence(l)) = l
                /\ Below(l) \subseteq DOMAIN ptmp
                /\ IsFiniteSet(Below(l)) /\ Cardinality(Below(l)) = l
<1>1. /\ DOMAIN ptmp \subseteq Int /\ Levels = DOMAIN ptmp \cup {Top}
      /\ \A t \in DOMAIN ptmp : t < Top
      /\ Top \in Int
  BY LateFacts, NNMSComplexAssumption DEF Late, Levels, Recorded
<1>2. IsFiniteSet(Levels) /\ Levels \subseteq Int
  BY <1>1, FS_AddElement DEF MergesCounted
<1>3. persistenceN \in Nat
  BY <1>2, FS_CardinalityType DEF persistenceN
<1>4. ASSUME NEW l \in Nat, l < persistenceN
      PROVE  /\ Persistence(l) \in Levels
             /\ Rank(Levels, Persistence(l)) = l
             /\ Below(l) \subseteq DOMAIN ptmp
             /\ IsFiniteSet(Below(l)) /\ Cardinality(Below(l)) = l
  <2>1. \E p \in Levels : Rank(Levels, p) = l
    BY <1>2, <1>4, RankTaken DEF persistenceN
  <2>2. Persistence(l) = CHOOSE p \in Levels : Rank(Levels, p) = l
    BY DEF Persistence, Rank
  <2>3. Persistence(l) \in Levels /\ Rank(Levels, Persistence(l)) = l
    BY <2>1, <2>2
  <2> DEFINE pers == Persistence(l)
  <2>4. {q \in Levels : q < pers} = {q \in DOMAIN ptmp : q < pers}
    <3>1. pers \in DOMAIN ptmp \cup {Top}
      BY <1>1, <2>3
    <3> HIDE DEF pers
    <3>2. ~(Top < pers)
      BY <1>1, <3>1
    <3> QED
      BY <1>1, <3>2
  <2>5. Below(l) = {q \in DOMAIN ptmp : q < pers}
    BY DEF Below
  <2> HIDE DEF pers
  <2>6. Cardinality(Below(l)) = l
    BY <2>3, <2>4, <2>5 DEF Rank, pers
  <2>7. Below(l) \in SUBSET Levels
    BY <1>1, <2>5
  <2> QED
    BY <1>2, <2>3, <2>5, <2>6, <2>7, FS_Subset
<1> QED
  BY <1>2, <1>3, <1>4

\* Of two levels the later has the higher persistence.
LEMMA LevelsGrow ==
    ASSUME IInv, MergesCounted, Recorded, phase \in {"replaying", "idle"},
           NEW l \in Nat, NEW m \in Nat, l < m, m < persistenceN
    PROVE  Below(l) \subseteq Below(m)
<1> DEFINE p == Persistence(l)
           q == Persistence(m)
<1>1. /\ IsFiniteSet(Levels) /\ Levels \subseteq Int /\ persistenceN \in Nat
      /\ p \in Levels /\ Rank(Levels, p) = l
      /\ q \in Levels /\ Rank(Levels, q) = m
  BY BelowCounts
<1>2. Below(l) = {t \in DOMAIN ptmp : t < p}
      /\ Below(m) = {t \in DOMAIN ptmp : t < q}
  BY DEF Below
<1>3. DOMAIN ptmp \subseteq Int
  BY LateFacts DEF Late
<1> HIDE DEF p, q
<1>4. p < q
  <2>1. q < p => Rank(Levels, q) < Rank(Levels, p)
    BY <1>1, RankGrows
  <2>2. q # p
    BY <1>1
  <2>3. p \in Int /\ q \in Int
    BY <1>1
  <2> QED
    BY <1>1, <2>1, <2>2, <2>3
<1>5. p \in Int /\ q \in Int
  BY <1>1
<1> QED
  BY <1>2, <1>3, <1>4, <1>5

\* No two entries merge the same extremum.
LEMMA MergingCounts ==
    ASSUME MergedOnce, DOMAIN ptmp \subseteq Int,
           NEW K \in SUBSET DOMAIN ptmp, IsFiniteSet(K)
    PROVE  /\ IsFiniteSet(Merging(K))
           /\ Cardinality(Merging(K)) = Cardinality(K)
<1> DEFINE f == [t \in K |-> ptmp[t][1]]
<1>1. f \in [K -> Merging(K)] /\ \A a \in Merging(K) : \E t \in K : f[t] = a
  BY DEF Merging
<1>2. ASSUME NEW t \in K, NEW u \in K, f[t] = f[u] PROVE t = u
  <2>1. t \in Int /\ u \in Int
    OBVIOUS
  <2>2. ~(t < u) /\ ~(u < t)
    BY <1>2 DEF MergedOnce
  <2> QED
    BY <2>1, <2>2
<1> HIDE DEF f
<1>3. f \in Surjection(K, Merging(K))
  BY <1>1, Fun_IsSurj
<1>4. f \in Injection(K, Merging(K))
  BY <1>1, <1>2, Fun_IsInj
<1>5. /\ IsFiniteSet(Merging(K))
      /\ Cardinality(Merging(K)) = Cardinality(K) <=>
            f \in Injection(K, Merging(K))
  BY <1>3, FS_Surjection, Zenon
<1> QED
  BY <1>4, <1>5

-----------------------------------------------------------------------------
(* Chains.                                                                 *)

\* What every round of the compression keeps: following a chain before or
\* after a merge of K makes no difference, and the roots stay roots.
Shortened(M, K) ==
    /\ \A x \in Extrema : M[x] = x <=> x \notin Merging(K)
    /\ \A t \in K :
        \/ /\ M[ptmp[t][1]] \notin Merging(K)
           /\ M[ptmp[t][2]] = M[ptmp[t][1]]
        \/ \E u \in K : /\ M[ptmp[t][1]] = ptmp[u][1]
                        /\ M[ptmp[t][2]] = ptmp[u][2]

\* What is left in the end: every extremum is sent to its root.
Compressed(M, K) ==
    /\ \A x \in Extrema : M[x] = x <=> x \notin Merging(K)
    /\ \A t \in K : M[ptmp[t][1]] = M[ptmp[t][2]]

LEMMA ForestShortened ==
    ASSUME MergesClimb, NEW K \in SUBSET DOMAIN ptmp, NEW M, Forest(M, K),
           \A t \in DOMAIN ptmp : ptmp[t] \in Found
    PROVE  Shortened(M, K)
<1>1. \A x \in Extrema : M[x] = x <=> x \notin Merging(K)
  BY RootsOfForest
<1>2. ASSUME NEW t \in K
      PROVE  \/ /\ M[ptmp[t][1]] \notin Merging(K)
                /\ M[ptmp[t][2]] = M[ptmp[t][1]]
             \/ \E u \in K : /\ M[ptmp[t][1]] = ptmp[u][1]
                             /\ M[ptmp[t][2]] = ptmp[u][2]
  <2>1. M[ptmp[t][1]] = ptmp[t][2] /\ ptmp[t][2] \in Extrema
    BY DEF Forest, Found
  <2>2. CASE ptmp[t][2] \notin Merging(K)
    BY <1>1, <2>1, <2>2
  <2>3. CASE ptmp[t][2] \in Merging(K)
    <3>1. PICK u \in K : ptmp[u][1] = ptmp[t][2]
      BY <2>3 DEF Merging
    <3> QED
      BY <2>1, <3>1 DEF Forest
  <2> QED
    BY <2>2, <2>3
<1> QED
  BY <1>1, <1>2 DEF Shortened

LEMMA CompressShortens ==
    ASSUME y \in Field, Extrema \subseteq Extremum,
           NEW M \in [Extrema -> Extrema], NEW K \in SUBSET DOMAIN ptmp,
           \A x \in Extrema : M[x] # x =>
                M[x][1] = x[1] /\ Exceeds(x[1], M[x][2], x[2]),
           Shortened(M, K),
           \A t \in DOMAIN ptmp : ptmp[t] \in Found
    PROVE  Shortened([x \in Extrema |-> M[M[x]]], K)
<1> DEFINE N == [x \in Extrema |-> M[M[x]]]
<1>1. \A x \in Extrema : N[x] = M[M[x]]
  OBVIOUS
<1>2. ASSUME NEW x \in Extrema PROVE N[x] = x <=> M[x] = x
  <2> SUFFICES ASSUME M[M[x]] = x, M[x] # x PROVE FALSE
    BY <1>1
  <2> DEFINE z == M[x]
  <2>1. /\ z \in Extrema /\ z[1] = x[1] /\ Exceeds(x[1], z[2], x[2])
        /\ M[z] = x /\ M[z] # z
    OBVIOUS
  <2>2. Exceeds(x[1], x[2], z[2])
    BY <2>1
  <2>3. x[1] \in Kind /\ x[2] \in Sample /\ z[2] \in Sample
    BY <2>1 DEF Extremum
  <2> HIDE DEF z
  <2> QED
    BY <2>1, <2>2, <2>3, ExceedsOrder
<1>3. ASSUME NEW t \in K
      PROVE  \/ /\ N[ptmp[t][1]] \notin Merging(K)
                /\ N[ptmp[t][2]] = N[ptmp[t][1]]
             \/ \E u \in K : /\ N[ptmp[t][1]] = ptmp[u][1]
                             /\ N[ptmp[t][2]] = ptmp[u][2]
  <2> DEFINE a == ptmp[t][1]
             b == ptmp[t][2]
  <2>1. a \in Extrema /\ b \in Extrema
    BY DEF Found
  <2>2. CASE M[a] \notin Merging(K) /\ M[b] = M[a]
    <3>1. M[M[a]] = M[a]
      BY <2>1, <2>2 DEF Shortened
    <3> QED
      BY <1>1, <2>1, <2>2, <3>1
  <2>3. CASE \E u \in K : M[a] = ptmp[u][1] /\ M[b] = ptmp[u][2]
    <3>1. PICK u \in K : M[a] = ptmp[u][1] /\ M[b] = ptmp[u][2]
      BY <2>3
    <3>2. N[a] = M[ptmp[u][1]] /\ N[b] = M[ptmp[u][2]]
      BY <1>1, <2>1, <3>1
    <3> HIDE DEF N, a, b
    <3>3. \/ N[a] \notin Merging(K) /\ N[b] = N[a]
          \/ \E v \in K : N[a] = ptmp[v][1] /\ N[b] = ptmp[v][2]
      BY <3>2 DEF Shortened
    <3> QED
      BY <3>3 DEF a, b
  <2> QED
    BY <2>2, <2>3 DEF Shortened
<1> QED
  BY <1>2, <1>3 DEF Shortened

LEMMA ShortenedEnds ==
    ASSUME NEW M \in [Extrema -> Extrema], NEW K \in SUBSET DOMAIN ptmp,
           Shortened(M, K), \A x \in Extrema : M[M[x]] = M[x],
           \A t \in DOMAIN ptmp : ptmp[t] \in Found
    PROVE  Compressed(M, K)
<1>1. ASSUME NEW t \in K PROVE M[ptmp[t][1]] = M[ptmp[t][2]]
  <2>1. M[ptmp[t][1]] \in Extrema /\ M[M[ptmp[t][1]]] = M[ptmp[t][1]]
    BY DEF Found
  <2>2. M[ptmp[t][1]] \notin Merging(K)
    BY <2>1 DEF Shortened
  <2> QED
    BY <2>2 DEF Shortened, Merging
<1> QED
  BY <1>1 DEF Shortened, Compressed

\* A finite set of numbers has a greatest.
LEMMA Greatest ==
    ASSUME NEW S \in SUBSET Int, IsFiniteSet(S), S # {}
    PROVE  \E p \in S : \A q \in S : ~(p < q)
<1> DEFINE n == Cardinality(S) - 1
<1>1. /\ Cardinality(S) \in Nat /\ Cardinality(S) # 0
  BY FS_CardinalityType, FS_EmptySet
<1>2. n \in Nat /\ n < Cardinality(S) /\ \A r \in Nat : r < n + 1 => r <= n
      /\ n + 1 = Cardinality(S)
  BY <1>1
<1> HIDE DEF n
<1>3. PICK p \in S : Rank(S, p) = n
  BY <1>2, RankTaken
<1>4. ASSUME NEW q \in S, p < q PROVE FALSE
  <2>1. Rank(S, p) < Rank(S, q)
    BY <1>4, RankGrows
  <2>2. Rank(S, q) \in Nat /\ Rank(S, q) < Cardinality(S)
    BY RankGrows
  <2> QED
    BY <1>2, <1>3, <2>1, <2>2
<1> QED
  BY <1>4

\* What a level sends together a later level sends together: a counterexample
\* of the greatest key would be merged to another, of a greater key.
LEMMA Coarser ==
    ASSUME MergesClimb, MergedOnce, DOMAIN ptmp \subseteq Int,
           IsFiniteSet(DOMAIN ptmp),
           \A t \in DOMAIN ptmp : ptmp[t] \in Found,
           NEW L \in SUBSET DOMAIN ptmp, NEW K \in SUBSET L,
           NEW M, Compressed(M, K), NEW G, Compressed(G, L)
    PROVE  \A x \in Extrema : G[M[x]] = G[x]
<1> DEFINE T == {t \in K : G[M[ptmp[t][1]]] # G[ptmp[t][1]]}
<1>1. T = {}
  <2> SUFFICES ASSUME T # {} PROVE FALSE
    OBVIOUS
  <2>1. T \in SUBSET Int /\ IsFiniteSet(T)
    BY FS_Subset
  <2>2. PICK t \in T : \A u \in T : ~(t < u)
    BY <2>1, Greatest
  <2> DEFINE b == ptmp[t][2]
  <2>3. /\ t \in K /\ t \in L /\ t \in DOMAIN ptmp /\ b \in Extrema
        /\ ptmp[t][1] # b
    BY DEF Found, MergesClimb
  <2>4. M[ptmp[t][1]] = M[b] /\ G[ptmp[t][1]] = G[b]
    BY <2>3 DEF Compressed
  <2>5. G[M[b]] # G[b]
    BY <2>4
  <2>6. b \in Merging(K)
    BY <2>3, <2>5 DEF Compressed
  <2>7. PICK u \in K : ptmp[u][1] = b
    BY <2>6 DEF Merging
  <2>8. u \in T /\ ~(u < t) /\ u # t
    BY <2>3, <2>5, <2>7 DEF MergedOnce
  <2>9. t \in Int /\ u \in Int
    BY <2>3
  <2> QED
    BY <2>2, <2>8, <2>9
<1>2. ASSUME NEW x \in Extrema PROVE G[M[x]] = G[x]
  <2>1. CASE x \notin Merging(K)
    BY <2>1 DEF Compressed
  <2>2. CASE x \in Merging(K)
    BY <1>1, <2>2 DEF Merging
  <2> QED
    BY <2>1, <2>2
<1> QED
  BY <1>2

-----------------------------------------------------------------------------
(* The loop over the levels.                                               *)

Crystal == Extremum \X Extremum

\* What is stored has its type, and levels are only merged or read once the
\* complex is computed and the first level known.
Books ==
    /\ crystalPartitions \in Seq([Sample -> Crystal])
    /\ levelCrystals \in Seq(SUBSET Crystal)
    /\ pcrystals \subseteq Crystal
    /\ HDTypeOK
    /\ start = None => crystalPartitions = <<>> /\ levelCrystals = <<>>
    /\ start # None =>
        /\ phase \in {"replaying", "idle"}
        /\ UnderWay => level < persistenceN
        /\ ~UnderWay => phase = "idle"

\* Entries are replayed in the order of their keys, so that the pair in hand
\* is one of roots; and when none is left the chains are shortened.
Replayed ==
    UnderWay =>
        /\ left \subseteq Below(level)
        /\ held # NoPair =>
            /\ held.pers \notin todo /\ held.p = ptmp[held.pers]
            /\ \A u \in todo : held.pers < u
        /\ phase = "replaying" =>
            /\ \A t \in Below(level) \ left : \A u \in left : t < u
            /\ left # {} => Forest(merge, Below(level) \ left)
            /\ left = {} => Shortened(merge, Below(level))
        /\ phase = "idle" => Compressed(merge, Below(level))

\* The crystals stored of a level are those of the merges below it.
Stored ==
    \A l \in 1 .. Len(crystalPartitions) :
        \E M \in [Extrema -> Extrema] :
            /\ Compressed(M, Below(start + l - 1))
            /\ crystalPartitions[l] =
                    [i \in Sample |-> <<M[At(0, i)], M[At(1, i)]>>]

Complex == IInv /\ Drained /\ MergesCounted /\ Recorded

HDInv == Complex /\ Books /\ Replayed /\ Stored

LEMMA HDInitEstablishes == HDInit => HDInv
<1> SUFFICES ASSUME HDInit PROVE HDInv
  OBVIOUS
<1>1. Complex
  BY InitEstablishes, InitDrained, InitRecords DEF HDInit, Complex
<1>2. /\ start = None /\ crystalPartitions = <<>> /\ levelCrystals = <<>>
      /\ pcrystals = {}
  BY DEF HDInit, Init
<1>3. Len(crystalPartitions) = 0 /\ Len(levelCrystals) = 0 /\ ~UnderWay
  BY <1>2 DEF UnderWay
<1>4. Books
  BY <1>2, <1>3 DEF Books, HDTypeOK
<1>5. Replayed /\ Stored
  BY <1>3 DEF Replayed, Stored
<1> QED
  BY <1>1, <1>4, <1>5 DEF HDInv

\* How many levels there are, and that the one under way is one of them.
LEMMA LevelNumbers ==
    ASSUME HDInv
    PROVE  /\ Len(crystalPartitions) \in Nat /\ Len(levelCrystals) \in Nat
           /\ UnderWay => start # None
           /\ start # None =>
                /\ start \in Nat /\ level \in Nat
                /\ phase \in {"replaying", "idle"} /\ phase \in Late
                /\ level = start + Len(crystalPartitions)
<1>1. Len(crystalPartitions) \in Nat /\ Len(levelCrystals) \in Nat
  BY DEF HDInv, Books
<1>2. start = None => ~UnderWay
  BY DEF HDInv, Books, UnderWay
<1>3. start # None => start \in Nat
  BY DEF HDInv, Books, HDTypeOK
<1> QED
  BY <1>1, <1>2, <1>3 DEF HDInv, Books, level, Late

\* A level is merged under the persistence of a level of the complex.
LEMMA PersistenceIsLevel ==
    ASSUME HDInv, start # None, level < persistenceN
    PROVE  Persistence(level) \in Levels
BY LevelNumbers, BelowCounts DEF HDInv, Complex

\* Every step of the loop is a step of the complex.
LEMMA HDNextIsNext ==
    ASSUME HDInv, [HDNext]_<<vars, result>>
    PROVE  [Next]_vars
<1>1. CASE MergeLevel
  BY <1>1, PersistenceIsLevel DEF MergeLevel, Next
<1>2. CASE ReadLevel
  BY <1>2 DEF ReadLevel, Next
<1>3. CASE \E persistenceArg \in {-1, 3} : SetStart(persistenceArg)
  BY <1>3 DEF SetStart
<1> QED
  BY <1>1, <1>2, <1>3 DEF HDNext, Next

LEMMA ComplexKept ==
    ASSUME HDInv, [HDNext]_<<vars, result>>
    PROVE  Complex'
BY HDNextIsNext, NextKeepsInvariant, NextDrains, NextRecords
DEF HDInv, Complex

\* What a level is made of does not change while it is merged.
LEMMA SameLevel ==
    ASSUME UNCHANGED <<extrema, persistence, ptmp, start, crystalPartitions>>
    PROVE  /\ Extrema' = Extrema
           /\ persistenceN' = persistenceN /\ level' = level
           /\ Below(level)' = Below(level)
           /\ Forest(merge, Below(level) \ left)' <=>
                Forest(merge', Below(level) \ left')
           /\ Shortened(merge, Below(level))' <=>
                Shortened(merge', Below(level))
           /\ Compressed(merge, Below(level))' <=>
                Compressed(merge', Below(level))
<1>1. Extrema' = Extrema
  BY SameExtrema
<1>2. persistenceN' = persistenceN /\ level' = level
  BY DEF persistenceN, Levels, level
<1>3. Below(level)' = Below(level)
  BY DEF Below, Persistence, Levels, level
<1> QED
  BY <1>1, <1>2, <1>3 DEF Forest, Shortened, Compressed, Merging

LEMMA StoredFrame ==
    ASSUME UNCHANGED <<extrema, persistence, ptmp, start, crystalPartitions>>,
           Stored
    PROVE  Stored'
<1>1. Extrema' = Extrema
  BY SameExtrema
<1>2. ASSUME NEW l \in 1 .. Len(crystalPartitions)
      PROVE  \E M \in [Extrema' -> Extrema'] :
                /\ Compressed(M, Below(start + l - 1))'
                /\ crystalPartitions'[l] =
                        [i \in Sample |-> <<M[At(0, i)'], M[At(1, i)']>>]
  <2>1. PICK M \in [Extrema -> Extrema] :
            /\ Compressed(M, Below(start + l - 1))
            /\ crystalPartitions[l] =
                    [i \in Sample |-> <<M[At(0, i)], M[At(1, i)]>>]
    BY DEF Stored
  <2>2. Below(start + l - 1)' = Below(start + l - 1)
    BY DEF Below, Persistence, Levels
  <2>3. Compressed(M, Below(start + l - 1))'
    BY <1>1, <2>1, <2>2 DEF Compressed, Merging
  <2>4. \A i \in Sample : At(0, i)' = At(0, i) /\ At(1, i)' = At(1, i)
    BY DEF At
  <2> QED
    BY <1>1, <2>1, <2>3, <2>4
<1> QED
  BY <1>2 DEF Stored

\* The steps of a replay, and what they leave alone.
LEMMA StepsOfReplay ==
    ASSUME HDInv, Compute, start # None
    PROVE  /\ PopReplay \/ FollowChain \/ ReplayMerge \/ Compress
              \/ mergeCrystals
           /\ phase = "replaying" /\ phase' \in {"replaying", "idle"}
           /\ UNCHANGED <<extrema, persistence, ptmp>>
<1>1. phase \in {"replaying", "idle"} /\ (phase = "idle" => held = NoPair)
  BY DEF HDInv, Books, Complex, Recorded
<1>2. PopReplay \/ FollowChain \/ ReplayMerge \/ Compress \/ mergeCrystals
  BY <1>1
  DEF Compute, SetGradient, StartPath, FollowPath, EndPath, SetPersistence,
      PopMerge, Discard, Postpone, Merge, SetHierarchy
<1>3. phase = "replaying"
  BY <1>1, <1>2
  DEF PopReplay, FollowChain, ReplayMerge, Compress, mergeCrystals
<1> QED
  BY <1>2, <1>3
  DEF PopReplay, FollowChain, ReplayMerge, Compress, mergeCrystals, flow,
      pairs

\* The crystals a level sets, and those the samples are in, are crystals.
LEMMA CrystalTypes ==
    ASSUME IInv, phase \in Late
    PROVE  /\ Partition \in [Sample -> Crystal]
           /\ {Merged(c) : c \in crystals} \subseteq Crystal
<1>1. merge \in [Extrema -> Extrema] /\ Extrema \subseteq Extremum
  BY LateFacts
<1>2. \A i \in Sample : At(0, i) \in Extrema /\ At(1, i) \in Extrema
  BY DEF Extrema, Kind
<1> QED
  BY <1>1, <1>2 DEF Partition, Merged, crystals, Crystal

LEMMA ComputeKeepsBooks ==
    ASSUME HDInv, Compute, UNCHANGED result
    PROVE  Books'
<1>1. UNCHANGED <<start, crystalPartitions, levelCrystals, UnderWay, level>>
  BY DEF result, UnderWay, level
<1>2. pcrystals' \subseteq Crystal
  <2>1. CASE mergeCrystals
    <3>1. phase \in Late /\ pcrystals' = {Merged(c) : c \in crystals}
      BY <2>1 DEF mergeCrystals, Late
    <3> QED
      BY <3>1, CrystalTypes DEF HDInv, Complex
  <2>2. CASE ~mergeCrystals
    <3>1. pcrystals' = pcrystals
      BY <2>2
      DEF Compute, SetGradient, StartPath, FollowPath, EndPath,
          SetPersistence, PopMerge, FollowChain, Discard, Postpone, Merge,
          SetHierarchy, PopReplay, ReplayMerge, Compress
    <3> QED
      BY <3>1 DEF HDInv, Books
  <2> QED
    BY <2>1, <2>2
<1>3. CASE start = None
  BY <1>1, <1>2, <1>3 DEF HDInv, Books, HDTypeOK
<1>4. CASE start # None
  <2>1. phase = "replaying" /\ phase' \in {"replaying", "idle"}
        /\ UNCHANGED <<extrema, persistence, ptmp>>
    BY <1>4, StepsOfReplay
  <2>2. persistenceN' = persistenceN
    BY <2>1 DEF persistenceN, Levels
  <2>3. UnderWay
    BY <1>4, <2>1 DEF HDInv, Books
  <2> QED
    BY <1>1, <1>2, <1>4, <2>1, <2>2, <2>3 DEF HDInv, Books, HDTypeOK
<1> QED
  BY <1>3, <1>4

-----------------------------------------------------------------------------
(* The replay of the merges below a level.                                 *)

\* What is known while a level is under way, its keys by name.
LEMMA ReplayFacts ==
    ASSUME HDInv, UnderWay
    PROVE  /\ start # None /\ phase \in Late /\ persistence = ptmp
           /\ y \in Field /\ Extrema \subseteq Extremum
           /\ DOMAIN ptmp \subseteq Int
           /\ Below(level) \subseteq DOMAIN ptmp
           /\ \A t \in DOMAIN ptmp : ptmp[t] \in Found
           /\ merge \in [Extrema -> Extrema]
           /\ held \in Entry \cup {NoPair}
           /\ MergesClimb /\ MergedOnce
           /\ level \in Nat /\ level < persistenceN
           /\ left \subseteq Below(level)
<1>1. /\ start # None /\ phase \in {"replaying", "idle"} /\ phase \in Late
      /\ level \in Nat /\ level < persistenceN
  BY LevelNumbers DEF HDInv, Books
<1>2. Below(level) \subseteq DOMAIN ptmp
  BY <1>1, BelowCounts DEF HDInv, Complex
<1> QED
  BY <1>1, <1>2, LateFacts DEF HDInv, Complex, Recorded, Replayed

\* Entries already replayed merge no extremum of the pair in hand, so its
\* extrema are roots, and in order.
LEMMA HandAtRoots ==
    ASSUME HDInv, UnderWay, phase = "replaying", held # NoPair
    PROVE  /\ held.pers \in DOMAIN ptmp
           /\ AtRoots /\ RootPair = ptmp[held.pers]
<1> DEFINE p == ptmp[held.pers]
           K == Below(level) \ left
<1>1. /\ held.p = p /\ held.pers \in left /\ held.pers \in DOMAIN ptmp
      /\ \A t \in K : t < held.pers
      /\ Forest(merge, K)
  BY ReplayFacts DEF HDInv, Replayed, left, hand
<1>2. /\ p \in Found /\ p[1] \in Extrema /\ p[2] \in Extrema
      /\ p[1][1] = p[2][1] /\ p[1][1] \in Kind
      /\ p[1][2] \in Sample /\ p[2][2] \in Sample
      /\ Exceeds(p[1][1], p[2][2], p[1][2])
      /\ p = <<p[1], p[2]>>
  BY <1>1, ReplayFacts DEF Found, Pair, Extremum, MergesClimb
<1>3. K \subseteq DOMAIN ptmp
  BY ReplayFacts
<1>4. p[1] \notin Merging(K) /\ p[2] \notin Merging(K)
  BY <1>1, <1>3, ReplayFacts DEF MergedOnce, Merging
<1> HIDE DEF p, K
<1>5. AtRoots
  BY <1>1, <1>2, <1>4 DEF AtRoots, Forest
<1>6. ~Exceeds(p[1][1], p[1][2], p[2][2])
  BY <1>2, ReplayFacts, ExceedsOrder
<1>7. RootPair = p
  BY <1>1, <1>2, <1>6 DEF RootPair, Ordered
<1> QED
  BY <1>1, <1>5, <1>7 DEF p

\* What a step of a replay has to show.
LEMMA ReplayFrame ==
    ASSUME UNCHANGED <<extrema, persistence, ptmp, result>>,
           left' \subseteq Below(level),
           held' # NoPair =>
            /\ held'.pers \notin todo' /\ held'.p = ptmp[held'.pers]
            /\ \A u \in todo' : held'.pers < u,
           phase' = "replaying" =>
            /\ \A t \in Below(level) \ left' : \A u \in left' : t < u
            /\ left' # {} => Forest(merge', Below(level) \ left')
            /\ left' = {} => Shortened(merge', Below(level)),
           phase' = "idle" => Compressed(merge', Below(level))
    PROVE  Replayed'
<1>1. UNCHANGED <<start, crystalPartitions, levelCrystals>>
  BY DEF result
<1> QED
  BY <1>1, SameLevel DEF Replayed

\* The first of the entries to be replayed comes to the hand.
LEMMA PopReplayReplays ==
    ASSUME HDInv, UnderWay, PopReplay, UNCHANGED result
    PROVE  Replayed'
<1>1. /\ phase = "replaying" /\ phase' = "replaying" /\ held = NoPair
      /\ UNCHANGED <<extrema, merge, persistence, ptmp>>
  BY DEF PopReplay, flow
<1>2. PICK pers \in todo :
        /\ IsFirst(pers, todo)
        /\ held' = [pers |-> pers, pold |-> persistence[pers],
                    p |-> persistence[pers]]
        /\ todo' = todo \ {pers}
  BY DEF PopReplay
<1>3. left' = left /\ left = todo
  <2>1. held' # NoPair
    BY <1>2, ReplayFacts, PopReplayKeeps DEF HDInv, Complex, NoPair
  <2> QED
    BY <1>1, <1>2, <2>1 DEF left, hand
<1>4. todo \subseteq Int /\ held'.p = ptmp[pers] /\ held'.pers = pers
  BY <1>2, <1>3, ReplayFacts
<1>5. \A u \in todo' : pers < u
  BY <1>2, <1>4 DEF IsFirst
<1> QED
  BY <1>1, <1>2, <1>3, <1>4, <1>5, ReplayFrame, ReplayFacts
  DEF HDInv, Replayed

\* The pair in hand is merged as it was when it was recorded.
LEMMA ReplayMergeReplays ==
    ASSUME HDInv, UnderWay, ReplayMerge, UNCHANGED result
    PROVE  Replayed'
<1> DEFINE pers == held.pers
           a == ptmp[pers][1]
           b == ptmp[pers][2]
           K == Below(level)
<1>1. /\ phase = "replaying" /\ phase' = "replaying"
      /\ held # NoPair /\ held' = NoPair /\ todo' = todo
      /\ UNCHANGED <<extrema, persistence, ptmp>>
      /\ merge' = [merge EXCEPT ![RootPair[1]] = RootPair[2]]
  BY DEF ReplayMerge, AtRoots, flow
<1>2. /\ pers \in DOMAIN ptmp /\ RootPair[1] = a /\ RootPair[2] = b
      /\ AtRoots
  BY <1>1, HandAtRoots
<1>3. /\ left = todo \cup {pers} /\ left' = todo /\ pers \notin todo
      /\ \A u \in todo : pers < u
      /\ left \subseteq K
      /\ \A t \in K \ left : \A u \in left : t < u
      /\ Forest(merge, K \ left)
  BY <1>1 DEF HDInv, Replayed, left, hand
<1>4. K \subseteq DOMAIN ptmp /\ a \in Extrema /\ b \in Extrema
  BY <1>2, ReplayFacts DEF Found
<1>5. K \ left' = (K \ left) \cup {pers}
  BY <1>3
<1>6. \A t \in K \ left' : \A u \in left' : t < u
  BY <1>3, <1>5
<1> HIDE DEF K
<1>7. Forest(merge', K \ left')
  <2>1. ASSUME NEW t \in K \ left' PROVE merge'[ptmp[t][1]] = ptmp[t][2]
    <3>1. CASE t = pers
      BY <1>1, <1>2, <1>4, <3>1, ReplayFacts
    <3>2. CASE t \in K \ left
      <4>1. t < pers /\ t \in DOMAIN ptmp
        BY <1>3, <1>4, <3>2
      <4>2. ptmp[t][1] # a /\ ptmp[t][1] \in Extrema
        BY <1>2, <4>1, ReplayFacts DEF MergedOnce, Found
      <4> QED
        BY <1>1, <1>2, <1>3, <3>2, <4>2, ReplayFacts DEF Forest
    <3> QED
      BY <1>5, <3>1, <3>2
  <2>2. ASSUME NEW x \in Extrema, x \notin Merging(K \ left')
        PROVE  merge'[x] = x
    <3>1. x # a /\ x \notin Merging(K \ left)
      BY <1>5, <2>2 DEF Merging
    <3> QED
      BY <1>1, <1>2, <1>3, <3>1, ReplayFacts DEF Forest
  <2> QED
    BY <2>1, <2>2 DEF Forest
<1>8. left' = {} => Shortened(merge', K)
  <2> SUFFICES ASSUME left' = {} PROVE Shortened(merge', K)
    OBVIOUS
  <2>1. Forest(merge', K)
    BY <1>7
  <2> QED
    BY <1>4, <2>1, ReplayFacts, ForestShortened
<1> QED
  BY <1>1, <1>3, <1>6, <1>7, <1>8, ReplayFrame DEF K

\* A round of the compression, once nothing is left.
LEMMA CompressReplays ==
    ASSUME HDInv, UnderWay, Compress, UNCHANGED result
    PROVE  Replayed'
<1>1. /\ phase = "replaying" /\ phase' = "replaying"
      /\ held = NoPair /\ held' = NoPair /\ todo = {} /\ todo' = {}
      /\ UNCHANGED <<extrema, persistence, ptmp>>
      /\ merge' = [x \in DOMAIN merge |-> merge[merge[x]]]
  BY DEF Compress, flow, pairs
<1>2. left = {} /\ left' = {}
  BY <1>1 DEF left, hand
<1>3. Shortened(merge, Below(level))
  BY <1>1, <1>2 DEF HDInv, Replayed
<1>4. \A x \in Extrema : merge[x] # x =>
        merge[x][1] = x[1] /\ Exceeds(x[1], merge[x][2], x[2])
  BY ReplayFacts DEF HDInv, Complex, IInv, MergeClimbs
<1>5. merge' = [x \in Extrema |-> merge[merge[x]]]
  BY <1>1, ReplayFacts
<1>6. Shortened([x \in Extrema |-> merge[merge[x]]], Below(level))
  BY <1>3, <1>4, ReplayFacts, CompressShortens
<1> QED
  BY <1>1, <1>2, <1>5, <1>6, ReplayFrame

LEMMA mergeCrystalsReplays ==
    ASSUME HDInv, UnderWay, mergeCrystals, UNCHANGED result
    PROVE  Replayed'
<1>1. /\ phase = "replaying" /\ phase' = "idle"
      /\ held = NoPair /\ held' = NoPair /\ todo = {} /\ todo' = {}
      /\ UNCHANGED <<extrema, persistence, ptmp, merge>>
      /\ \A x \in DOMAIN merge : merge[merge[x]] = merge[x]
  BY DEF mergeCrystals, flow, pairs
<1>2. left = {} /\ left' = {}
  BY <1>1 DEF left, hand
<1>3. Shortened(merge, Below(level))
  BY <1>1, <1>2 DEF HDInv, Replayed
<1>4. Compressed(merge, Below(level))
  BY <1>1, <1>3, ReplayFacts, ShortenedEnds
<1> QED
  BY <1>1, <1>2, <1>4, ReplayFrame

LEMMA ComputeKeeps ==
    ASSUME HDInv, Compute, UNCHANGED result
    PROVE  Replayed' /\ Stored'
<1>1. UNCHANGED <<start, crystalPartitions, levelCrystals, UnderWay>>
  BY DEF result, UnderWay
<1>2. CASE start = None
  <2>1. ~UnderWay /\ Len(crystalPartitions) = 0
    BY <1>2, LevelNumbers DEF HDInv, Books
  <2> QED
    BY <1>1, <2>1 DEF Replayed, Stored
<1>3. CASE start # None
  <2>1. /\ PopReplay \/ FollowChain \/ ReplayMerge \/ Compress
           \/ mergeCrystals
        /\ phase = "replaying"
        /\ UNCHANGED <<extrema, persistence, ptmp>>
    BY <1>3, StepsOfReplay
  <2>2. UnderWay
    BY <1>3, <2>1 DEF HDInv, Books
  <2>3. ~FollowChain
    BY <2>1, <2>2, HandAtRoots DEF FollowChain, AtRoots
  <2>4. Replayed'
    BY <2>1, <2>2, <2>3, PopReplayReplays, ReplayMergeReplays,
       CompressReplays, mergeCrystalsReplays
  <2> QED
    BY <1>1, <2>1, <2>4, StoredFrame DEF HDInv
<1> QED
  BY <1>2, <1>3

-----------------------------------------------------------------------------
(* The steps of the loop.                                                  *)

LEMMA SetStartKeeps ==
    ASSUME HDInv, NEW persistenceArg \in {-1, 3}, SetStart(persistenceArg)
    PROVE  Books' /\ Replayed' /\ Stored'
<1>1. /\ phase = "idle" /\ start = None
      /\ UNCHANGED <<crystalPartitions, levelCrystals, phase, pcrystals,
                     persistence>>
      /\ start' = IF persistenceArg > 0 /\ persistenceN > persistenceArg
                  THEN persistenceN - persistenceArg ELSE 0
  BY DEF SetStart, vars, pairs
<1>2. Len(crystalPartitions) = 0 /\ Len(levelCrystals) = 0
  BY <1>1 DEF HDInv, Books
<1>3. persistenceN \in Nat /\ persistenceN' = persistenceN
  BY <1>1, BelowCounts DEF HDInv, Complex, persistenceN, Levels
<1>4. start' \in Nat /\ start' <= persistenceN /\ start' # None
  BY <1>1, <1>3 DEF None
<1>5. level' = start' /\ ~UnderWay'
  BY <1>1, <1>2, <1>4 DEF level, UnderWay
<1>6. Books'
  BY <1>1, <1>2, <1>3, <1>4, <1>5 DEF HDInv, Books, HDTypeOK
<1>7. Replayed' /\ Stored'
  BY <1>1, <1>2, <1>5 DEF Replayed, Stored
<1> QED
  BY <1>6, <1>7

LEMMA MergeLevelKeeps ==
    ASSUME HDInv, MergeLevel
    PROVE  Books' /\ Replayed' /\ Stored'
<1> DEFINE K == Below(level)
<1>1. /\ start # None /\ level < persistenceN
      /\ Len(levelCrystals) = Len(crystalPartitions)
      /\ phase = "idle" /\ phase' = "replaying"
      /\ merge' = [x \in Extrema |-> x]
      /\ todo' = {pers \in DOMAIN persistence : pers < Persistence(level)}
      /\ levelCrystals' = Append(levelCrystals, {})
      /\ UNCHANGED <<extrema, persistence, ptmp, held, pcrystals, start,
                     crystalPartitions>>
  BY DEF MergeLevel, mergePersistence, StartReplay, flow
<1>2. /\ Len(levelCrystals') = Len(levelCrystals) + 1
      /\ levelCrystals' \in Seq(SUBSET Crystal)
      /\ Len(levelCrystals) \in Nat
  BY <1>1 DEF HDInv, Books
<1>3. UnderWay' /\ level' = level /\ persistenceN' = persistenceN
  BY <1>1, <1>2, SameLevel DEF UnderWay
<1>4. held = NoPair /\ persistence = ptmp
  BY <1>1 DEF HDInv, Complex, Recorded
<1>5. left' = K /\ K \subseteq DOMAIN ptmp /\ Below(level)' = K
  <2>1. todo' = K
    BY <1>1, <1>4 DEF Below
  <2>2. left' = K
    BY <1>1, <1>4, <2>1 DEF left, hand
  <2> QED
    BY <1>1, <2>2, SameLevel DEF Below
<1> HIDE DEF K
<1>6. Books'
  BY <1>1, <1>2, <1>3 DEF HDInv, Books, HDTypeOK
<1>7. Forest(merge', {})
  BY <1>1 DEF Forest
<1>8. Shortened(merge', {})
  BY <1>1 DEF Shortened, Merging
<1>9. K \ left' = {}
  BY <1>5
<1>10. Replayed'
  <2>1. /\ \A t \in K \ left' : \A u \in left' : t < u
        /\ left' # {} => Forest(merge', K \ left')
        /\ left' = {} => Shortened(merge', K)
    BY <1>5, <1>7, <1>8, <1>9
  <2>2. /\ left' # {} => Forest(merge, Below(level) \ left)'
        /\ left' = {} => Shortened(merge, Below(level))'
    BY <1>1, <2>1, SameLevel DEF K
  <2> QED
    BY <1>1, <1>4, <1>5, <2>1, <2>2 DEF Replayed
<1>11. Stored'
  BY <1>1, StoredFrame DEF HDInv
<1> QED
  BY <1>6, <1>10, <1>11

LEMMA ReadLevelKeeps ==
    ASSUME HDInv, ReadLevel
    PROVE  Books' /\ Replayed' /\ Stored'
<1> DEFINE n == Len(crystalPartitions)
<1>1. /\ UnderWay /\ phase = "idle" /\ phase' = "idle"
      /\ pcrystals' = pcrystals \cup {Partition[i] : i \in Sample}
      /\ crystalPartitions' = Append(crystalPartitions, Partition)
      /\ levelCrystals' =
            [levelCrystals EXCEPT ![Len(levelCrystals)] = pcrystals']
      /\ UNCHANGED <<extrema, persistence, ptmp, start, merge>>
  BY DEF ReadLevel, getPartitions, UnderWay, flow, pairs
<1>2. /\ start # None /\ start \in Nat /\ level = start + n
      /\ level < persistenceN /\ persistenceN \in Nat
  BY <1>1, LevelNumbers, ReplayFacts, BelowCounts DEF HDInv, Complex
<1>3. Partition \in [Sample -> Crystal] /\ pcrystals' \subseteq Crystal
  <2>1. Partition \in [Sample -> Crystal]
    BY <1>1, ReplayFacts, CrystalTypes DEF HDInv, Complex
  <2> QED
    BY <1>1, <2>1 DEF HDInv, Books
<1>4. /\ n \in Nat /\ Len(levelCrystals) = n + 1
      /\ crystalPartitions \in Seq([Sample -> Crystal])
      /\ levelCrystals \in Seq(SUBSET Crystal)
  BY <1>1 DEF HDInv, Books, HDTypeOK, UnderWay
<1>5. /\ crystalPartitions' \in Seq([Sample -> Crystal])
      /\ Len(crystalPartitions') = n + 1
      /\ \A l \in 1 .. n : crystalPartitions'[l] = crystalPartitions[l]
      /\ crystalPartitions'[n + 1] = Partition
  BY <1>1, <1>3, <1>4
<1>6. /\ levelCrystals' \in Seq(SUBSET Crystal)
      /\ Len(levelCrystals') = n + 1
  BY <1>1, <1>3, <1>4
<1>7. ~UnderWay' /\ level' = level + 1 /\ persistenceN' = persistenceN
  BY <1>1, <1>2, <1>4, <1>5, <1>6 DEF UnderWay, level, persistenceN, Levels
<1>8. Books'
  BY <1>1, <1>2, <1>3, <1>5, <1>6, <1>7 DEF HDInv, Books, HDTypeOK
<1>9. Replayed'
  BY <1>7 DEF Replayed
<1>10. Extrema' = Extrema
  BY <1>1, SameExtrema
<1>11. ASSUME NEW l \in 1 .. n + 1
       PROVE  \E M \in [Extrema' -> Extrema'] :
                /\ Compressed(M, Below(start + l - 1))'
                /\ crystalPartitions'[l] =
                        [i \in Sample |-> <<M[At(0, i)'], M[At(1, i)']>>]
  <2>1. PICK M \in [Extrema -> Extrema] :
            /\ Compressed(M, Below(start + l - 1))
            /\ crystalPartitions'[l] =
                    [i \in Sample |-> <<M[At(0, i)], M[At(1, i)]>>]
    <3>1. CASE l \in 1 .. n
      <4>1. crystalPartitions'[l] = crystalPartitions[l]
        BY <1>5, <3>1
      <4>2. \E M \in [Extrema -> Extrema] :
                /\ Compressed(M, Below(start + l - 1))
                /\ crystalPartitions[l] =
                        [i \in Sample |-> <<M[At(0, i)], M[At(1, i)]>>]
        BY <3>1 DEF HDInv, Stored
      <4> QED
        BY <4>1, <4>2
    <3>2. CASE l = n + 1
      <4>1. start + l - 1 = level
        BY <1>2, <1>4, <3>2
      <4>2. Compressed(merge, Below(level)) /\ merge \in [Extrema -> Extrema]
        BY <1>1, ReplayFacts DEF HDInv, Replayed
      <4>3. Partition =
                [i \in Sample |-> <<merge[At(0, i)], merge[At(1, i)]>>]
        BY DEF Partition, Merged
      <4> QED
        BY <1>5, <3>2, <4>1, <4>2, <4>3
    <3>3. l \in 1 .. n \/ l = n + 1
      BY <1>4
    <3> QED
      BY <3>1, <3>2, <3>3, Zenon
  <2>2. Below(start + l - 1)' = Below(start + l - 1)
    BY <1>1 DEF Below, Persistence, Levels
  <2>3. Compressed(M, Below(start + l - 1))'
    BY <1>1, <1>10, <2>1, <2>2 DEF Compressed, Merging
  <2>4. \A i \in Sample : At(0, i)' = At(0, i) /\ At(1, i)' = At(1, i)
    BY <1>1 DEF At
  <2> QED
    BY <1>10, <2>1, <2>3, <2>4
<1>12. Stored'
  BY <1>5, <1>11 DEF Stored
<1> QED
  BY <1>8, <1>9, <1>12

LEMMA HDStutterKeeps ==
    ASSUME HDInv, UNCHANGED <<vars, result>>
    PROVE  Books' /\ Replayed' /\ Stored'
<1>1. /\ UNCHANGED <<extrema, phase, merge, persistence, ptmp, held, todo,
                     pcrystals>>
      /\ UNCHANGED <<start, crystalPartitions, levelCrystals>>
  BY DEF vars, flow, pairs, result
<1>2. /\ UNCHANGED <<left, UnderWay, level, persistenceN>>
      /\ Below(level)' = Below(level)
  BY <1>1, SameLevel DEF left, hand, UnderWay
<1>3. Books'
  BY <1>1, <1>2 DEF HDInv, Books, HDTypeOK
<1>4. Replayed'
  BY <1>1, <1>2, SameLevel DEF HDInv, Replayed
<1> QED
  BY <1>1, <1>3, <1>4, StoredFrame DEF HDInv

LEMMA HDNextKeeps ==
    ASSUME HDInv, [HDNext]_<<vars, result>>
    PROVE  HDInv'
BY ComplexKept, ComputeKeepsBooks, ComputeKeeps, SetStartKeeps,
   MergeLevelKeeps, ReadLevelKeeps, HDStutterKeeps
DEF HDInv, HDNext

-----------------------------------------------------------------------------
(* The theorems.                                                           *)

\* The loop over the levels keeps the invariant the others follow from.
THEOREM LevelsInvariant == HDSpec => []HDInv
BY HDInitEstablishes, HDNextKeeps, PTL DEF HDSpec

\* The loop uses the complex by its operations alone, and only ever asks for a
\* persistence the complex has, so that all that holds of the complex by itself
\* holds of it here (HDProcessor::computeAnalysisForLevel).
THEOREM LevelsAreCalls == HDSpec => Spec
<1>1. HDInit => Init
  BY DEF HDInit
<1> QED
  BY <1>1, HDNextIsNext, LevelsInvariant, PTL DEF HDSpec, Spec

\* The first level and the levels done are among those there are, however many
\* merges the recursion recorded, and a level is read before the next is merged.
THEOREM HDTypesAreCorrect == HDSpec => []HDTypeOK
<1>1. HDInv => HDTypeOK
  BY DEF HDInv, Books
<1> QED
  BY <1>1, LevelsInvariant, PTL

\* The roots of a level are the extrema that no merge below it merges.
LEMMA RootsOfLevel ==
    ASSUME HDInv, UnderWay, phase = "idle"
    PROVE  Cardinality(Roots) = Cardinality(Extrema) - level
<1> DEFINE A == Merging(Below(level))
<1>1. /\ IsFiniteSet(Below(level)) /\ Cardinality(Below(level)) = level
      /\ Below(level) \subseteq DOMAIN ptmp
  BY ReplayFacts, BelowCounts DEF HDInv, Complex
<1>2. IsFiniteSet(A) /\ Cardinality(A) = level
  BY <1>1, ReplayFacts, MergingCounts
<1>3. A \subseteq Extrema
  BY <1>1, ReplayFacts DEF Merging, Found
<1>4. Roots = Extrema \ A
  BY DEF Roots, HDInv, Replayed, Compressed
<1>5. IsFiniteSet(Extrema)
  <2>1. IsFiniteSet(Kind)
    <3>1. 0 \in Int /\ 1 \in Int /\ Kind = 0 .. 1
      BY DEF Kind
    <3> QED
      BY <3>1, FS_Interval
  <2>2. IsFiniteSet(Extremum)
    BY <2>1, FS_Product, NNMSComplexAssumption DEF Extremum
  <2> QED
    BY <2>2, FS_Subset, ReplayFacts
<1> HIDE DEF A
<1>6. Extrema \cap A = A
  BY <1>3
<1> QED
  BY <1>2, <1>4, <1>5, <1>6, FS_Difference

\* Every level has exactly one extremum less than the level before it, for
\* every field: no merge is lost or repeated when the recursion's merges are
\* replayed, and none of the level's own or above it is among them.
THEOREM LevelsMergeOneAlways == HDSpec => []LevelsMergeOne
<1>1. HDInv => LevelsMergeOne
  BY RootsOfLevel DEF LevelsMergeOne, UnderWay
<1> QED
  BY <1>1, LevelsInvariant, PTL

\* What a level has merged the next has merged too.
LEMMA StoredNested ==
    ASSUME HDInv PROVE Nested
<1> SUFFICES ASSUME NEW l \in 1 .. Len(crystalPartitions) - 1,
                    NEW i \in Sample, NEW j \in Sample,
                    crystalPartitions[l][i] = crystalPartitions[l][j]
             PROVE  crystalPartitions[l + 1][i] = crystalPartitions[l + 1][j]
  BY DEF Nested
<1>1. /\ Len(crystalPartitions) \in Nat
      /\ l \in 1 .. Len(crystalPartitions)
      /\ l + 1 \in 1 .. Len(crystalPartitions)
      /\ (l + 1) - 1 = l
  BY LevelNumbers
<1>2. /\ start # None /\ start \in Nat /\ phase \in {"replaying", "idle"}
      /\ phase \in Late /\ level <= persistenceN /\ persistenceN \in Nat
      /\ level = start + Len(crystalPartitions)
  <2>1. start # None
    <3>1. start = None => Len(crystalPartitions) = 0
      BY DEF HDInv, Books
    <3> QED
      BY <1>1, <3>1
  <2> QED
    BY <2>1, LevelNumbers, BelowCounts DEF HDInv, Complex, Books, HDTypeOK
<1> DEFINE n == start + l - 1
           m == start + (l + 1) - 1
<1>3. n \in Nat /\ m \in Nat /\ n < m /\ m < persistenceN
  BY <1>1, <1>2
<1>4. PICK M \in [Extrema -> Extrema] :
        /\ Compressed(M, Below(n))
        /\ crystalPartitions[l] =
                [k \in Sample |-> <<M[At(0, k)], M[At(1, k)]>>]
  BY <1>1 DEF HDInv, Stored
<1>5. PICK G \in [Extrema -> Extrema] :
        /\ Compressed(G, Below(m))
        /\ crystalPartitions[l + 1] =
                [k \in Sample |-> <<G[At(0, k)], G[At(1, k)]>>]
  BY <1>1 DEF HDInv, Stored
<1> HIDE DEF n, m
<1>6. Below(n) \subseteq Below(m) /\ Below(m) \subseteq DOMAIN ptmp
  BY <1>2, <1>3, LevelsGrow, BelowCounts DEF HDInv, Complex
<1>7. /\ MergesClimb /\ MergedOnce /\ IsFiniteSet(DOMAIN ptmp)
      /\ DOMAIN ptmp \subseteq Int
      /\ \A t \in DOMAIN ptmp : ptmp[t] \in Found
  BY <1>2, LateFacts DEF HDInv, Complex, Recorded, MergesCounted
<1>8. \A x \in Extrema : G[M[x]] = G[x]
  BY <1>4, <1>5, <1>6, <1>7, Coarser
<1>9. \A k \in Kind, s \in Sample : At(k, s) \in Extrema
  BY DEF Extrema
<1>10. ASSUME NEW k \in Kind, M[At(k, i)] = M[At(k, j)]
       PROVE  G[At(k, i)] = G[At(k, j)]
  <2>1. /\ G[M[At(k, i)]] = G[At(k, i)]
        /\ G[M[At(k, j)]] = G[At(k, j)]
    BY <1>8, <1>9
  <2> QED
    BY <1>10, <2>1
<1>11. M[At(0, i)] = M[At(0, j)] /\ M[At(1, i)] = M[At(1, j)]
  BY <1>4
<1> QED
  BY <1>5, <1>10, <1>11 DEF Kind

\* Samples that are together in a crystal of one level are together in every
\* later level: the levels of an analysis form a hierarchy.
THEOREM NestedAlways == HDSpec => []Nested
BY StoredNested, LevelsInvariant, PTL
=============================================================================
