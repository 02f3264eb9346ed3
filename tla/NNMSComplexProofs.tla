------------------------- MODULE NNMSComplexProofs -------------------------
(***************************************************************************)
(* What holds of the Morse-Smale complex of every field with distinct      *)
(* values, for every number of samples, neighbour lists, distances and     *)
(* order of levels asked for.                                              *)
(***************************************************************************)
EXTENDS NNMSComplex, FiniteSetTheorems, TLAPS

Late == {"merging", "replaying", "idle"}

\* The extrema as found, and the pairs of them.
Found == {p \in Pair : p[1] \in Extrema /\ p[2] \in Extrema}

\* The sample a path has come to is at least as significant as all it passed.
PathClimbs ==
    \A k \in Kind, i \in Sample :
        <<k, i>> \in path => prev \in Sample /\ ~Exceeds(k, i, prev)

\* A path ascends or descends, never both.
OneKind == \A a, b \in path : a[1] = b[1]

GradientClimbs ==
    \A k \in Kind, i \in Sample :
        KNNG[k][i] # None => Exceeds(k, KNNG[k][i], i)

NothingFound ==
    phase = "gradient" =>
        /\ path = {}
        /\ \A k \in Kind, i \in Sample : extrema[k][i] = None

NothingMerged ==
    phase \in {"gradient", "paths"} =>
        DOMAIN merge = {} /\ DOMAIN ptmp = {} /\ held = NoPair

\* Once the extrema are found, merging stays among them.
Closed ==
    phase \in Late =>
        /\ \A k \in Kind, i \in Sample : extrema[k][i] \in Sample
        /\ merge \in [Extrema -> Extrema]
        /\ \A pers \in DOMAIN persistence : persistence[pers] \in Found
        /\ \A pers \in DOMAIN ptmp : ptmp[pers] \in Found
        /\ held # NoPair => held.pold \in Found /\ held.p \in Found

ReplayTodo == phase = "replaying" => todo \subseteq DOMAIN persistence

\* While the map is drained, everything merged lies below what is in the hand,
\* and that below everything still in the map.
Drained ==
    phase = "merging" =>
        /\ \A t \in DOMAIN ptmp, q \in DOMAIN persistence : t < q
        /\ held # NoPair =>
            /\ \A t \in DOMAIN ptmp : t < held.pers
            /\ \A q \in DOMAIN persistence : held.pers < q

MergesCounted ==
    /\ phase \in {"gradient", "paths"} => pinv2 = {}
    /\ IsFiniteSet(DOMAIN ptmp) /\ IsFiniteSet(pinv2)
    /\ NoMergeOverwritten

IInv ==
    /\ TypeOK
    /\ PathClimbs /\ OneKind /\ GradientClimbs /\ NothingFound /\ NothingMerged
    /\ Closed /\ ReplayTodo
    /\ ExtremaAreExtremal /\ MergeClimbs /\ EverySampleInCrystal

-----------------------------------------------------------------------------
(* Fields.                                                                 *)

\* Distinct values make one of two different samples exceed the other.
LEMMA ExceedsOrder ==
    ASSUME y \in Field, NEW k \in Kind, NEW r \in Sample, NEW s \in Sample,
           NEW t \in Sample
    PROVE  /\ Exceeds(k, r, s) /\ Exceeds(k, s, t) => Exceeds(k, r, t)
           /\ Exceeds(k, r, s) => ~Exceeds(k, s, r)
           /\ r # s => Exceeds(k, r, s) \/ Exceeds(k, s, r)
           /\ ~Exceeds(k, r, s) /\ Exceeds(k, t, s) => ~Exceeds(k, r, t)
           /\ ~Exceeds(k, r, s) /\ ~Exceeds(k, s, t) => ~Exceeds(k, r, t)
           /\ ~Exceeds(k, r, r)
<1>1. /\ y[r] \in Int /\ y[s] \in Int /\ y[t] \in Int
      /\ y[r] = y[s] => r = s
  BY NNMSComplexAssumption
<1> QED
  BY <1>1 DEF Exceeds, Kind

\* Ordered keeps a pair a pair, with the less significant first.
LEMMA OrderedPair ==
    ASSUME y \in Field, NEW a \in Extremum, NEW b \in Extremum, a[1] = b[1]
    PROVE  /\ Ordered(a, b) \in Pair
           /\ Ordered(a, b) \in {<<a, b>>, <<b, a>>}
           /\ a # b => Exceeds(a[1], Ordered(a, b)[2][2], Ordered(a, b)[1][2])
<1>1. /\ a[1] \in Kind /\ a[2] \in Sample /\ b[2] \in Sample
      /\ a = <<a[1], a[2]>> /\ b = <<b[1], b[2]>>
  BY DEF Extremum
<1>2. a # b => a[2] # b[2]
  BY <1>1
<1>3. CASE Exceeds(a[1], a[2], b[2])
  <2>1. Ordered(a, b) = <<b, a>>
    BY <1>3 DEF Ordered
  <2> QED
    BY <1>3, <2>1 DEF Pair
<1>4. CASE ~Exceeds(a[1], a[2], b[2])
  <2>1. Ordered(a, b) = <<a, b>>
    BY <1>4 DEF Ordered
  <2>2. a # b => Exceeds(a[1], b[2], a[2])
    BY <1>1, <1>2, <1>4, ExceedsOrder
  <2> QED
    BY <2>1, <2>2 DEF Pair
<1> QED
  BY <1>3, <1>4

-----------------------------------------------------------------------------
(* Ascent and descent.                                                     *)

LEMMA InitEstablishes == Init => IInv
<1> SUFFICES ASSUME Init PROVE IInv
  OBVIOUS
<1>1. DOMAIN merge = {} /\ DOMAIN persistence = {} /\ DOMAIN ptmp = {}
  BY DEF Init
<1>2. TypeOK
  BY <1>1 DEF Init, TypeOK
<1>3. GradientClimbs /\ ExtremaAreExtremal
  BY DEF Init, GradientClimbs, ExtremaAreExtremal, Kind, None
<1> QED
  BY <1>1, <1>2, <1>3
  DEF Init, IInv, PathClimbs, OneKind, NothingFound, NothingMerged, Closed,
      ReplayTodo, MergeClimbs, EverySampleInCrystal, Late

LEMMA SetGradientKeeps ==
    ASSUME IInv, SetGradient PROVE IInv'
<1>1. /\ y \in Field /\ y' = y /\ KNN' = KNN
      /\ phase = "gradient" /\ phase' = "paths"
      /\ UNCHANGED <<extrema, path, prev, merge, pairs, pcrystals>>
  BY DEF IInv, TypeOK, SetGradient, given
<1>2. ASSUME NEW k \in Kind, NEW i \in Sample
      PROVE  /\ KNNG'[k][i] \in Sample \cup {None}
             /\ KNNG'[k][i] # None => Exceeds(k, KNNG'[k][i], i)
  <2>1. KNNG'[k][i] = IF Steepest(k, i) = {} THEN None
                      ELSE CHOOSE j \in Steepest(k, i) : TRUE
    BY DEF SetGradient
  <2>2. CASE Steepest(k, i) = {}
    BY <2>1, <2>2
  <2>3. CASE Steepest(k, i) # {}
    <3>1. KNNG'[k][i] \in Steepest(k, i)
      BY <2>1, <2>3
    <3> QED
      BY <3>1 DEF Steepest
  <2> QED
    BY <2>2, <2>3
<1>3. KNNG' \in [Kind -> [Sample -> Sample \cup {None}]]
  <2>1. KNNG' = [k \in Kind |-> [i \in Sample |-> KNNG'[k][i]]]
    BY DEF SetGradient
  <2> QED
    BY <1>2, <2>1
<1>4. TypeOK'
  BY <1>1, <1>3 DEF IInv, TypeOK, pairs
<1>5. GradientClimbs'
  BY <1>1, <1>2 DEF GradientClimbs, Exceeds
<1>6. \A k \in Kind, i \in Sample : extrema[k][i] = None
  BY <1>1 DEF IInv, NothingFound
<1> QED
  BY <1>1, <1>4, <1>5, <1>6
  DEF IInv, PathClimbs, OneKind, NothingFound, NothingMerged, Closed,
      ReplayTodo, ExtremaAreExtremal, MergeClimbs, EverySampleInCrystal, Late,
      Exceeds, pairs

\* What a step along the paths leaves alone.
LEMMA PathFrame ==
    ASSUME IInv, phase = "paths",
           UNCHANGED <<given, KNNG, phase, merge, pairs, pcrystals>>,
           extrema' \in [Kind -> [Sample -> Sample \cup {None}]],
           path' \subseteq Kind \X Sample,
           prev' \in Sample \cup {None},
           PathClimbs', OneKind', ExtremaAreExtremal'
    PROVE  IInv'
<1>1. TypeOK'
  BY DEF IInv, TypeOK, given, pairs
<1>2. DOMAIN merge = {}
  BY DEF IInv, NothingMerged
<1> QED
  BY <1>1, <1>2
  DEF IInv, NothingFound, NothingMerged, Closed, ReplayTodo, GradientClimbs,
      MergeClimbs, EverySampleInCrystal, Late, Exceeds, given, pairs

LEMMA StartPathKeeps ==
    ASSUME IInv, StartPath PROVE IInv'
<1>1. PICK k \in Kind, i \in Sample : path' = {<<k, i>>} /\ prev' = i
  BY DEF StartPath
<1>2. /\ y \in Field /\ y' = y /\ extrema' = extrema /\ KNNG' = KNNG
      /\ UNCHANGED <<given, KNNG, phase, merge, pairs, pcrystals>>
  BY DEF IInv, TypeOK, StartPath, given
<1>3. PathClimbs'
  BY <1>1, <1>2, ExceedsOrder DEF PathClimbs, Exceeds
<1>4. ExtremaAreExtremal'
  BY <1>2 DEF IInv, ExtremaAreExtremal, Exceeds
<1> QED
  BY <1>1, <1>2, <1>3, <1>4, PathFrame
  DEF StartPath, IInv, TypeOK, OneKind

LEMMA FollowPathKeeps ==
    ASSUME IInv, FollowPath PROVE IInv'
<1>1. PICK k \in Kind :
        /\ <<k, prev>> \in path
        /\ KNNG[k][prev] # None
        /\ path' = path \cup {<<k, KNNG[k][prev]>>}
        /\ prev' = KNNG[k][prev]
  BY DEF FollowPath
<1>2. /\ y \in Field /\ y' = y /\ extrema' = extrema /\ KNNG' = KNNG
      /\ UNCHANGED <<given, KNNG, phase, merge, pairs, pcrystals>>
  BY DEF IInv, TypeOK, FollowPath, given
<1>3. /\ prev \in Sample /\ KNNG[k][prev] \in Sample
      /\ Exceeds(k, KNNG[k][prev], prev)
  BY <1>1 DEF IInv, TypeOK, GradientClimbs
<1>4. PathClimbs'
  <2> SUFFICES ASSUME NEW l \in Kind, NEW i \in Sample, <<l, i>> \in path'
               PROVE  ~Exceeds(l, i, prev')
    BY <1>1, <1>2, <1>3 DEF PathClimbs, Exceeds
  <2>1. CASE i = prev' /\ l = k
    BY <1>2, <1>3, <2>1, ExceedsOrder DEF Exceeds
  <2>2. CASE <<l, i>> \in path
    <3>1. l = k
      BY <1>1, <2>2 DEF IInv, TypeOK, OneKind
    <3>2. ~Exceeds(k, i, prev)
      BY <2>2, <3>1 DEF IInv, PathClimbs
    <3> QED
      BY <1>1, <1>2, <1>3, <3>1, <3>2, ExceedsOrder
  <2> QED
    BY <1>1, <2>1, <2>2
<1>5. ExtremaAreExtremal'
  BY <1>2 DEF IInv, ExtremaAreExtremal, Exceeds
<1>6. OneKind'
  BY <1>1 DEF IInv, OneKind
<1> QED
  BY <1>1, <1>2, <1>3, <1>4, <1>5, <1>6, PathFrame
  DEF FollowPath, IInv, TypeOK

LEMMA EndPathKeeps ==
    ASSUME IInv, EndPath PROVE IInv'
<1> DEFINE next(k) == KNNG[k][prev]
           ext(k) == IF next(k) = None THEN prev ELSE extrema[k][next(k)]
<1>1. PICK k \in Kind :
        /\ <<k, prev>> \in path
        /\ next(k) # None => extrema[k][next(k)] # None
        /\ extrema' = [extrema EXCEPT ![k] =
             [i \in Sample |-> IF <<k, i>> \in path THEN ext(k) ELSE @[i]]]
  BY DEF EndPath
<1>2. /\ y \in Field /\ y' = y /\ KNNG' = KNNG /\ path' = {} /\ prev' = None
      /\ phase = "paths" /\ prev \in Sample
      /\ KNNG \in [Kind -> [Sample -> Sample \cup {None}]]
      /\ extrema \in [Kind -> [Sample -> Sample \cup {None}]]
      /\ UNCHANGED <<given, KNNG, phase, merge, pairs, pcrystals>>
  BY <1>1 DEF IInv, TypeOK, EndPath, given
<1>3. ext(k) \in Sample /\ KNNG[k][ext(k)] = None
  BY <1>1, <1>2 DEF IInv, ExtremaAreExtremal
<1>4. ASSUME NEW i \in Sample, <<k, i>> \in path
      PROVE  ~Exceeds(k, i, ext(k))
  <2>1. ~Exceeds(k, i, prev)
    BY <1>4 DEF IInv, PathClimbs
  <2>2. CASE next(k) = None
    BY <2>1, <2>2
  <2>3. CASE next(k) # None
    <3>1. next(k) \in Sample /\ Exceeds(k, next(k), prev)
      BY <1>2, <2>3 DEF IInv, GradientClimbs
    <3>2. ~Exceeds(k, i, next(k))
      BY <1>2, <2>1, <3>1, ExceedsOrder
    <3>3. ~Exceeds(k, next(k), ext(k))
      BY <1>1, <2>3, <3>1 DEF IInv, ExtremaAreExtremal
    <3> QED
      BY <1>2, <1>3, <3>1, <3>2, <3>3, ExceedsOrder
  <2> QED
    BY <2>2, <2>3
<1> HIDE DEF next, ext
<1>5. extrema' \in [Kind -> [Sample -> Sample \cup {None}]]
  BY <1>1, <1>2, <1>3
<1>6. ExtremaAreExtremal'
  <2> SUFFICES ASSUME NEW i \in Sample, NEW l \in Kind,
                      extrema'[l][i] # None
               PROVE  /\ KNNG[l][extrema'[l][i]] = None
                      /\ ~Exceeds(l, i, extrema'[l][i])
    BY <1>2 DEF ExtremaAreExtremal, Exceeds
  <2>1. CASE l = k /\ <<k, i>> \in path
    BY <1>1, <1>2, <1>3, <1>4, <2>1
  <2>2. CASE l # k \/ <<k, i>> \notin path
    <3>1. extrema'[l][i] = extrema[l][i]
      BY <1>1, <1>2, <2>2
    <3> QED
      BY <3>1 DEF IInv, ExtremaAreExtremal
  <2> QED
    BY <2>1, <2>2
<1>7. PathClimbs' /\ OneKind'
  BY <1>2 DEF PathClimbs, OneKind
<1> QED
  BY <1>2, <1>5, <1>6, <1>7, PathFrame

\* Every pair of neighbouring extrema is found, and a depth is a number.
LEMMA NeighbourPairsFound ==
    ASSUME IInv, \A k \in Kind, i \in Sample : extrema[k][i] # None
    PROVE  /\ \A k \in Kind, i \in Sample : At(k, i) \in Extremum
           /\ NeighbourPairs \subseteq Found
           /\ \A p \in NeighbourPairs : Depths(p) \subseteq Int
<1>1. y \in Field
  BY DEF IInv, TypeOK
<1>2. \A k \in Kind, i \in Sample : At(k, i) \in Extremum
  BY DEF IInv, TypeOK, At, Extremum
<1>3. NeighbourPairs \subseteq Found
  <2> SUFFICES ASSUME NEW k \in Kind, NEW e \in Edges
               PROVE  Ordered(At(k, e[1]), At(k, e[2])) \in Found
    BY DEF NeighbourPairs
  <2> DEFINE a == At(k, e[1])
             b == At(k, e[2])
  <2>1. /\ a \in Extremum /\ b \in Extremum /\ a[1] = b[1]
        /\ a \in Extrema /\ b \in Extrema
    BY <1>2 DEF Edges, At, Extrema
  <2> HIDE DEF a, b
  <2>2. Ordered(a, b) \in Pair /\ Ordered(a, b) \in {<<a, b>>, <<b, a>>}
    BY <1>1, <2>1, OrderedPair
  <2>3. Ordered(a, b) \in Found
    BY <2>1, <2>2 DEF Found
  <2> QED
    BY <2>3 DEF a, b
<1>4. ASSUME NEW p \in NeighbourPairs PROVE Depths(p) \subseteq Int
  <2>1. p[1][2] \in Sample
    BY DEF NeighbourPairs, Extremum
  <2>2. y \in [Sample -> Int]
    BY <1>1, NNMSComplexAssumption
  <2> QED
    BY <2>1, <2>2 DEF Depths, Edges, Depth, Saddle
<1> QED
  BY <1>2, <1>3, <1>4

LEMMA SetPersistenceKeeps ==
    ASSUME IInv, SetPersistence PROVE IInv'
<1>1. /\ phase = "paths" /\ phase' = "merging"
      /\ \A k \in Kind, i \in Sample : extrema[k][i] # None
      /\ merge' = [x \in Extrema |-> x]
      /\ UNCHANGED <<y, KNN, KNNG, extrema, path, prev, ptmp, held>>
  BY DEF SetPersistence, given, flow
<1>2. DOMAIN ptmp = {} /\ held = NoPair
  BY <1>1 DEF IInv, NothingMerged
<1>3. /\ DOMAIN persistence' \subseteq Int
      /\ \A pers \in DOMAIN persistence' : persistence'[pers] \in Found
  <2>1. DOMAIN persistence' \subseteq
            {d \in UNION {Depths(p) : p \in NeighbourPairs} :
                \E p \in NeighbourPairs : IsKept(p, d)}
    BY DEF SetPersistence
  <2>2. DOMAIN persistence' \subseteq Int
    BY <1>1, <2>1, NeighbourPairsFound
  <2>3. ASSUME NEW pers \in DOMAIN persistence'
        PROVE  persistence'[pers] \in NeighbourPairs
    <3>1. persistence'[pers] = CHOOSE p \in NeighbourPairs : IsKept(p, pers)
      BY DEF SetPersistence
    <3>2. \E p \in NeighbourPairs : IsKept(p, pers)
      BY <2>1
    <3> QED
      BY <3>1, <3>2
  <2> QED
    BY <1>1, <2>2, <2>3, NeighbourPairsFound
<1>4. Found' = Found /\ Extrema' = Extrema
  BY <1>1 DEF Found, Extrema, At
<1>5. TypeOK'
  BY <1>1, <1>2, <1>3 DEF IInv, TypeOK, Found
<1>6. Closed'
  BY <1>1, <1>2, <1>3, <1>4 DEF IInv, TypeOK, Closed
<1>7. MergeClimbs'
  BY <1>1 DEF MergeClimbs
<1> QED
  BY <1>1, <1>5, <1>6, <1>7
  DEF IInv, PathClimbs, OneKind, GradientClimbs, NothingFound, NothingMerged,
      ReplayTodo, ExtremaAreExtremal, EverySampleInCrystal, Late, Exceeds

-----------------------------------------------------------------------------
(* Merging.                                                                *)

\* The extrema stay what they are while no path is followed.
LEMMA SameExtrema ==
    ASSUME extrema' = extrema
    PROVE  Extrema' = Extrema /\ Found' = Found
<1>1. Extrema' = Extrema
  BY DEF Extrema, At
<1> QED
  BY <1>1 DEF Found

\* What a step of merging has to show.
LEMMA LateFrame ==
    ASSUME IInv, phase \in Late, phase' \in Late,
           UNCHANGED <<given, flow>>,
           merge' \in [Extrema -> Extrema], MergeClimbs',
           DOMAIN persistence' \subseteq Int,
           \A pers \in DOMAIN persistence' : persistence'[pers] \in Found,
           DOMAIN ptmp' \subseteq Int,
           \A pers \in DOMAIN ptmp' : ptmp'[pers] \in Found,
           held' \in Entry \cup {NoPair},
           held' # NoPair => held'.pold \in Found /\ held'.p \in Found,
           ReplayTodo', EverySampleInCrystal'
    PROVE  IInv'
<1>1. UNCHANGED <<y, KNN, KNNG, extrema, path, prev>>
  BY DEF given, flow
<1>2. Found' = Found /\ Extrema' = Extrema
  BY <1>1, SameExtrema
<1>3. TypeOK'
  BY <1>1 DEF IInv, TypeOK, Found, Late
<1>4. Closed'
  BY <1>1, <1>2 DEF IInv, Closed
<1> QED
  BY <1>1, <1>3, <1>4
  DEF IInv, PathClimbs, OneKind, GradientClimbs, NothingFound, NothingMerged,
      ExtremaAreExtremal, Late, Exceeds

\* What merging may rely on.
LEMMA LateFacts ==
    ASSUME IInv, phase \in Late
    PROVE  /\ y \in Field
           /\ Extrema \subseteq Extremum
           /\ merge \in [Extrema -> Extrema]
           /\ \A x \in Extrema : merge[x][1] = x[1]
           /\ DOMAIN persistence \subseteq Int /\ DOMAIN ptmp \subseteq Int
           /\ \A pers \in DOMAIN persistence : persistence[pers] \in Found
           /\ \A pers \in DOMAIN ptmp : ptmp[pers] \in Found
           /\ held \in Entry \cup {NoPair}
           /\ held # NoPair => held.pold \in Found /\ held.p \in Found
<1>1. \A k \in Kind, i \in Sample : extrema[k][i] \in Sample
  BY DEF IInv, Closed
<1>2. Extrema \subseteq Extremum
  BY <1>1 DEF Extrema, At, Extremum
<1>3. merge \in [Extrema -> Extrema]
  BY DEF IInv, Closed
<1>4. \A x \in Extrema : merge[x][1] = x[1]
  BY <1>3 DEF IInv, MergeClimbs
<1> QED
  BY <1>2, <1>3, <1>4 DEF IInv, TypeOK, Closed

\* The two roots of the pair in hand, the one to give way first.
LEMMA RootPairFound ==
    ASSUME IInv, phase \in Late, AtRoots
    PROVE  /\ RootPair \in Found
           /\ RootPair[1] # RootPair[2] =>
                Exceeds(RootPair[1][1], RootPair[2][2], RootPair[1][2])
           /\ held.pers \in Int
           /\ Increase \in Int
<1>1. /\ y \in Field /\ y \in [Sample -> Int]
      /\ held \in Entry /\ held.p \in Found /\ held.pold \in Found
  BY LateFacts, NNMSComplexAssumption DEF AtRoots
<1> DEFINE a == held.p[1]
           b == held.p[2]
<1>2. /\ a \in Extremum /\ b \in Extremum /\ a[1] = b[1]
      /\ a \in Extrema /\ b \in Extrema
  BY <1>1 DEF Found, Pair
<1>3. RootPair = Ordered(a, b)
  BY DEF RootPair
<1> HIDE DEF a, b
<1>4. /\ Ordered(a, b) \in Pair /\ Ordered(a, b) \in {<<a, b>>, <<b, a>>}
      /\ a # b => Exceeds(a[1], Ordered(a, b)[2][2], Ordered(a, b)[1][2])
  BY <1>1, <1>2, OrderedPair
<1>5. RootPair \in Found
  BY <1>2, <1>3, <1>4 DEF Found
<1>6. RootPair[1] # RootPair[2] =>
        Exceeds(RootPair[1][1], RootPair[2][2], RootPair[1][2])
  BY <1>2, <1>3, <1>4
<1>7. RootPair[1][2] \in Sample /\ held.pold[1][2] \in Sample
  BY <1>1, <1>5 DEF Found, Pair, Extremum
<1>8. held.pers \in Int
  BY <1>1 DEF Entry
<1>9. Increase \in Int
  BY <1>1, <1>7 DEF Increase
<1> QED
  BY <1>5, <1>6, <1>8, <1>9

\* A merge of roots as mergePersistence and the recursion do it.
LEMMA MergeRoots ==
    ASSUME IInv, phase \in Late, AtRoots, UNCHANGED y,
           merge' = [merge EXCEPT ![RootPair[1]] = RootPair[2]]
    PROVE  merge' \in [Extrema -> Extrema] /\ MergeClimbs'
<1>1. /\ RootPair \in Found
      /\ RootPair[1] # RootPair[2] =>
            Exceeds(RootPair[1][1], RootPair[2][2], RootPair[1][2])
  BY RootPairFound
<1>2. /\ RootPair[1] \in Extrema /\ RootPair[2] \in Extrema
      /\ RootPair[1][1] = RootPair[2][1]
      /\ merge \in [Extrema -> Extrema]
  BY <1>1, LateFacts DEF Found, Pair
<1>3. merge' \in [Extrema -> Extrema]
  BY <1>2
<1>4. MergeClimbs'
  <2> SUFFICES ASSUME NEW x \in Extrema, merge'[x] # x
               PROVE  merge'[x][1] = x[1] /\ Exceeds(x[1], merge'[x][2], x[2])
    BY <1>3 DEF MergeClimbs, Exceeds
  <2>1. CASE x = RootPair[1]
    BY <1>1, <1>2, <2>1
  <2>2. CASE x # RootPair[1]
    BY <1>2, <2>2 DEF IInv, MergeClimbs
  <2> QED
    BY <2>1, <2>2
<1> QED
  BY <1>3, <1>4

\* Undoing all merges.
LEMMA MergeReset ==
    ASSUME merge' = [x \in Extrema |-> x]
    PROVE  merge' \in [Extrema -> Extrema] /\ MergeClimbs'
BY DEF MergeClimbs

LEMMA SamePartition ==
    ASSUME UNCHANGED <<extrema, merge, pcrystals>>,
           phase' = "idle" => phase = "idle", EverySampleInCrystal
    PROVE  EverySampleInCrystal'
BY DEF EverySampleInCrystal, Partition, Merged, At

-----------------------------------------------------------------------------
(* The steps of merging.                                                   *)

LEMMA PopMergeKeeps ==
    ASSUME IInv, PopMerge PROVE IInv'
<1>1. /\ phase = "merging" /\ phase \in Late
      /\ UNCHANGED <<given, flow, phase, merge, ptmp, y>>
  BY DEF PopMerge, Late, given
<1>2. PICK pers \in DOMAIN persistence :
        /\ held' = [pers |-> pers, pold |-> persistence[pers],
                    p |-> persistence[pers]]
        /\ persistence' = Remove(persistence, pers)
  BY DEF PopMerge
<1>3. /\ held' \in Entry /\ held'.pold \in Found /\ held'.p \in Found
  BY <1>1, <1>2, LateFacts DEF Entry, Found
<1>4. /\ DOMAIN persistence' \subseteq Int
      /\ \A q \in DOMAIN persistence' : persistence'[q] \in Found
  BY <1>1, <1>2, LateFacts DEF Remove
<1>5. MergeClimbs' /\ ReplayTodo' /\ EverySampleInCrystal'
  BY <1>1 DEF IInv, MergeClimbs, ReplayTodo, EverySampleInCrystal, Exceeds
<1> QED
  BY <1>1, <1>3, <1>4, <1>5, LateFacts, LateFrame

LEMMA FollowChainKeeps ==
    ASSUME IInv, FollowChain PROVE IInv'
<1>1. /\ phase \in Late /\ held # NoPair
      /\ UNCHANGED <<given, flow, phase, merge, persistence, ptmp, todo, y,
                     extrema, pcrystals>>
  BY DEF FollowChain, Late, given, flow, IInv, TypeOK, NothingMerged
<1>2. held' = [held EXCEPT !.p = <<merge[held.p[1]], merge[held.p[2]]>>]
  BY DEF FollowChain
<1>3. /\ held \in Entry /\ held.p \in Found /\ held.pold \in Found
      /\ merge \in [Extrema -> Extrema] /\ Extrema \subseteq Extremum
      /\ \A x \in Extrema : merge[x][1] = x[1]
  BY <1>1, LateFacts
<1>4. <<merge[held.p[1]], merge[held.p[2]]>> \in Found
  BY <1>3 DEF Found, Pair
<1>5. held' \in Entry /\ held'.pold \in Found /\ held'.p \in Found
  BY <1>2, <1>3, <1>4 DEF Entry, Found
<1>6. MergeClimbs' /\ ReplayTodo' /\ EverySampleInCrystal'
  BY <1>1, SamePartition DEF IInv, MergeClimbs, ReplayTodo, Exceeds
<1> QED
  BY <1>1, <1>5, <1>6, LateFacts, LateFrame

\* An entry has left the hand, and nothing else has changed but the map.
LEMMA HandEmptied ==
    ASSUME IInv, phase = "merging", held' = NoPair,
           UNCHANGED <<given, flow, phase, merge, ptmp, todo, pcrystals>>,
           DOMAIN persistence' \subseteq Int,
           \A q \in DOMAIN persistence' : persistence'[q] \in Found
    PROVE  IInv'
<1>1. phase \in Late /\ y' = y
  BY DEF Late, given
<1>2. MergeClimbs' /\ ReplayTodo' /\ EverySampleInCrystal'
  BY <1>1 DEF IInv, MergeClimbs, ReplayTodo, EverySampleInCrystal, Exceeds
<1> QED
  BY <1>1, <1>2, LateFacts, LateFrame

LEMMA DiscardKeeps ==
    ASSUME IInv, Discard PROVE IInv'
BY HandEmptied, LateFacts DEF Discard, Late

LEMMA PostponeKeeps ==
    ASSUME IInv, Postpone PROVE IInv'
<1>1. /\ phase = "merging" /\ phase \in Late /\ AtRoots
      /\ persistence' = Insert(persistence, held.pers + Increase, RootPair)
  BY DEF Postpone, Late
<1>2. RootPair \in Found /\ held.pers + Increase \in Int
  BY <1>1, RootPairFound
<1>3. /\ DOMAIN persistence' \subseteq Int
      /\ \A q \in DOMAIN persistence' : persistence'[q] \in Found
  BY <1>1, <1>2, LateFacts DEF Insert
<1> QED
  BY <1>1, <1>3, HandEmptied DEF Postpone

LEMMA MergeKeeps ==
    ASSUME IInv, Merge PROVE IInv'
<1>1. /\ phase = "merging" /\ phase \in Late /\ AtRoots /\ y' = y
      /\ held' = NoPair
      /\ UNCHANGED <<given, flow, phase, persistence, todo, pcrystals>>
  BY DEF Merge, Late, given
<1>2. CASE RootPair \in pinv2
  BY <1>1, <1>2, HandEmptied, LateFacts DEF Merge
<1>3. CASE RootPair \notin pinv2
  <2>1. /\ merge' = [merge EXCEPT ![RootPair[1]] = RootPair[2]]
        /\ ptmp' = Insert(ptmp, held.pers, RootPair)
    BY <1>3 DEF Merge
  <2>2. merge' \in [Extrema -> Extrema] /\ MergeClimbs'
    BY <1>1, <2>1, MergeRoots
  <2>3. RootPair \in Found /\ held.pers \in Int
    BY <1>1, RootPairFound
  <2>4. /\ DOMAIN ptmp' \subseteq Int
        /\ \A q \in DOMAIN ptmp' : ptmp'[q] \in Found
    BY <1>1, <2>1, <2>3, LateFacts DEF Insert
  <2>5. ReplayTodo' /\ EverySampleInCrystal'
    BY <1>1 DEF ReplayTodo, EverySampleInCrystal
  <2> QED
    BY <1>1, <2>2, <2>4, <2>5, LateFacts, LateFrame
<1> QED
  BY <1>2, <1>3

LEMMA SetHierarchyKeeps ==
    ASSUME IInv, SetHierarchy PROVE IInv'
<1>1. /\ phase \in Late /\ phase' = "replaying" /\ phase' \in Late
      /\ UNCHANGED <<given, flow, ptmp, held>>
      /\ persistence' = ptmp
      /\ merge' = [x \in Extrema |-> x]
      /\ todo' \subseteq DOMAIN persistence'
  BY DEF SetHierarchy, StartReplay, Late
<1>2. ReplayTodo' /\ EverySampleInCrystal'
  BY <1>1 DEF ReplayTodo, EverySampleInCrystal
<1> QED
  BY <1>1, <1>2, MergeReset, LateFacts, LateFrame

LEMMA mergePersistenceKeeps ==
    ASSUME IInv, NEW pLevel, mergePersistence(pLevel) PROVE IInv'
<1>1. /\ phase \in Late /\ phase' = "replaying" /\ phase' \in Late
      /\ UNCHANGED <<given, flow, persistence, ptmp, held>>
      /\ merge' = [x \in Extrema |-> x]
      /\ todo' \subseteq DOMAIN persistence'
  BY DEF mergePersistence, StartReplay, Late
<1>2. ReplayTodo' /\ EverySampleInCrystal'
  BY <1>1 DEF ReplayTodo, EverySampleInCrystal
<1> QED
  BY <1>1, <1>2, MergeReset, LateFacts, LateFrame

LEMMA PopReplayKeeps ==
    ASSUME IInv, PopReplay PROVE IInv'
<1>1. /\ phase = "replaying" /\ phase \in Late /\ y' = y
      /\ UNCHANGED <<given, flow, phase, merge, persistence, ptmp>>
  BY DEF PopReplay, Late, given
<1>2. PICK pers \in todo :
        /\ held' = [pers |-> pers, pold |-> persistence[pers],
                    p |-> persistence[pers]]
        /\ todo' = todo \ {pers}
  BY DEF PopReplay
<1>3. pers \in DOMAIN persistence /\ todo' \subseteq DOMAIN persistence
  BY <1>1, <1>2 DEF IInv, ReplayTodo
<1>4. /\ held' \in Entry /\ held'.pold \in Found /\ held'.p \in Found
  BY <1>1, <1>2, <1>3, LateFacts DEF Entry, Found
<1>5. MergeClimbs' /\ ReplayTodo' /\ EverySampleInCrystal'
  BY <1>1, <1>3
  DEF IInv, MergeClimbs, ReplayTodo, EverySampleInCrystal, Exceeds
<1> QED
  BY <1>1, <1>4, <1>5, LateFacts, LateFrame

LEMMA ReplayMergeKeeps ==
    ASSUME IInv, ReplayMerge PROVE IInv'
<1>1. /\ phase = "replaying" /\ phase \in Late /\ AtRoots /\ y' = y
      /\ held' = NoPair
      /\ merge' = [merge EXCEPT ![RootPair[1]] = RootPair[2]]
      /\ UNCHANGED <<given, flow, phase, persistence, ptmp, todo>>
  BY DEF ReplayMerge, Late, given
<1>2. merge' \in [Extrema -> Extrema] /\ MergeClimbs'
  BY <1>1, MergeRoots
<1>3. ReplayTodo' /\ EverySampleInCrystal'
  BY <1>1 DEF IInv, ReplayTodo, EverySampleInCrystal
<1> QED
  BY <1>1, <1>2, <1>3, LateFacts, LateFrame

LEMMA CompressKeeps ==
    ASSUME IInv, Compress PROVE IInv'
<1>1. /\ phase = "replaying" /\ phase \in Late /\ y' = y
      /\ merge' = [x \in DOMAIN merge |-> merge[merge[x]]]
      /\ UNCHANGED <<given, flow, phase, persistence, ptmp, held, todo>>
  BY DEF Compress, Late, given, pairs
<1>2. /\ y \in Field /\ merge \in [Extrema -> Extrema]
      /\ Extrema \subseteq Extremum
  BY <1>1, LateFacts
<1>3. merge' \in [Extrema -> Extrema]
  BY <1>1, <1>2
<1>4. ASSUME NEW x \in Extrema, merge'[x] # x
      PROVE  merge'[x][1] = x[1] /\ Exceeds(x[1], merge'[x][2], x[2])
  <2> DEFINE z == merge[x]
             w == merge[z]
  <2>1. w = merge'[x] /\ z \in Extrema /\ w \in Extrema
    BY <1>1, <1>2
  <2>2. /\ x[1] \in Kind /\ x[2] \in Sample /\ z[2] \in Sample
        /\ w[2] \in Sample
    BY <1>2, <2>1 DEF Extremum
  <2>3. /\ z # x => z[1] = x[1] /\ Exceeds(x[1], z[2], x[2])
        /\ w # z => w[1] = z[1] /\ Exceeds(z[1], w[2], z[2])
    BY <1>2, <2>1 DEF IInv, MergeClimbs
  <2> HIDE DEF z, w
  <2>4. CASE z = x
    BY <1>4, <2>1, <2>3, <2>4
  <2>5. CASE z # x /\ w = z
    BY <2>1, <2>3, <2>5
  <2>6. CASE z # x /\ w # z
    BY <1>2, <2>1, <2>2, <2>3, <2>6, ExceedsOrder
  <2> QED
    BY <2>4, <2>5, <2>6
<1>5. MergeClimbs'
  BY <1>1, <1>3, <1>4 DEF MergeClimbs, Exceeds
<1>6. ReplayTodo' /\ EverySampleInCrystal'
  BY <1>1 DEF IInv, ReplayTodo, EverySampleInCrystal
<1> QED
  BY <1>1, <1>3, <1>5, <1>6, LateFacts, LateFrame

LEMMA mergeCrystalsKeeps ==
    ASSUME IInv, mergeCrystals PROVE IInv'
<1>1. /\ phase \in Late /\ phase' = "idle" /\ phase' \in Late /\ y' = y
      /\ pcrystals' = {Merged(c) : c \in crystals}
      /\ UNCHANGED <<given, flow, extrema, merge, persistence, ptmp, held>>
  BY DEF mergeCrystals, Late, given, flow, pairs
<1>2. Partition' = Partition
  BY <1>1 DEF Partition, Merged, At
<1>3. EverySampleInCrystal'
  BY <1>1, <1>2 DEF EverySampleInCrystal, Partition, crystals
<1>4. MergeClimbs' /\ ReplayTodo'
  BY <1>1 DEF IInv, MergeClimbs, ReplayTodo, Exceeds
<1> QED
  BY <1>1, <1>3, <1>4, LateFacts, LateFrame

LEMMA getPartitionsKeeps ==
    ASSUME IInv, getPartitions PROVE IInv'
<1>1. /\ phase \in Late /\ phase = "idle" /\ y' = y
      /\ pcrystals \subseteq pcrystals'
      /\ UNCHANGED <<given, flow, extrema, phase, merge, persistence, ptmp,
                     held>>
  BY DEF getPartitions, Late, given, flow, pairs
<1>2. Partition' = Partition
  BY <1>1 DEF Partition, Merged, At
<1>3. EverySampleInCrystal'
  BY <1>1, <1>2 DEF IInv, EverySampleInCrystal
<1>4. MergeClimbs' /\ ReplayTodo'
  BY <1>1 DEF IInv, MergeClimbs, ReplayTodo, Exceeds
<1> QED
  BY <1>1, <1>3, <1>4, LateFacts, LateFrame

-----------------------------------------------------------------------------
(* The theorems.                                                           *)

LEMMA StutterKeeps ==
    ASSUME IInv, UNCHANGED vars PROVE IInv'
<1>1. UNCHANGED <<y, KNN, KNNG, extrema, path, prev, phase, merge, persistence,
                  ptmp, held, todo, pcrystals>>
  BY DEF vars, given, flow, pairs
<1>2. Extrema' = Extrema /\ Found' = Found
  BY <1>1, SameExtrema
<1>3. EverySampleInCrystal'
  BY <1>1, SamePartition DEF IInv
<1>4. TypeOK' /\ Closed'
  BY <1>1, <1>2 DEF IInv, TypeOK, Closed
<1> QED
  BY <1>1, <1>3, <1>4
  DEF IInv, PathClimbs, OneKind, GradientClimbs, NothingFound, NothingMerged,
      ReplayTodo, ExtremaAreExtremal, MergeClimbs, Exceeds

LEMMA NextKeepsInvariant ==
    ASSUME IInv, [Next]_vars PROVE IInv'
<1>1. CASE Compute
  BY <1>1, SetGradientKeeps, StartPathKeeps, FollowPathKeeps, EndPathKeeps,
     SetPersistenceKeeps, PopMergeKeeps, FollowChainKeeps, DiscardKeeps,
     PostponeKeeps, MergeKeeps, SetHierarchyKeeps, PopReplayKeeps,
     ReplayMergeKeeps, CompressKeeps, mergeCrystalsKeeps
  DEF Compute
<1>2. CASE getPartitions
  BY <1>2, getPartitionsKeeps
<1>3. CASE \E pLevel \in Levels : mergePersistence(pLevel)
  BY <1>3, mergePersistenceKeeps
<1>4. CASE UNCHANGED vars
  BY <1>4, StutterKeeps
<1> QED
  BY <1>1, <1>2, <1>3, <1>4 DEF Next

\* The complex keeps the invariant the others follow from, whatever the field,
\* the neighbour lists and the distances (NNMSComplex::runMS).
THEOREM Invariant == Spec => []IInv
BY InitEstablishes, NextKeepsInvariant, PTL DEF Spec

\* Every variable keeps its type, and the maps keep maxima and minima apart.
THEOREM TypesAreCorrect == Spec => []TypeOK
<1>1. IInv => TypeOK
  BY DEF IInv
<1> QED
  BY <1>1, Invariant, PTL

\* The extremum a sample is given is an extremum of the field, and at least as
\* significant as the sample: paths that end in known samples agree with those
\* that end in an extremum.
THEOREM ExtremaAreExtremalAlways == Spec => []ExtremaAreExtremal
<1>1. IInv => ExtremaAreExtremal
  BY DEF IInv
<1> QED
  BY <1>1, Invariant, PTL

\* An extremum is only ever merged to a more significant one of its kind, so
\* that merge has no cycles and followChain and the compression end.
THEOREM MergeClimbsAlways == Spec => []MergeClimbs
<1>1. IInv => MergeClimbs
  BY DEF IInv
<1> QED
  BY <1>1, Invariant, PTL

\* getPartitions finds the crystal of every sample among those mergeCrystals
\* set.
THEOREM EverySampleInCrystalAlways == Spec => []EverySampleInCrystal
<1>1. IInv => EverySampleInCrystal
  BY DEF IInv
<1> QED
  BY <1>1, Invariant, PTL

-----------------------------------------------------------------------------
(* No merge is overwritten.                                                *)

LEMMA InitDrained == Init => Drained /\ MergesCounted
<1> SUFFICES ASSUME Init PROVE Drained /\ MergesCounted
  OBVIOUS
<1>1. DOMAIN ptmp = {} /\ pinv2 = {} /\ phase = "gradient"
  BY DEF Init
<1> QED
  BY <1>1, FS_EmptySet DEF Drained, MergesCounted, NoMergeOverwritten

\* A step of merging that adds no merge keeps the count.
LEMMA CountFrame ==
    ASSUME MergesCounted, UNCHANGED <<ptmp, pinv2>>,
           phase' \in {"gradient", "paths"} => phase \in {"gradient", "paths"}
    PROVE  MergesCounted'
BY DEF MergesCounted, NoMergeOverwritten

LEMMA SetPersistenceDrains ==
    ASSUME IInv, MergesCounted, SetPersistence
    PROVE  Drained' /\ MergesCounted'
<1>1. /\ phase = "paths" /\ phase' = "merging"
      /\ UNCHANGED <<ptmp, pinv2, held>>
  BY DEF SetPersistence
<1>2. DOMAIN ptmp = {} /\ held = NoPair
  BY <1>1 DEF IInv, NothingMerged
<1> QED
  BY <1>1, <1>2, CountFrame DEF Drained

LEMMA PopMergeDrains ==
    ASSUME IInv, Drained, MergesCounted, PopMerge
    PROVE  Drained' /\ MergesCounted'
<1>1. /\ phase = "merging" /\ phase \in Late /\ phase' = phase
      /\ UNCHANGED <<ptmp, pinv2>>
  BY DEF PopMerge, Late
<1>2. PICK pers \in DOMAIN persistence :
        /\ IsFirst(pers, DOMAIN persistence)
        /\ held' = [pers |-> pers, pold |-> persistence[pers],
                    p |-> persistence[pers]]
        /\ persistence' = Remove(persistence, pers)
  BY DEF PopMerge
<1>3. /\ DOMAIN persistence' = DOMAIN persistence \ {pers}
      /\ held'.pers = pers
  BY <1>2 DEF Remove
<1>4. DOMAIN persistence \subseteq Int /\ DOMAIN ptmp \subseteq Int
  BY <1>1, LateFacts
<1>5. \A q \in DOMAIN persistence' : pers < q
  BY <1>2, <1>3, <1>4 DEF IsFirst
<1>6. Drained'
  BY <1>1, <1>2, <1>3, <1>4, <1>5 DEF Drained
<1> QED
  BY <1>1, <1>6, CountFrame

LEMMA FollowChainDrains ==
    ASSUME IInv, Drained, MergesCounted, FollowChain
    PROVE  Drained' /\ MergesCounted'
<1>1. /\ phase \in Late /\ held # NoPair
      /\ UNCHANGED <<phase, persistence, ptmp, pinv2>>
      /\ held' = [held EXCEPT !.p = <<merge[held.p[1]], merge[held.p[2]]>>]
  BY DEF FollowChain, Late, IInv, TypeOK, NothingMerged
<1>2. held'.pers = held.pers
  BY <1>1, LateFacts DEF Entry
<1> QED
  BY <1>1, <1>2, CountFrame DEF Drained

LEMMA PostponeDrains ==
    ASSUME IInv, Drained, MergesCounted, Postpone
    PROVE  Drained' /\ MergesCounted'
<1>1. /\ phase = "merging" /\ phase \in Late /\ AtRoots /\ held # NoPair
      /\ Increase > 0 /\ held' = NoPair
      /\ UNCHANGED <<phase, ptmp, pinv2>>
      /\ persistence' = Insert(persistence, held.pers + Increase, RootPair)
  BY DEF Postpone, Late, AtRoots
<1>2. /\ held.pers \in Int /\ Increase \in Int
      /\ DOMAIN persistence \subseteq Int /\ DOMAIN ptmp \subseteq Int
  BY <1>1, LateFacts, RootPairFound
<1>3. DOMAIN persistence' = DOMAIN persistence \cup {held.pers + Increase}
  BY <1>1 DEF Insert
<1>4. \A t \in DOMAIN ptmp : t < held.pers + Increase
  BY <1>1, <1>2 DEF Drained
<1>5. Drained'
  BY <1>1, <1>3, <1>4 DEF Drained
<1> QED
  BY <1>1, <1>5, CountFrame

LEMMA MergeDrains ==
    ASSUME IInv, Drained, MergesCounted, Merge
    PROVE  Drained' /\ MergesCounted'
<1>1. /\ phase = "merging" /\ phase \in Late /\ AtRoots /\ held # NoPair
      /\ held' = NoPair /\ UNCHANGED <<phase, persistence>>
  BY DEF Merge, Late, AtRoots
<1>2. CASE RootPair \in pinv2
  <2>1. UNCHANGED <<ptmp, pinv2>>
    BY <1>2 DEF Merge
  <2> QED
    BY <1>1, <2>1, CountFrame DEF Drained
<1>3. CASE RootPair \notin pinv2
  <2>1. /\ ptmp' = Insert(ptmp, held.pers, RootPair)
        /\ pinv2' = pinv2 \cup {RootPair}
    BY <1>3 DEF Merge
  <2>2. DOMAIN ptmp' = DOMAIN ptmp \cup {held.pers}
    BY <2>1 DEF Insert
  <2>3. /\ held.pers \in Int
        /\ DOMAIN persistence \subseteq Int /\ DOMAIN ptmp \subseteq Int
    BY <1>1, LateFacts, RootPairFound
  <2>4. held.pers \notin DOMAIN ptmp
    BY <1>1, <2>3 DEF Drained
  <2>5. Drained'
    BY <1>1, <2>2 DEF Drained
  <2>6. /\ IsFiniteSet(DOMAIN ptmp) /\ IsFiniteSet(pinv2)
        /\ Cardinality(DOMAIN ptmp) = Cardinality(pinv2)
    BY DEF MergesCounted, NoMergeOverwritten
  <2>7. /\ IsFiniteSet(DOMAIN ptmp')
        /\ Cardinality(DOMAIN ptmp') = Cardinality(DOMAIN ptmp) + 1
    BY <2>2, <2>4, <2>6, FS_AddElement
  <2>8. /\ IsFiniteSet(pinv2')
        /\ Cardinality(pinv2') = Cardinality(pinv2) + 1
    BY <1>3, <2>1, <2>6, FS_AddElement
  <2> QED
    BY <1>1, <2>5, <2>6, <2>7, <2>8 DEF MergesCounted, NoMergeOverwritten
<1> QED
  BY <1>2, <1>3

\* Every other step leaves the merges alone, and the entries while merging.
LEMMA OthersDrain ==
    ASSUME Drained, MergesCounted,
           \/ SetGradient \/ StartPath \/ FollowPath \/ EndPath
           \/ Discard \/ SetHierarchy
           \/ PopReplay \/ ReplayMerge \/ Compress \/ mergeCrystals
           \/ getPartitions \/ \E pLevel \in Levels : mergePersistence(pLevel)
           \/ UNCHANGED vars
    PROVE  Drained' /\ MergesCounted'
<1> USE DEF vars, given, flow, pairs
<1>1. UNCHANGED <<ptmp, pinv2>>
  BY DEF SetGradient, StartPath, FollowPath, EndPath, Discard, SetHierarchy,
         PopReplay, ReplayMerge, Compress, mergeCrystals, getPartitions,
         mergePersistence
<1>2. phase' \in {"gradient", "paths"} => phase \in {"gradient", "paths"}
  BY DEF SetGradient, StartPath, FollowPath, EndPath, Discard, SetHierarchy,
         PopReplay, ReplayMerge, Compress, mergeCrystals, getPartitions,
         mergePersistence, StartReplay
<1>3. phase' = "merging" =>
        /\ phase = "merging" /\ persistence' = persistence
        /\ held' = held \/ held' = NoPair
  BY DEF SetGradient, StartPath, FollowPath, EndPath, Discard, SetHierarchy,
         PopReplay, ReplayMerge, Compress, mergeCrystals, getPartitions,
         mergePersistence, StartReplay
<1>4. Drained'
  BY <1>1, <1>3 DEF Drained
<1> QED
  BY <1>1, <1>2, <1>4, CountFrame

LEMMA NextDrains ==
    ASSUME IInv, Drained, MergesCounted, [Next]_vars
    PROVE  Drained' /\ MergesCounted'
BY SetPersistenceDrains, PopMergeDrains, FollowChainDrains, PostponeDrains,
   MergeDrains, OthersDrain
DEF Next, Compute

\* The recursion never merges two pairs under one persistence, so ptmp, which
\* becomes the persistence levels, holds every merge of pinv2.
THEOREM NoMergeOverwrittenAlways == Spec => []NoMergeOverwritten
<1>1. MergesCounted => NoMergeOverwritten
  BY DEF MergesCounted
<1> QED
  BY <1>1, InitDrained, NextDrains, Invariant, PTL DEF Spec
=============================================================================
