---------------------------- MODULE NNMSComplex ----------------------------
(***************************************************************************)
(* The nearest-neighbour Morse-Smale complex of a field                    *)
(* (lib/morsesmale/NNMSComplex.h): every sample climbs to a maximum and    *)
(* descends to a minimum of the field; neighbouring extrema are merged in  *)
(* the order of their persistence; and the complex of any level is had by  *)
(* replaying the merges below it.                                          *)
(*                                                                         *)
(* An extremum's number is abstracted to what it stands for, its kind (0   *)
(* for a maximum, 1 for a minimum) and its sample, so that the test        *)
(* "< nMax" is the test of the kind; a crystal's number to its pair of     *)
(* extrema.  Field values are integers; distances are given up to order of *)
(* slopes.                                                                 *)
(***************************************************************************)
EXTENDS Integers, FiniteSets

CONSTANTS
    Sample,     \* indices of the samples
    Field,      \* the fields an analysis may be asked of
    Neighbours, \* the neighbour lists KNN, per sample, without the sample
    Distance,   \* between two samples, 0 for duplicates
    Top         \* numeric_limits<TPrecision>::max()

\* Noise has made the values of a field different (HDProcessor::addNoise), and
\* no two are as far apart as the largest number.
ASSUME NNMSComplexAssumption ==
    /\ Sample \subseteq Nat /\ IsFiniteSet(Sample)
    /\ Field \subseteq [Sample -> Int]
    /\ \A f \in Field : \A i, j \in Sample :
        /\ f[i] = f[j] => i = j
        /\ f[i] - f[j] < Top
    /\ Neighbours \subseteq [Sample -> SUBSET Sample]
    /\ Distance \in [Sample -> [Sample -> Nat]]
    /\ Top \in Int

Kind == {0, 1}
None == -1
Extremum == Kind \X Sample
NoPair == <<>>

VARIABLES
    y, KNN,       \* the field and the neighbour lists, given
    KNNG,         \* steepest ascending and descending neighbour
    extrema,      \* per kind and sample, the extremum's sample
    path, prev,   \* the samples of the path followed, and where it stands
    phase,        \* which loop of the computation runs
    merge,        \* what each extremum is merged to
    persistence,  \* pairs of extrema by persistence
    pinv2, ptmp,  \* the pairs merged so far, and by persistence
    held,         \* the entry in hand: its key, its pair, its pair now
    todo,         \* the keys still to be replayed
    pcrystals     \* the crystals of the level set last

given == <<y, KNN>>
flow == <<KNNG, extrema, path, prev>>
pairs == <<persistence, pinv2, ptmp, held, todo>>
vars == <<given, flow, phase, merge, pairs, pcrystals>>

-----------------------------------------------------------------------------
(* The field.                                                              *)

\* s is the more significant of two samples as extrema of a kind.
Exceeds(kind, s, t) == IF kind = 0 THEN y[s] > y[t] ELSE y[s] < y[t]

Edges == {e \in Sample \X Sample : e[2] \in KNN[e[1]]}

Slope(i, j) == IF Distance[i][j] = 0 THEN 0 ELSE y[j] - y[i]

\* The neighbours with the steepest slope from i, none if the field does not
\* rise (or fall) around it; ties go to whichever the loop met first.
Steepest(kind, i) ==
    LET climbs == {j \in Sample : /\ <<i, j>> \in Edges \/ <<j, i>> \in Edges
                                  /\ Slope(i, j) # 0 /\ Exceeds(kind, j, i)}
        sign == IF kind = 0 THEN 1 ELSE -1
    IN  {j \in climbs : \A l \in climbs :
            sign * Slope(i, j) * Distance[i][l] >=
            sign * Slope(i, l) * Distance[i][j]}

\* The extremum of a sample, and the crystals and extrema there are.
At(kind, i) == <<kind, extrema[kind][i]>>
Extrema == {At(kind, i) : kind \in Kind, i \in Sample}
crystals == {<<At(0, i), At(1, i)>> : i \in Sample}

\* Mutant: minima are compared as maxima are.
OrderedByHeight(a, b) == IF y[a[2]] > y[b[2]] THEN <<b, a>> ELSE <<a, b>>

\* A pair of extrema with the less significant first.
Ordered(a, b) == IF Exceeds(a[1], a[2], b[2]) THEN <<b, a>> ELSE <<a, b>>

\* How far the extremum that gives way stands from the saddle <<i, j>>.
Saddle(kind, i, j) ==
    IF (y[i] < y[j]) <=> (kind = 0) THEN y[i] ELSE y[j]
Depth(x, i, j) ==
    IF x[1] = 0 THEN y[x[2]] - Saddle(0, i, j) ELSE Saddle(1, i, j) - y[x[2]]

NeighbourPairs ==
    {Ordered(At(k, e[1]), At(k, e[2])) : k \in Kind, e \in Edges}
    \cap {p \in Extremum \X Extremum : p[1] # p[2]}

Depths(p) ==
    {Depth(p[1], e[1], e[2]) :
        e \in {e \in Edges :
                Ordered(At(p[1][1], e[1]), At(p[1][1], e[2])) = p}}

HasPersistence(p, pers) ==
    pers \in Depths(p) /\ \A d \in Depths(p) : pers <= d

\* Extrema are numbered maxima first, by the first sample they attract, and
\* maps run through pairs in the order of the numbers.
Number(x) == CHOOSE i \in Sample :
                /\ At(x[1], i) = x
                /\ \A j \in Sample : At(x[1], j) = x => i <= j
Before(p, q) ==
    \/ p[1][1] < q[1][1]
    \/ /\ p[1][1] = q[1][1]
       /\ \/ Number(p[1]) < Number(q[1])
          \/ Number(p[1]) = Number(q[1]) /\ Number(p[2]) < Number(q[2])

\* Of the pairs with the same persistence the map keeps the last.
IsKept(p, pers) ==
    /\ HasPersistence(p, pers)
    /\ \A q \in NeighbourPairs : HasPersistence(q, pers) => ~Before(p, q)

Insert(map, key, p) ==
    [k \in DOMAIN map \cup {key} |-> IF k = key THEN p ELSE map[k]]
Remove(map, key) == [k \in DOMAIN map \ {key} |-> map[k]]

IsFirst(key, keys) == key \in keys /\ \A k \in keys : key <= k

-----------------------------------------------------------------------------
(* Ascent and descent.                                                     *)

Init ==
    /\ y \in Field
    /\ KNN \in Neighbours
    /\ KNNG = [k \in Kind |-> [i \in Sample |-> None]]
    /\ extrema = [k \in Kind |-> [i \in Sample |-> None]]
    /\ path = {} /\ prev = None
    /\ phase = "gradient"
    /\ merge = <<>>
    /\ persistence = <<>> /\ pinv2 = {} /\ ptmp = <<>>
    /\ held = NoPair /\ todo = {}
    /\ pcrystals = {}

SetGradient ==
    /\ phase = "gradient"
    /\ KNNG' = [k \in Kind |-> [i \in Sample |->
                    IF Steepest(k, i) = {} THEN None
                    ELSE CHOOSE j \in Steepest(k, i) : TRUE]]
    /\ phase' = "paths"
    /\ UNCHANGED <<given, extrema, path, prev, merge, pairs, pcrystals>>

\* The next sample that knows no extremum of the kind in turn.
NextStart(k, i) ==
    /\ extrema[k][i] = None
    /\ k = 1 => \A j \in Sample : extrema[0][j] # None
    /\ \A j \in Sample : j < i => extrema[k][j] # None

StartPath ==
    /\ phase = "paths" /\ path = {}
    /\ \E k \in Kind, i \in Sample :
        /\ NextStart(k, i)
        /\ path' = {<<k, i>>} /\ prev' = i
    /\ UNCHANGED <<given, KNNG, extrema, phase, merge, pairs, pcrystals>>

\* Mutant: a path runs on past its end.
FollowPathPastEnd ==
    /\ phase = "paths"
    /\ \E k \in Kind :
        /\ <<k, prev>> \in path
        /\ LET next == KNNG[k][prev]
           IN  /\ next # None => extrema[k][next] = None
               /\ path' = path \cup {<<k, next>>}
               /\ prev' = next
    /\ UNCHANGED <<given, KNNG, extrema, phase, merge, pairs, pcrystals>>

\* A step along the path; prev is the last sample on it.
FollowPath ==
    /\ phase = "paths"
    /\ \E k \in Kind :
        /\ <<k, prev>> \in path
        /\ LET next == KNNG[k][prev]
           IN  /\ next # None
               /\ extrema[k][next] = None
               /\ path' = path \cup {<<k, next>>}
               /\ prev' = next
    /\ UNCHANGED <<given, KNNG, extrema, phase, merge, pairs, pcrystals>>

\* Mutant: every path ends in an extremum of its own.
EndPathHere ==
    /\ phase = "paths" /\ path # {}
    /\ \E k \in Kind :
        /\ <<k, prev>> \in path
        /\ KNNG[k][prev] # None => extrema[k][KNNG[k][prev]] # None
        /\ extrema' = [extrema EXCEPT ![k] =
                [i \in Sample |-> IF <<k, i>> \in path THEN prev ELSE @[i]]]
    /\ path' = {} /\ prev' = None
    /\ UNCHANGED <<given, KNNG, phase, merge, pairs, pcrystals>>

\* The path ends in an extremum of its own, or in a sample that knows one.
EndPath ==
    /\ phase = "paths"
    /\ \E k \in Kind :
        /\ <<k, prev>> \in path
        /\ LET next == KNNG[k][prev]
               ext == IF next = None THEN prev ELSE extrema[k][next]
           IN  /\ next # None => extrema[k][next] # None
               /\ extrema' = [extrema EXCEPT ![k] =
                    [i \in Sample |-> IF <<k, i>> \in path THEN ext ELSE @[i]]]
    /\ path' = {} /\ prev' = None
    /\ UNCHANGED <<given, KNNG, phase, merge, pairs, pcrystals>>

\* Every neighbouring pair enters persistence under its least depth.
SetPersistence ==
    /\ phase = "paths" /\ path = {}
    /\ \A k \in Kind, i \in Sample : extrema[k][i] # None
    /\ persistence' =
        [pers \in {d \in UNION {Depths(p) : p \in NeighbourPairs} :
                        \E p \in NeighbourPairs : IsKept(p, d)} |->
            CHOOSE p \in NeighbourPairs : IsKept(p, pers)]
    /\ merge' = [x \in Extrema |-> x]
    /\ phase' = "merging"
    /\ UNCHANGED <<given, flow, pinv2, ptmp, held, todo, pcrystals>>

-----------------------------------------------------------------------------
(* The merge hierarchy.                                                    *)

\* Mutant: the map is drained from its end.
PopMergeLast ==
    /\ phase = "merging" /\ held = NoPair
    /\ \E pers \in DOMAIN persistence :
        /\ \A q \in DOMAIN persistence : q <= pers
        /\ held' = [pers |-> pers, pold |-> persistence[pers],
                    p |-> persistence[pers]]
        /\ persistence' = Remove(persistence, pers)
    /\ UNCHANGED <<given, flow, phase, merge, pinv2, ptmp, todo, pcrystals>>

\* Take the first entry out of the map it is in.
PopMerge ==
    /\ phase = "merging" /\ held = NoPair
    /\ \E pers \in DOMAIN persistence :
        /\ IsFirst(pers, DOMAIN persistence)
        /\ held' = [pers |-> pers, pold |-> persistence[pers],
                    p |-> persistence[pers]]
        /\ persistence' = Remove(persistence, pers)
    /\ UNCHANGED <<given, flow, phase, merge, pinv2, ptmp, todo, pcrystals>>

\* followChain, on both extrema of the pair in hand.
FollowChain ==
    /\ held # NoPair
    /\ \E j \in {1, 2} : merge[held.p[j]] # held.p[j]
    /\ held' = [held EXCEPT !.p = <<merge[@[1]], merge[@[2]]>>]
    /\ UNCHANGED <<given, flow, phase, merge, persistence, pinv2, ptmp, todo,
                   pcrystals>>

\* Both extrema of the pair in hand are roots; the pair, the lesser first.
AtRoots ==
    /\ held # NoPair
    /\ \A j \in {1, 2} : merge[held.p[j]] = held.p[j]
RootPair == Ordered(held.p[1], held.p[2])

\* By how much the extremum to give way exceeds the one that was to.
Increase ==
    LET s == RootPair[1][2]
        t == held.pold[1][2]
    IN  IF RootPair[1][1] = 0 THEN y[s] - y[t] ELSE y[t] - y[s]

\* Merged already, by way of others.
Discard ==
    /\ phase = "merging" /\ AtRoots
    /\ RootPair[1] = RootPair[2]
    /\ held' = NoPair
    /\ UNCHANGED <<given, flow, phase, merge, persistence, pinv2, ptmp, todo,
                   pcrystals>>

\* Mutant: a pair of unchanged persistence goes back as well.
PostponeUnchanged ==
    /\ phase = "merging" /\ AtRoots
    /\ RootPair[1] # RootPair[2] /\ Increase >= 0
    /\ persistence' = Insert(persistence, held.pers + Increase, RootPair)
    /\ held' = NoPair
    /\ UNCHANGED <<given, flow, phase, merge, pinv2, ptmp, todo, pcrystals>>

\* The pair goes back under the larger persistence, over whatever entry has
\* that key.
Postpone ==
    /\ phase = "merging" /\ AtRoots
    /\ RootPair[1] # RootPair[2] /\ Increase > 0
    /\ persistence' = Insert(persistence, held.pers + Increase, RootPair)
    /\ held' = NoPair
    /\ UNCHANGED <<given, flow, phase, merge, pinv2, ptmp, todo, pcrystals>>

Merge ==
    /\ phase = "merging" /\ AtRoots
    /\ RootPair[1] # RootPair[2] /\ Increase <= 0
    /\ IF RootPair \in pinv2 THEN UNCHANGED <<merge, ptmp, pinv2>>
       ELSE /\ merge' = [merge EXCEPT ![RootPair[1]] = RootPair[2]]
            /\ ptmp' = Insert(ptmp, held.pers, RootPair)
            /\ pinv2' = pinv2 \cup {RootPair}
    /\ held' = NoPair
    /\ UNCHANGED <<given, flow, phase, persistence, todo, pcrystals>>

\* Mutants: the merge at pLevel is replayed too; those above it are replayed
\* instead.
StartReplayThrough(map, pLevel) ==
    /\ merge' = [x \in Extrema |-> x]
    /\ todo' = {pers \in DOMAIN map : pers <= pLevel}
    /\ phase' = "replaying"
StartReplayAbove(map, pLevel) ==
    /\ merge' = [x \in Extrema |-> x]
    /\ todo' = {pers \in DOMAIN map : pers > pLevel}
    /\ phase' = "replaying"

\* The start of mergePersistence: all merges are undone, those below pLevel
\* are to be replayed.
StartReplay(map, pLevel) ==
    /\ merge' = [x \in Extrema |-> x]
    /\ todo' = {pers \in DOMAIN map : pers < pLevel}
    /\ phase' = "replaying"

\* The constructor ends in mergePersistence(0).
SetHierarchy ==
    /\ phase = "merging" /\ held = NoPair /\ DOMAIN persistence = {}
    /\ persistence' = ptmp
    /\ StartReplay(ptmp, 0)
    /\ UNCHANGED <<given, flow, pinv2, ptmp, held, pcrystals>>

-----------------------------------------------------------------------------
(* The public operations.                                                  *)

\* getPersistence
Levels == DOMAIN persistence \cup {Top}

mergePersistence(pLevel) ==
    /\ phase = "idle"
    /\ StartReplay(persistence, pLevel)
    /\ UNCHANGED <<given, flow, persistence, pinv2, ptmp, held, pcrystals>>

PopReplay ==
    /\ phase = "replaying" /\ held = NoPair
    /\ \E pers \in todo :
        /\ IsFirst(pers, todo)
        /\ held' = [pers |-> pers, pold |-> persistence[pers],
                    p |-> persistence[pers]]
        /\ todo' = todo \ {pers}
    /\ UNCHANGED <<given, flow, phase, merge, persistence, pinv2, ptmp,
                   pcrystals>>

ReplayMerge ==
    /\ phase = "replaying" /\ AtRoots
    /\ merge' = [merge EXCEPT ![RootPair[1]] = RootPair[2]]
    /\ held' = NoPair
    /\ UNCHANGED <<given, flow, phase, persistence, pinv2, ptmp, todo,
                   pcrystals>>

\* Every extremum follows its chain to the end, in rounds.
Compress ==
    /\ phase = "replaying" /\ held = NoPair /\ todo = {}
    /\ merge' = [x \in DOMAIN merge |-> merge[merge[x]]]
    /\ merge' # merge
    /\ UNCHANGED <<given, flow, phase, pairs, pcrystals>>

Merged(c) == <<merge[c[1]], merge[c[2]]>>

\* Mutant: the crystals keep their minima.
mergeCrystalsOfMaxima ==
    /\ phase = "replaying" /\ held = NoPair /\ todo = {}
    /\ \A x \in DOMAIN merge : merge[merge[x]] = merge[x]
    /\ pcrystals' = {<<merge[c[1]], c[2]>> : c \in crystals}
    /\ phase' = "idle"
    /\ UNCHANGED <<given, flow, merge, pairs>>

mergeCrystals ==
    /\ phase = "replaying" /\ held = NoPair /\ todo = {}
    /\ \A x \in DOMAIN merge : merge[merge[x]] = merge[x]
    /\ pcrystals' = {Merged(c) : c \in crystals}
    /\ phase' = "idle"
    /\ UNCHANGED <<given, flow, merge, pairs>>

\* getPartitions: the crystal of each sample, and a pair nobody entered adds a
\* crystal to the map.
Partition == [i \in Sample |-> Merged(<<At(0, i), At(1, i)>>)]
getPartitions ==
    /\ phase = "idle"
    /\ pcrystals' = pcrystals \cup {Partition[i] : i \in Sample}
    /\ UNCHANGED <<given, flow, phase, merge, pairs>>

\* The steps of a computation under way, and the calls that start one.
Compute ==
    \/ SetGradient \/ StartPath \/ FollowPath \/ EndPath \/ SetPersistence
    \/ PopMerge \/ FollowChain \/ Discard \/ Postpone \/ Merge
    \/ SetHierarchy
    \/ PopReplay \/ ReplayMerge \/ Compress \/ mergeCrystals

Next ==
    \/ Compute
    \/ getPartitions
    \/ \E pLevel \in Levels : mergePersistence(pLevel)

Spec == Init /\ [][Next]_vars

-----------------------------------------------------------------------------
(* Properties.                                                             *)

\* Pairs of extrema of one kind, so that one test of p.first tells for both.
Pair == {p \in Extremum \X Extremum : p[1][1] = p[2][1]}
Entry == [pers: Int, pold: Pair, p: Pair]

\* Every variable has its type, and no map or hand ever holds a maximum beside
\* a minimum.
TypeOK ==
    /\ y \in Field /\ KNN \in Neighbours
    /\ KNNG \in [Kind -> [Sample -> Sample \cup {None}]]
    /\ extrema \in [Kind -> [Sample -> Sample \cup {None}]]
    /\ path \subseteq Kind \X Sample
    /\ prev \in Sample \cup {None}
    /\ phase \in {"gradient", "paths", "merging", "replaying", "idle"}
    /\ DOMAIN persistence \subseteq Int
    /\ \A pers \in DOMAIN persistence : persistence[pers] \in Pair
    /\ DOMAIN ptmp \subseteq Int
    /\ \A pers \in DOMAIN ptmp : ptmp[pers] \in Pair
    /\ held \in Entry \cup {NoPair}

\* A sample's maximum is a local maximum of the field at least as high as the
\* sample, and so downwards for minima, however paths run into one another.
ExtremaAreExtremal ==
    \A i \in Sample : \A k \in Kind :
        extrema[k][i] # None =>
            /\ KNNG[k][extrema[k][i]] = None
            /\ ~Exceeds(k, i, extrema[k][i])

\* Merging only ever climbs: a maximum is merged to a higher maximum, a
\* minimum to a lower minimum, in the recursion, in every replay and while the
\* chains are shortened.  So followChain ends.
MergeClimbs ==
    \A x \in DOMAIN merge :
        merge[x] # x =>
            merge[x][1] = x[1] /\ Exceeds(x[1], merge[x][2], x[2])

\* Every sample is in a crystal of the level set last: the look-up in
\* getPartitions never adds one.
EverySampleInCrystal ==
    phase = "idle" => \A i \in Sample : Partition[i] \in pcrystals

\* No merge is lost from ptmp: the persistences at which pairs are merged are
\* all different, although postponed pairs re-enter the map being drained.
NoMergeOverwritten ==
    Cardinality(DOMAIN ptmp) = Cardinality(pinv2)
=============================================================================
