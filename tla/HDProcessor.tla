---------------------------- MODULE HDProcessor ----------------------------
(***************************************************************************)
(* The levels of an analysis (HDProcessor::processOnMetric and             *)
(* computeAnalysisForLevel): the complex is computed once, and for every   *)
(* persistence level, from the first to the last, the merges below it are  *)
(* replayed and the crystals of the level stored.  The regression and the  *)
(* layouts made from them are left out.                                    *)
(***************************************************************************)
EXTENDS NNMSComplex, Sequences

VARIABLES
    start,             \* the first level asked for, None before it is known
    crystalPartitions, \* per level from start on, the samples' crystals
    levelCrystals      \* per level from start on, its crystals

result == <<start, crystalPartitions, levelCrystals>>

\* persistence(level): the keys in order, then Top.
Persistence(level) ==
    CHOOSE pers \in Levels :
        Cardinality({p \in Levels : p < pers}) = level

level == start + Len(crystalPartitions)
persistenceN == Cardinality(Levels)

HDInit ==
    /\ Init
    /\ start = None
    /\ crystalPartitions = <<>> /\ levelCrystals = <<>>

\* Mutant: more levels may be asked for than there are.
SetStartUnclamped(persistenceArg) ==
    /\ phase = "idle" /\ start = None
    /\ start' = IF persistenceArg > 0 THEN persistenceN - persistenceArg ELSE 0
    /\ UNCHANGED <<vars, crystalPartitions, levelCrystals>>

\* All levels, or the last few.
SetStart(persistenceArg) ==
    /\ phase = "idle" /\ start = None
    /\ start' = IF persistenceArg > 0 /\ persistenceN > persistenceArg
                THEN persistenceN - persistenceArg ELSE 0
    /\ UNCHANGED <<vars, crystalPartitions, levelCrystals>>

\* phase is "idle" before the level is merged and after; partitioned tells
\* which: the crystals of a level are read right after its merge.
MergeLevel ==
    /\ start # None /\ level < persistenceN
    /\ Len(levelCrystals) = Len(crystalPartitions)
    /\ mergePersistence(Persistence(level))
    /\ levelCrystals' = Append(levelCrystals, {})
    /\ UNCHANGED <<start, crystalPartitions>>

ReadLevel ==
    /\ Len(levelCrystals) > Len(crystalPartitions)
    /\ getPartitions
    /\ crystalPartitions' = Append(crystalPartitions, Partition)
    /\ levelCrystals' =
        [levelCrystals EXCEPT ![Len(levelCrystals)] = pcrystals']
    /\ UNCHANGED start

HDNext ==
    \/ Compute /\ UNCHANGED result
    \/ \E persistenceArg \in {-1, 3} : SetStart(persistenceArg)
    \/ MergeLevel
    \/ ReadLevel

HDSpec == HDInit /\ [][HDNext]_<<vars, result>> /\ WF_<<vars, result>>(HDNext)

-----------------------------------------------------------------------------
(* Properties.                                                             *)

Done == start # None /\ Len(crystalPartitions) > 0 /\ level = persistenceN

Roots == {x \in Extrema : merge[x] = x}

\* The levels done are those from start on, and no level is read before its
\* merge is finished.
HDTypeOK ==
    /\ start \in Nat \cup {None}
    /\ start # None => level <= persistenceN
    /\ Len(levelCrystals) - Len(crystalPartitions) \in {0, 1}

\* Each level has exactly one extremum less than the level before it: the
\* replay of the first merges repeats what the recursion did.
LevelsMergeOne ==
    /\ phase = "idle" /\ Len(levelCrystals) > Len(crystalPartitions)
    => Cardinality(Roots) = Cardinality(Extrema) - level

\* Levels are nested: samples together in a crystal stay together.
Nested ==
    \A l \in 1 .. Len(crystalPartitions) - 1 : \A i, j \in Sample :
        crystalPartitions[l][i] = crystalPartitions[l][j] =>
            crystalPartitions[l + 1][i] = crystalPartitions[l + 1][j]

\* Every analysis ends, with all its levels.
Terminates == <>Done

\* mergePersistence: "Neighboring extrema with a absolute difference between
\* saddle and lower exterma smaller than pLevel, are recursively joined into a
\* single extrema."
NeighboursJoined ==
    phase = "idle" /\ Len(levelCrystals) > Len(crystalPartitions) =>
        \A k \in Kind, e \in Edges :
            LET a == merge[At(k, e[1])]
                b == merge[At(k, e[2])]
            IN  a # b => Depth(Ordered(a, b)[1], e[1], e[2]) >=
                            Persistence(level)
=============================================================================
