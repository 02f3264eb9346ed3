--------------------------- MODULE SearchesProofs ---------------------------
(***************************************************************************)
(* What holds of the searches for every number of points and all lengths:  *)
(* they use the heap as it may be used, so that what is proved of the heap *)
(* holds in them; what findKNN returns are nearest neighbours; and the two *)
(* copies dijkstra keeps of a path's length agree.  That a key is changed  *)
(* only of an element in the heap rests on the order in which extrema are  *)
(* settled: the lengths of the settled ones are no longer than any that is *)
(* still in the heap, and that of the one settled last is the longest.     *)
(* With that, the paths found are the shortest there are: a path has no    *)
(* more edges than extrema are settled, and no edge from a settled         *)
(* extremum makes a path shorter.                                          *)
(***************************************************************************)
EXTENDS Searches, MinHeapProofs, SequenceTheorems

Finding == search.in = "findKNN" /\ search.started
Settling == search.in = "dijkstra" /\ search.started

\* What was found of the row so far, are the elements that left the heap, in
\* the order of their keys.
FoundSoFar ==
    LET r == search.row
    IN  /\ \A j \in Slot : elems[j] = d[j][r]
        /\ \A a \in DOMAIN knn[r] : knn[r][a] \notin inHeap
        /\ \A j \in Slot \ inHeap : \E a \in DOMAIN knn[r] : knn[r][a] = j
        /\ \A a \in DOMAIN knn[r], j \in inHeap : dists[r][a] <= elems[j]

FindingInv ==
    /\ \A i \in Slot : DOMAIN dists[i] = DOMAIN knn[i]
    /\ search.in = "findKNN" =>
          \A i \in Slot : i > search.row \/ (i = search.row /\ ~search.started) =>
              knn[i] = <<>> /\ dists[i] = <<>>
    /\ Finding => search.row \in Slot /\ FoundSoFar
    /\ NeighboursNearest

\* The extrema settled are no farther than those in the heap, and the one
\* settled last is the farthest.
SettlingInv ==
    /\ ~Settling => edges = {}
    /\ Settling =>
        /\ search.row \in Slot
        /\ \A v \in inHeap : elems[v] = path[v]
        /\ \A u \in Slot \ inHeap, v \in inHeap : path[u] <= path[v]
        /\ edges # {} => /\ extracted \in Slot \ inHeap
                         /\ \A u \in Slot \ inHeap : path[u] <= path[extracted]

SearchInv == IInv /\ TypeOK /\ FindingInv /\ SettlingInv

-----------------------------------------------------------------------------
(***************************************************************************)
(* The operations of the heap, as the searches see them.                   *)
(***************************************************************************)
LEMMA SiftSeen ==
    ASSUME IInv, heapify \/ changeElement
    PROVE  inHeap' = inHeap /\ elems' = elems /\ extracted' = extracted
<1>1. UNCHANGED Queue!vars
  BY HeapifySteps, ChangeElementSteps
<1>2. [e \in inHeap |-> elems[e]]' = [e \in inHeap |-> elems[e]]
  BY <1>1 DEF Queue!vars
<1>3. inHeap' = inHeap
  <2>1. DOMAIN [e \in inHeap' |-> elems'[e]] = DOMAIN [e \in inHeap |-> elems[e]]
    BY <1>2
  <2> QED BY <2>1
<1> QED BY <1>3 DEF heapify, changeElement

LEMMA ExtractionSeen ==
    ASSUME IInv, extractRoot
    PROVE  \E e \in inHeap :
              /\ e = heap2orig[0] /\ extracted' = e /\ inHeap' = inHeap \ {e}
              /\ elems' = elems /\ \A f \in inHeap : elems[e] <= elems[f]
<1>1. PICK e \in Slot : Queue!ExtractMin(e)
  BY ExtractRootSteps
<1>2. extracted' = e /\ e = heap2orig[0] /\ elems' = elems
  BY <1>1 DEF Queue!ExtractMin, extractRoot
<1> DEFINE queue == [f \in inHeap |-> elems[f]]
<1>3. DOMAIN queue = inHeap /\ \A f \in inHeap : queue[f] = elems[f]
  OBVIOUS
<1>4. /\ e \in DOMAIN queue /\ \A f \in DOMAIN queue : queue[e] <= queue[f]
      /\ queue' = [f \in DOMAIN queue \ {e} |-> queue[f]]
  BY <1>1 DEF Queue!ExtractMin
<1>5. inHeap' = inHeap \ {e}
  <2>1. DOMAIN queue' = inHeap'
    OBVIOUS
  <2>2. DOMAIN queue' = inHeap \ {e}
    <3> HIDE DEF queue
    <3> QED BY <1>3, <1>4
  <2> QED BY <2>1, <2>2
<1>6. e \in inHeap /\ \A f \in inHeap : elems[e] <= elems[f]
  <2> HIDE DEF queue
  <2> QED BY <1>3, <1>4
<1> QED BY <1>2, <1>5, <1>6

LEMMA FillSeen ==
    ASSUME Queue!Fill
    PROVE  inHeap' = Slot
<1>1. [e \in inHeap |-> elems[e]]' \in [Slot -> Key]
  BY DEF Queue!Fill
<1>2. DOMAIN [e \in inHeap' |-> elems'[e]] = Slot
  BY <1>1
<1> QED BY <1>2

LEMMA ChangeSeen ==
    ASSUME IInv, elems' \in [Slot -> Key], NEW i \in Slot, NEW key,
           key = elems'[i], mayChange(i, key), changeOrigElement(i, key)
    PROVE  inHeap' = inHeap /\ elems' = [elems EXCEPT ![i] = key]
<1>1. elems' = [elems EXCEPT ![i] = key] /\ UNCHANGED <<heap2orig, nElements>>
  BY DEF changeOrigElement
<1>2. inHeap' = inHeap
  BY <1>1 DEF inHeap
<1> QED BY <1>1, <1>2

-----------------------------------------------------------------------------
(***************************************************************************)
(* The steps.                                                              *)
(***************************************************************************)
searchVars == <<d, caller, k, overrun, search, knn, dists, path, edges, distances>>

LEMMA Types ==
    ASSUME SearchInv
    PROVE  /\ d \in [Slot -> [Slot -> Key]] /\ k \in Asked
           /\ caller \in {"NNMSComplex", "fetchKNeighbors", "embedAdj"}
           /\ overrun \in BOOLEAN
           /\ search \in [in : {"findKNN", "dijkstra", "done"}, row : 0 .. N,
                          started : BOOLEAN]
           /\ search.row \in 0 .. N /\ search.started \in BOOLEAN
           /\ knn \in [Slot -> Seq(Slot)] /\ dists \in [Slot -> Seq(Key)]
           /\ path \in [Slot -> Key] /\ edges \subseteq Slot
           /\ distances \in [Slot -> [Slot -> Key]]
           /\ elems \in [Slot -> Key] /\ inHeap \subseteq Slot
           /\ Key \subseteq Int /\ Slot \subseteq Int /\ N \in Nat /\ 0 \in Slot
           /\ 0 \in Key /\ Infinity \in Key
           /\ search.row < N => search.row \in Slot
<1>1. N \in Nat /\ N > 0 /\ Infinity \in Nat
  BY HeapAssumption
<1>2. Key \subseteq Int /\ Slot \subseteq Int /\ 0 \in Slot /\ 0 \in Key /\ Infinity \in Key
  BY <1>1 DEF Key, Slot
<1>3. search.row \in 0 .. N /\ search.started \in BOOLEAN
  BY DEF SearchInv, TypeOK
<1>4. search.row < N => search.row \in Slot
  BY <1>1, <1>3 DEF Slot
<1>5. elems \in [Slot -> Key] /\ inHeap \subseteq Slot
  BY InHeapSlots DEF SearchInv, TypeOK, HeapTypeOK
<1> QED BY <1>1, <1>2, <1>3, <1>4, <1>5 DEF SearchInv, TypeOK

LEMMA SiftsKeep ==
    ASSUME SearchInv, Sifts
    PROVE  HeapNext /\ SearchInv'
<1>1. HeapNext
  BY DEF Sifts, HeapNext
<1>2. IInv'
  BY <1>1, StepsImplement DEF SearchInv
<1>3. UNCHANGED searchVars /\ inHeap' = inHeap /\ elems' = elems /\ extracted' = extracted
  BY SiftSeen DEF input, SearchInv, Sifts, searchVars
<1>4. TypeOK'
  BY <1>2, <1>3 DEF SearchInv, TypeOK, IInv, searchVars
<1>5. FindingInv'
  BY <1>3 DEF SearchInv, FindingInv, Finding, FoundSoFar, NeighboursNearest, searchVars
<1>6. SettlingInv'
  BY <1>3 DEF SearchInv, SettlingInv, Settling, searchVars
<1> QED BY <1>1, <1>2, <1>4, <1>5, <1>6 DEF SearchInv

LEMMA GatherKeeps ==
    ASSUME SearchInv, Gather
    PROVE  HeapNext /\ SearchInv'
<1> DEFINE r == search.row
<1>0. r \in Slot /\ search.in = "findKNN" /\ ~search.started
  BY Types DEF Gather, In
<1>1. elems' = [j \in Slot |-> d[j][r]] /\ elems' \in [Slot -> Key]
  BY <1>0, Types DEF input, Gather, buildHeap
<1>2. buildHeap(elems')
  BY <1>1 DEF Gather, buildHeap
<1>3. HeapNext /\ IInv'
  <2>1. HeapNext
    BY <1>1, <1>2 DEF HeapNext
  <2> QED BY <2>1, StepsImplement DEF SearchInv
<1>4. inHeap' = Slot
  BY <1>1, <1>2, BuildHeapSteps, FillSeen DEF SearchInv
<1>5. /\ UNCHANGED <<d, caller, k, overrun, knn, dists, path, edges, distances>>
      /\ search' = [search EXCEPT !.started = TRUE]
  BY DEF input, Gather
<1>6. search'.in = "findKNN" /\ search'.row = r /\ search'.started = TRUE
  BY <1>0, <1>5, Types
<1>7. TypeOK'
  <2>1. search' \in [in : {"findKNN", "dijkstra", "done"}, row : 0 .. N, started : BOOLEAN]
    BY <1>5, Types
  <2> QED BY <1>3, <1>5, <2>1, Types DEF TypeOK, IInv
<1>8. FindingInv'
  <2>1. knn[r] = <<>> /\ dists[r] = <<>>
    BY <1>0 DEF SearchInv, FindingInv
  <2>2. FoundSoFar'
    <3>1. DOMAIN knn[r] = {}
      BY <2>1
    <3> HIDE DEF r
    <3> QED BY <1>1, <1>4, <1>5, <1>6, <3>1 DEF FoundSoFar
  <2>3. NeighboursNearest'
    BY <1>5 DEF SearchInv, FindingInv, NeighboursNearest
  <2>4. \A i \in Slot : i > r => knn[i] = <<>> /\ dists[i] = <<>>
    BY <1>0 DEF SearchInv, FindingInv
  <2>5. \A i \in Slot : DOMAIN dists[i] = DOMAIN knn[i]
    BY DEF SearchInv, FindingInv
  <2> HIDE DEF r
  <2> QED BY <1>0, <1>5, <1>6, <2>2, <2>3, <2>4, <2>5 DEF FindingInv, Finding
<1>9. SettlingInv'
  BY <1>0, <1>5, <1>6 DEF SearchInv, SettlingInv, Settling
<1> QED BY <1>3, <1>7, <1>8, <1>9 DEF SearchInv

LEMMA NextNeighbourKeeps ==
    ASSUME SearchInv, NextNeighbour
    PROVE  HeapNext /\ SearchInv'
<1> DEFINE r == search.row
<1>0. r \in Slot /\ search.in = "findKNN" /\ search.started
  BY Types DEF NextNeighbour, In
<1>1. HeapNext /\ IInv'
  <2>1. HeapNext
    BY DEF NextNeighbour, HeapNext
  <2> QED BY <2>1, StepsImplement DEF SearchInv
<1>2. PICK e \in inHeap :
         /\ e = heap2orig[0] /\ extracted' = e /\ inHeap' = inHeap \ {e}
         /\ elems' = elems /\ \A f \in inHeap : elems[e] <= elems[f]
  BY ExtractionSeen DEF SearchInv, NextNeighbour
<1>3. /\ UNCHANGED <<d, caller, k, overrun, search, path, edges, distances>>
      /\ knn' = [knn EXCEPT ![r] = Append(knn[r], e)]
      /\ dists' = [dists EXCEPT ![r] = Append(dists[r], elems[e])]
  BY <1>2 DEF input, NextNeighbour
<1>4. e \in Slot /\ elems[e] \in Key
  BY <1>2, Types
<1>5. TypeOK'
  <2>1. Append(knn[r], e) \in Seq(Slot) /\ Append(dists[r], elems[e]) \in Seq(Key)
    BY <1>0, <1>4, Types
  <2>2. knn' \in [Slot -> Seq(Slot)] /\ dists' \in [Slot -> Seq(Key)]
    <3> HIDE DEF r
    <3> QED BY <1>3, <2>1, Types
  <2> QED BY <1>1, <1>3, <2>2, Types DEF TypeOK, IInv
<1>6. FoundSoFar /\ DOMAIN dists[r] = DOMAIN knn[r] /\ NeighboursNearest
  BY <1>0 DEF SearchInv, FindingInv, Finding
<1> DEFINE n == Len(knn[r])
<1>7. /\ n \in Nat /\ DOMAIN knn[r] = 1 .. n /\ DOMAIN dists[r] = 1 .. n
      /\ DOMAIN knn'[r] = 1 .. n + 1 /\ DOMAIN dists'[r] = 1 .. n + 1
      /\ knn'[r][n + 1] = e /\ dists'[r][n + 1] = elems[e]
      /\ \A a \in 1 .. n : knn'[r][a] = knn[r][a] /\ dists'[r][a] = dists[r][a]
  <2>1. knn[r] \in Seq(Slot) /\ dists[r] \in Seq(Key)
    BY <1>0, Types
  <2>2. knn'[r] = Append(knn[r], e) /\ dists'[r] = Append(dists[r], elems[e])
    BY <1>0, <1>3, Types
  <2>3. Len(dists[r]) = n /\ DOMAIN knn[r] = 1 .. n /\ DOMAIN dists[r] = 1 .. n
    BY <1>6, <2>1, LenProperties
  <2> HIDE DEF r
  <2> QED BY <1>4, <2>1, <2>2, <2>3, AppendProperties
<1>8. \A i \in Slot \ {r} : knn'[i] = knn[i] /\ dists'[i] = dists[i]
  BY <1>3, Types
<1>9. n \in Nat /\ \A a \in 1 .. n + 1 : a \in 1 .. n \/ a = n + 1
  BY <1>7
<1>10. \A a \in 1 .. n : dists[r][a] \in Int
  <2>1. dists[r] \in Seq(Key)
    BY <1>0, Types
  <2> HIDE DEF r, n
  <2> QED BY <1>7, <2>1, ElementOfSeq, LenProperties, Types, ZenonT(30)
<1>11. elems[e] \in Int /\ \A j \in Slot : elems[j] \in Int
  BY <1>4, Types
<1> HIDE DEF n
<1>12. FoundSoFar'
  <2>1. \A j \in Slot : elems'[j] = d'[j][r]
    BY <1>2, <1>3, <1>6 DEF FoundSoFar
  <2>2. \A a \in 1 .. n + 1 : knn'[r][a] \notin inHeap'
    BY <1>2, <1>6, <1>7, <1>9 DEF FoundSoFar
  <2>3. \A j \in Slot \ inHeap' : \E a \in 1 .. n + 1 : knn'[r][a] = j
    <3> SUFFICES ASSUME NEW j \in Slot, j \notin inHeap'
                 PROVE  \E a \in 1 .. n + 1 : knn'[r][a] = j
      OBVIOUS
    <3>1. CASE j = e
      <4>1. n + 1 \in 1 .. n + 1
        BY <1>9
      <4> QED BY <3>1, <4>1, <1>7
    <3>2. CASE j # e
      <4>1. PICK a \in 1 .. n : knn[r][a] = j
        BY <3>2, <1>2, <1>6, <1>7 DEF FoundSoFar
      <4>2. a \in 1 .. n + 1
        BY <1>9
      <4> QED BY <4>1, <4>2, <1>7
    <3> QED BY <3>1, <3>2
  <2>4. \A a \in 1 .. n + 1, j \in inHeap' : dists'[r][a] <= elems'[j]
    BY <1>2, <1>6, <1>7, <1>9 DEF FoundSoFar
  <2> QED BY <1>3, <1>7, <2>1, <2>2, <2>3, <2>4, SMTT(30) DEF FoundSoFar
<1>13. NeighboursNearest'
  <2> SUFFICES ASSUME NEW i \in Slot
               PROVE  /\ \A a, b \in DOMAIN knn'[i] : a < b =>
                            knn'[i][a] # knn'[i][b] /\ dists'[i][a] <= dists'[i][b]
                      /\ \A a \in DOMAIN knn'[i] : dists'[i][a] = d'[knn'[i][a]][i]
                      /\ \A j \in Slot : \A a \in DOMAIN knn'[i] :
                            j \notin {knn'[i][b] : b \in DOMAIN knn'[i]} =>
                                dists'[i][a] <= d'[j][i]
    BY DEF NeighboursNearest
  <2>1. CASE i # r
    <3>1. knn'[i] = knn[i] /\ dists'[i] = dists[i] /\ d' = d
      BY <2>1, <1>3, <1>8
    <3> HIDE DEF r
    <3> QED BY <3>1, <1>6 DEF NeighboursNearest
  <2>2. CASE i = r
    <3>1. ASSUME NEW a \in 1 .. n + 1, NEW b \in 1 .. n + 1, a < b
          PROVE  knn'[r][a] # knn'[r][b] /\ dists'[r][a] <= dists'[r][b]
      <4>1. a \in 1 .. n
        BY <3>1, <1>9
      <4>2. CASE b = n + 1
        BY <4>1, <4>2, <1>2, <1>6, <1>7 DEF FoundSoFar
      <4>3. CASE b \in 1 .. n
        BY <3>1, <4>1, <4>3, <1>0, <1>6, <1>7 DEF NeighboursNearest
      <4> QED BY <4>2, <4>3, <1>9
    <3>2. ASSUME NEW a \in 1 .. n + 1
          PROVE  dists'[r][a] = d[knn'[r][a]][r]
      <4>1. CASE a = n + 1
        BY <4>1, <1>4, <1>6, <1>7 DEF FoundSoFar
      <4>2. CASE a \in 1 .. n
        BY <4>2, <1>0, <1>6, <1>7 DEF NeighboursNearest
      <4> QED BY <4>1, <4>2, <1>9
    <3>3. ASSUME NEW j \in Slot, NEW a \in 1 .. n + 1,
                 j \notin {knn'[r][b] : b \in 1 .. n + 1}
          PROVE  dists'[r][a] <= d[j][r]
      <4>1. j \in inHeap'
        BY <3>3, <1>0, <1>3, <1>7, <1>12 DEF FoundSoFar
      <4>2. dists'[r][a] <= elems'[j]
        BY <4>1, <1>3, <1>7, <1>12 DEF FoundSoFar
      <4> QED BY <4>2, <1>2, <1>6 DEF FoundSoFar
    <3>4. DOMAIN knn'[r] = 1 .. n + 1 /\ d' = d
      BY <1>3, <1>7
    <3> HIDE DEF r, n
    <3>5. \A a, b \in DOMAIN knn'[i] : a < b =>
             knn'[i][a] # knn'[i][b] /\ dists'[i][a] <= dists'[i][b]
      BY <2>2, <3>1, <3>4
    <3>6. \A a \in DOMAIN knn'[i] : dists'[i][a] = d'[knn'[i][a]][i]
      BY <2>2, <3>2, <3>4
    <3>7. \A j \in Slot : \A a \in DOMAIN knn'[i] :
             j \notin {knn'[i][b] : b \in DOMAIN knn'[i]} =>
                dists'[i][a] <= d'[j][i]
      BY <2>2, <3>3, <3>4
    <3> QED BY <3>5, <3>6, <3>7
  <2> HIDE DEF r
  <2> QED BY <2>1, <2>2
<1>14. FindingInv'
  <2>1. \A i \in Slot : DOMAIN dists'[i] = DOMAIN knn'[i]
    BY <1>7, <1>8 DEF SearchInv, FindingInv
  <2>2. \A i \in Slot : i > r => knn'[i] = <<>> /\ dists'[i] = <<>>
    <3> SUFFICES ASSUME NEW i \in Slot, i > r PROVE knn'[i] = <<>> /\ dists'[i] = <<>>
      OBVIOUS
    <3>1. i # r
      BY <1>0, Types
    <3>2. knn[i] = <<>> /\ dists[i] = <<>>
      BY <1>0 DEF SearchInv, FindingInv
    <3> QED BY <3>1, <3>2, <1>8
  <2>3. search'.row = r /\ search'.in = "findKNN" /\ search'.started /\ r \in Slot
    BY <1>0, <1>3
  <2> HIDE DEF r
  <2> QED BY <2>3, <1>12, <1>13, <2>1, <2>2 DEF FindingInv, Finding
<1>15. SettlingInv'
  BY <1>0, <1>3 DEF SearchInv, SettlingInv, Settling
<1> QED BY <1>1, <1>5, <1>14, <1>15 DEF SearchInv

LEMMA RowDoneKeeps ==
    ASSUME SearchInv, RowDone
    PROVE  UNCHANGED heapVars /\ SearchInv'
<1> DEFINE r == search.row
<1>0. r \in Slot /\ search.in = "findKNN" /\ r < N
  BY Types DEF RowDone, In
<1>1. /\ UNCHANGED <<heapVars, d, caller, k, overrun, knn, dists, path, edges, distances>>
      /\ search' = [search EXCEPT !.row = r + 1, !.started = FALSE]
  BY DEF input, RowDone
<1>2. IInv' /\ inHeap' = inHeap
  <2>1. IInv'
    BY <1>1, StepsImplement DEF SearchInv
  <2> QED BY <1>1, <2>1 DEF heapVars, inHeap
<1>3. /\ search'.in = "findKNN" /\ search'.row = r + 1 /\ search'.started = FALSE
      /\ r + 1 \in 0 .. N
  <2>1. r + 1 \in 0 .. N
    BY <1>0, Types DEF Slot
  <2> QED BY <1>0, <1>1, <2>1, Types
<1>4. TypeOK'
  <2>1. search' \in [in : {"findKNN", "dijkstra", "done"}, row : 0 .. N, started : BOOLEAN]
    BY <1>1, <1>3, Types
  <2> QED BY <1>1, <1>2, <2>1, Types DEF TypeOK, IInv
<1>5. FindingInv'
  <2>1. \A i \in Slot : i > r => knn[i] = <<>> /\ dists[i] = <<>>
    BY <1>0 DEF SearchInv, FindingInv
  <2>2. \A i \in Slot : DOMAIN dists[i] = DOMAIN knn[i]
    BY DEF SearchInv, FindingInv
  <2>3. NeighboursNearest'
    BY <1>1 DEF SearchInv, FindingInv, NeighboursNearest
  <2>4. \A i \in Slot : i > r + 1 \/ i = r + 1 => i > r
    <3>1. r \in Int /\ \A i \in Slot : i \in Int
      BY <1>0, Types
    <3> HIDE DEF r
    <3> QED BY <3>1
  <2> HIDE DEF r
  <2> QED BY <1>1, <1>3, <2>1, <2>2, <2>3, <2>4 DEF FindingInv, Finding
<1>6. SettlingInv'
  BY <1>0, <1>1, <1>3 DEF SearchInv, SettlingInv, Settling
<1> QED BY <1>1, <1>2, <1>4, <1>5, <1>6 DEF SearchInv

LEMMA OverrunKeeps ==
    ASSUME SearchInv, Overrun
    PROVE  UNCHANGED heapVars /\ SearchInv'
<1>1. /\ UNCHANGED <<heapVars, d, caller, k, search, knn, dists, path, edges, distances>>
      /\ overrun' = TRUE
  BY DEF Overrun, input
<1>2. IInv'
  BY <1>1, StepsImplement DEF SearchInv
<1>3. inHeap' = inHeap /\ elems' = elems /\ extracted' = extracted
  BY <1>1 DEF heapVars, inHeap
<1>4. TypeOK'
  BY <1>1, <1>2 DEF SearchInv, TypeOK, IInv
<1>5. FindingInv'
  BY <1>1, <1>3 DEF SearchInv, FindingInv, Finding, FoundSoFar, NeighboursNearest
<1>6. SettlingInv'
  BY <1>1, <1>3 DEF SearchInv, SettlingInv, Settling
<1> QED BY <1>1, <1>2, <1>4, <1>5, <1>6 DEF SearchInv

LEMMA StartKeeps ==
    ASSUME SearchInv, Start
    PROVE  HeapNext /\ SearchInv'
<1> DEFINE r == search.row
<1>0. r \in Slot /\ search.in = "dijkstra" /\ ~search.started
  BY Types DEF Start, In
<1>1. /\ init(Infinity, r, 0)
      /\ path' = [i \in Slot |-> IF i = r THEN 0 ELSE Infinity]
      /\ search' = [search EXCEPT !.started = TRUE]
      /\ UNCHANGED <<d, caller, k, overrun, knn, dists, edges, distances>>
  BY DEF input, Start
<1>2. elems' = path' /\ path' \in [Slot -> Key]
  BY <1>1, Types DEF init
<1>3. \E i \in Slot : /\ elems'[r] <= elems'[i]
                      /\ init(elems'[i], r, elems'[r])
  <2>1. elems'[r] = 0
    BY <1>0, <1>1, <1>2
  <2>2. CASE \E i \in Slot : i # r
    <3>1. PICK i \in Slot : i # r
      BY <2>2
    <3>2. elems'[i] = Infinity
      BY <3>1, <1>1, <1>2
    <3>3. 0 <= Infinity
      BY HeapAssumption
    <3>4. init(elems'[i], r, elems'[r])
      BY <1>1, <2>1, <3>2 DEF init
    <3> QED BY <2>1, <3>2, <3>3, <3>4
  <2>3. CASE \A i \in Slot : i = r
    <3>1. elems' = [i \in Slot |-> IF i = r THEN elems'[r] ELSE elems'[r]]
      BY <1>1, <1>2, <2>1, <2>3
    <3>2. init(elems'[r], r, elems'[r])
      BY <1>1, <3>1 DEF init
    <3>3. elems'[r] <= elems'[r]
      BY <2>1
    <3> QED BY <1>0, <3>2, <3>3
  <2> QED BY <2>2, <2>3
<1>4. HeapNext /\ IInv' /\ inHeap' = Slot
  <2> HIDE DEF r
  <2>1. PICK i \in Slot : elems'[r] <= elems'[i] /\ init(elems'[i], r, elems'[r])
    BY <1>3
  <2>2. Queue!Fill
    BY <1>0, <1>2, <2>1, InitSteps DEF SearchInv
  <2>3. HeapNext
    BY <1>0, <1>2, <2>1 DEF HeapNext
  <2>4. IInv'
    BY <2>3, StepsImplement DEF SearchInv
  <2> QED BY <2>2, <2>3, <2>4, FillSeen
<1>5. search'.in = "dijkstra" /\ search'.started = TRUE /\ search'.row = r
  BY <1>0, <1>1, Types
<1>6. TypeOK'
  <2>1. search' \in [in : {"findKNN", "dijkstra", "done"}, row : 0 .. N, started : BOOLEAN]
    BY <1>1, Types
  <2> QED BY <1>1, <1>2, <1>4, <2>1, Types DEF TypeOK, IInv
<1>7. FindingInv'
  BY <1>1, <1>5 DEF SearchInv, FindingInv, Finding, NeighboursNearest
<1>8. SettlingInv'
  <2>1. edges' = {}
    BY <1>0, <1>1 DEF SearchInv, SettlingInv, Settling
  <2> QED BY <1>0, <1>2, <1>4, <1>5, <2>1 DEF SettlingInv, Settling
<1> QED BY <1>4, <1>6, <1>7, <1>8 DEF SearchInv

LEMMA NextNearestKeeps ==
    ASSUME SearchInv, NextNearest
    PROVE  HeapNext /\ SearchInv'
<1>0. search.in = "dijkstra" /\ search.started /\ search.row \in Slot
  BY Types DEF NextNearest, In
<1>1. HeapNext /\ IInv'
  <2>1. HeapNext
    BY DEF NextNearest, HeapNext
  <2> QED BY <2>1, StepsImplement DEF SearchInv
<1>2. PICK e \in inHeap :
         /\ e = heap2orig[0] /\ extracted' = e /\ inHeap' = inHeap \ {e}
         /\ elems' = elems /\ \A f \in inHeap : elems[e] <= elems[f]
  BY ExtractionSeen DEF SearchInv, NextNearest
<1>3. /\ UNCHANGED <<d, caller, k, overrun, search, knn, dists, path, distances>>
      /\ edges' \subseteq Slot
  BY DEF input, NextNearest, Neighbours
<1>4. TypeOK'
  BY <1>1, <1>3, Types DEF TypeOK, IInv
<1>5. FindingInv'
  BY <1>0, <1>3 DEF SearchInv, FindingInv, Finding, NeighboursNearest
<1>6. SettlingInv'
  <2>1. /\ \A v \in inHeap : elems[v] = path[v]
        /\ \A u \in Slot \ inHeap, v \in inHeap : path[u] <= path[v]
    BY <1>0 DEF SearchInv, SettlingInv, Settling
  <2>2. e \in Slot /\ path[e] \in Int /\ path[e] <= path[e]
    BY <1>2, Types
  <2>3. \A f \in inHeap : path[e] <= path[f]
    BY <1>2, <2>1
  <2>4. \A u \in Slot \ inHeap' : path[u] <= path[e]
    BY <1>2, <2>1, <2>2
  <2>5. \A u \in Slot \ inHeap', v \in inHeap' : path[u] <= path[v]
    BY <1>2, <2>1, <2>3
  <2> QED BY <1>0, <1>2, <1>3, <2>1, <2>2, <2>4, <2>5 DEF SettlingInv, Settling
<1> QED BY <1>1, <1>4, <1>5, <1>6 DEF SearchInv

\* A path along one more edge is no shorter.
LEMMA PlusGrows ==
    \A a, b \in Key : Plus(a, b) \in Key /\ a <= Plus(a, b)
BY HeapAssumption DEF Plus, Key

LEMMA RelaxKeeps ==
    ASSUME SearchInv, Relax
    PROVE  [HeapNext]_heapVars /\ SearchInv'
<1> DEFINE min == extracted
<1>0. search.in = "dijkstra" /\ search.started /\ search.row \in Slot
  BY Types DEF Relax, In
<1>1. PICK v \in edges :
         /\ edges' = edges \ {v}
         /\ LET tmp == Plus(path[min], d[min][v])
            IN  IF Shorter(tmp, path[v])
                THEN path' = [path EXCEPT ![v] = tmp] /\ changeOrigElement(v, tmp)
                ELSE UNCHANGED <<heapVars, path>>
  BY Zenon DEF input, Relax
<1>2. UNCHANGED <<d, caller, k, overrun, search, knn, dists, distances>>
  BY DEF input, Relax
<1>3. /\ v \in Slot /\ min \in Slot \ inHeap /\ path[v] \in Key /\ path[min] \in Key
      /\ \A u \in Slot \ inHeap : path[u] <= path[min]
      /\ \A u \in inHeap : elems[u] = path[u]
      /\ \A u \in Slot \ inHeap, w \in inHeap : path[u] <= path[w]
  BY <1>0, <1>1, Types DEF SearchInv, SettlingInv, Settling
<1>4. PICK tmp \in Key : tmp = Plus(path[min], d[min][v]) /\ path[min] <= tmp
  <2>1. d[min][v] \in Key
    BY <1>3, Types
  <2> QED BY <1>3, <2>1, PlusGrows
<1>5. FindingInv'
  BY <1>0, <1>2 DEF SearchInv, FindingInv, Finding, NeighboursNearest
<1> HIDE DEF min
<1>6. CASE Shorter(tmp, path[v])
  <2>1. path' = [path EXCEPT ![v] = tmp] /\ changeOrigElement(v, tmp)
    BY <1>1, <1>4, <1>6
  <2>2. tmp < path[v] /\ tmp \in Int /\ path[v] \in Int /\ path[min] \in Int
    BY <1>3, <1>6, Types DEF Shorter
  <2>3. v \in inHeap /\ elems[v] = path[v]
    <3>1. ~(path[v] <= path[min])
      BY <1>4, <2>2
    <3> QED BY <3>1, <1>3
  <2>4. elems' = [elems EXCEPT ![v] = tmp] /\ elems' \in [Slot -> Key] /\ elems'[v] = tmp
    BY <1>3, <2>1, Types DEF changeOrigElement
  <2>5. mayChange(v, tmp)
    <3>1. orig2heap[v] < nElements
      BY <1>3, <2>3, InHeap DEF SearchInv, IInv, placed
    <3>2. tmp <= elems[v]
      BY <2>2, <2>3
    <3> QED BY <3>1, <3>2 DEF mayChange
  <2>6. mayChange(v, elems'[v]) /\ changeOrigElement(v, elems'[v])
    <3>1. mayChange(v, elems'[v])
      BY <2>4, <2>5 DEF mayChange
    <3>2. changeOrigElement(v, elems'[v])
      BY <2>1, <2>4 DEF changeOrigElement
    <3> QED BY <3>1, <3>2
  <2>7. HeapNext /\ IInv'
    <3>1. HeapNext
      BY <1>3, <2>4, <2>6 DEF HeapNext
    <3> QED BY <3>1, StepsImplement DEF SearchInv
  <2>8. inHeap' = inHeap
    BY <1>3, <2>1, <2>4, <2>5, ChangeSeen DEF SearchInv
  <2>9. path' \in [Slot -> Key] /\ path'[v] = tmp /\ \A u \in Slot \ {v} : path'[u] = path[u]
    BY <1>3, <2>1, Types
  <2>10. TypeOK'
    <3>1. edges' \subseteq Slot
      BY <1>1, Types
    <3> QED BY <1>2, <2>7, <2>9, <3>1, Types DEF TypeOK, IInv
  <2>11. SettlingInv'
    <3>1. \A u \in inHeap : elems'[u] = path'[u]
      BY <1>3, <2>4, <2>9, Types
    <3>2. \A u \in Slot \ inHeap : path'[u] = path[u]
      BY <2>3, <2>9
    <3>3. \A u \in Slot \ inHeap, w \in inHeap : path'[u] <= path'[w]
      <4> SUFFICES ASSUME NEW u \in Slot \ inHeap, NEW w \in inHeap
                   PROVE  path[u] <= path'[w]
        BY <3>2
      <4>1. path[u] <= path[min] /\ path[u] <= path[w]
        BY <1>3
      <4>2. path[u] \in Int /\ path[min] \in Int
        BY <1>3, Types
      <4>3. CASE w = v
        BY <4>1, <4>2, <4>3, <1>4, <2>2, <2>9
      <4>4. CASE w # v
        BY <4>1, <4>4, <2>9, Types
      <4> QED BY <4>3, <4>4
    <3>4. extracted' = min
      BY <2>1 DEF changeOrigElement, min
    <3>5. \A u \in Slot \ inHeap : path'[u] <= path'[min]
      BY <1>3, <3>2
    <3> QED BY <1>0, <1>2, <1>3, <2>8, <3>1, <3>3, <3>4, <3>5 DEF SettlingInv, Settling
  <2> QED BY <1>5, <2>7, <2>10, <2>11 DEF SearchInv
<1>7. CASE ~Shorter(tmp, path[v])
  <2>1. UNCHANGED <<heapVars, path>>
    BY <1>1, <1>4, <1>7
  <2>2. IInv' /\ inHeap' = inHeap /\ elems' = elems /\ extracted' = extracted
    <3>1. IInv'
      BY <2>1, StepsImplement DEF SearchInv
    <3> QED BY <2>1, <3>1 DEF heapVars, inHeap
  <2>3. edges' \subseteq Slot
    BY <1>1, Types
  <2>4. TypeOK'
    BY <1>2, <2>1, <2>2, <2>3, Types DEF TypeOK, IInv
  <2>5. SettlingInv'
    BY <1>0, <1>2, <1>3, <2>1, <2>2 DEF SettlingInv, Settling, min
  <2> QED BY <1>5, <2>1, <2>2, <2>4, <2>5 DEF SearchInv
<1> QED BY <1>6, <1>7

LEMMA PathsDoneKeeps ==
    ASSUME SearchInv, PathsDone
    PROVE  UNCHANGED heapVars /\ SearchInv'
<1> DEFINE r == search.row
<1>0. r \in Slot /\ search.in = "dijkstra" /\ r < N /\ edges = {}
  BY Types DEF PathsDone, In
<1>1. /\ UNCHANGED <<heapVars, d, caller, k, overrun, knn, dists, path, edges>>
      /\ distances' = [distances EXCEPT ![r] = path]
      /\ search' = [search EXCEPT !.row = r + 1, !.started = FALSE]
  BY DEF input, PathsDone
<1>2. IInv'
  BY <1>1, StepsImplement DEF SearchInv
<1>3. search'.in = "dijkstra" /\ search'.started = FALSE /\ r + 1 \in 0 .. N
  <2>1. r + 1 \in 0 .. N
    BY <1>0, Types DEF Slot
  <2> QED BY <1>0, <1>1, <2>1, Types
<1>4. TypeOK'
  <2>1. search' \in [in : {"findKNN", "dijkstra", "done"}, row : 0 .. N, started : BOOLEAN]
    BY <1>1, <1>3, Types
  <2>2. distances' \in [Slot -> [Slot -> Key]]
    BY <1>0, <1>1, Types
  <2> QED BY <1>1, <1>2, <2>1, <2>2, Types DEF TypeOK, IInv
<1>5. FindingInv'
  BY <1>1, <1>3 DEF SearchInv, FindingInv, Finding, NeighboursNearest
<1>6. SettlingInv'
  BY <1>0, <1>1, <1>3 DEF SettlingInv, Settling
<1> QED BY <1>1, <1>2, <1>4, <1>5, <1>6 DEF SearchInv

LEMMA ReturnKeeps ==
    ASSUME SearchInv, Return
    PROVE  UNCHANGED heapVars /\ SearchInv'
<1>1. /\ UNCHANGED <<heapVars, d, caller, k, overrun, knn, dists, path, edges>>
      /\ search' = [search EXCEPT !.in = "done"]
      /\ search.in = "dijkstra" /\ search.row = N
  BY DEF input, Return
<1>2. IInv'
  BY <1>1, StepsImplement DEF SearchInv
<1>3. search'.in = "done"
  BY <1>1, Types
<1>4. TypeOK'
  <2>1. search' \in [in : {"findKNN", "dijkstra", "done"}, row : 0 .. N, started : BOOLEAN]
    BY <1>1, Types
  <2>2. distances' \in [Slot -> [Slot -> Key]]
    <3>1. ASSUME NEW i \in Slot, NEW j \in Slot
          PROVE  (IF i = j THEN 0
                  ELSE IF distances[i][j] < distances[j][i]
                       THEN distances[i][j] ELSE distances[j][i]) \in Key
      BY Types
    <3> QED BY <3>1 DEF input, Return
  <2> QED BY <1>1, <1>2, <2>1, <2>2, Types DEF TypeOK, IInv
<1>5. FindingInv'
  BY <1>1, <1>3 DEF SearchInv, FindingInv, Finding, NeighboursNearest
<1>6. edges = {}
  <2>1. ~Settling
    <3>1. N \notin Slot
      BY HeapAssumption DEF Slot
    <3> QED BY <3>1, <1>1 DEF SearchInv, SettlingInv
  <2> QED BY <2>1 DEF SearchInv, SettlingInv
<1>7. SettlingInv'
  BY <1>1, <1>3, <1>6 DEF SettlingInv, Settling
<1> QED BY <1>1, <1>2, <1>4, <1>5, <1>7 DEF SearchInv

LEMMA SearchInit == Init => SearchInv
<1> SUFFICES ASSUME Init PROVE SearchInv
  OBVIOUS
<1>1. IInv
  BY InvariantInit DEF Init
<1>2. /\ knn = [i \in Slot |-> <<>>] /\ dists = [i \in Slot |-> <<>>]
      /\ edges = {} /\ search.started = FALSE
      /\ search \in [in : {"findKNN", "dijkstra", "done"}, row : 0 .. N, started : BOOLEAN]
  <2>1. knn = [i \in Slot |-> <<>>] /\ dists = [i \in Slot |-> <<>>] /\ edges = {}
    BY DEF Init
  <2>2. \/ search = [in |-> "findKNN", row |-> 0, started |-> FALSE]
        \/ search = [in |-> "dijkstra", row |-> 0, started |-> FALSE]
    BY DEF Init
  <2>3. 0 \in 0 .. N /\ FALSE \in BOOLEAN
    BY HeapAssumption
  <2>4. search.started = FALSE
    BY <2>2
  <2>5. search \in [in : {"findKNN", "dijkstra", "done"}, row : 0 .. N, started : BOOLEAN]
    <3>1. ASSUME NEW b \in BOOLEAN, NEW r \in 0 .. N
          PROVE  /\ [in |-> "findKNN", row |-> r, started |-> b] \in
                       [in : {"findKNN", "dijkstra", "done"}, row : 0 .. N, started : BOOLEAN]
                 /\ [in |-> "dijkstra", row |-> r, started |-> b] \in
                       [in : {"findKNN", "dijkstra", "done"}, row : 0 .. N, started : BOOLEAN]
      OBVIOUS
    <3> QED BY <2>2, <2>3, <3>1
  <2> QED BY <2>1, <2>4, <2>5
<1>3. TypeOK
  <2>1. k \in Asked
    BY LengthsAssumption DEF Init
  <2>2. 0 \in Key
    BY HeapAssumption DEF Key
  <2>3. d \in [Slot -> [Slot -> Key]]
    BY LengthsAssumption DEF Init
  <2>4. knn \in [Slot -> Seq(Slot)] /\ dists \in [Slot -> Seq(Key)]
    BY <1>2
  <2> QED BY <1>1, <1>2, <2>1, <2>2, <2>3, <2>4 DEF TypeOK, IInv, Init
<1>4. FindingInv
  BY <1>2 DEF FindingInv, Finding, NeighboursNearest
<1>5. SettlingInv
  BY <1>2 DEF SettlingInv, Settling
<1> QED BY <1>1, <1>3, <1>4, <1>5 DEF SearchInv

LEMMA SearchSteps ==
    ASSUME SearchInv, [Next]_vars
    PROVE  [HeapNext]_heapVars /\ SearchInv'
<1>1. CASE UNCHANGED vars
  <2>1. UNCHANGED heapVars /\ UNCHANGED searchVars
    BY <1>1 DEF vars, searchVars
  <2>2. IInv'
    BY <2>1, StepsImplement DEF SearchInv
  <2>3. inHeap' = inHeap /\ elems' = elems /\ extracted' = extracted
    BY <2>1 DEF heapVars, inHeap
  <2>4. TypeOK'
    BY <2>1, <2>2 DEF SearchInv, TypeOK, IInv, searchVars
  <2>5. FindingInv'
    BY <2>1, <2>3 DEF SearchInv, FindingInv, Finding, FoundSoFar, NeighboursNearest, searchVars
  <2>6. SettlingInv'
    BY <2>1, <2>3 DEF SearchInv, SettlingInv, Settling, searchVars
  <2> QED BY <2>1, <2>2, <2>4, <2>5, <2>6 DEF SearchInv
<1>2. CASE Next
  BY <1>2, SiftsKeep, GatherKeeps, NextNeighbourKeeps, OverrunKeeps, RowDoneKeeps, StartKeeps,
     NextNearestKeeps, RelaxKeeps, PathsDoneKeeps, ReturnKeeps DEF Next
<1> QED BY <1>1, <1>2

\* The invariant is kept.
THEOREM SearchInvariant == Spec => []SearchInv
<1>1. SearchInv /\ [Next]_vars => SearchInv'
  BY SearchSteps
<1> QED BY <1>1, SearchInit, PTL DEF Spec

\* All arrays of the searches hold what they may, for all lengths (findKNN,
\* dijkstra, embedAdj).
THEOREM SearchTypes == Spec => []TypeOK
<1>1. SearchInv => TypeOK
  BY DEF SearchInv
<1> QED BY <1>1, SearchInvariant, PTL

\* Both searches use the heap as it may be used: dijkstra changes a key only of
\* an extremum that is in the heap, to a smaller one (relax).
THEOREM HeapUsedWell == Spec => UsesHeap
<1>1. SearchInv /\ [Next]_vars => [HeapNext]_heapVars
  BY SearchSteps
<1>2. Init => HeapInit
  BY DEF Init
<1> QED BY <1>1, <1>2, SearchInvariant, PTL DEF Spec, UsesHeap, HeapSpec

\* What findKNN returns are nearest neighbours, in order.
THEOREM NeighboursAreNearest == Spec => []NeighboursNearest
<1>1. SearchInv => NeighboursNearest
  BY DEF SearchInv, FindingInv
<1> QED BY <1>1, SearchInvariant, PTL

\* The two copies dijkstra keeps of the lengths agree.
THEOREM KeysStayPaths == Spec => []KeysArePaths
<1>1. SearchInv => KeysArePaths
  BY DEF SearchInv, SettlingInv, Settling, KeysArePaths
<1> QED BY <1>1, SearchInvariant, PTL

\* And so the heap is in order, and a priority queue, in both searches.
THEOREM HeapInOrderInSearches == Spec => [](IndicesInverse /\ HeapOrder) /\ ImplementsQueue
BY HeapUsedWell, StaysInverse, StaysInOrder, HeapIsQueue, PTL DEF UsesHeap

-----------------------------------------------------------------------------
(***************************************************************************)
(* The neighbours of a row and the elements left in its heap are always    *)
(* all the points, so that a heap runs empty when all are found and no     *)
(* earlier.                                                                *)
(***************************************************************************)
Counted ==
    /\ search.in = "findKNN" => caller \in {"NNMSComplex", "fetchKNeighbors"}
    /\ Finding => nElements = N - Len(knn[search.row])
    /\ EnoughNeighbours

LEMMA CountTypes ==
    ASSUME SearchInv
    PROVE  /\ N \in Nat /\ k \in Nat /\ nElements \in 0 .. N
           /\ \A i \in Slot : Len(knn[i]) \in Nat
<1>1. N \in Nat /\ k \in Nat
  BY HeapAssumption, LengthsAssumption, Types
<1>2. nElements \in 0 .. N
  BY DEF SearchInv, TypeOK, HeapTypeOK
<1>3. \A i \in Slot : Len(knn[i]) \in Nat
  BY Types, LenProperties
<1> QED BY <1>1, <1>2, <1>3

LEMMA CountInit == Init => Counted
<1> SUFFICES ASSUME Init PROVE Counted
  OBVIOUS
<1>1. /\ overrun = FALSE /\ search.row = 0 /\ search.started = FALSE
      /\ search.in = "findKNN" => caller \in {"NNMSComplex", "fetchKNeighbors"}
  BY DEF Init
<1>2. \A i \in Slot : ~(i < 0)
  BY HeapAssumption DEF Slot
<1> QED BY <1>1, <1>2 DEF Counted, EnoughNeighbours, Finding

LEMMA CountSteps ==
    ASSUME SearchInv, Counted, [Next]_vars PROVE Counted'
<1> DEFINE r == search.row
<1>0. /\ N \in Nat /\ k \in Nat /\ nElements \in 0 .. N
      /\ \A i \in Slot : Len(knn[i]) \in Nat
      /\ r \in 0 .. N /\ (r < N => r \in Slot)
      /\ Slot \subseteq Int
  BY CountTypes, Types
<1>1. CASE UNCHANGED vars
  BY <1>1 DEF vars, heapVars, Counted, EnoughNeighbours, Finding
<1>2. CASE Sifts
  <2>1. UNCHANGED searchVars /\ nElements' = nElements
    BY <1>2 DEF Sifts, input, heapify, changeElement, searchVars
  <2> QED BY <2>1 DEF searchVars, Counted, EnoughNeighbours, Finding
<1>3. CASE Gather
  <2>1. /\ search.in = "findKNN" /\ ~search.started /\ r \in Slot
        /\ UNCHANGED <<caller, k, overrun, knn>> /\ nElements' = N
        /\ search'.in = "findKNN" /\ search'.row = r
    BY <1>3, <1>0, Types DEF Gather, In, input, buildHeap
  <2>2. Len(knn[r]) = 0
    BY <2>1 DEF SearchInv, FindingInv
  <2>3. (nElements = N - Len(knn[search.row]))'
    BY <1>0, <2>1, <2>2
  <2> HIDE DEF r
  <2>4. EnoughNeighbours'
    BY <2>1 DEF Counted, EnoughNeighbours, r
  <2> QED BY <2>1, <2>3, <2>4 DEF Counted
<1>4. CASE NextNeighbour
  <2>1. /\ search.in = "findKNN" /\ search.started /\ r \in Slot
        /\ UNCHANGED <<caller, k, overrun, search>> /\ nElements' = nElements - 1
        /\ knn' = [knn EXCEPT ![r] = Append(knn[r], heap2orig[0])]
    BY <1>4, <1>0 DEF NextNeighbour, In, input, extractRoot
  <2>2. Len(knn'[r]) = Len(knn[r]) + 1
    BY <2>1, Types, AppendProperties
  <2>3. \A i \in Slot : i < r => knn'[i] = knn[i]
    BY <1>0, <2>1, Types
  <2> HIDE DEF r
  <2>4. nElements = N - Len(knn[r])
    BY <2>1 DEF Counted, Finding, r
  <2>5. nElements' = N - Len(knn'[r])
    <3>1. Len(knn[r]) \in Int /\ N \in Int
      BY <1>0, <2>1
    <3>2. nElements' = nElements - 1
      BY <2>1
    <3> DEFINE before == Len(knn[r])
               after == Len(knn'[r])
    <3>3. before \in Int /\ after = before + 1 /\ nElements = N - before
      BY <2>2, <2>4, <3>1
    <3> HIDE DEF before, after
    <3>4. nElements' = N - after
      BY <3>1, <3>2, <3>3
    <3> QED BY <3>4 DEF after
  <2>6. search'.row = r
    BY <2>1 DEF r
  <2>7. ~overrun \/ (caller = "fetchKNeighbors" /\ k > N)
    BY DEF Counted, EnoughNeighbours
  <2>8. EnoughNeighbours'
    BY <2>1, <2>3 DEF Counted, EnoughNeighbours, r
  <2> QED BY <2>1, <2>5, <2>6, <2>8 DEF Counted
<1>5. CASE Overrun
  <2>1. /\ search.in = "findKNN" /\ search.started /\ r \in Slot
        /\ UNCHANGED <<caller, k, search, knn, nElements>>
        /\ nElements = 0 /\ Len(knn[r]) < Columns
    BY <1>5, <1>0 DEF Overrun, In, input, heapVars
  <2>2. Len(knn[r]) = N
    BY <1>0, <2>1 DEF Counted, Finding
  <2>3. caller = "fetchKNeighbors" /\ k > N
    BY <1>0, <2>1, <2>2 DEF Columns, Counted
  <2> QED BY <2>1, <2>3 DEF Counted, EnoughNeighbours, Finding
<1>6. CASE RowDone
  <2>1. /\ search.in = "findKNN" /\ search.started /\ r \in Slot
        /\ UNCHANGED <<caller, k, overrun, knn>> /\ Len(knn[r]) = Columns
        /\ search'.in = "findKNN" /\ search'.row = r + 1 /\ search'.started = FALSE
    BY <1>6, <1>0, Types DEF RowDone, In, input
  <2>2. nElements = N - Len(knn[r])
    BY <2>1 DEF Counted, Finding
  <2>3. Len(knn[r]) = IF k > N THEN N ELSE k
    BY <1>0, <2>1, <2>2 DEF Columns
  <2>4. \A i \in Slot : i < r + 1 => i < r \/ i = r
    BY <1>0
  <2> HIDE DEF r
  <2>5. \A i \in Slot : i < r => Len(knn[i]) = IF k > N THEN N ELSE k
    BY <2>1 DEF Counted, EnoughNeighbours, r
  <2> QED BY <2>1, <2>3, <2>4, <2>5 DEF Counted, EnoughNeighbours, Finding
<1>7. CASE Start \/ NextNearest \/ Relax \/ PathsDone \/ Return
  <2>1. /\ search.in = "dijkstra" /\ search'.in # "findKNN"
        /\ UNCHANGED <<caller, k, overrun>>
    BY <1>7, Types DEF Start, NextNearest, Relax, PathsDone, Return, In, input
  <2> QED BY <2>1 DEF Counted, EnoughNeighbours, Finding
<1> QED BY <1>1, <1>2, <1>3, <1>4, <1>5, <1>6, <1>7 DEF Next

\* NNMSComplex never asks an empty heap for a neighbour, nor does anybody who asks
\* for no more than there are points, for any number of points and any lengths.
THEOREM NeighboursAreEnough == Spec => []EnoughNeighbours
<1>1. SearchInv /\ Counted /\ [Next]_vars => Counted'
  BY CountSteps
<1>2. Counted => EnoughNeighbours
  BY DEF Counted
<1> QED BY <1>1, <1>2, CountInit, SearchInvariant, PTL DEF Spec

-----------------------------------------------------------------------------
(***************************************************************************)
(* Lengths of paths.                                                       *)
(***************************************************************************)
Row == [Slot -> Key]

\* Of the natural numbers in a set that is not empty one is the first.
LEMMA First ==
    ASSUME NEW S \in SUBSET Nat, S # {}
    PROVE  \E m \in S : \A i \in Nat : i < m => i \notin S
<1> DEFINE R == {ss \in Nat \X Nat : ss[1] < ss[2]}
<1>1. IsWellFoundedOn(R, Nat)
  BY NatLessThanWellFounded DEF OpToRel
<1>2. \E m \in S : \A i \in S : ~(<<i, m>> \in R)
  <2> HIDE DEF R
  <2> QED BY <1>1, WFMin, Zenon
<1>3. PICK m \in S : \A i \in S : ~(<<i, m>> \in R)
  BY <1>2
<1>4. ASSUME NEW i \in Nat, i < m PROVE i \notin S
  <2>1. <<i, m>> \in R
    BY <1>4
  <2> QED BY <1>3, <2>1
<1> QED BY <1>4

\* A set of keys that is not empty has a least one.
LEMMA LeastKey ==
    ASSUME NEW S \in SUBSET Key, S # {}
    PROVE  Min(S) \in S /\ \A x \in S : Min(S) <= x
<1>1. S \in SUBSET Nat
  BY HeapAssumption DEF Key
<1>2. PICK m \in S : \A i \in Nat : i < m => i \notin S
  BY <1>1, First
<1>3. ASSUME NEW x \in S PROVE m <= x
  BY <1>1, <1>2
<1> QED BY <1>3 DEF Min

\* The rows that follow from a first one, as far as one likes.
LEMMA Iterates ==
    ASSUME NEW R, NEW first \in R, NEW next \in [R -> R], NEW n \in Nat
    PROVE  \E g \in [0 .. n -> R] :
              g = [m \in 0 .. n |-> IF m = 0 THEN first ELSE next[g[m - 1]]]
<1> DEFINE Fits(g, m) == /\ g \in [0 .. m -> R]
                         /\ g = [i \in 0 .. m |-> IF i = 0 THEN first ELSE next[g[i - 1]]]
           Bad == {m \in Nat : ~\E g : Fits(g, m)}
<1>1. Bad = {}
  <2> SUFFICES ASSUME Bad # {} PROVE FALSE
    OBVIOUS
  <2>1. PICK m \in Bad : \A i \in Nat : i < m => i \notin Bad
    <3>1. Bad \in SUBSET Nat
      OBVIOUS
    <3> HIDE DEF Bad
    <3> QED BY <3>1, First
  <2>2. m \in Nat /\ \A i \in Nat : i < m => i \notin Bad
    BY <2>1
  <2>3. CASE m = 0
    <3>1. Fits([i \in 0 .. 0 |-> first], 0)
      OBVIOUS
    <3> QED BY <2>3, <3>1
  <2>4. CASE m > 0
    <3>1. m - 1 \in Nat /\ m - 1 \notin Bad
      BY <2>2, <2>4
    <3>2. PICK g : Fits(g, m - 1)
      BY <3>1
    <3> DEFINE h == [i \in 0 .. m |-> IF i = m THEN next[g[m - 1]] ELSE g[i]]
    <3>3. /\ g \in [0 .. m - 1 -> R]
          /\ \A i \in 0 .. m - 1 : g[i] = IF i = 0 THEN first ELSE next[g[i - 1]]
      BY <3>2
    <3>4. next[g[m - 1]] \in R
      BY <2>2, <2>4, <3>3
    <3>5. h \in [0 .. m -> R]
      BY <2>2, <3>3, <3>4
    <3>6. ASSUME NEW i \in 0 .. m
          PROVE  h[i] = IF i = 0 THEN first ELSE next[h[i - 1]]
      <4>1. CASE i = m
        BY <4>1, <2>2, <2>4
      <4>2. CASE i # m
        <5>1. i \in 0 .. m - 1 /\ (i # 0 => i - 1 \in 0 .. m - 1)
          BY <4>2, <2>2
        <5>2. h[i] = g[i] /\ (i # 0 => h[i - 1] = g[i - 1])
          BY <2>2, <4>2, <5>1
        <5> HIDE DEF h
        <5> QED BY <3>3, <5>1, <5>2
      <4> QED BY <4>1, <4>2
    <3>7. Fits(h, m)
      <4> HIDE DEF h
      <4> QED BY <3>5, <3>6
    <3> QED BY <3>7
  <2> QED BY <2>2, <2>3, <2>4
<1> QED BY <1>1

LEMMA Sums ==
    /\ \A a, b \in Key : /\ Plus(a, b) \in Key /\ Plus(a, b) = Plus(b, a)
                         /\ Plus(a, 0) = a /\ Plus(0, a) = a /\ a <= Infinity
                         /\ Plus(a, Infinity) = Infinity /\ Plus(Infinity, a) = Infinity
    /\ \A a, b, c \in Key : /\ a <= b => Plus(a, c) <= Plus(b, c)
                            /\ Plus(Plus(a, b), c) = Plus(a, Plus(b, c))
BY HeapAssumption DEF Plus, Key

\* The lengths in a matrix to be searched.
LEMMA Matrix ==
    ASSUME d \in Lengths
    PROVE  /\ \A i, j \in Slot : d[i][j] \in Key /\ d[i][j] = d[j][i]
           /\ \A i \in Slot : d[i][i] = 0
BY LengthsAssumption

\* Within is what its definition says: there is a function like that.
LEMMA WithinRows ==
    ASSUME d \in Lengths, NEW s \in Slot
    PROVE  /\ \A m \in 0 .. N - 1 : Within(s)[m] \in Row
           /\ Within(s)[0] = [v \in Slot |-> IF v = s THEN 0 ELSE Infinity]
           /\ \A m \in 0 .. N - 2 : Within(s)[m + 1] =
                [v \in Slot |-> Min({Plus(Within(s)[m][u], d[u][v]) : u \in Slot})]
<1> DEFINE first == [v \in Slot |-> IF v = s THEN 0 ELSE Infinity]
           after(row) == [v \in Slot |-> Min({Plus(row[u], d[u][v]) : u \in Slot})]
           next == [row \in Row |-> after(row)]
           E(f) == [m \in 0 .. N - 1 |-> IF m = 0 THEN first ELSE after(f[m - 1])]
<1>1. first \in Row
  BY HeapAssumption DEF Row, Key
<1>2. ASSUME NEW row \in Row PROVE after(row) \in Row
  <2>1. ASSUME NEW v \in Slot
        PROVE  Min({Plus(row[u], d[u][v]) : u \in Slot}) \in Key
    <3> DEFINE S == {Plus(row[u], d[u][v]) : u \in Slot}
    <3>1. S \in SUBSET Key
      <4> SUFFICES ASSUME NEW u \in Slot PROVE Plus(row[u], d[u][v]) \in Key
        OBVIOUS
      <4>1. row[u] \in Key /\ d[u][v] \in Key
        BY <2>1, Matrix DEF Row
      <4> QED BY <4>1, Sums
    <3>2. S # {}
      BY <2>1
    <3> HIDE DEF S
    <3>3. Min(S) \in Key
      BY <3>1, <3>2, LeastKey
    <3> QED BY <3>3 DEF S
  <2> QED BY <2>1 DEF Row
<1>3. next \in [Row -> Row]
  BY <1>2
<1>4. N - 1 \in Nat
  BY HeapAssumption
<1>5. PICK g \in [0 .. N - 1 -> Row] :
         g = [m \in 0 .. N - 1 |-> IF m = 0 THEN first ELSE next[g[m - 1]]]
  <2> DEFINE n == N - 1
  <2>1. n \in Nat
    BY <1>4
  <2> HIDE DEF first, next, n
  <2>2. \E g \in [0 .. n -> Row] :
           g = [m \in 0 .. n |-> IF m = 0 THEN first ELSE next[g[m - 1]]]
    BY <1>1, <1>3, <2>1, Iterates
  <2> QED BY <2>2 DEF n
<1>6. g = E(g)
  <2>1. ASSUME NEW m \in 0 .. N - 1, m # 0
        PROVE  next[g[m - 1]] = after(g[m - 1])
    <3>1. m - 1 \in 0 .. N - 1
      BY <1>4, <2>1
    <3>2. g[m - 1] \in Row
      BY <3>1
    <3> QED BY <3>2
  <2> HIDE DEF first, next, after
  <2> QED BY <1>5, <2>1
<1>7. Within(s) = CHOOSE f : f = E(f)
  BY DEF Within
<1>8. Within(s) = E(Within(s))
  <2> HIDE DEF E
  <2> QED BY <1>6, <1>7
<1> DEFINE W == Within(s)
<1>9. W[0] = first /\ \A m \in 1 .. N - 1 : W[m] = after(W[m - 1])
  <2> HIDE DEF first, after, W
  <2>1. \A m \in 0 .. N - 1 : W[m] = IF m = 0 THEN first ELSE after(W[m - 1])
    BY <1>8 DEF W
  <2> QED BY <1>4, <2>1
<1>10. \A m \in 0 .. N - 1 : W[m] \in Row
  <2> DEFINE Bad == {m \in 0 .. N - 1 : W[m] \notin Row}
  <2> SUFFICES ASSUME Bad # {} PROVE FALSE
    OBVIOUS
  <2>1. PICK m \in Bad : \A i \in Nat : i < m => i \notin Bad
    <3>1. Bad \in SUBSET Nat
      BY <1>4
    <3> HIDE DEF Bad
    <3> QED BY <3>1, First
  <2>2. m \in 0 .. N - 1 /\ \A i \in 0 .. N - 1 : i < m => W[i] \in Row
    <3> HIDE DEF W
    <3> QED BY <1>4, <2>1
  <2> HIDE DEF first, after, W
  <2>3. m # 0
    BY <1>1, <1>9, <2>1
  <2>4. m \in 1 .. N - 1 /\ m - 1 \in 0 .. N - 1 /\ m - 1 < m
    BY <1>4, <2>2, <2>3
  <2> QED BY <1>2, <1>9, <2>1, <2>2, <2>4
<1>11. \A m \in 0 .. N - 2 : W[m + 1] = after(W[m])
  <2> SUFFICES ASSUME NEW m \in 0 .. N - 2 PROVE W[m + 1] = after(W[m])
    OBVIOUS
  <2>1. m + 1 \in 1 .. N - 1 /\ (m + 1) - 1 = m
    <3>1. N \in Nat /\ m \in 0 .. N - 2
      BY HeapAssumption
    <3> QED BY <3>1
  <2> HIDE DEF after, W
  <2> QED BY <1>9, <2>1
<1> QED BY <1>9, <1>10, <1>11

\* A path of one more edge ends with some edge, and is no longer than by any.
LEMMA WithinSteps ==
    ASSUME d \in Lengths, NEW s \in Slot, NEW m \in 0 .. N - 2, NEW v \in Slot
    PROVE  /\ Within(s)[m][v] \in Key /\ Within(s)[m + 1][v] \in Key
           /\ \A u \in Slot : Within(s)[m + 1][v] <= Plus(Within(s)[m][u], d[u][v])
           /\ \E u \in Slot : Within(s)[m + 1][v] = Plus(Within(s)[m][u], d[u][v])
           /\ Within(s)[m + 1][v] <= Within(s)[m][v]
<1> DEFINE W == Within(s)
           S == {Plus(W[m][u], d[u][v]) : u \in Slot}
<1>0. m \in 0 .. N - 1 /\ m + 1 \in 1 .. N - 1 /\ m + 1 \in 0 .. N - 1 /\ (m + 1) - 1 = m
  BY HeapAssumption
<1>1. W[m] \in Row /\ W[m + 1] \in Row
  BY <1>0, WithinRows
<1>2. W[m + 1][v] = Min(S)
  <2>1. W[m + 1] = [w \in Slot |-> Min({Plus(W[m][u], d[u][w]) : u \in Slot})]
    BY WithinRows
  <2> QED BY <2>1
<1>3. S \in SUBSET Key /\ S # {}
  <2>1. ASSUME NEW u \in Slot PROVE Plus(W[m][u], d[u][v]) \in Key
    <3>1. W[m][u] \in Key /\ d[u][v] \in Key
      BY <1>1, Matrix DEF Row
    <3> QED BY <3>1, Sums
  <2> QED BY <2>1
<1>4. Min(S) \in S /\ \A x \in S : Min(S) <= x
  <2> HIDE DEF S
  <2> QED BY <1>3, LeastKey
<1>5. /\ \A u \in Slot : W[m + 1][v] <= Plus(W[m][u], d[u][v])
      /\ \E u \in Slot : W[m + 1][v] = Plus(W[m][u], d[u][v])
  <2> HIDE DEF W
  <2> QED BY <1>2, <1>4
<1>6. W[m][v] \in Key /\ W[m + 1][v] \in Key
  BY <1>1 DEF Row
<1>7. W[m + 1][v] <= W[m][v]
  <2>1. Plus(W[m][v], d[v][v]) = W[m][v]
    BY <1>6, Matrix, Sums
  <2> QED BY <1>5, <2>1
<1> QED BY <1>5, <1>6, <1>7

\* No edge makes a row any shorter.
Relaxed(row) == \A u, v \in Slot : row[v] <= Plus(row[u], d[u][v])

\* A row that starts at 0 and that no edge makes shorter is of paths no longer
\* than any there are.
LEMMA NoShorter ==
    ASSUME d \in Lengths, NEW s \in Slot, NEW row \in Row, row[s] = 0, Relaxed(row)
    PROVE  \A m \in 0 .. N - 1 : \A v \in Slot : row[v] <= Within(s)[m][v]
<1> DEFINE W == Within(s)
           Bad == {m \in 0 .. N - 1 : ~\A v \in Slot : row[v] <= W[m][v]}
<1> SUFFICES ASSUME Bad # {} PROVE FALSE
  OBVIOUS
<1>0. N - 1 \in Nat
  BY HeapAssumption
<1>1. PICK m \in Bad : \A i \in Nat : i < m => i \notin Bad
  <2>1. Bad \in SUBSET Nat
    BY <1>0
  <2> HIDE DEF Bad
  <2> QED BY <2>1, First
<1>2. m \in 0 .. N - 1 /\ \A i \in 0 .. N - 1 : i < m => i \notin Bad
  BY <1>0, <1>1
<1>3. PICK v \in Slot : ~(row[v] <= W[m][v])
  BY <1>1
<1>4. CASE m = 0
  <2>1. W[0] = [w \in Slot |-> IF w = s THEN 0 ELSE Infinity]
    BY WithinRows
  <2>2. W[0][v] = IF v = s THEN 0 ELSE Infinity
    BY <2>1
  <2>3. row[v] \in Key /\ row[v] <= Infinity
    BY Sums DEF Row
  <2> QED BY <1>3, <1>4, <2>2, <2>3 DEF Key
<1>5. CASE m # 0
  <2>1. m - 1 \in 0 .. N - 2 /\ m - 1 \in 0 .. N - 1 /\ m - 1 < m /\ (m - 1) + 1 = m
    <3>1. N \in Nat /\ m \in 0 .. N - 1 /\ m # 0
      BY HeapAssumption, <1>2, <1>5
    <3> QED BY <3>1
  <2>2. PICK u \in Slot : W[m][v] = Plus(W[m - 1][u], d[u][v])
    <3> DEFINE n == m - 1
    <3>1. n \in 0 .. N - 2 /\ n + 1 = m
      BY <2>1
    <3> HIDE DEF n
    <3>2. \E u \in Slot : W[n + 1][v] = Plus(W[n][u], d[u][v])
      BY <3>1, WithinSteps
    <3> QED BY <3>1, <3>2 DEF n
  <2>3. row[u] <= W[m - 1][u]
    BY <1>2, <2>1
  <2>4. row[v] <= Plus(row[u], d[u][v])
    BY DEF Relaxed
  <2>5. /\ row[u] \in Key /\ row[v] \in Key /\ d[u][v] \in Key /\ W[m - 1][u] \in Key
    BY <2>1, WithinSteps, Matrix DEF Row
  <2>6. Plus(row[u], d[u][v]) <= Plus(W[m - 1][u], d[u][v])
    BY <2>3, <2>5, Sums
  <2>7. /\ Plus(row[u], d[u][v]) \in Int /\ Plus(W[m - 1][u], d[u][v]) \in Int
        /\ row[v] \in Int
    <3>1. Plus(row[u], d[u][v]) \in Key /\ Plus(W[m - 1][u], d[u][v]) \in Key
      BY <2>5, Sums
    <3> QED BY <2>5, <3>1 DEF Key
  <2> HIDE DEF W
  <2> QED BY <1>3, <2>2, <2>4, <2>6, <2>7
<1> QED BY <1>4, <1>5

\* Going back the way from v to x is no shorter than what the row has.
LEMMA BackAndForth ==
    ASSUME d \in Lengths, NEW v \in Slot, NEW row \in Row, Relaxed(row)
    PROVE  \A m \in 0 .. N - 1 : \A x \in Slot : row[v] <= Plus(Within(v)[m][x], row[x])
<1> DEFINE W == Within(v)
           Bad == {m \in 0 .. N - 1 : ~\A x \in Slot : row[v] <= Plus(W[m][x], row[x])}
<1> SUFFICES ASSUME Bad # {} PROVE FALSE
  OBVIOUS
<1>0. N - 1 \in Nat
  BY HeapAssumption
<1>1. PICK m \in Bad : \A i \in Nat : i < m => i \notin Bad
  <2>1. Bad \in SUBSET Nat
    BY <1>0
  <2> HIDE DEF Bad
  <2> QED BY <2>1, First
<1>2. m \in 0 .. N - 1 /\ \A i \in 0 .. N - 1 : i < m => i \notin Bad
  BY <1>0, <1>1
<1>3. PICK x \in Slot : ~(row[v] <= Plus(W[m][x], row[x]))
  BY <1>1
<1>4. row[v] \in Key /\ row[x] \in Key
  BY DEF Row
<1>5. CASE m = 0
  <2>1. W[0] = [w \in Slot |-> IF w = v THEN 0 ELSE Infinity]
    BY WithinRows
  <2>2. W[0][x] = IF x = v THEN 0 ELSE Infinity
    BY <2>1
  <2>3. Plus(W[0][x], row[x]) = IF x = v THEN row[v] ELSE Infinity
    BY <1>4, <2>2, Sums
  <2>4. row[v] <= Infinity /\ row[v] <= row[v]
    BY <1>4, Sums DEF Key
  <2> QED BY <1>3, <1>5, <2>3, <2>4
<1>6. CASE m # 0
  <2>1. m - 1 \in 0 .. N - 2 /\ m - 1 \in 0 .. N - 1 /\ m - 1 < m /\ (m - 1) + 1 = m
    <3>1. N \in Nat /\ m \in 0 .. N - 1 /\ m # 0
      BY HeapAssumption, <1>2, <1>6
    <3> QED BY <3>1
  <2>2. PICK u \in Slot : W[m][x] = Plus(W[m - 1][u], d[u][x])
    <3> DEFINE n == m - 1
    <3>1. n \in 0 .. N - 2 /\ n + 1 = m
      BY <2>1
    <3> HIDE DEF n
    <3>2. \E u \in Slot : W[n + 1][x] = Plus(W[n][u], d[u][x])
      <4> HIDE DEF Bad
      <4> QED BY <3>1, WithinSteps, Zenon
    <3> QED BY <3>1, <3>2 DEF n
  <2>3. row[v] <= Plus(W[m - 1][u], row[u])
    BY <1>2, <2>1
  <2>4. row[u] <= Plus(row[x], d[x][u])
    BY DEF Relaxed
  <2> DEFINE w == W[m - 1][u]
             e == d[u][x]
  <2>5. row[u] \in Key /\ w \in Key /\ e \in Key /\ d[x][u] = e
    BY <2>1, WithinSteps, Matrix DEF Row
  <2> HIDE DEF w, e
  <2>6. Plus(w, row[u]) <= Plus(w, Plus(e, row[x]))
    <3>1. Plus(row[x], e) \in Key /\ Plus(row[x], e) = Plus(e, row[x])
      BY <1>4, <2>5, Sums
    <3>2. Plus(row[u], w) <= Plus(Plus(e, row[x]), w)
      BY <2>4, <2>5, <3>1, Sums
    <3> QED BY <2>5, <3>1, <3>2, Sums
  <2>7. Plus(w, Plus(e, row[x])) = Plus(Plus(w, e), row[x])
    <3>1. \A a, b, c \in Key : Plus(Plus(a, b), c) = Plus(a, Plus(b, c))
      BY Sums
    <3> QED BY <1>4, <2>5, <3>1, ZenonT(30)
  <2>8. /\ Plus(w, row[u]) \in Int /\ Plus(Plus(w, e), row[x]) \in Int
        /\ row[v] \in Int
    <3>1. Plus(w, row[u]) \in Key /\ Plus(Plus(w, e), row[x]) \in Key
      BY <1>4, <2>5, Sums
    <3> QED BY <1>4, <3>1 DEF Key
  <2>9. row[v] <= Plus(Plus(w, e), row[x])
    BY <2>3, <2>6, <2>7, <2>8 DEF w
  <2> QED BY <1>3, <2>2, <2>9 DEF w, e
<1> QED BY <1>5, <1>6

\* Rows of shortest paths, which no edge makes shorter, are symmetric.
LEMMA Symmetric ==
    ASSUME d \in Lengths,
           \A s \in Slot : Shortest(s)[s] = 0 /\ Relaxed(Shortest(s))
    PROVE  \A s, v \in Slot : Shortest(s)[v] = Shortest(v)[s]
<1>0. N - 1 \in 0 .. N - 1
  BY HeapAssumption
<1>1. \A s \in Slot : Shortest(s) \in Row
  BY <1>0, WithinRows DEF Shortest
<1>2. ASSUME NEW s \in Slot, NEW v \in Slot
      PROVE  Shortest(s)[v] <= Shortest(v)[s]
  <2>1. Shortest(s)[v] <= Plus(Within(v)[N - 1][s], Shortest(s)[s])
    BY <1>0, <1>1, BackAndForth
  <2>2. Within(v)[N - 1][s] \in Key /\ Shortest(s)[s] = 0
    BY <1>1 DEF Shortest, Row
  <2>3. Plus(Within(v)[N - 1][s], Shortest(s)[s]) = Shortest(v)[s]
    BY <2>2, Sums DEF Shortest
  <2> QED BY <2>1, <2>3
<1>3. \A s, v \in Slot : Shortest(s)[v] \in Int
  BY <1>1 DEF Row, Key
<1> QED BY <1>2, <1>3

-----------------------------------------------------------------------------
(***************************************************************************)
(* What dijkstra has found when some extrema are settled.  A path of the   *)
(* search has no more edges than there are settled extrema, so that it is  *)
(* no shorter than the shortest of that many; and when all are settled no  *)
(* edge makes any path shorter.                                            *)
(***************************************************************************)
MostEdges == IF nElements = 0 THEN N - 1 ELSE N - nElements

PathsSoFar ==
    LET W == Within(search.row)
    IN  /\ path[search.row] = 0
        /\ \A v \in Slot : W[MostEdges][v] <= path[v]
        /\ edges # {} => /\ nElements < N
                         /\ W[(N - nElements) - 1][extracted] <= path[extracted]
        /\ \A u \in Slot \ inHeap, v \in Slot :
              (u = extracted /\ v \in edges) \/ path[v] <= Plus(path[u], d[u][v])

RowsShortest ==
    search.in # "findKNN" =>
        \A s \in Slot : s < search.row => distances[s] = Shortest(s)

RowsRelaxed ==
    search.in = "dijkstra" =>
        \A s \in Slot : s < search.row =>
            distances[s][s] = 0 /\ Relaxed(distances[s])

PathsInv ==
    /\ d \in Lengths
    /\ RowsShortest /\ RowsRelaxed
    /\ Settling => PathsSoFar

\* The lengths are those of the matrix, which stays.
LEMMA WithinStays ==
    ASSUME d' = d
    PROVE  \A s : Within(s)' = Within(s) /\ Shortest(s)' = Shortest(s)
BY DEF Within, Shortest

LEMMA PathsInit == Init => PathsInv
<1> SUFFICES ASSUME Init PROVE PathsInv
  OBVIOUS
<1>1. search.row = 0 /\ search.started = FALSE /\ d \in Lengths
  BY DEF Init
<1>2. \A s \in Slot : ~(s < 0)
  BY HeapAssumption DEF Slot
<1> QED BY <1>1, <1>2 DEF PathsInv, RowsShortest, RowsRelaxed, Settling

\* What has been completed is left alone.
LEMMA RowsKept ==
    ASSUME PathsInv, UNCHANGED <<d, distances>>, search'.row = search.row,
           search'.in = search.in
    PROVE  d' \in Lengths /\ RowsShortest' /\ RowsRelaxed'
BY WithinStays DEF PathsInv, RowsShortest, RowsRelaxed, Relaxed

LEMMA SiftsKeepPaths ==
    ASSUME SearchInv, PathsInv, Sifts PROVE PathsInv'
<1>1. UNCHANGED searchVars /\ inHeap' = inHeap /\ elems' = elems /\ extracted' = extracted
  BY SiftSeen DEF input, SearchInv, Sifts, searchVars
<1>2. nElements' = nElements
  BY DEF Sifts, heapify, changeElement
<1>3. d' \in Lengths /\ RowsShortest' /\ RowsRelaxed'
  BY <1>1, RowsKept DEF searchVars
<1>4. Settling => PathsSoFar'
  BY <1>1, <1>2, WithinStays DEF PathsInv, PathsSoFar, MostEdges, searchVars
<1> QED BY <1>1, <1>3, <1>4 DEF PathsInv, Settling, searchVars

LEMMA FindingKeepsPaths ==
    ASSUME SearchInv, PathsInv, Gather \/ NextNeighbour \/ Overrun \/ RowDone
    PROVE  PathsInv'
<1>1. /\ search.in = "findKNN" /\ search'.in = "findKNN" /\ d' = d
  BY Types DEF input, Gather, NextNeighbour, Overrun, RowDone, In
<1> QED BY <1>1 DEF PathsInv, RowsShortest, RowsRelaxed, Settling

LEMMA StartKeepsPaths ==
    ASSUME SearchInv, PathsInv, Start PROVE PathsInv'
<1> DEFINE r == search.row
<1>0. r \in Slot /\ N \in Nat /\ N > 0 /\ N - 1 \in 0 .. N - 1 /\ 0 \in 0 .. N - 1
  BY Types, HeapAssumption, SMTT(30) DEF input, Start, In
<1>1. /\ path' = [i \in Slot |-> IF i = r THEN 0 ELSE Infinity]
      /\ nElements' = N /\ search'.row = r /\ search'.in = search.in
      /\ UNCHANGED <<d, edges, distances>>
  BY Types DEF input, Start, init
<1>2. edges = {} /\ inHeap' = Slot
  <2>1. edges = {}
    BY DEF SearchInv, SettlingInv, Settling, Start, In
  <2>2. IInv'
    BY StartKeeps DEF SearchInv
  <2>3. \A i \in Slot : orig2heap'[i] \in Slot /\ heap2orig'[orig2heap'[i]] = i
    BY <2>2 DEF IInv, HeapTypeOK, IndicesInverse
  <2>4. Slot \subseteq inHeap'
    BY <1>1, <2>3 DEF inHeap, Slot
  <2>5. inHeap' \subseteq Slot
    BY <1>1, <2>2 DEF inHeap, IInv, HeapTypeOK, Slot
  <2> QED BY <2>1, <2>4, <2>5
<1>3. d' \in Lengths /\ RowsShortest' /\ RowsRelaxed'
  BY <1>1, RowsKept
<1>4. PathsSoFar'
  <2>1. MostEdges' = 0
    BY <1>0, <1>1 DEF MostEdges
  <2>2. \A v \in Slot : Within(r)[0][v] = path'[v]
    BY <1>0, <1>1, WithinRows DEF PathsInv
  <2>3. \A v \in Slot : path'[v] \in Int
    BY <1>1, HeapAssumption
  <2>4. \A v \in Slot : Within(r)[0][v] <= path'[v]
    BY <2>2, <2>3
  <2> HIDE DEF r
  <2> QED BY <1>0, <1>1, <1>2, <2>1, <2>4, WithinStays DEF PathsSoFar
<1> QED BY <1>3, <1>4 DEF PathsInv

\* What dijkstra knows of its paths, one number at a time.
LEMMA SettlingTypes ==
    ASSUME SearchInv, PathsInv, Settling
    PROVE  /\ search.row \in Slot /\ PathsSoFar
           /\ N \in Nat /\ N > 0 /\ nElements \in 0 .. N
           /\ MostEdges \in 0 .. N - 1
           /\ nElements > 0 => MostEdges = N - nElements
           /\ path \in Row
           /\ \A v \in inHeap : nElements > 0
           /\ d \in Lengths
<1>1. N \in Nat /\ N > 0 /\ nElements \in 0 .. N
  BY HeapAssumption DEF SearchInv, TypeOK, HeapTypeOK
<1>2. MostEdges \in 0 .. N - 1 /\ (nElements > 0 => MostEdges = N - nElements)
  BY <1>1 DEF MostEdges
<1>3. \A v \in inHeap : nElements > 0
  BY <1>1 DEF inHeap
<1> QED BY <1>1, <1>2, <1>3, Types DEF SearchInv, SettlingInv, PathsInv, Row

LEMMA NextNearestKeepsPaths ==
    ASSUME SearchInv, PathsInv, NextNearest PROVE PathsInv'
<1> DEFINE r == search.row
           W == Within(r)
           j == N - nElements
<1>0. Settling /\ edges = {}
  BY DEF NextNearest, In, Settling
<1>1. PICK e \in inHeap :
         /\ e = heap2orig[0] /\ extracted' = e /\ inHeap' = inHeap \ {e}
  BY ExtractionSeen DEF SearchInv, NextNearest
<1>2. /\ UNCHANGED <<d, search, path, distances>> /\ nElements' = nElements - 1
      /\ edges' = {v \in Slot \ {e} : d[e][v] # Infinity}
  BY <1>1 DEF input, NextNearest, extractRoot, Neighbours
<1>3. /\ e \in Slot /\ r \in Slot /\ PathsSoFar /\ path \in Row /\ d \in Lengths
      /\ N \in Nat /\ nElements \in 1 .. N /\ MostEdges = j /\ j \in 0 .. N - 1
  <2>1. nElements > 0 /\ nElements \in 0 .. N /\ N \in Nat
    BY <1>0, <1>1, SettlingTypes
  <2>2. nElements \in 1 .. N /\ j \in 0 .. N - 1
    BY <2>1
  <2>3. MostEdges = j
    BY <1>0, <2>1, SettlingTypes
  <2>4. e \in Slot
    BY <1>1, Types
  <2> QED BY <1>0, <2>1, <2>2, <2>3, <2>4, SettlingTypes
<1>4. \A v \in Slot : W[j][v] <= path[v]
  BY <1>3 DEF PathsSoFar
<1>5. \A v \in Slot : W[MostEdges'][v] <= path[v]
  <2>1. CASE nElements' = 0
    <3>1. MostEdges' = N - 1 /\ N - 1 = j
      BY <1>2, <1>3, <2>1 DEF MostEdges
    <3> QED BY <1>4, <3>1
  <2>2. CASE nElements' # 0
    <3>1. MostEdges' = N - nElements' /\ N - nElements' = j + 1 /\ j \in 0 .. N - 2
      BY <1>2, <1>3, <2>2 DEF MostEdges
    <3> SUFFICES ASSUME NEW v \in Slot PROVE W[j + 1][v] <= path[v]
      BY <3>1
    <3> HIDE DEF j
    <3>2. W[j][v] \in Key /\ W[j + 1][v] \in Key /\ W[j + 1][v] <= W[j][v]
      BY <1>3, <3>1, WithinSteps
    <3>3. W[j][v] <= path[v] /\ path[v] \in Key
      BY <1>3, <1>4 DEF Row
    <3> HIDE DEF W
    <3> QED BY <3>2, <3>3 DEF Key
  <2> QED BY <2>1, <2>2
<1>6. nElements' < N /\ W[(N - nElements') - 1][e] <= path[e]
  <2>1. (N - nElements') - 1 = j /\ nElements' < N
    BY <1>2, <1>3
  <2> HIDE DEF W, j
  <2> QED BY <1>3, <1>4, <2>1
<1>7. ASSUME NEW u \in Slot \ inHeap', NEW v \in Slot
      PROVE  (u = e /\ v \in edges') \/ path[v] <= Plus(path[u], d[u][v])
  <2>1. CASE u # e
    <3>1. u \in Slot \ inHeap
      BY <1>1, <2>1
    <3> QED BY <1>0, <1>3, <3>1 DEF PathsSoFar
  <2>2. CASE u = e /\ v \notin edges'
    <3>1. v = e \/ d[e][v] = Infinity
      BY <1>2, <2>2
    <3>2. path[e] \in Key /\ path[v] \in Key
      BY <1>3 DEF Row
    <3>3. CASE v = e
      <4>1. Plus(path[e], d[e][e]) = path[e]
        BY <1>3, <3>2, Matrix, Sums
      <4> QED BY <2>2, <3>2, <3>3, <4>1 DEF Key
    <3>4. CASE d[e][v] = Infinity
      BY <2>2, <3>2, <3>4, Sums
    <3> QED BY <3>1, <3>3, <3>4
  <2> QED BY <2>1, <2>2
<1>8. PathsSoFar'
  <2>1. path[r] = 0
    BY <1>3 DEF PathsSoFar
  <2>2. Within(search.row)' = W
    BY <1>2, WithinStays
  <2> HIDE DEF W, j
  <2> QED BY <1>1, <1>2, <1>5, <1>6, <1>7, <2>1, <2>2 DEF PathsSoFar
<1>9. d' \in Lengths /\ RowsShortest' /\ RowsRelaxed'
  BY <1>2, RowsKept
<1> QED BY <1>8, <1>9 DEF PathsInv

LEMMA RelaxKeepsPaths ==
    ASSUME SearchInv, PathsInv, Relax PROVE PathsInv'
<1> DEFINE r == search.row
           W == Within(r)
           min == extracted
<1>0. Settling
  BY DEF Relax, In, Settling
<1>1. PICK v \in edges :
         /\ edges' = edges \ {v}
         /\ LET tmp == Plus(path[min], d[min][v])
            IN  IF Shorter(tmp, path[v])
                THEN path' = [path EXCEPT ![v] = tmp] /\ changeOrigElement(v, tmp)
                ELSE UNCHANGED <<heapVars, path>>
  BY Zenon DEF input, Relax
<1> DEFINE tmp == Plus(path[min], d[min][v])
<1>2. UNCHANGED <<d, search, distances>>
  BY DEF input, Relax
<1>3. /\ r \in Slot /\ v \in Slot /\ min \in Slot \ inHeap /\ path \in Row /\ d \in Lengths
      /\ \A u \in Slot \ inHeap : path[u] <= path[min]
      /\ N \in Nat /\ MostEdges \in 0 .. N - 1 /\ nElements \in 0 .. N /\ PathsSoFar
      /\ nElements < N
  BY <1>0, <1>1, Types, SettlingTypes DEF SearchInv, SettlingInv, PathsSoFar
<1>4. UNCHANGED <<heap2orig, nElements, extracted>> /\ inHeap' = inHeap
  <2>1. UNCHANGED <<heap2orig, nElements, extracted>>
    BY <1>1 DEF changeOrigElement, heapVars
  <2> QED BY <2>1 DEF inHeap
<1>5. /\ path[v] \in Key /\ path[min] \in Key /\ d[min][v] \in Key /\ tmp \in Key
      /\ path[min] <= tmp
  <2>1. path[v] \in Key /\ path[min] \in Key /\ d[min][v] \in Key
    BY <1>3, Matrix DEF Row
  <2> QED BY <2>1, PlusGrows
<1>6. d' \in Lengths /\ RowsShortest' /\ RowsRelaxed'
  BY <1>2, RowsKept
<1>7. \/ path' = path /\ path[v] <= tmp
      \/ /\ tmp < path[v] /\ v \in inHeap /\ path' = [path EXCEPT ![v] = tmp]
  <2> HIDE DEF tmp
  <2>1. CASE tmp < path[v]
    <3>1. path' = [path EXCEPT ![v] = tmp]
      BY <1>1, <2>1 DEF Shorter, tmp
    <3>2. v \in inHeap
      <4>1. ~(path[v] <= path[min])
        BY <1>5, <2>1 DEF Key
      <4> QED BY <1>3, <4>1
    <3> QED BY <2>1, <3>1, <3>2
  <2>2. CASE ~(tmp < path[v])
    <3>1. path' = path
      BY <1>1, <2>2 DEF Shorter, tmp
    <3> QED BY <1>5, <2>2, <3>1 DEF Key
  <2> QED BY <2>1, <2>2
<1>8. \A u \in Slot : path'[u] \in Key /\ path'[u] <= path[u]
  <2> HIDE DEF tmp, min
  <2> QED BY <1>3, <1>5, <1>7 DEF Row, Key
<1>9. \A u \in Slot \ inHeap : path'[u] = path[u]
  <2> HIDE DEF tmp
  <2> QED BY <1>3, <1>7 DEF Row
<1>10. path'[v] <= tmp
  <2> HIDE DEF tmp
  <2> QED BY <1>3, <1>5, <1>7 DEF Row, Key
<1>11. path'[r] = 0
  <2>1. path[r] = 0
    BY <1>3 DEF PathsSoFar
  <2>2. path'[r] \in Key /\ path'[r] <= 0
    BY <1>3, <1>8, <2>1
  <2> QED BY <2>2 DEF Key
<1>12. \A u \in Slot : W[MostEdges][u] <= path'[u]
  <2>1. \A u \in Slot : W[MostEdges][u] <= path[u]
    BY <1>3 DEF PathsSoFar
  <2>2. CASE path' = path
    BY <2>1, <2>2
  <2>3. CASE tmp < path[v] /\ v \in inHeap /\ path' = [path EXCEPT ![v] = tmp]
    <3> DEFINE m == (N - nElements) - 1
    <3>1. nElements > 0 /\ m \in 0 .. N - 2 /\ m + 1 = MostEdges
      <4>1. nElements > 0 /\ MostEdges = N - nElements
        BY <1>0, <2>3, SettlingTypes
      <4> QED BY <1>3, <4>1
    <3>2. W[m][min] <= path[min]
      BY <1>1, <1>3 DEF PathsSoFar
    <3> HIDE DEF m
    <3>3. /\ W[m][min] \in Key /\ W[m + 1][v] \in Key
          /\ W[m + 1][v] <= Plus(W[m][min], d[min][v])
      <4>1. min \in Slot
        BY <1>3
      <4> HIDE DEF min
      <4> QED BY <1>3, <3>1, <4>1, WithinSteps
    <3> HIDE DEF W, min
    <3>4. Plus(W[m][min], d[min][v]) <= tmp
      BY <1>5, <3>2, <3>3, Sums
    <3>5. W[m + 1][v] <= tmp
      <4>1. Plus(W[m][min], d[min][v]) \in Key
        BY <1>5, <3>3, Sums
      <4> HIDE DEF tmp
      <4> QED BY <1>5, <3>3, <3>4, <4>1 DEF Key
    <3> HIDE DEF tmp
    <3> QED BY <1>3, <2>1, <2>3, <3>1, <3>5 DEF Row
  <2> HIDE DEF tmp, W
  <2> QED BY <1>7, <2>2, <2>3
<1>13. edges' # {} => /\ nElements < N
                      /\ W[(N - nElements) - 1][min] <= path'[min]
  BY <1>1, <1>3, <1>9 DEF PathsSoFar
<1>14. ASSUME NEW u \in Slot \ inHeap, NEW w \in Slot
       PROVE  (u = min /\ w \in edges') \/ path'[w] <= Plus(path'[u], d[u][w])
  <2>1. path'[u] = path[u] /\ path'[w] <= path[w]
    BY <1>8, <1>9
  <2>2. CASE u = min /\ w = v
    BY <1>10, <2>1, <2>2
  <2>3. CASE path[w] <= Plus(path[u], d[u][w])
    <3>1. path'[w] \in Key /\ path[w] \in Key /\ Plus(path[u], d[u][w]) \in Key
      <4>1. path[u] \in Key /\ path[w] \in Key /\ d[u][w] \in Key
        BY <1>3, Matrix DEF Row
      <4> QED BY <1>8, <4>1, Sums
    <3> QED BY <2>1, <2>3, <3>1 DEF Key
  <2>4. (u = min /\ w \in edges) \/ path[w] <= Plus(path[u], d[u][w])
    BY <1>3 DEF PathsSoFar
  <2> QED BY <1>1, <2>2, <2>3, <2>4
<1>15. PathsSoFar'
  <2>1. Within(search.row)' = W /\ MostEdges' = MostEdges
    BY <1>2, <1>4, WithinStays DEF MostEdges
  <2> HIDE DEF W
  <2> QED BY <1>2, <1>4, <1>11, <1>12, <1>13, <1>14, <2>1 DEF PathsSoFar
<1> QED BY <1>6, <1>15 DEF PathsInv

LEMMA PathsDoneKeepsPaths ==
    ASSUME SearchInv, PathsInv, PathsDone PROVE PathsInv'
<1> DEFINE r == search.row
<1>0. Settling /\ edges = {} /\ nElements = 0
  BY DEF PathsDone, In, Settling
<1>1. /\ d' = d /\ distances' = [distances EXCEPT ![r] = path]
      /\ search' = [search EXCEPT !.row = r + 1, !.started = FALSE]
  BY DEF input, PathsDone
<1>2. /\ r \in Slot /\ PathsSoFar /\ path \in Row /\ d \in Lengths /\ MostEdges = N - 1
      /\ N - 1 \in 0 .. N - 1
  BY <1>0, SettlingTypes, HeapAssumption DEF MostEdges
<1>3. path[r] = 0 /\ Relaxed(path)
  <2>1. inHeap = {}
    BY <1>0, SettlingTypes
  <2> QED BY <1>0, <1>2, <2>1 DEF PathsSoFar, Relaxed
<1>4. path = Shortest(r)
  <2>1. Shortest(r) \in Row
    BY <1>2, WithinRows DEF Shortest
  <2>2. ASSUME NEW v \in Slot PROVE path[v] = Shortest(r)[v]
    <3>1. path[v] <= Shortest(r)[v]
      BY <1>2, <1>3, NoShorter DEF Shortest
    <3>2. Shortest(r)[v] <= path[v]
      BY <1>2 DEF PathsSoFar, Shortest
    <3> QED BY <1>2, <2>1, <3>1, <3>2 DEF Row, Key
  <2> QED BY <1>2, <2>1, <2>2 DEF Row
<1>5. /\ search'.in = search.in /\ search'.row = r + 1 /\ search'.started = FALSE
      /\ search.in = "dijkstra"
  BY <1>1, Types DEF input, PathsDone, In
<1>6. ASSUME NEW s \in Slot, s < r + 1
      PROVE  (s < r /\ distances'[s] = distances[s]) \/ (s = r /\ distances'[s] = path)
  <2>1. s \in Int /\ r \in Int
    BY <1>2, Types
  <2> HIDE DEF r
  <2> QED BY <1>1, <1>2, <1>6, <2>1, Types
<1>7. RowsShortest'
  <2> HIDE DEF r
  <2> QED BY <1>1, <1>4, <1>5, <1>6, WithinStays DEF PathsInv, RowsShortest, r
<1>8. RowsRelaxed'
  <2> HIDE DEF r
  <2> QED BY <1>1, <1>3, <1>5, <1>6 DEF PathsInv, RowsRelaxed, Relaxed, r
<1> QED BY <1>1, <1>2, <1>5, <1>7, <1>8 DEF PathsInv, Settling

LEMMA ReturnKeepsPaths ==
    ASSUME SearchInv, PathsInv, Return PROVE PathsInv'
<1>1. /\ d' = d /\ search.in = "dijkstra" /\ search.row = N
      /\ search' = [search EXCEPT !.in = "done"]
      /\ distances' = [i \in Slot |-> [j \in Slot |->
                         IF i = j THEN 0
                         ELSE IF distances[i][j] < distances[j][i]
                              THEN distances[i][j] ELSE distances[j][i]]]
  BY DEF input, Return
<1>2. search'.in = "done" /\ search'.row = N
  BY <1>1, Types
<1>3. \A s \in Slot : s < N
  BY HeapAssumption DEF Slot
<1>4. ASSUME NEW s \in Slot
      PROVE  /\ distances[s] = Shortest(s) /\ Shortest(s) \in Row
             /\ Shortest(s)[s] = 0 /\ Relaxed(Shortest(s))
  <2>1. distances[s] = Shortest(s) /\ distances[s][s] = 0 /\ Relaxed(distances[s])
    BY <1>1, <1>3 DEF PathsInv, RowsShortest, RowsRelaxed
  <2> QED BY <2>1, Types DEF Row
<1>5. \A s, v \in Slot : Shortest(s)[v] = Shortest(v)[s]
  BY <1>4, Symmetric DEF PathsInv
<1>6. ASSUME NEW s \in Slot PROVE distances'[s] = Shortest(s)
  <2>1. ASSUME NEW v \in Slot PROVE distances'[s][v] = Shortest(s)[v]
    BY <1>1, <1>4, <1>5
  <2>2. distances'[s] \in [Slot -> {distances'[s][v] : v \in Slot}]
    BY <1>1
  <2> QED BY <1>4, <2>1, <2>2 DEF Row
<1>7. RowsShortest' /\ RowsRelaxed'
  BY <1>1, <1>2, <1>6, WithinStays DEF RowsShortest, RowsRelaxed
<1> QED BY <1>1, <1>2, <1>7 DEF PathsInv, Settling

LEMMA PathsSteps ==
    ASSUME SearchInv, PathsInv, [Next]_vars
    PROVE  PathsInv'
<1>1. CASE UNCHANGED vars
  <2>1. UNCHANGED heapVars /\ UNCHANGED searchVars
    BY <1>1 DEF vars, searchVars
  <2>2. inHeap' = inHeap /\ extracted' = extracted /\ nElements' = nElements
    BY <2>1 DEF heapVars, inHeap
  <2>3. d' \in Lengths /\ RowsShortest' /\ RowsRelaxed'
    BY <2>1, RowsKept DEF searchVars
  <2>4. Settling => PathsSoFar'
    BY <2>1, <2>2, WithinStays DEF PathsInv, PathsSoFar, MostEdges, searchVars
  <2> QED BY <2>1, <2>3, <2>4 DEF PathsInv, Settling, searchVars
<1>2. CASE Next
  BY <1>2, SiftsKeepPaths, FindingKeepsPaths, StartKeepsPaths, NextNearestKeepsPaths,
     RelaxKeepsPaths, PathsDoneKeepsPaths, ReturnKeepsPaths DEF Next
<1> QED BY <1>1, <1>2

\* dijkstra returns the lengths of the shortest paths, for any matrix of lengths
\* and any number of extrema, and embedAdj loses none of them when it makes the
\* matrix symmetric.
THEOREM PathsAreShortest == Spec => []PathsShortest
<1>1. SearchInv /\ PathsInv /\ [Next]_vars => PathsInv'
  BY PathsSteps
<1>2. SearchInv /\ PathsInv => PathsShortest
  <2> SUFFICES ASSUME SearchInv, PathsInv, search.in # "findKNN",
                      NEW s \in 0 .. search.row - 1
               PROVE  distances[s] = Shortest(s)
    BY DEF PathsShortest
  <2>1. search.row \in 0 .. N /\ N \in Nat
    BY Types
  <2>2. s \in Slot /\ s < search.row
    BY <2>1 DEF Slot
  <2> QED BY <2>2 DEF PathsInv, RowsShortest
<1> QED BY <1>1, <1>2, PathsInit, SearchInvariant, PTL DEF Spec
=============================================================================
