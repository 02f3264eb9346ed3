------------------------------ MODULE Searches ------------------------------
(***************************************************************************)
(* The searches that use the heap: the nearest neighbours over which the   *)
(* Morse-Smale complex is computed, or that a client asks to see (findKNN  *)
(* and computeKNN of Distance.h, called by NNMSComplex and by              *)
(* Controller::fetchKNeighbors), and the shortest paths over the graph of  *)
(* extrema for the layout of a level (all_pairs_dijkstra of                *)
(* GraphAlgorithms.h, called by Isomap::embedAdj from HDProcessor).        *)
(*                                                                         *)
(* The points of the one and the extrema of the other are the slots of a   *)
(* heap.  The lengths are integers; Infinity absorbs what is added to it,  *)
(* as the largest double does, and means of the graph that there is no     *)
(* edge.                                                                   *)
(***************************************************************************)
EXTENDS MinHeap, Sequences, FiniteSetsExt

CONSTANTS
    Lengths,   \* the matrices to be searched, [Slot -> [Slot -> Key]]
    Asked      \* the numbers of neighbours asked for

ASSUME LengthsAssumption ==
    /\ Asked \subseteq Nat /\ Asked # {}
    /\ Lengths \subseteq [Slot -> [Slot -> Key]]
    /\ \A m \in Lengths, i, j \in Slot : m[i][j] = m[j][i] /\ m[i][i] = 0

VARIABLES
    d,          \* the matrix searched
    caller,     \* who asked for the search
    k,          \* the number of neighbours asked for
    overrun,    \* was an empty heap asked for an element?
    search,     \* the search under way, and how far it is
    knn, dists, \* per point, its neighbours and their distances
    path,       \* path.d: the lengths of the paths from one extremum
    edges,      \* the extrema next to min that are not relaxed yet
    distances   \* the rows of path lengths that are complete

input == <<d, caller, k>>
vars == <<heapVars, d, caller, k, overrun, search, knn, dists, path, edges, distances>>

Neighbours(i) == {j \in Slot \ {i} : d[i][j] # Infinity}

\* Mutant: the lengths are ints, and the largest of them overflows.
PlusWrapped(a, b) == IF a + b <= Infinity THEN a + b ELSE a + b - 2 * Infinity

Plus(a, b) == IF a + b < Infinity THEN a + b ELSE Infinity

\* Mutant: as many columns as asked for.
ColumnsAsked == k

\* NNMSComplex asks for no more neighbours than there are samples;
\* fetchKNeighbors for as many as its client does
Columns == IF caller = "NNMSComplex" /\ k > N THEN N ELSE k

TypeOK ==
    /\ HeapTypeOK
    /\ d \in [Slot -> [Slot -> Key]] /\ k \in Asked
    /\ caller \in {"NNMSComplex", "fetchKNeighbors", "embedAdj"}
    /\ overrun \in BOOLEAN
    /\ search \in [in : {"findKNN", "dijkstra", "done"}, row : 0 .. N,
                   started : BOOLEAN]
    /\ knn \in [Slot -> Seq(Slot)] /\ dists \in [Slot -> Seq(Key)]
    /\ path \in [Slot -> Key] /\ edges \subseteq Slot
    /\ distances \in [Slot -> [Slot -> Key]]

Init ==
    /\ HeapInit
    /\ d \in Lengths /\ overrun = FALSE
    /\ \/ /\ k \in Asked /\ caller \in {"NNMSComplex", "fetchKNeighbors"}
          /\ search = [in |-> "findKNN", row |-> 0, started |-> FALSE]
       \/ /\ k = (CHOOSE a \in Asked : TRUE) /\ caller = "embedAdj"
          /\ search = [in |-> "dijkstra", row |-> 0, started |-> FALSE]
    /\ knn = [i \in Slot |-> <<>>] /\ dists = [i \in Slot |-> <<>>]
    /\ path = [i \in Slot |-> 0] /\ edges = {}
    /\ distances = [i \in Slot |-> [j \in Slot |-> 0]]

\* the heap's own steps
Sifts ==
    /\ heapify \/ changeElement
    /\ UNCHANGED <<input, overrun, search, knn, dists, path, edges, distances>>

In(name, started) == search.in = name /\ search.row < N /\ search.started = started

-----------------------------------------------------------------------------
(***************************************************************************)
(* Distance::findKNN                                                       *)
(***************************************************************************)
\* the distances to a point are copied into a heap
Gather ==
    /\ In("findKNN", FALSE)
    /\ buildHeap([j \in Slot |-> d[j][search.row]])
    /\ search' = [search EXCEPT !.started = TRUE]
    /\ UNCHANGED <<input, overrun, knn, dists, path, edges, distances>>

NextNeighbour ==
    /\ In("findKNN", TRUE) /\ Len(knn[search.row]) < Columns
    /\ extractRoot
    /\ knn' = [knn EXCEPT ![search.row] = Append(@, heap2orig[0])]
    /\ dists' = [dists EXCEPT ![search.row] = Append(@, elems[heap2orig[0]])]
    /\ UNCHANGED <<input, overrun, search, path, edges, distances>>

\* The heap is empty and asked all the same: places before its arrays are
\* exchanged.  What the build makes of that is not followed here.
Overrun ==
    /\ In("findKNN", TRUE) /\ Len(knn[search.row]) < Columns
    /\ sift = Idle /\ nElements = 0 /\ ~overrun
    /\ overrun' = TRUE
    /\ UNCHANGED <<heapVars, input, search, knn, dists, path, edges, distances>>

RowDone ==
    /\ In("findKNN", TRUE) /\ sift = Idle /\ Len(knn[search.row]) = Columns
    /\ search' = [search EXCEPT !.row = @ + 1, !.started = FALSE]
    /\ UNCHANGED <<heapVars, input, overrun, knn, dists, path, edges, distances>>

-----------------------------------------------------------------------------
(***************************************************************************)
(* GraphAlgorithms::all_pairs_dijkstra and Isomap::embedAdj                *)
(***************************************************************************)
Start ==
    /\ In("dijkstra", FALSE)
    /\ init(Infinity, search.row, 0)
    /\ path' = [i \in Slot |-> IF i = search.row THEN 0 ELSE Infinity]
    /\ search' = [search EXCEPT !.started = TRUE]
    /\ UNCHANGED <<input, overrun, knn, dists, edges, distances>>

NextNearest ==
    /\ In("dijkstra", TRUE) /\ edges = {}
    /\ extractRoot
    /\ edges' = Neighbours(heap2orig[0])
    /\ UNCHANGED <<input, overrun, search, knn, dists, path, distances>>

\* Mutant: a path of the same length is taken as well.
ShorterOrSame(a, b) == a <= b

Shorter(a, b) == a < b

\* Mutant: the heap is not told of the shorter path.
RelaxPathOnly ==
    /\ In("dijkstra", TRUE) /\ sift = Idle
    /\ \E v \in edges :
         /\ \A w \in edges : v <= w
         /\ edges' = edges \ {v}
         /\ LET tmp == Plus(path[extracted], d[extracted][v])
            IN  path' = [path EXCEPT ![v] = IF Shorter(tmp, @) THEN tmp ELSE @]
    /\ UNCHANGED <<heapVars, input, overrun, search, knn, dists, distances>>

\* one edge of min, in the order of the map that holds them
Relax ==
    /\ In("dijkstra", TRUE) /\ sift = Idle
    /\ \E v \in edges :
         /\ \A w \in edges : v <= w
         /\ edges' = edges \ {v}
         /\ LET min == extracted
                tmp == Plus(path[min], d[min][v])
            IN  IF Shorter(tmp, path[v])
                THEN /\ path' = [path EXCEPT ![v] = tmp]
                     /\ changeOrigElement(v, tmp)
                ELSE UNCHANGED <<heapVars, path>>
    /\ UNCHANGED <<input, overrun, search, knn, dists, distances>>

PathsDone ==
    /\ In("dijkstra", TRUE) /\ sift = Idle /\ edges = {} /\ nElements = 0
    /\ distances' = [distances EXCEPT ![search.row] = path]
    /\ search' = [search EXCEPT !.row = @ + 1, !.started = FALSE]
    /\ UNCHANGED <<heapVars, input, overrun, knn, dists, path, edges>>

\* embedAdj makes the matrix symmetric, the diagonal zero
Return ==
    /\ search.in = "dijkstra" /\ search.row = N
    /\ distances' = [i \in Slot |-> [j \in Slot |->
                       IF i = j THEN 0
                       ELSE IF distances[i][j] < distances[j][i]
                            THEN distances[i][j] ELSE distances[j][i]]]
    /\ search' = [search EXCEPT !.in = "done"]
    /\ UNCHANGED <<heapVars, input, overrun, knn, dists, path, edges>>

Next ==
    \/ Sifts
    \/ Gather \/ NextNeighbour \/ Overrun \/ RowDone
    \/ Start \/ NextNearest \/ Relax \/ PathsDone \/ Return

Spec == Init /\ [][Next]_vars /\ WF_vars(Next)

-----------------------------------------------------------------------------
\* Each operation of the heap is used as it may be, up to an overrun: dijkstra
\* changes the key only of an extremum that is still in the heap, and only to a
\* smaller one - no path that was settled is found to be longer than another
\* (relax).
UsesHeap == HeapSpec

\* The neighbours of a point are different points, ordered by distance, and none
\* that is left out is nearer than the last of them, with ties and points of
\* distance zero as well (findKNN).
NeighboursNearest ==
    \A i \in Slot :
        /\ \A a, b \in DOMAIN knn[i] :
              a < b => knn[i][a] # knn[i][b] /\ dists[i][a] <= dists[i][b]
        /\ \A a \in DOMAIN knn[i] : dists[i][a] = d[knn[i][a]][i]
        /\ \A j \in Slot : \A a \in DOMAIN knn[i] :
              j \notin {knn[i][b] : b \in DOMAIN knn[i]} => dists[i][a] <= d[j][i]

\* The keys in the heap are the lengths of the paths found so far: the two copies
\* that dijkstra keeps of them agree whenever it looks at either.
KeysArePaths ==
    search.in = "dijkstra" /\ search.started =>
        \A v \in inHeap : elems[v] = path[v]

\* For NNMSComplex, and whenever no more neighbours are asked for than there are
\* points, no heap runs empty before its row is full, and each point gets as many
\* neighbours as asked for, or all points; only a client's own number can ask an
\* empty heap for more (findKNN, NNMSComplex, fetchKNeighbors).
EnoughNeighbours ==
    /\ overrun => caller = "fetchKNeighbors" /\ k > N
    /\ search.in = "findKNN" =>
          \A i \in Slot : i < search.row => Len(knn[i]) = IF k > N THEN N ELSE k

\* the lengths of the shortest paths from s of at most m edges
Within(s) ==
    LET within[m \in 0 .. N - 1] ==
            IF m = 0 THEN [v \in Slot |-> IF v = s THEN 0 ELSE Infinity]
            ELSE LET fewer == within[m - 1]
                 IN  [v \in Slot |-> Min({Plus(fewer[u], d[u][v]) : u \in Slot})]
    IN  within
Shortest(s) == Within(s)[N - 1]

\* Whenever a row is complete, the rows so far are the lengths of the shortest
\* paths there are, and an extremum out of reach is at Infinity (dijkstra,
\* embedAdj).
PathsShortest ==
    search.in # "findKNN" /\ ~search.started =>
        \A s \in 0 .. search.row - 1 : distances[s] = Shortest(s)

\* Both searches end, unless an empty heap is asked for an element: no sift goes
\* round, every extraction leaves one element less, and a relaxation, which puts
\* an extremum nearer to the root, brings none back.
SearchesEnd == <>(overrun \/ (search.row = N /\ search.in # "dijkstra"))
=============================================================================
