--------------------------- MODULE MCHDProcessor ---------------------------
(***************************************************************************)
(* Six samples around a ring, and the fields that take six values on them. *)
(* A ring has up to three maxima, each the neighbour of both others, so    *)
(* that pairs are postponed, and discarded when merged by way of a third.  *)
(* The neighbour lists are those of knn = 2 (each sample knows one of its  *)
(* two nearest; the lists join up to a ring or leave one gap) and knn = 3. *)
(***************************************************************************)
EXTENDS HDProcessor

MCSample == 0 .. 5
Values == {1, 2, 4, 8, 16, 32}
MCField ==
    {f \in [MCSample -> Values] :
        /\ \A i, j \in MCSample : f[i] = f[j] => i = j
        /\ f[0] < f[3]}

Next1(i) == (i + 1) % 6
Apart(i, j) == IF (i - j) % 6 < (j - i) % 6 THEN (i - j) % 6 ELSE (j - i) % 6
MCDistance == [i \in MCSample |-> [j \in MCSample |-> Apart(i, j)]]
MCNeighbours ==
    {[i \in MCSample |-> {Next1(i)}],
     [i \in MCSample |-> IF i = 5 THEN {4} ELSE {Next1(i)}],
     [i \in MCSample |-> {j \in MCSample : Apart(i, j) = 1}]}
=============================================================================
