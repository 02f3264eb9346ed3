----------------------------- MODULE MCSearches -----------------------------
(***************************************************************************)
(* Five points.  The lengths from the first to the others are any of zero, *)
(* one, three and infinite, and those from each of the others to the next  *)
(* one or infinite, so that the heap of a point is of any shape, a length  *)
(* is improved more than once, and points are out of reach.                *)
(***************************************************************************)
EXTENDS Searches

MCInfinity == 10

Matrix(first, next) ==
    LET w(i, j) == IF i = 0 THEN first[j]
                   ELSE IF j = i + 1 THEN next[i] ELSE MCInfinity
    IN  [i \in 0 .. 4 |-> [j \in 0 .. 4 |->
            IF i = j THEN 0 ELSE IF i < j THEN w(i, j) ELSE w(j, i)]]

MCLengths == {Matrix(first, next) : first \in [1 .. 4 -> {0, 1, 3, MCInfinity}],
                                    next \in [1 .. 3 -> {1, MCInfinity}]}
=============================================================================
