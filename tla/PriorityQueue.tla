--------------------------- MODULE PriorityQueue ----------------------------
(***************************************************************************)
(* What MinHeap.h promises the searches that use it: a queue of elements   *)
(* with keys that gives back one of those with the least key, whatever was *)
(* changed before.                                                         *)
(***************************************************************************)
EXTENDS Integers

CONSTANTS Element, Key

VARIABLES
    queue,     \* the keys of the elements in it
    extracted  \* the element given back last

vars == <<queue, extracted>>

Fill == queue' \in [Element -> Key] /\ UNCHANGED extracted

ExtractMin(e) ==
    /\ e \in DOMAIN queue /\ \A f \in DOMAIN queue : queue[e] <= queue[f]
    /\ extracted' = e
    /\ queue' = [f \in DOMAIN queue \ {e} |-> queue[f]]

Decrease(e, key) ==
    /\ e \in DOMAIN queue /\ key <= queue[e]
    /\ queue' = [queue EXCEPT ![e] = key]
    /\ UNCHANGED extracted

Init == queue = [e \in {} |-> 0]

Next ==
    \/ Fill
    \/ \E e \in Element : ExtractMin(e) \/ \E key \in Key : Decrease(e, key)

Spec == Init /\ [][Next]_vars
=============================================================================
