------------------------------ MODULE MinHeap -------------------------------
(***************************************************************************)
(* The binary heap of Heap.h and MinHeap.h.  It does not move the elements *)
(* it was given but two arrays of indices, one the inverse of the other:   *)
(* heap2orig says which element is at a place of the heap, orig2heap where *)
(* an element is.  An operation of the caller is one action; it leaves a   *)
(* sift, whose every exchange is an action again, and the next operation   *)
(* waits for its end.                                                      *)
(*                                                                         *)
(* What the caller must see to is part of the operations: extraction is    *)
(* from a heap that is not empty (Heap.h would write before its arrays),   *)
(* and a key is changed only of an element still in the heap, and only to  *)
(* a smaller one.                                                          *)
(***************************************************************************)
EXTENDS Integers

CONSTANTS
    N,         \* the capacity of a heap
    Infinity   \* numeric_limits<TPrecision>::max()

ASSUME HeapAssumption == N \in Nat \ {0} /\ Infinity \in Nat

VARIABLES
    elems, heap2orig, orig2heap, nElements,
    sift,       \* the sift under way, if any
    extracted   \* what the last extraction returned

heapVars == <<elems, heap2orig, orig2heap, nElements, sift, extracted>>

Slot == 0 .. N - 1
Key == 0 .. Infinity

\* "down" is heapify at a place, for buildHeap first at the places after from;
\* "up" is changeElement
Sift == [how : {"none", "down", "up"}, at : Slot, from : Slot]
Idle == [how |-> "none", at |-> 0, from |-> 0]
Down(i, from) == [how |-> "down", at |-> i, from |-> from]
Up(i) == [how |-> "up", at |-> i, from |-> 0]

HeapTypeOK ==
    /\ elems \in [Slot -> Key]
    /\ heap2orig \in [Slot -> Slot] /\ orig2heap \in [Slot -> Slot]
    /\ nElements \in 0 .. N
    /\ sift \in Sift /\ extracted \in Slot

identity == [i \in Slot |-> i]

HeapInit ==
    /\ elems = [i \in Slot |-> 0] /\ heap2orig = identity /\ orig2heap = identity
    /\ nElements = 0 /\ sift = Idle /\ extracted = 0

-----------------------------------------------------------------------------
parent(i) == (i - 1) \div 2
left(i) == 2 * i + 1
right(i) == 2 * i + 2

at(i) == elems[heap2orig[i]]
smaller(i, j) == at(i) < at(j)

exchange(i, j) ==
    /\ heap2orig' = [heap2orig EXCEPT ![i] = heap2orig[j], ![j] = heap2orig[i]]
    /\ orig2heap' = [orig2heap EXCEPT ![heap2orig[j]] = i, ![heap2orig[i]] = j]

\* Mutant: the right child is compared with the parent.
smallestOfEach(i) ==
    LET l == IF left(i) < nElements /\ smaller(left(i), i) THEN left(i) ELSE i
    IN  IF right(i) < nElements /\ smaller(right(i), i) THEN right(i) ELSE l

smallest(i) ==
    LET l == IF left(i) < nElements /\ smaller(left(i), i) THEN left(i) ELSE i
    IN  IF right(i) < nElements /\ smaller(right(i), l) THEN right(i) ELSE l

\* Mutant: the element that went down is not looked at again.
heapifyOnce ==
    /\ sift.how = "down"
    /\ sift' = IF sift.from = 0 THEN Idle ELSE Down(sift.from - 1, sift.from - 1)
    /\ LET s == smallest(sift.at)
       IN  IF s # sift.at THEN exchange(sift.at, s)
           ELSE UNCHANGED <<heap2orig, orig2heap>>
    /\ UNCHANGED <<elems, nElements, extracted>>

heapify ==
    /\ sift.how = "down"
    /\ LET s == smallest(sift.at)
       IN  IF s # sift.at
           THEN exchange(sift.at, s) /\ sift' = Down(s, sift.from)
           ELSE /\ sift' = IF sift.from = 0 THEN Idle
                           ELSE Down(sift.from - 1, sift.from - 1)
                /\ UNCHANGED <<heap2orig, orig2heap>>
    /\ UNCHANGED <<elems, nElements, extracted>>

changeElement ==
    /\ sift.how = "up"
    /\ IF sift.at > 0 /\ smaller(sift.at, parent(sift.at))
       THEN exchange(sift.at, parent(sift.at)) /\ sift' = Up(parent(sift.at))
       ELSE sift' = Idle /\ UNCHANGED <<heap2orig, orig2heap>>
    /\ UNCHANGED <<elems, nElements, extracted>>

-----------------------------------------------------------------------------
(***************************************************************************)
(* The operations.                                                         *)
(***************************************************************************)
\* MinHeap(a, N): a heap of all of a
buildHeap(a) ==
    /\ sift = Idle
    /\ elems' = a /\ heap2orig' = identity /\ orig2heap' = identity
    /\ nElements' = N /\ sift' = Down(N \div 2, N \div 2)
    /\ UNCHANGED extracted

\* MinHeap(N) and init(N, val, root, rootval)
init(val, root, rootval) ==
    /\ sift = Idle
    /\ elems' = [i \in Slot |-> IF i = root THEN rootval ELSE val]
    /\ heap2orig' = [identity EXCEPT ![0] = root, ![root] = 0]
    /\ orig2heap' = [identity EXCEPT ![0] = root, ![root] = 0]
    /\ nElements' = N
    /\ UNCHANGED <<sift, extracted>>

\* Mutant: the number of elements is left as it is.
extractRootCounting ==
    /\ sift = Idle /\ nElements > 0
    /\ extracted' = heap2orig[0]
    /\ exchange(0, nElements - 1) /\ nElements' = nElements
    /\ sift' = Down(0, 0)
    /\ UNCHANGED elems

\* extractRoot and extractRootIndex
extractRoot ==
    /\ sift = Idle /\ nElements > 0
    /\ extracted' = heap2orig[0]
    /\ exchange(0, nElements - 1) /\ nElements' = nElements - 1
    /\ sift' = Down(0, 0)
    /\ UNCHANGED elems

changeOrigElement(i, elem) ==
    /\ sift = Idle
    /\ elems' = [elems EXCEPT ![i] = elem]
    /\ sift' = Up(orig2heap[i])
    /\ UNCHANGED <<heap2orig, orig2heap, nElements, extracted>>

\* what a caller may ask of changeOrigElement
mayChange(i, elem) == orig2heap[i] < nElements /\ elem <= elems[i]

HeapNext ==
    \/ heapify \/ changeElement \/ extractRoot
    \/ /\ elems' \in [Slot -> Key]
       /\ \/ buildHeap(elems')
          \/ \E root, i \in Slot :
                elems'[root] <= elems'[i] /\ init(elems'[i], root, elems'[root])
          \/ \E i \in Slot :
                mayChange(i, elems'[i]) /\ changeOrigElement(i, elems'[i])

HeapSpec == HeapInit /\ [][HeapNext]_heapVars

-----------------------------------------------------------------------------
\* The two index arrays are inverse permutations, in the middle of a sift too,
\* and so no element is in the heap twice or lost from it (exchange).
IndicesInverse ==
    /\ \A i \in Slot : orig2heap[heap2orig[i]] = i
    /\ \A i \in Slot : heap2orig[orig2heap[i]] = i

\* Between operations no element is less than the one above it, although each
\* sift looks along one path of the heap only and the keys of elements anywhere
\* in it are changed (heapify, changeElement, buildHeap).
HeapOrder ==
    sift = Idle => \A i \in Slot :
        /\ left(i) < nElements => at(i) <= at(left(i))
        /\ right(i) < nElements => at(i) <= at(right(i))

inHeap == {heap2orig[p] : p \in 0 .. nElements - 1}

\* The heap gives back a least element whenever it is asked, in between sifts.
Queue == INSTANCE PriorityQueue
            WITH Element <- Slot, queue <- [e \in inHeap |-> elems[e]]
ImplementsQueue == Queue!Spec
=============================================================================
