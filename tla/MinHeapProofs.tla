--------------------------- MODULE MinHeapProofs ----------------------------
(***************************************************************************)
(* What holds of the heap for every capacity and all keys.  In the middle  *)
(* of a sift the order is broken at one place only, and the place above it *)
(* is in order with the places below it; that is the invariant, stated of  *)
(* the keys by place.  Between sifts it is the order of the heap, so the   *)
(* root is a least key and the heap is a priority queue to its callers.    *)
(***************************************************************************)
EXTENDS MinHeap, WellFoundedInduction, TLAPS

\* the keys, by place
keys == [p \in Slot |-> at(p)]

Swapped(K, i, j) == [K EXCEPT ![i] = K[j], ![j] = K[i]]

Child(p, c) == c = left(p) \/ c = right(p)

\* Every place from the one given on is in order with the first n places below
\* it, but for the place that is sifted down.
Ordered(K, n, from, but) ==
    \A p, c \in Slot : Child(p, c) /\ c < n /\ from <= p /\ p # but => K[p] <= K[c]

\* as Ordered, but for the place that is sifted up and the one above it
OrderedBelow(K, n, but) ==
    \A p, c \in Slot : Child(p, c) /\ c < n /\ c # but => K[p] <= K[c]

\* The place above i is in order with those below i.
Bridged(K, n, from, i) ==
    \A p, c \in Slot : Child(p, i) /\ Child(i, c) /\ c < n /\ from <= p => K[p] <= K[c]

placed == {e \in Slot : orig2heap[e] < nElements}

IsHeap(K, n) == \A p, c \in Slot : Child(p, c) /\ c < n => K[p] <= K[c]

SiftInv ==
    /\ sift.how = "none" => IsHeap(keys, nElements)
    /\ sift.how = "down" => /\ sift.from <= sift.at
                            /\ Ordered(keys, nElements, sift.from, sift.at)
                            /\ Bridged(keys, nElements, sift.from, sift.at)
    /\ sift.how = "up" => /\ sift.at < nElements
                          /\ OrderedBelow(keys, nElements, sift.at)
                          /\ Bridged(keys, nElements, 0, sift.at)

IInv == HeapTypeOK /\ IndicesInverse /\ SiftInv

-----------------------------------------------------------------------------
(***************************************************************************)
(* The places and their keys.                                              *)
(***************************************************************************)
\* A place is below one other place only, and after it.
LEMMA ChildFacts ==
    /\ \A p, c \in Int : Child(p, c) /\ p >= 0 => p < c
    /\ \A p, q, c \in Int : Child(p, c) /\ Child(q, c) => p = q
BY DEF Child, left, right

LEMMA ParentIsAbove ==
    ASSUME NEW i \in Slot, i > 0
    PROVE  parent(i) \in Slot /\ parent(i) < i /\ Child(parent(i), i)
<1>1. i \in Nat /\ N \in Nat /\ i < N
  BY HeapAssumption DEF Slot
<1>2. parent(i) \in Nat /\ (i - 1 = 2 * parent(i) \/ i - 1 = 2 * parent(i) + 1)
  BY <1>1, SMT DEF parent
<1> QED BY <1>1, <1>2 DEF Slot, Child, left, right

\* A place that is sifted down goes below the smallest child, and the order is
\* then broken there at most.
LEMMA SiftedDown ==
    ASSUME NEW K \in [Slot -> Key], NEW n \in 0 .. N, NEW from \in Slot,
           NEW i \in Slot, NEW s \in Slot,
           from <= i, Child(i, s), s < n, K[s] < K[i],
           \A c \in Slot : Child(i, c) /\ c < n => K[s] <= K[c],
           Ordered(K, n, from, i), Bridged(K, n, from, i)
    PROVE  /\ Ordered(Swapped(K, i, s), n, from, s)
           /\ Bridged(Swapped(K, i, s), n, from, s)
<1> DEFINE L == Swapped(K, i, s)
<1>1. Slot \subseteq Int /\ Key \subseteq Int /\ n \in Int
  BY HeapAssumption DEF Slot, Key
<1>2. /\ L \in [Slot -> Key] /\ L[i] = K[s] /\ L[s] = K[i]
      /\ \A p \in Slot \ {i, s} : L[p] = K[p]
  BY DEF Swapped
<1>3. i # s /\ i < s
  BY <1>1, ChildFacts, i >= 0 DEF Slot
<1>4. ASSUME NEW p \in Slot, NEW c \in Slot, Child(p, c), c < n, from <= p, p # s
      PROVE  L[p] <= L[c]
  <2>0. p \in Int /\ c \in Int /\ p >= 0 /\ p # c
    BY <1>1, <1>4, ChildFacts DEF Slot
  <2>1. CASE p = i /\ c = s
    <3>1. K[s] \in Int /\ K[i] \in Int
      BY <1>1
    <3> QED BY <3>1, <2>1, <1>2
  <2>2. CASE p = i /\ c # s
    <3>1. L[c] = K[c] /\ K[s] <= K[c]
      BY <2>0, <2>2, <1>2, <1>4
    <3> QED BY <3>1, <2>2, <1>2
  <2>3. CASE c = i
    <3>1. K[p] <= K[s]
      BY <2>3, <1>4 DEF Bridged
    <3> QED BY <3>1, <2>0, <2>3, <1>2, <1>4
  <2>4. CASE p # i /\ c # i
    <3>1. c # s
      BY <2>4, <1>1, <1>4, ChildFacts
    <3>2. K[p] <= K[c]
      BY <2>4, <1>4 DEF Ordered
    <3> QED BY <3>1, <3>2, <2>4, <1>2, <1>4
  <2> QED BY <2>1, <2>2, <2>3, <2>4
<1>5. ASSUME NEW p \in Slot, NEW c \in Slot, Child(p, s), Child(s, c), c < n, from <= p
      PROVE  L[p] <= L[c]
  <2>1. p = i
    BY <1>1, <1>5, ChildFacts
  <2>2. c # s /\ c # i
    <3>1. s < c
      BY <1>1, <1>5, ChildFacts, s >= 0 DEF Slot
    <3> QED BY <3>1, <1>1, <1>3
  <2>3. K[s] <= K[c]
    <3>1. from <= s /\ s # i
      BY <1>1, <1>3
    <3> QED BY <3>1, <1>5 DEF Ordered
  <2> QED BY <2>1, <2>2, <2>3, <1>2
<1> QED BY <1>4, <1>5 DEF Ordered, Bridged

\* A place that has no smaller child is in order.
LEMMA SiftedDownEnds ==
    ASSUME NEW K \in [Slot -> Key], NEW n \in 0 .. N, NEW from \in Slot,
           NEW i \in Slot,
           \A c \in Slot : Child(i, c) /\ c < n => K[i] <= K[c],
           Ordered(K, n, from, i)
    PROVE  /\ from = 0 => IsHeap(K, n)
           /\ from # 0 => /\ Ordered(K, n, from - 1, from - 1)
                          /\ Bridged(K, n, from - 1, from - 1)
<1>1. Slot \subseteq Int /\ from \in Int /\ \A p \in Slot : p >= 0
  BY HeapAssumption DEF Slot
<1>2. \A p, c \in Slot : Child(p, c) /\ c < n /\ from <= p => K[p] <= K[c]
  BY DEF Ordered
<1>3. \A p \in Slot : p >= from - 1 /\ p # from - 1 => from <= p
  BY <1>1
<1>4. from # 0 => \A p \in Slot : Child(p, from - 1) /\ from - 1 <= p => FALSE
  <2> SUFFICES ASSUME NEW p \in Slot, Child(p, from - 1), from - 1 <= p
               PROVE  FALSE
    OBVIOUS
  <2>1. p < from - 1
    BY <1>1, ChildFacts
  <2> QED BY <2>1, <1>1
<1>5. from = 0 => IsHeap(K, n)
  BY <1>1, <1>2 DEF IsHeap
<1>6. Ordered(K, n, from - 1, from - 1)
  BY <1>2, <1>3 DEF Ordered
<1>7. from # 0 => Bridged(K, n, from - 1, from - 1)
  BY <1>4 DEF Bridged
<1> QED BY <1>5, <1>6, <1>7

\* A place that is less than the one above it goes there.
LEMMA SiftedUp ==
    ASSUME NEW K \in [Slot -> Key], NEW n \in 0 .. N,
           NEW i \in Slot, NEW p0 \in Slot,
           Child(p0, i), i < n, K[i] < K[p0],
           OrderedBelow(K, n, i), Bridged(K, n, 0, i)
    PROVE  /\ OrderedBelow(Swapped(K, i, p0), n, p0)
           /\ Bridged(Swapped(K, i, p0), n, 0, p0)
<1> DEFINE L == Swapped(K, i, p0)
<1>1. /\ Slot \subseteq Int /\ Key \subseteq Int /\ n \in Int
      /\ \A p \in Slot : p >= 0
  BY HeapAssumption DEF Slot, Key
<1>2. /\ L \in [Slot -> Key] /\ L[i] = K[p0] /\ L[p0] = K[i]
      /\ \A p \in Slot \ {i, p0} : L[p] = K[p]
  BY DEF Swapped
<1>3. p0 < i /\ p0 # i
  BY <1>1, ChildFacts
<1>4. ASSUME NEW p \in Slot, NEW c \in Slot, Child(p, c), c < n, c # p0
      PROVE  L[p] <= L[c]
  <2>0. p # c
    BY <1>1, <1>4, ChildFacts
  <2>1. CASE c = i
    <3>1. p = p0
      BY <2>1, <1>1, <1>4, ChildFacts
    <3>2. K[i] \in Int /\ K[p0] \in Int
      BY <1>1
    <3> QED BY <3>1, <3>2, <2>1, <1>2
  <2>2. CASE p = i
    <3>1. K[p0] <= K[c]
      BY <2>2, <1>1, <1>4 DEF Bridged
    <3> QED BY <3>1, <2>0, <2>2, <1>2, <1>4
  <2>3. CASE c # i /\ p # i
    <3>1. K[p] <= K[c]
      BY <2>3, <1>4 DEF OrderedBelow
    <3>2. CASE p = p0
      <4>1. K[i] <= K[c]
        <5>1. K[i] \in Int /\ K[p0] \in Int /\ K[c] \in Int
          BY <1>1
        <5> QED BY <5>1, <3>1, <3>2
      <4> QED BY <4>1, <3>2, <2>3, <1>2, <1>4
    <3>3. CASE p # p0
      BY <3>1, <3>3, <2>3, <1>2, <1>4
    <3> QED BY <3>2, <3>3
  <2> QED BY <2>1, <2>2, <2>3
<1>5. ASSUME NEW p \in Slot, NEW c \in Slot, Child(p, p0), Child(p0, c), c < n
      PROVE  L[p] <= L[c]
  <2>1. p < p0 /\ p0 < c /\ p # i /\ p # p0 /\ c # p0
    <3>1. p < p0 /\ p0 < c
      BY <1>1, <1>5, ChildFacts
    <3> QED BY <3>1, <1>1, <1>3
  <2>2. K[p] <= K[p0]
    <3>1. p0 < n
      BY <1>1, <1>3
    <3> QED BY <3>1, <1>3, <1>5 DEF OrderedBelow
  <2>3. CASE c = i
    BY <2>1, <2>2, <2>3, <1>2
  <2>4. CASE c # i
    <3>1. K[p0] <= K[c]
      BY <2>4, <1>5 DEF OrderedBelow
    <3>2. K[p] \in Int /\ K[p0] \in Int /\ K[c] \in Int
      BY <1>1
    <3>3. L[p] = K[p] /\ L[c] = K[c]
      BY <2>1, <2>4, <1>2
    <3> QED BY <3>1, <3>2, <3>3, <2>2
  <2> QED BY <2>3, <2>4
<1> QED BY <1>4, <1>5 DEF OrderedBelow, Bridged

\* The root of a heap is a least key of it: the first place with a smaller one
\* would have a smaller one above it.
LEMMA RootIsLeast ==
    ASSUME NEW K \in [Slot -> Key], NEW n \in 0 .. N, IsHeap(K, n)
    PROVE  \A p \in 0 .. n - 1 : K[0] <= K[p]
<1> DEFINE less == {p \in 0 .. n - 1 : ~(K[0] <= K[p])}
           R == {ss \in Nat \X Nat : ss[1] < ss[2]}
<1>0. /\ Slot \subseteq Nat /\ Key \subseteq Int /\ n \in Nat /\ N \in Nat
      /\ 0 .. n - 1 \subseteq Slot
  BY HeapAssumption DEF Slot, Key
<1>1. SUFFICES ASSUME less # {} PROVE FALSE
  OBVIOUS
<1>2. IsWellFoundedOn(R, Nat)
  BY NatLessThanWellFounded DEF OpToRel
<1>3. less \in SUBSET Nat
  BY <1>0
<1>4. \E x \in less : \A y \in less : ~(<<y, x>> \in R)
  <2> HIDE DEF R, less
  <2> QED BY <1>1, <1>2, <1>3, WFMin, Zenon
<1>5. PICK p \in less : \A y \in less : ~(<<y, p>> \in R)
  BY <1>4
<1>6. p \in Slot /\ p # 0 /\ p < n /\ 0 \in Slot
  <2>1. p \in 0 .. n - 1 /\ ~(K[0] <= K[p])
    BY <1>5
  <2>2. p \in Slot /\ 0 \in Slot
    BY <2>1, <1>0
  <2>3. K[0] \in Int /\ K[p] \in Int
    BY <2>2, <1>0
  <2> QED BY <2>1, <2>2, <2>3, <1>0
<1>7. parent(p) \in Slot /\ parent(p) < p /\ Child(parent(p), p)
  BY <1>0, <1>6, ParentIsAbove
<1>8. K[parent(p)] <= K[p]
  BY <1>6, <1>7 DEF IsHeap
<1>9. parent(p) \in less
  <2>1. parent(p) \in 0 .. n - 1
    <3>1. parent(p) \in Nat /\ p \in Nat /\ n \in Nat
      BY <1>0, <1>6, <1>7
    <3> QED BY <3>1, <1>6, <1>7
  <2>2. K[0] \in Int /\ K[p] \in Int /\ K[parent(p)] \in Int
    BY <1>0, <1>6, <1>7
  <2>3. ~(K[0] <= K[p])
    BY <1>5
  <2> QED BY <2>1, <2>2, <2>3, <1>8
<1>10. <<parent(p), p>> \in R
  BY <1>0, <1>6, <1>7
<1> QED BY <1>5, <1>9, <1>10

-----------------------------------------------------------------------------
(***************************************************************************)
(* The index arrays.                                                       *)
(***************************************************************************)
\* An exchange keeps the arrays inverse and exchanges the keys of two places.
LEMMA Exchanged ==
    ASSUME HeapTypeOK, IndicesInverse, NEW i \in Slot, NEW j \in Slot,
           exchange(i, j), elems' = elems
    PROVE  /\ heap2orig' \in [Slot -> Slot] /\ orig2heap' \in [Slot -> Slot]
           /\ IndicesInverse' /\ keys' = Swapped(keys, i, j)
<1>1. heap2orig \in [Slot -> Slot] /\ orig2heap \in [Slot -> Slot]
  BY DEF HeapTypeOK
<1>2. heap2orig' \in [Slot -> Slot] /\ orig2heap' \in [Slot -> Slot]
  BY <1>1 DEF exchange
<1>3. /\ heap2orig'[i] = heap2orig[j] /\ heap2orig'[j] = heap2orig[i]
      /\ \A p \in Slot \ {i, j} : heap2orig'[p] = heap2orig[p]
  BY <1>1 DEF exchange
<1>4. /\ orig2heap'[heap2orig[j]] = i /\ orig2heap'[heap2orig[i]] = j
      /\ \A e \in Slot \ {heap2orig[i], heap2orig[j]} : orig2heap'[e] = orig2heap[e]
  BY <1>1 DEF exchange, IndicesInverse
<1>5. ASSUME NEW p \in Slot PROVE orig2heap'[heap2orig'[p]] = p
  <2>1. CASE p \in {i, j}
    BY <2>1, <1>3, <1>4
  <2>2. CASE p \notin {i, j}
    <3>1. heap2orig[p] \in Slot /\ heap2orig[p] # heap2orig[i] /\ heap2orig[p] # heap2orig[j]
      BY <2>2, <1>1 DEF IndicesInverse
    <3> QED BY <3>1, <2>2, <1>3, <1>4 DEF IndicesInverse
  <2> QED BY <2>1, <2>2
<1>6. ASSUME NEW e \in Slot PROVE heap2orig'[orig2heap'[e]] = e
  <2>1. CASE e \in {heap2orig[i], heap2orig[j]}
    BY <2>1, <1>3, <1>4
  <2>2. CASE e \notin {heap2orig[i], heap2orig[j]}
    <3>1. orig2heap[e] \in Slot /\ orig2heap[e] # i /\ orig2heap[e] # j
      BY <2>2, <1>1 DEF IndicesInverse
    <3> QED BY <3>1, <2>2, <1>3, <1>4 DEF IndicesInverse
  <2> QED BY <2>1, <2>2
<1>7. keys' = Swapped(keys, i, j)
  <2>1. keys' = [p \in Slot |-> elems[heap2orig'[p]]]
    BY DEF keys, at
  <2>2. keys = [p \in Slot |-> elems[heap2orig[p]]]
    BY DEF keys, at
  <2>3. \A p \in Slot : elems[heap2orig'[p]] = Swapped(keys, i, j)[p]
    BY <2>2, <1>3 DEF Swapped
  <2>4. Swapped(keys, i, j) = [p \in Slot |-> Swapped(keys, i, j)[p]]
    BY <2>2 DEF Swapped
  <2> QED BY <2>1, <2>3, <2>4
<1> QED BY <1>2, <1>5, <1>6, <1>7 DEF IndicesInverse

\* The elements of the heap are slots.
LEMMA InHeapSlots == HeapTypeOK => inHeap \subseteq Slot
<1> SUFFICES ASSUME HeapTypeOK, NEW p \in 0 .. nElements - 1
             PROVE  heap2orig[p] \in Slot
  BY DEF inHeap
<1>1. p \in Slot
  BY HeapAssumption DEF HeapTypeOK, Slot
<1> QED BY <1>1 DEF HeapTypeOK

\* The elements in the heap are those with a place before its end.
LEMMA InHeap ==
    ASSUME HeapTypeOK, IndicesInverse
    PROVE  inHeap = placed
<1>1. /\ \A p \in 0 .. nElements - 1 : p \in Slot
      /\ \A p \in Slot : p < nElements => p \in 0 .. nElements - 1
      /\ \A p \in 0 .. nElements - 1 : p < nElements
  <2>1. N \in Nat /\ nElements \in Nat /\ nElements <= N
    BY HeapAssumption DEF HeapTypeOK
  <2> QED BY <2>1 DEF Slot
<1> SUFFICES ASSUME NEW e \in Slot
             PROVE  e \in inHeap <=> orig2heap[e] < nElements
  BY InHeapSlots DEF placed
<1>2. orig2heap[e] \in Slot /\ heap2orig[orig2heap[e]] = e
  BY DEF HeapTypeOK, IndicesInverse
<1>3. ASSUME e \in inHeap PROVE orig2heap[e] < nElements
  <2>1. PICK p \in 0 .. nElements - 1 : e = heap2orig[p]
    BY <1>3 DEF inHeap
  <2>2. orig2heap[e] = p
    BY <2>1, <1>1 DEF IndicesInverse
  <2> QED BY <2>1, <2>2, <1>1
<1>4. ASSUME orig2heap[e] < nElements PROVE e \in inHeap
  BY <1>1, <1>2, <1>4 DEF inHeap
<1> QED BY <1>3, <1>4

\* An exchange of two places before the end keeps the elements in the heap.
LEMMA ExchangeKeepsElements ==
    ASSUME HeapTypeOK, IndicesInverse, NEW i \in Slot, NEW j \in Slot,
           i < nElements, j < nElements,
           exchange(i, j), elems' = elems, nElements' = nElements
    PROVE  inHeap' = inHeap
<1>1. 0 .. nElements - 1 \subseteq Slot /\ i \in 0 .. nElements - 1 /\ j \in 0 .. nElements - 1
  BY HeapAssumption DEF HeapTypeOK, Slot
<1>2. /\ heap2orig'[i] = heap2orig[j] /\ heap2orig'[j] = heap2orig[i]
      /\ \A p \in Slot \ {i, j} : heap2orig'[p] = heap2orig[p]
  BY DEF exchange, HeapTypeOK
<1>3. \A p \in 0 .. nElements - 1 :
         \E q \in 0 .. nElements - 1 : heap2orig'[p] = heap2orig[q]
  BY <1>1, <1>2
<1>4. \A p \in 0 .. nElements - 1 :
         \E q \in 0 .. nElements - 1 : heap2orig[p] = heap2orig'[q]
  BY <1>1, <1>2
<1>5. inHeap' = {heap2orig'[p] : p \in 0 .. nElements - 1}
  BY DEF inHeap
<1> QED BY <1>3, <1>4, <1>5 DEF inHeap

-----------------------------------------------------------------------------
(***************************************************************************)
(* The steps.  Each keeps the invariant, and to the callers a step of a    *)
(* sift is none and an operation is one of the queue.                      *)
(***************************************************************************)
LEMMA Keys ==
    HeapTypeOK => /\ keys \in [Slot -> Key]
                  /\ \A p \in Slot : keys[p] = at(p) /\ at(p) \in Int
                  /\ nElements \in Nat /\ N \in Nat /\ nElements <= N
                  /\ \A p \in Int : 0 <= p /\ p < nElements => p \in Slot
<1> SUFFICES ASSUME HeapTypeOK
             PROVE  /\ keys \in [Slot -> Key]
                    /\ \A p \in Slot : keys[p] = at(p) /\ at(p) \in Int
                    /\ nElements \in Nat /\ N \in Nat /\ nElements <= N
                    /\ \A p \in Int : 0 <= p /\ p < nElements => p \in Slot
  OBVIOUS
<1>1. N \in Nat /\ nElements \in Nat /\ nElements <= N
  BY HeapAssumption DEF HeapTypeOK
<1>2. \A p \in Slot : at(p) \in Key
  BY DEF HeapTypeOK, at
<1>3. Key \subseteq Int
  BY HeapAssumption DEF Key
<1>4. keys \in [Slot -> Key] /\ \A p \in Slot : keys[p] = at(p)
  BY <1>2 DEF keys
<1>5. \A p \in Slot : at(p) \in Int
  BY <1>2, <1>3
<1>6. \A p \in Int : 0 <= p /\ p < nElements => p \in Slot
  BY <1>1 DEF Slot
<1> QED BY <1>1, <1>4, <1>5, <1>6

\* heapify finds the least of a place and the ones below it in the heap.
LEMMA SmallestFacts ==
    ASSUME HeapTypeOK, NEW i \in Slot
    PROVE  /\ smallest(i) = i => \A c \in Slot :
                 Child(i, c) /\ c < nElements => keys[i] <= keys[c]
           /\ smallest(i) # i =>
                 /\ smallest(i) \in Slot /\ Child(i, smallest(i))
                 /\ smallest(i) < nElements /\ keys[smallest(i)] < keys[i]
                 /\ \A c \in Slot : Child(i, c) /\ c < nElements =>
                       keys[smallest(i)] <= keys[c]
<1> DEFINE l == IF left(i) < nElements /\ smaller(left(i), i) THEN left(i) ELSE i
           s == IF right(i) < nElements /\ smaller(right(i), l) THEN right(i) ELSE l
<1>1. smallest(i) = s
  BY DEF smallest
<1>2. i \in Nat /\ left(i) \in Nat /\ right(i) \in Nat /\ left(i) # i /\ right(i) # i
      /\ left(i) # right(i)
  BY HeapAssumption DEF Slot, left, right
<1>3. /\ left(i) < nElements => left(i) \in Slot
      /\ right(i) < nElements => right(i) \in Slot
  BY <1>2, Keys
<1>4. /\ \A p \in Slot : keys[p] \in Int
      /\ \A p, q \in Slot : smaller(p, q) <=> keys[p] < keys[q]
  BY Keys DEF smaller
<1>5. /\ l \in Slot /\ keys[l] <= keys[i] /\ (l # i => keys[l] < keys[i] /\ l = left(i))
      /\ left(i) < nElements => keys[l] <= keys[left(i)]
  BY <1>2, <1>3, <1>4
<1>6. /\ s \in Slot /\ keys[s] <= keys[l]
      /\ right(i) < nElements => keys[s] <= keys[right(i)]
      /\ s # l => s = right(i) /\ keys[s] < keys[l]
  <2> HIDE DEF l
  <2> QED BY <1>2, <1>3, <1>4, <1>5
<1>7. s # i => keys[s] < keys[i] /\ Child(i, s) /\ s < nElements
  <2>1. CASE s = l
    BY <2>1, <1>5 DEF Child
  <2>2. CASE s # l
    <3>1. keys[s] < keys[l] /\ keys[l] <= keys[i] /\ s = right(i)
      BY <2>2, <1>5, <1>6
    <3>2. keys[s] < keys[i]
      <4> HIDE DEF l, s
      <4> QED BY <3>1, <1>4, <1>5, <1>6
    <3>3. s < nElements
      BY <2>2, <3>1
    <3> QED BY <3>1, <3>2, <3>3 DEF Child
  <2> QED BY <2>1, <2>2
<1>8. left(i) < nElements => keys[s] <= keys[left(i)]
  <2> HIDE DEF l, s
  <2> QED BY <1>3, <1>4, <1>5, <1>6
<1>9. \A c \in Slot : Child(i, c) /\ c < nElements => keys[s] <= keys[c]
  <2> HIDE DEF l, s
  <2> QED BY <1>6, <1>8 DEF Child
<1> QED BY <1>1, <1>6, <1>7, <1>9

LEMMA HeapifySteps ==
    ASSUME IInv, heapify
    PROVE  IInv' /\ UNCHANGED Queue!vars
<1> DEFINE i == sift.at
           s == smallest(i)
<1>0. HeapTypeOK /\ IndicesInverse
  BY DEF IInv
<1>1. /\ i \in Slot /\ sift.from \in Slot /\ sift.from <= i
      /\ Ordered(keys, nElements, sift.from, i) /\ Bridged(keys, nElements, sift.from, i)
      /\ sift = Down(i, sift.from)
  BY DEF heapify, IInv, SiftInv, HeapTypeOK, Sift, Down
<1>2. /\ keys \in [Slot -> Key] /\ nElements \in 0 .. N /\ 0 \in Slot
      /\ UNCHANGED <<elems, nElements, extracted>>
  <2>1. keys \in [Slot -> Key] /\ nElements \in 0 .. N
    BY <1>0, Keys DEF HeapTypeOK
  <2>2. 0 \in Slot
    BY HeapAssumption DEF Slot
  <2> QED BY <2>1, <2>2 DEF heapify
<1>3. CASE s # i
  <2>1. /\ s \in Slot /\ Child(i, s) /\ s < nElements /\ keys[s] < keys[i]
        /\ \A c \in Slot : Child(i, c) /\ c < nElements => keys[s] <= keys[c]
    BY <1>0, <1>1, <1>3, SmallestFacts
  <2>2. exchange(i, s) /\ sift' = Down(s, sift.from)
    BY <1>3 DEF heapify
  <2>3. /\ heap2orig' \in [Slot -> Slot] /\ orig2heap' \in [Slot -> Slot]
        /\ IndicesInverse' /\ keys' = Swapped(keys, i, s)
    <3> HIDE DEF i, s
    <3> QED BY <1>0, <1>1, <1>2, <2>1, <2>2, Exchanged
  <2>4. /\ Ordered(Swapped(keys, i, s), nElements, sift.from, s)
        /\ Bridged(Swapped(keys, i, s), nElements, sift.from, s)
    <3> HIDE DEF i, s
    <3> QED BY <1>1, <1>2, <2>1, SiftedDown
  <2>5. sift'.how = "down" /\ sift'.at = s /\ sift'.from = sift.from /\ sift' \in Sift
    BY <1>1, <2>1, <2>2 DEF Down, Sift
  <2>6. i < s
    <3>1. i \in Int /\ s \in Int /\ i >= 0
      BY <1>1, <2>1, HeapAssumption DEF Slot
    <3> QED BY <2>1, <3>1, ChildFacts
  <2>7. sift'.from <= sift'.at
    <3>1. i \in Int /\ s \in Int /\ sift.from \in Int
      BY <1>1, <2>1, HeapAssumption DEF Slot
    <3> HIDE DEF i, s
    <3> QED BY <1>1, <2>5, <2>6, <3>1
  <2>8. SiftInv'
    BY <1>2, <2>3, <2>4, <2>5, <2>7 DEF SiftInv
  <2>9. HeapTypeOK'
    BY <1>0, <1>2, <2>3, <2>5 DEF HeapTypeOK
  <2>10. inHeap' = inHeap
    <3>1. i < nElements
      <4>1. i \in Int /\ s \in Int /\ nElements \in Int
        BY <1>1, <1>2, <2>1, HeapAssumption DEF Slot
      <4> HIDE DEF i, s
      <4> QED BY <4>1, <2>1, <2>6
    <3> HIDE DEF i, s
    <3> QED BY <3>1, <1>0, <1>1, <1>2, <2>1, <2>2, ExchangeKeepsElements
  <2> QED BY <1>2, <2>3, <2>8, <2>9, <2>10 DEF IInv, Queue!vars
<1>4. CASE s = i
  <2>1. \A c \in Slot : Child(i, c) /\ c < nElements => keys[i] <= keys[c]
    BY <1>0, <1>1, <1>4, SmallestFacts
  <2>2. /\ sift' = IF sift.from = 0 THEN Idle ELSE Down(sift.from - 1, sift.from - 1)
        /\ UNCHANGED <<heap2orig, orig2heap>>
    BY <1>4 DEF heapify
  <2>3. /\ sift.from = 0 => IsHeap(keys, nElements)
        /\ sift.from # 0 => /\ Ordered(keys, nElements, sift.from - 1, sift.from - 1)
                            /\ Bridged(keys, nElements, sift.from - 1, sift.from - 1)
    <3> HIDE DEF i, s
    <3> QED BY <1>1, <1>2, <2>1, SiftedDownEnds
  <2>4. keys' = keys /\ inHeap' = inHeap /\ IndicesInverse' /\ UNCHANGED Queue!vars
    <3>1. keys' = keys
      BY <1>2, <2>2 DEF keys, at
    <3>2. inHeap' = inHeap
      BY <1>2, <2>2 DEF inHeap
    <3>3. IndicesInverse'
      BY <1>0, <2>2 DEF IndicesInverse
    <3> QED BY <3>1, <3>2, <3>3, <1>2 DEF Queue!vars
  <2>5. CASE sift.from = 0
    <3>1. sift' = Idle /\ sift' \in Sift /\ sift'.how = "none"
      BY <2>2, <2>5, <1>2 DEF Idle, Sift
    <3>2. SiftInv'
      BY <1>2, <2>3, <2>4, <2>5, <3>1 DEF SiftInv
    <3> QED BY <1>0, <1>2, <2>2, <2>4, <3>1, <3>2 DEF IInv, HeapTypeOK
  <2>6. CASE sift.from # 0
    <3>1. sift.from - 1 \in Slot
      BY <1>1, <2>6, HeapAssumption DEF Slot
    <3>2. /\ sift' \in Sift /\ sift'.how = "down" /\ sift'.at = sift.from - 1
          /\ sift'.from = sift.from - 1
      BY <2>2, <2>6, <3>1 DEF Down, Sift
    <3>3. sift'.from <= sift'.at
      BY <3>1, <3>2, HeapAssumption DEF Slot
    <3>4. SiftInv'
      BY <1>2, <2>3, <2>4, <2>6, <3>2, <3>3 DEF SiftInv
    <3> QED BY <1>0, <1>2, <2>2, <2>4, <3>2, <3>4 DEF IInv, HeapTypeOK
  <2> QED BY <2>5, <2>6
<1> QED BY <1>3, <1>4

LEMMA ChangeElementSteps ==
    ASSUME IInv, changeElement
    PROVE  IInv' /\ UNCHANGED Queue!vars
<1> DEFINE i == sift.at
           q == parent(i)
<1>0. HeapTypeOK /\ IndicesInverse
  BY DEF IInv
<1>1. /\ i \in Slot /\ i < nElements
      /\ OrderedBelow(keys, nElements, i) /\ Bridged(keys, nElements, 0, i)
  <2>1. sift \in Sift /\ sift.how = "up"
    BY <1>0 DEF changeElement, HeapTypeOK
  <2> QED BY <2>1 DEF IInv, SiftInv, Sift
<1>2. /\ keys \in [Slot -> Key] /\ nElements \in 0 .. N /\ 0 \in Slot
      /\ UNCHANGED <<elems, nElements, extracted>>
  <2>1. keys \in [Slot -> Key] /\ nElements \in 0 .. N
    BY <1>0, Keys DEF HeapTypeOK
  <2>2. 0 \in Slot
    BY HeapAssumption DEF Slot
  <2> QED BY <2>1, <2>2 DEF changeElement
<1>3. CASE i > 0 /\ smaller(i, q)
  <2>1. q \in Slot /\ q < i /\ Child(q, i)
    BY <1>1, <1>3, ParentIsAbove
  <2>2. exchange(i, q) /\ sift' = Up(q)
    BY <1>3 DEF changeElement
  <2>3. /\ heap2orig' \in [Slot -> Slot] /\ orig2heap' \in [Slot -> Slot]
        /\ IndicesInverse' /\ keys' = Swapped(keys, i, q)
    <3> HIDE DEF i, q
    <3> QED BY <1>0, <1>1, <1>2, <2>1, <2>2, Exchanged
  <2>4. /\ OrderedBelow(Swapped(keys, i, q), nElements, q)
        /\ Bridged(Swapped(keys, i, q), nElements, 0, q)
    <3>1. keys[i] < keys[q]
      <4> HIDE DEF i, q
      <4> QED BY <1>0, <1>1, <1>3, <2>1, Keys DEF smaller
    <3> HIDE DEF i, q
    <3> QED BY <3>1, <1>1, <1>2, <2>1, SiftedUp
  <2>5. sift'.how = "up" /\ sift'.at = q /\ sift' \in Sift
    BY <1>2, <2>1, <2>2 DEF Up, Sift
  <2>6. q < nElements
    <3>1. q \in Int /\ i \in Int /\ nElements \in Int
      BY <1>1, <1>2, <2>1, HeapAssumption DEF Slot
    <3> HIDE DEF i, q
    <3> QED BY <3>1, <1>1, <2>1
  <2>7. inHeap' = inHeap
    <3> HIDE DEF i, q
    <3> QED BY <1>0, <1>1, <1>2, <2>1, <2>2, <2>6, ExchangeKeepsElements
  <2>8. SiftInv'
    BY <1>2, <2>3, <2>4, <2>5, <2>6 DEF SiftInv
  <2>9. HeapTypeOK'
    BY <1>0, <1>2, <2>3, <2>5 DEF HeapTypeOK
  <2> QED BY <1>2, <2>3, <2>7, <2>8, <2>9 DEF IInv, Queue!vars
<1>4. CASE ~(i > 0 /\ smaller(i, q))
  <2>1. sift' = Idle /\ UNCHANGED <<heap2orig, orig2heap>>
    BY <1>4 DEF changeElement
  <2>2. keys' = keys /\ inHeap' = inHeap /\ IndicesInverse'
    BY <1>0, <1>2, <2>1 DEF keys, at, inHeap, IndicesInverse
  <2>3. sift' \in Sift /\ sift'.how = "none"
    BY <1>2, <2>1 DEF Idle, Sift
  <2>4. IsHeap(keys, nElements)
    <3>1. SUFFICES ASSUME NEW p \in Slot, Child(p, i)
                   PROVE  keys[p] <= keys[i]
      <4>1. \A p, c \in Slot : Child(p, c) /\ c < nElements /\ c # i => keys[p] <= keys[c]
        BY <1>1 DEF OrderedBelow
      <4> QED BY <3>1, <4>1 DEF IsHeap
    <3>2. i \in Int /\ p \in Int /\ p >= 0
      BY <1>1, HeapAssumption DEF Slot
    <3>3. i > 0
      BY <3>1, <3>2, ChildFacts
    <3>4. q \in Slot /\ Child(q, i)
      BY <1>1, <3>3, ParentIsAbove
    <3>5. q = p
      <4>1. q \in Int
        BY <3>4, HeapAssumption DEF Slot
      <4> HIDE DEF i, q
      <4> QED BY <4>1, <3>1, <3>2, <3>4, ChildFacts
    <3>6. ~(keys[i] < keys[q]) /\ keys[i] \in Int /\ keys[q] \in Int
      <4> HIDE DEF i, q
      <4> QED BY <1>0, <1>1, <1>4, <3>3, <3>4, Keys DEF smaller
    <3> HIDE DEF i, q
    <3> QED BY <3>5, <3>6
  <2>5. SiftInv'
    BY <1>2, <2>2, <2>3, <2>4 DEF SiftInv
  <2> QED BY <1>0, <1>2, <2>1, <2>2, <2>3, <2>5 DEF IInv, HeapTypeOK, Queue!vars
<1> QED BY <1>3, <1>4

LEMMA IdleIsHeap == IInv /\ sift = Idle => IsHeap(keys, nElements)
BY DEF IInv, SiftInv, Idle

\* A heap of all the elements has all of them.
LEMMA AllInHeap ==
    ASSUME HeapTypeOK, IndicesInverse, nElements = N
    PROVE  inHeap = Slot
<1>1. \A e \in Slot : orig2heap[e] < nElements
  BY HeapAssumption DEF HeapTypeOK, Slot
<1> QED BY <1>1, InHeap DEF placed

LEMMA BuildHeapSteps ==
    ASSUME IInv, elems' \in [Slot -> Key], buildHeap(elems')
    PROVE  IInv' /\ Queue!Fill
<1> DEFINE h == N \div 2
<1>1. h \in Slot /\ 2 * h + 2 > N /\ N \in Nat
  <2>1. N \in Nat /\ N > 0
    BY HeapAssumption
  <2>2. h \in Nat /\ (N = 2 * h \/ N = 2 * h + 1)
    BY <2>1, SMT
  <2> QED BY <2>1, <2>2 DEF Slot
<1>2. identity \in [Slot -> Slot] /\ 0 \in Slot
  BY HeapAssumption DEF identity, Slot
<1>3. /\ heap2orig' = identity /\ orig2heap' = identity /\ nElements' = N
      /\ sift' = Down(h, h) /\ extracted' = extracted
  BY DEF buildHeap
<1>4. HeapTypeOK'
  <2>1. sift' \in Sift
    BY <1>1, <1>3 DEF Down, Sift
  <2>2. N \in 0 .. N
    BY <1>1
  <2> QED BY <2>1, <2>2, <1>2, <1>3 DEF HeapTypeOK, IInv
<1>5. IndicesInverse'
  BY <1>3 DEF IndicesInverse, identity
<1>6. SiftInv'
  <2>1. sift'.how = "down" /\ sift'.at = h /\ sift'.from = h
    BY <1>3 DEF Down
  <2>2. ASSUME NEW p \in Slot, NEW c \in Slot, Child(p, c), c < N, h <= p, p # h
        PROVE  FALSE
    BY <1>1, <2>2 DEF Child, left, right, Slot
  <2>3. ASSUME NEW p \in Slot, Child(p, h), h <= p
        PROVE  FALSE
    <3>1. p \in Int /\ p >= 0 /\ h \in Int
      BY <1>1 DEF Slot
    <3> HIDE DEF h
    <3> QED BY <2>3, <3>1, ChildFacts
  <2>4. Ordered(keys', nElements', h, h)
    <3> HIDE DEF h
    <3> QED BY <1>3, <2>2 DEF Ordered
  <2>5. Bridged(keys', nElements', h, h)
    <3> HIDE DEF h
    <3> QED BY <2>3 DEF Bridged
  <2>6. h <= h
    BY <1>1 DEF Slot
  <2> HIDE DEF h
  <2> QED BY <2>1, <2>4, <2>5, <2>6 DEF SiftInv
<1>7. inHeap' = Slot
  <2>1. (HeapTypeOK /\ IndicesInverse /\ nElements = N => inHeap = Slot)'
    BY AllInHeap, PTL
  <2> QED BY <1>3, <1>4, <1>5, <2>1
<1>8. [e \in inHeap |-> elems[e]]' \in [Slot -> Key]
  BY <1>7
<1> QED BY <1>3, <1>4, <1>5, <1>6, <1>8 DEF IInv, Queue!Fill

LEMMA InitSteps ==
    ASSUME IInv, elems' \in [Slot -> Key], NEW root \in Slot, NEW i \in Slot,
           elems'[root] <= elems'[i], init(elems'[i], root, elems'[root])
    PROVE  IInv' /\ Queue!Fill
<1> DEFINE val == elems'[i]
           least == elems'[root]
           swapped == [identity EXCEPT ![0] = root, ![root] = 0]
<1>1. 0 \in Slot /\ N \in Nat /\ N \in 0 .. N /\ \A p \in Slot : p >= 0
  BY HeapAssumption DEF Slot
<1>2. /\ heap2orig' = swapped /\ orig2heap' = swapped /\ nElements' = N
      /\ elems' = [e \in Slot |-> IF e = root THEN least ELSE val]
      /\ UNCHANGED <<sift, extracted>> /\ sift = Idle
  BY DEF init
<1>3. /\ swapped \in [Slot -> Slot] /\ swapped[0] = root /\ swapped[root] = 0
      /\ \A p \in Slot : p # 0 => swapped[p] # root
      /\ \A p \in Slot : swapped[swapped[p]] = p
  BY <1>1 DEF identity
<1>4. HeapTypeOK'
  <2> HIDE DEF swapped
  <2> QED BY <1>1, <1>2, <1>3 DEF HeapTypeOK, IInv
<1>5. IndicesInverse'
  <2> HIDE DEF swapped
  <2> QED BY <1>2, <1>3 DEF IndicesInverse
<1>6. IsHeap(keys', nElements')
  <2>1. keys' = [p \in Slot |-> elems'[swapped[p]]]
    BY <1>2 DEF keys, at
  <2>2. keys'[0] = least /\ \A p \in Slot : p # 0 => keys'[p] = val
    <3> HIDE DEF swapped
    <3>1. keys'[0] = elems'[root]
      BY <1>1, <1>3, <2>1
    <3>2. ASSUME NEW p \in Slot, p # 0 PROVE keys'[p] = val
      <4>1. swapped[p] \in Slot /\ swapped[p] # root
        BY <1>3, <3>2
      <4> HIDE DEF val, least
      <4> QED BY <1>2, <2>1, <4>1
    <3> QED BY <3>1, <3>2
  <2>3. val \in Int /\ least \in Int /\ least <= val
    BY HeapAssumption DEF Key
  <2>4. ASSUME NEW p \in Slot, NEW c \in Slot, Child(p, c) PROVE keys'[p] <= keys'[c]
    <3>1. c # 0
      <4>1. p \in Int /\ p >= 0 /\ c \in Int
        BY <1>1 DEF Slot
      <4> QED BY <4>1, <2>4, ChildFacts
    <3> HIDE DEF val, least
    <3> QED BY <3>1, <2>2, <2>3
  <2> QED BY <2>4 DEF IsHeap
<1>7. SiftInv'
  <2>1. sift'.how = "none"
    BY <1>2 DEF Idle
  <2> QED BY <1>6, <2>1 DEF SiftInv
<1>8. inHeap' = Slot
  <2>1. (HeapTypeOK /\ IndicesInverse /\ nElements = N => inHeap = Slot)'
    BY AllInHeap, PTL
  <2> QED BY <1>2, <1>4, <1>5, <2>1
<1>9. [e \in inHeap |-> elems[e]]' \in [Slot -> Key]
  BY <1>8
<1> QED BY <1>2, <1>4, <1>5, <1>7, <1>9 DEF IInv, Queue!Fill

\* The element taken from the root is one with a least key, and it is the one
\* that is no longer in the heap.
LEMMA ExtractRootSteps ==
    ASSUME IInv, extractRoot
    PROVE  IInv' /\ \E e \in Slot : Queue!ExtractMin(e)
<1> DEFINE m == nElements - 1
<1>0. HeapTypeOK /\ IndicesInverse /\ IsHeap(keys, nElements) /\ sift = Idle
  BY IdleIsHeap DEF IInv, extractRoot
<1>1. /\ 0 \in Slot /\ m \in Slot /\ m \in 0 .. N /\ N \in Nat /\ nElements \in 0 .. N
      /\ nElements > 0 /\ 0 .. nElements - 1 \subseteq Slot
  <2>1. N \in Nat /\ N > 0 /\ nElements \in 0 .. N /\ nElements > 0
    BY HeapAssumption DEF IInv, HeapTypeOK, extractRoot
  <2> QED BY <2>1 DEF Slot
<1>e. PICK e \in Slot : e = heap2orig[0]
  BY <1>0, <1>1 DEF HeapTypeOK
<1>2. /\ exchange(0, m) /\ nElements' = m /\ sift' = Down(0, 0) /\ elems' = elems
      /\ extracted' = e /\ e \in Slot
  BY <1>0, <1>1, <1>e DEF extractRoot, HeapTypeOK
<1>3. /\ heap2orig' \in [Slot -> Slot] /\ orig2heap' \in [Slot -> Slot]
      /\ IndicesInverse' /\ keys' = Swapped(keys, 0, m)
  <2> HIDE DEF m
  <2> QED BY <1>0, <1>1, <1>2, Exchanged
<1>4. HeapTypeOK'
  <2>1. sift' \in Sift
    BY <1>1, <1>2 DEF Down, Sift
  <2> HIDE DEF m
  <2> QED BY <1>0, <1>1, <1>2, <1>3, <2>1 DEF HeapTypeOK
<1>5. SiftInv'
  <2>1. sift'.how = "down" /\ sift'.at = 0 /\ sift'.from = 0
    BY <1>2 DEF Down
  <2>2. keys \in [Slot -> Key]
    BY <1>0, Keys
  <2>3. ASSUME NEW p \in Slot, NEW c \in Slot, Child(p, c), c < m, p # 0
        PROVE  keys'[p] <= keys'[c]
    <3>1. p < c /\ p # 0 /\ p # m /\ c # 0 /\ c # m /\ c < nElements
      <4>1. p \in Int /\ p >= 0 /\ c \in Int /\ nElements \in Int
        BY <1>1 DEF Slot
      <4>2. p < c
        BY <4>1, <2>3, ChildFacts
      <4> QED BY <4>1, <4>2, <2>3
    <3>2. keys'[p] = keys[p] /\ keys'[c] = keys[c]
      <4> HIDE DEF m
      <4> QED BY <3>1, <1>1, <1>3, <2>2 DEF Swapped
    <3> QED BY <3>1, <3>2, <1>0, <2>3 DEF IsHeap
  <2>4. Ordered(keys', m, 0, 0)
    <3> HIDE DEF m
    <3> QED BY <2>3 DEF Ordered
  <2>5. Bridged(keys', m, 0, 0)
    <3>1. \A p \in Slot : ~Child(p, 0)
      BY HeapAssumption DEF Slot, Child, left, right
    <3> QED BY <3>1 DEF Bridged
  <2> HIDE DEF m
  <2> QED BY <1>2, <2>1, <2>4, <2>5 DEF SiftInv
<1>6. \A p \in 0 .. nElements - 1 : elems[e] <= elems[heap2orig[p]]
  <2>1. keys \in [Slot -> Key] /\ \A p \in Slot : keys[p] = elems[heap2orig[p]]
    BY <1>0, Keys DEF at
  <2>2. \A p \in 0 .. nElements - 1 : keys[0] <= keys[p]
    BY <1>0, <1>1, <2>1, RootIsLeast
  <2> QED BY <1>1, <1>e, <2>1, <2>2
<1>7. inHeap' = inHeap \ {e}
  <2>1. /\ orig2heap'[heap2orig[m]] = 0 /\ orig2heap'[e] = m
        /\ \A f \in Slot \ {heap2orig[m], e} : orig2heap'[f] = orig2heap[f]
    <3> HIDE DEF m
    <3> QED BY <1>0, <1>1, <1>2, <1>e DEF exchange, HeapTypeOK, IndicesInverse
  <2>2. \A f \in Slot : f \in inHeap <=> orig2heap[f] < nElements
    BY <1>0, InHeap DEF placed
  <2>3. \A f \in Slot : f \in inHeap' <=> orig2heap'[f] < m
    <3>1. (HeapTypeOK /\ IndicesInverse => inHeap = placed)'
      BY InHeap, PTL
    <3> QED BY <3>1, <1>2, <1>3, <1>4 DEF placed
  <2>4. inHeap \subseteq Slot /\ inHeap' \subseteq Slot
    <3>1. (HeapTypeOK => inHeap \subseteq Slot)'
      BY InHeapSlots, PTL
    <3> QED BY <3>1, <1>0, <1>4, InHeapSlots
  <2>5. ASSUME NEW f \in Slot PROVE f \in inHeap' <=> f \in inHeap /\ f # e
    <3>1. CASE f = e
      <4>1. ~(m < m)
        BY <1>1 DEF Slot
      <4> QED BY <4>1, <3>1, <2>1, <2>3
    <3>2. CASE f # e /\ f = heap2orig[m]
      <4>1. orig2heap[f] = m /\ m < nElements /\ m # 0
        BY <3>2, <1>0, <1>1, <1>e DEF IndicesInverse
      <4>2. 0 < m
        BY <4>1, <1>1
      <4> QED BY <4>1, <4>2, <3>2, <2>1, <2>2, <2>3
    <3>3. CASE f # e /\ f # heap2orig[m]
      <4>1. orig2heap'[f] = orig2heap[f]
        BY <3>3, <2>1
      <4>2. orig2heap[f] \in Slot /\ orig2heap[f] # m
        BY <3>3, <1>0 DEF HeapTypeOK, IndicesInverse
      <4>3. orig2heap[f] < m <=> orig2heap[f] < nElements
        BY <4>2, <1>1 DEF Slot
      <4> QED BY <4>1, <4>3, <3>3, <2>2, <2>3
    <3> QED BY <3>1, <3>2, <3>3
  <2> QED BY <2>4, <2>5
<1>8. Queue!ExtractMin(e)
  <2> DEFINE queue == [f \in inHeap |-> elems[f]]
  <2>1. DOMAIN queue = inHeap /\ \A f \in inHeap : queue[f] = elems[f]
    OBVIOUS
  <2>2. e \in inHeap
    BY <1>1, <1>e DEF inHeap
  <2>3. \A f \in inHeap : queue[e] <= queue[f]
    <3> HIDE DEF queue
    <3> QED BY <1>6, <2>1, <2>2 DEF inHeap
  <2>4. queue' = [f \in inHeap \ {e} |-> queue[f]]
    BY <1>2, <1>7
  <2> QED BY <1>2, <2>1, <2>2, <2>3, <2>4 DEF Queue!ExtractMin
<1> QED BY <1>2, <1>3, <1>4, <1>5, <1>8 DEF IInv

LEMMA ChangeOrigElementSteps ==
    ASSUME IInv, elems' \in [Slot -> Key], NEW i \in Slot,
           mayChange(i, elems'[i]), changeOrigElement(i, elems'[i])
    PROVE  IInv' /\ \E key \in Key : Queue!Decrease(i, key)
<1> DEFINE u == orig2heap[i]
<1>k. PICK key \in Key : key = elems'[i]
  OBVIOUS
<1>0. HeapTypeOK /\ IndicesInverse /\ IsHeap(keys, nElements) /\ sift = Idle
  BY IdleIsHeap DEF IInv, changeOrigElement
<1>1. /\ elems' = [elems EXCEPT ![i] = key] /\ sift' = Up(u)
      /\ UNCHANGED <<heap2orig, orig2heap, nElements, extracted>>
      /\ u \in Slot /\ u < nElements /\ key \in Key /\ key <= elems[i]
      /\ heap2orig[u] = i /\ 0 \in Slot
  BY <1>0, <1>k, HeapAssumption DEF changeOrigElement, mayChange, HeapTypeOK, IndicesInverse, Slot
<1>2. HeapTypeOK' /\ IndicesInverse' /\ inHeap' = inHeap
  <2>1. sift' \in Sift
    BY <1>1 DEF Up, Sift
  <2>2. HeapTypeOK'
    BY <1>0, <1>1, <2>1 DEF HeapTypeOK
  <2> QED BY <1>0, <1>1, <2>2 DEF IndicesInverse, inHeap
<1>3. /\ keys \in [Slot -> Key] /\ keys' \in [Slot -> Key]
      /\ \A p \in Slot : keys[p] \in Int /\ keys'[p] \in Int
      /\ keys'[u] = key /\ keys[u] = elems[i]
      /\ \A p \in Slot : p # u => keys'[p] = keys[p]
  <2>1. /\ keys = [p \in Slot |-> elems[heap2orig[p]]]
        /\ keys' = [p \in Slot |-> elems'[heap2orig[p]]]
    BY <1>1 DEF keys, at
  <2>2. \A p \in Slot : heap2orig[p] \in Slot /\ (p # u => heap2orig[p] # i)
    BY <1>0 DEF HeapTypeOK, IndicesInverse
  <2>3. Key \subseteq Int
    BY HeapAssumption DEF Key
  <2>4. keys \in [Slot -> Key] /\ keys' \in [Slot -> Key]
    BY <1>0, <2>1, <2>2 DEF HeapTypeOK
  <2>5. keys'[u] = key /\ keys[u] = elems[i]
    BY <1>1, <2>1
  <2>6. ASSUME NEW p \in Slot, p # u PROVE keys'[p] = keys[p]
    <3>1. elems'[heap2orig[p]] = elems[heap2orig[p]]
      BY <1>0, <1>1, <2>2, <2>6 DEF HeapTypeOK
    <3> QED BY <3>1, <2>1
  <2> QED BY <2>3, <2>4, <2>5, <2>6
<1>4. SiftInv'
  <2>1. sift'.how = "up" /\ sift'.at = u
    BY <1>1 DEF Up
  <2>2. ASSUME NEW p \in Slot, NEW c \in Slot, Child(p, c), c < nElements, c # u
        PROVE  keys'[p] <= keys'[c]
    <3>1. keys[p] <= keys[c]
      BY <1>0, <2>2 DEF IsHeap
    <3>2. CASE p = u
      <4>1. key <= keys[u]
        BY <1>1, <1>3
      <4> HIDE DEF u
      <4> QED BY <3>1, <3>2, <4>1, <1>3, <2>2
    <3>3. CASE p # u
      <4> HIDE DEF u
      <4> QED BY <3>1, <3>3, <1>3, <2>2
    <3> QED BY <3>2, <3>3
  <2>3. ASSUME NEW p \in Slot, NEW c \in Slot, Child(p, u), Child(u, c), c < nElements
        PROVE  keys'[p] <= keys'[c]
    <3>1. p # u /\ c # u
      <4>1. p \in Int /\ p >= 0 /\ u \in Int /\ c \in Int /\ u >= 0
        BY <1>1, HeapAssumption DEF Slot
      <4> HIDE DEF u
      <4> QED BY <4>1, <2>3, ChildFacts
    <3>2. keys[p] <= keys[u] /\ keys[u] <= keys[c]
      BY <1>0, <1>1, <2>3 DEF IsHeap
    <3> HIDE DEF u
    <3> QED BY <3>1, <3>2, <1>1, <1>3
  <2> HIDE DEF u
  <2>4. OrderedBelow(keys', nElements', u)
    BY <1>1, <2>2 DEF OrderedBelow
  <2>5. Bridged(keys', nElements', 0, u)
    BY <1>1, <2>3 DEF Bridged
  <2> QED BY <1>1, <2>1, <2>4, <2>5 DEF SiftInv
<1>5. Queue!Decrease(i, key)
  <2> DEFINE queue == [e \in inHeap |-> elems[e]]
  <2>1. i \in inHeap /\ inHeap \subseteq Slot
    BY <1>0, <1>1, InHeap, InHeapSlots DEF placed
  <2>2. queue' = [queue EXCEPT ![i] = key]
    <3>1. queue' = [e \in inHeap |-> elems'[e]]
      BY <1>2
    <3>2. \A e \in inHeap : elems'[e] = [queue EXCEPT ![i] = key][e]
      BY <1>0, <1>1, <2>1 DEF HeapTypeOK
    <3> QED BY <3>1, <3>2
  <2>3. DOMAIN queue = inHeap /\ queue[i] = elems[i]
    BY <2>1
  <2> QED BY <1>1, <2>1, <2>2, <2>3 DEF Queue!Decrease
<1>6. \E k \in Key : Queue!Decrease(i, k)
  BY <1>5
<1>7. IInv'
  BY <1>2, <1>4 DEF IInv
<1> QED BY <1>6, <1>7

-----------------------------------------------------------------------------
LEMMA InvariantInit == HeapInit => IInv
<1> SUFFICES ASSUME HeapInit PROVE IInv
  OBVIOUS
<1>1. 0 \in Slot /\ 0 \in Key /\ 0 \in 0 .. N
  BY HeapAssumption DEF Slot, Key
<1>2. HeapTypeOK
  BY <1>1 DEF HeapInit, HeapTypeOK, identity, Idle, Sift
<1>3. IndicesInverse
  BY DEF HeapInit, IndicesInverse, identity
<1>4. IsHeap(keys, nElements)
  BY HeapAssumption DEF HeapInit, IsHeap, Slot
<1>5. SiftInv
  BY <1>4 DEF SiftInv, HeapInit, Idle
<1> QED BY <1>2, <1>3, <1>5 DEF IInv

LEMMA EmptyQueueInit == HeapInit => Queue!Init
BY DEF HeapInit, Queue!Init, inHeap

LEMMA StepsImplement ==
    ASSUME IInv, [HeapNext]_heapVars
    PROVE  IInv' /\ [Queue!Next]_(Queue!vars)
<1>1. CASE heapify
  BY <1>1, HeapifySteps
<1>2. CASE changeElement
  BY <1>2, ChangeElementSteps
<1>3. CASE extractRoot
  BY <1>3, ExtractRootSteps DEF Queue!Next
<1>4. CASE /\ elems' \in [Slot -> Key]
           /\ \/ buildHeap(elems')
              \/ \E root, i \in Slot :
                    elems'[root] <= elems'[i] /\ init(elems'[i], root, elems'[root])
              \/ \E i \in Slot :
                    mayChange(i, elems'[i]) /\ changeOrigElement(i, elems'[i])
  <2>1. CASE buildHeap(elems')
    BY <1>4, <2>1, BuildHeapSteps DEF Queue!Next
  <2>2. ASSUME NEW root \in Slot, NEW i \in Slot,
               elems'[root] <= elems'[i], init(elems'[i], root, elems'[root])
        PROVE  IInv' /\ Queue!Next
    BY <1>4, <2>2, InitSteps DEF Queue!Next
  <2>3. ASSUME NEW i \in Slot,
               mayChange(i, elems'[i]), changeOrigElement(i, elems'[i])
        PROVE  IInv' /\ Queue!Next
    BY <1>4, <2>3, ChangeOrigElementSteps DEF Queue!Next
  <2> QED BY <1>4, <2>1, <2>2, <2>3
<1>5. CASE UNCHANGED heapVars
  BY <1>5 DEF heapVars, IInv, HeapTypeOK, IndicesInverse, SiftInv, keys, at, Queue!vars, inHeap
<1>6. HeapNext \/ UNCHANGED heapVars
  OBVIOUS
<1> QED BY <1>1, <1>2, <1>3, <1>4, <1>5, <1>6, Zenon DEF HeapNext

\* The invariant is kept.
THEOREM InvariantHolds == HeapSpec => []IInv
<1>1. IInv /\ [HeapNext]_heapVars => IInv'
  BY StepsImplement
<1> QED BY <1>1, InvariantInit, PTL DEF HeapSpec

\* The arrays hold places and elements, whatever is asked of the heap.
THEOREM TypeCorrect == HeapSpec => []HeapTypeOK
<1>1. IInv => HeapTypeOK
  BY DEF IInv
<1> QED BY <1>1, InvariantHolds, PTL

\* The index arrays stay inverse permutations (exchange).
THEOREM StaysInverse == HeapSpec => []IndicesInverse
<1>1. IInv => IndicesInverse
  BY DEF IInv
<1> QED BY <1>1, InvariantHolds, PTL

\* Whatever the operations were, the heap is in order when it is next asked
\* (heapify, changeElement).
THEOREM StaysInOrder == HeapSpec => []HeapOrder
<1>1. IInv => HeapOrder
  <2> SUFFICES ASSUME IInv, sift = Idle, NEW i \in Slot
               PROVE  /\ left(i) < nElements => at(i) <= at(left(i))
                      /\ right(i) < nElements => at(i) <= at(right(i))
    BY DEF HeapOrder
  <2>1. IsHeap(keys, nElements) /\ HeapTypeOK
    BY IdleIsHeap DEF IInv
  <2>2. left(i) \in Nat /\ right(i) \in Nat
    BY HeapAssumption DEF Slot, left, right
  <2>3. /\ left(i) < nElements => left(i) \in Slot
        /\ right(i) < nElements => right(i) \in Slot
    BY <2>1, <2>2, Keys
  <2>4. /\ left(i) < nElements => keys[i] <= keys[left(i)]
        /\ right(i) < nElements => keys[i] <= keys[right(i)]
    BY <2>1, <2>3 DEF IsHeap, Child
  <2> QED BY <2>1, <2>3, <2>4, Keys
<1> QED BY <1>1, InvariantHolds, PTL

\* To its callers the heap is a priority queue: every extraction gives a least
\* element, although elements are only moved along one path at a time.
THEOREM HeapIsQueue == HeapSpec => ImplementsQueue
<1>1. IInv /\ [HeapNext]_heapVars => [Queue!Next]_(Queue!vars)
  BY StepsImplement
<1> QED BY <1>1, InvariantHolds, EmptyQueueInit, PTL DEF HeapSpec, ImplementsQueue, Queue!Spec
=============================================================================
