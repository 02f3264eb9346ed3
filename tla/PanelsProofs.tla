---------------------------- MODULE PanelsProofs ----------------------------
(***************************************************************************)
(* Proofs about Panels, for any datasets, fields and levels and any number *)
(* of inputs.  What is shown is right because of the order in which the    *)
(* commands wait: the fields of a dataset before its embeddings, and the   *)
(* dataset chosen last after all others; and because an answer says which  *)
(* window asked for it.  What a window settles on is right because the     *)
(* last command of each kind is for what its panel has chosen.             *)
(***************************************************************************)
EXTENDS Panels, FiniteSetTheorems, TLAPS

PanelType ==
    [mode : {"Morse-Smale", "Shared-GP"}, category : Category \cup {None},
     field : Field \cup {None},
     maxPersistence : Level \cup {None, Undefined},
     persistenceLevel : Level \cup {None, Undefined},
     crystals : AnalysisType \cup {None}]

\* What a window asks for is of a window that was made, and of the dataset
\* shown if the window is still there.
AskedWell(r, made, open, d) ==
    /\ r.kind \in Analysis =>
        /\ r.origin \in 1 .. made
        /\ r.kind # "fetchMorseSmalePersistence" => r.level \in Level
        /\ open = 1 /\ r.origin = made => r.dataset = d
    /\ r.kind = "fetchField" => r.category \in Category /\ r.field \in Field

WireOK(w, made, open, d) ==
    \A i \in 1 .. Len(w) : AskedWell(w[i], made, open, d)

Known(c, u, o, x) ==
    \/ x \in c[o]
    \/ \E r \in u : /\ r.kind = "fetchField" /\ r.origin = o
                    /\ <<r.category, r.field>> = x

Asked(w, i, o, x) ==
    \E j \in 1 .. i - 1 : /\ w[j].kind = "fetchField" /\ w[j].origin = o
                          /\ <<w[j].category, w[j].field>> = x

\* A list of embeddings comes after all the fields of its dataset.
FieldsAhead(w, c, u) ==
    \A i \in 1 .. Len(w) : w[i].kind = "fetchEmbeddingsList" =>
        /\ w[i].origin \in 1 .. Len(c)
        /\ \A x \in Listed[w[i].dataset] :
              Known(c, u, w[i].origin, x) \/ Asked(w, i, w[i].origin, x)

LastOf(w, kind, d) ==
    \A i \in 1 .. Len(w) :
        w[i].kind = kind /\ (\A j \in i + 1 .. Len(w) : w[j].kind # kind)
            => w[i].dataset = d
Without(w, kind) == \A i \in 1 .. Len(w) : w[i].kind # kind

\* The dataset called name is asked for last, or else its embeddings are, or
\* else it is shown.
LastChosen(w, name, described, shown) ==
    /\ LastOf(w, "fetchDataset", name)
    /\ Without(w, "fetchDataset") =>
        /\ described = name
        /\ LastOf(w, "fetchEmbeddingsList", name)
        /\ Without(w, "fetchEmbeddingsList") => shown = name

WindowOK(a, p, dec, sc) ==
    /\ a.windows = 1 => a.currentDataset \in Dataset
    /\ a.windows = 0 => p.crystals = None /\ dec = None /\ sc = {}

Chosen(u, dp, w, a) ==
    u = {} /\ dp.datasetName # None =>
        LastChosen(w, dp.datasetName, dp.dataset, a.currentDataset)

IInv ==
    /\ TypeOK
    /\ WireOK(wire, instance, application.windows, application.currentDataset)
    /\ FieldsAhead(wire, collected, unanswered)
    /\ FieldsComplete
    /\ WindowOfCurrentDataset
    /\ WindowOK(application, panel, decomposition, scene)
    /\ Chosen(unanswered, datasetPanel, wire, application)

-----------------------------------------------------------------------------
(* The queue.                                                              *)

\* w2 is w with its first k elements taken off and app added.
Follows(w2, w, k, app) ==
    /\ w2 \in Seq(Request) /\ w \in Seq(Request) /\ app \in Seq(Request)
    /\ k \in {0, 1} /\ k <= Len(w)
    /\ Len(w2) = Len(w) - k + Len(app)
    /\ \A i \in 1 .. Len(w) - k : w2[i] = w[i + k]
    /\ \A i \in 1 .. Len(app) : w2[Len(w) - k + i] = app[i]

\* What is asked joins the end of the queue.
LEMMA Joined ==
    ASSUME NEW w \in Seq(Request), NEW app \in Seq(Request)
    PROVE  Follows(w \o app, w, 0, app)
BY DEF Follows

\* What is answered leaves the head of it.
LEMMA Popped ==
    ASSUME NEW w \in Seq(Request), w # <<>>, NEW app \in Seq(Request)
    PROVE  /\ Follows(Tail(w) \o app, w, 1, app)
           /\ Head(w) = w[1] /\ Head(w) \in Request
           /\ 1 \in 1 .. Len(w)
<1>1. /\ Len(w) \in Nat /\ Len(w) > 0 /\ Head(w) = w[1]
      /\ Tail(w) \in Seq(Request) /\ Len(Tail(w)) = Len(w) - 1
  OBVIOUS
<1>2. \A i \in 1 .. Len(w) - 1 : Tail(w)[i] = w[i + 1]
  BY <1>1
<1>3. /\ Len(Tail(w) \o app) = Len(w) - 1 + Len(app)
      /\ Tail(w) \o app \in Seq(Request) /\ Len(app) \in Nat
  BY <1>1
<1>4. \A i \in 1 .. Len(w) - 1 : (Tail(w) \o app)[i] = w[i + 1]
  BY <1>1, <1>2
<1>5. \A i \in 1 .. Len(app) : (Tail(w) \o app)[Len(w) - 1 + i] = app[i]
  BY <1>1
<1> QED BY <1>1, <1>3, <1>4, <1>5 DEF Follows

LEMMA PoppedOnly ==
    ASSUME NEW w \in Seq(Request), w # <<>>
    PROVE  /\ Follows(Tail(w), w, 1, <<>>)
           /\ Head(w) = w[1] /\ Head(w) \in Request
           /\ 1 \in 1 .. Len(w)
<1>1. Tail(w) \o <<>> = Tail(w) /\ <<>> \in Seq(Request)
  OBVIOUS
<1> QED BY <1>1, Popped

\* Every place of the new queue is one of the old queue or one of what was added.
LEMMA Places ==
    ASSUME NEW w2, NEW w, NEW k, NEW app, Follows(w2, w, k, app),
           NEW i \in 1 .. Len(w2)
    PROVE  \/ i \in 1 .. Len(w) - k /\ i + k \in 1 .. Len(w) /\ w2[i] = w[i + k]
           \/ \E j \in 1 .. Len(app) : i = Len(w) - k + j /\ w2[i] = app[j]
<1>1. /\ Len(w) \in Nat /\ Len(app) \in Nat /\ k \in {0, 1} /\ k <= Len(w)
      /\ Len(w2) = Len(w) - k + Len(app) /\ i \in Int
  BY DEF Follows
<1>2. CASE i <= Len(w) - k
  <2>1. i \in 1 .. Len(w) - k /\ i + k \in 1 .. Len(w)
    BY <1>1, <1>2
  <2> QED BY <2>1 DEF Follows
<1>3. CASE i > Len(w) - k
  <2> DEFINE j == i - (Len(w) - k)
  <2>1. j \in 1 .. Len(app) /\ i = Len(w) - k + j
    BY <1>1, <1>3
  <2>2. w2[Len(w) - k + j] = app[j]
    BY <2>1 DEF Follows
  <2> QED BY <2>1, <2>2
<1> QED BY <1>1, <1>2, <1>3

LEMMA WireFollows ==
    ASSUME NEW w2, NEW w, NEW k, NEW app, Follows(w2, w, k, app),
           NEW made, NEW open, NEW d,
           WireOK(w, made, open, d), WireOK(app, made, open, d)
    PROVE  WireOK(w2, made, open, d)
<1> SUFFICES ASSUME NEW i \in 1 .. Len(w2)
             PROVE  AskedWell(w2[i], made, open, d)
  BY DEF WireOK
<1> QED BY Places DEF WireOK

\* A window that is made or removed has nothing on the wire.
LEMMA WireRenewed ==
    ASSUME NEW w \in Seq(Request), NEW made \in Nat, NEW open, NEW d,
           NEW made2 \in Nat, NEW open2, NEW d2, WireOK(w, made, open, d),
           made2 >= made, open2 = 0 \/ made2 > made
    PROVE  WireOK(w, made2, open2, d2)
<1> SUFFICES ASSUME NEW i \in 1 .. Len(w)
             PROVE  AskedWell(w[i], made2, open2, d2)
  BY DEF WireOK
<1>1. AskedWell(w[i], made, open, d)
  BY DEF WireOK
<1> QED BY <1>1 DEF AskedWell

\* An earlier place than i + k, other than the head that leaves, is a place
\* before i once the queue has moved up by k.
LEMMA MovesUp ==
    ASSUME NEW n \in Nat, NEW k \in {0, 1}, NEW i \in Nat, i + k <= n,
           NEW j \in 1 .. (i + k) - 1, ~(j = 1 /\ k = 1)
    PROVE  j - k \in 1 .. i - 1 /\ j - k \in 1 .. n - k /\ j - k + k = j
<1>1. CASE k = 0
  BY <1>1
<1>2. CASE k = 1
  BY <1>2
<1> QED BY <1>1, <1>2

\* Fields stay ahead of their embeddings when the field at the head becomes
\* known as it leaves.
LEMMA FieldsFollow ==
    ASSUME NEW w2, NEW w, NEW k, NEW app, Follows(w2, w, k, app),
           NEW c, NEW u, NEW c2, NEW u2, FieldsAhead(w, c, u),
           Len(c) \in Nat, Len(c2) \in Nat, Len(c) <= Len(c2),
           \A o \in 1 .. Len(c) : \A x : Known(c, u, o, x) => Known(c2, u2, o, x),
           k = 1 /\ w[1].kind = "fetchField" /\ w[1].origin \in 1 .. Len(c) =>
               Known(c2, u2, w[1].origin, <<w[1].category, w[1].field>>),
           FieldsAhead(app, c2, u2)
    PROVE  FieldsAhead(w2, c2, u2)
<1>0. Len(w) \in Nat /\ Len(app) \in Nat /\ k \in {0, 1} /\ k <= Len(w)
  BY DEF Follows
<1> SUFFICES ASSUME NEW i \in 1 .. Len(w2), w2[i].kind = "fetchEmbeddingsList"
             PROVE  /\ w2[i].origin \in 1 .. Len(c2)
                    /\ \A x \in Listed[w2[i].dataset] :
                          \/ Known(c2, u2, w2[i].origin, x)
                          \/ Asked(w2, i, w2[i].origin, x)
  BY DEF FieldsAhead
<1>1. CASE i \in 1 .. Len(w) - k /\ i + k \in 1 .. Len(w) /\ w2[i] = w[i + k]
  <2> DEFINE o == w2[i].origin
  <2>1. /\ o \in 1 .. Len(c)
        /\ \A x \in Listed[w2[i].dataset] :
              Known(c, u, o, x) \/ Asked(w, i + k, o, x)
    BY <1>1 DEF FieldsAhead
  <2>2. ASSUME NEW x, Asked(w, i + k, o, x)
        PROVE  Known(c2, u2, o, x) \/ Asked(w2, i, o, x)
    <3>1. \E j \in 1 .. (i + k) - 1 :
              /\ w[j].kind = "fetchField" /\ w[j].origin = o
              /\ <<w[j].category, w[j].field>> = x
      BY <2>2, Zenon DEF Asked
    <3>0. PICK j \in 1 .. (i + k) - 1 :
              /\ w[j].kind = "fetchField" /\ w[j].origin = o
              /\ <<w[j].category, w[j].field>> = x
      BY <3>1, Zenon
    <3>2. CASE j = 1 /\ k = 1
      BY <2>1, <3>0, <3>2
    <3>3. CASE ~(j = 1 /\ k = 1)
      <4>1. j - k \in 1 .. i - 1 /\ j - k \in 1 .. Len(w) - k /\ j - k + k = j
        <5>1. i \in Nat /\ i + k <= Len(w)
          BY <1>0, <1>1
        <5> QED BY <1>0, <3>0, <3>3, <5>1, MovesUp, Zenon
      <4>2. w2[j - k] = w[j]
        BY <4>1 DEF Follows
      <4> QED BY <3>0, <4>1, <4>2 DEF Asked
    <3> QED BY <3>2, <3>3
  <2>3. o \in 1 .. Len(c2)
    BY <2>1
  <2> QED BY <2>1, <2>2, <2>3
<1>2. CASE \E j \in 1 .. Len(app) : i = Len(w) - k + j /\ w2[i] = app[j]
  <2>1. PICK j \in 1 .. Len(app) : i = Len(w) - k + j /\ w2[i] = app[j]
    BY <1>2
  <2> DEFINE o == w2[i].origin
  <2>2. /\ o \in 1 .. Len(c2)
        /\ \A x \in Listed[w2[i].dataset] :
              Known(c2, u2, o, x) \/ Asked(app, j, o, x)
    BY <2>1 DEF FieldsAhead
  <2>3. ASSUME NEW x, Asked(app, j, o, x)
        PROVE  Asked(w2, i, o, x)
    <3>1. PICK m \in 1 .. j - 1 :
              /\ app[m].kind = "fetchField" /\ app[m].origin = o
              /\ <<app[m].category, app[m].field>> = x
      BY <2>3 DEF Asked
    <3>2. /\ m \in 1 .. Len(app)
          /\ Len(w) - k + m \in 1 .. i - 1
      BY <1>0, <2>1, <3>1, SMTT(30)
    <3>3. w2[Len(w) - k + m] = app[m]
      BY <3>2 DEF Follows
    <3> QED BY <3>1, <3>2, <3>3 DEF Asked
  <2> QED BY <2>2, <2>3
<1> QED BY <1>1, <1>2, Places

\* What is added without datasets and embeddings, and what is taken off that is
\* neither, changes nothing of which comes last.
LEMMA LastFollows ==
    ASSUME NEW w2, NEW w, NEW k, NEW app, Follows(w2, w, k, app),
           NEW kind, NEW d, Without(app, kind), k = 1 => w[1].kind # kind
    PROVE  /\ LastOf(w, kind, d) => LastOf(w2, kind, d)
           /\ Without(w2, kind) => Without(w, kind)
<1>0. Len(w) \in Nat /\ Len(app) \in Nat /\ k \in {0, 1} /\ k <= Len(w)
      /\ Len(w2) = Len(w) - k + Len(app)
  BY DEF Follows
<1>1. ASSUME LastOf(w, kind, d), NEW i \in 1 .. Len(w2), w2[i].kind = kind,
             \A j \in i + 1 .. Len(w2) : w2[j].kind # kind
      PROVE  w2[i].dataset = d
  <2>1. i \in 1 .. Len(w) - k /\ i + k \in 1 .. Len(w) /\ w2[i] = w[i + k]
    BY <1>1, Places DEF Without
  <2>2. ASSUME NEW j \in i + k + 1 .. Len(w)
        PROVE  w[j].kind # kind
    <3>1. j - k \in i + 1 .. Len(w2) /\ j - k \in 1 .. Len(w) - k /\ j - k + k = j
      BY <1>0, <2>1
    <3>2. w2[j - k] = w[j]
      BY <3>1 DEF Follows
    <3> QED BY <1>1, <3>1, <3>2
  <2> QED BY <1>1, <2>1, <2>2 DEF LastOf
<1>2. ASSUME Without(w2, kind), NEW j \in 1 .. Len(w)
      PROVE  w[j].kind # kind
  <2>1. CASE j = 1 /\ k = 1
    BY <2>1
  <2>2. CASE ~(j = 1 /\ k = 1)
    <3>1. j - k \in 1 .. Len(w2) /\ j - k \in 1 .. Len(w) - k /\ j - k + k = j
      BY <1>0, <2>2
    <3>2. w2[j - k] = w[j]
      BY <3>1 DEF Follows
    <3> QED BY <1>2, <3>1, <3>2 DEF Without
  <2> QED BY <2>1, <2>2
<1> QED BY <1>1, <1>2 DEF LastOf, Without

\* The head was the last of its kind if none is left.
LEMMA HeadWasLast ==
    ASSUME NEW w2, NEW w, NEW app, Follows(w2, w, 1, app),
           NEW kind, NEW d, Without(app, kind), w[1].kind = kind,
           LastOf(w, kind, d)
    PROVE  /\ LastOf(w2, kind, d)
           /\ Without(w2, kind) => w[1].dataset = d
<1>0. Len(w) \in Nat /\ Len(app) \in Nat /\ 1 <= Len(w)
      /\ Len(w2) = Len(w) - 1 + Len(app)
  BY DEF Follows
<1>1. ASSUME NEW i \in 1 .. Len(w2), w2[i].kind = kind,
             \A j \in i + 1 .. Len(w2) : w2[j].kind # kind
      PROVE  w2[i].dataset = d
  <2>0. ~\E j \in 1 .. Len(app) : i = Len(w) - 1 + j /\ w2[i] = app[j]
    BY <1>1 DEF Without
  <2>1. PICK k : k = 1
    OBVIOUS
  <2>2. \/ i \in 1 .. Len(w) - k /\ i + k \in 1 .. Len(w) /\ w2[i] = w[i + k]
        \/ \E j \in 1 .. Len(app) : i = Len(w) - k + j /\ w2[i] = app[j]
    <3>1. Follows(w2, w, k, app)
      BY <2>1
    <3> QED BY <3>1, Places
  <2>3. i \in 1 .. Len(w) - 1 /\ i + 1 \in 1 .. Len(w) /\ w2[i] = w[i + 1]
    BY <2>0, <2>1, <2>2
  <2>4. ASSUME NEW j \in i + 1 + 1 .. Len(w)
        PROVE  w[j].kind # kind
    <3>1. j - 1 \in i + 1 .. Len(w2) /\ j - 1 \in 1 .. Len(w) - 1 /\ j - 1 + 1 = j
      BY <1>0, <2>3
    <3>2. w2[j - 1] = w[j]
      BY <3>1 DEF Follows
    <3> QED BY <1>1, <3>1, <3>2
  <2> QED BY <1>1, <2>3, <2>4 DEF LastOf
<1>2. ASSUME Without(w2, kind)
      PROVE  w[1].dataset = d
  <2>1. ASSUME NEW j \in 1 + 1 .. Len(w)
        PROVE  w[j].kind # kind
    <3>1. j - 1 \in 1 .. Len(w2) /\ j - 1 \in 1 .. Len(w) - 1 /\ j - 1 + 1 = j
      BY <1>0
    <3>2. w2[j - 1] = w[j]
      BY <3>1 DEF Follows
    <3> QED BY <1>2, <3>1, <3>2 DEF Without
  <2>2. 1 \in 1 .. Len(w)
    BY <1>0
  <2> QED BY <2>1, <2>2 DEF LastOf
<1> QED BY <1>1, <1>2 DEF LastOf

\* The last of what is added is the last of the queue.
LEMMA AddedLast ==
    ASSUME NEW w2, NEW w, NEW k, NEW app, Follows(w2, w, k, app),
           NEW kind, NEW d, Len(app) > 0,
           app[Len(app)].kind = kind, app[Len(app)].dataset = d
    PROVE  LastOf(w2, kind, d) /\ ~Without(w2, kind)
<1>1. /\ Len(w) \in Nat /\ Len(app) \in Nat /\ k \in {0, 1} /\ k <= Len(w)
      /\ Len(w2) = Len(w) - k + Len(app)
  BY DEF Follows
<1>2. /\ Len(app) \in 1 .. Len(app) /\ Len(w2) \in 1 .. Len(w2)
      /\ \A i \in 1 .. Len(w2) : i # Len(w2) => Len(w2) \in i + 1 .. Len(w2)
  BY <1>1
<1>3. w2[Len(w2)] = app[Len(app)]
  BY <1>1, <1>2 DEF Follows
<1> QED BY <1>2, <1>3 DEF LastOf, Without

-----------------------------------------------------------------------------
(* What is asked.                                                          *)

LEMMA Levels ==
    /\ Level \subseteq Nat /\ 0 \in Level
    /\ None \notin Level /\ Undefined \notin Level
    /\ \A f \in Field : MaxLevel[f] \in Level /\ 0 .. MaxLevel[f] \subseteq Level
    /\ \A l \in Level : 0 .. l \subseteq Level
<1>1. \A f \in Field : MaxLevel[f] \in Nat
  BY ConstantsAssumption
<1>2. \A f \in Field : MaxLevel[f] \in Level /\ 0 .. MaxLevel[f] \subseteq Level
  BY <1>1 DEF Level
<1>3. Level \subseteq Nat /\ 0 \in Level
  BY <1>1, ConstantsAssumption DEF Level
<1>4. \A l \in Level : 0 .. l \subseteq Level
  BY <1>1 DEF Level
<1> QED BY <1>2, <1>3, <1>4, ConstantsAssumption

\* All elements of a finite set are in its sequence.
LEMMA AllInSequence ==
    ASSUME NEW S, IsFiniteSet(S)
    PROVE  /\ SetToSeq(S) \in Seq(S)
           /\ \A x \in S : \E i \in 1 .. Len(SetToSeq(S)) : SetToSeq(S)[i] = x
<1> DEFINE n == Cardinality(S)
           f == SetToSeq(S)
<1>1. n \in Nat /\ ExistsBijection(1 .. n, S)
  BY FS_CardinalityType
<1>2. \E g \in [1 .. n -> S] : IsInjective(g)
  BY <1>1 DEF ExistsBijection, Bijection, Injection, IsInjective
<1>3. f \in [1 .. n -> S] /\ IsInjective(f)
  BY <1>2 DEF SetToSeq
<1> HIDE DEF f
<1>4. f \in Injection(1 .. n, S)
  BY <1>3 DEF Injection, IsInjective
<1>5. IsFiniteSet(1 .. n) /\ Cardinality(1 .. n) = n
  BY <1>1, FS_Interval
<1>6. f \in Surjection(1 .. n, S)
  BY <1>4, <1>5, FS_Injection
<1>7. f \in Seq(S) /\ Len(f) = n
  BY <1>1, <1>3
<1>8. \A x \in S : \E i \in 1 .. n : f[i] = x
  BY <1>6 DEF Surjection
<1> QED BY <1>7, <1>8 DEF f

\* app asks for every field of d, and then for the embeddings.
FieldsFirst(app, call, d) ==
    /\ app \in Seq(Request) /\ Len(app) > 0
    /\ \A i \in 1 .. Len(app) :
         /\ app[i].kind = IF i = Len(app) THEN "fetchEmbeddingsList"
                                          ELSE "fetchField"
         /\ app[i].origin = call /\ app[i].dataset = d
         /\ i # Len(app) => app[i].category \in Category /\ app[i].field \in Field
    /\ \A x \in Listed[d] : \E i \in 1 .. Len(app) - 1 :
         <<app[i].category, app[i].field>> = x

\* So does onDatasetChange.
LEMMA FieldsThenEmbeddings ==
    ASSUME NEW call \in Nat, NEW d \in Dataset
    PROVE  /\ FieldsFirst(FetchFields(call, d) \o FetchEmbeddings(call, d), call, d)
           /\ FetchFields(call, d) \in Seq(Request)
           /\ FetchEmbeddings(call, d) \in Seq(Request)
<1> DEFINE ask == [x \in Listed[d] |-> Ask("fetchField", call, d, x[1], x[2], None)]
           S == {Ask("fetchField", call, d, x[1], x[2], None) : x \in Listed[d]}
           q == SetToSeq(S)
           e == Ask("fetchEmbeddingsList", call, d, None, None, None)
           app == q \o <<e>>
<1>1. Listed[d] \subseteq Category \X Field /\ IsFiniteSet(Listed[d])
  BY ConstantsAssumption
<1>2. ask \in Surjection(Listed[d], S)
  BY DEF Surjection
<1>3. IsFiniteSet(S)
  BY <1>1, <1>2, FS_Surjection
<1>4. \A y \in S : y \in Request /\ y.kind = "fetchField" /\ y.origin = call
                   /\ y.dataset = d /\ y.category \in Category /\ y.field \in Field
  BY <1>1 DEF Ask, Request
<1>5. e \in Request /\ e.kind = "fetchEmbeddingsList" /\ e.origin = call
      /\ e.dataset = d
  BY DEF Ask, Request
<1>6. /\ q \in Seq(S)
      /\ \A y \in S : \E i \in 1 .. Len(q) : q[i] = y
  BY <1>3, AllInSequence
<1>7. \A x \in Listed[d] : \E i \in 1 .. Len(q) : <<q[i].category, q[i].field>> = x
  <2> TAKE x \in Listed[d]
  <2>1. x = <<x[1], x[2]>>
    BY <1>1
  <2>2. /\ ask[x] \in S /\ ask[x].category = x[1] /\ ask[x].field = x[2]
    BY DEF Ask
  <2>3. PICK i \in 1 .. Len(q) : q[i] = ask[x]
    BY <1>6, <2>2
  <2> QED BY <2>1, <2>2, <2>3
<1>8. /\ app = FetchFields(call, d) \o FetchEmbeddings(call, d)
      /\ q = FetchFields(call, d) /\ <<e>> = FetchEmbeddings(call, d)
  BY DEF FetchFields, FetchEmbeddings
<1> HIDE DEF q, e, S
<1>9. /\ Len(app) = Len(q) + 1 /\ Len(q) \in Nat /\ app[Len(q) + 1] = e
      /\ \A i \in 1 .. Len(q) : app[i] = q[i] /\ q[i] \in S
  BY <1>6
<1>10. q \in Seq(Request)
  BY <1>4, <1>6
<1>11. app \in Seq(Request)
  BY <1>5, <1>10
<1> HIDE DEF app
<1>12. \A i \in 1 .. Len(app) :
         /\ app[i].kind = IF i = Len(app) THEN "fetchEmbeddingsList"
                                          ELSE "fetchField"
         /\ app[i].origin = call /\ app[i].dataset = d
         /\ i # Len(app) => app[i].category \in Category /\ app[i].field \in Field
  <2> TAKE i \in 1 .. Len(app)
  <2>1. CASE i = Len(app)
    BY <1>5, <1>9, <2>1
  <2>2. CASE i # Len(app)
    <3>1. i \in 1 .. Len(q)
      BY <1>9, <2>2
    <3> QED BY <1>4, <1>9, <2>2, <3>1
  <2> QED BY <2>1, <2>2
<1>13. \A x \in Listed[d] : \E i \in 1 .. Len(app) - 1 :
         <<app[i].category, app[i].field>> = x
  BY <1>7, <1>9
<1>14. FieldsFirst(app, call, d)
  BY <1>9, <1>11, <1>12, <1>13 DEF FieldsFirst
<1>15. q \in Seq(Request) /\ <<e>> \in Seq(Request)
  BY <1>5, <1>10
<1> QED BY <1>8, <1>14, <1>15, Zenon

-----------------------------------------------------------------------------
(* The steps.                                                              *)

\* Steps that ask for analyses, or are answers about one, leave the fields and
\* the datasets as they are.
LEMMA AnalysesIInv ==
    ASSUME IInv, NEW k \in {0, 1}, NEW app, Follows(wire', wire, k, app),
           \A i \in 1 .. Len(app) : app[i].kind \in Analysis,
           WireOK(app, instance, application.windows, application.currentDataset),
           k = 1 => wire[1].kind \in Analysis,
           UNCHANGED <<datasetPanel, application, collected, instance, former,
                       unanswered>>,
           loaded' \in Dataset \cup {None},
           panel' \in PanelType, scene' \subseteq AnalysisType,
           WindowOfCurrentDataset',
           WindowOK(application, panel', decomposition', scene')
    PROVE  IInv'
<1>0. PICK w2 : w2 = wire'
  OBVIOUS
<1>1. Follows(w2, wire, k, app)
  BY <1>0
<1>2. TypeOK'
  BY <1>0, <1>1 DEF IInv, TypeOK, PanelType, Follows
<1>3. WireOK(w2, instance, application.windows, application.currentDataset)
  BY <1>1, WireFollows DEF IInv
<1>4. FieldsAhead(w2, collected, unanswered)
  <2>1. FieldsAhead(app, collected, unanswered)
    BY DEF FieldsAhead, Analysis
  <2>2. Len(collected) \in Nat
    BY DEF IInv, TypeOK
  <2>3. k = 1 => wire[1].kind # "fetchField"
    BY DEF Analysis
  <2>4. FieldsAhead(wire, collected, unanswered) /\ Len(collected) <= Len(collected)
    BY <2>2 DEF IInv
  <2>5. k = 1 /\ wire[1].kind = "fetchField" /\ wire[1].origin \in 1 .. Len(collected)
            => Known(collected, unanswered, wire[1].origin,
                     <<wire[1].category, wire[1].field>>)
    BY <2>3
  <2> QED BY <1>1, <2>1, <2>2, <2>4, <2>5, FieldsFollow, Zenon
<1>5. ASSUME unanswered = {}, datasetPanel.datasetName # None
      PROVE  LastChosen(w2, datasetPanel.datasetName, datasetPanel.dataset,
                        application.currentDataset)
  <2>1. /\ Without(app, "fetchDataset") /\ Without(app, "fetchEmbeddingsList")
        /\ k = 1 => wire[1].kind # "fetchDataset"
        /\ k = 1 => wire[1].kind # "fetchEmbeddingsList"
    BY DEF Without, Analysis
  <2>2. LastChosen(wire, datasetPanel.datasetName, datasetPanel.dataset,
                   application.currentDataset)
    BY <1>5 DEF IInv, Chosen
  <2>3. \A d : /\ LastOf(wire, "fetchDataset", d) => LastOf(w2, "fetchDataset", d)
               /\ Without(w2, "fetchDataset") => Without(wire, "fetchDataset")
    BY <1>1, <2>1, LastFollows
  <2>4. \A d : /\ LastOf(wire, "fetchEmbeddingsList", d) =>
                      LastOf(w2, "fetchEmbeddingsList", d)
               /\ Without(w2, "fetchEmbeddingsList") =>
                      Without(wire, "fetchEmbeddingsList")
    BY <1>1, <2>1, LastFollows
  <2> QED BY <2>2, <2>3, <2>4 DEF LastChosen
<1>6. Chosen(unanswered', datasetPanel', wire', application')
  BY <1>0, <1>5 DEF Chosen
<1>7. FieldsComplete'
  BY DEF IInv, FieldsComplete
<1> QED BY <1>0, <1>2, <1>3, <1>4, <1>6, <1>7 DEF IInv

LEMMA InitIInv == Init => IInv
<1> SUFFICES ASSUME Init PROVE IInv
  OBVIOUS
<1>1. wire = <<>> /\ wire \in Seq(Request) /\ Len(wire) = 0
  BY DEF Init
<1>2. TypeOK
  <2>1. /\ collected \in Seq(SUBSET (Category \X Field)) /\ Len(collected) = 0
        /\ former \in Seq([dataset : Dataset, category : Category \cup {None},
                            field : Field \cup {None}]) /\ Len(former) = 0
    BY DEF Init
  <2>2. panel \in PanelType
    BY ConstantsAssumption DEF Init, NewPanel, PanelType
  <2> QED BY <1>1, <2>1, <2>2 DEF Init, TypeOK, PanelType
<1>3. /\ WireOK(wire, instance, application.windows, application.currentDataset)
      /\ FieldsAhead(wire, collected, unanswered)
  BY <1>1 DEF WireOK, FieldsAhead
<1>4. FieldsComplete /\ WindowOfCurrentDataset
  BY DEF Init, FieldsComplete, WindowOfCurrentDataset, NewPanel
<1>5. /\ WindowOK(application, panel, decomposition, scene)
      /\ Chosen(unanswered, datasetPanel, wire, application)
  BY DEF Init, WindowOK, Chosen, NewPanel
<1> QED BY <1>2, <1>3, <1>4, <1>5 DEF IInv

\* What the invariant says of the window and its commands, for the steps of it.
LEMMA WindowFacts ==
    ASSUME IInv
    PROVE  /\ wire \in Seq(Request) /\ panel \in PanelType
           /\ scene \subseteq AnalysisType /\ loaded \in Dataset \cup {None}
           /\ instance \in Nat
           /\ application.windows = 1 =>
                application.currentDataset \in Dataset /\ instance \in 1 .. instance
BY DEF IInv, TypeOK, PanelType, WindowOK

\* A command of the window's, well asked.
LEMMA AskedOfWindow ==
    ASSUME IInv, application.windows = 1,
           NEW kind \in Analysis,
           NEW c \in Category \cup {None}, NEW f \in Field \cup {None},
           NEW l \in Level \cup {None},
           kind # "fetchMorseSmalePersistence" => l \in Level
    PROVE  LET r == Ask(kind, instance, application.currentDataset, c, f, l)
           IN  /\ r \in Request /\ r.kind \in Analysis
               /\ AskedWell(r, instance, application.windows,
                            application.currentDataset)
BY WindowFacts DEF Ask, Request, AskedWell, Analysis

\* Commands of the window's alone, well asked.
WellAsked(app, made, open, d) ==
    /\ app \in Seq(Request)
    /\ \A i \in 1 .. Len(app) :
         app[i].kind \in Analysis /\ AskedWell(app[i], made, open, d)

LEMMA WellAskedNone ==
    ASSUME NEW made, NEW open, NEW d
    PROVE  WellAsked(<<>>, made, open, d)
BY DEF WellAsked

LEMMA WellAskedOne ==
    ASSUME NEW made, NEW open, NEW d, NEW r \in Request,
           r.kind \in Analysis, AskedWell(r, made, open, d)
    PROVE  WellAsked(<<r>>, made, open, d)
BY DEF WellAsked

LEMMA WellAskedJoined ==
    ASSUME NEW made, NEW open, NEW d, NEW a, NEW b,
           WellAsked(a, made, open, d), WellAsked(b, made, open, d)
    PROVE  WellAsked(a \o b, made, open, d)
<1>1. /\ a \in Seq(Request) /\ b \in Seq(Request) /\ a \o b \in Seq(Request)
      /\ Len(a) \in Nat /\ Len(b) \in Nat /\ Len(a \o b) = Len(a) + Len(b)
  BY DEF WellAsked
<1>2. ASSUME NEW i \in 1 .. Len(a \o b)
      PROVE  (a \o b)[i].kind \in Analysis /\ AskedWell((a \o b)[i], made, open, d)
  <2>1. CASE i <= Len(a)
    <3>1. (a \o b)[i] = a[i] /\ i \in 1 .. Len(a)
      BY <1>1, <2>1
    <3> QED BY <3>1 DEF WellAsked
  <2>2. CASE i > Len(a)
    <3>1. (a \o b)[i] = b[i - Len(a)] /\ i - Len(a) \in 1 .. Len(b)
      BY <1>1, <2>2
    <3> QED BY <3>1 DEF WellAsked
  <2> QED BY <1>1, <2>1, <2>2
<1> QED BY <1>1, <1>2 DEF WellAsked

\* An input of the user to the window asks what the window may ask.
LEMMA InputIInv ==
    ASSUME IInv, application.windows = 1, NEW app, wire' = wire \o app,
           WellAsked(app, instance, application.windows,
                     application.currentDataset),
           panel' \in PanelType, panel'.crystals \in {None, panel.crystals},
           UNCHANGED <<datasetPanel, application, collected, decomposition,
                       scene, instance, former, unanswered, loaded>>
    PROVE  IInv'
<1>1. wire \in Seq(Request) /\ app \in Seq(Request)
  BY WindowFacts DEF WellAsked
<1>2. Follows(wire \o app, wire, 0, app)
  BY <1>1, Joined
<1>3. Follows(wire', wire, 0, app)
  BY <1>2
<1>4. /\ \A i \in 1 .. Len(app) : app[i].kind \in Analysis
      /\ WireOK(app, instance, application.windows, application.currentDataset)
  BY DEF WellAsked, WireOK
<1>5. WindowOfCurrentDataset'
  BY DEF IInv, WindowOfCurrentDataset
<1>6. WindowOK(application, panel', decomposition', scene')
  BY DEF IInv, WindowOK
<1>7. loaded' \in Dataset \cup {None} /\ scene' \subseteq AnalysisType
  BY WindowFacts
<1> QED BY <1>1, <1>3, <1>4, <1>5, <1>6, <1>7, AnalysesIInv

LEMMA DecompositionAsked ==
    ASSUME IInv, application.windows = 1, NEW p \in PanelType
    PROVE  /\ WellAsked(fetchDecomposition(p), instance, application.windows,
                        application.currentDataset)
           /\ \A old : WellAsked(componentDidUpdate(old, p), instance,
                                 application.windows, application.currentDataset)
<1> DEFINE r == Ask("fetchMorseSmalePersistence", instance,
                    application.currentDataset, p.category, p.field, None)
<1>1. "fetchMorseSmalePersistence" \in Analysis
  BY DEF Analysis
<1>2. p.category \in Category \cup {None} /\ p.field \in Field \cup {None}
  BY DEF PanelType
<1>3. /\ r \in Request /\ r.kind \in Analysis
      /\ AskedWell(r, instance, application.windows, application.currentDataset)
  BY <1>1, <1>2, AskedOfWindow
<1>4. fetchDecomposition(p) = <<r>>
  BY DEF fetchDecomposition, AskAnalysis
<1>5. WellAsked(fetchDecomposition(p), instance, application.windows,
                application.currentDataset)
  BY <1>3, <1>4, WellAskedOne
<1> QED BY <1>5, WellAskedNone DEF componentDidUpdate

LEMMA LevelAskedWell ==
    ASSUME IInv, application.windows = 1, NEW p \in PanelType,
           NEW l \in Level \cup {None, Undefined}
    PROVE  WellAsked(LevelAsked(p, l), instance, application.windows,
                     application.currentDataset)
<1> DEFINE r == Ask("fetchMorseSmalePersistenceLevel", instance,
                    application.currentDataset, p.category, p.field,
                    ParsedLevel(l))
<1>1. CASE l = None
  BY <1>1, WellAskedNone DEF LevelAsked
<1>2. CASE l # None
  <2>1. ParsedLevel(l) \in Level
    BY <1>2, Levels DEF ParsedLevel
  <2>2. p.category \in Category \cup {None} /\ p.field \in Field \cup {None}
    BY DEF PanelType
  <2>3. "fetchMorseSmalePersistenceLevel" \in Analysis
    BY DEF Analysis
  <2>4. /\ r \in Request /\ r.kind \in Analysis
        /\ AskedWell(r, instance, application.windows, application.currentDataset)
    BY <2>1, <2>2, <2>3, AskedOfWindow
  <2>5. LevelAsked(p, l) = <<r>>
    BY <1>2 DEF LevelAsked, AskAnalysis
  <2> QED BY <2>4, <2>5, WellAskedOne
<1> QED BY <1>1, <1>2

LEMMA ModeChanged ==
    ASSUME IInv, ChangeToMorseSmale \/ ChangeToSharedGP
    PROVE  IInv'
<1>0. PICK p : p = panel'
  OBVIOUS
<1>1. application.windows = 1
  BY DEF ChangeToMorseSmale, ChangeToSharedGP, ChangePanel
<1>2. p \in PanelType /\ p.crystals \in {None, panel.crystals}
  BY <1>0, WindowFacts
  DEF ChangeToMorseSmale, ChangeToSharedGP, ChangePanel, PanelType
<1>3. WellAsked(componentDidUpdate(panel, p), instance, application.windows,
                application.currentDataset)
  BY <1>1, <1>2, DecompositionAsked
<1>4. WellAsked(fetchDecomposition(panel) \o componentDidUpdate(panel, p),
                instance, application.windows, application.currentDataset)
  BY <1>1, <1>3, DecompositionAsked, WellAskedJoined, WindowFacts
<1>5. wire \in Seq(Request) /\ fetchDecomposition(panel) \in Seq(Request)
      /\ componentDidUpdate(panel, p) \in Seq(Request)
  BY <1>1, <1>3, DecompositionAsked, WindowFacts DEF WellAsked
<1>6. CASE ChangeToMorseSmale
  <2>1. wire' = wire \o fetchDecomposition(panel) \o componentDidUpdate(panel, p)
    BY <1>0, <1>6 DEF ChangeToMorseSmale
  <2>2. wire' = wire \o (fetchDecomposition(panel) \o componentDidUpdate(panel, p))
    BY <1>5, <2>1
  <2> QED BY <1>0, <1>1, <1>2, <1>4, <1>6, <2>2, InputIInv
          DEF ChangeToMorseSmale, ChangePanel, windows, server
<1>7. CASE ChangeToSharedGP
  <2>1. wire' = wire \o componentDidUpdate(panel, p)
    BY <1>0, <1>7 DEF ChangeToSharedGP
  <2> QED BY <1>0, <1>1, <1>2, <1>3, <1>7, <2>1, InputIInv
          DEF ChangeToSharedGP, ChangePanel, windows, server
<1> QED BY <1>6, <1>7

LEMMA FieldChanged ==
    ASSUME IInv,
           \/ \E c \in Category \cup {None} : ChangeCategory(c)
           \/ \E f \in Field \cup {None} : ChangeField(f)
    PROVE  IInv'
<1>0. PICK p : p = panel'
  OBVIOUS
<1>1. application.windows = 1
  BY DEF ChangeCategory, ChangeField, ChangePanel
<1>2. p \in PanelType /\ p.crystals = panel.crystals
  BY <1>0, WindowFacts DEF ChangeCategory, ChangeField, ChangePanel, PanelType
<1>3. WellAsked(componentDidUpdate(panel, p), instance, application.windows,
                application.currentDataset)
  BY <1>1, <1>2, DecompositionAsked
<1>4. wire' = wire \o componentDidUpdate(panel, p)
  BY <1>0 DEF ChangeCategory, ChangeField
<1>5. UNCHANGED <<datasetPanel, application, collected, decomposition, scene,
                  instance, former, unanswered, loaded>>
  BY DEF ChangeCategory, ChangeField, ChangePanel, windows, server
<1> QED BY <1>0, <1>1, <1>2, <1>3, <1>4, <1>5, InputIInv

LEMMA LevelChanged ==
    ASSUME IInv, NEW l \in Level \cup {None}, ChangeLevel(l)
    PROVE  IInv'
<1>0. PICK p : p = panel'
  OBVIOUS
<1>1. application.windows = 1
  BY DEF ChangeLevel, ChangePanel
<1>2. p \in PanelType /\ p.crystals \in {None, panel.crystals}
  BY <1>0, WindowFacts DEF ChangeLevel, ChangePanel, AfterLevel, PanelType
<1>3. WellAsked(LevelAsked(panel, l), instance, application.windows,
                application.currentDataset)
  BY <1>1, WindowFacts, LevelAskedWell
<1>4. wire' = wire \o LevelAsked(panel, l)
  BY DEF ChangeLevel
<1>5. UNCHANGED <<datasetPanel, application, collected, decomposition, scene,
                  instance, former, unanswered, loaded>>
  BY DEF ChangeLevel, ChangePanel, windows, server
<1> QED BY <1>0, <1>1, <1>2, <1>3, <1>4, <1>5, InputIInv

\* The dataset chosen is asked for after all others.
LEMMA DatasetChosen ==
    ASSUME IInv, NEW d \in Dataset, ChooseDataset(d)
    PROVE  IInv'
<1> DEFINE r == Ask("fetchDataset", 0, d, None, None, None)
<1>0. PICK w2 : w2 = wire'
  OBVIOUS
<1>1. /\ wire \in Seq(Request) /\ <<r>> \in Seq(Request)
      /\ w2 = wire \o <<r>> /\ Len(<<r>>) = 1 /\ <<r>>[1] = r
      /\ r.kind = "fetchDataset" /\ r.dataset = d
  <2>1. r \in Request
    BY DEF Ask, Request
  <2>2. w2 = Append(wire, r) /\ wire \in Seq(Request)
    BY <1>0, WindowFacts DEF ChooseDataset
  <2> QED BY <2>1, <2>2 DEF Ask
<1> DEFINE app == <<r>>
<1>2. PICK k : k = 0
  OBVIOUS
<1>3. Follows(w2, wire, k, app)
  BY <1>1, <1>2, Joined
<1> HIDE DEF r
<1>4. UNCHANGED <<application, collected, panel, decomposition, scene, instance,
                  former, unanswered, loaded>>
  BY DEF ChooseDataset, window, windows, server
<1>5. TypeOK'
  BY <1>0, <1>3, <1>4 DEF IInv, TypeOK, ChooseDataset, Follows
<1>6. WireOK(w2, instance, application.windows, application.currentDataset)
  <2>1. WireOK(app, instance, application.windows, application.currentDataset)
    BY <1>1 DEF WireOK, AskedWell, Analysis
  <2> QED BY <1>3, <2>1, WireFollows DEF IInv
<1>7. FieldsAhead(w2, collected, unanswered)
  <2>1. FieldsAhead(app, collected, unanswered)
    BY <1>1 DEF FieldsAhead
  <2>2. Len(collected) \in Nat /\ Len(collected) <= Len(collected)
        /\ FieldsAhead(wire, collected, unanswered)
    BY DEF IInv, TypeOK
  <2>3. k = 1 /\ wire[1].kind = "fetchField" /\ wire[1].origin \in 1 .. Len(collected)
            => Known(collected, unanswered, wire[1].origin,
                     <<wire[1].category, wire[1].field>>)
    BY <1>2
  <2> QED BY <1>3, <2>1, <2>2, <2>3, FieldsFollow, Zenon
<1>8. LastOf(w2, "fetchDataset", d) /\ ~Without(w2, "fetchDataset")
  <2>1. /\ Len(app) > 0 /\ app[Len(app)].kind = "fetchDataset"
        /\ app[Len(app)].dataset = d
    BY <1>1
  <2> HIDE DEF app
  <2> QED BY <1>3, <2>1, AddedLast
<1>9. Chosen(unanswered', datasetPanel', wire', application')
  BY <1>0, <1>8 DEF Chosen, LastChosen, ChooseDataset, IInv, TypeOK
<1>10. FieldsComplete' /\ WindowOfCurrentDataset'
      /\ WindowOK(application, panel, decomposition, scene)
  BY <1>4 DEF IInv, FieldsComplete, WindowOfCurrentDataset
<1> QED BY <1>0, <1>4, <1>5, <1>6, <1>7, <1>9, <1>10 DEF IInv

LEMMA NoDatasetChosen ==
    ASSUME IInv, ChooseNoDataset
    PROVE  IInv'
<1>1. /\ UNCHANGED <<application, collected, panel, decomposition, scene, instance,
                     former, wire, unanswered, loaded>>
      /\ datasetPanel' = [datasetName |-> None, dataset |-> None]
  BY DEF ChooseNoDataset, window, windows, server
<1>2. TypeOK'
  BY <1>1 DEF IInv, TypeOK
<1>3. Chosen(unanswered', datasetPanel', wire', application')
  BY <1>1 DEF Chosen
<1>4. FieldsComplete' /\ WindowOfCurrentDataset'
  BY <1>1 DEF IInv, FieldsComplete, WindowOfCurrentDataset
<1> QED BY <1>1, <1>2, <1>3, <1>4 DEF IInv

LEMMA WindowAdded ==
    ASSUME IInv, AddWindow
    PROVE  IInv'
<1>1. /\ UNCHANGED <<datasetPanel, collected, panel, decomposition, scene,
                     former, wire, unanswered, loaded>>
      /\ application.windows = 0 /\ instance' = instance + 1
      /\ application' = [application EXCEPT !.windows = 1]
      /\ application.currentDataset # None
  BY DEF AddWindow, window, server
<1>2. TypeOK'
  BY <1>1 DEF IInv, TypeOK
<1>3. WireOK(wire, instance + 1, 1, application.currentDataset)
  <2>1. /\ wire \in Seq(Request) /\ instance \in Nat
        /\ WireOK(wire, instance, application.windows, application.currentDataset)
    BY WindowFacts DEF IInv
  <2> QED BY <2>1, WireRenewed
<1>4. /\ application'.windows = 1
      /\ application'.currentDataset = application.currentDataset
      /\ application'.call = application.call
  BY <1>1 DEF IInv, TypeOK
<1>5. FieldsComplete' /\ WindowOfCurrentDataset'
      /\ WindowOK(application', panel, decomposition, scene)
  BY <1>1, <1>4 DEF IInv, FieldsComplete, WindowOfCurrentDataset, WindowOK, TypeOK
<1>6. Chosen(unanswered', datasetPanel', wire', application')
  BY <1>1, <1>4 DEF IInv, Chosen
<1> QED BY <1>1, <1>2, <1>3, <1>4, <1>5, <1>6 DEF IInv

\* The fields of the dataset that was chosen, and its embeddings after them,
\* come after all that waits.
LEMMA DatasetAnswered ==
    ASSUME IInv, wire # <<>>, DatasetFetched(Head(wire)),
           unanswered' = unanswered, loaded' \in Dataset \cup {None}
    PROVE  IInv'
<1> DEFINE r == Head(wire)
           call == Len(collected) + 1
           fields == FetchFields(call, r.dataset)
           embeddings == FetchEmbeddings(call, r.dataset)
<1>0. PICK w2, c2, app : /\ w2 = wire' /\ c2 = collected'
                         /\ app = fields \o embeddings
  OBVIOUS
<1>1. /\ r.kind = "fetchDataset" /\ wire' = Tail(wire) \o fields \o embeddings
      /\ collected' = Append(collected, {})
      /\ datasetPanel' = [datasetPanel EXCEPT !.dataset = r.dataset]
      /\ UNCHANGED <<application, panel, decomposition, scene, instance, former>>
  BY DEF DatasetFetched, onDatasetChange, window, windows
<1>2. /\ wire \in Seq(Request) /\ r \in Request /\ r = wire[1]
      /\ r.dataset \in Dataset
      /\ collected \in Seq(SUBSET (Category \X Field))
      /\ Len(collected) \in Nat /\ call \in Nat
  <2>1. wire \in Seq(Request)
    BY WindowFacts
  <2>2. r \in Request /\ r = wire[1]
    BY <2>1
  <2> QED BY <2>1, <2>2 DEF IInv, TypeOK, Request
<1> HIDE DEF fields, embeddings
<1>3. FieldsFirst(app, call, r.dataset)
  BY <1>0, <1>2, FieldsThenEmbeddings DEF fields, embeddings
<1>4. PICK k : k = 1
  OBVIOUS
<1>5. Follows(w2, wire, k, app)
  <2>1. fields \in Seq(Request) /\ embeddings \in Seq(Request)
    BY <1>2, FieldsThenEmbeddings DEF fields, embeddings
  <2>2. Tail(wire) \in Seq(Request)
    BY <1>2
  <2>3. w2 = Tail(wire) \o app
    BY <1>0, <1>1, <2>1, <2>2, SMTT(30)
  <2>4. app \in Seq(Request)
    BY <1>3 DEF FieldsFirst
  <2> QED BY <1>2, <1>4, <2>3, <2>4, Popped
<1>6. /\ app \in Seq(Request) /\ Len(app) > 0 /\ Len(app) \in Nat
      /\ app[Len(app)].kind = "fetchEmbeddingsList"
      /\ app[Len(app)].dataset = r.dataset
      /\ \A i \in 1 .. Len(app) :
           app[i].kind \in {"fetchField", "fetchEmbeddingsList"}
  BY <1>3 DEF FieldsFirst
<1>7. /\ c2 \in Seq(SUBSET (Category \X Field))
      /\ Len(c2) = call
      /\ \A o \in 1 .. Len(collected) : c2[o] = collected[o]
  BY <1>0, <1>1, <1>2
<1>8. TypeOK'
  <2>1. w2 \in Seq(Request)
    BY <1>5 DEF Follows
  <2>2. application.call <= Len(c2)
    BY <1>2, <1>7 DEF IInv, TypeOK
  <2>3. datasetPanel' \in [datasetName : Dataset \cup {None},
                           dataset : Dataset \cup {None}]
    BY <1>1, <1>2 DEF IInv, TypeOK
  <2> QED BY <1>0, <1>1, <1>7, <2>1, <2>2, <2>3 DEF IInv, TypeOK
<1>9. WireOK(w2, instance, application.windows, application.currentDataset)
  <2>1. WireOK(app, instance, application.windows, application.currentDataset)
    BY <1>3, <1>6 DEF WireOK, AskedWell, Analysis, FieldsFirst
  <2> QED BY <1>5, <2>1, WireFollows DEF IInv
<1>10. FieldsAhead(w2, c2, unanswered)
  <2>1. FieldsAhead(app, c2, unanswered)
    <3> SUFFICES ASSUME NEW i \in 1 .. Len(app),
                        app[i].kind = "fetchEmbeddingsList"
                 PROVE  /\ app[i].origin \in 1 .. Len(c2)
                        /\ \A x \in Listed[app[i].dataset] :
                              Asked(app, i, app[i].origin, x)
      BY DEF FieldsAhead
    <3>1. i = Len(app) /\ app[i].origin = call /\ app[i].dataset = r.dataset
      BY <1>3 DEF FieldsFirst
    <3>2. \A j \in 1 .. Len(app) - 1 : /\ j \in 1 .. Len(app) /\ j # Len(app)
                                       /\ app[j].kind = "fetchField"
                                       /\ app[j].origin = call
      BY <1>3, <1>6 DEF FieldsFirst
    <3>3. \A x \in Listed[r.dataset] : Asked(app, Len(app), call, x)
      BY <1>3, <3>2 DEF FieldsFirst, Asked
    <3>4. call \in 1 .. Len(c2)
      BY <1>2, <1>7
    <3> QED BY <3>1, <3>3, <3>4
  <2>2. /\ FieldsAhead(wire, collected, unanswered)
        /\ Len(c2) \in Nat /\ Len(collected) <= Len(c2)
    BY <1>2, <1>7 DEF IInv
  <2>3. \A o \in 1 .. Len(collected) : \A x :
            Known(collected, unanswered, o, x) => Known(c2, unanswered, o, x)
    BY <1>7 DEF Known
  <2>4. k = 1 /\ wire[1].kind = "fetchField" /\ wire[1].origin \in 1 .. Len(collected)
            => Known(c2, unanswered, wire[1].origin,
                     <<wire[1].category, wire[1].field>>)
    BY <1>1, <1>2
  <2> QED BY <1>2, <1>5, <2>1, <2>2, <2>3, <2>4, FieldsFollow, Zenon
<1>11. ASSUME unanswered = {}, datasetPanel.datasetName # None
       PROVE  LastChosen(w2, datasetPanel.datasetName, r.dataset,
                         application.currentDataset)
  <2> DEFINE name == datasetPanel.datasetName
  <2>1. LastOf(wire, "fetchDataset", name)
    BY <1>11 DEF IInv, Chosen, LastChosen
  <2>2. Without(app, "fetchDataset") /\ wire[1].kind = "fetchDataset"
    BY <1>1, <1>2, <1>6 DEF Without
  <2>3. /\ LastOf(w2, "fetchDataset", name)
        /\ Without(w2, "fetchDataset") => r.dataset = name
    BY <1>2, <1>4, <1>5, <2>1, <2>2, HeadWasLast
  <2>4. /\ LastOf(w2, "fetchEmbeddingsList", r.dataset)
        /\ ~Without(w2, "fetchEmbeddingsList")
    BY <1>5, <1>6, AddedLast
  <2> QED BY <2>3, <2>4 DEF LastChosen
<1>12. Chosen(unanswered', datasetPanel', wire', application')
  BY <1>0, <1>1, <1>11 DEF Chosen, IInv, TypeOK
<1>13. FieldsComplete'
  BY <1>0, <1>1, <1>7 DEF IInv, FieldsComplete, TypeOK
<1>14. WindowOfCurrentDataset' /\ WindowOK(application', panel', decomposition', scene')
  BY <1>1 DEF IInv, WindowOfCurrentDataset
<1> QED BY <1>0, <1>1, <1>8, <1>9, <1>10, <1>12, <1>13, <1>14 DEF IInv

\* A field leaves the queue and is collected.
LEMMA FieldAnswered ==
    ASSUME IInv, wire # <<>>, FieldFetched(Head(wire)),
           unanswered' = unanswered, loaded' \in Dataset \cup {None}
    PROVE  IInv'
<1> DEFINE r == Head(wire)
<1>0. PICK w2, c2, k : w2 = wire' /\ c2 = collected' /\ k = 1
  OBVIOUS
<1>1. /\ r.kind = "fetchField" /\ w2 = Tail(wire)
      /\ c2 = [collected EXCEPT ![r.origin] = @ \cup {<<r.category, r.field>>}]
      /\ UNCHANGED <<datasetPanel, application, panel, decomposition, scene,
                     instance, former>>
  BY <1>0 DEF FieldFetched, window, windows
<1>2. /\ wire \in Seq(Request) /\ r \in Request /\ r = wire[1]
      /\ collected \in Seq(SUBSET (Category \X Field)) /\ Len(collected) \in Nat
      /\ Follows(w2, wire, k, <<>>) /\ Len(<<>>) = 0
  BY <1>0, <1>1, WindowFacts, PoppedOnly DEF IInv, TypeOK
<1> DEFINE app == <<>>
<1>3. r.category \in Category /\ r.field \in Field
  BY <1>1, <1>2, PoppedOnly DEF IInv, WireOK, AskedWell
<1>4. /\ DOMAIN c2 = 1 .. Len(collected)
      /\ \A o \in 1 .. Len(collected) :
           c2[o] = IF o = r.origin THEN collected[o] \cup {<<r.category, r.field>>}
                                   ELSE collected[o]
  <2>1. DOMAIN collected = 1 .. Len(collected)
    BY <1>2
  <2> QED BY <1>1, <2>1
<1>5. c2 \in Seq(SUBSET (Category \X Field)) /\ Len(c2) = Len(collected)
  <2>1. \A o \in 1 .. Len(collected) : c2[o] \in SUBSET (Category \X Field)
    BY <1>2, <1>3, <1>4
  <2>2. c2 = [o \in 1 .. Len(collected) |-> c2[o]]
    BY <1>1, <1>2, <1>4
  <2>3. c2 \in [1 .. Len(collected) -> SUBSET (Category \X Field)]
    BY <2>1, <2>2
  <2> QED BY <1>2, <2>3
<1>6. TypeOK'
  BY <1>0, <1>1, <1>2, <1>5 DEF IInv, TypeOK, Follows
<1>7. WireOK(w2, instance, application.windows, application.currentDataset)
  <2>1. WireOK(app, instance, application.windows, application.currentDataset)
    BY DEF WireOK
  <2> QED BY <1>2, <2>1, WireFollows DEF IInv
<1>8. \A o \in 1 .. Len(collected) : \A x :
         Known(collected, unanswered, o, x) => Known(c2, unanswered, o, x)
  BY <1>4 DEF Known
<1>9. FieldsAhead(w2, c2, unanswered)
  <2>1. FieldsAhead(app, c2, unanswered)
    BY DEF FieldsAhead
  <2>2. /\ FieldsAhead(wire, collected, unanswered)
        /\ Len(c2) \in Nat /\ Len(collected) <= Len(c2)
    BY <1>2, <1>5 DEF IInv
  <2>3. k = 1 /\ wire[1].kind = "fetchField" /\ wire[1].origin \in 1 .. Len(collected)
            => Known(c2, unanswered, wire[1].origin,
                     <<wire[1].category, wire[1].field>>)
    BY <1>2, <1>4 DEF Known
  <2> QED BY <1>2, <1>8, <2>1, <2>2, <2>3, FieldsFollow, Zenon
<1>10. ASSUME unanswered = {}, datasetPanel.datasetName # None
       PROVE  LastChosen(w2, datasetPanel.datasetName, datasetPanel.dataset,
                         application.currentDataset)
  <2>1. /\ Without(app, "fetchDataset") /\ Without(app, "fetchEmbeddingsList")
        /\ wire[1].kind # "fetchDataset" /\ wire[1].kind # "fetchEmbeddingsList"
    BY <1>1, <1>2 DEF Without
  <2>2. LastChosen(wire, datasetPanel.datasetName, datasetPanel.dataset,
                   application.currentDataset)
    BY <1>10 DEF IInv, Chosen
  <2>3. \A d : /\ LastOf(wire, "fetchDataset", d) => LastOf(w2, "fetchDataset", d)
               /\ Without(w2, "fetchDataset") => Without(wire, "fetchDataset")
    BY <1>2, <2>1, LastFollows
  <2>4. \A d : /\ LastOf(wire, "fetchEmbeddingsList", d) =>
                      LastOf(w2, "fetchEmbeddingsList", d)
               /\ Without(w2, "fetchEmbeddingsList") =>
                      Without(wire, "fetchEmbeddingsList")
    BY <1>2, <2>1, LastFollows
  <2> QED BY <2>2, <2>3, <2>4 DEF LastChosen
<1>11. Chosen(unanswered', datasetPanel', wire', application')
  BY <1>0, <1>1, <1>10 DEF Chosen
<1>12. FieldsComplete'
  <2>1. application.call \in Nat /\ application.call <= Len(collected)
    BY DEF IInv, TypeOK
  <2> QED BY <1>0, <1>1, <1>4, <2>1 DEF IInv, FieldsComplete
<1>13. WindowOfCurrentDataset' /\ WindowOK(application', panel', decomposition', scene')
  BY <1>1 DEF IInv, WindowOfCurrentDataset
<1> QED BY <1>0, <1>1, <1>6, <1>7, <1>9, <1>11, <1>12, <1>13 DEF IInv

\* The dataset is shown when all its fields are known.
LEMMA EmbeddingsAnswered ==
    ASSUME IInv, wire # <<>>, EmbeddingsFetched(Head(wire)),
           unanswered' = unanswered, loaded' \in Dataset \cup {None}
    PROVE  IInv'
<1> DEFINE r == Head(wire)
<1>0. PICK w2, k, app : w2 = wire' /\ k = 1 /\ app = <<>>
  OBVIOUS
<1>1. /\ r.kind = "fetchEmbeddingsList" /\ w2 = Tail(wire)
      /\ application' = [currentDataset |-> r.dataset, call |-> r.origin,
                         windows |-> 0]
      /\ panel' = NewPanel /\ decomposition' = None /\ scene' = {}
      /\ UNCHANGED <<datasetPanel, collected, instance>>
  BY <1>0 DEF EmbeddingsFetched
<1>2. /\ wire \in Seq(Request) /\ r \in Request /\ r = wire[1]
      /\ r.dataset \in Dataset /\ r.origin \in Nat
      /\ Follows(w2, wire, k, app) /\ Len(app) = 0
      /\ 1 \in 1 .. Len(wire)
  <2>1. wire \in Seq(Request)
    BY WindowFacts
  <2>2. r \in Request /\ r = wire[1] /\ 1 \in 1 .. Len(wire)
        /\ Follows(w2, wire, k, <<>>)
    BY <1>0, <1>1, <2>1, PoppedOnly
  <2> QED BY <1>0, <2>1, <2>2 DEF Request
<1>3. /\ r.origin \in 1 .. Len(collected)
      /\ \A x \in Listed[r.dataset] : Known(collected, unanswered, r.origin, x)
  BY <1>1, <1>2 DEF IInv, FieldsAhead, Asked
<1>4. /\ former' \in Seq([dataset : Dataset, category : Category \cup {None},
                          field : Field \cup {None}])
      /\ Len(former') = instance
  <2>1. /\ former \in Seq([dataset : Dataset, category : Category \cup {None},
                           field : Field \cup {None}])
        /\ Len(former) + application.windows = instance
        /\ application.windows \in {0, 1}
    BY DEF IInv, TypeOK
  <2>2. CASE application.windows = 0
    BY <2>1, <2>2 DEF EmbeddingsFetched
  <2>3. CASE application.windows = 1
    <3>1. former' = Append(former, [dataset |-> application.currentDataset,
                                    category |-> panel.category,
                                    field |-> panel.field])
      BY <2>3 DEF EmbeddingsFetched
    <3>2. /\ application.currentDataset \in Dataset
          /\ panel.category \in Category \cup {None}
          /\ panel.field \in Field \cup {None}
      BY <2>3, WindowFacts DEF PanelType
    <3> QED BY <2>1, <2>3, <3>1, <3>2
  <2> QED BY <2>1, <2>2, <2>3
<1>5. panel' \in PanelType
  BY <1>1, ConstantsAssumption DEF NewPanel, PanelType
<1>6. TypeOK'
  <2>1. w2 \in Seq(Request)
    BY <1>2 DEF Follows
  <2> QED BY <1>0, <1>1, <1>2, <1>3, <1>4, <1>5, <2>1 DEF IInv, TypeOK, PanelType
<1>7. WireOK(w2, instance, 0, r.dataset)
  <2>1. WireOK(app, instance, application.windows, application.currentDataset)
    BY <1>2 DEF WireOK
  <2>2. WireOK(w2, instance, application.windows, application.currentDataset)
    BY <1>2, <2>1, WireFollows DEF IInv
  <2>3. w2 \in Seq(Request) /\ instance \in Nat
    BY <1>2, WindowFacts DEF Follows
  <2> QED BY <2>2, <2>3, WireRenewed
<1>8. FieldsAhead(w2, collected, unanswered)
  <2>1. FieldsAhead(app, collected, unanswered)
    BY <1>2 DEF FieldsAhead
  <2>2. /\ FieldsAhead(wire, collected, unanswered)
        /\ Len(collected) \in Nat /\ Len(collected) <= Len(collected)
    BY DEF IInv, TypeOK
  <2>3. k = 1 /\ wire[1].kind = "fetchField" /\ wire[1].origin \in 1 .. Len(collected)
            => Known(collected, unanswered, wire[1].origin,
                     <<wire[1].category, wire[1].field>>)
    BY <1>1, <1>2
  <2> QED BY <1>2, <2>1, <2>2, <2>3, FieldsFollow, Zenon
<1>9. ASSUME unanswered = {}, datasetPanel.datasetName # None
      PROVE  LastChosen(w2, datasetPanel.datasetName, datasetPanel.dataset,
                        r.dataset)
  <2> DEFINE name == datasetPanel.datasetName
  <2>1. /\ Without(app, "fetchDataset") /\ Without(app, "fetchEmbeddingsList")
        /\ wire[1].kind # "fetchDataset" /\ wire[1].kind = "fetchEmbeddingsList"
    BY <1>1, <1>2 DEF Without
  <2>2. LastChosen(wire, name, datasetPanel.dataset, application.currentDataset)
    BY <1>9 DEF IInv, Chosen
  <2>3. /\ LastOf(wire, "fetchDataset", name) => LastOf(w2, "fetchDataset", name)
        /\ Without(w2, "fetchDataset") => Without(wire, "fetchDataset")
    BY <1>2, <2>1, LastFollows
  <2>4. ASSUME LastOf(wire, "fetchEmbeddingsList", name)
        PROVE  /\ LastOf(w2, "fetchEmbeddingsList", name)
               /\ Without(w2, "fetchEmbeddingsList") => r.dataset = name
    BY <1>0, <1>2, <2>1, <2>4, HeadWasLast
  <2> QED BY <2>2, <2>3, <2>4 DEF LastChosen
<1>10. Chosen(unanswered', datasetPanel', wire', application')
  BY <1>0, <1>1, <1>9 DEF Chosen
<1>11. FieldsComplete'
  BY <1>1, <1>3 DEF FieldsComplete, Known
<1>12. WindowOfCurrentDataset' /\ WindowOK(application', panel', decomposition', scene')
  BY <1>1 DEF WindowOfCurrentDataset, WindowOK, NewPanel
<1> QED BY <1>0, <1>1, <1>6, <1>7, <1>8, <1>10, <1>11, <1>12 DEF IInv

\* A panel that is gone asks for the level it was about to ask for.
LEMMA UnmountedAsks ==
    ASSUME IInv, wire # <<>>, NEW max \in Level \cup {Undefined},
           UnmountedFetched(Head(wire), max)
    PROVE  LET r == Head(wire)
               p == former[r.origin]
               next == Ask("fetchMorseSmalePersistenceLevel", r.origin, p.dataset,
                           p.category, p.field, ParsedLevel(max))
           IN  /\ r = wire[1] /\ r.kind \in Analysis
               /\ next \in Request /\ next.kind \in Analysis
               /\ AskedWell(next, instance, application.windows,
                            application.currentDataset)
<1> DEFINE r == Head(wire)
           p == former[r.origin]
           next == Ask("fetchMorseSmalePersistenceLevel", r.origin, p.dataset,
                       p.category, p.field, ParsedLevel(max))
<1>1. /\ wire \in Seq(Request) /\ r \in Request /\ r = wire[1]
      /\ 1 \in 1 .. Len(wire) /\ r.kind \in Analysis /\ ~IsMounted(r)
  BY WindowFacts, PoppedOnly DEF UnmountedFetched
<1>2. r.origin \in 1 .. Len(former)
  <2>1. /\ r.origin \in 1 .. instance
        /\ Len(former) + application.windows = instance
        /\ application.windows \in {0, 1} /\ Len(former) \in Nat
    BY <1>1 DEF IInv, WireOK, AskedWell, TypeOK
  <2> QED BY <1>1, <2>1 DEF IsMounted
<1>3. /\ p.dataset \in Dataset /\ p.category \in Category \cup {None}
      /\ p.field \in Field \cup {None}
  <2> DEFINE R == [dataset : Dataset, category : Category \cup {None},
                   field : Field \cup {None}]
  <2>1. former \in Seq(R)
    BY DEF IInv, TypeOK
  <2>2. \A i \in 1 .. Len(former) : former[i] \in R
    <3> HIDE DEF R
    <3> QED BY <2>1
  <2>3. p \in R
    <3> HIDE DEF R
    <3> QED BY <1>2, <2>2
  <2> QED BY <2>3
<1>4. ParsedLevel(max) \in Level
  BY Levels DEF ParsedLevel
<1>5. /\ next \in Request /\ next.kind \in Analysis
      /\ AskedWell(next, instance, application.windows, application.currentDataset)
  <2>1. next \in Request
    BY <1>1, <1>3, <1>4 DEF Ask, Request
  <2>2. /\ next.kind = "fetchMorseSmalePersistenceLevel"
        /\ next.origin = r.origin /\ next.level \in Level
    BY <1>4 DEF Ask
  <2>3. r.origin \in 1 .. instance
    BY <1>1 DEF IInv, WireOK, AskedWell
  <2> QED BY <1>1, <2>1, <2>2, <2>3 DEF AskedWell, Analysis, IsMounted
<1> QED BY <1>1, <1>5

\* An answer about an analysis leaves the queue; a panel that is gone may still
\* ask for the level.
LEMMA UnmountedAnswered ==
    ASSUME IInv, wire # <<>>, NEW max \in Level \cup {Undefined},
           UnmountedFetched(Head(wire), max),
           unanswered' = unanswered, loaded' \in Dataset \cup {None}
    PROVE  IInv'
<1> DEFINE r == Head(wire)
           p == former[r.origin]
           next == Ask("fetchMorseSmalePersistenceLevel", r.origin, p.dataset,
                       p.category, p.field, ParsedLevel(max))
<1>1. wire \in Seq(Request)
  BY WindowFacts
<1>2. /\ r = wire[1] /\ r.kind \in Analysis
      /\ next \in Request /\ next.kind \in Analysis
      /\ AskedWell(next, instance, application.windows, application.currentDataset)
  BY UnmountedAsks
<1> HIDE DEF next
<1>3. PICK app, k : /\ k = 1
                    /\ app = IF r.kind = "fetchMorseSmalePersistence"
                             THEN <<next>> ELSE <<>>
  OBVIOUS
<1>4. WellAsked(app, instance, application.windows, application.currentDataset)
  BY <1>2, <1>3, WellAskedOne, WellAskedNone
<1>5. wire' = Tail(wire) \o app
  BY <1>3 DEF UnmountedFetched, next
<1>6. Follows(wire', wire, k, app)
  BY <1>1, <1>3, <1>4, <1>5, Popped DEF WellAsked
<1>7. UNCHANGED <<datasetPanel, application, collected, panel, decomposition,
                  scene, instance, former, unanswered>>
  BY DEF UnmountedFetched, window, windows
<1>8. /\ \A i \in 1 .. Len(app) : app[i].kind \in Analysis
      /\ WireOK(app, instance, application.windows, application.currentDataset)
  BY <1>4 DEF WellAsked, WireOK
<1>9. WindowOfCurrentDataset'
  BY <1>7 DEF IInv, WindowOfCurrentDataset
<1>10. /\ panel' \in PanelType /\ scene' \subseteq AnalysisType
       /\ WindowOK(application, panel', decomposition', scene')
  BY <1>7, WindowFacts DEF IInv
<1>11. k \in {0, 1} /\ wire[1].kind \in Analysis
  BY <1>2, <1>3
<1> QED BY <1>6, <1>7, <1>8, <1>9, <1>10, <1>11, AnalysesIInv

\* The answers that reach the panel are of the dataset shown.
LEMMA PersistenceAnswered ==
    ASSUME IInv, wire # <<>>, NEW max \in Level \cup {Undefined},
           IsMounted(Head(wire)), PersistenceFetched(Head(wire), max),
           UNCHANGED <<datasetPanel, application, collected, instance, former,
                       unanswered>>,
           loaded' \in Dataset \cup {None}
    PROVE  IInv'
<1> DEFINE r == Head(wire)
<1>1. /\ wire \in Seq(Request) /\ r = wire[1] /\ application.windows = 1
      /\ r.kind \in Analysis
  BY WindowFacts, PoppedOnly DEF IsMounted, PersistenceFetched, Analysis
<1>2. PICK p, k, app : p = panel' /\ k = 1 /\ app = LevelAsked(p, max)
  OBVIOUS
<1>3. p \in PanelType /\ p.crystals = panel.crystals
  BY <1>2, WindowFacts DEF PersistenceFetched, PanelType
<1>4. WellAsked(app, instance, application.windows, application.currentDataset)
  BY <1>1, <1>2, <1>3, LevelAskedWell
<1>5. wire' = Tail(wire) \o app
  BY <1>2 DEF PersistenceFetched, LevelAsked, AskAnalysis
<1>6. Follows(wire', wire, k, app)
  BY <1>1, <1>2, <1>4, <1>5, Popped DEF WellAsked
<1>7. /\ \A i \in 1 .. Len(app) : app[i].kind \in Analysis
      /\ WireOK(app, instance, application.windows, application.currentDataset)
  BY <1>4 DEF WellAsked, WireOK
<1>8. UNCHANGED <<decomposition, scene>>
  BY DEF PersistenceFetched
<1>9. WindowOfCurrentDataset'
  BY <1>2, <1>3, <1>8 DEF IInv, WindowOfCurrentDataset
<1>10. /\ panel' \in PanelType /\ scene' \subseteq AnalysisType
       /\ WindowOK(application, panel', decomposition', scene')
  BY <1>1, <1>2, <1>3, <1>8, WindowFacts DEF WindowOK
<1>11. k \in {0, 1} /\ wire[1].kind \in Analysis
  BY <1>1, <1>2
<1> QED BY <1>6, <1>7, <1>9, <1>10, <1>11, AnalysesIInv

LEMMA LevelAnswered ==
    ASSUME IInv, wire # <<>>, IsMounted(Head(wire)),
           LevelFetched(Head(wire)), Succeeds(Head(wire)),
           UNCHANGED <<datasetPanel, application, collected, instance, former,
                       unanswered>>,
           loaded' \in Dataset \cup {None}
    PROVE  IInv'
<1> DEFINE r == Head(wire)
           d == application.currentDataset
           draw == Ask("fetchMorseSmaleRegression", instance, d,
                       panel.category, panel.field, r.level)
<1>1. /\ wire \in Seq(Request) /\ r \in Request /\ r = wire[1]
      /\ 1 \in 1 .. Len(wire)
      /\ r.kind = "fetchMorseSmalePersistenceLevel" /\ r.kind \in Analysis
      /\ application.windows = 1 /\ r.origin = instance
  BY WindowFacts, PoppedOnly DEF LevelFetched, IsMounted, Analysis
<1>2. r.dataset = d /\ d \in Dataset /\ r.level \in Level
  BY <1>1, WindowFacts DEF IInv, WireOK, AskedWell
<1>3. r.category \in Category /\ r.field \in Field
  BY <1>1, <1>2, ConstantsAssumption DEF Succeeds
<1>4. Analysed(r) \in AnalysisType /\ Analysed(r).dataset = d
  BY <1>2, <1>3 DEF Analysed, AnalysisType
<1>5. /\ panel' = [panel EXCEPT !.crystals = Analysed(r)]
      /\ panel'.category = panel.category /\ panel'.field = panel.field
      /\ panel' \in PanelType /\ panel'.crystals = Analysed(r)
  BY <1>4, WindowFacts DEF LevelFetched, PanelType
<1>6. /\ decomposition'.dataset = d /\ decomposition'.level = r.level
      /\ decomposition'.category = panel.category
      /\ decomposition'.field = panel.field
  BY <1>2 DEF LevelFetched
<1>7. WellAsked(<<draw>>, instance, application.windows, d)
  <2>1. /\ panel.category \in Category \cup {None}
        /\ panel.field \in Field \cup {None}
        /\ "fetchMorseSmaleRegression" \in Analysis
    BY WindowFacts DEF PanelType, Analysis
  <2>2. /\ draw \in Request /\ draw.kind \in Analysis
        /\ AskedWell(draw, instance, application.windows, d)
    BY <1>1, <1>2, <2>1, AskedOfWindow
  <2> QED BY <2>2, WellAskedOne
<1> HIDE DEF draw
<1>8. PICK app, k : /\ k = 1
                    /\ app = IF decomposition' # decomposition THEN <<draw>>
                                                                ELSE <<>>
  OBVIOUS
<1>9. WellAsked(app, instance, application.windows, d)
  BY <1>7, <1>8, WellAskedNone
<1>10. /\ wire' = Tail(wire) \o app
       /\ scene' \in {scene, {}}
  <2>1. CASE decomposition' # decomposition
    <3>1. wire' = Append(Tail(wire), draw) /\ scene' = {}
      BY <1>6, <2>1 DEF LevelFetched, Redraw, draw
    <3>2. Tail(wire) \in Seq(Request) /\ draw \in Request /\ app = <<draw>>
      BY <1>1, <1>7, <1>8, <2>1 DEF WellAsked
    <3> QED BY <3>1, <3>2
  <2>2. CASE decomposition' = decomposition
    <3>1. wire' = Tail(wire) /\ scene' = scene
      BY <2>2 DEF LevelFetched, Redraw
    <3>2. Tail(wire) \in Seq(Request) /\ app = <<>>
      BY <1>1, <1>8, <2>2
    <3> QED BY <3>1, <3>2
  <2> QED BY <2>1, <2>2
<1>11. Follows(wire', wire, k, app)
  BY <1>1, <1>8, <1>9, <1>10, Popped DEF WellAsked
<1>12. /\ \A i \in 1 .. Len(app) : app[i].kind \in Analysis
       /\ WireOK(app, instance, application.windows, d)
  BY <1>9 DEF WellAsked, WireOK
<1>13. WindowOfCurrentDataset'
  BY <1>4, <1>5, <1>6, <1>10 DEF IInv, WindowOfCurrentDataset
<1>14. /\ scene' \subseteq AnalysisType
       /\ WindowOK(application, panel', decomposition', scene')
  BY <1>1, <1>2, <1>10, WindowFacts DEF WindowOK
<1>15. k \in {0, 1} /\ wire[1].kind \in Analysis
  BY <1>1, <1>8
<1> QED BY <1>5, <1>11, <1>12, <1>13, <1>14, <1>15, AnalysesIInv

LEMMA RegressionAnswered ==
    ASSUME IInv, wire # <<>>, IsMounted(Head(wire)),
           RegressionFetched(Head(wire)), Succeeds(Head(wire)),
           UNCHANGED <<datasetPanel, application, collected, instance, former,
                       unanswered>>,
           loaded' \in Dataset \cup {None}
    PROVE  IInv'
<1> DEFINE r == Head(wire)
           d == application.currentDataset
<1>0. PICK app, k : app = <<>> /\ k = 1
  OBVIOUS
<1>1. /\ wire \in Seq(Request) /\ r \in Request /\ r = wire[1]
      /\ 1 \in 1 .. Len(wire)
      /\ r.kind = "fetchMorseSmaleRegression" /\ r.kind \in Analysis
      /\ application.windows = 1 /\ r.origin = instance
  BY WindowFacts, PoppedOnly DEF RegressionFetched, IsMounted, Analysis
<1>2. r.dataset = d /\ d \in Dataset /\ r.level \in Level
  BY <1>1, WindowFacts DEF IInv, WireOK, AskedWell
<1>3. r.category \in Category /\ r.field \in Field
  BY <1>1, <1>2, ConstantsAssumption DEF Succeeds
<1>4. Analysed(r) \in AnalysisType /\ Analysed(r).dataset = d
  BY <1>2, <1>3 DEF Analysed, AnalysisType
<1>5. /\ wire' = Tail(wire) /\ scene' = scene \cup {Analysed(r)}
      /\ UNCHANGED <<panel, decomposition>>
  BY DEF RegressionFetched
<1>6. Follows(wire', wire, k, app)
  BY <1>0, <1>1, <1>5, PoppedOnly
<1>7. WellAsked(app, instance, application.windows, d)
  BY <1>0, WellAskedNone
<1>8. /\ \A i \in 1 .. Len(app) : app[i].kind \in Analysis
      /\ WireOK(app, instance, application.windows, d)
  BY <1>7 DEF WellAsked, WireOK
<1>9. WindowOfCurrentDataset'
  BY <1>4, <1>5 DEF IInv, WindowOfCurrentDataset
<1>10. /\ panel' \in PanelType /\ scene' \subseteq AnalysisType
       /\ WindowOK(application, panel', decomposition', scene')
  BY <1>1, <1>2, <1>4, <1>5, WindowFacts DEF WindowOK
<1>11. k \in {0, 1} /\ wire[1].kind \in Analysis
  BY <1>0, <1>1
<1> QED BY <1>6, <1>8, <1>9, <1>10, <1>11, AnalysesIInv

\* The callback of an answer with an error threw.
LEMMA ErrorUnnoticed ==
    ASSUME IInv, wire # <<>>, Head(wire).kind \in Analysis, Unnoticed,
           unanswered' = unanswered, loaded' \in Dataset \cup {None}
    PROVE  IInv'
<1>0. PICK app, k : app = <<>> /\ k = 1
  OBVIOUS
<1>1. /\ wire' = Tail(wire)
      /\ UNCHANGED <<datasetPanel, application, collected, panel, decomposition,
                     scene, instance, former>>
  BY DEF Unnoticed, window, windows
<1>2. Follows(wire', wire, k, app) /\ wire[1].kind \in Analysis
  BY <1>0, <1>1, WindowFacts, PoppedOnly
<1>3. WellAsked(app, instance, application.windows, application.currentDataset)
  BY <1>0, WellAskedNone
<1>4. /\ \A i \in 1 .. Len(app) : app[i].kind \in Analysis
      /\ WireOK(app, instance, application.windows, application.currentDataset)
  BY <1>3 DEF WellAsked, WireOK
<1>5. WindowOfCurrentDataset'
  BY <1>1 DEF IInv, WindowOfCurrentDataset
<1>6. /\ panel' \in PanelType /\ scene' \subseteq AnalysisType
      /\ WindowOK(application, panel', decomposition', scene')
  BY <1>1, WindowFacts DEF IInv
<1>7. k \in {0, 1}
  BY <1>0
<1> QED BY <1>1, <1>2, <1>4, <1>5, <1>6, <1>7, AnalysesIInv

\* An answer is of what was asked, and of a dataset that the server can load.
LEMMA AnswerIInv ==
    ASSUME IInv, Answer
    PROVE  IInv'
<1> DEFINE r == Head(wire)
<1>1. /\ wire # <<>> /\ wire \in Seq(Request) /\ r \in Request
      /\ r.dataset \in Dataset /\ unanswered' = unanswered
  <2>1. wire # <<>> /\ wire \in Seq(Request) /\ unanswered' = unanswered
    BY WindowFacts DEF Answer
  <2>2. r \in Request
    BY <2>1
  <2> QED BY <2>1, <2>2 DEF Request
<1>2. loaded' \in Dataset \cup {None}
  BY <1>1, WindowFacts DEF Answer
<1>3. ASSUME r.kind \in Analysis, Succeeds(r)
      PROVE  MaxLevel[r.field] \in Level
  BY <1>1, <1>3, Levels, ConstantsAssumption DEF Succeeds
<1>4. CASE /\ Succeeds(r)
           /\ \/ DatasetFetched(r) \/ FieldFetched(r) \/ EmbeddingsFetched(r)
              \/ AnalysisFetched(r) \/ UnmountedFetched(r, MaxLevel[r.field])
  <2>1. CASE DatasetFetched(r)
    BY <1>1, <1>2, <2>1, DatasetAnswered
  <2>2. CASE FieldFetched(r)
    BY <1>1, <1>2, <2>2, FieldAnswered
  <2>3. CASE EmbeddingsFetched(r)
    BY <1>1, <1>2, <2>3, EmbeddingsAnswered
  <2>4. CASE AnalysisFetched(r)
    <3>1. /\ IsMounted(r)
          /\ UNCHANGED <<datasetPanel, application, collected, instance, former,
                         unanswered>>
      BY <1>1, <2>4 DEF AnalysisFetched, windows
    <3>2. CASE PersistenceFetched(r, MaxLevel[r.field])
      <4>1. MaxLevel[r.field] \in Level \cup {Undefined}
        BY <1>3, <1>4, <3>2 DEF PersistenceFetched, Analysis
      <4> QED BY <1>1, <1>2, <3>1, <3>2, <4>1, PersistenceAnswered
    <3>3. CASE LevelFetched(r)
      BY <1>1, <1>2, <1>4, <3>1, <3>3, LevelAnswered
    <3>4. CASE RegressionFetched(r)
      BY <1>1, <1>2, <1>4, <3>1, <3>4, RegressionAnswered
    <3> QED BY <2>4, <3>2, <3>3, <3>4 DEF AnalysisFetched
  <2>5. CASE UnmountedFetched(r, MaxLevel[r.field])
    <3>1. MaxLevel[r.field] \in Level \cup {Undefined}
      BY <1>3, <1>4, <2>5 DEF UnmountedFetched
    <3> QED BY <1>1, <1>2, <2>5, <3>1, UnmountedAnswered
  <2> QED BY <1>4, <2>1, <2>2, <2>3, <2>4, <2>5
<1>5. CASE Fails(r) /\ ErrorFetched(r)
  <2>1. r.kind \in Analysis
    BY <1>5 DEF Fails
  <2>2. Undefined \in Level \cup {Undefined}
    OBVIOUS
  <2>3. CASE /\ IsMounted(r) /\ PersistenceFetched(r, Undefined)
             /\ UNCHANGED <<datasetPanel, application, collected, windows>>
    <3>1. UNCHANGED <<datasetPanel, application, collected, instance, former,
                      unanswered>>
      BY <1>1, <2>3 DEF windows
    <3> QED BY <1>1, <1>2, <2>2, <2>3, <3>1, PersistenceAnswered
  <2>4. CASE Unnoticed
    BY <1>1, <1>2, <2>1, <2>4, ErrorUnnoticed
  <2>5. CASE UnmountedFetched(r, Undefined)
    BY <1>1, <1>2, <2>2, <2>5, UnmountedAnswered
  <2> QED BY <1>5, <2>3, <2>4, <2>5 DEF ErrorFetched
<1> QED BY <1>4, <1>5 DEF Answer

\* A command that is never answered is remembered.
LEMMA NoAnswerIInv ==
    ASSUME IInv, NoAnswer
    PROVE  IInv'
<1> DEFINE r == Head(wire)
<1>0. PICK w2, k, app, u2 : /\ w2 = wire' /\ k = 1 /\ app = <<>>
                            /\ u2 = unanswered'
  OBVIOUS
<1>1. /\ u2 = unanswered \cup {r} /\ w2 = Tail(wire) /\ wire # <<>>
      /\ UNCHANGED <<datasetPanel, application, collected, panel, decomposition,
                     scene, instance, former>>
  BY <1>0 DEF NoAnswer, Unnoticed, window, windows
<1>2. /\ wire \in Seq(Request) /\ r \in Request /\ r = wire[1]
      /\ Follows(w2, wire, k, app) /\ Len(app) = 0
  BY <1>0, <1>1, WindowFacts, PoppedOnly
<1>3. loaded' \in Dataset \cup {None}
  BY <1>2, WindowFacts DEF NoAnswer, Request
<1>4. TypeOK'
  BY <1>0, <1>1, <1>2, <1>3 DEF IInv, TypeOK, Follows
<1>5. WireOK(w2, instance, application.windows, application.currentDataset)
  <2>1. WireOK(app, instance, application.windows, application.currentDataset)
    BY <1>2 DEF WireOK
  <2> QED BY <1>2, <2>1, WireFollows DEF IInv
<1>6. \A o, x : Known(collected, unanswered, o, x) => Known(collected, u2, o, x)
  BY <1>1 DEF Known
<1>7. FieldsAhead(w2, collected, u2)
  <2>1. FieldsAhead(app, collected, u2)
    BY <1>2 DEF FieldsAhead
  <2>2. /\ FieldsAhead(wire, collected, unanswered)
        /\ Len(collected) \in Nat /\ Len(collected) <= Len(collected)
    BY DEF IInv, TypeOK
  <2>3. k = 1 /\ wire[1].kind = "fetchField" /\ wire[1].origin \in 1 .. Len(collected)
            => Known(collected, u2, wire[1].origin,
                     <<wire[1].category, wire[1].field>>)
    BY <1>1, <1>2 DEF Known
  <2> QED BY <1>2, <1>6, <2>1, <2>2, <2>3, FieldsFollow, Zenon
<1>8. Chosen(unanswered', datasetPanel', wire', application')
  BY <1>0, <1>1 DEF Chosen
<1>9. FieldsComplete' /\ WindowOfCurrentDataset'
      /\ WindowOK(application', panel', decomposition', scene')
  BY <1>0, <1>1 DEF IInv, FieldsComplete, WindowOfCurrentDataset
<1> QED BY <1>0, <1>1, <1>4, <1>5, <1>7, <1>8, <1>9 DEF IInv

LEMMA NextIInv == IInv /\ [Next]_vars => IInv'
<1> SUFFICES ASSUME IInv, [Next]_vars PROVE IInv'
  OBVIOUS
<1>1. CASE UNCHANGED vars
  <2>1. UNCHANGED <<datasetPanel, application, collected, panel, decomposition,
                    scene, instance, former, wire, unanswered, loaded>>
    BY <1>1 DEF vars
  <2> QED BY <2>1 DEF IInv, TypeOK, FieldsComplete, WindowOfCurrentDataset
<1>2. CASE Next
  BY <1>2, DatasetChosen, NoDatasetChosen, WindowAdded, ModeChanged, FieldChanged,
     LevelChanged, AnswerIInv, NoAnswerIInv DEF Next
<1> QED BY <1>1, <1>2

-----------------------------------------------------------------------------
(* What the window settles on.  Of the commands of one kind that a window  *)
(* has sent only the last matters: while one waits, the last is for what   *)
(* the panel has chosen, and when none is left its answer has been taken.  *)

P == "fetchMorseSmalePersistence"
L == "fetchMorseSmalePersistenceLevel"
R == "fetchMorseSmaleRegression"

AskedBy(kind, o) == {r \in Request : r.kind = kind /\ r.origin = o}
AskedFor(c, f, l) ==
    {r \in Request : r.category = c /\ r.field = f /\ r.level = l}
AskedAbout(a) == {r \in Request : Analysed(r) = a}

NoneIn(w, S) == \A i \in 1 .. Len(w) : w[i] \notin S

\* The last element of w in S is in T.
LastIn(w, S, T) ==
    \A i \in 1 .. Len(w) :
        w[i] \in S /\ (\A j \in i + 1 .. Len(w) : w[j] \notin S) => w[i] \in T

LevelFollows(w, o, p, d, dec) ==
    p.persistenceLevel # None =>
        /\ LastIn(w, AskedBy(L, o),
                  AskedFor(p.category, p.field, p.persistenceLevel))
        /\ NoneIn(w, AskedBy(L, o)) =>
            /\ p.crystals = Of(d, p.category, p.field, p.persistenceLevel)
            /\ dec = [mode |-> p.mode, dataset |-> d, category |-> p.category,
                      field |-> p.field, level |-> p.persistenceLevel]

\* Panel p of window o, of dataset d, has the levels of its field, or will.
PanelFollows(w, o, p, d, dec) ==
    <<p.category, p.field>> \in Listed[d] =>
        /\ LastIn(w, AskedBy(P, o), AskedFor(p.category, p.field, None))
        /\ NoneIn(w, AskedBy(P, o)) =>
            /\ p.maxPersistence = MaxLevel[p.field]
            /\ p.persistenceLevel \in (0 .. MaxLevel[p.field]) \cup {None}
            /\ LevelFollows(w, o, p, d, dec)

Announced(dec) == Of(dec.dataset, dec.category, dec.field, dec.level)

\* The curves of the decomposition announced are drawn, or are asked for.
SceneFollows(w, o, dec, sc) ==
    /\ dec # None /\ <<dec.category, dec.field>> \in Listed[dec.dataset]
    /\ dec.level <= MaxLevel[dec.field]
    => \/ Announced(dec) \in sc
       \/ ~NoneIn(w, AskedBy(R, o) \cap AskedAbout(Announced(dec)))

SInv ==
    /\ application.windows = 0 => panel = NewPanel
    /\ decomposition \in DecompositionType \cup {None}
    /\ unanswered = {} /\ ~refused /\ application.windows = 1 =>
        /\ PanelFollows(wire, instance, panel, application.currentDataset,
                        decomposition)
        /\ SceneFollows(wire, instance, decomposition, scene)

\* Only the head leaves the queue.
LEMMA NoneFollows ==
    ASSUME NEW w2, NEW w, NEW k, NEW app, Follows(w2, w, k, app), NEW S,
           NoneIn(w2, S)
    PROVE  NoneIn(w, S) \/ (k = 1 /\ w[1] \in S)
<1>1. Len(w) \in Nat /\ Len(app) \in Nat /\ k \in {0, 1} /\ k <= Len(w)
      /\ Len(w2) = Len(w) - k + Len(app)
  BY DEF Follows
<1>2. ASSUME NEW j \in 1 .. Len(w), ~(k = 1 /\ j = 1)
      PROVE  w[j] \notin S
  <2>1. j - k \in 1 .. Len(w2) /\ j - k \in 1 .. Len(w) - k /\ j - k + k = j
    BY <1>1, <1>2
  <2>2. w2[j - k] = w[j]
    BY <2>1 DEF Follows
  <2> QED BY <2>1, <2>2 DEF NoneIn
<1> QED BY <1>2 DEF NoneIn

\* The last of a kind stays the last while no other is added, until it leaves.
LEMMA LastInFollows ==
    ASSUME NEW w2, NEW w, NEW k, NEW app, Follows(w2, w, k, app), NEW S, NEW T,
           NoneIn(app, S), LastIn(w, S, T)
    PROVE  /\ LastIn(w2, S, T)
           /\ NoneIn(w2, S) =>
                NoneIn(w, S) \/ (k = 1 /\ w[1] \in S /\ w[1] \in T)
<1>0. Len(w) \in Nat /\ Len(app) \in Nat /\ k \in {0, 1} /\ k <= Len(w)
      /\ Len(w2) = Len(w) - k + Len(app)
  BY DEF Follows
<1>1. ASSUME NEW i \in 1 .. Len(w2), w2[i] \in S,
             \A j \in i + 1 .. Len(w2) : w2[j] \notin S
      PROVE  w2[i] \in T
  <2>1. i \in 1 .. Len(w) - k /\ i + k \in 1 .. Len(w) /\ w2[i] = w[i + k]
    BY <1>1, Places DEF NoneIn
  <2>2. ASSUME NEW j \in i + k + 1 .. Len(w)
        PROVE  w[j] \notin S
    <3>1. j - k \in i + 1 .. Len(w2) /\ j - k \in 1 .. Len(w) - k /\ j - k + k = j
      BY <1>0, <2>1
    <3>2. w2[j - k] = w[j]
      BY <3>1 DEF Follows
    <3> QED BY <1>1, <3>1, <3>2
  <2> QED BY <1>1, <2>1, <2>2 DEF LastIn
<1>2. ASSUME NoneIn(w2, S), k = 1, w[1] \in S
      PROVE  w[1] \in T
  <2>1. ASSUME NEW j \in 1 + 1 .. Len(w)
        PROVE  w[j] \notin S
    <3>1. j - 1 \in 1 .. Len(w2) /\ j - 1 \in 1 .. Len(w) - 1 /\ j - 1 + 1 = j
      BY <1>0, <1>2
    <3>2. w2[j - 1] = w[j]
      BY <1>2, <3>1 DEF Follows
    <3> QED BY <1>2, <3>1, <3>2 DEF NoneIn
  <2>2. 1 \in 1 .. Len(w)
    BY <1>0, <1>2
  <2> QED BY <1>2, <2>1, <2>2 DEF LastIn
<1> QED BY <1>1, <1>2, NoneFollows DEF LastIn

LEMMA LastInAdded ==
    ASSUME NEW w2, NEW w, NEW k, NEW app, Follows(w2, w, k, app), NEW S, NEW T,
           Len(app) > 0, app[Len(app)] \in S, app[Len(app)] \in T
    PROVE  LastIn(w2, S, T) /\ ~NoneIn(w2, S)
<1>1. /\ Len(w) \in Nat /\ Len(app) \in Nat /\ k \in {0, 1} /\ k <= Len(w)
      /\ Len(w2) = Len(w) - k + Len(app)
  BY DEF Follows
<1>2. /\ Len(app) \in 1 .. Len(app) /\ Len(w2) \in 1 .. Len(w2)
      /\ \A i \in 1 .. Len(w2) : i # Len(w2) => Len(w2) \in i + 1 .. Len(w2)
  BY <1>1
<1>3. w2[Len(w2)] = app[Len(app)]
  BY <1>1, <1>2 DEF Follows
<1> QED BY <1>2, <1>3 DEF LastIn, NoneIn

\* Commands of other windows and of other kinds do not matter.
LEMMA PanelUndisturbed ==
    ASSUME NEW w2, NEW w, NEW k, NEW app, Follows(w2, w, k, app), NEW o,
           NEW p, NEW d, NEW dec, PanelFollows(w, o, p, d, dec),
           \A kind \in {P, L} : /\ NoneIn(app, AskedBy(kind, o))
                                /\ k = 1 => w[1] \notin AskedBy(kind, o)
    PROVE  PanelFollows(w2, o, p, d, dec)
<1>1. \A kind \in {P, L} : \A T :
          LastIn(w, AskedBy(kind, o), T) =>
              /\ LastIn(w2, AskedBy(kind, o), T)
              /\ NoneIn(w2, AskedBy(kind, o)) => NoneIn(w, AskedBy(kind, o))
  <2> TAKE kind \in {P, L}
  <2> TAKE T
  <2> PICK S : S = AskedBy(kind, o)
    OBVIOUS
  <2>1. NoneIn(app, S) /\ (k = 1 => w[1] \notin S)
    OBVIOUS
  <2>2. ASSUME LastIn(w, S, T)
        PROVE  LastIn(w2, S, T) /\ (NoneIn(w2, S) => NoneIn(w, S))
    BY <2>1, <2>2, LastInFollows
  <2> QED BY <2>2
<1>2. P \in {P, L} /\ L \in {P, L}
  OBVIOUS
<1> QED BY <1>1, <1>2, Zenon DEF PanelFollows, LevelFollows

LEMMA SceneUndisturbed ==
    ASSUME NEW w2, NEW w, NEW k, NEW app, Follows(w2, w, k, app), NEW o,
           NEW dec, NEW sc, SceneFollows(w, o, dec, sc),
           k = 1 => w[1] \notin AskedBy(R, o)
    PROVE  SceneFollows(w2, o, dec, sc)
<1> DEFINE S == AskedBy(R, o) \cap AskedAbout(Announced(dec))
<1>1. NoneIn(w2, S) => NoneIn(w, S)
  <2>1. k = 1 => w[1] \notin S
    OBVIOUS
  <2> HIDE DEF S
  <2> QED BY <2>1, NoneFollows
<1> QED BY <1>1 DEF SceneFollows

\* A step that neither asks for an analysis nor answers one, for the window.
LEMMA Undisturbed ==
    ASSUME IInv, SInv, NEW k, NEW app, Follows(wire', wire, k, app),
           application.windows = 1 =>
               \A kind \in {P, L, R} :
                   /\ NoneIn(app, AskedBy(kind, instance))
                   /\ k = 1 => wire[1] \notin AskedBy(kind, instance),
           UNCHANGED <<application, panel, decomposition, scene, instance,
                       unanswered>>,
           refused => refused'
    PROVE  SInv'
<1> PICK w2 : w2 = wire'
  OBVIOUS
<1>1. Follows(w2, wire, k, app)
  OBVIOUS
<1>2. ASSUME unanswered = {}, ~refused, application.windows = 1
      PROVE  /\ PanelFollows(w2, instance, panel, application.currentDataset,
                             decomposition)
             /\ SceneFollows(w2, instance, decomposition, scene)
  <2>1. /\ PanelFollows(wire, instance, panel, application.currentDataset,
                        decomposition)
        /\ SceneFollows(wire, instance, decomposition, scene)
    BY <1>2 DEF SInv
  <2>2. /\ \A kind \in {P, L} : /\ NoneIn(app, AskedBy(kind, instance))
                                /\ k = 1 => wire[1] \notin AskedBy(kind, instance)
        /\ k = 1 => wire[1] \notin AskedBy(R, instance)
    BY <1>2
  <2> QED BY <1>1, <2>1, <2>2, PanelUndisturbed, SceneUndisturbed
<1> QED BY <1>2 DEF SInv

\* Steps of the panel alone: what it asks for and what is answered to it.
LEMMA PanelSteps ==
    ASSUME IInv, SInv, application.windows = 1,
           UNCHANGED <<application, instance, unanswered>>,
           refused => refused', decomposition' \in DecompositionType \cup {None},
           unanswered = {} /\ ~refused' =>
               /\ PanelFollows(wire', instance, panel',
                               application.currentDataset, decomposition')
               /\ SceneFollows(wire', instance, decomposition', scene')
    PROVE  SInv'
BY DEF SInv

LEMMA AskedByKind ==
    ASSUME NEW r, NEW kind, NEW o, r.kind # kind
    PROVE  r \notin AskedBy(kind, o)
BY DEF AskedBy

\* An input to the panel that asks for the levels of the field it has now.
LEMMA FieldInput ==
    ASSUME IInv, SInv, application.windows = 1, NEW app, wire' = wire \o app,
           WellAsked(app, instance, application.windows,
                     application.currentDataset),
           UNCHANGED <<application, decomposition, scene, instance, unanswered,
                       refused>>,
           <<panel'.category, panel'.field>> \in Listed[application.currentDataset]
               => /\ Len(app) > 0
                  /\ app[Len(app)] \in AskedBy(P, instance)
                  /\ app[Len(app)] \in
                         AskedFor(panel'.category, panel'.field, None)
    PROVE  SInv'
<1> DEFINE d == application.currentDataset
<1> PICK w2, k, p : w2 = wire' /\ k = 0 /\ p = panel'
  OBVIOUS
<1>1. Follows(w2, wire, k, app)
  <2>1. wire \in Seq(Request) /\ app \in Seq(Request)
    BY WindowFacts DEF WellAsked
  <2> QED BY <2>1, Joined
<1>2. PanelFollows(w2, instance, p, d, decomposition)
  <2> SUFFICES ASSUME <<p.category, p.field>> \in Listed[d]
               PROVE  /\ LastIn(w2, AskedBy(P, instance),
                                AskedFor(p.category, p.field, None))
                      /\ ~NoneIn(w2, AskedBy(P, instance))
    BY DEF PanelFollows
  <2>1. /\ Len(app) > 0 /\ app[Len(app)] \in AskedBy(P, instance)
        /\ app[Len(app)] \in AskedFor(p.category, p.field, None)
    OBVIOUS
  <2> QED BY <1>1, <2>1, LastInAdded
<1>3. ASSUME unanswered = {}, ~refused
      PROVE  SceneFollows(w2, instance, decomposition, scene)
  <2>1. SceneFollows(wire, instance, decomposition, scene)
    BY <1>3 DEF SInv
  <2> QED BY <1>1, <2>1, SceneUndisturbed
<1>4. decomposition' \in DecompositionType \cup {None} /\ (refused => refused')
  BY DEF SInv
<1>5. unanswered = {} /\ ~refused' =>
          /\ PanelFollows(wire', instance, panel', d, decomposition')
          /\ SceneFollows(wire', instance, decomposition', scene')
  BY <1>2, <1>3
<1> QED BY <1>4, <1>5, PanelSteps

LEMMA DecompositionAskedLast ==
    ASSUME IInv, application.windows = 1, NEW p \in PanelType
    PROVE  LET app == fetchDecomposition(p)
           IN  /\ app \in Seq(Request) /\ Len(app) > 0
               /\ app[Len(app)] \in AskedBy(P, instance)
               /\ app[Len(app)] \in AskedFor(p.category, p.field, None)
<1> DEFINE r == Ask(P, instance, application.currentDataset, p.category,
                    p.field, None)
<1>1. fetchDecomposition(p) = <<r>>
  BY DEF fetchDecomposition, AskAnalysis, P
<1>2. r \in Request
  <2>1. /\ P \in Analysis /\ P = "fetchMorseSmalePersistence"
        /\ p.category \in Category \cup {None} /\ p.field \in Field \cup {None}
    BY DEF P, Analysis, PanelType
  <2> QED BY <2>1, AskedOfWindow
<1>3. /\ r.kind = P /\ r.origin = instance /\ r.category = p.category
      /\ r.field = p.field /\ r.level = None
  BY DEF Ask
<1> HIDE DEF r
<1> QED BY <1>1, <1>2, <1>3 DEF AskedBy, AskedFor

\* A field that the dataset has is asked for when it has been chosen.
LEMMA ListedIsValid ==
    ASSUME NEW d \in Dataset, NEW c, NEW f, <<c, f>> \in Listed[d]
    PROVE  c \in Category /\ f \in Field /\ c # None /\ f # None
BY ConstantsAssumption

LEMMA UpdateAsksLast ==
    ASSUME IInv, application.windows = 1, NEW old, NEW p \in PanelType,
           <<old.mode, old.category, old.field>> # <<p.mode, p.category, p.field>>,
           <<p.category, p.field>> \in Listed[application.currentDataset]
    PROVE  LET app == componentDidUpdate(old, p)
           IN  /\ Len(app) > 0
               /\ app[Len(app)] \in AskedBy(P, instance)
               /\ app[Len(app)] \in AskedFor(p.category, p.field, None)
<1>1. p.category # None /\ p.field # None
  BY ListedIsValid, WindowFacts
<1>2. componentDidUpdate(old, p) = fetchDecomposition(p)
  BY <1>1 DEF componentDidUpdate, decompositionConfigValid
<1> QED BY <1>2, DecompositionAskedLast

LEMMA FieldSettles ==
    ASSUME IInv, SInv,
           \/ \E c \in Category \cup {None} : ChangeCategory(c)
           \/ \E f \in Field \cup {None} : ChangeField(f)
    PROVE  SInv'
<1>0. PICK p, app : p = panel' /\ app = componentDidUpdate(panel, p)
  OBVIOUS
<1>1. application.windows = 1
  BY DEF ChangeCategory, ChangeField, ChangePanel
<1>2. p \in PanelType
  BY <1>0, WindowFacts DEF ChangeCategory, ChangeField, ChangePanel, PanelType
<1>3. WellAsked(app, instance, application.windows, application.currentDataset)
  BY <1>0, <1>1, <1>2, DecompositionAsked
<1>4. wire' = wire \o app
  BY <1>0 DEF ChangeCategory, ChangeField
<1>5. UNCHANGED <<application, decomposition, scene, instance, unanswered,
                  refused>>
  BY DEF ChangeCategory, ChangeField, ChangePanel, windows, server
<1>6. <<panel.mode, panel.category, panel.field>> # <<p.mode, p.category, p.field>>
  <2>1. ASSUME NEW c \in Category \cup {None}, ChangeCategory(c)
        PROVE  p.category # panel.category
    <3>1. p = [panel EXCEPT !.category = c] /\ p # panel
      BY <1>0, <2>1 DEF ChangeCategory, ChangePanel
    <3> QED BY <3>1, WindowFacts DEF PanelType
  <2>2. ASSUME NEW f \in Field \cup {None}, ChangeField(f)
        PROVE  p.field # panel.field
    <3>1. p = [panel EXCEPT !.field = f] /\ p # panel
      BY <1>0, <2>2 DEF ChangeField, ChangePanel
    <3> QED BY <3>1, WindowFacts DEF PanelType
  <2> QED BY <2>1, <2>2
<1>7. <<p.category, p.field>> \in Listed[application.currentDataset]
          => /\ Len(app) > 0
             /\ app[Len(app)] \in AskedBy(P, instance)
             /\ app[Len(app)] \in AskedFor(p.category, p.field, None)
  BY <1>0, <1>1, <1>2, <1>6, UpdateAsksLast
<1> QED BY <1>0, <1>1, <1>3, <1>4, <1>5, <1>7, FieldInput

LEMMA ModeSettles ==
    ASSUME IInv, SInv, ChangeToMorseSmale \/ ChangeToSharedGP
    PROVE  SInv'
<1>0. PICK p, asks, more : /\ p = panel' /\ asks = fetchDecomposition(panel)
                           /\ more = componentDidUpdate(panel, p)
  OBVIOUS
<1>1. application.windows = 1
  BY DEF ChangeToMorseSmale, ChangeToSharedGP, ChangePanel
<1>2. /\ p \in PanelType /\ panel \in PanelType
      /\ p.category = panel.category /\ p.field = panel.field
      /\ p.mode # panel.mode
  BY <1>0, WindowFacts
  DEF ChangeToMorseSmale, ChangeToSharedGP, ChangePanel, PanelType
<1>3. /\ WellAsked(more, instance, application.windows, application.currentDataset)
      /\ WellAsked(asks, instance, application.windows, application.currentDataset)
      /\ WellAsked(asks \o more, instance, application.windows,
                   application.currentDataset)
  BY <1>0, <1>1, <1>2, DecompositionAsked, WellAskedJoined
<1>4. wire \in Seq(Request) /\ asks \in Seq(Request) /\ more \in Seq(Request)
  BY <1>3, WindowFacts DEF WellAsked
<1>5. UNCHANGED <<application, decomposition, scene, instance, unanswered,
                  refused>>
  BY DEF ChangeToMorseSmale, ChangeToSharedGP, ChangePanel, windows, server
<1>6. ASSUME <<p.category, p.field>> \in Listed[application.currentDataset]
      PROVE  /\ Len(more) > 0
             /\ more[Len(more)] \in AskedBy(P, instance)
             /\ more[Len(more)] \in AskedFor(p.category, p.field, None)
  <2>1. <<panel.mode, panel.category, panel.field>> #
        <<p.mode, p.category, p.field>>
    BY <1>2
  <2> QED BY <1>0, <1>1, <1>2, <1>6, <2>1, UpdateAsksLast
<1>7. CASE ChangeToMorseSmale
  <2>1. wire' = wire \o asks \o more
    BY <1>0, <1>7 DEF ChangeToMorseSmale
  <2>2. PICK app : app = asks \o more
    OBVIOUS
  <2>3. wire' = wire \o app
    BY <1>4, <2>1, <2>2
  <2>4. ASSUME <<p.category, p.field>> \in Listed[application.currentDataset]
        PROVE  /\ Len(app) > 0
               /\ app[Len(app)] \in AskedBy(P, instance)
               /\ app[Len(app)] \in AskedFor(p.category, p.field, None)
    <3>1. app[Len(app)] = more[Len(more)] /\ Len(app) > 0
      BY <1>4, <1>6, <2>2, <2>4
    <3> QED BY <1>6, <2>4, <3>1
  <2> QED BY <1>0, <1>1, <1>3, <1>5, <2>2, <2>3, <2>4, FieldInput
<1>8. CASE ChangeToSharedGP
  <2>1. wire' = wire \o more
    BY <1>0, <1>8 DEF ChangeToSharedGP
  <2>2. ASSUME <<p.category, p.field>> \in Listed[application.currentDataset]
        PROVE  /\ Len(more) > 0
               /\ more[Len(more)] \in AskedBy(P, instance)
               /\ more[Len(more)] \in AskedFor(p.category, p.field, None)
    BY <1>6, <2>2
  <2> QED BY <1>0, <1>1, <1>3, <1>5, <2>1, <2>2, FieldInput
<1> QED BY <1>7, <1>8

\* What is asked for a level asks for no field.
LEMMA LevelAskedLast ==
    ASSUME IInv, application.windows = 1, NEW p \in PanelType,
           NEW l \in Level \cup {None, Undefined}
    PROVE  LET app == LevelAsked(p, l)
           IN  /\ app \in Seq(Request)
               /\ NoneIn(app, AskedBy(P, instance))
               /\ NoneIn(app, AskedBy(R, instance))
               /\ l # None => /\ Len(app) > 0
                              /\ app[Len(app)] \in AskedBy(L, instance)
                              /\ app[Len(app)] \in AskedFor(p.category, p.field,
                                                     ParsedLevel(l))
<1> DEFINE r == Ask(L, instance, application.currentDataset, p.category,
                    p.field, ParsedLevel(l))
<1>1. CASE l = None
  <2>1. LevelAsked(p, l) = <<>>
    BY <1>1 DEF LevelAsked
  <2> QED BY <1>1, <2>1 DEF NoneIn
<1>2. CASE l # None
  <2>1. LevelAsked(p, l) = <<r>>
    BY <1>2 DEF LevelAsked, AskAnalysis, L
  <2>2. r \in Request
    <3>1. ParsedLevel(l) \in Level
      BY <1>2, Levels DEF ParsedLevel
    <3>2. /\ L \in Analysis
          /\ p.category \in Category \cup {None} /\ p.field \in Field \cup {None}
      BY DEF L, Analysis, PanelType
    <3> QED BY <1>2, <3>1, <3>2, AskedOfWindow
  <2>3. /\ r.kind = L /\ r.origin = instance /\ r.category = p.category
        /\ r.field = p.field /\ r.level = ParsedLevel(l) /\ L # P /\ L # R
    BY DEF Ask, L, P, R
  <2> HIDE DEF r
  <2>4. r \in AskedBy(L, instance) /\ r \notin AskedBy(P, instance)
        /\ r \notin AskedBy(R, instance)
        /\ r \in AskedFor(p.category, p.field, ParsedLevel(l))
    BY <2>2, <2>3 DEF AskedBy, AskedFor
  <2> QED BY <2>1, <2>2, <2>4 DEF NoneIn
<1> QED BY <1>1, <1>2

\* The last level chosen is asked for last.
LEMMA LevelSettles ==
    ASSUME IInv, SInv, NEW l \in Level \cup {None}, ChangeLevel(l)
    PROVE  SInv'
<1> DEFINE d == application.currentDataset
<1>0. PICK p, w2, k, app : /\ p = panel' /\ w2 = wire' /\ k = 0
                           /\ app = LevelAsked(panel, l)
  OBVIOUS
<1>1. application.windows = 1 /\ panel \in PanelType
  BY WindowFacts DEF ChangeLevel, ChangePanel
<1>2. /\ p.category = panel.category /\ p.field = panel.field
      /\ p.maxPersistence = panel.maxPersistence /\ p.persistenceLevel = l
      /\ panel.maxPersistence \in Nat /\ (l = None \/ l \in 0 .. panel.maxPersistence)
  BY <1>0, <1>1 DEF ChangeLevel, ChangePanel, AfterLevel, PanelType
<1>3. /\ app \in Seq(Request) /\ NoneIn(app, AskedBy(P, instance))
      /\ l # None => /\ Len(app) > 0
                     /\ app[Len(app)] \in AskedBy(L, instance)
                     /\ app[Len(app)] \in AskedFor(p.category, p.field, l)
  <2>1. l # None => ParsedLevel(l) = l
    BY <1>2, ConstantsAssumption DEF ParsedLevel
  <2>2. l \in Level \cup {None, Undefined}
    OBVIOUS
  <2> QED BY <1>0, <1>1, <1>2, <2>1, <2>2, LevelAskedLast
<1>4. Follows(w2, wire, k, app)
  <2>1. wire \in Seq(Request) /\ w2 = wire \o app
    BY <1>0, WindowFacts DEF ChangeLevel
  <2> QED BY <1>0, <1>3, <2>1, Joined
<1>5. UNCHANGED <<application, decomposition, scene, instance, unanswered,
                  refused>>
  BY DEF ChangeLevel, ChangePanel, windows, server
<1>6. ASSUME unanswered = {}, ~refused
      PROVE  PanelFollows(w2, instance, p, d, decomposition)
  <2> SUFFICES ASSUME <<p.category, p.field>> \in Listed[d]
               PROVE  /\ LastIn(w2, AskedBy(P, instance),
                                AskedFor(p.category, p.field, None))
                      /\ NoneIn(w2, AskedBy(P, instance)) =>
                          /\ p.maxPersistence = MaxLevel[p.field]
                          /\ l \in (0 .. MaxLevel[p.field]) \cup {None}
                          /\ LevelFollows(w2, instance, p, d, decomposition)
    BY <1>2 DEF PanelFollows
  <2>1. /\ LastIn(wire, AskedBy(P, instance),
                  AskedFor(p.category, p.field, None))
        /\ NoneIn(wire, AskedBy(P, instance)) =>
              panel.maxPersistence = MaxLevel[p.field]
    BY <1>1, <1>2, <1>6 DEF SInv, PanelFollows
  <2>2. /\ LastIn(w2, AskedBy(P, instance),
                  AskedFor(p.category, p.field, None))
        /\ NoneIn(w2, AskedBy(P, instance)) =>
              NoneIn(wire, AskedBy(P, instance))
    BY <1>0, <1>3, <1>4, <2>1, LastInFollows
  <2>3. ASSUME l # None
        PROVE  /\ LastIn(w2, AskedBy(L, instance),
                         AskedFor(p.category, p.field, l))
               /\ ~NoneIn(w2, AskedBy(L, instance))
    BY <1>3, <1>4, <2>3, LastInAdded
  <2>4. LevelFollows(w2, instance, p, d, decomposition)
    BY <1>2, <2>3 DEF LevelFollows
  <2> QED BY <1>2, <2>1, <2>2, <2>4
<1>7. ASSUME unanswered = {}, ~refused
      PROVE  SceneFollows(w2, instance, decomposition, scene)
  <2>1. SceneFollows(wire, instance, decomposition, scene)
    BY <1>1, <1>7 DEF SInv
  <2> QED BY <1>0, <1>4, <2>1, SceneUndisturbed
<1>8. decomposition' \in DecompositionType \cup {None} /\ (refused => refused')
  BY <1>5 DEF SInv
<1>9. unanswered = {} /\ ~refused' =>
          /\ PanelFollows(wire', instance, panel', d, decomposition')
          /\ SceneFollows(wire', instance, decomposition', scene')
  BY <1>0, <1>5, <1>6, <1>7
<1> QED BY <1>1, <1>5, <1>8, <1>9, PanelSteps

LEMMA DatasetInputSettles ==
    ASSUME IInv, SInv, NEW d \in Dataset, ChooseDataset(d)
    PROVE  SInv'
<1> DEFINE r == Ask("fetchDataset", 0, d, None, None, None)
<1> PICK app, k : app = <<r>> /\ k = 0
  OBVIOUS
<1>1. r \in Request /\ r.kind = "fetchDataset"
  BY DEF Ask, Request
<1> HIDE DEF r
<1>2. wire \in Seq(Request) /\ app \in Seq(Request) /\ wire' = wire \o app
  BY <1>1, WindowFacts DEF ChooseDataset, r
<1>3. Follows(wire', wire, k, app)
  BY <1>2, Joined
<1>4. \A kind \in {P, L, R} : NoneIn(app, AskedBy(kind, instance))
  BY <1>1 DEF NoneIn, AskedBy, P, L, R
<1>5. UNCHANGED <<application, panel, decomposition, scene, instance,
                  unanswered, refused>>
  BY DEF ChooseDataset, window, windows, server
<1> QED BY <1>3, <1>4, <1>5, Undisturbed

LEMMA NoDatasetInputSettles ==
    ASSUME SInv, ChooseNoDataset
    PROVE  SInv'
BY DEF ChooseNoDataset, window, windows, server, SInv

\* A new panel has no field.
LEMMA WindowSettles ==
    ASSUME IInv, SInv, AddWindow
    PROVE  SInv'
<1>1. /\ UNCHANGED <<panel, decomposition, scene, wire>>
      /\ application.windows = 0
      /\ application' = [application EXCEPT !.windows = 1]
      /\ application.currentDataset # None
  BY DEF AddWindow, window, server
<1>2. /\ application'.windows = 1
      /\ application'.currentDataset = application.currentDataset
      /\ application.currentDataset \in Dataset
      /\ panel = NewPanel /\ decomposition = None
  BY <1>1 DEF IInv, TypeOK, WindowOK, SInv
<1>3. <<panel.category, panel.field>> \notin Listed[application.currentDataset]
  BY <1>2, ListedIsValid DEF NewPanel
<1>4. ASSUME NEW o
      PROVE  /\ PanelFollows(wire, o, panel, application.currentDataset,
                             decomposition)
             /\ SceneFollows(wire, o, decomposition, scene)
  BY <1>2, <1>3 DEF PanelFollows, SceneFollows
<1> QED BY <1>1, <1>2, <1>4 DEF SInv

\* An answer that is not to the panel of the window.
LEMMA OtherAnswer ==
    ASSUME IInv, SInv, wire # <<>>, NEW app \in Seq(Request),
           wire' = Tail(wire) \o app,
           application.windows = 1 =>
               \A kind \in {P, L, R} :
                   /\ NoneIn(app, AskedBy(kind, instance))
                   /\ Head(wire) \notin AskedBy(kind, instance),
           UNCHANGED <<application, panel, decomposition, scene, instance,
                       unanswered>>,
           refused => refused'
    PROVE  SInv'
<1> PICK k : k = 1
  OBVIOUS
<1>1. Follows(wire', wire, k, app) /\ Head(wire) = wire[1]
  <2>1. wire \in Seq(Request)
    BY WindowFacts
  <2> QED BY <2>1, Popped
<1> QED BY <1>1, Undisturbed

LEMMA DatasetSettles ==
    ASSUME IInv, SInv, wire # <<>>, DatasetFetched(Head(wire)),
           unanswered' = unanswered, refused => refused'
    PROVE  SInv'
<1> DEFINE r == Head(wire)
           call == Len(collected) + 1
           fields == FetchFields(call, r.dataset)
           embeddings == FetchEmbeddings(call, r.dataset)
<1> PICK app : app = fields \o embeddings
  OBVIOUS
<1>1. /\ r.kind = "fetchDataset" /\ wire' = Tail(wire) \o fields \o embeddings
      /\ UNCHANGED <<application, panel, decomposition, scene, instance>>
  BY DEF DatasetFetched, onDatasetChange, window, windows
<1>2. wire \in Seq(Request) /\ r \in Request /\ r.dataset \in Dataset /\ call \in Nat
  <2>1. wire \in Seq(Request)
    BY WindowFacts
  <2>2. r \in Request
    BY <2>1
  <2> QED BY <2>1, <2>2 DEF IInv, TypeOK, Request
<1> HIDE DEF fields, embeddings
<1>3. /\ FieldsFirst(app, call, r.dataset)
      /\ fields \in Seq(Request) /\ embeddings \in Seq(Request)
  BY <1>2, FieldsThenEmbeddings DEF fields, embeddings
<1>4. app \in Seq(Request) /\ wire' = Tail(wire) \o app
  BY <1>1, <1>2, <1>3, SMTT(30)
<1>5. \A i \in 1 .. Len(app) :
          app[i].kind \in {"fetchField", "fetchEmbeddingsList"}
  BY <1>3 DEF FieldsFirst
<1>6. \A kind \in {P, L, R} : /\ NoneIn(app, AskedBy(kind, instance))
                              /\ r \notin AskedBy(kind, instance)
  BY <1>1, <1>5 DEF NoneIn, AskedBy, P, L, R
<1> QED BY <1>1, <1>4, <1>6, OtherAnswer

LEMMA FieldAnswerSettles ==
    ASSUME IInv, SInv, wire # <<>>, FieldFetched(Head(wire)),
           unanswered' = unanswered, refused => refused'
    PROVE  SInv'
<1> PICK app : app = <<>>
  OBVIOUS
<1>1. /\ Head(wire).kind = "fetchField" /\ wire' = Tail(wire)
      /\ UNCHANGED <<application, panel, decomposition, scene, instance>>
  BY DEF FieldFetched, window, windows
<1>2. app \in Seq(Request) /\ wire' = Tail(wire) \o app
  BY <1>1, WindowFacts
<1>3. \A kind \in {P, L, R} : /\ NoneIn(app, AskedBy(kind, instance))
                              /\ Head(wire) \notin AskedBy(kind, instance)
  BY <1>1 DEF NoneIn, AskedBy, P, L, R
<1> QED BY <1>1, <1>2, <1>3, OtherAnswer

LEMMA EmbeddingsSettle ==
    ASSUME EmbeddingsFetched(Head(wire))
    PROVE  SInv'
<1>1. /\ application' = [currentDataset |-> Head(wire).dataset,
                         call |-> Head(wire).origin, windows |-> 0]
      /\ panel' = NewPanel /\ decomposition' = None
  BY DEF EmbeddingsFetched
<1> QED BY <1>1 DEF SInv

\* A panel that is gone asks for its own window.
LEMMA UnmountedSettles ==
    ASSUME IInv, SInv, wire # <<>>, NEW max \in Level \cup {Undefined},
           UnmountedFetched(Head(wire), max),
           unanswered' = unanswered, refused => refused'
    PROVE  SInv'
<1> DEFINE r == Head(wire)
           p == former[r.origin]
           next == Ask("fetchMorseSmalePersistenceLevel", r.origin, p.dataset,
                       p.category, p.field, ParsedLevel(max))
<1> PICK app : app = IF r.kind = "fetchMorseSmalePersistence"
                     THEN <<next>> ELSE <<>>
  OBVIOUS
<1>1. /\ ~IsMounted(r) /\ wire' = Tail(wire) \o app
      /\ UNCHANGED <<application, panel, decomposition, scene, instance>>
  BY DEF UnmountedFetched, window, windows
<1>2. next.origin = r.origin
  BY DEF Ask
<1> HIDE DEF next
<1>3. ASSUME application.windows = 1, NEW kind
      PROVE  /\ NoneIn(app, AskedBy(kind, instance))
             /\ r \notin AskedBy(kind, instance)
  <2>1. r.origin # instance
    BY <1>1, <1>3 DEF IsMounted
  <2> QED BY <1>2, <2>1 DEF NoneIn, AskedBy
<1>4. app \in Seq(Request)
  BY UnmountedAsks DEF next
<1> QED BY <1>1, <1>3, <1>4, OtherAnswer

\* An answer to the panel of the window.
LEMMA OwnAnswer ==
    ASSUME IInv, wire # <<>>, Head(wire).kind \in Analysis, IsMounted(Head(wire))
    PROVE  LET r == Head(wire)
           IN  /\ application.windows = 1 /\ r.origin = instance
               /\ wire \in Seq(Request) /\ r \in Request /\ r = wire[1]
               /\ r.dataset = application.currentDataset
               /\ r.kind # P => r.level \in Level
               /\ application.currentDataset \in Dataset
               /\ r \in AskedBy(r.kind, instance)
<1> DEFINE r == Head(wire)
<1>1. /\ wire \in Seq(Request) /\ r \in Request /\ r = wire[1]
      /\ 1 \in 1 .. Len(wire) /\ application.windows = 1 /\ r.origin = instance
  BY WindowFacts, PoppedOnly DEF IsMounted
<1>2. /\ r.dataset = application.currentDataset
      /\ r.kind # P => r.level \in Level
  BY <1>1 DEF IInv, WireOK, AskedWell, P
<1>3. application.currentDataset \in Dataset
  BY <1>1, WindowFacts
<1>4. r \in AskedBy(r.kind, instance)
  BY <1>1 DEF AskedBy
<1> QED BY <1>1, <1>2, <1>3, <1>4

\* The last answer with levels is of the field that the panel shows, and its
\* last level is asked for.
LEMMA PersistenceSettles ==
    ASSUME IInv, SInv, wire # <<>>, NEW max \in Level \cup {Undefined},
           IsMounted(Head(wire)), PersistenceFetched(Head(wire), max),
           UNCHANGED <<application, instance, unanswered>>, refused => refused',
           LET r == Head(wire)
           IN  /\ ~refused' /\ r.level = None
               /\ <<r.category, r.field>> \in Listed[r.dataset]
               => max = MaxLevel[r.field]
    PROVE  SInv'
<1> DEFINE r == Head(wire)
           d == application.currentDataset
<1>0. PICK p, w2, k, app : /\ p = panel' /\ w2 = wire' /\ k = 1
                           /\ app = LevelAsked(p, max)
  OBVIOUS
<1>1. /\ r.kind = P /\ P \in Analysis
      /\ p = [panel EXCEPT !.maxPersistence = max, !.persistenceLevel = max]
      /\ w2 = Tail(wire) \o app
      /\ UNCHANGED <<decomposition, scene>>
  BY <1>0 DEF PersistenceFetched, LevelAsked, AskAnalysis, P, Analysis
<1>2. /\ application.windows = 1 /\ wire \in Seq(Request) /\ r = wire[1]
      /\ r.dataset = d /\ d \in Dataset /\ r \in AskedBy(P, instance)
      /\ panel \in PanelType
  BY <1>1, OwnAnswer, WindowFacts
<1>3. /\ p \in PanelType /\ p.category = panel.category /\ p.field = panel.field
      /\ p.maxPersistence = max /\ p.persistenceLevel = max
      /\ p.crystals = panel.crystals /\ p.mode = panel.mode
  BY <1>1, <1>2 DEF PanelType
<1>4. max # None
  BY Levels, ConstantsAssumption
<1>5. /\ app \in Seq(Request) /\ NoneIn(app, AskedBy(P, instance))
      /\ Len(app) > 0 /\ app[Len(app)] \in AskedBy(L, instance)
      /\ app[Len(app)] \in AskedFor(p.category, p.field, ParsedLevel(max))
  <2>1. max \in Level \cup {None, Undefined}
    OBVIOUS
  <2> QED BY <1>0, <1>2, <1>3, <1>4, <2>1, LevelAskedLast
<1>6. Follows(w2, wire, k, app)
  BY <1>0, <1>1, <1>2, <1>5, Popped
<1>7. ASSUME unanswered = {}, ~refused'
      PROVE  PanelFollows(w2, instance, p, d, decomposition)
  <2> SUFFICES ASSUME <<p.category, p.field>> \in Listed[d]
               PROVE  /\ LastIn(w2, AskedBy(P, instance),
                                AskedFor(p.category, p.field, None))
                      /\ NoneIn(w2, AskedBy(P, instance)) =>
                          /\ p.maxPersistence = MaxLevel[p.field]
                          /\ max \in (0 .. MaxLevel[p.field]) \cup {None}
                          /\ LevelFollows(w2, instance, p, d, decomposition)
    BY <1>3 DEF PanelFollows
  <2>1. LastIn(wire, AskedBy(P, instance), AskedFor(p.category, p.field, None))
    BY <1>2, <1>3, <1>7 DEF SInv, PanelFollows
  <2>2. /\ LastIn(w2, AskedBy(P, instance), AskedFor(p.category, p.field, None))
        /\ NoneIn(w2, AskedBy(P, instance)) =>
              \/ NoneIn(wire, AskedBy(P, instance))
              \/ wire[1] \in AskedFor(p.category, p.field, None)
    BY <1>0, <1>5, <1>6, <2>1, LastInFollows
  <2>3. ~NoneIn(wire, AskedBy(P, instance))
    <3>1. 1 \in 1 .. Len(wire)
      BY <1>2
    <3> QED BY <1>2, <3>1 DEF NoneIn
  <2>4. ASSUME NoneIn(w2, AskedBy(P, instance))
        PROVE  /\ p.maxPersistence = MaxLevel[p.field]
               /\ max \in (0 .. MaxLevel[p.field]) \cup {None}
               /\ LevelFollows(w2, instance, p, d, decomposition)
    <3>1. r \in AskedFor(p.category, p.field, None)
      BY <1>2, <2>2, <2>3, <2>4
    <3>2. r.category = p.category /\ r.field = p.field /\ r.level = None
      BY <3>1 DEF AskedFor
    <3>3. max = MaxLevel[p.field] /\ max \in Nat
      <4>1. max = MaxLevel[p.field]
        BY <1>2, <1>7, <3>2
      <4> QED BY <1>2, <4>1, ListedIsValid, ConstantsAssumption
    <3>4. /\ LastIn(w2, AskedBy(L, instance),
                    AskedFor(p.category, p.field, p.persistenceLevel))
          /\ ~NoneIn(w2, AskedBy(L, instance))
      <4>1. ParsedLevel(max) = p.persistenceLevel
        BY <1>3, <3>3, ConstantsAssumption DEF ParsedLevel
      <4>2. app[Len(app)] \in AskedFor(p.category, p.field, p.persistenceLevel)
        BY <1>5, <4>1
      <4> QED BY <1>5, <1>6, <4>2, LastInAdded
    <3>5. LevelFollows(w2, instance, p, d, decomposition)
      BY <3>4 DEF LevelFollows
    <3> QED BY <1>3, <3>3, <3>5
  <2> QED BY <2>2, <2>4
<1>8. ASSUME unanswered = {}, ~refused
      PROVE  SceneFollows(w2, instance, decomposition, scene)
  <2>1. SceneFollows(wire, instance, decomposition, scene)
    BY <1>2, <1>8 DEF SInv
  <2>2. wire[1] \notin AskedBy(R, instance)
    BY <1>1, <1>2, AskedByKind DEF P, R
  <2> QED BY <1>6, <2>1, <2>2, SceneUndisturbed
<1>9. decomposition' \in DecompositionType \cup {None}
  BY <1>1 DEF SInv
<1>10. unanswered = {} /\ ~refused' =>
          /\ PanelFollows(wire', instance, panel', d, decomposition')
          /\ SceneFollows(wire', instance, decomposition', scene')
  BY <1>0, <1>1, <1>7, <1>8
<1> QED BY <1>2, <1>9, <1>10, PanelSteps

\* The last answer about a level is of the level, the field and the dataset that
\* the panel shows.  What it announces is drawn already, or asked for.
LEMMA CrystalsSettle ==
    ASSUME IInv, SInv, wire # <<>>, IsMounted(Head(wire)),
           LevelFetched(Head(wire)), Succeeds(Head(wire)),
           UNCHANGED <<application, instance, unanswered>>, refused => refused'
    PROVE  SInv'
<1> DEFINE r == Head(wire)
           d == application.currentDataset
           draw == Ask(R, instance, decomposition'.dataset,
                       decomposition'.category, decomposition'.field,
                       decomposition'.level)
<1>0. PICK p, w2, k, dec, sc, app :
          /\ p = panel' /\ w2 = wire' /\ k = 1 /\ dec = decomposition'
          /\ sc = scene'
          /\ app = IF dec # decomposition THEN <<draw>> ELSE <<>>
  OBVIOUS
<1>1. /\ r.kind = L /\ L \in Analysis
      /\ p = [panel EXCEPT !.crystals = Analysed(r)]
      /\ dec = [mode |-> panel.mode, dataset |-> r.dataset,
                category |-> panel.category, field |-> panel.field,
                level |-> r.level]
  BY <1>0 DEF LevelFetched, L, Analysis
<1>2. /\ application.windows = 1 /\ wire \in Seq(Request) /\ r = wire[1]
      /\ r.dataset = d /\ d \in Dataset /\ r.level \in Level
      /\ r \in AskedBy(L, instance) /\ panel \in PanelType /\ r \in Request
  BY <1>1, OwnAnswer, WindowFacts DEF P, L
<1>3. /\ p.category = panel.category /\ p.field = panel.field
      /\ p.maxPersistence = panel.maxPersistence
      /\ p.persistenceLevel = panel.persistenceLevel
      /\ p.crystals = Analysed(r) /\ p.mode = panel.mode
  BY <1>1, <1>2 DEF PanelType
<1>4. dec \in DecompositionType /\ dec # None
  <2>1. dec \in DecompositionType
    BY <1>1, <1>2 DEF PanelType, DecompositionType
  <2> QED BY <2>1, NoneAssumption
<1>5. /\ draw \in Request /\ draw.kind = R /\ draw.origin = instance
      /\ Analysed(draw) = Announced(dec)
  <2>1. draw \in Request
    BY <1>0, <1>4, <1>2, WindowFacts DEF Ask, Request, DecompositionType, R
  <2>2. Analysed(draw) = Announced(dec)
    BY <1>0 DEF Ask, Analysed, Announced, Of
  <2> QED BY <2>1, <2>2 DEF Ask
<1>6. /\ w2 = Tail(wire) \o app
      /\ dec = decomposition => sc = scene
  <2>1. Tail(wire) \in Seq(Request)
    BY <1>2
  <2>2. CASE dec # decomposition
    <3>1. w2 = Append(Tail(wire), draw)
      BY <1>0, <2>2 DEF LevelFetched, Redraw, R
    <3> HIDE DEF draw
    <3>2. w2 = Tail(wire) \o <<draw>>
      BY <1>5, <2>1, <3>1
    <3> QED BY <1>0, <2>2, <3>2
  <2>3. CASE dec = decomposition
    <3>1. w2 = Tail(wire) /\ sc = scene
      BY <1>0, <2>3 DEF LevelFetched, Redraw
    <3> QED BY <1>0, <2>1, <2>3, <3>1
  <2> QED BY <2>2, <2>3
<1> HIDE DEF draw
<1>7. /\ app \in Seq(Request) /\ NoneIn(app, AskedBy(P, instance))
      /\ NoneIn(app, AskedBy(L, instance))
      /\ dec # decomposition =>
            /\ Len(app) > 0
            /\ app[Len(app)] \in AskedBy(R, instance)
                                     \cap AskedAbout(Announced(dec))
  <2>1. CASE dec # decomposition
    <3>1. app = <<draw>>
      BY <1>0, <2>1
    <3>2. /\ draw \notin AskedBy(P, instance) /\ draw \notin AskedBy(L, instance)
          /\ draw \in AskedBy(R, instance) \cap AskedAbout(Announced(dec))
      BY <1>5 DEF AskedBy, AskedAbout, P, L, R
    <3> QED BY <1>5, <3>1, <3>2 DEF NoneIn
  <2>2. CASE dec = decomposition
    <3>1. app = <<>>
      BY <1>0, <2>2
    <3> QED BY <2>2, <3>1 DEF NoneIn
  <2> QED BY <2>1, <2>2
<1>8. Follows(w2, wire, k, app)
  BY <1>0, <1>2, <1>6, <1>7, Popped
<1>9. ASSUME unanswered = {}, ~refused
      PROVE  PanelFollows(w2, instance, p, d, dec)
  <2> DEFINE F == AskedFor(p.category, p.field, None)
             G == AskedFor(p.category, p.field, p.persistenceLevel)
  <2> SUFFICES ASSUME <<p.category, p.field>> \in Listed[d]
               PROVE  /\ LastIn(w2, AskedBy(P, instance), F)
                      /\ NoneIn(w2, AskedBy(P, instance)) =>
                          /\ p.maxPersistence = MaxLevel[p.field]
                          /\ p.persistenceLevel \in
                                 (0 .. MaxLevel[p.field]) \cup {None}
                          /\ LevelFollows(w2, instance, p, d, dec)
    BY DEF PanelFollows
  <2>1. PanelFollows(wire, instance, panel, d, decomposition)
    BY <1>2, <1>9 DEF SInv
  <2>2. /\ LastIn(wire, AskedBy(P, instance), F)
        /\ NoneIn(wire, AskedBy(P, instance)) =>
            /\ p.maxPersistence = MaxLevel[p.field]
            /\ p.persistenceLevel \in (0 .. MaxLevel[p.field]) \cup {None}
            /\ p.persistenceLevel # None =>
                  LastIn(wire, AskedBy(L, instance), G)
    BY <1>3, <2>1 DEF PanelFollows, LevelFollows
  <2>3. /\ LastIn(w2, AskedBy(P, instance), F)
        /\ NoneIn(w2, AskedBy(P, instance)) => NoneIn(wire, AskedBy(P, instance))
    <3>1. wire[1] \notin AskedBy(P, instance)
      BY <1>1, <1>2, AskedByKind DEF P, L
    <3> HIDE DEF F
    <3> QED BY <1>7, <1>8, <2>2, <3>1, LastInFollows
  <2>4. ASSUME p.persistenceLevel # None, LastIn(wire, AskedBy(L, instance), G)
        PROVE  /\ LastIn(w2, AskedBy(L, instance), G)
               /\ NoneIn(w2, AskedBy(L, instance)) => wire[1] \in G
    <3>1. ~NoneIn(wire, AskedBy(L, instance))
      <4>1. 1 \in 1 .. Len(wire)
        BY <1>2
      <4> QED BY <1>2, <4>1 DEF NoneIn
    <3> HIDE DEF G
    <3> QED BY <1>7, <1>8, <2>4, <3>1, LastInFollows
  <2>5. ASSUME wire[1] \in G
        PROVE  /\ p.crystals = Of(d, p.category, p.field, p.persistenceLevel)
               /\ dec = [mode |-> p.mode, dataset |-> d,
                         category |-> p.category, field |-> p.field,
                         level |-> p.persistenceLevel]
    <3>1. /\ r.category = p.category /\ r.field = p.field
          /\ r.level = p.persistenceLevel
      BY <1>2, <2>5 DEF AskedFor
    <3>2. Analysed(r) = Of(d, p.category, p.field, p.persistenceLevel)
      BY <1>2, <3>1 DEF Analysed, Of
    <3> QED BY <1>1, <1>2, <1>3, <3>1, <3>2
  <2> HIDE DEF F
  <2>6. ASSUME p.persistenceLevel # None => LastIn(wire, AskedBy(L, instance), G)
        PROVE  LevelFollows(w2, instance, p, d, dec)
    BY <2>4, <2>5, <2>6 DEF LevelFollows
  <2> HIDE DEF G
  <2> QED BY <2>2, <2>3, <2>6
<1>10. ASSUME unanswered = {}, ~refused
       PROVE  SceneFollows(w2, instance, dec, sc)
  <2>1. CASE dec # decomposition
    <3> DEFINE S == AskedBy(R, instance) \cap AskedAbout(Announced(dec))
    <3>1. Len(app) > 0 /\ app[Len(app)] \in S
      BY <1>7, <2>1
    <3>2. ~NoneIn(w2, S)
      <4> HIDE DEF S
      <4> QED BY <1>8, <3>1, LastInAdded
    <3> QED BY <3>2 DEF SceneFollows
  <2>2. CASE dec = decomposition
    <3>1. SceneFollows(wire, instance, dec, sc)
      BY <1>2, <1>6, <1>10, <2>2 DEF SInv
    <3>2. wire[1] \notin AskedBy(R, instance)
      BY <1>1, <1>2, AskedByKind DEF L, R
    <3> QED BY <1>8, <3>1, <3>2, SceneUndisturbed
  <2> QED BY <2>1, <2>2
<1>11. decomposition' \in DecompositionType \cup {None}
  BY <1>0, <1>4
<1>12. unanswered = {} /\ ~refused' =>
          /\ PanelFollows(wire', instance, panel', d, decomposition')
          /\ SceneFollows(wire', instance, decomposition', scene')
  BY <1>0, <1>9, <1>10
<1> QED BY <1>2, <1>11, <1>12, PanelSteps

\* The curves asked for are drawn.
LEMMA CurvesSettle ==
    ASSUME IInv, SInv, wire # <<>>, IsMounted(Head(wire)),
           RegressionFetched(Head(wire)),
           UNCHANGED <<application, instance, unanswered>>, refused => refused'
    PROVE  SInv'
<1> DEFINE r == Head(wire)
<1>0. PICK w2, k, app, sc : /\ w2 = wire' /\ k = 1 /\ app = <<>> /\ sc = scene'
  OBVIOUS
<1>1. /\ r.kind = R /\ R \in Analysis /\ w2 = Tail(wire)
      /\ sc = scene \cup {Analysed(r)}
      /\ UNCHANGED <<panel, decomposition>>
  BY <1>0 DEF RegressionFetched, R, Analysis
<1>2. /\ application.windows = 1 /\ wire \in Seq(Request) /\ r = wire[1]
      /\ Follows(w2, wire, k, app)
  BY <1>0, <1>1, OwnAnswer, PoppedOnly
<1>3. ASSUME unanswered = {}, ~refused
      PROVE  PanelFollows(w2, instance, panel, application.currentDataset,
                          decomposition)
  <2>1. PanelFollows(wire, instance, panel, application.currentDataset,
                     decomposition)
    BY <1>2, <1>3 DEF SInv
  <2>2. \A kind \in {P, L} : /\ NoneIn(app, AskedBy(kind, instance))
                             /\ wire[1] \notin AskedBy(kind, instance)
    BY <1>0, <1>1, <1>2 DEF NoneIn, AskedBy, P, L, R
  <2> QED BY <1>2, <2>1, <2>2, PanelUndisturbed
<1>4. ASSUME unanswered = {}, ~refused
      PROVE  SceneFollows(w2, instance, decomposition, sc)
  <2> DEFINE S == AskedBy(R, instance) \cap AskedAbout(Announced(decomposition))
  <2>1. SceneFollows(wire, instance, decomposition, scene)
    BY <1>2, <1>4 DEF SInv
  <2>2. NoneIn(w2, S) => NoneIn(wire, S) \/ wire[1] \in S
    <3> HIDE DEF S
    <3> QED BY <1>2, NoneFollows
  <2>3. wire[1] \in S => Announced(decomposition) \in sc
    BY <1>1, <1>2 DEF AskedAbout
  <2> QED BY <1>1, <2>1, <2>2, <2>3 DEF SceneFollows
<1>5. decomposition' \in DecompositionType \cup {None}
  BY <1>1 DEF SInv
<1>6. unanswered = {} /\ ~refused' =>
          /\ PanelFollows(wire', instance, panel', application.currentDataset,
                          decomposition')
          /\ SceneFollows(wire', instance, decomposition', scene')
  BY <1>0, <1>1, <1>3, <1>4
<1> QED BY <1>2, <1>5, <1>6, PanelSteps

\* A level or curves that the panel waits for are not refused, unless the server
\* refuses a field that the dataset has.
LEMMA RefusalSettles ==
    ASSUME IInv, SInv, wire # <<>>, IsMounted(Head(wire)),
           Head(wire).kind \in {L, R}, wire' = Tail(wire),
           UNCHANGED <<application, panel, decomposition, scene, instance,
                       unanswered>>,
           LET r == Head(wire)
           IN  <<r.category, r.field>> \in Listed[r.dataset] /\ ~LevelInvalid(r)
               => refused',
           refused => refused'
    PROVE  SInv'
<1> DEFINE r == Head(wire)
           d == application.currentDataset
           level == panel.persistenceLevel
<1>0. PICK w2, k, app : w2 = wire' /\ k = 1 /\ app = <<>>
  OBVIOUS
<1>1. /\ application.windows = 1 /\ wire \in Seq(Request) /\ r = wire[1]
      /\ r.dataset = d /\ d \in Dataset /\ r.level \in Level
      /\ Follows(w2, wire, k, app)
  <2>1. r.kind \in Analysis /\ r.kind # P
    BY DEF P, L, R, Analysis
  <2> QED BY <1>0, <2>1, OwnAnswer, PoppedOnly
<1>2. ASSUME NEW S PROVE NoneIn(app, S)
  BY <1>0 DEF NoneIn
<1>3. \/ unanswered # {} \/ refused'
      \/ PanelFollows(w2, instance, panel, d, decomposition)
  <2> SUFFICES ASSUME unanswered = {}, ~refused',
                      <<panel.category, panel.field>> \in Listed[d]
               PROVE  /\ LastIn(w2, AskedBy(P, instance),
                                AskedFor(panel.category, panel.field, None))
                      /\ NoneIn(w2, AskedBy(P, instance)) =>
                          /\ panel.maxPersistence = MaxLevel[panel.field]
                          /\ level \in (0 .. MaxLevel[panel.field]) \cup {None}
                          /\ LevelFollows(w2, instance, panel, d, decomposition)
    BY DEF PanelFollows
  <2> DEFINE F == AskedFor(panel.category, panel.field, None)
             G == AskedFor(panel.category, panel.field, level)
  <2>1. PanelFollows(wire, instance, panel, d, decomposition)
    BY <1>1 DEF SInv
  <2>2. /\ LastIn(wire, AskedBy(P, instance), F)
        /\ NoneIn(wire, AskedBy(P, instance)) =>
            /\ panel.maxPersistence = MaxLevel[panel.field]
            /\ level \in (0 .. MaxLevel[panel.field]) \cup {None}
            /\ LevelFollows(wire, instance, panel, d, decomposition)
    BY <2>1 DEF PanelFollows
  <2>3. /\ LastIn(w2, AskedBy(P, instance), F)
        /\ NoneIn(w2, AskedBy(P, instance)) => NoneIn(wire, AskedBy(P, instance))
    <3>1. wire[1] \notin AskedBy(P, instance)
      BY <1>1, AskedByKind DEF P, L, R
    <3> HIDE DEF F
    <3> QED BY <1>1, <1>2, <2>2, <3>1, LastInFollows
  <2>4. ASSUME level \in (0 .. MaxLevel[panel.field]) \cup {None},
               LevelFollows(wire, instance, panel, d, decomposition), level # None
        PROVE  /\ LastIn(w2, AskedBy(L, instance), G)
               /\ NoneIn(w2, AskedBy(L, instance)) =>
                     NoneIn(wire, AskedBy(L, instance))
    <3>1. wire[1] \notin G
      <4> SUFFICES ASSUME wire[1] \in G PROVE FALSE
        OBVIOUS
      <4>1. /\ r.category = panel.category /\ r.field = panel.field
            /\ r.level = level
        BY <1>1 DEF AskedFor
      <4>2. MaxLevel[panel.field] \in Nat
        BY <1>1, ListedIsValid, ConstantsAssumption
      <4>3. ~LevelInvalid(r)
        BY <2>4, <4>1, <4>2 DEF LevelInvalid
      <4> QED BY <1>1, <4>1, <4>3
    <3>2. LastIn(wire, AskedBy(L, instance), G)
      BY <2>4 DEF LevelFollows
    <3> HIDE DEF G
    <3> QED BY <1>1, <1>2, <3>1, <3>2, LastInFollows
  <2>5. ASSUME level \in (0 .. MaxLevel[panel.field]) \cup {None},
               LevelFollows(wire, instance, panel, d, decomposition)
        PROVE  LevelFollows(w2, instance, panel, d, decomposition)
    BY <2>4, <2>5 DEF LevelFollows
  <2> HIDE DEF G
  <2> QED BY <2>2, <2>3, <2>5
<1>4. \/ unanswered # {} \/ refused'
      \/ SceneFollows(w2, instance, decomposition, scene)
  <2> SUFFICES ASSUME unanswered = {}, ~refused'
               PROVE  SceneFollows(w2, instance, decomposition, scene)
    OBVIOUS
  <2> DEFINE dec == decomposition
             S == AskedBy(R, instance) \cap AskedAbout(Announced(dec))
  <2> SUFFICES ASSUME dec # None, dec.level <= MaxLevel[dec.field],
                      <<dec.category, dec.field>> \in Listed[dec.dataset]
               PROVE  Announced(dec) \in scene \/ ~NoneIn(w2, S)
    BY DEF SceneFollows
  <2>1. dec \in DecompositionType
    BY DEF SInv
  <2>2. Announced(dec) \in scene \/ ~NoneIn(wire, S)
    BY <1>1 DEF SInv, SceneFollows
  <2>3. wire[1] \notin S
    <3> SUFFICES ASSUME wire[1] \in S PROVE FALSE
      OBVIOUS
    <3>1. Analysed(r) = Announced(dec)
      BY <1>1 DEF AskedAbout
    <3>2. /\ r.dataset = dec.dataset /\ r.category = dec.category
          /\ r.field = dec.field /\ r.level = dec.level
      BY <3>1 DEF Analysed, Announced, Of
    <3>3. dec.dataset \in Dataset /\ dec.level \in Nat
      BY <2>1, Levels DEF DecompositionType
    <3>4. MaxLevel[dec.field] \in Nat
      BY <3>3, ListedIsValid, ConstantsAssumption
    <3>5. ~LevelInvalid(r)
      BY <3>2, <3>3, <3>4 DEF LevelInvalid
    <3> QED BY <3>2, <3>5
  <2> HIDE DEF S
  <2>4. NoneIn(w2, S) => NoneIn(wire, S)
    BY <1>1, <2>3, NoneFollows
  <2> QED BY <2>2, <2>4
<1>5. decomposition' \in DecompositionType \cup {None}
  BY DEF SInv
<1>6. unanswered = {} /\ ~refused' =>
          /\ PanelFollows(wire', instance, panel', d, decomposition')
          /\ SceneFollows(wire', instance, decomposition', scene')
  BY <1>0, <1>3, <1>4
<1> QED BY <1>1, <1>5, <1>6, PanelSteps

LEMMA AnswerSettles ==
    ASSUME IInv, SInv, Answer
    PROVE  SInv'
<1> DEFINE r == Head(wire)
<1>1. /\ wire # <<>> /\ wire \in Seq(Request) /\ r \in Request
      /\ r.dataset \in Dataset /\ unanswered' = unanswered
  <2>1. wire # <<>> /\ wire \in Seq(Request) /\ unanswered' = unanswered
    BY WindowFacts DEF Answer
  <2>2. r \in Request
    BY <2>1
  <2> QED BY <2>1, <2>2 DEF Request
<1>2. refused => refused'
  BY DEF Answer
<1>3. ASSUME r.kind \in Analysis, Succeeds(r)
      PROVE  MaxLevel[r.field] \in Level
  BY <1>1, <1>3, Levels, ConstantsAssumption DEF Succeeds
<1>4. CASE /\ Succeeds(r)
           /\ \/ DatasetFetched(r) \/ FieldFetched(r) \/ EmbeddingsFetched(r)
              \/ AnalysisFetched(r) \/ UnmountedFetched(r, MaxLevel[r.field])
  <2>1. CASE DatasetFetched(r)
    BY <1>1, <1>2, <2>1, DatasetSettles
  <2>2. CASE FieldFetched(r)
    BY <1>1, <1>2, <2>2, FieldAnswerSettles
  <2>3. CASE EmbeddingsFetched(r)
    BY <2>3, EmbeddingsSettle
  <2>4. CASE AnalysisFetched(r)
    <3>1. IsMounted(r) /\ UNCHANGED <<application, instance, unanswered>>
      BY <1>1, <2>4 DEF AnalysisFetched, windows
    <3>2. CASE PersistenceFetched(r, MaxLevel[r.field])
      <4>1. MaxLevel[r.field] \in Level \cup {Undefined}
        BY <1>3, <1>4, <3>2 DEF PersistenceFetched, Analysis
      <4> QED BY <1>1, <1>2, <3>1, <3>2, <4>1, PersistenceSettles
    <3>3. CASE LevelFetched(r)
      BY <1>1, <1>2, <1>4, <3>1, <3>3, CrystalsSettle
    <3>4. CASE RegressionFetched(r)
      BY <1>1, <1>2, <3>1, <3>4, CurvesSettle
    <3> QED BY <2>4, <3>2, <3>3, <3>4 DEF AnalysisFetched
  <2>5. CASE UnmountedFetched(r, MaxLevel[r.field])
    <3>1. MaxLevel[r.field] \in Level \cup {Undefined}
      BY <1>3, <1>4, <2>5 DEF UnmountedFetched
    <3> QED BY <1>1, <1>2, <2>5, <3>1, UnmountedSettles
  <2> QED BY <1>4, <2>1, <2>2, <2>3, <2>4, <2>5
<1>5. CASE /\ Fails(r) /\ ErrorFetched(r)
           /\ refused' = (refused \/
                 /\ <<r.category, r.field>> \in Listed[r.dataset]
                 /\ ~LevelInvalid(r))
  <2>1. /\ r.kind \in Analysis /\ Undefined \in Level \cup {Undefined}
        /\ <<r.category, r.field>> \in Listed[r.dataset] /\ ~LevelInvalid(r)
              => refused'
    BY <1>5 DEF Fails
  <2>2. CASE /\ IsMounted(r) /\ PersistenceFetched(r, Undefined)
             /\ UNCHANGED <<datasetPanel, application, collected, windows>>
    <3>1. UNCHANGED <<application, instance, unanswered>>
      BY <1>1, <2>2 DEF windows
    <3>2. r.level = None => ~LevelInvalid(r)
      BY DEF LevelInvalid
    <3> QED BY <1>1, <1>2, <2>1, <2>2, <3>1, <3>2, PersistenceSettles
  <2>3. CASE /\ IsMounted(r) /\ r.kind # "fetchMorseSmalePersistence"
             /\ Unnoticed
    <3>1. r.kind \in {L, R}
      BY <2>1, <2>3 DEF Analysis, L, R
    <3>2. /\ wire' = Tail(wire)
          /\ UNCHANGED <<application, panel, decomposition, scene, instance,
                         unanswered>>
      BY <1>1, <2>3 DEF Unnoticed, window, windows
    <3> QED BY <1>1, <1>2, <2>1, <2>3, <3>1, <3>2, RefusalSettles
  <2>4. CASE UnmountedFetched(r, Undefined)
    BY <1>1, <1>2, <2>1, <2>4, UnmountedSettles
  <2> QED BY <1>5, <2>2, <2>3, <2>4 DEF ErrorFetched
<1> QED BY <1>4, <1>5 DEF Answer

LEMMA NoAnswerSettles ==
    ASSUME SInv, NoAnswer
    PROVE  SInv'
<1>1. /\ Head(wire) \in unanswered'
      /\ UNCHANGED <<application, panel, decomposition>>
  BY DEF NoAnswer, Unnoticed, window
<1> QED BY <1>1 DEF SInv

LEMMA NextSInv == IInv /\ SInv /\ [Next]_vars => SInv'
<1> SUFFICES ASSUME IInv, SInv, [Next]_vars PROVE SInv'
  OBVIOUS
<1>1. CASE UNCHANGED vars
  <2>1. UNCHANGED <<application, panel, decomposition, scene, instance, wire,
                    unanswered, refused>>
    BY <1>1 DEF vars
  <2> QED BY <2>1 DEF SInv
<1>2. CASE Next
  BY <1>2, DatasetInputSettles, NoDatasetInputSettles, WindowSettles,
     ModeSettles, FieldSettles, LevelSettles, AnswerSettles, NoAnswerSettles
  DEF Next
<1> QED BY <1>1, <1>2

LEMMA InitSInv == Init => SInv
BY DEF Init, SInv

-----------------------------------------------------------------------------
(* The theorems.                                                           *)

\* The inductive invariant of the page, its window and the queue holds in every
\* state, for any datasets, fields, levels and number of inputs.
THEOREM Invariant == Spec => []IInv
BY InitIInv, NextIInv, PTL DEF Spec

\* Page, window and commands keep their types; an answer for a panel that was
\* removed always finds what that panel had chosen (former).
THEOREM TypesAreCorrect == Spec => []TypeOK
<1>1. IInv => TypeOK
  BY DEF IInv
<1> QED BY <1>1, Invariant, PTL

\* A dataset is never shown without its fields, although nobody waits for them
\* (Application.onDatasetChange, getParameters, getQois).
THEOREM FieldsCompleteAlways == Spec => []FieldsComplete
<1>1. IInv => FieldsComplete
  BY DEF IInv
<1> QED BY <1>1, Invariant, PTL

\* What a window shows is of the dataset that the page shows, whatever answers
\* about former datasets still come (decompositionPanel.js).
THEOREM WindowOfCurrentDatasetAlways == Spec => []WindowOfCurrentDataset
<1>1. IInv => WindowOfCurrentDataset
  BY DEF IInv
<1> QED BY <1>1, Invariant, PTL

\* When all commands have been answered, the dataset shown is the one chosen
\* last, whatever was chosen before (handleDatasetChange, onDatasetChange).
THEOREM LastDatasetShownAlways == Spec => []LastDatasetShown
<1>1. IInv => LastDatasetShown
  <2> SUFFICES ASSUME IInv, Quiet, datasetPanel.datasetName # None
               PROVE  /\ datasetPanel.dataset = datasetPanel.datasetName
                      /\ application.currentDataset = datasetPanel.datasetName
    BY DEF LastDatasetShown
  <2>1. /\ Without(wire, "fetchDataset")
        /\ Without(wire, "fetchEmbeddingsList")
    BY DEF Quiet, Without
  <2> QED BY <2>1 DEF Quiet, IInv, Chosen, LastChosen
<1> QED BY <1>1, Invariant, PTL
\* Whatever the user chose and whenever the answers came: when none is left, the
\* crystals, the announced decomposition and the curves are those of the field
\* and level that the panel shows, unless the server refused a field that the
\* dataset has or a command was never answered (decompositionPanel.js,
\* windowPanel.js, morseSmaleWindow.js).
THEOREM SettledAlways == Spec => []Settled
<1>1. IInv /\ SInv => Settled
  <2> DEFINE d == application.currentDataset
             l == panel.persistenceLevel
             chosen == Of(d, panel.category, panel.field, l)
             dec == [mode |-> panel.mode, dataset |-> d,
                     category |-> panel.category, field |-> panel.field,
                     level |-> l]
  <2> SUFFICES ASSUME IInv, SInv, Quiet, ~refused, application.windows = 1,
                      <<panel.category, panel.field>> \in Listed[d], l # None
               PROVE  panel.crystals = chosen /\ decomposition = dec
                      /\ chosen \in scene
    BY DEF Settled
  <2>1. /\ \A S : NoneIn(wire, S)
        /\ unanswered = {}
    BY DEF Quiet, NoneIn
  <2>2. /\ PanelFollows(wire, instance, panel, d, decomposition)
        /\ SceneFollows(wire, instance, decomposition, scene)
    BY <2>1 DEF SInv
  <2>3. /\ l \in 0 .. MaxLevel[panel.field]
        /\ panel.crystals = chosen /\ decomposition = dec
    BY <2>1, <2>2 DEF PanelFollows, LevelFollows
  <2>4. d \in Dataset /\ panel.field \in Field /\ MaxLevel[panel.field] \in Nat
    BY WindowFacts, ListedIsValid, ConstantsAssumption
  <2>5. /\ decomposition # None
        /\ decomposition.level <= MaxLevel[decomposition.field]
        /\ <<decomposition.category, decomposition.field>> \in
               Listed[decomposition.dataset]
        /\ Announced(decomposition) = chosen
    <3>1. dec \in DecompositionType
      BY <2>3, <2>4, Levels, WindowFacts DEF DecompositionType, PanelType
    <3>2. decomposition # None
      BY <2>3, <3>1, NoneAssumption
    <3> QED BY <2>3, <2>4, <3>2 DEF Announced
  <2> QED BY <2>1, <2>2, <2>3, <2>5 DEF SceneFollows
<1> QED BY <1>1, InitIInv, NextIInv, InitSInv, NextSInv, PTL DEF Spec
=============================================================================
