-------------------------- MODULE TransportProofs ---------------------------
(***************************************************************************)
(* What holds of the transport for every length of the poll list and any   *)
(* number of peers: the list that poll() is given is of the open sessions, *)
(* and the record of server.c of established ones.  Both are arrays that   *)
(* are closed up when an entry goes; what that does to them is said by the *)
(* lemmas about RemoveFd and Compacted, and the invariant follows them.    *)
(***************************************************************************)
EXTENDS Transport, FiniteSetTheorems, WellFoundedInduction, TLAPS

\* The first count entries of the list are the listener and the sessions open.
ListOf(list, count, open) ==
    /\ list \in [1 .. MaxClients -> Entry] /\ count \in 1 .. MaxClients
    /\ list[1].fd = Listener
    /\ \A i \in 2 .. count : list[i].fd \in open
    /\ \A i, j \in 2 .. count : list[i].fd = list[j].fd => i = j
    /\ \A s \in open : \E i \in 2 .. count : list[i].fd = s
    /\ count = Cardinality(open) + 1

\* The first count entries of the record are different sessions established.
RecordOf(q, count, est) ==
    /\ q \in Seq(Session) /\ count \in Int /\ count <= Len(q)
    /\ \A i \in 1 .. count : q[i] \in est
    /\ \A i, j \in 1 .. count : q[i] = q[j] => i = j

AllOnRecord(q, count, est) ==
    /\ count = Cardinality(est)
    /\ \A s \in est : \E i \in 1 .. count : q[i] = s

IInv ==
    /\ TypeOK
    /\ ListOf(fds, fdsCount, Open)
    /\ n <= fdsCount /\ (n = 1 => backlog > 0)
    /\ RecordOf(wsi, nClient, Established)
    /\ ~unrecorded => AllOnRecord(wsi, nClient, Established)

-----------------------------------------------------------------------------
\* A set of natural numbers that is not empty has a least element.
LEMMA LeastElement ==
    ASSUME NEW T \in SUBSET Nat, T # {}
    PROVE  \E x \in T : \A y \in T : x <= y
<1> DEFINE R == {ss \in Nat \X Nat : ss[1] < ss[2]}
<1>1. IsWellFoundedOn(R, Nat)
  BY NatLessThanWellFounded DEF OpToRel
<1>2. \E x \in T : \A y \in T : ~(<<y, x>> \in R)
  <2> HIDE DEF R
  <2> QED BY <1>1, WFMin, Zenon
<1>3. PICK x \in T : \A y \in T : ~(<<y, x>> \in R)
  BY <1>2
<1>4. ASSUME NEW y \in T PROVE x <= y
  <2>1. <<y, x>> \notin R
    BY <1>3
  <2>2. <<y, x>> \in Nat \X Nat
    OBVIOUS
  <2> QED BY <2>1, <2>2
<1> QED BY <1>4

\* The next entry to serve is one in use, not before the one looked from, and
\* it has an event.
LEMMA NextEventInUse ==
    ASSUME NEW list, NEW count \in Nat, NEW from \in Nat,
           NextEvent(list, count, from) # 0
    PROVE  /\ NextEvent(list, count, from) \in from .. count
           /\ list[NextEvent(list, count, from)].revents # "none"
<1> DEFINE ready == {i \in from .. count : list[i].revents # "none"}
<1>1. ready # {} /\ ready \in SUBSET Nat
  BY DEF NextEvent
<1>2. \E i \in ready : \A j \in ready : i <= j
  BY <1>1, LeastElement
<1>3. NextEvent(list, count, from) = CHOOSE i \in ready : \A j \in ready : i <= j
  BY <1>1 DEF NextEvent
<1>4. NextEvent(list, count, from) \in ready
  BY <1>2, <1>3
<1> QED BY <1>4

LEMMA SessionsFinite == \A S \in SUBSET Session : IsFiniteSet(S)
<1>1. IsFiniteSet(Session)
  <2>1. 1 \in Int /\ MaxClients \in Int
    BY BoundsAssumption
  <2> QED BY <2>1, FS_Interval DEF Session
<1> QED BY <1>1, FS_Subset

\* A list for which only the events are changed is of the same sessions.
LEMMA EventsKeepList ==
    ASSUME NEW list, NEW count, NEW open, ListOf(list, count, open),
           NEW new \in [1 .. MaxClients -> Entry],
           \A i \in 1 .. MaxClients : new[i].fd = list[i].fd
    PROVE  ListOf(new, count, open)
<1>1. count \in 1 .. MaxClients /\ 1 \in 1 .. MaxClients
  BY BoundsAssumption DEF ListOf
<1>2. \A i \in 2 .. count : i \in 1 .. MaxClients
  BY <1>1, BoundsAssumption
<1> QED BY <1>1, <1>2 DEF ListOf

\* A session added to the list is the last of it.
LEMMA AddFdList ==
    ASSUME NEW list, NEW count, NEW open \in SUBSET Session,
           ListOf(list, count, open), count < MaxClients,
           NEW s \in Session, s \notin open
    PROVE  ListOf(AddFd(list, count, s), count + 1, open \cup {s})
<1> DEFINE new == AddFd(list, count, s)
<1>1. /\ count \in Nat /\ count >= 1 /\ count + 1 \in 1 .. MaxClients
      /\ MaxClients \in Nat
  BY BoundsAssumption DEF ListOf
<1>2. /\ new \in [1 .. MaxClients -> Entry]
      /\ \A i \in 1 .. count : new[i] = list[i]
      /\ new[count + 1].fd = s
  <2>1. DOMAIN list \cup {count + 1} = 1 .. MaxClients
    BY <1>1 DEF ListOf
  <2>2. [fd |-> s, revents |-> "none"] \in Entry
    BY DEF Entry
  <2>3. \A i \in 1 .. MaxClients : list[i] \in Entry
    BY DEF ListOf
  <2> QED BY <1>1, <2>1, <2>2, <2>3 DEF AddFd
<1> HIDE DEF new
<1>3. new[1].fd = Listener
  BY <1>1, <1>2 DEF ListOf
<1>4. \A i \in 2 .. count + 1 : i = count + 1 \/ i \in 2 .. count
  BY <1>1
<1>5. \A i \in 2 .. count : new[i].fd = list[i].fd /\ list[i].fd \in open
  BY <1>1, <1>2 DEF ListOf
<1>6. \A i \in 2 .. count + 1 : new[i].fd \in open \cup {s}
  BY <1>2, <1>4, <1>5
<1>7. \A i, j \in 2 .. count + 1 : new[i].fd = new[j].fd => i = j
  BY <1>2, <1>4, <1>5 DEF ListOf
<1>8. ASSUME NEW t \in open \cup {s}
      PROVE  \E i \in 2 .. count + 1 : new[i].fd = t
  <2>1. CASE t = s
    BY <2>1, <1>1, <1>2
  <2>2. CASE t \in open
    <3>1. PICK i \in 2 .. count : list[i].fd = t
      BY <2>2 DEF ListOf
    <3>2. i \in 2 .. count + 1 /\ new[i].fd = t
      BY <3>1, <1>1, <1>5
    <3> QED BY <3>2
  <2> QED BY <2>1, <2>2
<1>9. count + 1 = Cardinality(open \cup {s}) + 1
  BY SessionsFinite, FS_AddElement DEF ListOf
<1> QED BY <1>1, <1>2, <1>3, <1>6, <1>7, <1>8, <1>9 DEF ListOf, new

\* A session removed from the list leaves it one shorter and of the others.
LEMMA RemoveFdList ==
    ASSUME NEW list, NEW count, NEW open \in SUBSET Session,
           ListOf(list, count, open), NEW s \in open
    PROVE  ListOf(RemoveFd(list, count, s), count - 1, open \ {s})
<1> DEFINE new == RemoveFd(list, count, s)
           at == CHOOSE i \in 1 .. count : list[i].fd = s
           old(i) == IF i >= at THEN i + 1 ELSE i
<1>1. count \in 1 .. MaxClients /\ count \in Nat /\ MaxClients \in Nat
  BY BoundsAssumption DEF ListOf
<1>2. at \in 2 .. count /\ list[at].fd = s
  <2>1. \E i \in 1 .. count : list[i].fd = s
    BY <1>1 DEF ListOf
  <2>2. at \in 1 .. count /\ list[at].fd = s
    BY <2>1
  <2>3. at # 1
    <3>1. s # Listener
      BY BoundsAssumption DEF Session, Listener
    <3> QED BY <3>1, <2>2 DEF ListOf
  <2> QED BY <2>2, <2>3, <1>1
<1> HIDE DEF at
<1>3. new = [i \in DOMAIN list |->
               IF i >= at /\ i < count THEN list[i + 1] ELSE list[i]]
  BY DEF RemoveFd, at
<1> HIDE DEF new
<1>4. new \in [1 .. MaxClients -> Entry]
  <2>1. \A i \in 1 .. MaxClients : i < count => i + 1 \in 1 .. MaxClients
    BY <1>1
  <2>2. DOMAIN list = 1 .. MaxClients
    BY DEF ListOf
  <2>3. \A i \in 1 .. MaxClients : list[i] \in Entry
    BY DEF ListOf
  <2> QED BY <1>3, <2>1, <2>2, <2>3
<1>5. \A i \in 1 .. count - 1 : new[i] = list[old(i)]
  BY <1>1, <1>2, <1>3 DEF ListOf
<1>6. \A i \in 2 .. count - 1 : /\ i \in 1 .. count - 1 /\ old(i) \in 2 .. count
                                /\ old(i) # at
  BY <1>1, <1>2
<1>7. count - 1 \in 1 .. MaxClients /\ new[1].fd = Listener
  <2>1. 1 \in 1 .. count - 1 /\ old(1) = 1
    BY <1>1, <1>2
  <2> QED BY <1>1, <1>5, <2>1 DEF ListOf
<1>8. \A i \in 2 .. count - 1 : new[i].fd \in open \ {s}
  <2> SUFFICES ASSUME NEW i \in 2 .. count - 1
               PROVE  new[i].fd \in open \ {s}
    OBVIOUS
  <2>1. new[i] = list[old(i)] /\ old(i) \in 2 .. count /\ old(i) # at
    BY <1>5, <1>6
  <2> QED BY <2>1, <1>2 DEF ListOf
<1>9. \A i, j \in 2 .. count - 1 : new[i].fd = new[j].fd => i = j
  <2> SUFFICES ASSUME NEW i \in 2 .. count - 1, NEW j \in 2 .. count - 1,
                      new[i].fd = new[j].fd
               PROVE  i = j
    OBVIOUS
  <2>1. /\ new[i] = list[old(i)] /\ old(i) \in 2 .. count
        /\ new[j] = list[old(j)] /\ old(j) \in 2 .. count
    BY <1>5, <1>6
  <2>2. old(i) = old(j)
    BY <2>1 DEF ListOf
  <2> QED BY <2>2, <1>1, <1>2
<1>10. ASSUME NEW t \in open \ {s}
       PROVE  \E i \in 2 .. count - 1 : new[i].fd = t
  <2>1. PICK j \in 2 .. count : list[j].fd = t
    BY DEF ListOf
  <2>2. j # at
    BY <2>1, <1>2
  <2> DEFINE i == IF j > at THEN j - 1 ELSE j
  <2>3. i \in 2 .. count - 1 /\ old(i) = j
    BY <2>2, <1>1, <1>2
  <2>4. new[i].fd = t
    BY <2>1, <2>3, <1>5, <1>6
  <2> QED BY <2>3, <2>4
<1>11. count - 1 = Cardinality(open \ {s}) + 1
  <2>1. IsFiniteSet(open)
    BY SessionsFinite
  <2>2. Cardinality(open \ {s}) = Cardinality(open) - 1 /\ Cardinality(open) \in Nat
    BY <2>1, FS_RemoveElement, FS_CardinalityType
  <2> QED BY <2>2 DEF ListOf
<1> QED BY <1>4, <1>7, <1>8, <1>9, <1>10, <1>11 DEF ListOf, new

-----------------------------------------------------------------------------
\* How many of the first count naturals, but perhaps one, are at most i.
LEMMA RankOf ==
    ASSUME NEW count \in Nat, NEW a \in Nat, NEW i \in 1 .. count, i # a
    PROVE  Cardinality({j \in 1 .. count : j # a /\ j <= i}) =
              IF 1 <= a /\ a < i THEN i - 1 ELSE i
<1>1. /\ IsFiniteSet(1 .. i) /\ Cardinality(1 .. i) = i
  BY FS_Interval
<1>2. {j \in 1 .. count : j # a /\ j <= i} = (1 .. i) \ {a}
  OBVIOUS
<1>3. Cardinality((1 .. i) \ {a}) = IF a \in 1 .. i THEN i - 1 ELSE i
  BY <1>1, FS_RemoveElement
<1> QED BY <1>2, <1>3

Distinct(q) == \A i, j \in 1 .. Len(q) : q[i] = q[j] => i = j

\* The sequence new has all the entries of q but that of s, each of them once.
AllBut(new, q, s) ==
    /\ new \in Seq(Session)
    /\ Len(new) = IF \E i \in 1 .. Len(q) : q[i] = s THEN Len(q) - 1 ELSE Len(q)
    /\ \A r \in 1 .. Len(new) : \E i \in 1 .. Len(q) : q[i] # s /\ new[r] = q[i]
    /\ \A i \in 1 .. Len(q) :
          q[i] # s => \E r \in 1 .. Len(new) : new[r] = q[i]
    /\ \A r, t \in 1 .. Len(new) : new[r] = new[t] => r = t

\* A record is closed up so that no other entry is lost or doubled.
LEMMA CompactedKeeps ==
    ASSUME NEW q \in Seq(Session), NEW s, Distinct(q)
    PROVE  AllBut(Compacted(q, s), q, s)
<1> DEFINE len == Len(q)
           new == Compacted(q, s)
           kept == {i \in DOMAIN q : q[i] # s}
           rank(i) == Cardinality({j \in kept : j <= i})
           a == IF \E i \in 1 .. len : q[i] = s
                THEN CHOOSE i \in 1 .. len : q[i] = s ELSE 0
           size == IF a = 0 THEN len ELSE len - 1
           from(r) == IF a # 0 /\ a <= r THEN r + 1 ELSE r
<1>1. len \in Nat /\ DOMAIN q = 1 .. len
  OBVIOUS
<1>2. /\ a \in 0 .. len
      /\ a # 0 => q[a] = s
      /\ a = 0 <=> ~ \E i \in 1 .. len : q[i] = s
  BY <1>1
<1> HIDE DEF a
<1>3. \A i \in 1 .. len : q[i] = s <=> i = a
  BY <1>1, <1>2 DEF Distinct
<1>4. kept = {i \in 1 .. len : i # a}
  BY <1>1, <1>3
<1>5. Cardinality(kept) = size
  <2>1. kept = (1 .. len) \ {a}
    BY <1>4
  <2>2. IsFiniteSet(1 .. len) /\ Cardinality(1 .. len) = len
    BY <1>1, FS_Interval
  <2>3. Cardinality((1 .. len) \ {a}) =
           IF a \in 1 .. len THEN len - 1 ELSE len
    BY <2>2, FS_RemoveElement
  <2> QED BY <2>1, <2>3, <1>1, <1>2
<1>6. \A i \in kept : rank(i) = IF 1 <= a /\ a < i THEN i - 1 ELSE i
  <2> SUFFICES ASSUME NEW i \in kept
               PROVE  rank(i) = IF 1 <= a /\ a < i THEN i - 1 ELSE i
    OBVIOUS
  <2>1. i \in 1 .. len /\ i # a /\ a \in Nat
    BY <1>1, <1>2, <1>4
  <2>2. {j \in kept : j <= i} = {j \in 1 .. len : j # a /\ j <= i}
    BY <1>4
  <2>3. Cardinality({j \in 1 .. len : j # a /\ j <= i}) =
           IF 1 <= a /\ a < i THEN i - 1 ELSE i
    <3> HIDE DEF len
    <3> QED BY <1>1, <2>1, RankOf
  <2> QED BY <2>2, <2>3
<1>7. new = [r \in 1 .. size |-> q[CHOOSE i \in kept : rank(i) = r]]
  BY <1>5 DEF Compacted
<1> HIDE DEF rank, kept, new
<1>8. \A r \in 1 .. size : (CHOOSE i \in kept : rank(i) = r) = from(r)
  <2> SUFFICES ASSUME NEW r \in 1 .. size
               PROVE  (CHOOSE i \in kept : rank(i) = r) = from(r)
    OBVIOUS
  <2>1. from(r) \in kept /\ rank(from(r)) = r
    <3>1. from(r) \in 1 .. len /\ from(r) # a
      BY <1>1, <1>2
    <3>2. from(r) \in kept
      BY <3>1, <1>4
    <3> QED BY <3>1, <3>2, <1>6, <1>1, <1>2
  <2>2. \A i \in kept : rank(i) = r => i = from(r)
    BY <1>1, <1>2, <1>4, <1>6
  <2> QED BY <2>1, <2>2
<1>9. size \in Nat /\ \A r \in 1 .. size : from(r) \in 1 .. len /\ from(r) # a
  BY <1>1, <1>2
<1>10. new = [r \in 1 .. size |-> q[from(r)]]
  <2> DEFINE chosen(r) == CHOOSE i \in kept : rank(i) = r
  <2>1. \A r \in 1 .. size : chosen(r) = from(r)
    BY <1>8
  <2>2. new = [r \in 1 .. size |-> q[chosen(r)]]
    BY <1>7
  <2> HIDE DEF chosen, from, size
  <2> QED BY <2>1, <2>2
<1>11. new \in Seq(Session) /\ Len(new) = size
  <2>1. \A r \in 1 .. size : q[from(r)] \in Session
    BY <1>9
  <2> HIDE DEF size, from
  <2> QED BY <2>1, <1>9, <1>10
<1>12. \A r \in 1 .. size : \E i \in 1 .. len : q[i] # s /\ new[r] = q[i]
  BY <1>3, <1>9, <1>10
<1>13. ASSUME NEW i \in 1 .. len, q[i] # s
       PROVE  \E r \in 1 .. size : new[r] = q[i]
  <2> DEFINE r == IF a # 0 /\ a < i THEN i - 1 ELSE i
  <2>1. i # a
    BY <1>3, <1>13
  <2>2. r \in 1 .. size /\ from(r) = i
    BY <2>1, <1>1, <1>2
  <2>3. new[r] = q[i]
    BY <2>2, <1>10
  <2> QED BY <2>2, <2>3
<1>14. ASSUME NEW r \in 1 .. size, NEW t \in 1 .. size, new[r] = new[t]
       PROVE  r = t
  <2>1. from(r) = from(t)
    BY <1>9, <1>10, <1>14 DEF Distinct
  <2> QED BY <2>1, <1>1, <1>2
<1>15. size = IF \E i \in 1 .. Len(q) : q[i] = s THEN Len(q) - 1 ELSE Len(q)
  BY <1>2
<1> QED
  <2> HIDE DEF size
  <2> QED BY <1>11, <1>12, <1>13, <1>14, <1>15 DEF new, AllBut

\* What the record is after a session began, and after one ended.
RecordAfterEstablished(q, count, s) == Append(SubSeq(q, 1, count), s)
RecordAfterClosed(q, count, s) ==
    IF count - 1 <= 0 THEN <<>> ELSE Compacted(SubSeq(q, 1, count), s)

LEMMA EstablishedRecord ==
    ASSUME NEW q, NEW count, NEW est \in SUBSET Session,
           RecordOf(q, count, est), count + 1 > 0,
           NEW s \in Session, s \notin est
    PROVE  /\ RecordOf(RecordAfterEstablished(q, count, s), count + 1, est \cup {s})
           /\ AllOnRecord(q, count, est) =>
                 AllOnRecord(RecordAfterEstablished(q, count, s), count + 1,
                             est \cup {s})
<1> DEFINE new == RecordAfterEstablished(q, count, s)
<1>1. count \in Nat /\ q \in Seq(Session) /\ count <= Len(q)
  BY DEF RecordOf
<1>2. /\ SubSeq(q, 1, count) \in Seq(Session)
      /\ Len(SubSeq(q, 1, count)) = count
      /\ \A i \in 1 .. count : SubSeq(q, 1, count)[i] = q[i]
  BY <1>1
<1>3. /\ new \in Seq(Session) /\ Len(new) = count + 1
      /\ \A i \in 1 .. count : new[i] = q[i]
      /\ new[count + 1] = s
  <2> DEFINE sub == SubSeq(q, 1, count)
  <2> HIDE DEF sub
  <2>1. /\ sub \in Seq(Session) /\ Len(sub) = count
        /\ \A i \in 1 .. count : sub[i] = q[i] /\ new = Append(sub, s)
    BY <1>2 DEF sub, RecordAfterEstablished
  <2>2. new = Append(sub, s)
    BY DEF sub, RecordAfterEstablished
  <2> HIDE DEF new
  <2> QED BY <1>1, <2>1, <2>2
<1> HIDE DEF new
<1>4. \A i \in 1 .. count + 1 : i \in 1 .. count \/ i = count + 1
  BY <1>1
<1>5. \A i \in 1 .. count : new[i] = q[i] /\ q[i] \in est
  BY <1>3 DEF RecordOf
<1>6. \A i \in 1 .. count + 1 : new[i] \in est \cup {s}
  BY <1>3, <1>4, <1>5
<1>7. \A i, j \in 1 .. count + 1 : new[i] = new[j] => i = j
  BY <1>3, <1>4, <1>5 DEF RecordOf
<1>8. RecordOf(new, count + 1, est \cup {s})
  BY <1>1, <1>3, <1>6, <1>7 DEF RecordOf
<1>9. ASSUME AllOnRecord(q, count, est)
      PROVE  AllOnRecord(new, count + 1, est \cup {s})
  <2>1. count + 1 = Cardinality(est \cup {s})
    BY <1>9, SessionsFinite, FS_AddElement DEF AllOnRecord
  <2>2. ASSUME NEW t \in est \cup {s}
        PROVE  \E i \in 1 .. count + 1 : new[i] = t
    <3>1. CASE t = s
      <4>1. count + 1 \in 1 .. count + 1
        BY <1>1
      <4> QED BY <3>1, <4>1, <1>3
    <3>2. CASE t \in est
      <4>1. PICK i \in 1 .. count : q[i] = t
        BY <3>2, <1>9 DEF AllOnRecord
      <4>2. i \in 1 .. count + 1 /\ new[i] = t
        BY <1>1, <1>5, <4>1
      <4> QED BY <4>2
    <3> QED BY <3>1, <3>2
  <2> QED BY <2>1, <2>2 DEF AllOnRecord
<1> QED BY <1>8, <1>9 DEF new

LEMMA ClosedRecord ==
    ASSUME NEW q, NEW count, NEW est \in SUBSET Session,
           RecordOf(q, count, est), NEW s \in est
    PROVE  /\ RecordOf(RecordAfterClosed(q, count, s), count - 1, est \ {s})
           /\ AllOnRecord(q, count, est) =>
                 AllOnRecord(RecordAfterClosed(q, count, s), count - 1, est \ {s})
<1> DEFINE new == RecordAfterClosed(q, count, s)
           sub == SubSeq(q, 1, count)
<1>1. q \in Seq(Session) /\ count \in Int /\ count <= Len(q)
  BY DEF RecordOf
<1>2. AllOnRecord(q, count, est) => count - 1 = Cardinality(est \ {s})
  <2>1. IsFiniteSet(est) /\ Cardinality(est \ {s}) = Cardinality(est) - 1
    BY SessionsFinite, FS_RemoveElement
  <2> QED BY <2>1 DEF AllOnRecord
<1>3. CASE count - 1 <= 0
  <2>1. new = <<>> /\ \A i \in 1 .. count - 1 : FALSE
    BY <1>1, <1>3 DEF RecordAfterClosed
  <2>2. RecordOf(new, count - 1, est \ {s})
    <3> HIDE DEF new
    <3> QED BY <1>1, <1>3, <2>1 DEF RecordOf
  <2>3. ASSUME AllOnRecord(q, count, est)
        PROVE  AllOnRecord(new, count - 1, est \ {s})
    <3>1. IsFiniteSet(est \ {s}) /\ Cardinality(est \ {s}) \in Nat
      BY SessionsFinite, FS_CardinalityType
    <3>2. Cardinality(est \ {s}) = 0
      BY <3>1, <1>1, <1>2, <1>3, <2>3
    <3>3. est \ {s} = {}
      BY <3>1, <3>2, FS_EmptySet, Zenon
    <3> QED BY <3>3, <1>2, <2>3 DEF AllOnRecord
  <2> QED BY <2>2, <2>3
<1>4. CASE count - 1 > 0
  <2>1. /\ count \in Nat /\ sub \in Seq(Session) /\ Len(sub) = count
        /\ \A i \in 1 .. count : sub[i] = q[i]
    BY <1>1, <1>4
  <2>2. new = Compacted(sub, s)
    BY <1>1, <1>4 DEF RecordAfterClosed
  <2> HIDE DEF new, sub
  <2>3. Distinct(sub)
    BY <2>1 DEF RecordOf, Distinct
  <2>4. /\ new \in Seq(Session)
        /\ Len(new) = IF \E i \in 1 .. count : sub[i] = s
                      THEN count - 1 ELSE count
        /\ \A r \in 1 .. Len(new) :
              \E i \in 1 .. count : sub[i] # s /\ new[r] = sub[i]
        /\ \A i \in 1 .. count : sub[i] # s =>
              \E r \in 1 .. Len(new) : new[r] = sub[i]
        /\ \A r, t \in 1 .. Len(new) : new[r] = new[t] => r = t
    <3>1. AllBut(new, sub, s)
      BY <2>1, <2>2, <2>3, CompactedKeeps
    <3>2. Len(sub) = count
      BY <2>1
    <3> QED BY <3>1, <3>2 DEF AllBut
  <2>5. count - 1 \in Int /\ count - 1 <= Len(new)
    BY <2>1, <2>4
  <2>6. \A i \in 1 .. count - 1 : i \in 1 .. Len(new)
    BY <2>1, <2>4, <2>5
  <2>7. ASSUME NEW i \in 1 .. count - 1
        PROVE  new[i] \in est \ {s}
    <3>1. PICK j \in 1 .. count : sub[j] # s /\ new[i] = sub[j]
      BY <2>4, <2>6
    <3>2. sub[j] = q[j] /\ q[j] \in est
      BY <2>1 DEF RecordOf
    <3> QED BY <3>1, <3>2
  <2>8. RecordOf(new, count - 1, est \ {s})
    BY <2>4, <2>5, <2>6, <2>7 DEF RecordOf
  <2>9. ASSUME AllOnRecord(q, count, est)
        PROVE  AllOnRecord(new, count - 1, est \ {s})
    <3>1. \E i \in 1 .. count : sub[i] = s
      BY <2>1, <2>9 DEF AllOnRecord
    <3>2. Len(new) = count - 1
      BY <3>1, <2>4
    <3>3. ASSUME NEW t \in est \ {s}
          PROVE  \E i \in 1 .. count - 1 : new[i] = t
      <4>1. PICK i \in 1 .. count : q[i] = t
        BY <2>9 DEF AllOnRecord
      <4>2. sub[i] = t /\ sub[i] # s
        BY <4>1, <2>1
      <4> QED BY <4>2, <3>2, <2>4
    <3> QED BY <3>3, <1>2, <2>9 DEF AllOnRecord
  <2> QED BY <2>8, <2>9 DEF new
<1> QED BY <1>1, <1>3, <1>4 DEF new

-----------------------------------------------------------------------------
\* A step that serves an entry leaves n past it, or starts over with a poll.
LEMMA ProceedInUse ==
    ASSUME TypeOK, n # 0, fdsCount' \in 1 .. MaxClients, Proceed
    PROVE  n' \in 0 .. MaxClients /\ n' <= fdsCount' /\ n' # 1
<1>1. n \in Nat /\ n + 1 \in Nat /\ n + 1 >= 2 /\ MaxClients \in Nat
  BY BoundsAssumption DEF TypeOK
<1>2. fdsCount' \in Nat /\ fdsCount' <= MaxClients
  BY <1>1
<1>3. CASE n' = 0
  BY <1>1, <1>2, <1>3
<1>4. CASE n' # 0
  <2>1. n' \in (n + 1) .. fdsCount'
    BY <1>1, <1>2, <1>4, NextEventInUse DEF Proceed
  <2> QED BY <1>1, <1>2, <2>1
<1> QED BY <1>3, <1>4

\* ... and n moves on.
LEMMA ProceedPast ==
    ASSUME TypeOK, n # 0, fdsCount' \in Nat, Proceed, n' # 0
    PROVE  n' \in Nat /\ n \in Nat /\ n' > n
<1>1. n \in Nat /\ n + 1 \in Nat
  BY BoundsAssumption DEF TypeOK
<1>2. n' \in (n + 1) .. fdsCount'
  BY <1>1, NextEventInUse DEF Proceed
<1> QED BY <1>1, <1>2

\* An entry served that is not the listener's is of an open session; that of
\* the listener is the first.
LEMMA ServedIsOpen ==
    ASSUME IInv, NEW fd, At(fd)
    PROVE  /\ n \in 1 .. fdsCount /\ n \in Nat
           /\ fd # Listener => fd \in Open /\ n # 1
           /\ fd = Listener => n = 1 /\ backlog > 0
<1>1. n \in 1 .. fdsCount /\ fdsCount \in Nat /\ n \in Nat
  BY BoundsAssumption DEF IInv, TypeOK, At
<1>2. n = 1 \/ n \in 2 .. fdsCount
  BY <1>1
<1>3. \A s \in Open : s # Listener
  BY BoundsAssumption DEF Open, Session, Listener
<1> QED BY <1>1, <1>2, <1>3 DEF IInv, ListOf, At

LEMMA SessionNotListener == \A s \in Session : s # Listener
BY BoundsAssumption DEF Session, Listener

\* What is true of the record is kept by the end of an established session.
LEMMA CallbackClosedKeepsRecord ==
    ASSUME IInv, NEW s \in Established, CallbackClosed(s),
           Established' = Established \ {s}
    PROVE  /\ RecordOf(wsi', nClient', Established')
           /\ ~unrecorded' => AllOnRecord(wsi', nClient', Established')
           /\ unrecorded' \in BOOLEAN
<1>1. /\ nClient' = nClient - 1 /\ unrecorded' = unrecorded
      /\ wsi' = RecordAfterClosed(wsi, nClient, s)
  BY DEF CallbackClosed, RecordAfterClosed
<1>2. Established \in SUBSET Session /\ RecordOf(wsi, nClient, Established)
  BY DEF IInv, Established
<1>3. /\ RecordOf(wsi', nClient', Established')
      /\ AllOnRecord(wsi, nClient, Established) =>
            AllOnRecord(wsi', nClient', Established')
  BY <1>1, <1>2, ClosedRecord
<1> QED BY <1>1, <1>3 DEF IInv, TypeOK

\* A session that ends leaves the list and the record in order.
LEMMA CloseSessionKeeps ==
    ASSUME IInv, NEW s \in Session, At(s), CloseSession(s),
           failures' \in 0 .. MaxFailures
    PROVE  IInv'
<1>1. s \in Open /\ n # 0 /\ n # 1
  BY ServedIsOpen, SessionNotListener DEF At
<1>2. Open' = Open \ {s} /\ Open \in SUBSET Session
  BY DEF CloseSession, Open, IInv, TypeOK
<1>3. ListOf(fds', fdsCount', Open')
  <2>1. ListOf(RemoveFd(fds, fdsCount, s), fdsCount - 1, Open \ {s})
    BY <1>1, <1>2, RemoveFdList DEF IInv
  <2> QED BY <2>1, <1>2 DEF CloseSession
<1>4. n' \in 0 .. MaxClients /\ n' <= fdsCount' /\ n' # 1
  BY <1>1, <1>3, ProceedInUse DEF CloseSession, Proceed, IInv, ListOf
<1>5. Established' = Established \ {s}
  BY DEF CloseSession, Established, IInv, TypeOK
<1>6. /\ RecordOf(wsi', nClient', Established')
      /\ ~unrecorded' => AllOnRecord(wsi', nClient', Established')
      /\ unrecorded' \in BOOLEAN
  <2>1. CASE s \in Established
    <3>1. CallbackClosed(s)
      BY <2>1 DEF CloseSession
    <3> QED BY <2>1, <3>1, <1>5, CallbackClosedKeepsRecord
  <2>2. CASE s \notin Established
    <3>1. wsi' = wsi /\ nClient' = nClient /\ unrecorded' = unrecorded
      BY <2>2 DEF CloseSession, record
    <3>2. Established' = Established
      BY <2>2, <1>5
    <3> QED BY <3>1, <3>2 DEF IInv, TypeOK
  <2> QED BY <2>1, <2>2
<1>7. TypeOK'
  <2>1. /\ fds' \in [1 .. MaxClients -> Entry] /\ fdsCount' \in 1 .. MaxClients
        /\ wsi' \in Seq(Session) /\ nClient' \in Int
    BY <1>3, <1>6 DEF ListOf, RecordOf
  <2>2. /\ state' \in [Session -> {"FREE", "HTTP", "ESTABLISHED"}]
        /\ protocol' \in [Session -> Protocol \cup {"http-only"}]
        /\ inbox' \in [Session -> Seq(Frame)]
        /\ gone' \in [Session -> {"no", "closing"} \cup Left]
    BY DEF CloseSession, IInv, TypeOK
  <2>3. UNCHANGED <<main, backlog, connects, commands>> /\ sending' = 0
    BY DEF CloseSession
  <2> QED BY <2>1, <2>2, <2>3, <1>4, <1>6 DEF IInv, TypeOK
<1> QED BY <1>3, <1>4, <1>6, <1>7 DEF IInv

\* So do frames that are handled.
LEMMA HandleFramesKeeps ==
    ASSUME IInv, NEW s \in Session, At(s), NEW m \in Nat, HandleFrames(s, m)
    PROVE  IInv'
<1> USE DEF session, record, counters
<1>1. CASE CloseSession(s) /\ UNCHANGED failures
  BY <1>1, CloseSessionKeeps DEF IInv, TypeOK
<1>2. CASE ~ (CloseSession(s) /\ UNCHANGED failures)
  <2>1. /\ inbox' = [inbox EXCEPT ![s] = SubSeq(@, m + 1, Len(@))]
        /\ UNCHANGED <<main, fds, fdsCount, state, protocol, gone, backlog, wsi,
                       nClient, unrecorded, connects, commands, failures>>
        /\ Proceed
    BY <1>2 DEF HandleFrames
  <2>2. inbox' \in [Session -> Seq(Frame)]
    <3>1. SubSeq(inbox[s], m + 1, Len(inbox[s])) \in Seq(Frame)
      BY DEF IInv, TypeOK
    <3> QED BY <3>1, <2>1 DEF IInv, TypeOK
  <2>3. n' \in 0 .. MaxClients /\ n' <= fdsCount' /\ n' # 1 /\ sending' = 0
    <3>1. n # 0
      BY DEF At
    <3> QED BY <2>1, <3>1, ProceedInUse DEF IInv, TypeOK, Proceed
  <2> QED BY <2>1, <2>2, <2>3 DEF IInv, TypeOK, Open, Established
<1> QED BY <1>1, <1>2

-----------------------------------------------------------------------------
LEMMA InitIInv == Init => IInv
<1> SUFFICES ASSUME Init PROVE IInv
  OBVIOUS
<1>1. MaxClients \in Nat \ {0} /\ 1 \in 1 .. MaxClients
  BY BoundsAssumption
<1>2. Open = {} /\ Established = {}
  BY DEF Init, Open, Established
<1>3. Cardinality({}) = 0
  BY FS_EmptySet
<1>4. TypeOK
  <2>1. fds \in [1 .. MaxClients -> Entry]
    BY DEF Init, Entry, Listener
  <2>2. fdsCount \in 1 .. MaxClients /\ n \in 0 .. MaxClients
    BY <1>1 DEF Init
  <2>3. wsi \in Seq(Session) /\ inbox \in [Session -> Seq(Frame)]
    BY DEF Init
  <2>4. /\ connects \in 0 .. MaxConnects /\ commands \in 0 .. MaxCommands
        /\ failures \in 0 .. MaxFailures
    BY BoundsAssumption DEF Init
  <2>5. /\ state \in [Session -> {"FREE", "HTTP", "ESTABLISHED"}]
        /\ protocol \in [Session -> Protocol \cup {"http-only"}]
        /\ gone \in [Session -> {"no", "closing"} \cup Left]
    BY DEF Init
  <2>6. /\ main \in {"starting", "polling", "exited", "down"}
        /\ nClient \in Int /\ backlog \in Nat /\ sending \in Nat
    BY DEF Init
  <2>7. unrecorded \in BOOLEAN
    BY DEF Init
  <2> QED BY <2>1, <2>2, <2>3, <2>4, <2>5, <2>6, <2>7 DEF TypeOK
<1>5. ListOf(fds, fdsCount, Open)
  BY <1>1, <1>2, <1>3 DEF Init, ListOf, Entry, Listener
<1>6. RecordOf(wsi, nClient, Established) /\ AllOnRecord(wsi, nClient, Established)
  BY <1>2, <1>3 DEF Init, RecordOf, AllOnRecord
<1> QED BY <1>1, <1>4, <1>5, <1>6 DEF IInv, Init

\* Every step keeps the list and the record in order.
LEMMA NextIInv == IInv /\ [Next]_vars => IInv'
<1> SUFFICES ASSUME IInv, [Next]_vars PROVE IInv'
  OBVIOUS
<1> USE DEF session, peers, record, counters
<1>1. ASSUME StartServer \/ StartFails PROVE IInv'
  <2>1. /\ UNCHANGED <<fds, fdsCount, n, sending, state, protocol, inbox, gone, wsi,
                       nClient,
                       backlog, unrecorded, connects, commands, failures>>
        /\ main' \in {"polling", "exited"}
    BY <1>1 DEF StartServer, StartFails
  <2> QED BY <2>1 DEF IInv, TypeOK, Open, Established
<1>2. ASSUME Connect PROVE IInv'
  <2>1. /\ UNCHANGED <<main, fds, fdsCount, n, sending, state, protocol, inbox, gone, wsi,
                       nClient,
                       unrecorded, commands, failures>>
        /\ backlog' = backlog + 1 /\ connects' \in 0 .. MaxConnects
    BY <1>2, BoundsAssumption DEF Connect, IInv, TypeOK
  <2> QED BY <2>1 DEF IInv, TypeOK, Open, Established
<1>3. ASSUME NEW s \in Session, NEW frame \in Frame, Send(s, frame) PROVE IInv'
  <2>1. /\ UNCHANGED <<main, fds, fdsCount, n, sending, state, protocol, backlog, wsi,
                       nClient,
                       unrecorded, connects, failures>>
        /\ gone' \in [Session -> {"no", "closing"} \cup Left]
        /\ commands' \in 0 .. MaxCommands
    BY <1>3, BoundsAssumption DEF Send, IInv, TypeOK
  <2>2. inbox' \in [Session -> Seq(Frame)]
    <3>1. Append(inbox[s], frame) \in Seq(Frame)
      BY DEF IInv, TypeOK
    <3> QED BY <3>1, <1>3 DEF Send, IInv, TypeOK
  <2> QED BY <2>1, <2>2 DEF IInv, TypeOK, Open, Established
<1>4. ASSUME NEW s \in Session, NEW how \in Left, Leave(s, how)
      PROVE  IInv'
  <2>1. /\ UNCHANGED <<main, fds, fdsCount, n, sending, state, protocol, inbox, backlog, wsi,
                       nClient,
                       unrecorded, connects, commands, failures>>
        /\ gone' \in [Session -> {"no", "closing"} \cup Left]
    BY <1>4 DEF Leave, IInv, TypeOK
  <2> QED BY <2>1 DEF IInv, TypeOK, Open, Established
<1>5. ASSUME Poll PROVE IInv'
  <2>1. UNCHANGED <<main, fdsCount, sending, state, protocol, inbox, gone, backlog,
                    wsi, nClient,
                    unrecorded, connects, commands, failures>>
    BY <1>5 DEF Poll
  <2>2. Open' = Open /\ Established' = Established
    BY <2>1 DEF Open, Established
  <2>3. /\ fds' \in [1 .. MaxClients -> Entry]
        /\ \A i \in 1 .. MaxClients : fds'[i].fd = fds[i].fd
        /\ \A i \in 1 .. fdsCount : fds'[i].revents = Events(fds[i].fd)
    <3>1. \A fd : Events(fd) \in {"none", "in", "hup"}
      BY DEF Events
    <3>2. \A i \in 1 .. MaxClients :
             /\ fds[i] \in Entry
             /\ [fds[i] EXCEPT !.revents = Events(fds[i].fd)] \in Entry
             /\ [fds[i] EXCEPT !.revents = Events(fds[i].fd)].fd = fds[i].fd
             /\ [fds[i] EXCEPT !.revents = Events(fds[i].fd)].revents
                   = Events(fds[i].fd)
      BY <3>1 DEF IInv, TypeOK, Entry
    <3>3. \A i \in 1 .. fdsCount : i \in 1 .. MaxClients /\ i <= fdsCount
      BY BoundsAssumption DEF IInv, TypeOK
    <3> QED BY <3>2, <3>3, <1>5 DEF Poll
  <2>4. ListOf(fds', fdsCount', Open')
    BY <2>1, <2>2, <2>3, EventsKeepList DEF IInv
  <2>5. n' \in 1 .. fdsCount /\ fds'[n'].revents # "none"
    <3>1. fdsCount \in Nat /\ 1 \in Nat
      BY BoundsAssumption DEF IInv, TypeOK
    <3> QED BY <3>1, <1>5, NextEventInUse DEF Poll
  <2>6. n' = 1 => backlog' > 0
    <3>1. fds[1].fd = Listener
      BY DEF IInv, ListOf
    <3> QED BY <2>1, <2>3, <2>5, <3>1 DEF Events
  <2>7. n' \in 0 .. MaxClients /\ n' <= fdsCount'
    BY <2>1, <2>5, BoundsAssumption DEF IInv, TypeOK
  <2> QED BY <2>1, <2>2, <2>3, <2>4, <2>6, <2>7 DEF IInv, TypeOK
<1>6. ASSUME AcceptNot PROVE IInv'
  <2>1. n = 1 /\ backlog > 0 /\ n # 0
    BY <1>6, ServedIsOpen DEF AcceptNot, Served, At
  <2>2. UNCHANGED <<main, fds, fdsCount, state, protocol, inbox, gone, wsi,
                    nClient,
                    unrecorded, connects, commands>>
    BY <1>6 DEF AcceptNot
  <2>3. backlog' \in Nat /\ failures' \in 0 .. MaxFailures
    <3>1. CASE UNCHANGED <<backlog, failures>>
      BY <3>1 DEF IInv, TypeOK
    <3>2. CASE Fails /\ backlog' = backlog - 1
      BY <2>1, <3>2, BoundsAssumption DEF IInv, TypeOK, Fails
    <3> QED BY <3>1, <3>2, <1>6 DEF AcceptNot
  <2>4. n' \in 0 .. MaxClients /\ n' <= fdsCount' /\ n' # 1 /\ sending' = 0
    <3>1. Proceed /\ fdsCount' \in 1 .. MaxClients
      BY <1>6, <2>2 DEF AcceptNot, IInv, TypeOK
    <3> QED BY <2>1, <3>1, ProceedInUse DEF IInv, Proceed
  <2> QED BY <2>2, <2>3, <2>4 DEF IInv, TypeOK, Open, Established
<1>7. ASSUME NEW s \in Session, Accept(s) PROVE IInv'
  <2>1. n = 1 /\ backlog > 0 /\ n # 0
    BY <1>7, ServedIsOpen DEF Accept, Served, At
  <2>2. UNCHANGED <<main, protocol, inbox, gone, wsi, nClient, unrecorded,
                    connects, commands, failures>>
    BY <1>7 DEF Accept
  <2>3. /\ s \notin Open /\ Open' = Open \cup {s} /\ Established' = Established
        /\ Open \in SUBSET Session
        /\ state' \in [Session -> {"FREE", "HTTP", "ESTABLISHED"}]
    BY <1>7 DEF Accept, Open, Established, IInv, TypeOK
  <2>4. ListOf(fds', fdsCount', Open')
    <3>1. fdsCount < MaxClients
      BY <1>7 DEF Accept
    <3>2. ListOf(AddFd(fds, fdsCount, s), fdsCount + 1, Open \cup {s})
      BY <2>3, <3>1, AddFdList DEF IInv
    <3> QED BY <3>2, <2>3, <1>7 DEF Accept
  <2>5. n' \in 0 .. MaxClients /\ n' <= fdsCount' /\ n' # 1 /\ sending' = 0
    <3>1. Proceed /\ fdsCount' \in 1 .. MaxClients
      BY <1>7, <2>4 DEF Accept, ListOf
    <3> QED BY <2>1, <3>1, ProceedInUse DEF IInv, Proceed
  <2>6. backlog' \in Nat
    BY <2>1, <1>7 DEF Accept, IInv, TypeOK
  <2>7. fds' \in [1 .. MaxClients -> Entry] /\ fdsCount' \in 1 .. MaxClients
    BY <2>4 DEF ListOf
  <2> QED BY <2>2, <2>3, <2>4, <2>5, <2>6, <2>7 DEF IInv, TypeOK
<1>8. ASSUME NEW s \in Session, Hangup(s) \/ ReadEnd(s) PROVE IInv'
  <2>1. At(s) /\ CloseSession(s) /\ failures' \in 0 .. MaxFailures
    BY <1>8 DEF Hangup, ReadEnd, Served, IInv, TypeOK
  <2> QED BY <2>1, CloseSessionKeeps
<1>9. ASSUME NEW s \in Session, ReadHandshake(s) PROVE IInv'
  <2>1. /\ n # 0 /\ Proceed /\ state[s] = "HTTP" /\ inbox[s] # <<>>
        /\ UNCHANGED <<main, fds, fdsCount, gone, backlog, connects, commands>>
        /\ state' = [state EXCEPT ![s] = "ESTABLISHED"]
        /\ inbox' = [inbox EXCEPT ![s] = Tail(@)]
    BY <1>9 DEF ReadHandshake, Readable, Served, At
  <2>2. /\ Open' = Open /\ s \notin Established
        /\ Established \in SUBSET Session
        /\ state' \in [Session -> {"FREE", "HTTP", "ESTABLISHED"}]
    BY <2>1 DEF Open, Established, IInv, TypeOK
  <2>8. /\ Head(inbox[s]) \in Protocol
        /\ protocol' = [protocol EXCEPT ![s] = Head(inbox[s])]
        /\ protocol' \in [Session -> Protocol \cup {"http-only"}]
        /\ Established' = IF Head(inbox[s]) = "ui-text"
                          THEN Established \cup {s} ELSE Established
    <3>1. /\ Head(inbox[s]) \in Protocol
          /\ protocol' = [protocol EXCEPT ![s] = Head(inbox[s])]
      BY <1>9 DEF ReadHandshake, Protocol
    <3>2. protocol' \in [Session -> Protocol \cup {"http-only"}]
      BY <3>1 DEF IInv, TypeOK
    <3> QED BY <2>1, <3>1, <3>2 DEF Established, IInv, TypeOK
  <2>3. inbox' \in [Session -> Seq(Frame)]
    <3>1. Tail(inbox[s]) \in Seq(Frame)
      BY <2>1 DEF IInv, TypeOK
    <3> QED BY <3>1, <2>1 DEF IInv, TypeOK
  <2>4. n' \in 0 .. MaxClients /\ n' <= fdsCount' /\ n' # 1 /\ sending' = 0
    BY <2>1, ProceedInUse DEF IInv, TypeOK, Proceed
  <2>5. failures' \in 0 .. MaxFailures
    <3>1. failures' = failures \/ (failures < MaxFailures /\ failures' = failures + 1)
      BY <1>9 DEF ReadHandshake, Fails
    <3> QED BY <3>1, BoundsAssumption DEF IInv, TypeOK
  <2>6. /\ RecordOf(wsi', nClient', Established')
        /\ ~unrecorded' => AllOnRecord(wsi', nClient', Established')
        /\ unrecorded' \in BOOLEAN
    <3>1. CASE Head(inbox[s]) = "data-binary"
      <4>1. UNCHANGED <<wsi, nClient, unrecorded>> /\ Established' = Established
        BY <1>9, <2>8, <3>1 DEF ReadHandshake
      <4> QED BY <4>1 DEF IInv, TypeOK
    <3>2. CASE /\ Head(inbox[s]) = "ui-text"
               /\ nClient + 1 > 0 /\ nClient' = nClient + 1
               /\ wsi' = RecordAfterEstablished(wsi, nClient, s)
               /\ unrecorded' = unrecorded
      <4>1. RecordOf(wsi, nClient, Established)
        BY DEF IInv
      <4>2. Established' = Established \cup {s}
        BY <2>8, <3>2
      <4>3. /\ RecordOf(wsi', nClient', Established')
            /\ AllOnRecord(wsi, nClient, Established) =>
                  AllOnRecord(wsi', nClient', Established')
        BY <2>2, <3>2, <4>1, <4>2, EstablishedRecord
      <4> QED BY <3>2, <4>3 DEF IInv, TypeOK
    <3>3. CASE /\ Head(inbox[s]) = "ui-text" /\ unrecorded' = TRUE
               /\ wsi' = wsi /\ nClient' = nClient
      BY <2>8, <3>3 DEF IInv, RecordOf
    <3> QED
      BY <1>9, <3>1, <3>2, <3>3
      DEF ReadHandshake, CallbackEstablished, RecordAfterEstablished
  <2>7. wsi' \in Seq(Session) /\ nClient' \in Int
    BY <2>6 DEF RecordOf
  <2> QED BY <2>1, <2>2, <2>3, <2>4, <2>5, <2>6, <2>7, <2>8 DEF IInv, TypeOK
<1>10. ASSUME NEW s \in Session, RefuseHandshake(s) PROVE IInv'
  <2>1. At(s) /\ CloseSession(s) /\ failures' \in 0 .. MaxFailures
    BY <1>10, BoundsAssumption
       DEF RefuseHandshake, Readable, Served, Fails, IInv, TypeOK
  <2> QED BY <2>1, CloseSessionKeeps
<1>11. ASSUME NEW s \in Session, ReadFrames(s) PROVE IInv'
  <2>1. PICK m \in 1 .. Len(inbox[s]) : HandleFrames(s, m)
    BY <1>11 DEF ReadFrames
  <2>2. At(s) /\ m \in Nat
    BY <1>11 DEF ReadFrames, Readable, Served
  <2> QED BY <2>1, <2>2, HandleFramesKeeps
<1>12. ASSUME NEW s \in Session, HandlerThrows(s) \/ (SendReturns(s) /\ Throws)
       PROVE  IInv'
  <2>1. /\ UNCHANGED <<fds, fdsCount, n, sending, state, protocol, inbox, gone,
                       wsi, nClient,
                       backlog, unrecorded, connects, commands, failures>>
        /\ main' = "down"
    BY <1>12 DEF HandlerThrows, Throws
  <2> QED BY <2>1 DEF IInv, TypeOK, Open, Established
<1>14. ASSUME NEW s \in Session, SendBlocks(s) PROVE IInv'
  <2>1. /\ UNCHANGED <<main, fds, fdsCount, n, state, protocol, inbox, gone,
                       wsi, nClient,
                       backlog, unrecorded, connects, commands, failures>>
        /\ sending' \in Nat
    BY <1>14 DEF SendBlocks
  <2> QED BY <2>1 DEF IInv, TypeOK, Open, Established
<1>15. ASSUME NEW s \in Session, SendReturns(s) PROVE IInv'
  <2>1. CASE HandleFrames(s, sending)
    <3>1. At(s) /\ sending \in Nat
      BY <1>15 DEF SendReturns, IInv, TypeOK
    <3> QED BY <2>1, <3>1, HandleFramesKeeps
  <2>2. CASE Throws
    BY <1>12, <1>15, <2>2
  <2> QED BY <1>15, <2>1, <2>2 DEF SendReturns
<1>13. ASSUME UNCHANGED vars PROVE IInv'
  <2>1. UNCHANGED <<main, fds, fdsCount, n, sending, state, protocol, inbox, gone, wsi,
                       nClient,
                    backlog, unrecorded, connects, commands, failures>>
    BY <1>13 DEF vars
  <2> QED BY <2>1 DEF IInv, TypeOK, Open, Established
<1> QED
  BY <1>1, <1>2, <1>3, <1>4, <1>5, <1>6, <1>7, <1>8, <1>9, <1>10, <1>11,
     <1>12, <1>13, <1>14, <1>15 DEF Next, Service

LEMMA Invariant == Spec => []IInv
<1> QED BY InitIInv, NextIInv, PTL DEF Spec

-----------------------------------------------------------------------------
\* The variables keep their types: above all fdsCount never exceeds the length
\* of fds, and an entry being served is one of the list.
THEOREM TypeCorrect == Spec => []TypeOK
<1>1. IInv => TypeOK
  BY DEF IInv
<1> QED BY Invariant, <1>1, PTL

\* poll() is given the listener and every open session exactly once, for every
\* length of the list and however sessions come and go while it is served.
THEOREM ListIsOfOpenSessions == Spec => []PolledOnce
<1>1. IInv => PolledOnce
  <2> SUFFICES ASSUME IInv PROVE PolledOnce
    OBVIOUS
  <2>1. /\ fds[1].fd = Listener /\ fdsCount = Cardinality(Open) + 1
        /\ fdsCount \in Nat /\ 1 \in 1 .. fdsCount
    BY BoundsAssumption DEF IInv, TypeOK, ListOf
  <2>2. \A i \in 1 .. fdsCount : i = 1 \/ i \in 2 .. fdsCount
    BY <2>1
  <2>3. Polled \subseteq Open \cup {Listener}
    BY <2>1, <2>2 DEF Polled, IInv, ListOf
  <2>4. Open \cup {Listener} \subseteq Polled
    <3>1. ASSUME NEW s \in Open PROVE s \in Polled
      <4>1. PICK i \in 2 .. fdsCount : fds[i].fd = s
        BY DEF IInv, ListOf
      <4>2. i \in 1 .. fdsCount
        BY <2>1
      <4> QED BY <4>1, <4>2 DEF Polled
    <3> QED BY <2>1, <3>1 DEF Polled
  <2> QED BY <2>1, <2>3, <2>4 DEF PolledOnce
<1> QED BY Invariant, <1>1, PTL

\* No session on record has ended and none is there twice, whatever allocations
\* fail; while memory lasts, the record is of all the established sessions.
THEOREM RecordHoldsSessions == Spec => []RecordOfSessions
<1>1. IInv => RecordedAreOpen
  BY DEF IInv, RecordOf, RecordedAreOpen, Recorded
<1>2. IInv => CountsClients
  BY DEF IInv, RecordOf, AllOnRecord, CountsClients, Recorded
<1>3. IInv => RecordOfSessions
  BY <1>1, <1>2 DEF RecordOfSessions
<1> QED BY Invariant, <1>3, PTL

-----------------------------------------------------------------------------
\* A hang-up that waits in the list to be served is one of the session that the
\* entry is of now, and not left behind by one that was there before.
EventsAreOwn(list, count, from, left) ==
    from # 0 => \A i \in 2 .. count : i >= from /\ list[i].revents = "hup" =>
                   left[list[i].fd] = "reset"

\* Where the entries of a list come from when s is removed.
MovedFrom(new, list, count, s) ==
    \A i \in 2 .. count - 1 :
        \E j \in 2 .. count : j >= i /\ new[i] = list[j] /\ list[j].fd # s

LEMMA RemoveFdMoves ==
    ASSUME NEW list, NEW count, NEW open \in SUBSET Session,
           ListOf(list, count, open), NEW s \in open
    PROVE  MovedFrom(RemoveFd(list, count, s), list, count, s)
<1> DEFINE new == RemoveFd(list, count, s)
           at == CHOOSE i \in 1 .. count : list[i].fd = s
<1>1. count \in 1 .. MaxClients /\ count \in Nat /\ MaxClients \in Nat
  BY BoundsAssumption DEF ListOf
<1>2. at \in 1 .. count /\ list[at].fd = s
  <2>1. \E i \in 1 .. count : list[i].fd = s
    BY <1>1 DEF ListOf
  <2> QED BY <2>1
<1> HIDE DEF at
<1>3. new = [i \in DOMAIN list |->
               IF i >= at /\ i < count THEN list[i + 1] ELSE list[i]]
  BY DEF RemoveFd, at
<1> HIDE DEF new
<1>4. at \in 2 .. count
  <2>1. at # 1
    BY <1>2, SessionNotListener DEF ListOf
  <2> QED BY <1>1, <1>2, <2>1
<1>5. \A j \in 2 .. count : j # at => list[j].fd # s
  BY <1>2, <1>4 DEF ListOf
<1>6. ASSUME NEW i \in 2 .. count - 1
      PROVE  \E j \in 2 .. count : j >= i /\ new[i] = list[j] /\ list[j].fd # s
  <2>1. i \in DOMAIN list /\ i < count
    BY <1>1 DEF ListOf
  <2>2. CASE i >= at
    <3>1. i + 1 \in 2 .. count /\ i + 1 >= i /\ i + 1 # at
      BY <1>1, <1>4, <2>2
    <3>2. new[i] = list[i + 1]
      BY <1>3, <2>1, <2>2
    <3> QED BY <3>1, <3>2, <1>5
  <2>3. CASE ~ (i >= at)
    <3>1. i \in 2 .. count /\ i >= i /\ i # at
      BY <1>1, <1>4, <2>3
    <3>2. new[i] = list[i]
      BY <1>3, <2>1, <2>3
    <3> QED BY <3>1, <3>2, <1>5
  <2> QED BY <2>2, <2>3
<1> QED BY <1>6 DEF MovedFrom, new

EventsInv == IInv /\ EventsAreOwn(fds, fdsCount, n, gone)

LEMMA CloseSessionKeepsEvents ==
    ASSUME EventsInv, NEW s \in Session, At(s), CloseSession(s)
    PROVE  EventsAreOwn(fds', fdsCount', n', gone')
<1>1. s \in Open /\ Open \in SUBSET Session /\ n \in Nat /\ fdsCount \in Nat
  BY ServedIsOpen, SessionNotListener DEF EventsInv, Open, IInv, TypeOK
<1>2. /\ fds' = RemoveFd(fds, fdsCount, s) /\ fdsCount' = fdsCount - 1 /\ n # 0
      /\ gone' = [gone EXCEPT ![s] = "no"]
  BY DEF CloseSession, At
<1>3. MovedFrom(fds', fds, fdsCount, s)
  BY <1>1, <1>2, RemoveFdMoves DEF EventsInv, IInv
<1>4. n' # 0 => n' > n /\ n' \in Nat
  <2>1. ListOf(fds', fdsCount', Open \ {s})
    BY <1>1, <1>2, RemoveFdList DEF EventsInv, IInv
  <2>2. fdsCount' \in Nat /\ n + 1 \in Nat
    BY <1>1, <2>1, BoundsAssumption DEF ListOf
  <2>3. n' # 0 => n' \in (n + 1) .. fdsCount'
    BY <2>2, NextEventInUse DEF CloseSession
  <2> QED BY <1>1, <2>2, <2>3
<1>5. ASSUME n' # 0, NEW i \in 2 .. fdsCount', i >= n', fds'[i].revents = "hup"
      PROVE  gone'[fds'[i].fd] = "reset"
  <2>1. PICK j \in 2 .. fdsCount : j >= i /\ fds'[i] = fds[j] /\ fds[j].fd # s
    BY <1>2, <1>3 DEF MovedFrom
  <2>2. j >= n /\ fds[j].revents = "hup"
    <3>1. n' > n /\ n' \in Nat
      BY <1>4, <1>5
    <3> QED BY <1>1, <1>2, <1>5, <2>1, <3>1
  <2>3. gone[fds[j].fd] = "reset"
    BY <2>2, <1>2 DEF EventsInv, EventsAreOwn
  <2> QED BY <2>1, <2>3, <1>2 DEF EventsInv, IInv, TypeOK
<1> QED BY <1>5 DEF EventsAreOwn

LEMMA NextEventsInv == EventsInv /\ [Next]_vars => EventsInv'
<1> SUFFICES ASSUME EventsInv, [Next]_vars
             PROVE  EventsAreOwn(fds', fdsCount', n', gone')
  BY NextIInv DEF EventsInv
<1> USE DEF session, peers, record, counters
<1>1. ASSUME UNCHANGED <<fds, fdsCount, n, gone>>
      PROVE  EventsAreOwn(fds', fdsCount', n', gone')
  BY <1>1 DEF EventsInv
<1>2. ASSUME NEW s \in Session, NEW how \in Left, Leave(s, how)
      PROVE  EventsAreOwn(fds', fdsCount', n', gone')
  <2>1. /\ UNCHANGED <<fds, fdsCount, n>> /\ gone[s] \notin Left
        /\ gone' = [gone EXCEPT ![s] = how]
    BY <1>2 DEF Leave
  <2>2. \A fd : gone[fd] = "reset" => gone'[fd] = "reset"
    BY <2>1 DEF EventsInv, IInv, TypeOK, Left
  <2> QED BY <2>1, <2>2 DEF EventsInv, EventsAreOwn
<1>3. ASSUME Poll PROVE EventsAreOwn(fds', fdsCount', n', gone')
  <2>1. UNCHANGED <<fdsCount, gone>>
    BY <1>3 DEF Poll
  <2>2. ASSUME NEW i \in 2 .. fdsCount, fds'[i].revents = "hup"
        PROVE  gone[fds'[i].fd] = "reset"
    <3>1. i \in 1 .. MaxClients /\ i <= fdsCount /\ fds[i] \in Entry
      BY BoundsAssumption DEF EventsInv, IInv, TypeOK
    <3>2. fds'[i] = [fds[i] EXCEPT !.revents = Events(fds[i].fd)]
      BY <1>3, <3>1 DEF Poll
    <3>3. fds'[i].fd = fds[i].fd /\ Events(fds[i].fd) = "hup"
      BY <2>2, <3>1, <3>2 DEF Entry
    <3> QED BY <3>3 DEF Events
  <2> QED BY <2>1, <2>2 DEF EventsAreOwn
<1>4. ASSUME Proceed, n # 0, UNCHANGED <<fds, fdsCount, gone>>
      PROVE  EventsAreOwn(fds', fdsCount', n', gone')
  <2>1. n' # 0 => n' > n /\ n' \in Nat /\ n \in Nat
    BY <1>4, ProceedPast DEF EventsInv, IInv, TypeOK
  <2> QED BY <1>4, <2>1, BoundsAssumption
          DEF EventsInv, EventsAreOwn, IInv, TypeOK
<1>5. ASSUME NEW s \in Session, Accept(s)
      PROVE  EventsAreOwn(fds', fdsCount', n', gone')
  <2>1. /\ n # 0 /\ Proceed /\ gone' = gone /\ fdsCount' = fdsCount + 1
        /\ fds' = AddFd(fds, fdsCount, s) /\ fdsCount < MaxClients
    BY <1>5 DEF Accept, Served, At
  <2>2. fdsCount \in 1 .. MaxClients /\ fdsCount \in Nat /\ MaxClients \in Nat
    BY BoundsAssumption DEF EventsInv, IInv, TypeOK
  <2>3. n' # 0 => n' > n /\ n' \in Nat /\ n \in Nat
    BY <2>1, <2>2, ProceedPast DEF EventsInv, IInv, TypeOK
  <2>4. /\ fds'[fdsCount + 1].revents = "none"
        /\ \A i \in 2 .. fdsCount : fds'[i] = fds[i]
    BY <2>1, <2>2 DEF AddFd, EventsInv, IInv, TypeOK
  <2>5. \A i \in 2 .. fdsCount' : i = fdsCount + 1 \/ i \in 2 .. fdsCount
    BY <2>1, <2>2
  <2> QED BY <2>1, <2>2, <2>3, <2>4, <2>5 DEF EventsInv, EventsAreOwn
<1>6. ASSUME NEW s \in Session, At(s), CloseSession(s)
      PROVE  EventsAreOwn(fds', fdsCount', n', gone')
  BY <1>6, CloseSessionKeepsEvents
<1>10. ASSUME NEW s \in Session, At(s), NEW m, HandleFrames(s, m)
       PROVE  EventsAreOwn(fds', fdsCount', n', gone')
  BY <1>4, <1>6, <1>10 DEF HandleFrames, At
<1>11. ASSUME NEW s \in Session, SendReturns(s)
       PROVE  EventsAreOwn(fds', fdsCount', n', gone')
  BY <1>1, <1>10, <1>11 DEF SendReturns, Throws
<1>7. ASSUME Service PROVE EventsAreOwn(fds', fdsCount', n', gone')
  <2>1. CASE AcceptNot
    BY <2>1, <1>4 DEF AcceptNot, Served, At
  <2>2. ASSUME NEW s \in Session, ReadHandshake(s)
        PROVE  EventsAreOwn(fds', fdsCount', n', gone')
    BY <2>2, <1>4 DEF ReadHandshake, Readable, Served, At
  <2>3. ASSUME NEW s \in Session, ReadFrames(s)
        PROVE  EventsAreOwn(fds', fdsCount', n', gone')
    BY <2>3, <1>10 DEF ReadFrames, Readable, Served
  <2>4. ASSUME NEW s \in Session,
               Hangup(s) \/ ReadEnd(s) \/ RefuseHandshake(s)
        PROVE  EventsAreOwn(fds', fdsCount', n', gone')
    BY <2>4, <1>6 DEF Hangup, ReadEnd, RefuseHandshake, Readable, Served
  <2>5. ASSUME NEW s \in Session, HandlerThrows(s) \/ SendBlocks(s)
        PROVE  EventsAreOwn(fds', fdsCount', n', gone')
    BY <2>5, <1>1 DEF HandlerThrows, Throws, SendBlocks
  <2> QED BY <1>5, <1>7, <2>1, <2>2, <2>3, <2>4, <2>5 DEF Service
<1>8. ASSUME StartServer \/ StartFails \/ Connect \/ UNCHANGED vars
      PROVE  UNCHANGED <<fds, fdsCount, n, gone>>
  BY <1>8 DEF StartServer, StartFails, Connect, vars
<1>9. ASSUME NEW s \in Session, NEW frame \in Frame, Send(s, frame)
      PROVE  EventsAreOwn(fds', fdsCount', n', gone')
  <2>1. /\ UNCHANGED <<fds, fdsCount, n>> /\ gone[s] = "no"
        /\ \A t \in Session : t # s => gone'[t] = gone[t]
        /\ DOMAIN gone = Session /\ DOMAIN gone' = Session
    BY <1>9 DEF Send, EventsInv, IInv, TypeOK
  <2>2. ASSUME n # 0, NEW i \in 2 .. fdsCount, i >= n, fds[i].revents = "hup"
        PROVE  gone'[fds[i].fd] = "reset"
    <3>1. gone[fds[i].fd] = "reset" /\ fds[i].fd \in Session
      BY <2>2 DEF EventsInv, EventsAreOwn, IInv, ListOf, Open
    <3> QED BY <2>1, <3>1
  <2> QED BY <2>1, <2>2 DEF EventsAreOwn
<1> QED
  BY <1>1, <1>2, <1>3, <1>7, <1>8, <1>9, <1>11 DEF Next

\* The frames in hand while send() waits are still counted in the inbox.
InHand ==
    sending # 0 => /\ n # 0 /\ fds[n].fd \in Session
                   /\ sending <= Len(inbox[fds[n].fd])

LEMMA NextInHand == IInv /\ InHand /\ [Next]_vars => InHand'
<1> SUFFICES ASSUME IInv, InHand, [Next]_vars PROVE InHand'
  OBVIOUS
<1> USE DEF session, peers, record, counters
<1>1. ASSUME sending' = 0 PROVE InHand'
  BY <1>1 DEF InHand
<1>2. ASSUME UNCHANGED <<fds, n, sending, inbox>> PROVE InHand'
  BY <1>2 DEF InHand
<1>3. ASSUME NEW s \in Session, NEW frame \in Frame, Send(s, frame) PROVE InHand'
  <2>1. UNCHANGED <<fds, n, sending>> /\ inbox' = [inbox EXCEPT ![s] = Append(@, frame)]
    BY <1>3 DEF Send
  <2>2. \A t \in Session : Len(inbox[t]) \in Nat /\ Len(inbox'[t]) >= Len(inbox[t])
    <3>1. inbox \in [Session -> Seq(Frame)]
      BY DEF IInv, TypeOK
    <3>2. ASSUME NEW t \in Session
          PROVE  Len(inbox[t]) \in Nat /\ Len(inbox'[t]) >= Len(inbox[t])
      <4>1. inbox[t] \in Seq(Frame) /\ Len(inbox[t]) \in Nat
        BY <3>1
      <4>2. inbox'[t] = inbox[t] \/ inbox'[t] = Append(inbox[t], frame)
        BY <2>1, <3>1
      <4> QED BY <4>1, <4>2
    <3> QED BY <3>2
  <2>3. sending \in Nat
    BY DEF IInv, TypeOK
  <2>4. CASE sending # 0
    <3> DEFINE fd == fds[n].fd
    <3>1. n # 0 /\ fd \in Session /\ sending <= Len(inbox[fd])
      BY <2>4 DEF InHand
    <3>2. Len(inbox[fd]) \in Nat /\ Len(inbox'[fd]) >= Len(inbox[fd])
      BY <2>2, <3>1
    <3>3. Len(inbox'[fd]) \in Nat
      <4>1. IInv'
        BY NextIInv
      <4> HIDE DEF fd
      <4> QED BY <3>1, <4>1 DEF IInv, TypeOK
    <3>4. sending <= Len(inbox'[fd])
      BY <2>3, <3>1, <3>2, <3>3
    <3> QED BY <2>1, <3>1, <3>4 DEF InHand
  <2> QED BY <1>1, <2>1, <2>4
<1>4. ASSUME Poll PROVE InHand'
  BY <1>1, <1>4 DEF Poll, InHand
<1>5. ASSUME NEW s \in Session, SendBlocks(s) PROVE InHand'
  <2>1. /\ n # 0 /\ fds[n].fd = s /\ UNCHANGED <<fds, n, inbox>>
        /\ sending' \in 1 .. Len(inbox[s])
    BY <1>5 DEF SendBlocks, Readable, Served, At
  <2> QED BY <2>1 DEF InHand
<1>6. ASSUME NEW s \in Session, NEW m, HandleFrames(s, m) PROVE InHand'
  BY <1>1, <1>6 DEF HandleFrames, CloseSession, Proceed
<1>7. ASSUME NEW s \in Session, SendReturns(s) PROVE InHand'
  BY <1>2, <1>6, <1>7 DEF SendReturns, Throws
<1>8. ASSUME Service PROVE InHand'
  <2>1. CASE AcceptNot
    BY <1>1, <2>1 DEF AcceptNot, Proceed
  <2>2. ASSUME NEW s \in Session,
               Accept(s) \/ Hangup(s) \/ ReadEnd(s) \/ ReadHandshake(s)
               \/ RefuseHandshake(s)
        PROVE  InHand'
    BY <1>1, <2>2 DEF Accept, Hangup, ReadEnd, ReadHandshake, RefuseHandshake,
                      CloseSession, Proceed
  <2>3. ASSUME NEW s \in Session, ReadFrames(s) PROVE InHand'
    BY <1>6, <2>3 DEF ReadFrames
  <2>4. ASSUME NEW s \in Session, HandlerThrows(s) PROVE InHand'
    BY <1>2, <2>4 DEF HandlerThrows, Throws
  <2> QED BY <1>5, <1>8, <2>1, <2>2, <2>3, <2>4 DEF Service
<1>9. ASSUME \/ StartServer \/ StartFails \/ Connect \/ UNCHANGED vars
             \/ \E s \in Session, how \in Left : Leave(s, how)
      PROVE  InHand'
  BY <1>2, <1>9 DEF StartServer, StartFails, Connect, Leave, vars
<1> QED BY <1>3, <1>4, <1>7, <1>8, <1>9 DEF Next

\* A session ends only by its peer leaving or closing, or by a handshake that
\* failed, for every length of the list: no session inherits the events of the
\* one whose place it took.
THEOREM SessionsEndForCause == Spec => ClosedForCause
<1> DEFINE Cause(s) == \/ gone[s] \in Left \/ Contains(inbox[s], "close")
                       \/ failures' # failures
<1>1. Init => EventsInv /\ InHand
  BY InitIInv DEF EventsInv, EventsAreOwn, InHand, Init
<1>2. ASSUME EventsInv, InHand, [Next]_vars, NEW s \in Session,
             state[s] # "FREE", state'[s] = "FREE"
      PROVE  Cause(s)
  <2> USE DEF session, peers, record, counters
  <2>1. PICK t \in Session : /\ At(t) /\ CloseSession(t)
                             /\ \/ Hangup(t) \/ ReadEnd(t) \/ RefuseHandshake(t)
                                \/ \E m \in 1 .. Len(inbox[t]) : HandleFrames(t, m)
    <3>1. state' # state
      BY <1>2
    <3>2. CASE Service
      <4>1. ~AcceptNot
        BY <3>1 DEF AcceptNot
      <4>2. PICK u \in Session :
               \/ Accept(u) \/ Hangup(u) \/ ReadEnd(u) \/ ReadHandshake(u)
               \/ RefuseHandshake(u) \/ ReadFrames(u) \/ SendBlocks(u)
               \/ HandlerThrows(u)
        BY <3>2, <4>1 DEF Service
      <4>3. ~Accept(u) /\ ~ReadHandshake(u)
        BY <1>2 DEF Accept, ReadHandshake, EventsInv, IInv, TypeOK
      <4>4. ~HandlerThrows(u) /\ ~SendBlocks(u)
        BY <3>1 DEF HandlerThrows, Throws, SendBlocks
      <4>5. ReadFrames(u) => /\ At(u) /\ CloseSession(u)
                             /\ \E m \in 1 .. Len(inbox[u]) : HandleFrames(u, m)
        BY <3>1 DEF ReadFrames, Readable, Served, HandleFrames
      <4>6. Hangup(u) \/ ReadEnd(u) \/ RefuseHandshake(u) =>
               At(u) /\ CloseSession(u)
        BY DEF Hangup, ReadEnd, RefuseHandshake, Readable, Served
      <4> QED BY <4>2, <4>3, <4>4, <4>5, <4>6
    <3>3. CASE ~Service
      <4>1. PICK u \in Session : SendReturns(u)
        BY <1>2, <3>1, <3>3 DEF Next, StartServer, StartFails, Connect, Send,
                                Leave, Poll, vars
      <4>2. HandleFrames(u, sending) /\ CloseSession(u) /\ At(u)
        BY <3>1, <4>1 DEF SendReturns, HandleFrames, Throws
      <4>3. sending \in 1 .. Len(inbox[u])
        <5>1. sending \in Nat /\ sending # 0 /\ fds[n].fd = u
          BY <1>2, <4>1, <4>2 DEF SendReturns, At, EventsInv, IInv, TypeOK
        <5>2. inbox[u] \in Seq(Frame)
          BY <1>2 DEF EventsInv, IInv, TypeOK
        <5> QED BY <1>2, <5>1, <5>2 DEF InHand
      <4> QED BY <4>2, <4>3
    <3> QED BY <3>2, <3>3
  <2>2. t = s
    BY <1>2, <2>1 DEF CloseSession, EventsInv, IInv, TypeOK
  <2>3. CASE Hangup(s)
    <3>1. /\ n \in 1 .. fdsCount /\ n # 1 /\ n \in Nat
          /\ fds[n].fd = s /\ fds[n].revents = "hup"
      BY <1>2, <2>3, ServedIsOpen, SessionNotListener
         DEF Hangup, EventsInv, Served, At
    <3>2. n \in 2 .. fdsCount /\ n >= n /\ n # 0
      BY <3>1
    <3>3. gone[s] = "reset"
      BY <1>2, <3>1, <3>2 DEF EventsInv, EventsAreOwn
    <3> QED BY <3>3 DEF Left
  <2>4. CASE ReadEnd(s)
    BY <2>4 DEF ReadEnd, Left
  <2>5. CASE RefuseHandshake(s)
    <3>1. failures' = failures + 1 /\ failures \in Int
      BY <1>2, <2>5 DEF RefuseHandshake, Fails, EventsInv, IInv, TypeOK
    <3> QED BY <3>1
  <2>6. CASE \E m \in 1 .. Len(inbox[s]) : HandleFrames(s, m)
    <3>1. PICK m \in 1 .. Len(inbox[s]) :
             \/ Contains(SubSeq(inbox[s], 1, m), "close") \/ state' = state
      BY <2>6 DEF HandleFrames
    <3>2. Contains(SubSeq(inbox[s], 1, m), "close")
      BY <1>2, <3>1
    <3>3. inbox[s] \in Seq(Frame)
      BY <1>2 DEF EventsInv, IInv, TypeOK
    <3>4. Contains(inbox[s], "close")
      BY <3>2, <3>3 DEF Contains
    <3> QED BY <3>4
  <2> QED BY <2>1, <2>2, <2>3, <2>4, <2>5, <2>6
<1>3. EventsInv /\ InHand /\ [Next]_vars =>
        [\A s \in Session : state[s] # "FREE" /\ state'[s] = "FREE" =>
            Cause(s)]_vars
  BY <1>2
<1>4. EventsInv /\ InHand /\ [Next]_vars => InHand'
  BY NextInHand DEF EventsInv
<1> QED BY <1>1, <1>3, <1>4, NextEventsInv, PTL DEF Spec, ClosedForCause
=============================================================================
