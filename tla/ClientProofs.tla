---------------------------- MODULE ClientProofs ----------------------------
(***************************************************************************)
(* Proofs about Client, for any number of connections and commands.  Ids   *)
(* are never used twice, and a message has the id of its promise; what     *)
(* crosses the wire is of promises that are pending and have their         *)
(* callback, and nothing crosses it twice or on a socket that is closed.   *)
(* Under this the client implements the abstract calls of RemoteCall.      *)
(***************************************************************************)
EXTENDS Client, TLAPS

Messages == [Attempt -> Seq(Message)]
ReadyStates == [Attempt -> [bd : ReadyState, ut : ReadyState]]

\* The callback of a command is found under the id of its promise.
Callbacks == {[i \in ids |-> i] : ids \in SUBSET Nat}

Pages ==
    [socket : Attempt \cup {0}, messageIndex : Nat,
     commandResponseMap : Callbacks, promises : Seq(PromiseState),
     connected : BOOLEAN, networkActive : BOOLEAN, open : BOOLEAN,
     isConnecting : BOOLEAN, listening : BOOLEAN]

\* The promises come in the order of their ids.
CallsOK(s) ==
    /\ s.messageIndex = Len(s.promises)
    /\ DOMAIN s.commandResponseMap \subseteq 1 .. Len(s.promises)
    /\ \A p \in 1 .. Len(s.promises) :
        /\ s.promises[p].state = "resolved" => s.promises[p].answer = p
        /\ s.promises[p].state = "pending" => s.promises[p].answer = 0

PageOK(s) ==
    /\ s \in Pages /\ CallsOK(s)
    /\ s.isConnecting => s.listening

Carried(s, ready, queues) ==
    \A g \in Attempt : \A i \in 1 .. Len(queues[g]) :
        /\ queues[g][i].about = queues[g][i].id
        /\ queues[g][i].id \in DOMAIN s.commandResponseMap
        /\ s.promises[queues[g][i].id].state = "pending"
        /\ ready[g].ut = "open"

Once(queues) ==
    \A g, h \in Attempt :
        \A i \in 1 .. Len(queues[g]), j \in 1 .. Len(queues[h]) :
            queues[g][i].id = queues[h][j].id => g = h /\ i = j

Apart(queues, others) ==
    \A g, h \in Attempt :
        \A i \in 1 .. Len(queues[g]), j \in 1 .. Len(others[h]) :
            queues[g][i].id # others[h][j].id

TrafficOK(s, ready, requests, answers) ==
    /\ Carried(s, ready, requests) /\ Carried(s, ready, answers)
    /\ Once(requests) /\ Once(answers) /\ Apart(requests, answers)

Alive(s, ready) == s.connected => \E g \in Attempt : ready[g].ut = "open"
Unused(s, ready) ==
    \A g \in Attempt : g > s.socket => ready[g].ut = "none"
Seen(s, ready) == BothOpen(s, ready) => ~s.isConnecting

IInv ==
    /\ PageOK(page)
    /\ readyState \in ReadyStates
    /\ toServer \in Messages /\ toClient \in Messages
    /\ TrafficOK(page, readyState, toServer, toClient)
    /\ Unused(page, readyState)
    /\ Alive(page, readyState) /\ Seen(page, readyState)

-----------------------------------------------------------------------------
(* Commands.                                                               *)

\* What a step that sends nothing leaves of the calls.
Quiet(s, t) ==
    /\ t.promises = s.promises /\ t.messageIndex = s.messageIndex
    /\ t.commandResponseMap = s.commandResponseMap

\* What sending a command adds to them.
Created(s, t, ready) ==
    /\ t.socket = s.socket /\ t.socket \in Attempt
    /\ Len(t.promises) = Len(s.promises) + 1
    /\ DOMAIN t.commandResponseMap =
        DOMAIN s.commandResponseMap \cup {Len(t.promises)}
    /\ \A p \in 1 .. Len(s.promises) : t.promises[p] = s.promises[p]
    /\ t.promises[Len(t.promises)].state \in {"pending", "rejected"}
    /\ ready[t.socket].ut = "open" =>
        t.promises[Len(t.promises)].state = "pending"

\* A command gets the next id, its own promise and callback.
LEMMA CommandCreated ==
    ASSUME NEW s, NEW ready, PageOK(s), s.socket \in Attempt,
           NEW command \in {"fetchDatasetList", "other"}
    PROVE  LET t == CreateCommandPromise(s, ready, command)
           IN  /\ PageOK(t) /\ Created(s, t, ready)
               /\ t.connected = s.connected
               /\ t.isConnecting = s.isConnecting
<1> DEFINE id == s.messageIndex + 1
           promise == [command |-> command, answer |-> 0,
                       state |-> IF ready[s.socket].ut = "connecting"
                                 THEN "rejected" ELSE "pending"]
           map == Entered(s.commandResponseMap, id, Len(s.promises) + 1)
           promises == Append(s.promises, promise)
           t == CreateCommandPromise(s, ready, command)
<1>1. /\ s \in Pages
      /\ Len(s.promises) \in Nat /\ s.messageIndex = Len(s.promises)
      /\ id = Len(s.promises) + 1
  BY DEF PageOK, CallsOK, Pages
<1>2. promise \in PromiseState
  BY DEF PromiseState
<1>3. /\ promises \in Seq(PromiseState)
      /\ Len(promises) = Len(s.promises) + 1
      /\ promises[Len(s.promises) + 1] = promise
      /\ \A p \in 1 .. Len(s.promises) : promises[p] = s.promises[p]
  <2> HIDE DEF promise
  <2> QED
    BY <1>1, <1>2 DEF Pages
<1>4. /\ DOMAIN map = DOMAIN s.commandResponseMap \cup {id}
      /\ map \in Callbacks
  <2>1. PICK ids \in SUBSET Nat :
            s.commandResponseMap = [i \in ids |-> i]
    BY <1>1 DEF Pages, Callbacks
  <2>2. id \in Nat
    BY <1>1
  <2>3. map = Entered(s.commandResponseMap, id, id)
    BY <1>1
  <2> HIDE DEF id, map
  <2>4. map = [i \in ids \cup {id} |-> i]
    BY <2>1, <2>3 DEF Entered
  <2>5. ids \cup {id} \in SUBSET Nat
    BY <2>2
  <2> QED
    BY <2>1, <2>4, <2>5 DEF Callbacks
<1>5. /\ t \in Pages
      /\ t.socket = s.socket /\ t.messageIndex = id
      /\ t.commandResponseMap = map /\ t.promises = promises
      /\ t.connected = s.connected
      /\ t.isConnecting = s.isConnecting /\ t.listening = s.listening
  <2>1. t = [s EXCEPT !.networkActive = TRUE, !.messageIndex = id,
                      !.commandResponseMap = map, !.promises = promises]
    BY DEF CreateCommandPromise
  <2>2. id \in Nat
    BY <1>1
  <2> HIDE DEF id, map, promises, t
  <2> QED
    BY <2>1, <2>2, <1>1, <1>3, <1>4 DEF Pages
<1>6. CallsOK(t)
  <2> SUFFICES ASSUME NEW p \in 1 .. Len(promises)
               PROVE  /\ promises[p].state = "resolved" =>
                            promises[p].answer = p
                      /\ promises[p].state = "pending" =>
                            promises[p].answer = 0
    <3> HIDE DEF id, map, promises, t
    <3> QED
      BY <1>1, <1>3, <1>4, <1>5 DEF CallsOK, PageOK
  <2>1. CASE p \in 1 .. Len(s.promises)
    <3> HIDE DEF promises
    <3> QED
      BY <2>1, <1>3 DEF PageOK, CallsOK
  <2>2. CASE p = Len(s.promises) + 1
    <3>1. promise.state # "resolved" /\ promise.answer = 0
      OBVIOUS
    <3> HIDE DEF promise, promises
    <3> QED
      BY <2>2, <3>1, <1>3
  <2>3. p \in 1 .. Len(s.promises) \/ p = Len(s.promises) + 1
    <3> HIDE DEF promises
    <3> QED
      BY <1>1, <1>3
  <2> QED
    BY <2>1, <2>2, <2>3
<1>7. Created(s, t, ready)
  <2>1. /\ promise.state \in {"pending", "rejected"}
        /\ ready[s.socket].ut = "open" => promise.state = "pending"
    OBVIOUS
  <2> HIDE DEF id, map, promise, promises, t
  <2> QED
    BY <2>1, <1>1, <1>3, <1>4, <1>5 DEF Created
<1> QED
  BY <1>5, <1>6, <1>7 DEF PageOK

\* "connected": the list of datasets is asked for, and the dialog is done.
LEMMA ConnectedCreated ==
    ASSUME NEW s, NEW ready, PageOK(s), s.socket \in Attempt
    PROVE  LET t == Connected(s, ready)
           IN  /\ PageOK(t) /\ Created(s, t, ready)
               /\ t.connected = s.connected /\ ~t.isConnecting
<1> DEFINE asked == CreateCommandPromise(s, ready, "fetchDatasetList")
           t == Connected(s, ready)
<1>1. /\ PageOK(asked) /\ Created(s, asked, ready)
      /\ asked.connected = s.connected
      /\ asked.isConnecting = s.isConnecting
  BY CommandCreated
<1> HIDE DEF asked
<1>2. CASE s.listening
  <2>1. t = [asked EXCEPT !.isConnecting = FALSE, !.listening = FALSE,
                          !.open = FALSE]
    BY <1>2 DEF Connected, asked
  <2>2. /\ t \in Pages /\ t.socket = asked.socket
        /\ t.messageIndex = asked.messageIndex
        /\ t.commandResponseMap = asked.commandResponseMap
        /\ t.promises = asked.promises /\ t.connected = asked.connected
        /\ ~t.isConnecting
    <3> HIDE DEF t
    <3> QED
      BY <2>1, <1>1 DEF PageOK, Pages
  <2> QED
    BY <2>2, <1>1 DEF PageOK, CallsOK, Created
<1>3. CASE ~s.listening
  <2>1. t = asked /\ ~s.isConnecting
    BY <1>3 DEF Connected, asked, PageOK
  <2> QED
    BY <2>1, <1>1
<1> QED
  BY <1>2, <1>3 DEF PageOK, Pages

\* A socket's event leaves the calls as they are, or asks for the datasets when
\* it has found both sockets open.
LEMMA StateUpdated ==
    ASSUME NEW s, NEW ready, PageOK(s)
    PROVE  LET t == maybeUpdateState(s, ready)
           IN  /\ PageOK(t) /\ t.socket = s.socket
               /\ t.connected = s.connected
               /\ Quiet(s, t) \/ Created(s, t, ready)
               /\ Seen(t, ready)
<1>1. CASE BothOpen(s, ready)
  <2>1. s.socket \in Attempt
    BY <1>1 DEF BothOpen, PageOK, Pages
  <2> QED
    BY <2>1, <1>1, ConnectedCreated DEF maybeUpdateState, Created, Seen
<1>2. CASE ~BothOpen(s, ready)
  BY <1>2 DEF maybeUpdateState, Quiet, Seen
<1> QED
  BY <1>1, <1>2

-----------------------------------------------------------------------------
(* Messages.                                                               *)

\* The sockets' traffic depends on the calls alone.
LEMMA TrafficUndisturbed ==
    ASSUME NEW s, NEW t, NEW ready, NEW requests, NEW answers,
           Quiet(s, t), TrafficOK(s, ready, requests, answers)
    PROVE  TrafficOK(t, ready, requests, answers)
BY DEF Quiet, TrafficOK, Carried

\* Other sockets may open and close, as may the binary ones.
LEMMA TrafficElsewhere ==
    ASSUME NEW s, NEW ready, NEW after, NEW requests, NEW answers,
           \A g \in Attempt : ready[g].ut = "open" => after[g].ut = "open",
           TrafficOK(s, ready, requests, answers)
    PROVE  TrafficOK(s, after, requests, answers)
BY DEF TrafficOK, Carried

\* What is under way on a socket is lost with it.
LEMMA TrafficLost ==
    ASSUME NEW s, NEW ready, NEW after, NEW g \in Attempt,
           NEW requests \in Messages, NEW answers \in Messages,
           \A h \in Attempt \ {g} : after[h].ut = ready[h].ut,
           TrafficOK(s, ready, requests, answers)
    PROVE  LET fewer == [requests EXCEPT ![g] = <<>>]
               rest == [answers EXCEPT ![g] = <<>>]
           IN  /\ fewer \in Messages /\ rest \in Messages
               /\ TrafficOK(s, after, fewer, rest)
<1> DEFINE fewer == [requests EXCEPT ![g] = <<>>]
           rest == [answers EXCEPT ![g] = <<>>]
<1>1. fewer \in Messages /\ rest \in Messages
  BY DEF Messages
<1>2. /\ Len(fewer[g]) = 0 /\ Len(rest[g]) = 0
      /\ \A h \in Attempt \ {g} : fewer[h] = requests[h]
      /\ \A h \in Attempt \ {g} : rest[h] = answers[h]
  BY DEF Messages
<1> HIDE DEF fewer, rest
<1>3. \A h \in Attempt : /\ 1 .. Len(fewer[h]) # {} => h # g
                         /\ 1 .. Len(rest[h]) # {} => h # g
  BY <1>2
<1>4. Carried(s, after, fewer) /\ Carried(s, after, rest)
  BY <1>2, <1>3, SMTT(30) DEF TrafficOK, Carried
<1>5. Once(fewer) /\ Once(rest)
  BY <1>2, <1>3, SMTT(30) DEF TrafficOK, Once
<1>6. Apart(fewer, rest)
  BY <1>2, <1>3 DEF TrafficOK, Apart
<1> QED
  BY <1>1, <1>4, <1>5, <1>6 DEF TrafficOK, fewer, rest

\* Some of the messages of every queue.
Within(fewer, queues) ==
    \A g \in Attempt : \A i \in 1 .. Len(fewer[g]) :
        \E j \in 1 .. Len(queues[g]) : fewer[g][i] = queues[g][j]

\* What is true of all the messages is true of some of them.
LEMMA SomeCarried ==
    ASSUME NEW s, NEW ready, NEW queues, NEW fewer,
           Within(fewer, queues), Carried(s, ready, queues)
    PROVE  Carried(s, ready, fewer)
<1> SUFFICES ASSUME NEW g \in Attempt, NEW i \in 1 .. Len(fewer[g])
             PROVE  /\ fewer[g][i].about = fewer[g][i].id
                    /\ fewer[g][i].id \in DOMAIN s.commandResponseMap
                    /\ s.promises[fewer[g][i].id].state = "pending"
                    /\ ready[g].ut = "open"
  BY DEF Carried
<1>1. PICK j \in 1 .. Len(queues[g]) : fewer[g][i] = queues[g][j]
  BY DEF Within
<1> QED
  BY <1>1 DEF Carried

LEMMA SomeApart ==
    ASSUME NEW queues, NEW fewer, NEW others, Within(fewer, queues)
    PROVE  /\ Apart(queues, others) => Apart(fewer, others)
           /\ Apart(others, queues) => Apart(others, fewer)
<1>1. ASSUME Apart(queues, others) \/ Apart(others, queues),
             NEW g \in Attempt, NEW h \in Attempt,
             NEW i \in 1 .. Len(fewer[g]), NEW j \in 1 .. Len(others[h])
      PROVE  fewer[g][i].id # others[h][j].id
  <2>1. PICK l \in 1 .. Len(queues[g]) : fewer[g][i] = queues[g][l]
    BY DEF Within
  <2> QED
    BY <1>1, <2>1 DEF Apart
<1> QED
  BY <1>1 DEF Apart

Without(queues, id) ==
    \A g \in Attempt : \A i \in 1 .. Len(queues[g]) : queues[g][i].id # id

\* Taking the oldest message of a queue leaves no other with its id.
LEMMA Shortened ==
    ASSUME NEW g \in Attempt, NEW queues \in Messages, queues[g] # <<>>,
           Once(queues)
    PROVE  LET m == Head(queues[g])
               fewer == [queues EXCEPT ![g] = Tail(@)]
           IN  /\ m \in Message /\ 1 \in 1 .. Len(queues[g])
               /\ m = queues[g][1]
               /\ fewer \in Messages /\ Once(fewer) /\ Without(fewer, m.id)
               /\ Within(fewer, queues)
<1> DEFINE m == Head(queues[g])
           fewer == [queues EXCEPT ![g] = Tail(@)]
           old(h, i) == IF h = g THEN i + 1 ELSE i
<1>1. /\ fewer \in Messages
      /\ Len(queues[g]) \in Nat \ {0}
      /\ Len(fewer[g]) = Len(queues[g]) - 1
      /\ \A i \in 1 .. Len(fewer[g]) : fewer[g][i] = queues[g][i + 1]
      /\ m \in Message /\ m = queues[g][1]
      /\ \A h \in Attempt \ {g} : fewer[h] = queues[h]
  BY DEF Messages
<1> HIDE DEF m, fewer
<1>2. ASSUME NEW h \in Attempt, NEW i \in 1 .. Len(fewer[h])
      PROVE  /\ old(h, i) \in 1 .. Len(queues[h])
             /\ fewer[h][i] = queues[h][old(h, i)]
             /\ h = g => old(h, i) # 1
  BY <1>1
<1>3. \A h \in Attempt : \A i, j \in 1 .. Len(fewer[h]) :
            old(h, i) = old(h, j) => i = j
  OBVIOUS
<1>4. 1 \in 1 .. Len(queues[g])
  BY <1>1
<1> HIDE DEF old
<1>5. Once(fewer)
  <2> SUFFICES ASSUME NEW h \in Attempt, NEW l \in Attempt,
                      NEW i \in 1 .. Len(fewer[h]),
                      NEW j \in 1 .. Len(fewer[l]),
                      fewer[h][i].id = fewer[l][j].id
               PROVE  h = l /\ i = j
    BY DEF Once
  <2>1. /\ old(h, i) \in 1 .. Len(queues[h])
        /\ old(l, j) \in 1 .. Len(queues[l])
        /\ queues[h][old(h, i)].id = queues[l][old(l, j)].id
    BY <1>2
  <2>2. h = l /\ old(h, i) = old(l, j)
    BY <2>1 DEF Once
  <2> QED
    BY <2>2, <1>3
<1>6. Without(fewer, m.id)
  BY <1>1, <1>2, <1>4 DEF Once, Without
<1>7. Within(fewer, queues)
  BY <1>2 DEF Within
<1> QED
  BY <1>1, <1>4, <1>5, <1>6, <1>7 DEF m, fewer

\* At most one message more, on one of the queues.
OneMore(more, queues, g, m) ==
    \A h \in Attempt : \A i \in 1 .. Len(more[h]) :
        \/ i \in 1 .. Len(queues[h]) /\ more[h][i] = queues[h][i]
        \/ h = g /\ more[h][i] = m

\* A message with an id of its own may be put behind the others.
LEMMA Lengthened ==
    ASSUME NEW g \in Attempt, NEW queues \in Messages, NEW m \in Message,
           Once(queues), Without(queues, m.id)
    PROVE  LET more == [queues EXCEPT ![g] = Append(@, m)]
           IN  /\ more \in Messages /\ Once(more)
               /\ OneMore(more, queues, g, m)
<1> DEFINE more == [queues EXCEPT ![g] = Append(@, m)]
<1>1. /\ more \in Messages
      /\ Len(queues[g]) \in Nat
      /\ Len(more[g]) = Len(queues[g]) + 1
      /\ more[g][Len(queues[g]) + 1] = m
      /\ \A i \in 1 .. Len(queues[g]) : more[g][i] = queues[g][i]
      /\ \A h \in Attempt \ {g} : more[h] = queues[h]
  BY DEF Messages
<1> HIDE DEF more
<1>2. ASSUME NEW h \in Attempt, NEW i \in 1 .. Len(more[h])
      PROVE  \/ i \in 1 .. Len(queues[h]) /\ more[h][i] = queues[h][i]
             \/ h = g /\ i = Len(queues[g]) + 1 /\ more[h][i] = m
  <2>1. CASE h # g
    BY <2>1, <1>1
  <2>2. CASE h = g
    BY <2>2, <1>1
  <2> QED
    BY <2>1, <2>2
<1>3. Once(more)
  <2> SUFFICES ASSUME NEW h \in Attempt, NEW l \in Attempt,
                      NEW i \in 1 .. Len(more[h]),
                      NEW j \in 1 .. Len(more[l]),
                      more[h][i].id = more[l][j].id
               PROVE  h = l /\ i = j
    BY DEF Once
  <2>1. CASE i \in 1 .. Len(queues[h]) /\ more[h][i] = queues[h][i]
    <3>1. more[l][j].id # m.id
      BY <2>1 DEF Without
    <3>2. j \in 1 .. Len(queues[l]) /\ more[l][j] = queues[l][j]
      BY <3>1, <1>2
    <3> QED
      BY <2>1, <3>2 DEF Once
  <2>2. CASE h = g /\ i = Len(queues[g]) + 1 /\ more[h][i] = m
    <3>1. l = g /\ j = Len(queues[g]) + 1
      BY <2>2, <1>2 DEF Without
    <3> QED
      BY <2>2, <3>1
  <2> QED
    BY <2>1, <2>2, <1>2
<1>4. OneMore(more, queues, g, m)
  BY <1>2 DEF OneMore
<1> QED
  BY <1>1, <1>3, <1>4 DEF more

\* What is true of the others and of the new one is true of all.
LEMMA AllCarried ==
    ASSUME NEW s, NEW ready, NEW queues, NEW more, NEW g, NEW m,
           OneMore(more, queues, g, m), Carried(s, ready, queues),
           m.about = m.id, m.id \in DOMAIN s.commandResponseMap,
           s.promises[m.id].state = "pending", ready[g].ut = "open"
    PROVE  Carried(s, ready, more)
BY DEF Carried, OneMore

LEMMA AllApart ==
    ASSUME NEW queues, NEW more, NEW others, NEW g, NEW m,
           OneMore(more, queues, g, m), Without(others, m.id)
    PROVE  /\ Apart(queues, others) => Apart(more, others)
           /\ Apart(others, queues) => Apart(others, more)
<1>1. ASSUME Apart(queues, others) \/ Apart(others, queues),
             NEW h \in Attempt, NEW l \in Attempt,
             NEW i \in 1 .. Len(more[h]), NEW j \in 1 .. Len(others[l])
      PROVE  more[h][i].id # others[l][j].id
  <2>1. CASE i \in 1 .. Len(queues[h]) /\ more[h][i] = queues[h][i]
    BY <1>1, <2>1 DEF Apart
  <2>2. CASE more[h][i] = m
    BY <2>2 DEF Without
  <2> QED
    BY <2>1, <2>2 DEF OneMore
<1> QED
  BY <1>1 DEF Apart

\* A command takes an id that no message has, also those on former sockets.
LEMMA Transmitted ==
    ASSUME NEW s, PageOK(s), PageOK(page'),
           Len(s.promises) = Len(page.promises),
           Quiet(s, page') \/ Created(s, page', readyState'),
           NEW requests \in Messages, NEW answers \in Messages,
           TrafficOK(s, readyState', requests, answers)
    PROVE  /\ Transmit(requests) \in Messages
           /\ TrafficOK(page', readyState', Transmit(requests), answers)
<1> DEFINE k == page'.socket
           id == Len(page'.promises)
           message == [id |-> page'.messageIndex, about |-> id]
           more == [requests EXCEPT ![k] = Append(@, message)]
<1>1. /\ Len(s.promises) \in Nat
      /\ id \in Nat /\ page'.messageIndex = id
      /\ DOMAIN s.commandResponseMap \subseteq 1 .. Len(s.promises)
  BY DEF PageOK, Pages, CallsOK
<1>2. CASE Quiet(s, page')
  <2>1. Transmit(requests) = requests
    BY <1>1, <1>2 DEF Transmit, Quiet
  <2> QED
    BY <2>1, <1>2, TrafficUndisturbed
<1>3. CASE Created(s, page', readyState')
  <2>1. /\ k \in Attempt /\ id = Len(s.promises) + 1
        /\ DOMAIN (page'.commandResponseMap) =
            DOMAIN s.commandResponseMap \cup {id}
        /\ \A p \in 1 .. Len(s.promises) :
            page'.promises[p] = s.promises[p]
    BY <1>3 DEF Created
  <2>2. TrafficOK(page', readyState', requests, answers)
    <3>1. ASSUME NEW p \in DOMAIN s.commandResponseMap
          PROVE  /\ p \in DOMAIN (page'.commandResponseMap)
                 /\ page'.promises[p] = s.promises[p]
      BY <2>1, <1>1
    <3> QED
      BY <3>1 DEF TrafficOK, Carried
  <2>3. CASE readyState'[k].ut = "open"
    <3>1. Transmit(requests) = more
      BY <2>1, <2>3, <1>1 DEF Transmit
    <3>2. message \in Message
      BY <1>1 DEF Message
    <3>3. message.id = id /\ message.about = id
      BY <1>1
    <3>4. /\ id \in DOMAIN (page'.commandResponseMap)
          /\ page'.promises[id].state = "pending"
      BY <2>1, <2>3, <1>3 DEF Created
    <3>5. Without(requests, id) /\ Without(answers, id)
      <4>1. id \notin DOMAIN s.commandResponseMap
        BY <1>1, <2>1
      <4> QED
        BY <4>1 DEF TrafficOK, Carried, Without
    <3> HIDE DEF message, id, k
    <3>6. /\ more \in Messages /\ Once(more)
          /\ OneMore(more, requests, k, message)
      BY <2>1, <2>2, <3>2, <3>3, <3>5, Lengthened DEF TrafficOK
    <3> HIDE DEF more
    <3>7. Carried(page', readyState', more)
      BY <2>2, <2>3, <3>3, <3>4, <3>6, AllCarried DEF TrafficOK
    <3>8. Apart(more, answers)
      BY <2>2, <3>3, <3>5, <3>6, AllApart DEF TrafficOK
    <3> QED
      BY <2>2, <3>1, <3>6, <3>7, <3>8 DEF TrafficOK
  <2>4. CASE readyState'[k].ut # "open"
    BY <2>4, <2>2 DEF Transmit
  <2> QED
    BY <2>3, <2>4
<1> QED
  BY <1>2, <1>3

\* A command that was handled is answered behind the others on its socket.
LEMMA Handling ==
    ASSUME NEW s, NEW ready, NEW g \in Attempt, NEW answered \in BOOLEAN,
           NEW requests \in Messages, NEW answers \in Messages,
           requests[g] # <<>>, TrafficOK(s, ready, requests, answers)
    PROVE  LET fewer == [requests EXCEPT ![g] = Tail(@)]
               more == IF answered
                       THEN [answers EXCEPT ![g] = Append(@, Head(requests[g]))]
                       ELSE answers
           IN  /\ fewer \in Messages /\ more \in Messages
               /\ TrafficOK(s, ready, fewer, more)
<1> DEFINE m == Head(requests[g])
           fewer == [requests EXCEPT ![g] = Tail(@)]
           longer == [answers EXCEPT ![g] = Append(@, m)]
<1>1. Once(requests) /\ Once(answers) /\ Apart(requests, answers)
  BY DEF TrafficOK
<1>2. /\ m \in Message /\ 1 \in 1 .. Len(requests[g])
      /\ m = requests[g][1]
      /\ fewer \in Messages /\ Once(fewer) /\ Without(fewer, m.id)
      /\ Within(fewer, requests)
  BY <1>1, Shortened
<1> HIDE DEF m, fewer
<1>3. Without(answers, m.id)
  BY <1>1, <1>2 DEF Apart, Without
<1>4. /\ longer \in Messages /\ Once(longer)
      /\ OneMore(longer, answers, g, m)
  BY <1>1, <1>2, <1>3, Lengthened
<1> HIDE DEF longer
<1>5. Carried(s, ready, fewer)
  BY <1>2, SomeCarried DEF TrafficOK
<1>6. Carried(s, ready, longer)
  <2>1. /\ m.about = m.id /\ m.id \in DOMAIN s.commandResponseMap
        /\ s.promises[m.id].state = "pending" /\ ready[g].ut = "open"
    BY <1>2 DEF TrafficOK, Carried
  <2> QED
    BY <1>4, <2>1, AllCarried DEF TrafficOK
<1>7. Apart(fewer, answers)
  BY <1>1, <1>2, SomeApart
<1>8. Apart(fewer, longer)
  <2>1. OneMore(longer, answers, g, m) /\ Without(fewer, m.id)
    BY <1>2, <1>4
  <2> QED
    BY <2>1, <1>7, AllApart, Zenon
<1> QED
  BY <1>1, <1>2, <1>4, <1>5, <1>6, <1>7, <1>8
     DEF TrafficOK, m, fewer, longer

\* One promise, which was pending, is resolved.
Settles(s, t, p) ==
    /\ s.promises[p].state = "pending" /\ t.promises[p].state = "resolved"
    /\ \A q \in 1 .. Len(s.promises) : q # p => t.promises[q] = s.promises[q]

\* The callback under the id of a pending promise resolves that promise alone,
\* and goes.
LEMMA PromiseResolved ==
    ASSUME NEW s, PageOK(s), NEW m \in Message,
           m.id \in DOMAIN s.commandResponseMap, m.about = m.id,
           s.promises[m.id].state = "pending"
    PROVE  LET t == Resolve(s, m)
           IN  /\ PageOK(t) /\ Len(t.promises) = Len(s.promises)
               /\ t.socket = s.socket /\ t.connected = s.connected
               /\ t.isConnecting = s.isConnecting
               /\ DOMAIN t.commandResponseMap =
                    DOMAIN s.commandResponseMap \ {m.id}
               /\ Settles(s, t, m.id)
<1> DEFINE t == Resolve(s, m)
           p == m.id
<1>1. /\ p \in DOMAIN s.commandResponseMap /\ m.about = p
      /\ s.promises[p].state = "pending"
  OBVIOUS
<1>2. /\ s \in Pages /\ Len(s.promises) \in Nat
      /\ p \in 1 .. Len(s.promises) /\ s.promises[p].answer = 0
      /\ s.promises[p] \in PromiseState /\ s.commandResponseMap[p] = p
      /\ p \in Nat
  <2>1. s \in Pages /\ Len(s.promises) \in Nat /\ p \in 1 .. Len(s.promises)
    BY <1>1 DEF PageOK, Pages, CallsOK
  <2>2. s.commandResponseMap[p] = p
    BY <2>1 DEF Pages, Callbacks
  <2>3. s.promises[p] \in PromiseState
    BY <2>1 DEF Pages
  <2>4. s.promises[p].answer = 0
    BY <2>1, <1>1 DEF PageOK, CallsOK
  <2> QED
    BY <2>1, <2>2, <2>3, <2>4
<1> DEFINE settled == [s.promises[p] EXCEPT !.state = "resolved", !.answer = p]
           promises == [s.promises EXCEPT ![p] = settled]
           map == [i \in DOMAIN s.commandResponseMap \ {p} |->
                        s.commandResponseMap[i]]
<1>3. settled \in PromiseState
  BY <1>2 DEF PromiseState
<1>4. /\ promises \in Seq(PromiseState) /\ Len(promises) = Len(s.promises)
      /\ promises[p] = settled
      /\ \A q \in 1 .. Len(s.promises) : q # p => promises[q] = s.promises[q]
  <2> HIDE DEF settled
  <2> QED
    BY <1>2, <1>3 DEF Pages
<1>5. map \in Callbacks /\ DOMAIN map = DOMAIN s.commandResponseMap \ {p}
  <2>1. PICK ids \in SUBSET Nat : s.commandResponseMap = [i \in ids |-> i]
    BY <1>2 DEF Pages, Callbacks
  <2>2. map = [i \in ids \ {p} |-> i]
    BY <2>1
  <2> QED
    BY <2>1, <2>2 DEF Callbacks
<1>6. t = [s EXCEPT !.promises = promises, !.networkActive = FALSE,
                    !.commandResponseMap = map]
  <2>1. t = [s EXCEPT
                !.promises[p].state =
                    IF @ = "pending" THEN "resolved" ELSE @,
                !.promises[p].answer = IF @ = 0 THEN m.about ELSE @,
                !.networkActive = FALSE,
                !.commandResponseMap =
                    [i \in DOMAIN @ \ {p} |-> @[i]]]
    BY <1>2 DEF Resolve
  <2>2. promises = [s.promises EXCEPT
                ![p].state = IF @ = "pending" THEN "resolved" ELSE @,
                ![p].answer = IF @ = 0 THEN m.about ELSE @]
    <3>1. s.promises[p].state = "pending" /\ s.promises[p].answer = 0
      BY <1>1, <1>2
    <3> QED
      BY <3>1, <1>1, <1>2 DEF Pages
  <2> QED
    BY <2>1, <2>2, <1>2 DEF Pages
<1>7. /\ t \in Pages /\ t.promises = promises
      /\ t.commandResponseMap = map /\ t.messageIndex = s.messageIndex
      /\ t.socket = s.socket /\ t.connected = s.connected
      /\ t.isConnecting = s.isConnecting /\ t.listening = s.listening
  <2> HIDE DEF promises, map, t
  <2> QED
    BY <1>6, <1>2, <1>4, <1>5 DEF Pages
<1>8. CallsOK(t)
  <2>1. settled.state = "resolved" /\ settled.answer = p
    BY <1>2 DEF PromiseState
  <2> HIDE DEF settled, promises, map, t
  <2>2. \A q \in 1 .. Len(promises) :
            /\ promises[q].state = "resolved" => promises[q].answer = q
            /\ promises[q].state = "pending" => promises[q].answer = 0
    BY <2>1, <1>2, <1>4 DEF PageOK, CallsOK
  <2> QED
    BY <2>2, <1>2, <1>4, <1>5, <1>7 DEF PageOK, CallsOK
<1>9. /\ PageOK(t) /\ Len(t.promises) = Len(s.promises)
       /\ Settles(s, t, p)
  <2>1. settled.state = "resolved"
    BY <1>2 DEF PromiseState
  <2> HIDE DEF settled, promises, map, t
  <2> QED
    BY <2>1, <1>1, <1>4, <1>7, <1>8 DEF PageOK, Settles
<1> QED
  BY <1>5, <1>7, <1>9 DEF t

\* An answer finds the callback of its own promise, settles it, and nothing
\* else on any socket is of that promise.
LEMMA Resolving ==
    ASSUME NEW s, NEW ready, NEW g \in Attempt, PageOK(s),
           NEW requests \in Messages, NEW answers \in Messages,
           answers[g] # <<>>, TrafficOK(s, ready, requests, answers)
    PROVE  LET m == Head(answers[g])
               t == Resolve(s, m)
               fewer == [answers EXCEPT ![g] = Tail(@)]
           IN  /\ m.id \in DOMAIN s.commandResponseMap
               /\ ready[g].ut = "open"
               /\ PageOK(t) /\ Len(t.promises) = Len(s.promises)
               /\ t.socket = s.socket /\ t.connected = s.connected
               /\ t.isConnecting = s.isConnecting
               /\ fewer \in Messages
               /\ TrafficOK(t, ready, requests, fewer)
<1> DEFINE m == Head(answers[g])
           t == Resolve(s, m)
           fewer == [answers EXCEPT ![g] = Tail(@)]
           p == m.id
<1>1. /\ m \in Message /\ 1 \in 1 .. Len(answers[g])
      /\ m = answers[g][1]
      /\ fewer \in Messages /\ Once(fewer) /\ Without(fewer, p)
      /\ Within(fewer, answers)
  BY Shortened DEF TrafficOK
<1>2. /\ p \in DOMAIN s.commandResponseMap /\ m.about = p
      /\ s.promises[p].state = "pending" /\ ready[g].ut = "open"
  <2> HIDE DEF m, fewer
  <2> QED
    BY <1>1 DEF TrafficOK, Carried
<1>3. /\ PageOK(t) /\ Len(t.promises) = Len(s.promises)
      /\ t.socket = s.socket /\ t.connected = s.connected
      /\ t.isConnecting = s.isConnecting
      /\ DOMAIN t.commandResponseMap = DOMAIN s.commandResponseMap \ {p}
      /\ Settles(s, t, p)
  BY <1>1, <1>2, PromiseResolved
<1> HIDE DEF m, t, fewer
<1>4. Without(requests, p)
  BY <1>1 DEF TrafficOK, Apart, Without
<1>5. ASSUME NEW q \in DOMAIN s.commandResponseMap, q # p
      PROVE  /\ q \in DOMAIN t.commandResponseMap
             /\ t.promises[q] = s.promises[q]
  <2>1. q \in 1 .. Len(s.promises)
    BY DEF PageOK, CallsOK
  <2> HIDE DEF p
  <2> QED
    BY <2>1, <1>3, <1>5 DEF Settles
<1>6. Carried(t, ready, requests)
  BY <1>4, <1>5 DEF TrafficOK, Carried, Without
<1>7. Carried(t, ready, fewer)
  <2>1. Carried(s, ready, fewer)
    BY <1>1, SomeCarried DEF TrafficOK
  <2> QED
    BY <2>1, <1>1, <1>5 DEF Carried, Without
<1>8. Apart(requests, fewer)
  BY <1>1, SomeApart DEF TrafficOK
<1>9. TrafficOK(t, ready, requests, fewer)
  BY <1>1, <1>6, <1>7, <1>8 DEF TrafficOK
<1> QED
  BY <1>1, <1>2, <1>3, <1>9 DEF m, t, fewer

-----------------------------------------------------------------------------
(* The inductive invariant.                                                *)

\* Nothing has been sent, nothing is open, nobody is connected.
THEOREM InitInvariant ==
    ASSUME Init PROVE IInv
<1> USE BoundsAssumption
<1>1. page = [socket |-> 0, messageIndex |-> 0,
              commandResponseMap |-> [id \in {} |-> 0], promises |-> <<>>,
              connected |-> FALSE, networkActive |-> FALSE, open |-> FALSE,
              isConnecting |-> FALSE, listening |-> FALSE]
  BY DEF Init
<1>2. page \in Pages
  <2>1. [id \in {} |-> 0] = [i \in {} |-> i]
    OBVIOUS
  <2>2. [id \in {} |-> 0] \in Callbacks
    BY <2>1 DEF Callbacks
  <2>3. <<>> \in Seq(PromiseState)
    OBVIOUS
  <2> QED
    BY <1>1, <2>2, <2>3 DEF Pages
<1>3. PageOK(page)
  BY <1>1, <1>2 DEF PageOK, CallsOK
<1>4. readyState \in ReadyStates
  BY DEF Init, ReadyStates, ReadyState
<1>5. toServer \in Messages /\ toClient \in Messages
  BY DEF Init, Messages
<1>6. \A g \in Attempt : Len(toServer[g]) = 0 /\ Len(toClient[g]) = 0
  BY DEF Init
<1>7. TrafficOK(page, readyState, toServer, toClient)
  BY <1>6 DEF TrafficOK, Carried, Once, Apart
<1>8. /\ Alive(page, readyState) /\ Seen(page, readyState)
      /\ Unused(page, readyState)
  BY <1>1 DEF Alive, Seen, BothOpen, Unused, Init
<1> QED
  BY <1>3, <1>4, <1>5, <1>7, <1>8 DEF IInv

\* A step that touches neither sockets nor commands keeps the invariant, if it
\* keeps what holds of the dialog and of the application.
LEMMA PageOnly ==
    ASSUME IInv, page' \in Pages, Quiet(page, page'),
           page'.socket = page.socket, page'.connected => page.connected,
           page'.isConnecting => page'.listening /\ page.isConnecting,
           UNCHANGED <<readyState, toServer, toClient>>
    PROVE  IInv'
<1>1. PageOK(page')
  BY DEF IInv, PageOK, CallsOK, Quiet
<1>2. TrafficOK(page', readyState, toServer, toClient)
  BY TrafficUndisturbed DEF IInv
<1>3. /\ Alive(page', readyState) /\ Seen(page', readyState)
      /\ Unused(page', readyState)
  BY DEF IInv, Alive, Seen, BothOpen, Unused
<1> QED
  BY <1>1, <1>2, <1>3 DEF IInv

\* The dialog's buttons change the dialog alone.
LEMMA OpenInvariant == ASSUME IInv, Open PROVE IInv'
BY PageOnly DEF Open, IInv, PageOK, Pages, Quiet

LEMMA CloseInvariant == ASSUME IInv, Close PROVE IInv'
BY PageOnly DEF Close, IInv, PageOK, Pages, Quiet

LEMMA CancelInvariant == ASSUME IInv, Cancel PROVE IInv'
BY PageOnly DEF Cancel, IInv, PageOK, Pages, Quiet

\* The new sockets carry nothing yet.
LEMMA ConnectInvariant == ASSUME IInv, connect PROVE IInv'
<1> USE BoundsAssumption
<1> DEFINE k == page.socket + 1
<1>1. page \in Pages /\ PageOK(page) /\ k \in Attempt
  BY DEF IInv, PageOK, Pages, connect, Attempt
<1>2. /\ page' \in Pages /\ Quiet(page, page') /\ page'.socket = k
      /\ page'.connected = page.connected /\ page'.listening
  BY <1>1 DEF connect, Pages, Quiet
<1>3. PageOK(page')
  BY <1>1, <1>2 DEF PageOK, CallsOK, Quiet
<1>4. /\ readyState' =
            [readyState EXCEPT ![k] = [bd |-> "connecting",
                                       ut |-> "connecting"]]
      /\ UNCHANGED <<toServer, toClient>>
  BY <1>2 DEF connect
<1>5. /\ readyState' \in ReadyStates
      /\ readyState'[k] = [bd |-> "connecting", ut |-> "connecting"]
      /\ \A g \in Attempt : g # k => readyState'[g] = readyState[g]
  BY <1>1, <1>4 DEF IInv, ReadyStates, ReadyState
<1>6. readyState[k].ut = "none"
  BY <1>1 DEF IInv, Unused, Pages, Attempt
<1>7. \A g \in Attempt :
            readyState[g].ut = "open" => readyState'[g].ut = "open"
  BY <1>5, <1>6
<1>8. TrafficOK(page', readyState', toServer', toClient')
  <2>1. TrafficOK(page, readyState', toServer, toClient)
    BY <1>7, TrafficElsewhere DEF IInv
  <2> QED
    BY <2>1, <1>2, <1>4, TrafficUndisturbed
<1>9. Alive(page', readyState') /\ Seen(page', readyState')
  BY <1>2, <1>5, <1>7 DEF IInv, Alive, Seen, BothOpen
<1>10. Unused(page', readyState')
  BY <1>1, <1>2, <1>5 DEF IInv, Unused, Pages, Attempt
<1> QED
  BY <1>3, <1>4, <1>5, <1>8, <1>9, <1>10 DEF IInv

\* What is left to show of a step that may send a command, once s is the page
\* before it did.
LEMMA SendingInvariant ==
    ASSUME IInv, NEW s, PageOK(s), PageOK(page'),
           Len(s.promises) = Len(page.promises),
           Quiet(s, page') \/ Created(s, page', readyState'),
           readyState' \in ReadyStates,
           NEW requests \in Messages, toServer' = Transmit(requests),
           toClient' \in Messages,
           TrafficOK(s, readyState', requests, toClient'),
           Unused(page', readyState'), Alive(page', readyState'),
           Seen(page', readyState')
    PROVE  IInv'
<1>1. /\ toServer' \in Messages
      /\ TrafficOK(page', readyState', toServer', toClient')
  BY Transmitted
<1> QED
  BY <1>1 DEF IInv

\* Whoever is connected has a socket to send on.
LEMMA ConnectedHasSocket ==
    ASSUME IInv, page.connected PROVE page.socket \in Attempt
<1>1. PICK g \in Attempt : readyState[g].ut = "open"
  BY DEF IInv, Alive
<1>2. ~(g > page.socket)
  BY <1>1 DEF IInv, Unused
<1> QED
  BY <1>2 DEF IInv, PageOK, Pages, Attempt

\* A command of the user takes the next id and goes out on the client's socket.
LEMMA UserCommandInvariant == ASSUME IInv, UserCommand PROVE IInv'
<1>1. PageOK(page) /\ page \in Pages
  BY DEF IInv, PageOK
<1>2. page.socket \in Attempt
  BY ConnectedHasSocket DEF UserCommand
<1>3. /\ PageOK(page') /\ Created(page, page', readyState)
      /\ page'.connected = page.connected
      /\ page'.isConnecting = page.isConnecting
  BY <1>1, <1>2, CommandCreated DEF UserCommand
<1>4. /\ readyState' = readyState /\ toClient' = toClient
      /\ toServer' = Transmit(toServer)
  BY DEF UserCommand
<1>5. /\ Alive(page', readyState') /\ Seen(page', readyState')
      /\ Unused(page', readyState')
  BY <1>3, <1>4 DEF IInv, Alive, Seen, BothOpen, Unused, Created
<1> QED
  BY <1>1, <1>3, <1>4, <1>5, SendingInvariant DEF IInv

\* Whichever socket opens second, the dialog is told of both.
LEMMA BdOpensInvariant ==
    ASSUME IInv, NEW g \in Attempt, SocketBdOpens(g) PROVE IInv'
<1>1. PageOK(page) /\ readyState \in ReadyStates
  BY DEF IInv
<1>2. /\ PageOK(page') /\ page'.socket = page.socket
      /\ page'.connected = page.connected
      /\ Quiet(page, page') \/ Created(page, page', readyState')
      /\ Seen(page', readyState')
  BY <1>1, StateUpdated DEF SocketBdOpens
<1>3. /\ readyState' \in ReadyStates
      /\ \A h \in Attempt : readyState'[h].ut = readyState[h].ut
      /\ toServer' = Transmit(toServer) /\ toClient' = toClient
  BY <1>1 DEF SocketBdOpens, ReadyStates, ReadyState
<1>4. TrafficOK(page, readyState', toServer, toClient)
  BY <1>3, TrafficElsewhere DEF IInv
<1>5. Alive(page', readyState') /\ Unused(page', readyState')
  BY <1>2, <1>3 DEF IInv, Alive, Unused
<1> QED
  BY <1>1, <1>2, <1>3, <1>4, <1>5, SendingInvariant DEF IInv

LEMMA UtOpensInvariant ==
    ASSUME IInv, NEW g \in Attempt, SocketUtOpens(g) PROVE IInv'
<1>1. PageOK(page) /\ readyState \in ReadyStates
  BY DEF IInv
<1>2. /\ PageOK(page') /\ page'.socket = page.socket
      /\ page'.connected = page.connected
      /\ Quiet(page, page') \/ Created(page, page', readyState')
      /\ Seen(page', readyState')
  BY <1>1, StateUpdated DEF SocketUtOpens
<1>3. /\ readyState' \in ReadyStates
      /\ readyState[g].ut = "connecting" /\ readyState'[g].ut = "open"
      /\ \A h \in Attempt : h # g => readyState'[h].ut = readyState[h].ut
      /\ toServer' = Transmit(toServer) /\ toClient' = toClient
  BY <1>1 DEF SocketUtOpens, ReadyStates, ReadyState
<1>4. TrafficOK(page, readyState', toServer, toClient)
  BY <1>3, TrafficElsewhere DEF IInv
<1>5. Alive(page', readyState') /\ Unused(page', readyState')
  BY <1>2, <1>3 DEF IInv, Alive, Unused
<1> QED
  BY <1>1, <1>2, <1>3, <1>4, <1>5, SendingInvariant DEF IInv

\* "error" changes the dialog alone.
LEMMA ErrorReported ==
    ASSUME NEW s, PageOK(s), NEW failed \in BOOLEAN
    PROVE  LET t == IF failed THEN Error(s) ELSE s
           IN  /\ PageOK(t) /\ Quiet(s, t) /\ t.socket = s.socket
               /\ t.connected = s.connected
               /\ t.isConnecting => s.isConnecting
<1>1. CASE failed /\ s.listening
  <2>1. Error(s) = [s EXCEPT !.isConnecting = FALSE, !.listening = FALSE]
    BY <1>1 DEF Error
  <2>2. /\ Error(s) \in Pages /\ Quiet(s, Error(s))
        /\ Error(s).socket = s.socket /\ Error(s).connected = s.connected
        /\ ~Error(s).isConnecting
    BY <2>1 DEF PageOK, Pages, Quiet
  <2> QED
    BY <1>1, <2>2 DEF PageOK, CallsOK, Quiet
<1>2. CASE ~(failed /\ s.listening)
  BY <1>2 DEF Error, Quiet
<1> QED
  BY <1>1, <1>2

\* Nothing was on its way on a binary socket, and what was open before may at
\* most not be any more.
LEMMA BdClosesInvariant ==
    ASSUME IInv, NEW g \in Attempt, NEW failed \in BOOLEAN,
           SocketBdCloses(g, failed)
    PROVE  IInv'
<1>1. PageOK(page) /\ readyState \in ReadyStates
  BY DEF IInv
<1>2. /\ PageOK(page') /\ Quiet(page, page')
      /\ page'.socket = page.socket /\ page'.connected = page.connected
      /\ page'.isConnecting => page.isConnecting
  BY <1>1, ErrorReported DEF SocketBdCloses
<1>3. /\ readyState' \in ReadyStates
      /\ \A h \in Attempt : readyState'[h].ut = readyState[h].ut
      /\ readyState'[g].bd = "closed"
      /\ \A h \in Attempt : h # g => readyState'[h] = readyState[h]
      /\ UNCHANGED <<toServer, toClient>>
  BY <1>1 DEF SocketBdCloses, ReadyStates, ReadyState
<1>4. TrafficOK(page', readyState', toServer, toClient)
  <2>1. TrafficOK(page, readyState', toServer, toClient)
    BY <1>3, TrafficElsewhere DEF IInv
  <2> QED
    BY <2>1, <1>2, TrafficUndisturbed
<1>5. Alive(page', readyState') /\ Unused(page', readyState')
  BY <1>2, <1>3 DEF IInv, Alive, Unused
<1>6. Seen(page', readyState')
  <2>1. page.socket \in Attempt \cup {0}
    BY <1>1 DEF PageOK, Pages
  <2> QED
    BY <2>1, <1>2, <1>3 DEF IInv, Seen, BothOpen
<1> QED
  BY <1>2, <1>3, <1>4, <1>5, <1>6 DEF IInv

\* "disconnected" leaves the calls as they are.
LEMMA DisconnectionReported ==
    ASSUME NEW s, PageOK(s), NEW failed \in BOOLEAN
    PROVE  LET t == Disconnected(IF failed THEN Error(s) ELSE s)
           IN  /\ PageOK(t) /\ Quiet(s, t) /\ t.socket = s.socket
               /\ ~t.connected
<1> DEFINE told == IF failed THEN Error(s) ELSE s
           t == Disconnected(told)
<1>1. PageOK(told) /\ Quiet(s, told) /\ told.socket = s.socket
  BY ErrorReported
<1> HIDE DEF told
<1>2. t = [told EXCEPT !.connected = FALSE, !.networkActive = FALSE]
  BY DEF Disconnected
<1>3. /\ t \in Pages /\ Quiet(told, t) /\ t.socket = told.socket
      /\ ~t.connected /\ t.isConnecting = told.isConnecting
      /\ t.listening = told.listening
  BY <1>1, <1>2 DEF PageOK, Pages, Quiet
<1> HIDE DEF t
<1>4. PageOK(t) /\ Quiet(s, t) /\ t.socket = s.socket /\ ~t.connected
  BY <1>1, <1>3 DEF PageOK, CallsOK, Quiet
<1> QED
  BY <1>4 DEF t, told

\* What was on its way is lost; what the client asks next goes out on the sockets
\* it holds, if they are still open.
LEMMA UtClosesInvariant ==
    ASSUME IInv, NEW g \in Attempt, NEW failed \in BOOLEAN,
           SocketUtCloses(g, failed)
    PROVE  IInv'
<1> DEFINE told == IF failed THEN Error(page) ELSE page
           s == Disconnected(told)
           requests == [toServer EXCEPT ![g] = <<>>]
<1>1. PageOK(page) /\ readyState \in ReadyStates
  BY DEF IInv
<1>2. PageOK(s) /\ Quiet(page, s) /\ s.socket = page.socket /\ ~s.connected
  BY <1>1, DisconnectionReported
<1>3. /\ readyState' \in ReadyStates
      /\ MayClose(readyState[g].ut, failed)
      /\ \A h \in Attempt : h # g => readyState'[h].ut = readyState[h].ut
      /\ page' = maybeUpdateState(s, readyState')
      /\ toServer' = Transmit(requests)
      /\ toClient' = [toClient EXCEPT ![g] = <<>>]
  BY <1>1 DEF SocketUtCloses, ReadyStates, ReadyState
<1> HIDE DEF told, s
<1>4. /\ PageOK(page') /\ page'.socket = page.socket
      /\ ~page'.connected
      /\ Quiet(s, page') \/ Created(s, page', readyState')
      /\ Seen(page', readyState')
  BY <1>2, <1>3, StateUpdated
<1>5. /\ requests \in Messages /\ toClient' \in Messages
      /\ TrafficOK(s, readyState', requests, toClient')
  <2>1. TrafficOK(s, readyState, toServer, toClient)
    BY <1>2, TrafficUndisturbed DEF IInv
  <2>2. \A h \in Attempt \ {g} : readyState'[h].ut = readyState[h].ut
    BY <1>3
  <2> QED
    BY <2>1, <2>2, <1>3, TrafficLost DEF IInv
<1>6. Alive(page', readyState') /\ Unused(page', readyState')
  BY <1>3, <1>4 DEF IInv, Alive, Unused, MayClose
<1>7. Len(s.promises) = Len(page.promises)
  BY <1>2 DEF Quiet
<1> HIDE DEF requests
<1> QED
  BY <1>2, <1>3, <1>4, <1>5, <1>6, <1>7, SendingInvariant

\* A thrown handler loses the request; otherwise the answer is on its way.
LEMMA HandlesInvariant ==
    ASSUME IInv, NEW g \in Attempt, NEW throws \in BOOLEAN,
           ServerHandles(g, throws)
    PROVE  IInv'
<1> DEFINE fewer == [toServer EXCEPT ![g] = Tail(@)]
           more == [toClient EXCEPT ![g] = Append(@, Head(toServer[g]))]
<1>1. /\ toServer[g] # <<>>
      /\ toServer \in Messages /\ toClient \in Messages
      /\ TrafficOK(page, readyState, toServer, toClient)
  BY DEF ServerHandles, IInv
<1>2. /\ toServer' = fewer
      /\ toClient' = IF throws THEN toClient ELSE more
      /\ UNCHANGED <<page, readyState>>
  BY DEF ServerHandles
<1>3. /\ fewer \in Messages /\ more \in Messages
      /\ TrafficOK(page, readyState, fewer, more)
  BY <1>1, Handling, TRUE \in BOOLEAN
<1>4. TrafficOK(page, readyState, fewer, toClient)
  BY <1>1, Handling, FALSE \in BOOLEAN
<1> HIDE DEF fewer, more
<1>5. /\ toServer' \in Messages /\ toClient' \in Messages
      /\ TrafficOK(page, readyState, toServer', toClient')
  <2>1. CASE throws
    BY <2>1, <1>1, <1>2, <1>3, <1>4
  <2>2. CASE ~throws
    BY <2>2, <1>1, <1>2, <1>3
  <2> QED
    BY <2>1, <2>2
<1> QED
  BY <1>2, <1>5 DEF IInv

\* An answer resolves its promise; whoever waited for it may ask for more.
LEMMA AnswerTaken ==
    ASSUME IInv, NEW g \in Attempt, OnMessage(g)
    PROVE  LET m == Head(toClient[g])
               s == Resolve(page, m)
           IN  /\ toClient[g] # <<>> /\ readyState' = readyState
               /\ toClient' = [toClient EXCEPT ![g] = Tail(@)]
               /\ toServer' = Transmit(toServer)
               /\ PageOK(s) /\ Len(s.promises) = Len(page.promises)
               /\ readyState[g].ut = "open" /\ toClient' \in Messages
               /\ TrafficOK(s, readyState, toServer, toClient')
               /\ PageOK(page') /\ page'.socket = page.socket
               /\ page'.isConnecting = page.isConnecting
               /\ Quiet(s, page') \/ Created(s, page', readyState')
<1> DEFINE m == Head(toClient[g])
           s == Resolve(page, m)
           p == page.commandResponseMap[m.id]
<1>1. PageOK(page) /\ readyState \in ReadyStates
  BY DEF IInv
<1>2. /\ toClient[g] # <<>> /\ readyState' = readyState
      /\ toClient' = [toClient EXCEPT ![g] = Tail(@)]
      /\ toServer' = Transmit(toServer)
  BY DEF OnMessage
<1>3. /\ m.id \in DOMAIN page.commandResponseMap
      /\ readyState[g].ut = "open"
      /\ PageOK(s) /\ Len(s.promises) = Len(page.promises)
      /\ s.socket = page.socket /\ s.connected = page.connected
      /\ s.isConnecting = page.isConnecting
      /\ toClient' \in Messages
      /\ TrafficOK(s, readyState, toServer, toClient')
  <2> DEFINE fewer == [toClient EXCEPT ![g] = Tail(@)]
  <2>1. /\ toServer \in Messages /\ toClient \in Messages
        /\ TrafficOK(page, readyState, toServer, toClient)
        /\ PageOK(page) /\ toClient[g] # <<>>
    BY <1>1, <1>2 DEF IInv
  <2>2. /\ m.id \in DOMAIN page.commandResponseMap
        /\ readyState[g].ut = "open"
        /\ PageOK(s) /\ Len(s.promises) = Len(page.promises)
        /\ s.socket = page.socket /\ s.connected = page.connected
        /\ s.isConnecting = page.isConnecting
        /\ fewer \in Messages
        /\ TrafficOK(s, readyState, toServer, fewer)
    BY <2>1, Resolving
  <2>3. toClient' = fewer
    BY <1>2
  <2> HIDE DEF m, s, fewer
  <2> QED
    BY <2>2, <2>3
<1>4. page' \in Then(s, p)
  BY <1>3 DEF OnMessage
<1> HIDE DEF m, s, p
<1>5. s.socket \in Attempt
  <2>1. ~(g > page.socket)
    BY <1>3 DEF IInv, Unused
  <2> QED
    BY <2>1, <1>1, <1>3 DEF PageOK, Pages, Attempt
<1>6. \/ page' = [s EXCEPT !.connected = TRUE]
      \/ page' = s
      \/ page' = CreateCommandPromise(s, readyState, "other")
  BY <1>4 DEF Then
<1>7. /\ PageOK(page') /\ page'.socket = page.socket
      /\ page'.isConnecting = page.isConnecting
      /\ Quiet(s, page') \/ Created(s, page', readyState)
  <2>1. CASE page' = [s EXCEPT !.connected = TRUE]
    <3>1. /\ page' \in Pages /\ Quiet(s, page') /\ page'.socket = s.socket
          /\ page'.isConnecting = s.isConnecting
          /\ page'.listening = s.listening
      BY <2>1, <1>3 DEF PageOK, Pages, Quiet
    <3> QED
      BY <3>1, <1>3 DEF PageOK, CallsOK, Quiet
  <2>2. CASE page' = s
    BY <2>2, <1>3 DEF Quiet
  <2>3. CASE page' = CreateCommandPromise(s, readyState, "other")
    BY <2>3, <1>3, <1>5, CommandCreated DEF Created
  <2> QED
    BY <1>6, <2>1, <2>2, <2>3
<1> QED
  BY <1>2, <1>3, <1>7 DEF m, s

\* What the answer leaves on the sockets is of other promises.
LEMMA OnMessageInvariant ==
    ASSUME IInv, NEW g \in Attempt, OnMessage(g) PROVE IInv'
<1> DEFINE s == Resolve(page, Head(toClient[g]))
<1>1. readyState \in ReadyStates /\ toServer \in Messages
  BY DEF IInv
<1>2. /\ readyState' = readyState /\ toServer' = Transmit(toServer)
      /\ PageOK(s) /\ Len(s.promises) = Len(page.promises)
      /\ readyState[g].ut = "open" /\ toClient' \in Messages
      /\ TrafficOK(s, readyState, toServer, toClient')
      /\ PageOK(page') /\ page'.socket = page.socket
      /\ page'.isConnecting = page.isConnecting
      /\ Quiet(s, page') \/ Created(s, page', readyState')
  BY AnswerTaken
<1> HIDE DEF s
<1>3. /\ Alive(page', readyState') /\ Unused(page', readyState')
      /\ Seen(page', readyState')
  BY <1>2 DEF IInv, Alive, Unused, Seen, BothOpen
<1> QED
  BY <1>1, <1>2, <1>3, SendingInvariant

\* Every step of the client, its sockets and the server keeps the invariant.
THEOREM NextInvariant ==
    ASSUME IInv, [Next]_vars PROVE IInv'
<1>1. CASE User
  BY <1>1, OpenInvariant, CloseInvariant, ConnectInvariant, CancelInvariant,
     UserCommandInvariant DEF User
<1>2. ASSUME NEW g \in Attempt,
             \/ SocketBdOpens(g) \/ SocketUtOpens(g)
             \/ \E failed \in BOOLEAN :
                SocketBdCloses(g, failed) \/ SocketUtCloses(g, failed)
             \/ Handled(g) \/ OnMessage(g)
      PROVE  IInv'
  <2>1. CASE SocketBdOpens(g)
    BY <2>1, BdOpensInvariant
  <2>2. CASE SocketUtOpens(g)
    BY <2>2, UtOpensInvariant
  <2>3. CASE \E failed \in BOOLEAN :
                SocketBdCloses(g, failed) \/ SocketUtCloses(g, failed)
    BY <2>3, BdClosesInvariant, UtClosesInvariant
  <2>4. CASE Handled(g)
    BY <2>4, HandlesInvariant DEF Handled
  <2>5. CASE OnMessage(g)
    BY <2>5, OnMessageInvariant
  <2> QED
    BY <1>2, <2>1, <2>2, <2>3, <2>4, <2>5
<1>3. CASE UNCHANGED vars
  <2>1. UNCHANGED <<page, readyState, toServer, toClient>>
    BY <1>3 DEF vars
  <2> QED
    BY <2>1 DEF IInv
<1> QED
  BY <1>1, <1>2, <1>3 DEF Next

\* The invariant holds however many connections and commands there are.
THEOREM Invariant == Spec => []IInv
<1>1. Init => IInv
  BY InitInvariant
<1>2. IInv /\ [Next]_vars => IInv'
  BY NextInvariant
<1> QED
  BY <1>1, <1>2, PTL DEF Spec

-----------------------------------------------------------------------------
(* What follows from it.                                                   *)

\* The state of the page, of its sockets and of what they carry has its type:
\* no callback is kept under an id that was not given out, nor for a promise
\* that was not made.
THEOREM TypesAreCorrect == Spec => []TypeOK
<1>1. ASSUME IInv PROVE TypeOK
  <2>1. page \in Pages /\ CallsOK(page)
    BY <1>1 DEF IInv, PageOK
  <2>2. PICK ids \in SUBSET Nat :
            page.commandResponseMap = [i \in ids |-> i]
    BY <2>1 DEF Pages, Callbacks
  <2>3. /\ page.promises \in Seq(PromiseState)
        /\ page.messageIndex = Len(page.promises)
        /\ DOMAIN page.commandResponseMap \subseteq 1 .. Len(page.promises)
    BY <2>1 DEF Pages, CallsOK
  <2>4. DOMAIN page.promises = 1 .. Len(page.promises)
    BY <2>3
  <2>5. \A i \in DOMAIN page.commandResponseMap :
            page.commandResponseMap[i] \in DOMAIN page.promises
    BY <2>2, <2>3, <2>4
  <2>6. /\ page.socket \in Attempt \cup {0}
        /\ {page.connected, page.networkActive, page.open, page.isConnecting,
            page.listening} \subseteq BOOLEAN
    BY <2>1 DEF Pages
  <2> QED
    BY <1>1, <2>3, <2>5, <2>6 DEF IInv, TypeOK, ReadyStates, Messages
<1> QED
  BY <1>1, Invariant, PTL

\* An answer, however late and on whichever socket, resolves the promise of the
\* command that it answers: _newMessageId gives every id once.
THEOREM AnswersOwnCommandAlways == Spec => []AnswersOwnCommand
<1>1. ASSUME IInv PROVE AnswersOwnCommand
  <2>1. CallsOK(page) /\ page.promises \in Seq(PromiseState)
    BY <1>1 DEF IInv, PageOK, Pages
  <2> QED
    BY <2>1 DEF CallsOK, AnswersOwnCommand
<1> QED
  BY <1>1, Invariant, PTL

\* onmessage finds a callback, and of a promise still pending, for every answer
\* that is on its way or that the server may still send.
THEOREM CallbackKeptAlways == Spec => []CallbackKept
<1>1. ASSUME IInv PROVE CallbackKept
  <2>1. /\ toServer \in Messages /\ toClient \in Messages
        /\ Carried(page, readyState, toServer)
        /\ Carried(page, readyState, toClient)
    BY <1>1 DEF IInv, TrafficOK
  <2>2. PICK ids \in SUBSET Nat :
            page.commandResponseMap = [i \in ids |-> i]
    BY <1>1 DEF IInv, PageOK, Pages, Callbacks
  <2>3. ASSUME NEW queues \in Messages, Carried(page, readyState, queues),
               NEW g \in Attempt, NEW i \in DOMAIN queues[g]
        PROVE  HasCallback(queues[g][i])
    <3>1. i \in 1 .. Len(queues[g])
      BY <2>3 DEF Messages
    <3>2. /\ queues[g][i].id \in DOMAIN page.commandResponseMap
          /\ page.promises[queues[g][i].id].state = "pending"
      BY <2>3, <3>1 DEF Carried
    <3> QED
      BY <3>2, <2>2 DEF HasCallback
  <2> QED
    BY <2>1, <2>3 DEF CallbackKept
<1> QED
  BY <1>1, Invariant, PTL

\* The application says it is connected only while a text socket is open.
ConnectedMeansAlive ==
    page.connected => \E g \in Attempt : readyState[g].ut = "open"

\* The application never says it is connected when every text socket is closed,
\* although onDisconnect does not ask which socket it was that closed.
THEOREM ConnectedMeansAliveAlways == Spec => []ConnectedMeansAlive
<1>1. ASSUME IInv PROVE ConnectedMeansAlive
  BY <1>1 DEF IInv, Alive, ConnectedMeansAlive
<1> QED
  BY <1>1, Invariant, PTL

\* The dialog never says "Connecting..." once both sockets of the client are
\* open, in whichever order they opened and whatever former ones do.
THEOREM OpenEndsConnectingAlways == Spec => []OpenEndsConnecting
<1>1. ASSUME IInv PROVE OpenEndsConnecting
  BY <1>1 DEF IInv, Seen, OpenEndsConnecting
<1> QED
  BY <1>1, Invariant, PTL

-----------------------------------------------------------------------------
(* Client implements RemoteCall: every step of the client, of its sockets   *)
(* or of the server is a step of the remote calls, or none at all.         *)

\* The calls as RemoteCall sees them.
States(s) == [p \in DOMAIN s.promises |-> s.promises[p].state]

-----------------------------------------------------------------------------
(* The commands on the sockets.                                            *)

\* A command is on its way if some message of some socket is about it.
LEMMA OnSomeSocket ==
    ASSUME NEW queues \in Messages, NEW c
    PROVE  c \in CommandsOn(queues) <=>
            \E g \in Attempt : \E i \in 1 .. Len(queues[g]) :
                queues[g][i].about = c
<1>1. \A g \in Attempt : DOMAIN queues[g] = 1 .. Len(queues[g])
  BY DEF Messages
<1> QED
  BY <1>1 DEF CommandsOn

\* A socket that closes takes its messages with it, and no others.
LEMMA FewerOn ==
    ASSUME NEW queues \in Messages, NEW g \in Attempt
    PROVE  LET fewer == [queues EXCEPT ![g] = <<>>]
           IN  CommandsOn(fewer) \subseteq CommandsOn(queues)
<1> DEFINE fewer == [queues EXCEPT ![g] = <<>>]
<1>1. fewer \in Messages
  BY DEF Messages
<1>2. Len(fewer[g]) = 0 /\ \A h \in Attempt \ {g} : fewer[h] = queues[h]
  BY DEF Messages
<1> HIDE DEF fewer
<1>3. ASSUME NEW c \in CommandsOn(fewer) PROVE c \in CommandsOn(queues)
  <2>0. PICK h \in Attempt :
            \E i \in 1 .. Len(fewer[h]) : fewer[h][i].about = c
    BY <1>1, OnSomeSocket
  <2>1. PICK i \in 1 .. Len(fewer[h]) : fewer[h][i].about = c
    BY <2>0
  <2>2. h # g
    BY <1>2
  <2> QED
    BY <2>1, <2>2, <1>2, OnSomeSocket
<1> QED
  BY <1>3 DEF fewer

\* Taking the oldest message takes its command off the sockets.
LEMMA OneLessOn ==
    ASSUME NEW queues \in Messages, NEW g \in Attempt, queues[g] # <<>>,
           NEW s, NEW ready, Once(queues), Carried(s, ready, queues)
    PROVE  LET m == Head(queues[g])
               fewer == [queues EXCEPT ![g] = Tail(@)]
           IN  /\ m.about \in CommandsOn(queues)
               /\ CommandsOn(fewer) = CommandsOn(queues) \ {m.about}
<1> DEFINE m == Head(queues[g])
           fewer == [queues EXCEPT ![g] = Tail(@)]
<1>1. /\ 1 \in 1 .. Len(queues[g]) /\ m = queues[g][1]
      /\ fewer \in Messages /\ Without(fewer, m.id) /\ Within(fewer, queues)
  BY Shortened
<1>2. /\ Len(queues[g]) \in Nat /\ Len(fewer[g]) = Len(queues[g]) - 1
      /\ \A i \in 1 .. Len(fewer[g]) : fewer[g][i] = queues[g][i + 1]
      /\ \A h \in Attempt \ {g} : fewer[h] = queues[h]
  BY DEF Messages
<1> HIDE DEF m, fewer
<1>3. \A h \in Attempt : \A i \in 1 .. Len(queues[h]) :
        queues[h][i].about = queues[h][i].id
  BY DEF Carried
<1>4. m.about = m.id /\ m.about \in CommandsOn(queues)
  BY <1>1, <1>3, OnSomeSocket
<1>5. ASSUME NEW c \in CommandsOn(fewer)
      PROVE  c \in CommandsOn(queues) /\ c # m.about
  <2>0. PICK h \in Attempt :
            \E i \in 1 .. Len(fewer[h]) : fewer[h][i].about = c
    BY <1>1, OnSomeSocket
  <2>1. PICK i \in 1 .. Len(fewer[h]) : fewer[h][i].about = c
    BY <2>0
  <2>2. PICK j \in 1 .. Len(queues[h]) : fewer[h][i] = queues[h][j]
    BY <1>1 DEF Within
  <2>3. fewer[h][i].id # m.id
    BY <1>1 DEF Without
  <2> QED
    BY <2>1, <2>2, <2>3, <1>3, <1>4, OnSomeSocket
<1>6. ASSUME NEW c \in CommandsOn(queues), c # m.about
      PROVE  c \in CommandsOn(fewer)
  <2>0. PICK h \in Attempt :
            \E i \in 1 .. Len(queues[h]) : queues[h][i].about = c
    BY OnSomeSocket
  <2>1. PICK i \in 1 .. Len(queues[h]) : queues[h][i].about = c
    BY <2>0
  <2>2. CASE h = g
    <3>1. i # 1 /\ i - 1 \in 1 .. Len(fewer[g])
      BY <2>1, <2>2, <1>1, <1>2, <1>6
    <3>2. fewer[g][i - 1] = queues[g][i]
      BY <3>1, <2>2, <1>2
    <3> QED
      BY <3>1, <3>2, <2>1, <2>2, <1>1, OnSomeSocket
  <2>3. CASE h # g
    BY <2>1, <2>3, <1>1, <1>2, OnSomeSocket
  <2> QED
    BY <2>2, <2>3
<1> QED
  BY <1>4, <1>5, <1>6 DEF m, fewer

\* Putting a message on a socket puts its command there.
LEMMA OneMoreOn ==
    ASSUME NEW queues \in Messages, NEW g \in Attempt, NEW m \in Message
    PROVE  LET more == [queues EXCEPT ![g] = Append(@, m)]
           IN  CommandsOn(more) = CommandsOn(queues) \cup {m.about}
<1> DEFINE more == [queues EXCEPT ![g] = Append(@, m)]
<1>1. /\ more \in Messages /\ Len(queues[g]) \in Nat
      /\ Len(more[g]) = Len(queues[g]) + 1
      /\ more[g][Len(queues[g]) + 1] = m
      /\ \A i \in 1 .. Len(queues[g]) : more[g][i] = queues[g][i]
      /\ \A h \in Attempt \ {g} : more[h] = queues[h]
  BY DEF Messages
<1> HIDE DEF more
<1>2. ASSUME NEW c \in CommandsOn(more)
      PROVE  c \in CommandsOn(queues) \cup {m.about}
  <2>0. PICK h \in Attempt :
            \E i \in 1 .. Len(more[h]) : more[h][i].about = c
    BY <1>1, OnSomeSocket
  <2>1. PICK i \in 1 .. Len(more[h]) : more[h][i].about = c
    BY <2>0
  <2>2. CASE h = g /\ i = Len(queues[g]) + 1
    BY <2>1, <2>2, <1>1
  <2>3. CASE ~(h = g /\ i = Len(queues[g]) + 1)
    <3>1. i \in 1 .. Len(queues[h]) /\ queues[h][i] = more[h][i]
      BY <2>3, <1>1
    <3> QED
      BY <2>1, <3>1, OnSomeSocket
  <2> QED
    BY <2>2, <2>3
<1>3. ASSUME NEW c \in CommandsOn(queues) PROVE c \in CommandsOn(more)
  <2>0. PICK h \in Attempt :
            \E i \in 1 .. Len(queues[h]) : queues[h][i].about = c
    BY OnSomeSocket
  <2>1. PICK i \in 1 .. Len(queues[h]) : queues[h][i].about = c
    BY <2>0
  <2>2. i \in 1 .. Len(more[h]) /\ more[h][i] = queues[h][i]
    BY <1>1
  <2> QED
    BY <2>1, <2>2, <1>1, OnSomeSocket
<1>4. m.about \in CommandsOn(more)
  <2>1. Len(queues[g]) + 1 \in 1 .. Len(more[g])
    BY <1>1
  <2> QED
    BY <2>1, <1>1, OnSomeSocket
<1> QED
  BY <1>2, <1>3, <1>4 DEF more

-----------------------------------------------------------------------------
(* The steps.                                                              *)

\* The calls are those of the page, under their numbers.
LEMMA StatesOfPage ==
    ASSUME NEW s, PageOK(s)
    PROVE  /\ Len(s.promises) \in Nat
           /\ States(s) = [p \in 1 .. Len(s.promises) |-> s.promises[p].state]
           /\ States(s) \in Seq({"pending", "resolved", "rejected"})
           /\ Len(States(s)) = Len(s.promises)
<1>1. /\ s.promises \in Seq(PromiseState) /\ Len(s.promises) \in Nat
      /\ DOMAIN s.promises = 1 .. Len(s.promises)
  BY DEF PageOK, Pages
<1>2. ASSUME NEW p \in 1 .. Len(s.promises)
      PROVE  s.promises[p].state \in {"pending", "resolved", "rejected"}
  <2>1. s.promises[p] \in PromiseState
    BY <1>1
  <2> QED
    BY <2>1 DEF PromiseState
<1> QED
  BY <1>1, <1>2 DEF States

\* MakeOneMore, of states before and after it.
OneMoreMade(made, requests, madeNow, requestsNow) ==
    \/ madeNow = made /\ requestsNow = requests
    \/ madeNow = Append(made, "rejected") /\ requestsNow = requests
    \/ /\ madeNow = Append(made, "pending")
       /\ requestsNow \in {requests, requests \cup {Len(made) + 1}}

\* A command sent in a step is one more call: rejected, or pending and on its
\* way if its socket is open.
LEMMA MakesOneMore ==
    ASSUME NEW s, PageOK(s), PageOK(page'),
           Len(s.promises) = Len(page.promises),
           Quiet(s, page') \/ Created(s, page', readyState'),
           NEW requests \in Messages, toServer' = Transmit(requests)
    PROVE  OneMoreMade(States(s), CommandsOn(requests),
                       States(page'), CommandsOn(toServer'))
<1> DEFINE id == Len(page'.promises)
           k == page'.socket
           state == page'.promises[id].state
           message == [id |-> page'.messageIndex, about |-> id]
           more == [requests EXCEPT ![k] = Append(@, message)]
<1>1. Len(s.promises) \in Nat /\ id \in Nat /\ page'.messageIndex = id
  BY DEF PageOK, Pages, CallsOK
<1>2. CASE Quiet(s, page')
  <2>1. toServer' = requests
    BY <1>1, <1>2 DEF Transmit, Quiet
  <2>2. States(page') = States(s)
    BY <1>2 DEF Quiet, States
  <2> QED
    BY <2>1, <2>2 DEF OneMoreMade
<1>3. CASE Created(s, page', readyState')
  <2>1. /\ k \in Attempt /\ id = Len(s.promises) + 1
        /\ state \in {"pending", "rejected"}
        /\ readyState'[k].ut = "open" => state = "pending"
        /\ \A p \in 1 .. Len(s.promises) : page'.promises[p] = s.promises[p]
    BY <1>3 DEF Created
  <2>2. States(page') = Append(States(s), state)
    <3>1. /\ States(s) = [p \in 1 .. Len(s.promises) |-> s.promises[p].state]
          /\ States(s) \in Seq({"pending", "resolved", "rejected"})
          /\ Len(States(s)) = Len(s.promises)
      BY StatesOfPage
    <3>2. States(page') = [p \in 1 .. id |-> page'.promises[p].state]
      BY StatesOfPage
    <3> HIDE DEF k, id, state
    <3>3. Append(States(s), state) =
            [p \in 1 .. id |-> IF p = id THEN state ELSE States(s)[p]]
      BY <3>1, <2>1, <1>1
    <3>4. \A p \in 1 .. id : p # id => page'.promises[p].state = States(s)[p]
      BY <3>1, <2>1, <1>1
    <3> QED
      BY <3>2, <3>3, <3>4 DEF state
  <2>3. Len(States(s)) + 1 = id
    BY <2>1, StatesOfPage
  <2>4. CASE readyState'[k].ut = "open"
    <3>1. toServer' = more
      BY <2>1, <2>4, <1>1 DEF Transmit
    <3>2. message \in Message /\ message.about = id
      BY <1>1 DEF Message
    <3> HIDE DEF message
    <3>3. CommandsOn(more) = CommandsOn(requests) \cup {id}
      BY <2>1, <3>2, OneMoreOn
    <3> HIDE DEF more, id, state, k
    <3> QED
      BY <2>1, <2>2, <2>3, <2>4, <3>1, <3>3 DEF OneMoreMade
  <2>5. CASE readyState'[k].ut # "open"
    <3>1. toServer' = requests
      BY <2>5 DEF Transmit
    <3> HIDE DEF id, state, k
    <3> QED
      BY <2>1, <2>2, <3>1 DEF OneMoreMade
  <2> QED
    BY <2>4, <2>5
<1> QED
  BY <1>2, <1>3

\* The dialog, and binary sockets that close, make no calls.
LEMMA QuietSteps ==
    ASSUME IInv,
           \/ Open \/ Close \/ connect \/ Cancel
           \/ \E g \in Attempt, failed \in BOOLEAN : SocketBdCloses(g, failed)
    PROVE  UNCHANGED Calls!callVars
<1>1. PageOK(page) /\ page \in Pages
  BY DEF IInv, PageOK
<1>2. page'.promises = page.promises
  <2>1. CASE Open \/ Close \/ connect \/ Cancel
    BY <2>1, <1>1 DEF Open, Close, connect, Cancel, Pages
  <2>2. ASSUME NEW g \in Attempt, NEW failed \in BOOLEAN,
               SocketBdCloses(g, failed)
        PROVE  page'.promises = page.promises
    BY <2>2, <1>1, ErrorReported DEF SocketBdCloses, Quiet
  <2> QED
    BY <2>1, <2>2
<1>3. UNCHANGED <<toServer, toClient>>
  BY DEF Open, Close, connect, Cancel, SocketBdCloses
<1> QED
  BY <1>2, <1>3 DEF Calls!callVars

\* A command of the user, or the one that greets the server.
LEMMA MakingSteps ==
    ASSUME IInv,
           \/ UserCommand
           \/ \E g \in Attempt : SocketBdOpens(g) \/ SocketUtOpens(g)
    PROVE  Calls!Make
<1>1. /\ PageOK(page) /\ readyState \in ReadyStates
      /\ toServer \in Messages
  BY DEF IInv
<1>2. toServer' = Transmit(toServer) /\ toClient' = toClient
  BY DEF UserCommand, SocketBdOpens, SocketUtOpens
<1>3. PageOK(page') /\ (Quiet(page, page') \/ Created(page, page', readyState'))
  <2>1. CASE UserCommand
    <3>1. page.socket \in Attempt
      BY <2>1, ConnectedHasSocket DEF UserCommand
    <3> QED
      BY <2>1, <3>1, <1>1, CommandCreated DEF UserCommand
  <2>2. CASE \E g \in Attempt : SocketBdOpens(g) \/ SocketUtOpens(g)
    BY <2>2, <1>1, StateUpdated DEF SocketBdOpens, SocketUtOpens
  <2> QED
    BY <2>1, <2>2
<1>4. OneMoreMade(States(page), CommandsOn(toServer),
                  States(page'), CommandsOn(toServer'))
  BY <1>1, <1>2, <1>3, MakesOneMore, SMTT(30)
<1> QED
  BY <1>2, <1>4 DEF Calls!Make, Calls!MakeOneMore, OneMoreMade, States

\* A text socket that closes may lose calls on their way, and answers; the page
\* may greet the server again.
LEMMA ClosingStep ==
    ASSUME IInv, NEW g \in Attempt, NEW failed \in BOOLEAN,
           SocketUtCloses(g, failed)
    PROVE  Calls!Lose
<1> DEFINE s == Disconnected(IF failed THEN Error(page) ELSE page)
           requests == [toServer EXCEPT ![g] = <<>>]
<1>1. PageOK(page) /\ toServer \in Messages /\ toClient \in Messages
  BY DEF IInv
<1>2. /\ page' = maybeUpdateState(s, readyState')
      /\ toServer' = Transmit(requests)
      /\ toClient' = [toClient EXCEPT ![g] = <<>>]
  BY DEF SocketUtCloses
<1>3. PageOK(s) /\ Quiet(page, s)
  BY <1>1, DisconnectionReported
<1>4. requests \in Messages
  BY <1>1 DEF Messages
<1>5. /\ CommandsOn(requests) \subseteq CommandsOn(toServer)
      /\ CommandsOn(toClient') \subseteq CommandsOn(toClient)
  BY <1>1, <1>2, FewerOn
<1> HIDE DEF s, requests
<1>6. PageOK(page') /\ (Quiet(s, page') \/ Created(s, page', readyState'))
  BY <1>2, <1>3, StateUpdated
<1>7. States(s) = States(page) /\ Len(s.promises) = Len(page.promises)
  BY <1>3 DEF Quiet, States
<1>8. OneMoreMade(States(page), CommandsOn(requests),
                  States(page'), CommandsOn(toServer'))
  BY <1>2, <1>3, <1>4, <1>6, <1>7, MakesOneMore
<1> QED
  BY <1>5, <1>8 DEF Calls!Lose, Calls!MakeOneMore, OneMoreMade, States

\* A message under way is about a pending call.
LEMMA AboutPending ==
    ASSUME IInv, NEW queues \in Messages, NEW g \in Attempt,
           queues[g] # <<>>, Carried(page, readyState, queues)
    PROVE  LET m == Head(queues[g])
           IN  /\ m \in Message /\ m.about = m.id
               /\ m.id \in 1 .. Len(page.promises)
               /\ m.id \in DOMAIN States(page)
               /\ m.id \in DOMAIN page.commandResponseMap
               /\ page.promises[m.id].state = "pending"
<1> DEFINE m == Head(queues[g])
<1>1. m \in Message /\ 1 \in 1 .. Len(queues[g]) /\ m = queues[g][1]
  BY DEF Messages
<1> HIDE DEF m
<1>2. /\ m.about = m.id /\ m.id \in DOMAIN page.commandResponseMap
      /\ page.promises[m.id].state = "pending"
  BY <1>1 DEF Carried
<1>3. m.id \in 1 .. Len(page.promises)
  BY <1>2 DEF IInv, PageOK, CallsOK
<1>4. DOMAIN States(page) = 1 .. Len(page.promises)
  BY StatesOfPage DEF IInv
<1> QED
  BY <1>1, <1>2, <1>3, <1>4 DEF m

\* The server handles a call that it was asked for, and asked for once.
LEMMA HandlingStep ==
    ASSUME IInv, NEW g \in Attempt, NEW throws \in BOOLEAN,
           ServerHandles(g, throws)
    PROVE  \E c \in DOMAIN States(page) : Calls!Handle(c)
<1> DEFINE m == Head(toServer[g])
<1>1. /\ toServer \in Messages /\ toClient \in Messages
      /\ Once(toServer) /\ Carried(page, readyState, toServer)
  BY DEF IInv, TrafficOK
<1>2. /\ toServer[g] # <<>> /\ page' = page
      /\ toServer' = [toServer EXCEPT ![g] = Tail(@)]
      /\ \/ toClient' = toClient
         \/ toClient' = [toClient EXCEPT ![g] = Append(@, m)]
  BY DEF ServerHandles
<1>3. m \in Message /\ m.about \in DOMAIN States(page)
  BY <1>1, <1>2, AboutPending
<1>4. /\ m.about \in CommandsOn(toServer)
      /\ CommandsOn(toServer') = CommandsOn(toServer) \ {m.about}
  BY <1>1, <1>2, OneLessOn
<1> HIDE DEF m
<1>5. CommandsOn(toClient') \in
        {CommandsOn(toClient), CommandsOn(toClient) \cup {m.about}}
  BY <1>1, <1>2, <1>3, OneMoreOn
<1>6. Calls!Handle(m.about)
  BY <1>2, <1>4, <1>5 DEF Calls!Handle
<1> QED
  BY <1>3, <1>6

\* An answer resolves the call that it answers, and no other.
LEMMA ReturningStep ==
    ASSUME IInv, NEW g \in Attempt, OnMessage(g)
    PROVE  \E c \in DOMAIN States(page) : Calls!Return(c)
<1> DEFINE m == Head(toClient[g])
           s == Resolve(page, m)
<1>1. /\ PageOK(page) /\ toServer \in Messages /\ toClient \in Messages
      /\ Once(toClient) /\ Carried(page, readyState, toClient)
  BY DEF IInv, TrafficOK
<1>2. /\ toClient[g] # <<>>
      /\ toClient' = [toClient EXCEPT ![g] = Tail(@)]
      /\ toServer' = Transmit(toServer)
      /\ PageOK(s) /\ Len(s.promises) = Len(page.promises)
      /\ PageOK(page')
      /\ Quiet(s, page') \/ Created(s, page', readyState')
  BY AnswerTaken
<1>3. /\ m \in Message /\ m.about = m.id
      /\ m.id \in 1 .. Len(page.promises)
      /\ m.id \in DOMAIN States(page)
      /\ m.id \in DOMAIN page.commandResponseMap
      /\ page.promises[m.id].state = "pending"
  BY <1>1, <1>2, AboutPending
<1>4. Settles(page, s, m.id)
  BY <1>1, <1>3, PromiseResolved
<1>5. /\ m.id \in CommandsOn(toClient)
      /\ CommandsOn(toClient') = CommandsOn(toClient) \ {m.id}
  BY <1>1, <1>2, <1>3, OneLessOn
<1> HIDE DEF m, s
<1>6. States(s) = [States(page) EXCEPT ![m.id] = "resolved"]
  <2>1. /\ States(s) =
            [q \in 1 .. Len(page.promises) |-> s.promises[q].state]
        /\ States(page) =
            [q \in 1 .. Len(page.promises) |-> page.promises[q].state]
    BY <1>1, <1>2, StatesOfPage
  <2>2. /\ s.promises[m.id].state = "resolved"
        /\ \A q \in 1 .. Len(page.promises) :
            q # m.id => s.promises[q].state = page.promises[q].state
    BY <1>4 DEF Settles
  <2> QED
    BY <2>1, <2>2, <1>3
<1>7. OneMoreMade(States(s), CommandsOn(toServer),
                  States(page'), CommandsOn(toServer'))
  BY <1>1, <1>2, MakesOneMore
<1>8. States(page)[m.id] = "pending"
  BY <1>1, <1>3, StatesOfPage
<1>9. PICK c \in DOMAIN States(page) : c = m.id
  BY <1>3, SMTT(30)
<1>10. Calls!Return(c)
  BY <1>5, <1>6, <1>7, <1>8, <1>9
     DEF Calls!Return, Calls!MakeOneMore, OneMoreMade, States
<1> QED
  BY <1>10

-----------------------------------------------------------------------------
(* The implementation.                                                     *)

\* Before anything was sent there are no calls.
LEMMA InitMaps == ASSUME Init PROVE Calls!Init
<1>1. page.promises = <<>>
  BY DEF Init
<1>2. States(page) = <<>>
  BY <1>1 DEF States
<1>3. toServer \in Messages /\ toClient \in Messages
  BY DEF Init, Messages
<1>4. \A g \in Attempt : Len(toServer[g]) = 0 /\ Len(toClient[g]) = 0
  BY DEF Init
<1>5. CommandsOn(toServer) = {} /\ CommandsOn(toClient) = {}
  BY <1>3, <1>4, OnSomeSocket
<1> QED
  BY <1>2, <1>5 DEF Calls!Init, States

\* Every step is a step of the calls, or leaves them alone.
LEMMA StepMaps ==
    ASSUME IInv, [Next]_vars PROVE [Calls!Next]_(Calls!callVars)
<1>1. CASE \/ Open \/ Close \/ connect \/ Cancel
           \/ \E g \in Attempt, failed \in BOOLEAN : SocketBdCloses(g, failed)
  BY <1>1, QuietSteps
<1>2. CASE \/ UserCommand
           \/ \E g \in Attempt : SocketBdOpens(g) \/ SocketUtOpens(g)
  BY <1>2, MakingSteps DEF Calls!Next
<1>3. ASSUME NEW g \in Attempt, NEW failed \in BOOLEAN,
             SocketUtCloses(g, failed)
      PROVE  Calls!Next
  BY <1>3, ClosingStep DEF Calls!Next
<1>4. ASSUME NEW g \in Attempt, Handled(g) PROVE Calls!Next
  BY <1>4, HandlingStep DEF Handled, Calls!Next, States
<1>5. ASSUME NEW g \in Attempt, OnMessage(g) PROVE Calls!Next
  BY <1>5, ReturningStep DEF Calls!Next, States
<1>6. CASE UNCHANGED vars
  BY <1>6 DEF vars, Calls!callVars
<1> QED
  BY <1>1, <1>2, <1>3, <1>4, <1>5, <1>6 DEF Next, User

\* The client implements remote calls: however many connections it makes, and
\* whatever is lost on them, no command is handled twice, and no promise is
\* resolved but once, by the answer to its own command.
THEOREM Implements == Spec => ImplementsRemoteCall
<1>1. Init => Calls!Init
  BY InitMaps
<1>2. IInv /\ [Next]_vars => [Calls!Next]_(Calls!callVars)
  BY StepMaps
<1> QED
  BY <1>1, <1>2, Invariant, PTL DEF Spec, ImplementsRemoteCall, Calls!Spec
=============================================================================
