----------------------------- MODULE Transport ------------------------------
(***************************************************************************)
(* The process and its web socket thread: the start of the server          *)
(* (server.cpp, wst_startServer), the poll loop that accepts connections   *)
(* and reads from them (libwebsockets.c), the life of a session from its   *)
(* handshake to its end, and the record that server.c keeps of the         *)
(* sessions.                                                               *)
(*                                                                         *)
(* One thread does all the work, but not in one go: poll() says what is    *)
(* ready, and each ready descriptor is then served by a step of its own,   *)
(* while the peers go on sending, closing and resetting, and while the     *)
(* steps themselves add to and take from the very list being served.  The  *)
(* sockets are left blocking: an answer that its peer does not read keeps  *)
(* the thread in send(), and everybody else waiting.                       *)
(*                                                                         *)
(* A session stands for its descriptor and its struct, both of which are   *)
(* used again once the session is freed.  What a command does is the       *)
(* subject of module Controller; here it is handled or takes the process   *)
(* down.  The peers are pages: one socket of theirs speaks data-binary and *)
(* is polled only, the other speaks ui-text, carries the commands and is   *)
(* put on record.                                                          *)
(***************************************************************************)
EXTENDS Integers, FiniteSets, SequencesExt

CONSTANTS
    MaxClients,    \* MAX_CLIENTS: the length of fds, the listener included
    MaxConnects,   \* bound: connections the peers make
    MaxCommands,   \* bound: frames the peers send
    MaxFailures    \* bound: allocations and writes that fail

ASSUME BoundsAssumption ==
    /\ MaxClients \in Nat \ {0} /\ MaxConnects \in Nat
    /\ MaxCommands \in Nat /\ MaxFailures \in Nat

VARIABLES
    main,        \* where the main thread is
    fds,         \* the poll list, entries past fdsCount included
    fdsCount,    \* the entries of fds in use
    n,           \* the entry being served; 0 between two polls
    sending,     \* frames in hand while send() waits for the peer; 0: it does not
    state,       \* per session, what the library takes it to be
    protocol,    \* per session, the protocol it was opened with
    inbox,       \* per session, what its peer sent and nobody read
    gone,        \* per session, how its peer left
    wsi,         \* servers[0].wsi: the sessions on record
    nClient,     \* servers[0].nClient
    backlog,     \* connections waiting for accept()
    unrecorded,  \* history: was a session established off the record?
    connects, commands, failures   \* counted against the bounds

session == <<state, protocol>>
peers == <<inbox, gone, backlog>>
record == <<wsi, nClient, unrecorded>>
counters == <<connects, commands, failures>>
vars == <<main, fds, fdsCount, n, sending, state, protocol, inbox, gone, wsi, nClient,
          backlog, unrecorded, connects, commands, failures>>

\* one more than the list has room for
Session == 1 .. MaxClients
Listener == 0
Entry == [fd : Session \cup {Listener}, revents : {"none", "in", "hup"}]
Protocol == {"data-binary", "ui-text"}
\* a handshake is its protocol; a close frame has a payload, or it has none
Closing == {"close", "close empty"}
Frame == Protocol \cup {"command"} \cup Closing
Left == {"fin", "reset"}

TypeOK ==
    /\ main \in {"starting", "polling", "exited", "down"}
    /\ fds \in [1 .. MaxClients -> Entry]
    /\ fdsCount \in 1 .. MaxClients /\ n \in 0 .. MaxClients
    /\ sending \in Nat
    /\ state \in [Session -> {"FREE", "HTTP", "ESTABLISHED"}]
    /\ protocol \in [Session -> Protocol \cup {"http-only"}]
    /\ inbox \in [Session -> Seq(Frame)]
    /\ gone \in [Session -> {"no", "closing"} \cup Left]
    /\ wsi \in Seq(Session) /\ nClient \in Int
    /\ backlog \in Nat /\ unrecorded \in BOOLEAN
    /\ connects \in 0 .. MaxConnects /\ commands \in 0 .. MaxCommands
    /\ failures \in 0 .. MaxFailures

Init ==
    /\ main = "starting"
    /\ fds = [i \in 1 .. MaxClients |-> [fd |-> Listener, revents |-> "none"]]
    /\ fdsCount = 1 /\ n = 0 /\ sending = 0
    /\ state = [s \in Session |-> "FREE"]
    /\ protocol = [s \in Session |-> "http-only"]
    /\ inbox = [s \in Session |-> <<>>] /\ gone = [s \in Session |-> "no"]
    /\ wsi = <<>> /\ nClient = 0 /\ unrecorded = FALSE
    /\ backlog = 0 /\ connects = 0 /\ commands = 0 /\ failures = 0

Open == {s \in Session : state[s] # "FREE"}

\* the sessions that callback_ui_text was told of
Established ==
    {s \in Session : state[s] = "ESTABLISHED" /\ protocol[s] = "ui-text"}

-----------------------------------------------------------------------------
(***************************************************************************)
(* The main thread: it creates the controller and the server, whose thread *)
(* runs from then on, and waits for a loop flag that nothing clears.       *)
(***************************************************************************)
StartServer ==
    /\ main = "starting" /\ main' = "polling"
    /\ UNCHANGED <<fds, fdsCount, n, sending, session, peers, record, counters>>

\* the controller's constructor throws, or the port or memory is not to be had
StartFails ==
    /\ main = "starting" /\ main' = "exited"
    /\ UNCHANGED <<fds, fdsCount, n, sending, session, peers, record, counters>>

-----------------------------------------------------------------------------
(***************************************************************************)
(* The peers.  A page waits for the answer to its handshake before it      *)
(* sends, and sends nothing after its close frame.                         *)
(***************************************************************************)
Connect ==
    /\ main = "polling" /\ connects < MaxConnects
    /\ backlog' = backlog + 1 /\ connects' = connects + 1
    /\ UNCHANGED <<main, fds, fdsCount, n, sending, session, inbox, gone, record,
                   commands, failures>>

Send(s, frame) ==
    /\ commands < MaxCommands /\ gone[s] = "no"
    /\ IF frame \in Protocol THEN state[s] = "HTTP" /\ inbox[s] = <<>>
                             ELSE state[s] = "ESTABLISHED"
    /\ frame = "command" => protocol[s] = "ui-text"
    /\ inbox' = [inbox EXCEPT ![s] = Append(@, frame)]
    /\ gone' = [gone EXCEPT ![s] = IF frame \in Closing THEN "closing" ELSE @]
    /\ commands' = commands + 1
    /\ UNCHANGED <<main, fds, fdsCount, n, sending, session, backlog, record,
                   connects, failures>>

\* the peer closes its socket, or its machine or network gives it up
Leave(s, how) ==
    /\ state[s] # "FREE" /\ gone[s] \notin Left
    /\ gone' = [gone EXCEPT ![s] = how]
    /\ UNCHANGED <<main, fds, fdsCount, n, sending, session, inbox, backlog, record,
                   counters>>

-----------------------------------------------------------------------------
(***************************************************************************)
(* The poll list.  A step that serves entry n leaves n at the next entry   *)
(* with an event, in the list as the step has left it.                     *)
(***************************************************************************)
NextEvent(list, count, from) ==
    LET ready == {i \in from .. count : list[i].revents # "none"}
    IN  IF ready = {} THEN 0 ELSE CHOOSE i \in ready : \A j \in ready : i <= j

Events(fd) ==
    CASE fd = Listener -> IF backlog > 0 THEN "in" ELSE "none"
      [] fd # Listener /\ gone[fd] = "reset" -> "hup"
      [] OTHER -> IF inbox[fd] # <<>> \/ gone[fd] = "fin" THEN "in" ELSE "none"

\* poll(): fills in the events of the entries in use
Poll ==
    /\ main = "polling" /\ n = 0
    /\ fds' = [i \in 1 .. MaxClients |->
                 IF i <= fdsCount THEN [fds[i] EXCEPT !.revents = Events(fds[i].fd)]
                                  ELSE fds[i]]
    /\ n' = NextEvent(fds', fdsCount, 1)
    /\ n' # 0   \* nothing happens: poll again
    /\ UNCHANGED <<main, fdsCount, sending, session, peers, record, counters>>

\* Mutant: the entry keeps the events of the one that had its place.
AddFdKeepingEvents(list, count, s) == [list EXCEPT ![count + 1].fd = s]

AddFd(list, count, s) ==
    [i \in DOMAIN list \cup {count + 1} |->
        IF i = count + 1 THEN [fd |-> s, revents |-> "none"] ELSE list[i]]

\* Mutant: the last entry goes, whichever was to go.
RemoveFdLast(list, count, s) == list

\* the entries after that of s move up; the last one keeps what it held
RemoveFd(list, count, s) ==
    LET at == CHOOSE i \in 1 .. count : list[i].fd = s
    IN  [i \in DOMAIN list |-> IF i >= at /\ i < count THEN list[i + 1] ELSE list[i]]

-----------------------------------------------------------------------------
(***************************************************************************)
(* The record: what callback_ui_text does of a session that begins or      *)
(* ends.  n * sizeof <= 0 bytes are refused by wst_alloc as well.          *)
(***************************************************************************)
CallbackEstablished(s, memory) ==
    IF memory /\ nClient + 1 > 0
    THEN /\ wsi' = Append(SubSeq(wsi, 1, nClient), s)
         /\ nClient' = nClient + 1
         /\ UNCHANGED unrecorded
    ELSE /\ unrecorded' = TRUE
         /\ UNCHANGED <<wsi, nClient>>

\* the entries other than s, each moved up to just after those kept before it
Compacted(q, s) ==
    LET kept == {i \in DOMAIN q : q[i] # s}
        rank(i) == Cardinality({j \in kept : j <= i})
    IN  [r \in 1 .. Cardinality(kept) |-> q[CHOOSE i \in kept : rank(i) = r]]

\* the sessions other than s move up; the count falls whether s was there or not
CallbackClosed(s) ==
    /\ nClient' = nClient - 1
    /\ wsi' = IF nClient' <= 0 THEN <<>>
              ELSE Compacted(SubSeq(wsi, 1, nClient), s)
    /\ UNCHANGED unrecorded

\* Mutant: the end of a session that never began is reported as well.
CloseSessionTelling(s) ==
    /\ fds' = RemoveFd(fds, fdsCount, s) /\ fdsCount' = fdsCount - 1
    /\ n' = NextEvent(fds', fdsCount', n + 1) /\ sending' = 0
    /\ state' = [state EXCEPT ![s] = "FREE"]
    /\ protocol' = [protocol EXCEPT ![s] = "http-only"]
    /\ inbox' = [inbox EXCEPT ![s] = <<>>] /\ gone' = [gone EXCEPT ![s] = "no"]
    /\ CallbackClosed(s)
    /\ UNCHANGED <<main, backlog, connects, commands>>

\* libwebsocket_close_and_free_session, for a peer that is not to be told
CloseSession(s) ==
    /\ fds' = RemoveFd(fds, fdsCount, s) /\ fdsCount' = fdsCount - 1
    /\ n' = NextEvent(fds', fdsCount', n + 1) /\ sending' = 0
    /\ state' = [state EXCEPT ![s] = "FREE"]
    /\ protocol' = [protocol EXCEPT ![s] = "http-only"]
    /\ inbox' = [inbox EXCEPT ![s] = <<>>] /\ gone' = [gone EXCEPT ![s] = "no"]
    /\ IF s \in Established THEN CallbackClosed(s) ELSE UNCHANGED record
    /\ UNCHANGED <<main, backlog, connects, commands>>

-----------------------------------------------------------------------------
(***************************************************************************)
(* libwebsocket_service_fd                                                 *)
(***************************************************************************)
At(fd) == main = "polling" /\ n # 0 /\ fds[n].fd = fd
Served(fd) == At(fd) /\ sending = 0
Fails == failures < MaxFailures /\ failures' = failures + 1
Proceed == n' = NextEvent(fds', fdsCount', n + 1) /\ sending' = 0

\* Mutant: the list is taken to have room.
AcceptAnyway(s) ==
    /\ Served(Listener)
    /\ state[s] = "FREE" /\ \A t \in Session : t < s => state[t] # "FREE"
    /\ state' = [state EXCEPT ![s] = "HTTP"]
    /\ fds' = AddFd(fds, fdsCount, s) /\ fdsCount' = fdsCount + 1
    /\ Proceed
    /\ backlog' = backlog - 1
    /\ UNCHANGED <<main, protocol, inbox, gone, record, counters>>

\* the listen socket is ready, and a place in the list is free
Accept(s) ==
    /\ Served(Listener) /\ fdsCount < MaxClients
    /\ state[s] = "FREE" /\ \A t \in Session : t < s => state[t] # "FREE"
    /\ state' = [state EXCEPT ![s] = "HTTP"]
    /\ fds' = AddFd(fds, fdsCount, s) /\ fdsCount' = fdsCount + 1
    /\ Proceed
    /\ backlog' = backlog - 1
    /\ UNCHANGED <<main, protocol, inbox, gone, record, counters>>

\* too busy, and the peer waits; or no memory, and the connection is lost
AcceptNot ==
    /\ Served(Listener)
    /\ \/ /\ fdsCount = MaxClients
          /\ UNCHANGED <<backlog, failures>>
       \/ /\ fdsCount < MaxClients /\ Fails
          /\ backlog' = backlog - 1
    /\ UNCHANGED <<main, fds, fdsCount, session, inbox, gone, record, connects,
                   commands>>
    /\ Proceed

\* POLLERR or POLLHUP: what the peer had sent before is lost
Hangup(s) ==
    /\ Served(s) /\ fds[n].revents = "hup"
    /\ CloseSession(s) /\ UNCHANGED failures

\* Mutant: a peer that closed is waited for.
ReadEndOfLost(s) ==
    /\ Served(s) /\ fds[n].revents = "in"
    /\ \/ gone[s] = "reset" /\ CloseSession(s)
       \/ /\ gone[s] = "fin" /\ inbox[s] = <<>>
          /\ UNCHANGED <<main, fds, fdsCount, session, peers, record, connects,
                         commands>>
          /\ Proceed
    /\ UNCHANGED failures

\* recv() has nothing to give: the peer has closed (0) or is lost (-1)
ReadEnd(s) ==
    /\ Served(s) /\ fds[n].revents = "in"
    /\ gone[s] = "reset" \/ (gone[s] = "fin" /\ inbox[s] = <<>>)
    /\ CloseSession(s) /\ UNCHANGED failures

\* recv() has something to give; what is made of it depends on the state
Readable(s, in) ==
    /\ Served(s) /\ fds[n].revents = "in"
    /\ gone[s] # "reset" /\ inbox[s] # <<>>
    /\ state[s] = in

ReadHandshake(s) ==
    /\ Readable(s, "HTTP")
    /\ state' = [state EXCEPT ![s] = "ESTABLISHED"]
    /\ protocol' = [protocol EXCEPT ![s] = Head(inbox[s])]
    /\ inbox' = [inbox EXCEPT ![s] = Tail(@)]
    /\ \/ Head(inbox[s]) = "data-binary" /\ UNCHANGED <<record, failures>>
       \/ /\ Head(inbox[s]) = "ui-text"
          /\ \/ CallbackEstablished(s, TRUE) /\ UNCHANGED failures
             \/ CallbackEstablished(s, FALSE) /\ Fails
    /\ UNCHANGED <<main, fds, fdsCount, gone, backlog, connects, commands>>
    /\ Proceed

\* the handshake is malformed, or its answer cannot be built or written
RefuseHandshake(s) ==
    /\ Readable(s, "HTTP") /\ Fails /\ CloseSession(s)

\* Each of the first m frames is handled in turn.  A close frame, the last, is
\* echoed and the session ends; but without a payload it is not seen to be
\* complete, and nothing comes of it.
HandleFrames(s, m) ==
    IF Contains(SubSeq(inbox[s], 1, m), "close")
    THEN CloseSession(s) /\ UNCHANGED failures
    ELSE /\ inbox' = [inbox EXCEPT ![s] = SubSeq(@, m + 1, Len(@))]
         /\ UNCHANGED <<main, fds, fdsCount, session, gone, backlog, record,
                        counters>>
         /\ Proceed

\* recv() returns as many of the frames as had come, and there is room for the
\* answers to all of them
ReadFrames(s) ==
    /\ Readable(s, "ESTABLISHED")
    /\ \E m \in 1 .. Len(inbox[s]) : HandleFrames(s, m)

\* There is no room for one of the answers: the peer does not read them.
SendBlocks(s) ==
    /\ Readable(s, "ESTABLISHED")
    /\ \E m \in 1 .. Len(inbox[s]) :
         /\ \E i \in 1 .. m : inbox[s][i] \in {"command", "close"}
         /\ sending' = m
    /\ UNCHANGED <<main, fds, fdsCount, n, session, peers, record, counters>>

\* a handler lets an exception pass that nothing catches: the process ends
Throws ==
    /\ main' = "down"
    /\ UNCHANGED <<fds, fdsCount, n, sending, session, peers, record, counters>>

HandlerThrows(s) ==
    Readable(s, "ESTABLISHED") /\ Head(inbox[s]) = "command" /\ Throws

\* The peer has read, or it has left, and the error is no matter (wst_sendText,
\* parsers.c): the other frames in hand are handled.
SendReturns(s) ==
    /\ At(s) /\ sending # 0
    /\ \/ HandleFrames(s, sending)
       \/ sending > 1 /\ inbox[s][2] = "command" /\ Throws

Service ==
    \/ AcceptNot
    \/ \E s \in Session :
         \/ Accept(s) \/ Hangup(s) \/ ReadEnd(s) \/ ReadHandshake(s)
         \/ RefuseHandshake(s) \/ ReadFrames(s) \/ SendBlocks(s)
         \/ HandlerThrows(s)

Next ==
    \/ StartServer \/ StartFails
    \/ Connect
    \/ \E s \in Session, frame \in Frame : Send(s, frame)
    \/ \E s \in Session, how \in Left : Leave(s, how)
    \/ Poll \/ Service
    \/ \E s \in Session : SendReturns(s)

\* serverThread polls for ever and serves what poll() found; a send() on which
\* it waits returns when the peer has left, and of a peer that has not nothing
\* is known
Fairness ==
    /\ WF_vars(Poll \/ Service)
    /\ \A s \in Session : WF_vars(gone[s] \in Left /\ SendReturns(s))

Spec == Init /\ [][Next]_vars /\ Fairness

-----------------------------------------------------------------------------
Polled == {fds[i].fd : i \in 1 .. fdsCount}
Recorded == {wsi[i] : i \in 1 .. nClient}

\* The list that poll() is given holds the listener first and every open
\* session exactly once, however the entries were moved while the list was
\* being served (libwebsocket_close_and_free_session, libwebsocket_service).
PolledOnce ==
    /\ fds[1].fd = Listener
    /\ Polled = Open \cup {Listener}
    /\ fdsCount = Cardinality(Open) + 1

\* no session recorded twice, and none that was freed
RecordedAreOpen ==
    /\ Recorded \subseteq Established
    /\ \A i, j \in 1 .. nClient : wsi[i] = wsi[j] => i = j

\* as long as memory did not fail, all the text sessions that are established
CountsClients ==
    ~unrecorded => /\ Recorded = Established
                   /\ nClient = Cardinality(Established)

\* The record of sessions is of open ones, each once, and of all of them unless
\* memory failed; a session that could not be recorded is counted out like any
\* other when it ends, and then another one's entry may go (callback_ui_text).
RecordOfSessions == RecordedAreOpen /\ CountsClients

\* A session ends only by its peer leaving or closing, or by a handshake that
\* failed: events left in the list by a former session are never taken for
\* those of the one that has its place ("otherwise we inherit old
\* fds[client].revents from previous socket there and die mysteriously!").
ClosedForCause ==
    [][\A s \in Session : state[s] # "FREE" /\ state'[s] = "FREE" =>
          \/ gone[s] \in Left \/ Contains(inbox[s], "close")
          \/ failures' # failures]_vars

Pending(s) == inbox[s] # <<>> \/ gone[s] \in Left

\* Whatever a peer sends is read and handled, and when a peer has left its
\* place is given back, in spite of the entries that are passed over when an
\* earlier one is removed, and of the waiting for peers that read late or that
\* leave in between - unless a handler takes the process down, or a peer that
\* stays and never reads holds the one thread for ever in send().
EveryoneServed ==
    \A s \in Session :
        []<>(sending = 0) => (Pending(s) ~> (~Pending(s) \/ main = "down"))
=============================================================================
