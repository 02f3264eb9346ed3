------------------------------- MODULE Client -------------------------------
(***************************************************************************)
(* The browser's side of the connection: the Client class (data/client.js) *)
(* with its two sockets and its commands, the dialog that asks it to       *)
(* connect and the part of the application that listens to it.  Every      *)
(* action is one task of the browser's event loop, with the microtasks     *)
(* that follow it.                                                         *)
(*                                                                         *)
(* connect() replaces both sockets and leaves the former ones alone: they  *)
(* go on, and their handlers are methods of the same client.  A socket is  *)
(* named by the attempt, 1, 2, ..., that made it.                          *)
(***************************************************************************)
EXTENDS Naturals, Sequences

CONSTANTS
    MaxConnects,    \* bound: calls of Client.connect
    MaxCommands     \* bound: commands besides those of onConnect

ASSUME BoundsAssumption == MaxConnects \in Nat /\ MaxCommands \in Nat

VARIABLES
    page,       \* the state of the client, the dialog and the application
    readyState, \* per attempt, of its binary and its text socket
    toServer,   \* per attempt, the commands on their way on its text socket
    toClient    \* per attempt, the answers on their way back

vars == <<page, readyState, toServer, toClient>>

Attempt == 1 .. MaxConnects

\* A command, or the answer to it: its id, and which of the promises it is for.
Message == [id : Nat, about : Nat]

ReadyState == {"none", "connecting", "open", "closed"}
PromiseState ==
    [command : {"fetchDatasetList", "other"},
     state : {"pending", "resolved", "rejected"},
     answer : Nat]  \* the command that was answered, 0 for none

Init ==
    /\ page =
        [socket |-> 0,      \* whose sockets the client holds, 0 for null
         messageIndex |-> 0,
         commandResponseMap |-> [id \in {} |-> 0],  \* from ids to promises
         promises |-> <<>>,
         connected |-> FALSE, networkActive |-> FALSE, \* of the application
         open |-> FALSE, isConnecting |-> FALSE,       \* of the dialog
         listening |-> FALSE] \* is the dialog, to "connected" and to "error"
    /\ readyState = [g \in Attempt |-> [bd |-> "none", ut |-> "none"]]
    /\ toServer = [g \in Attempt |-> <<>>]
    /\ toClient = [g \in Attempt |-> <<>>]

-----------------------------------------------------------------------------
(* What the handlers call.                                                 *)

Entered(map, id, p) ==
    [i \in DOMAIN map \cup {id} |-> IF i = id THEN p ELSE map[i]]

\* Mutant: the index is read before it is incremented.
CreateCommandPromisePostfix(s, ready, command) ==
    LET id == s.messageIndex
        promise == [command |-> command, answer |-> 0,
                    state |-> IF ready[s.socket].ut = "connecting"
                              THEN "rejected" ELSE "pending"]
    IN  [s EXCEPT !.networkActive = TRUE,
                  !.messageIndex = id + 1,
                  !.commandResponseMap = Entered(@, id, Len(s.promises) + 1),
                  !.promises = Append(@, promise)]

\* Sending on a socket that is still connecting throws, inside the promise's
\* executor: the promise is rejected, its callback is kept, and nobody is told
\* that the network is inactive.  On a closed socket the command is dropped.
CreateCommandPromise(s, ready, command) ==
    LET id == s.messageIndex + 1
        promise == [command |-> command, answer |-> 0,
                    state |-> IF ready[s.socket].ut = "connecting"
                              THEN "rejected" ELSE "pending"]
    IN  [s EXCEPT !.networkActive = TRUE,
                  !.messageIndex = id,
                  !.commandResponseMap = Entered(@, id, Len(s.promises) + 1),
                  !.promises = Append(@, promise)]

BothOpen(s, ready) ==
    s.socket # 0 /\ ready[s.socket] = [bd |-> "open", ut |-> "open"]

\* The listeners of "connected": the application's onConnect, registered in its
\* constructor, then the dialog's if it listens.
Connected(s, ready) ==
    LET asked == CreateCommandPromise(s, ready, "fetchDatasetList")
    IN  IF s.listening
        THEN [asked EXCEPT !.isConnecting = FALSE, !.listening = FALSE,
                           !.open = FALSE]
        ELSE asked

\* Mutant: the callbacks are dropped with the connection.
DisconnectedForgetting(s) ==
    [s EXCEPT !.connected = FALSE, !.networkActive = FALSE,
              !.commandResponseMap = [id \in {} |-> 0]]

\* The listener of "disconnected".
Disconnected(s) == [s EXCEPT !.connected = FALSE, !.networkActive = FALSE]

\* The listener of "error".
Error(s) ==
    IF s.listening THEN [s EXCEPT !.isConnecting = FALSE, !.listening = FALSE]
                   ELSE s

\* It asks about the sockets the client holds now, whichever socket's event
\* this is.
maybeUpdateState(s, ready) ==
    IF BothOpen(s, ready) THEN Connected(s, ready) ELSE s

\* What a command sent in this step puts on the client's text socket.
Transmit(queues) ==
    IF /\ Len(page'.promises) > Len(page.promises)
       /\ readyState'[page'.socket].ut = "open"
    THEN [queues EXCEPT ![page'.socket] =
            Append(@, [id |-> page'.messageIndex,
                       about |-> Len(page'.promises)])]
    ELSE queues

-----------------------------------------------------------------------------
(* The dialog and the user.                                                *)

\* The button is there as long as the application is not connected.
Open ==
    /\ ~page.connected /\ ~page.open
    /\ page' = [page EXCEPT !.open = TRUE]
    /\ UNCHANGED <<readyState, toServer, toClient>>

Close ==
    /\ page.open
    /\ page' = [page EXCEPT !.open = FALSE]
    /\ UNCHANGED <<readyState, toServer, toClient>>

\* Mutant: a connection begins with a new client.
connectAfresh ==
    /\ page.open /\ ~page.isConnecting
    /\ page.socket < MaxConnects
    /\ page' = [page EXCEPT !.isConnecting = TRUE, !.listening = TRUE,
                            !.socket = @ + 1, !.messageIndex = 0]
    /\ readyState' = [readyState EXCEPT ![page'.socket] =
                        [bd |-> "connecting", ut |-> "connecting"]]
    /\ UNCHANGED <<toServer, toClient>>

connect ==
    /\ page.open /\ ~page.isConnecting
    /\ page.socket < MaxConnects
    /\ page' = [page EXCEPT !.isConnecting = TRUE, !.listening = TRUE,
                            !.socket = @ + 1]
    /\ readyState' = [readyState EXCEPT ![page'.socket] =
                        [bd |-> "connecting", ut |-> "connecting"]]
    /\ UNCHANGED <<toServer, toClient>>

\* client.disconnect() does nothing, and the dialog goes on listening.
Cancel ==
    /\ page.open
    /\ page' = [page EXCEPT !.isConnecting = FALSE, !.open = FALSE]
    /\ UNCHANGED <<readyState, toServer, toClient>>

\* The commands that were not sent by onConnect.
OtherCommands ==
    Len(SelectSeq(page.promises, LAMBDA p : p.command = "other"))

\* Panels and windows are enabled while the application is connected.
UserCommand ==
    /\ page.connected
    /\ OtherCommands < MaxCommands
    /\ page' = CreateCommandPromise(page, readyState, "other")
    /\ UNCHANGED <<readyState, toClient>>
    /\ toServer' = Transmit(toServer)

-----------------------------------------------------------------------------
(* The sockets.  The browser changes readyState and runs the handlers in   *)
(* one task.  A socket that fails reports an error before it closes; one   *)
(* that never opened always does, one that was open may just close.  The   *)
(* code only asks whether a socket is open, so that "closed" stands for    *)
(* CLOSING too, which the page itself never starts.                        *)

\* Mutant: only the text socket's opening is looked at.
SocketBdOpensUnseen(g) ==
    /\ readyState[g].bd = "connecting"
    /\ readyState' = [readyState EXCEPT ![g].bd = "open"]
    /\ UNCHANGED <<page, toServer, toClient>>

SocketBdOpens(g) ==
    /\ readyState[g].bd = "connecting"
    /\ readyState' = [readyState EXCEPT ![g].bd = "open"]
    /\ page' = maybeUpdateState(page, readyState')
    /\ toServer' = Transmit(toServer)
    /\ UNCHANGED toClient

SocketUtOpens(g) ==
    /\ readyState[g].ut = "connecting"
    /\ readyState' = [readyState EXCEPT ![g].ut = "open"]
    /\ page' = maybeUpdateState(page, readyState')
    /\ toServer' = Transmit(toServer)
    /\ UNCHANGED toClient

MayClose(state, failed) ==
    \/ state = "connecting" /\ failed
    \/ state = "open"

SocketBdCloses(g, failed) ==
    /\ MayClose(readyState[g].bd, failed)
    /\ readyState' = [readyState EXCEPT ![g].bd = "closed"]
    /\ page' = IF failed THEN Error(page) ELSE page
    /\ UNCHANGED <<toServer, toClient>>

\* Mutant: the state is not looked at again after a text socket has closed.
SocketUtClosesOnly(g, failed) ==
    /\ MayClose(readyState[g].ut, failed)
    /\ readyState' = [readyState EXCEPT ![g].ut = "closed"]
    /\ page' = Disconnected(IF failed THEN Error(page) ELSE page)
    /\ toServer' = [toServer EXCEPT ![g] = <<>>]
    /\ toClient' = [toClient EXCEPT ![g] = <<>>]

\* What is under way on the text socket is lost with it.
SocketUtCloses(g, failed) ==
    /\ MayClose(readyState[g].ut, failed)
    /\ readyState' = [readyState EXCEPT ![g].ut = "closed"]
    /\ page' = LET told == IF failed THEN Error(page) ELSE page
               IN  maybeUpdateState(Disconnected(told), readyState')
    /\ toServer' = Transmit([toServer EXCEPT ![g] = <<>>])
    /\ toClient' = [toClient EXCEPT ![g] = <<>>]

\* Controller::handleText: commands are answered one by one, except those whose
\* handler throws.  The list of datasets does not.
ServerHandles(g, throws) ==
    /\ toServer[g] # <<>>
    /\ LET request == Head(toServer[g])
       IN  /\ throws =>
                page.promises[request.about].command # "fetchDatasetList"
           /\ toClient' = IF throws THEN toClient
                          ELSE [toClient EXCEPT ![g] = Append(@, request)]
    /\ toServer' = [toServer EXCEPT ![g] = Tail(@)]
    /\ UNCHANGED <<page, readyState>>

\* Mutant: an answer is taken to be that of the last command.
ResolveLast(s, response) ==
    LET p == Len(s.promises)
    IN  [s EXCEPT
            !.promises[p].state = IF @ = "pending" THEN "resolved" ELSE @,
            !.promises[p].answer = IF @ = 0 THEN response.about ELSE @,
            !.networkActive = FALSE,
            !.commandResponseMap =
                [i \in DOMAIN @ \ {response.id} |-> @[i]]]

\* The callback resolves the promise, whatever the answer says, and tells that
\* the network is inactive, whatever else is under way; then it is forgotten.
Resolve(s, response) ==
    LET p == s.commandResponseMap[response.id]
    IN  [s EXCEPT
            !.promises[p].state = IF @ = "pending" THEN "resolved" ELSE @,
            !.promises[p].answer = IF @ = 0 THEN response.about ELSE @,
            !.networkActive = FALSE,
            !.commandResponseMap =
                [i \in DOMAIN @ \ {response.id} |-> @[i]]]

\* What waits for the promise: the application, connected once it has the
\* datasets, or a panel, which may have more to ask.
Then(s, p) ==
    IF s.promises[p].command = "fetchDatasetList"
    THEN {[s EXCEPT !.connected = TRUE]}
    ELSE {s} \cup IF OtherCommands < MaxCommands
                  THEN {CreateCommandPromise(s, readyState, "other")} ELSE {}

\* An answer without a callback throws: nothing else happens.
OnMessage(g) ==
    /\ toClient[g] # <<>>
    /\ UNCHANGED readyState
    /\ toClient' = [toClient EXCEPT ![g] = Tail(@)]
    /\ LET response == Head(toClient[g])
       IN  IF response.id \in DOMAIN page.commandResponseMap
           THEN page' \in Then(Resolve(page, response),
                               page.commandResponseMap[response.id])
           ELSE page' = page
    /\ toServer' = Transmit(toServer)

User == Open \/ Close \/ connect \/ Cancel \/ UserCommand

\* An attempt to open a socket is given up after a while.
Attempted(g) ==
    \/ SocketBdOpens(g) \/ SocketUtOpens(g)
    \/ readyState[g].bd = "connecting" /\ SocketBdCloses(g, TRUE)
    \/ readyState[g].ut = "connecting" /\ SocketUtCloses(g, TRUE)

Handled(g) == \E throws \in BOOLEAN : ServerHandles(g, throws)

Next ==
    \/ User
    \/ \E g \in Attempt :
        \/ SocketBdOpens(g) \/ SocketUtOpens(g)
        \/ \E failed \in BOOLEAN :
            SocketBdCloses(g, failed) \/ SocketUtCloses(g, failed)
        \/ Handled(g) \/ OnMessage(g)

Fairness ==
    \A g \in Attempt :
        WF_vars(Attempted(g)) /\ WF_vars(Handled(g)) /\ WF_vars(OnMessage(g))

Spec == Init /\ [][Next]_vars /\ Fairness

-----------------------------------------------------------------------------
(* Properties.                                                             *)

TypeOK ==
    /\ page.socket \in Attempt \cup {0}
    /\ {page.connected, page.networkActive, page.open, page.isConnecting,
        page.listening} \subseteq BOOLEAN
    /\ DOMAIN page.commandResponseMap \subseteq 1 .. page.messageIndex
    /\ \A i \in DOMAIN page.commandResponseMap :
        page.commandResponseMap[i] \in DOMAIN page.promises
    /\ page.promises \in Seq(PromiseState)
    /\ readyState \in [Attempt -> [bd : ReadyState, ut : ReadyState]]
    /\ toServer \in [Attempt -> Seq(Message)]
    /\ toClient \in [Attempt -> Seq(Message)]

\* _newMessageId, "responsible for ensuring all messages have unique ids", over
\* all connections of a page: an answer, also one that comes late and on a
\* former socket, resolves the promise of the command it answers.
AnswersOwnCommand ==
    \A p \in DOMAIN page.promises :
        page.promises[p].state = "resolved" => page.promises[p].answer = p

HasCallback(m) ==
    /\ m.id \in DOMAIN page.commandResponseMap
    /\ page.promises[page.commandResponseMap[m.id]].state = "pending"

\* Whatever connections come and go, no answer arrives for which the client has
\* no callback, and no callback is of a promise that is settled already.
CallbackKept ==
    \A g \in Attempt :
        /\ \A i \in DOMAIN toServer[g] : HasCallback(toServer[g][i])
        /\ \A i \in DOMAIN toClient[g] : HasCallback(toClient[g][i])

\* In whichever order the sockets open, and whatever becomes of former ones,
\* the dialog does not say "Connecting..." over a connection that is up.
OpenEndsConnecting ==
    BothOpen(page, readyState) => ~page.isConnecting

\* A connection that stays up is seen to be up in the end, even when the end of
\* an earlier attempt is reported to the application after it.
StaysUp == <>[]BothOpen(page, readyState) => <>[]page.connected

-----------------------------------------------------------------------------
(* What the client promises.                                               *)

CommandsOn(queues) ==
    UNION {{queues[g][i].about : i \in DOMAIN queues[g]} : g \in Attempt}

Calls == INSTANCE RemoteCall WITH
    calls <- [p \in DOMAIN page.promises |-> page.promises[p].state],
    requested <- CommandsOn(toServer),
    answered <- CommandsOn(toClient)

\* Ids, callbacks and any number of connections implement a remote call: every
\* command is handled and every promise resolved at most once, and resolved
\* only by an answer the server gave to that very command.
ImplementsRemoteCall == Calls!Spec

-----------------------------------------------------------------------------
(* What the code does not do.                                              *)

\* Besides the user's commands, each event that may find both sockets open
\* (two openings and a closing of the text socket) asks for the datasets.
Promise == 1 .. 3 * MaxConnects + MaxCommands

Pending(p) == p \in DOMAIN page.promises /\ page.promises[p].state = "pending"

\* _createCommandPromise: "Wrap the command request in a promise so that the
\* client can be responsible for resolving or rejecting the response to the
\* calling context."
PromisesSettle == \A p \in Promise : Pending(p) ~> ~Pending(p)
=============================================================================
