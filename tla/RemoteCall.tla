----------------------------- MODULE RemoteCall -----------------------------
(***************************************************************************)
(* What a page may count on when it calls the server: a command is handled *)
(* at most once, and its promise is resolved at most once, by the answer   *)
(* that was given to it.  Ids, callbacks, sockets and the order in which   *)
(* things arrive are the client's affair.  What is under way may be lost.  *)
(***************************************************************************)
EXTENDS Naturals, Sequences

VARIABLES
    calls,      \* the states of the promises, in the order they were made
    requested,  \* the calls that the server has yet to handle
    answered    \* the calls whose answers are on their way

callVars == <<calls, requested, answered>>

Init == calls = <<>> /\ requested = {} /\ answered = {}

\* Whatever happens to the calls, the page may make one more in return.  It is
\* refused if there is nobody to ask, and lost if nobody listens.
MakeOneMore(made, requests) ==
    \/ calls' = made /\ requested' = requests
    \/ calls' = Append(made, "rejected") /\ requested' = requests
    \/ /\ calls' = Append(made, "pending")
       /\ requested' \in {requests, requests \cup {Len(made) + 1}}

Make == MakeOneMore(calls, requested) /\ UNCHANGED answered

Handle(c) ==
    /\ c \in requested
    /\ requested' = requested \ {c}
    /\ answered' \in {answered, answered \cup {c}}
    /\ UNCHANGED calls

Return(c) ==
    /\ c \in answered /\ calls[c] = "pending"
    /\ answered' = answered \ {c}
    /\ MakeOneMore([calls EXCEPT ![c] = "resolved"], requested)

Lose ==
    /\ answered' \subseteq answered
    /\ \E kept \in SUBSET requested : MakeOneMore(calls, kept)

Next == Make \/ Lose \/ \E c \in DOMAIN calls : Handle(c) \/ Return(c)

Spec == Init /\ [][Next]_callVars
=============================================================================
