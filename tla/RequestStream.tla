--------------------------- MODULE RequestStream ---------------------------
(***************************************************************************)
(* What a connection promises its client, without saying how: the messages *)
(* the client has sent are handled in the order they were sent, each once  *)
(* and as it was meant, none before all of it has been sent.  The promise  *)
(* ends at the first message that is not plain: after it the server may    *)
(* take anything for a request.                                            *)
(***************************************************************************)
EXTENDS Naturals, Sequences

CONSTANTS
    Clients,
    IsPlain(_),      \* whether a message has to be taken as it is
    Means(_),        \* what is handled then
    Results          \* what may be handled at all

VARIABLES
    messages,        \* per client: what it is going to send
    sent,            \* per client: how many of them have been sent
    handled          \* per client: what has been handled

vars == <<messages, sent, handled>>

Init ==
    /\ sent = [c \in Clients |-> 0]
    /\ handled = [c \in Clients |-> <<>>]

\* More of the client's messages have been sent.
Send(c) ==
    /\ sent' \in [Clients -> Nat]
    /\ sent'[c] \in sent[c] .. Len(messages[c])
    /\ \A d \in Clients \ {c} : sent'[d] = sent[d]
    /\ UNCHANGED <<messages, handled>>

PlainUpTo(c, n) == n <= Len(messages[c]) /\ \A i \in 1 .. n : IsPlain(messages[c][i])

Handle(c) ==
    LET n == Len(handled[c]) + 1
    IN  /\ PlainUpTo(c, n) /\ n <= sent[c]
        /\ handled' = [handled EXCEPT ![c] = Append(@, Means(messages[c][n]))]
        /\ UNCHANGED <<messages, sent>>

\* A message that is not plain has had its turn.
Stray(c) ==
    /\ \E i \in 1 .. Len(messages[c]) : i <= Len(handled[c]) + 1 /\ ~ IsPlain(messages[c][i])
    /\ \E r \in Results : handled' = [handled EXCEPT ![c] = Append(@, r)]
    /\ UNCHANGED <<messages, sent>>

Next == \E c \in Clients : Send(c) \/ Handle(c) \/ Stray(c)

Spec == Init /\ [][Next]_vars

=============================================================================
