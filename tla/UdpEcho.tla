------------------------------ MODULE UdpEcho ------------------------------
(***************************************************************************)
(* network/udp/d6: dg_cli(), or dg_cli_with_connect(), against dg_echo(),  *)
(* over a network that loses, duplicates and reorders datagrams.  Lines    *)
(* are numbered as they are read; 0 is what a stranger sends.  The client  *)
(* sends each line once and takes whatever comes next for its echo.        *)
(***************************************************************************)
EXTENDS Integers, Sequences

CONSTANTS
    Connects,   \* whether the client's socket may be connected: a set of BOOLEAN
    Lines,      \* bound: how many lines are read
    EchoDups    \* bound: how many datagrams are duplicated

VARIABLES
    connected,          \* dg_cli_with_connect() is running
    upc,                \* where the client is
    line,               \* the lines read so far
    printed,            \* what was printed
    up, down,           \* the datagrams on their way to the server and to the client
    inbox,              \* the client's receive buffer
    copied, lost        \* how many datagrams were duplicated; whether one was lost

netvars == <<up, down, copied, lost>>
vars == <<connected, upc, line, printed, netvars, inbox>>

Init ==
    /\ connected \in Connects
    /\ upc = "Fgets" /\ line = 0 /\ printed = <<>>
    /\ up = {} /\ down = {} /\ inbox = <<>>
    /\ copied = 0 /\ lost = FALSE

\* Fgets() and Sendto() or Write().
Sendto ==
    /\ upc = "Fgets" /\ line < Lines
    /\ line' = line + 1
    /\ up' = up \cup {line'}
    /\ upc' = "Recvfrom"
    /\ UNCHANGED <<connected, printed, down, inbox, copied, lost>>

end_of_file ==
    /\ upc = "Fgets"
    /\ upc' = "exit"
    /\ UNCHANGED <<connected, line, printed, netvars, inbox>>

\* Mutant: the client does not wait.
Recvfrom_polls ==
    /\ upc = "Recvfrom"
    /\ printed' = IF inbox = <<>> THEN Append(printed, line + 1) ELSE Append(printed, Head(inbox))
    /\ inbox' = IF inbox = <<>> THEN inbox ELSE Tail(inbox)
    /\ upc' = "Fgets"
    /\ UNCHANGED <<connected, line, netvars>>

\* Recvfrom() or Read(), and Fputs().
Recvfrom ==
    /\ upc = "Recvfrom" /\ inbox # <<>>
    /\ printed' = Append(printed, Head(inbox))
    /\ inbox' = Tail(inbox)
    /\ upc' = "Fgets"
    /\ UNCHANGED <<connected, line, netvars>>

\* Read() of a connected socket fails when the datagram was refused: err_sys().
Read_fails ==
    /\ connected /\ upc = "Recvfrom" /\ up # {}
    /\ \E n \in up : up' = up \ {n}
    /\ lost' = TRUE
    /\ upc' = "exit"
    /\ UNCHANGED <<connected, line, printed, down, inbox, copied>>

\* n leaves the set, or stays there as a duplicate.
Taken(set, n, rest) ==
    \/ rest = set \ {n} /\ UNCHANGED copied
    \/ copied < EchoDups /\ rest = set /\ copied' = copied + 1

\* Recvfrom() and Sendto() of the server.
dg_echo(n) ==
    /\ n \in up
    /\ Taken(up, n, up')
    /\ down' = down \cup {n}
    /\ UNCHANGED <<connected, upc, line, printed, inbox, lost>>

\* The kernel gives a connected socket only what comes from its peer.
arrive(n) ==
    /\ n \in down
    /\ Taken(down, n, down')
    /\ inbox' = IF Len(inbox) < 2 THEN Append(inbox, n) ELSE inbox
    /\ UNCHANGED <<connected, upc, line, printed, up, lost>>

stranger ==
    /\ ~connected /\ copied < EchoDups /\ Len(inbox) < 2
    /\ copied' = copied + 1
    /\ inbox' = Append(inbox, 0)
    /\ UNCHANGED <<connected, upc, line, printed, up, down, lost>>

lose(n) ==
    /\ \/ n \in up /\ up' = up \ {n} /\ UNCHANGED down
       \/ n \in down /\ down' = down \ {n} /\ UNCHANGED up
    /\ lost' = TRUE
    /\ UNCHANGED <<connected, upc, line, printed, inbox, copied>>

Client == Sendto \/ end_of_file \/ Recvfrom \/ Read_fails
Deliver == \E n \in 1..Lines : dg_echo(n) \/ arrive(n)
Network == Deliver \/ stranger \/ \E n \in 1..Lines : lose(n)

Next == Client \/ Network
-----------------------------------------------------------------------------
(* Properties *)

\* Every variable stays in its domain.
TypeOK ==
    /\ connected \in Connects /\ line \in 0..Lines /\ copied \in 0..EchoDups
    /\ upc \in {"Fgets", "Recvfrom", "exit"} /\ lost \in BOOLEAN
    /\ up \subseteq 1..Lines /\ down \subseteq 1..Lines
    /\ Len(inbox) <= 2

\* However datagrams are duplicated and delayed, what is printed in the k-th turn is one
\* of the first k lines or a stranger's; a connected client prints no stranger's; and
\* as long as nothing was lost, duplicated or strange, it is the k-th line itself.
EchoInTurn ==
    /\ \A k \in DOMAIN printed : printed[k] \in 0..k
    /\ connected => \A k \in DOMAIN printed : printed[k] # 0
    /\ copied = 0 => \A k \in DOMAIN printed : printed[k] = k
=============================================================================
