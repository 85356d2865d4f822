------------------------------ MODULE Clients ------------------------------
(***************************************************************************)
(* The client programs of network/ and libev/: the TCP echo clients, the   *)
(* UDP echo client, the DNS clients and the load generator, each against   *)
(* its server and the network in between.  kind says which is running; the *)
(* variables of the others stand still.                                    *)
(***************************************************************************)
EXTENDS Integers, Sequences

CONSTANTS
    Kinds,                                              \* what to look at
    Programs, Inputs, Chunk, Cap, MaxTyped,             \* of EchoClient
    DnsPrograms, domain, Zone, Ports, MaxFds, MaxDups,  \* of DnsClient
    Connects, Lines, EchoDups,                          \* of UdpEcho
    LoadMax, Batch, LoadFds                             \* of LoadClient

VARIABLES
    kind,
    client, input, typed, ended, newline, taken, chunk, stdineof, ready, pc, out,
    c2s, s2c, closed, sbuf, spc, killed, rst,           \* EchoClient
    program, next, cpc, port, rcv, refused, reg, arg, events, ppc,
    result, calls, net, dups,                           \* DnsClient
    connected, upc, line, printed, up, down, inbox, copied, lost,   \* UdpEcho
    lpc, connections, sockfd, socks, readable, eof, broken, full, todo  \* LoadClient

Echo == INSTANCE EchoClient
Dns == INSTANCE DnsClient
Udp == INSTANCE UdpEcho
Load == INSTANCE LoadClient

echovars == <<client, input, typed, ended, newline, taken, chunk, stdineof, ready, pc, out,
              c2s, s2c, closed, sbuf, spc, killed, rst>>
dnsvars == <<program, next, cpc, port, rcv, refused, reg, arg, events, ppc,
             result, calls, net, dups>>
udpvars == <<connected, upc, line, printed, up, down, inbox, copied, lost>>
loadvars == <<lpc, connections, sockfd, socks, readable, eof, broken, full, todo>>
vars == <<kind, echovars, dnsvars, udpvars, loadvars>>

ASSUME ClientsAssumption ==
    /\ Kinds \subseteq {"echo", "dns", "udp", "load"}
    /\ Echo!EchoClientAssumption
    /\ DnsPrograms \subseteq {"sync", "async"} /\ Connects \subseteq BOOLEAN
    /\ Ports \subseteq Nat \ {0} /\ {MaxFds, MaxDups, Lines, EchoDups} \subseteq Nat
    /\ domain \in Seq(DOMAIN Zone) /\ domain # <<>>
    /\ LoadMax \in Nat \ {0} /\ Batch \in Nat /\ Batch > 1 /\ LoadFds \subseteq Nat \ {0}

NoEcho ==
    /\ client = 0 /\ input = 0 /\ typed = 0 /\ ended = FALSE /\ newline = TRUE /\ taken = 0
    /\ chunk = 0 /\ stdineof = 0 /\ ready = 0 /\ pc = "done" /\ out = 0 /\ c2s = 0 /\ s2c = 0
    /\ closed = 0 /\ sbuf = 0 /\ spc = 0 /\ killed = FALSE /\ rst = 0
NoDns ==
    /\ program = 0 /\ next = 0 /\ cpc = "exit" /\ port = [q \in DOMAIN domain |-> 0]
    /\ rcv = 0 /\ refused = 0 /\ reg = 0 /\ arg = 0 /\ events = 0 /\ ppc = 0
    /\ result = 0 /\ calls = 0 /\ net = {} /\ dups = 0
NoUdp ==
    /\ connected = 0 /\ upc = "exit" /\ line = 0 /\ printed = 0 /\ up = 0 /\ down = 0
    /\ inbox = 0 /\ copied = 0 /\ lost = FALSE
NoLoad ==
    /\ lpc = "exit" /\ connections = 0 /\ sockfd = 0 /\ socks = {} /\ readable = {}
    /\ eof = {} /\ broken = {} /\ full = {} /\ todo = {}

Init ==
    /\ kind \in Kinds
    /\ \/ kind = "echo" /\ Echo!Init /\ NoDns /\ NoUdp /\ NoLoad
       \/ kind = "dns" /\ Dns!Init /\ NoEcho /\ NoUdp /\ NoLoad
       \/ kind = "udp" /\ Udp!Init /\ NoEcho /\ NoDns /\ NoLoad
       \/ kind = "load" /\ Load!Init /\ NoEcho /\ NoDns /\ NoUdp

EchoStep(A) == kind = "echo" /\ A /\ UNCHANGED <<kind, dnsvars, udpvars, loadvars>>
DnsStep(A) == kind = "dns" /\ A /\ UNCHANGED <<kind, echovars, udpvars, loadvars>>
UdpStep(A) == kind = "udp" /\ A /\ UNCHANGED <<kind, echovars, dnsvars, loadvars>>
LoadStep(A) == kind = "load" /\ A /\ UNCHANGED <<kind, echovars, dnsvars, udpvars>>

Next == EchoStep(Echo!Next) \/ DnsStep(Dns!Next) \/ UdpStep(Udp!Next) \/ LoadStep(Load!Next)

Spec == Init /\ [][Next]_vars

(* The processes and threads run whenever they can, users and killers owe      *)
(* nothing.  For the UDP echo a datagram that is not lost arrives in the end;  *)
(* nothing is assumed of the network for the DNS.                              *)
Fairness ==
    /\ WF_vars(EchoStep(Echo!Client)) /\ WF_vars(EchoStep(Echo!Server))
    /\ WF_vars(DnsStep(Dns!Main)) /\ WF_vars(DnsStep(Dns!Proc))
    /\ WF_vars(UdpStep(Udp!Client)) /\ WF_vars(UdpStep(Udp!Deliver))

FairSpec == Spec /\ Fairness
-----------------------------------------------------------------------------
(* Properties *)

\* Every variable of the program that runs stays in its domain; no socket buffer holds
\* more than it can, and the load generator never has more sockets open than it counts.
TypeOK ==
    /\ kind \in Kinds
    /\ kind = "echo" => Echo!TypeOK
    /\ kind = "dns" => Dns!TypeOK
    /\ kind = "udp" => Udp!TypeOK
    /\ kind = "load" => Load!TypeOK /\ Load!Counted

\* Nothing an echo client reads is lost between its input and its output: if it
\* returns normally it has printed all of it, and it says that the server terminated
\* prematurely only of a server that was killed.
EndsRight == kind = "echo" => Echo!EndsRight

\* An echo client and its server are never both stuck in a write, each waiting for the
\* other to empty a full buffer.
NoMutualBlock == kind = "echo" => Echo!NoMutualBlock

\* However datagrams are lost and reordered: what a DNS client prints for a query is what
\* the server's zone says of the name it asked for, or nothing.  Only after a datagram
\* was duplicated may it be what the zone says of a name it asked for earlier: an answer
\* that comes late reaches the socket that has the port then, and its id is not compared.
Truthful == kind = "dns" => Dns!Truthful

\* Whatever is lost, duplicated and delayed: a DNS query is answered at most once, with
\* its own answer as long as nothing was duplicated and never with the answer to a later
\* query, and no event refers to a freed context; and the k-th echo the UDP client prints is one of
\* the first k lines, the k-th itself when nothing was duplicated.
OnceEach ==
    /\ kind = "dns" => Dns!OnceEach
    /\ kind = "udp" => Udp!EchoInTurn

\* An echo client whose input ends, ends, unless it does not hear of it; the client of d1
\* ends or, when the last line of its input has no newline, holds its echo and waits for
\* the newline in Readline() while the server waits for the client.  Those with an event
\* loop notice that the server was killed although nothing is typed.
Ends ==
    /\ (kind = "echo" /\ ended) ~> pc \in {"done", "quit"} \/ ~Echo!Hears \/ Echo!HalfLine
    /\ (kind = "echo" /\ killed) ~> pc \in {"done", "quit", "deaf"} \/ client = "line"

\* A DNS answer that has reached a socket is read and the socket is closed, also when
\* it was there before the socket was registered and whatever became of other queries;
\* the UDP client waits for ever only when a datagram was lost.
Answered ==
    /\ \A q \in DOMAIN domain :
          (kind = "dns" /\ Dns!Ready(q)) ~> port[q] = 0 \/ arg[q] = "failed" \/ cpc = "exit"
    /\ (kind = "udp" /\ upc = "Recvfrom") ~> upc # "Recvfrom" \/ lost
=============================================================================
