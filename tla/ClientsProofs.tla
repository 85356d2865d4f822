---------------------------- MODULE ClientsProofs ----------------------------
(***************************************************************************)
(* Proofs about the clients: the echo clients lose nothing and are never   *)
(* stuck against their server, for every size of the buffers; the DNS      *)
(* clients answer every query at most once, for any number of queries,     *)
(* ports and descriptors; the UDP client prints its echoes in turn; the    *)
(* load generator keeps its limit.                                         *)
(***************************************************************************)
EXTENDS Clients, FiniteSetTheorems, TLAPS

\* Nothing of a program moves while another one runs.
LEMMA OneKind ==
    ASSUME [Next]_vars
    PROVE  /\ kind' = kind
           /\ kind = "echo" => Echo!Next \/ UNCHANGED echovars
           /\ kind = "dns" => Dns!Next \/ UNCHANGED dnsvars
           /\ kind = "udp" => Udp!Next \/ UNCHANGED udpvars
           /\ kind = "load" => Load!Next \/ UNCHANGED loadvars
  BY DEF Next, vars, EchoStep, DnsStep, UdpStep, LoadStep

-----------------------------------------------------------------------------
(* The echo clients *)

\* What the client has read and not yet seen again.
InFlight == chunk + c2s + sbuf + s2c

\* Echo!TypeOK but for the flags.
EchoTypes ==
    /\ client \in Programs /\ input \in Inputs
    /\ typed \in 0..MaxTyped /\ taken \in 0..typed /\ out \in Nat
    /\ chunk \in 0..Chunk /\ sbuf \in 0..Chunk
    /\ c2s \in 0..Cap /\ s2c \in 0..Cap
    /\ ready \subseteq {"sock", "stdin"}
    /\ pc \in {"wait", "handle", "write", "answer", "done", "quit", "deaf"}
    /\ spc \in {"read", "write", "gone"}

\* Nothing comes from nowhere, and nothing is lost before the server is killed.
Balance ==
    /\ InFlight + out <= taken
    /\ ~killed /\ pc # "quit" => taken = InFlight + out
    /\ pc = "write" => chunk > 0
    /\ pc \notin {"write", "quit"} => chunk = 0
    /\ spc = "read" => sbuf = 0
    /\ spc = "write" => sbuf > 0

\* The order in which the two sides end: the client shuts down after all of its input
\* was read, and the server ends by itself only after that, or after the client.
Ending ==
    /\ stdineof => ended /\ taken = typed /\ "stdin" \notin ready /\ pc # "write"
    /\ client = "libev" => ~stdineof
    /\ closed => stdineof \/ pc \in {"done", "quit", "deaf"}
    /\ killed => spc = "gone"
    /\ spc = "gone" /\ ~killed =>
          pc \in {"done", "quit"} \/ (c2s = 0 /\ sbuf = 0 /\ closed)
    /\ rst => killed
    /\ pc \in {"quit", "deaf"} => killed
    /\ pc = "done" => ended /\ taken = typed
    /\ pc = "done" /\ ~killed => out = typed

\* The line client has at most one line in flight.
LineByLine ==
    /\ pc = "answer" => client = "line"
    /\ client = "line" =>
          /\ pc \in {"wait", "write", "answer", "done", "quit"}
          /\ ~stdineof /\ ready = {}
          /\ pc = "wait" /\ ~killed => taken = out
          /\ pc \in {"write", "answer"} /\ ~killed => taken = out + 1

\* The others read the socket as often as they write it, so what is in flight never
\* fills both buffers: a turn that does not read begins with an empty s2c, and one
\* that does takes out as much as it puts in.
KeepsPace ==
    /\ pc = "write" => "stdin" \notin ready
    /\ client # "line" =>
          /\ pc = "wait" => InFlight <= Cap + 2 * Chunk
          /\ pc = "handle" /\ "stdin" \in ready => InFlight <= Cap + 2 * Chunk
          /\ pc = "handle" /\ "sock" \notin ready => InFlight <= Cap + Chunk
          /\ pc = "write" /\ "sock" \notin ready => InFlight <= Cap + 2 * Chunk
          /\ pc \in {"handle", "write"} =>
                InFlight <= Cap + 3 * Chunk /\ InFlight <= Cap + 2 * Chunk + s2c

EchoInv == EchoTypes /\ Balance /\ Ending /\ LineByLine /\ KeepsPace

\* The sizes are natural numbers, and two buffers hold more than three chunks.
LEMMA Sizes == Chunk \in Nat /\ Chunk > 0 /\ Cap \in Nat /\ Cap >= 3 * Chunk - 1 /\ MaxTyped \in Nat
  BY ClientsAssumption DEF Echo!EchoClientAssumption

\* The client's socket, its server and its user.
LEMMA ServerKeeps ==
    ASSUME EchoInv, Echo!User \/ Echo!Server \/ Echo!skill
    PROVE  EchoInv'
<1> USE Sizes DEF EchoInv, EchoTypes, Balance, Ending, LineByLine, KeepsPace, InFlight,
                  Echo!uservars, Echo!clientvars, Echo!servervars
<1>1. CASE Echo!type
  BY <1>1 DEF Echo!type
<1>2. CASE Echo!end_of_input
  BY <1>2 DEF Echo!end_of_input
<1>3. CASE Echo!sread
  BY <1>3 DEF Echo!sread, Echo!Read
<1>4. CASE Echo!swrite
  BY <1>4 DEF Echo!swrite
<1>5. CASE Echo!sexit
  BY <1>5 DEF Echo!sexit
<1>6. CASE Echo!skill
  BY <1>6 DEF Echo!skill
<1>7. QED
  BY <1>1, <1>2, <1>3, <1>4, <1>5, <1>6 DEF Echo!User, Echo!Server
\* The client's own steps.
LEMMA ClientKeeps ==
    ASSUME EchoInv, Echo!Client
    PROVE  EchoInv'
<1> USE Sizes DEF EchoInv, EchoTypes, Balance, Ending, LineByLine, KeepsPace, InFlight,
                  Echo!uservars, Echo!clientvars, Echo!servervars
<1>1. CASE Echo!wait
  BY <1>1 DEF Echo!wait, Echo!SeesInput, Echo!SeesSocket
<1>2. CASE Echo!sock_data
  BY <1>2 DEF Echo!sock_data, Echo!MayHandle, Echo!Handled, Echo!Read
<1>3. CASE Echo!sock_end
  BY <1>3 DEF Echo!sock_end, Echo!MayHandle, Echo!Handled
<1>4. CASE Echo!conn_cb_end
  BY <1>4 DEF Echo!conn_cb_end, Echo!MayHandle, Echo!Handled
<1>5. CASE Echo!stdin_data
  BY <1>5 DEF Echo!stdin_data, Echo!MayHandle, Echo!Handled
<1>6. CASE Echo!stdin_end
  BY <1>6 DEF Echo!stdin_end, Echo!MayHandle, Echo!Handled
<1>7. CASE Echo!stdin_cb_end
  BY <1>7 DEF Echo!stdin_cb_end, Echo!MayHandle, Echo!Handled
<1>8. CASE Echo!stdin_cb_deaf
  BY <1>8 DEF Echo!stdin_cb_deaf
<1>9. CASE Echo!write
  BY <1>9 DEF Echo!write, Echo!AfterWrite
<1>10. CASE Echo!sigpipe
  BY <1>10 DEF Echo!sigpipe
<1>11. CASE Echo!Fgets
  <2>1. CASE pc' = "write"
    BY <1>11, <2>1 DEF Echo!Fgets
  <2>2. CASE pc' = "done"
    BY <1>11, <2>2 DEF Echo!Fgets
  <2>3. QED
    BY <1>11, <2>1, <2>2 DEF Echo!Fgets
<1>12. CASE Echo!Readline
  BY <1>12 DEF Echo!Readline
<1>13. QED
  BY <1>1, <1>2, <1>3, <1>4, <1>5, <1>6, <1>7, <1>8, <1>9, <1>10, <1>11, <1>12 DEF Echo!Client

\* From the start, and in every step of client, server, user and killer.
LEMMA EchoInductive == Spec => [](kind = "echo" => EchoInv)
<1> DEFINE I == kind = "echo" => EchoInv
<1>1. Init => I
  <2>1. ASSUME Echo!Init
        PROVE  EchoInv
    BY <2>1, Sizes
    DEF Echo!Init, Echo!Connected, Echo!Fresh, EchoInv, EchoTypes, Balance, Ending, LineByLine,
        KeepsPace, InFlight
  <2>2. QED
    BY <2>1 DEF Init
<1>2. I /\ [Next]_vars => I'
  <2>1. ASSUME EchoInv, UNCHANGED echovars
        PROVE  EchoInv'
    BY <2>1 DEF echovars, EchoInv, EchoTypes, Balance, Ending, LineByLine, KeepsPace, InFlight
  <2>2. ASSUME EchoInv, Echo!Next
        PROVE  EchoInv'
    BY <2>2, ServerKeeps, ClientKeeps DEF Echo!Next
  <2>3. QED
    BY <2>1, <2>2, OneKind
<1>3. QED
  BY <1>1, <1>2, PTL DEF Spec

\* What an echo client reads is accounted for at every moment; one that returns
\* normally has printed all of it; "server terminated prematurely" is true: for every
\* size of the buffers and every order of typing, echoing, ending and killing.
THEOREM EndsRightHolds == Spec => []EndsRight
<1>1. (kind = "echo" => EchoInv) => EndsRight
  BY DEF EndsRight, Echo!EndsRight, EchoInv, EchoTypes, Balance, Ending, InFlight
<1>2. QED
  BY <1>1, EchoInductive, PTL

\* Client and server are never both stuck in a write, for every size of the buffers of
\* which a socket's holds three.
THEOREM NoMutualBlockHolds == Spec => []NoMutualBlock
<1>1. (kind = "echo" => EchoInv) => NoMutualBlock
  BY Sizes
  DEF NoMutualBlock, Echo!NoMutualBlock, EchoInv, EchoTypes, Balance, Ending, LineByLine,
      KeepsPace, InFlight
<1>2. QED
  BY <1>1, EchoInductive, PTL
-----------------------------------------------------------------------------
(* The DNS clients *)

Queries == 1..Len(domain)

\* The names are numbered from 1, there is one, and no port is 0.
LEMMA Numbered ==
    /\ Dns!Queries = Queries /\ Len(domain) \in Nat /\ Len(domain) > 0
    /\ Ports \subseteq Nat \ {0} /\ MaxDups \in Nat /\ MaxFds \in Nat
  BY ClientsAssumption DEF Dns!Queries, Queries

DnsTypes ==
    /\ program \in DnsPrograms /\ program \in {"sync", "async"}
    /\ next \in 1..(Len(domain) + 1)
    /\ cpc \in {"commit", "recvfrom", "add", "getchar", "exit"}
    /\ cpc \in {"commit", "recvfrom", "add"} => next \in Queries
    /\ port \in [Queries -> Ports \cup {0}]
    /\ reg \subseteq Queries /\ events \subseteq Queries
    /\ arg \in [Queries -> {"none", "live", "failed", "freed"}]
    /\ calls \in [Queries -> 0..1]
    /\ ppc \in Queries \cup {0} /\ dups \in 0..MaxDups

\* main() is done with the queries before next; none after it is known to anybody.
MainInv ==
    /\ \A q \in Queries : q >= next => calls[q] = 0 /\ arg[q] = "none" /\ q \notin reg
    /\ cpc \in {"add", "recvfrom"} => port[next] # 0
    /\ cpc = "recvfrom" => program = "sync"

\* Who is registered waits for its first answer, but for the one being finished.
ProcInv ==
    /\ program = "sync" => reg = {} /\ cpc # "add"
    /\ events \subseteq reg
    /\ ppc # 0 => ppc \in events
    /\ \A q \in reg : arg[q] = "live" /\ port[q] # 0 /\ (q # ppc => calls[q] = 0)
    /\ \A q \in Queries : arg[q] = "freed" => port[q] = 0

DnsInv == DnsTypes /\ MainInv /\ ProcInv

\* The steps of main(), which opens the sockets and registers them.
LEMMA DnsMainKeeps ==
    ASSUME DnsInv, Dns!Main
    PROVE  DnsInv'
<1> USE Numbered DEF DnsInv, DnsTypes, MainInv, ProcInv, Queries, Dns!procvars
<1>1. CASE Dns!commit
  <2>1. /\ cpc = "commit" /\ cpc' = IF program = "sync" THEN "recvfrom" ELSE "add"
        /\ UNCHANGED <<program, next, reg, arg, events, ppc, calls, dups>>
    BY <1>1 DEF Dns!commit
  <2>2. PICK p \in Ports : port' = [port EXCEPT ![next] = p]
    BY <1>1 DEF Dns!commit
  <2>3. p # 0
    BY <2>2
  <2>4. QED
    BY <2>1, <2>2, <2>3
<1>2. CASE Dns!commit_exit
  BY <1>2 DEF Dns!commit_exit
<1>3. CASE Dns!add
  BY <1>3 DEF Dns!add, Dns!NextQuery
<1>4. CASE Dns!add_fails
  BY <1>4 DEF Dns!add_fails, Dns!NextQuery
<1>5. CASE Dns!recvfrom
  <2>1. /\ cpc = "recvfrom" /\ calls' = [calls EXCEPT ![next] = @ + 1]
        /\ port' = [port EXCEPT ![next] = 0] /\ next' = next + 1
        /\ cpc' = IF next' \in Queries THEN "commit" ELSE "getchar"
        /\ UNCHANGED <<program, reg, arg, events, ppc, dups>>
    BY <1>5 DEF Dns!recvfrom, Dns!Answer, Dns!Shut, Dns!NextQuery
  <2>2. QED
    BY <2>1
<1>6. QED
  BY <1>1, <1>2, <1>3, <1>4, <1>5 DEF Dns!Main

\* The steps of dns_async_client_proc(), which answers, unregisters and frees.
LEMMA DnsProcKeeps ==
    ASSUME DnsInv, Dns!Proc
    PROVE  DnsInv'
<1> USE Numbered DEF DnsInv, DnsTypes, MainInv, ProcInv, Queries, Dns!mainvars
<1>1. CASE Dns!epoll_wait
  <2>1. events' \subseteq reg
    BY <1>1 DEF Dns!epoll_wait
  <2>2. events = {} /\ UNCHANGED <<program, next, cpc, port, reg, arg, ppc, calls, dups>>
    BY <1>1 DEF Dns!epoll_wait
  <2>3. QED
    BY <2>1, <2>2
<1>2. ASSUME NEW q \in Queries, Dns!proc_recvfrom(q)
      PROVE  DnsInv'
  <2>1. /\ ppc = 0 /\ q \in events /\ ppc' = q /\ calls' = [calls EXCEPT ![q] = @ + 1]
        /\ UNCHANGED <<program, next, cpc, port, reg, arg, events, dups>>
    BY <1>2 DEF Dns!proc_recvfrom, Dns!Answer
  <2>2. q # 0 /\ calls[q] = 0 /\ q \in reg
    BY <2>1
  <2>3. QED
    BY <2>1, <2>2
<1>3. CASE Dns!proc_finish
  BY <1>3 DEF Dns!proc_finish, Dns!Shut
<1>4. QED
  BY <1>1, <1>2, <1>3 DEF Dns!Proc

\* Whatever the network does to datagrams, the books are left alone.
LEMMA DnsNetworkKeeps ==
    ASSUME DnsInv, Dns!Network
    PROVE  DnsInv'
<1> USE Numbered DEF DnsInv, DnsTypes, MainInv, ProcInv, Dns!mainvars, Dns!procvars
<1>1. PICK d \in net : Dns!serve(d) \/ Dns!deliver(d) \/ Dns!lose(d) \/ Dns!refuse(d)
  BY DEF Dns!Network
<1>2. UNCHANGED <<program, next, cpc, port, reg, arg, events, ppc, calls>>
  BY <1>1 DEF Dns!serve, Dns!deliver, Dns!lose, Dns!refuse
<1>3. dups' \in 0..MaxDups
  <2>1. dups' = dups \/ (dups < MaxDups /\ dups' = dups + 1)
    BY <1>1 DEF Dns!serve, Dns!deliver, Dns!lose, Dns!refuse, Dns!Consumed
  <2>2. QED
    BY <2>1
<1>4. QED
  BY <1>2, <1>3

\* From the start, and in every step of the client and of the network.
LEMMA DnsInductive == Spec => [](kind = "dns" => DnsInv)
<1> DEFINE I == kind = "dns" => DnsInv
<1>1. Init => I
  <2>1. ASSUME Dns!Init
        PROVE  DnsInv
    BY <2>1, Numbered, ClientsAssumption DEF Dns!Init, DnsInv, DnsTypes, MainInv, ProcInv, Queries
  <2>2. QED
    BY <2>1 DEF Init
<1>2. I /\ [Next]_vars => I'
  <2>1. ASSUME DnsInv, UNCHANGED dnsvars
        PROVE  DnsInv'
    BY <2>1 DEF dnsvars, DnsInv, DnsTypes, MainInv, ProcInv
  <2>2. ASSUME DnsInv, Dns!Next
        PROVE  DnsInv'
    BY <2>2, DnsMainKeeps, DnsProcKeeps, DnsNetworkKeeps DEF Dns!Next
  <2>3. QED
    BY <2>1, <2>2, OneKind
<1>3. QED
  BY <1>1, <1>2, PTL DEF Spec

-----------------------------------------------------------------------------
(* The UDP echo client *)

\* Udp!TypeOK but for lost; only lines that were read are on their way, and every turn
\* but the present one has printed something.
UdpTypes ==
    /\ connected \in Connects /\ line \in 0..Lines /\ copied \in 0..EchoDups
    /\ upc \in {"Fgets", "Recvfrom", "exit"}
    /\ up \subseteq 1..line /\ down \subseteq 1..line
    /\ inbox \in Seq(0..line) /\ Len(inbox) <= 2
    /\ printed \in Seq(Nat)
    /\ upc = "Fgets" => Len(printed) = line
    /\ upc = "Recvfrom" => Len(printed) = line - 1

\* A connected socket receives nothing from strangers.
NoStranger == connected => \A k \in 1..Len(inbox) : inbox[k] # 0

\* As long as nothing was duplicated, a turn begins with nothing on its way, and then
\* its line is in at most one place.
OneDatagram ==
    copied = 0 =>
        /\ upc = "Fgets" => up = {} /\ down = {} /\ inbox = <<>>
        /\ upc = "Recvfrom" =>
              \/ up \subseteq {line} /\ down = {} /\ inbox = <<>>
              \/ up = {} /\ down \subseteq {line} /\ inbox = <<>>
              \/ up = {} /\ down = {} /\ inbox = <<line>>

UdpInv == UdpTypes /\ NoStranger /\ OneDatagram /\ Udp!EchoInTurn

\* Lines and EchoDups are natural numbers.
LEMMA UdpSizes == Lines \in Nat /\ EchoDups \in Nat
  BY ClientsAssumption

\* Everything but reading and printing an echo.
LEMMA UdpOtherKeeps ==
    ASSUME UdpInv, \/ Udp!Sendto \/ Udp!end_of_file \/ Udp!Read_fails \/ Udp!Network
    PROVE  UdpInv'
<1> USE UdpSizes DEF UdpInv, UdpTypes, NoStranger, OneDatagram, Udp!EchoInTurn, Udp!netvars
<1>1. CASE Udp!Sendto
  BY <1>1 DEF Udp!Sendto
<1>2. CASE Udp!end_of_file
  BY <1>2 DEF Udp!end_of_file
<1>3. CASE Udp!Read_fails
  BY <1>3 DEF Udp!Read_fails
<1>4. ASSUME NEW n \in 1..Lines, Udp!dg_echo(n)
      PROVE  UdpInv'
  <2>1. /\ n \in up /\ n \in 1..line /\ down' = down \cup {n}
        /\ \/ up' = up \ {n} /\ copied' = copied
           \/ copied < EchoDups /\ up' = up /\ copied' = copied + 1
        /\ UNCHANGED <<connected, upc, line, printed, inbox, lost>>
    BY <1>4 DEF Udp!dg_echo, Udp!Taken
  <2>2. UdpTypes'
    <3>1. copied' \in 0..EchoDups
      BY <2>1
    <3>2. up' \subseteq up /\ up \subseteq 1..line /\ down \subseteq 1..line
      BY <2>1
    <3>3. up' \subseteq 1..line /\ down' \subseteq 1..line
      BY <2>1, <3>2
    <3>4. QED
      BY <2>1, <3>1, <3>3
  <2>3. OneDatagram'
    <3>1. CASE copied' = 0
      <4>1. copied = 0 /\ up' = up \ {n} /\ upc # "Fgets"
        BY <2>1, <3>1
      <4>2. upc = "Recvfrom" => n = line /\ up' = {} /\ down' = {line} /\ inbox = <<>>
        BY <2>1, <4>1
      <4>3. QED
        BY <2>1, <4>1, <4>2
    <3>2. QED
      BY <3>1
  <2>4. NoStranger' /\ Udp!EchoInTurn'
    BY <2>1
  <2>5. QED
    BY <2>2, <2>3, <2>4
<1>5. ASSUME NEW n \in 1..Lines, Udp!arrive(n)
      PROVE  UdpInv'
  <2>1. /\ n \in down /\ n \in 1..line
        /\ \/ down' = down \ {n} /\ copied' = copied
           \/ copied < EchoDups /\ down' = down /\ copied' = copied + 1
        /\ inbox' = Append(inbox, n) \/ inbox' = inbox
        /\ inbox' = Append(inbox, n) => Len(inbox) < 2
        /\ Len(inbox) < 2 => inbox' = Append(inbox, n)
        /\ UNCHANGED <<connected, upc, line, printed, up, lost>>
    BY <1>5 DEF Udp!arrive, Udp!Taken
  <2>2. UdpTypes'
    <3>1. line \in Nat /\ 0..line \subseteq Nat /\ n \in 0..line
      BY <2>1
    <3>2. inbox' \in Seq(0..line) /\ Len(inbox') <= 2
      <4> DEFINE S == 0..line
      <4>1. inbox \in Seq(S) /\ n \in S /\ Len(inbox) <= 2
        BY <3>1
      <4> HIDE DEF S
      <4>2. Append(inbox, n) \in Seq(S) /\ Len(Append(inbox, n)) = Len(inbox) + 1
        BY <4>1
      <4>3. inbox' \in Seq(S) /\ Len(inbox') <= 2
        BY <2>1, <4>1, <4>2
      <4>4. QED
        BY <4>3 DEF S
    <3>3. copied' \in 0..EchoDups
      BY <2>1
    <3>4. down' \subseteq down /\ down \subseteq 1..line
      BY <2>1
    <3>5. QED
      BY <2>1, <3>2, <3>3, <3>4
  <2>3. NoStranger'
    <3>1. n # 0 /\ connected' = connected
      BY <2>1
    <3>2. CASE inbox' = inbox
      BY <3>1, <3>2
    <3>3. CASE inbox' = Append(inbox, n)
      <4>1. inbox \in Seq(0..line)
        OBVIOUS
      <4>2. \A k \in 1..Len(inbox') : inbox'[k] = IF k = Len(inbox) + 1 THEN n ELSE inbox[k]
        BY <3>3, <4>1
      <4>3. Len(inbox') = Len(inbox) + 1 /\ Len(inbox) \in Nat
        BY <3>3, <4>1
      <4>4. QED
        BY <3>1, <4>2, <4>3
    <3>4. QED
      BY <2>1, <3>2, <3>3
  <2>4. OneDatagram'
    <3>1. CASE copied' = 0
      <4>1. copied = 0 /\ down' = down \ {n}
        BY <2>1, <3>1
      <4>2. upc # "Fgets"
        BY <2>1, <4>1
      <4>3. upc = "Recvfrom" => n = line /\ up = {} /\ down' = {} /\ inbox = <<>>
        BY <2>1, <4>1
      <4>4. upc = "Recvfrom" => inbox' = <<line>>
        BY <2>1, <4>3
      <4>5. QED
        BY <2>1, <4>2, <4>3, <4>4
    <3>2. QED
      BY <3>1
  <2>5. Udp!EchoInTurn'
    BY <2>1
  <2>6. QED
    BY <2>2, <2>3, <2>4, <2>5
<1>6. CASE Udp!stranger
  <2>1. /\ ~connected /\ copied < EchoDups /\ Len(inbox) < 2
        /\ copied' = copied + 1 /\ inbox' = Append(inbox, 0)
        /\ UNCHANGED <<connected, upc, line, printed, up, down, lost>>
    BY <1>6 DEF Udp!stranger
  <2>2. UdpTypes'
    BY <2>1
  <2>3. NoStranger'
    BY <2>1
  <2>4. OneDatagram' /\ Udp!EchoInTurn'
    BY <2>1
  <2>5. QED
    BY <2>2, <2>3, <2>4
<1>7. ASSUME NEW n \in 1..Lines, Udp!lose(n)
      PROVE  UdpInv'
  BY <1>7 DEF Udp!lose
<1>8. QED
  BY <1>1, <1>2, <1>3, <1>4, <1>5, <1>6, <1>7 DEF Udp!Network, Udp!Deliver
\* What is printed in this turn is a line that was read, or a stranger's; and this
\* turn's line when only that was on its way.
LEMMA RecvfromKeeps ==
    ASSUME UdpInv, Udp!Recvfrom
    PROVE  UdpInv'
<1> DEFINE c == Head(inbox)
           S == 0..line
<1>1. /\ upc = "Recvfrom" /\ inbox # <<>> /\ printed' = Append(printed, c)
      /\ inbox' = Tail(inbox) /\ upc' = "Fgets"
      /\ UNCHANGED <<connected, line, up, down, copied, lost>>
  BY DEF Udp!Recvfrom, Udp!netvars
<1>2. /\ line \in Nat /\ S \subseteq Nat /\ inbox \in Seq(S) /\ Len(inbox) <= 2
      /\ printed \in Seq(Nat) /\ Len(printed) = line - 1
  BY <1>1, UdpSizes DEF UdpInv, UdpTypes
<1>3. /\ c \in S /\ c = inbox[1] /\ Len(inbox) > 0
      /\ Tail(inbox) \in Seq(S) /\ Len(Tail(inbox)) = Len(inbox) - 1
      /\ \A k \in 1..(Len(inbox) - 1) : Tail(inbox)[k] = inbox[k + 1]
  <2> HIDE DEF S
  <2>1. QED
    BY <1>1, <1>2
<1>4. c \in Nat /\ c <= line
  BY <1>2, <1>3
<1>5. /\ printed' \in Seq(Nat) /\ Len(printed') = line
      /\ \A k \in 1..(line - 1) : printed'[k] = printed[k]
      /\ printed'[line] = c
  <2> HIDE DEF c, S
  <2>1. QED
    BY <1>1, <1>2, <1>4
<1>6. UdpTypes'
  <2>1. inbox' \in Seq(0..line) /\ Len(inbox') <= 2
    <3> HIDE DEF S
    <3>1. inbox' \in Seq(S) /\ Len(inbox') <= 2
      BY <1>1, <1>2, <1>3
    <3>2. QED
      BY <3>1 DEF S
  <2>2. QED
    BY <1>1, <1>5, <2>1 DEF UdpInv, UdpTypes
<1>7. NoStranger'
  BY <1>1, <1>2, <1>3 DEF UdpInv, NoStranger
<1>8. copied = 0 => c = line /\ up = {} /\ down = {} /\ Tail(inbox) = <<>>
  BY <1>1, <1>2 DEF UdpInv, OneDatagram
<1>9. OneDatagram'
  BY <1>1, <1>8 DEF OneDatagram
<1>10. Udp!EchoInTurn'
  <2>1. DOMAIN printed = 1..(line - 1) /\ DOMAIN printed' = 1..line
    BY <1>2, <1>5
  <2>2. connected => c # 0
    BY <1>3, <1>2 DEF UdpInv, NoStranger
  <2>3. ASSUME NEW k \in 1..line
        PROVE  /\ printed'[k] \in 0..k
               /\ connected => printed'[k] # 0
               /\ copied = 0 => printed'[k] = k
    <3>1. CASE k = line
      BY <1>2, <1>4, <1>5, <1>8, <2>2, <3>1
    <3>2. CASE k # line
      <4>1. k \in 1..(line - 1)
        BY <1>2, <3>2
      <4>2. QED
        BY <1>5, <2>1, <4>1 DEF UdpInv, Udp!EchoInTurn
    <3>3. QED
      BY <3>1, <3>2
  <2>4. QED
    BY <1>1, <2>1, <2>3 DEF Udp!EchoInTurn
<1>11. QED
  BY <1>6, <1>7, <1>9, <1>10 DEF UdpInv

\* From the start, and in every step of the client, the server and the network.
LEMMA UdpInductive == Spec => [](kind = "udp" => UdpInv)
<1> DEFINE I == kind = "udp" => UdpInv
<1>1. Init => I
  <2>1. ASSUME Udp!Init
        PROVE  UdpInv
    BY <2>1, UdpSizes
    DEF Udp!Init, UdpInv, UdpTypes, NoStranger, OneDatagram, Udp!EchoInTurn
  <2>2. QED
    BY <2>1 DEF Init
<1>2. I /\ [Next]_vars => I'
  <2>1. ASSUME UdpInv, UNCHANGED udpvars
        PROVE  UdpInv'
    BY <2>1 DEF udpvars, UdpInv, UdpTypes, NoStranger, OneDatagram, Udp!EchoInTurn
  <2>2. ASSUME UdpInv, Udp!Next
        PROVE  UdpInv'
    BY <2>2, UdpOtherKeeps, RecvfromKeeps DEF Udp!Next, Udp!Client
  <2>3. QED
    BY <2>1, <2>2, OneKind
<1>3. QED
  BY <1>1, <1>2, PTL DEF Spec

-----------------------------------------------------------------------------
(* The load generator *)

\* In this instance of FiniteSets as in the other.
LEMMA SameCardinality ==
    ASSUME NEW S
    PROVE  Load!Cardinality(S) = Cardinality(S)
  BY DEF Load!Cardinality, Cardinality

LoadInv == Load!TypeOK /\ Load!Counted /\ IsFiniteSet(socks) /\ connections \in Nat

\* One socket more is at most one more to count, and one less, one less.
LEMMA SocksChange ==
    ASSUME LoadInv, NEW f
    PROVE  /\ Cardinality(socks) \in Nat /\ Cardinality(socks) <= connections
           /\ IsFiniteSet(socks \cup {f}) /\ Cardinality(socks \cup {f}) <= Cardinality(socks) + 1
           /\ Cardinality(socks \cup {f}) \in Nat
           /\ IsFiniteSet(socks \ {f}) /\ Cardinality(socks \ {f}) \in Nat
           /\ Cardinality(socks \ {f}) <= Cardinality(socks)
           /\ f \in socks => Cardinality(socks \ {f}) = Cardinality(socks) - 1
<1>1. IsFiniteSet(socks) /\ Cardinality(socks) \in Nat /\ Cardinality(socks) <= connections
  BY SameCardinality, FS_CardinalityType DEF LoadInv, Load!Counted
<1>2. IsFiniteSet(socks \cup {f}) /\ Cardinality(socks \cup {f}) <= Cardinality(socks) + 1
  BY <1>1, FS_AddElement
<1>3. IsFiniteSet(socks \ {f}) /\ Cardinality(socks \ {f}) <= Cardinality(socks)
      /\ (f \in socks => Cardinality(socks \ {f}) = Cardinality(socks) - 1)
  <2>1. /\ IsFiniteSet(socks \ {f})
        /\ Cardinality(socks \ {f}) = IF f \in socks THEN Cardinality(socks) - 1 ELSE Cardinality(socks)
    BY <1>1, FS_RemoveElement, Zenon
  <2>2. QED
    BY <1>1, <2>1
<1>4. QED
  BY <1>1, <1>2, <1>3, FS_CardinalityType

\* main(), which counts a socket when it opens one and not always when it closes one.
LEMMA LoadMainKeeps ==
    ASSUME LoadInv, Load!Main
    PROVE  LoadInv'
<1> USE ClientsAssumption DEF LoadInv, Load!TypeOK, Load!Counted, Load!kernelvars
<1>1. CASE Load!open
  <2>1. PICK f \in LoadFds \ socks : sockfd' = f /\ socks' = socks \cup {f}
    BY <1>1 DEF Load!open
  <2>2. /\ connections < LoadMax /\ connections' = connections + 1
        /\ lpc' \in {"open", "epoll_wait"} /\ UNCHANGED <<readable, eof, broken, full, todo>>
    BY <1>1 DEF Load!open
  <2>3. IsFiniteSet(socks') /\ Cardinality(socks') <= connections'
    <3>1. /\ Cardinality(socks) \in Nat /\ Cardinality(socks) <= connections
          /\ IsFiniteSet(socks \cup {f}) /\ Cardinality(socks \cup {f}) <= Cardinality(socks) + 1
          /\ Cardinality(socks \cup {f}) \in Nat
      BY SocksChange
    <3>2. QED
      BY <2>1, <2>2, <3>1
  <2>4. Load!TypeOK' /\ todo' \subseteq socks'
    BY <2>1, <2>2
  <2>5. QED
    BY <2>2, <2>3, <2>4, SameCardinality
<1>2. CASE Load!open_fails \/ Load!open_none
  BY <1>2 DEF Load!open_fails, Load!open_none
<1>3. CASE Load!epoll_wait
  BY <1>3 DEF Load!epoll_wait, Load!kSubset
<1>4. ASSUME NEW f \in LoadFds, Load!send(f) \/ Load!recv_data(f)
      PROVE  LoadInv'
  BY <1>4 DEF Load!send, Load!recv_data, Load!Handled
<1>5. ASSUME NEW f \in LoadFds, Load!recv_end(f) \/ Load!recv_error(f)
      PROVE  LoadInv'
  <2>1. /\ f \in todo /\ f \in socks /\ Load!Closed(f) /\ Load!Handled(f) /\ sockfd' = sockfd
        /\ connections' = connections \/ connections' = connections - 1
    BY <1>5 DEF Load!recv_end, Load!recv_error
  <2>2. socks' = socks \ {f}
    BY <2>1 DEF Load!Closed
  <2>3. IsFiniteSet(socks') /\ Cardinality(socks') <= connections' /\ connections' \in Nat
    <3>1. /\ Cardinality(socks) \in Nat /\ Cardinality(socks) <= connections
          /\ IsFiniteSet(socks \ {f}) /\ Cardinality(socks \ {f}) \in Nat
          /\ Cardinality(socks \ {f}) = Cardinality(socks) - 1
      BY <2>1, SocksChange
    <3>2. QED
      BY <2>1, <2>2, <3>1
  <2>4. Load!TypeOK' /\ todo' \subseteq socks'
    BY <2>1 DEF Load!Closed, Load!Handled
  <2>5. connections' <= LoadMax
    BY <2>1
  <2>6. QED
    BY <2>3, <2>4, <2>5, SameCardinality
<1>6. QED
  BY <1>1, <1>2, <1>3, <1>4, <1>5 DEF Load!Main

\* From the start, and in every step of main() and of the connections.
LEMMA LoadInductive == Spec => [](kind = "load" => LoadInv)
<1> DEFINE I == kind = "load" => LoadInv
<1>1. Init => I
  <2>1. ASSUME Load!Init
        PROVE  LoadInv
    <3>1. IsFiniteSet(socks) /\ Cardinality(socks) = 0
      BY <2>1, FS_EmptySet DEF Load!Init
    <3>2. QED
      BY <2>1, <3>1, SameCardinality, ClientsAssumption
      DEF Load!Init, LoadInv, Load!TypeOK, Load!Counted
  <2>2. QED
    BY <2>1 DEF Init
<1>2. I /\ [Next]_vars => I'
  <2>1. ASSUME LoadInv, UNCHANGED loadvars
        PROVE  LoadInv'
    BY <2>1 DEF loadvars, LoadInv, Load!TypeOK, Load!Counted
  <2>2. ASSUME LoadInv, NEW f \in LoadFds, Load!peer(f)
        PROVE  LoadInv'
    BY <2>2 DEF LoadInv, Load!TypeOK, Load!Counted, Load!peer
  <2>3. QED
    BY <2>1, <2>2, OneKind, LoadMainKeeps DEF Load!Next
<1>3. QED
  BY <1>1, <1>2, PTL DEF Spec

-----------------------------------------------------------------------------
(* The types *)

\* What the invariants above leave out of the types: the flags of the echo client,
EchoFlags ==
    /\ ended \in BOOLEAN /\ newline \in BOOLEAN /\ stdineof \in BOOLEAN /\ closed \in BOOLEAN
    /\ killed \in BOOLEAN /\ rst \in BOOLEAN

\* the receive buffers and pending errors of the DNS client's sockets,
RcvInv ==
    /\ DOMAIN rcv = Queries
    /\ \A q \in Queries : \E S : rcv[q] \in Seq(S) /\ Len(rcv[q]) \in 0..2
RefusedInv == refused \in [Queries -> BOOLEAN]

\* and whether a datagram of the UDP client was lost.
LostInv == lost \in BOOLEAN

\* A receive buffer takes whatever comes, one at a time.
LEMMA OneMore ==
    ASSUME NEW S, NEW s \in Seq(S), Len(s) < 2, NEW d
    PROVE  \E T : Append(s, d) \in Seq(T) /\ Len(Append(s, d)) \in 0..2
<1>1. Len(s) \in Nat /\ s \in Seq(S \cup {d}) /\ d \in S \cup {d}
  <2>1. Len(s) \in Nat /\ s \in [1..Len(s) -> S]
    OBVIOUS
  <2>2. s \in [1..Len(s) -> S \cup {d}]
    BY <2>1
  <2>3. QED
    BY <2>1, <2>2
<1>2. Append(s, d) \in Seq(S \cup {d}) /\ Len(Append(s, d)) = Len(s) + 1
  BY <1>1
<1>3. QED
  BY <1>1, <1>2

\* Every step of the echo client, its user and its server sets flags to flags.
LEMMA EchoFlagsKept ==
    ASSUME EchoFlags, Echo!Next \/ UNCHANGED echovars
    PROVE  EchoFlags'
<1> USE DEF EchoFlags, Echo!uservars, Echo!clientvars, Echo!servervars
<1>1. CASE Echo!User \/ Echo!skill \/ UNCHANGED echovars
  <2>1. (c2s > 0) \in BOOLEAN
    BY SMT
  <2>2. QED
    BY <1>1, <2>1, Zenon
    DEF Echo!User, Echo!type, Echo!end_of_input, Echo!skill, echovars
<1>2. CASE Echo!Server
  BY <1>2, Zenon DEF Echo!Server, Echo!sread, Echo!swrite, Echo!sexit
<1>3. CASE Echo!wait \/ Echo!sock_data \/ Echo!sock_end \/ Echo!conn_cb_end
  BY <1>3, Zenon DEF Echo!wait, Echo!sock_data, Echo!sock_end, Echo!conn_cb_end
<1>4. CASE Echo!stdin_data \/ Echo!stdin_end \/ Echo!stdin_cb_end \/ Echo!stdin_cb_deaf
  BY <1>4, Zenon DEF Echo!stdin_data, Echo!stdin_end, Echo!stdin_cb_end, Echo!stdin_cb_deaf
<1>5. CASE Echo!write \/ Echo!sigpipe \/ Echo!Fgets \/ Echo!Readline
  BY <1>5, Zenon DEF Echo!write, Echo!sigpipe, Echo!Fgets, Echo!Readline
<1>6. QED
  BY <1>1, <1>2, <1>3, <1>4, <1>5 DEF Echo!Next, Echo!Client

\* A socket is opened with nothing to receive, takes at most two datagrams, and loses
\* them when it is read or closed.
LEMMA RcvKept ==
    ASSUME DnsTypes, RcvInv, RefusedInv, Dns!Next
    PROVE  RcvInv' /\ RefusedInv'
<1> USE Numbered DEF Dns!mainvars, Dns!procvars
<1>1. CASE UNCHANGED <<rcv, refused>>
  BY <1>1 DEF RcvInv, RefusedInv
<1>2. ASSUME NEW q \in Queries, Dns!Shut(q)
      PROVE  RcvInv' /\ RefusedInv'
  <2>1. RcvInv'
    <3>1. <<>> \in Seq({}) /\ Len(<<>>) = 0
      OBVIOUS
    <3>2. QED
      BY <1>2, <3>1 DEF Dns!Shut, RcvInv
  <2>2. RefusedInv'
    BY <1>2, Zenon DEF Dns!Shut, RefusedInv
  <2>3. QED
    BY <2>1, <2>2
<1>3. ASSUME NEW q \in Queries, Dns!proc_recvfrom(q)
      PROVE  RcvInv' /\ RefusedInv'
  <2>1. CASE refused[q]
    <3>1. refused' = [refused EXCEPT ![q] = FALSE] /\ rcv' = rcv
      BY <1>3, <2>1, Zenon DEF Dns!proc_recvfrom
    <3>2. RefusedInv'
      BY <3>1, Zenon DEF RefusedInv
    <3>3. RcvInv'
      BY <3>1 DEF RcvInv
    <3>4. QED
      BY <3>2, <3>3
  <2>2. CASE ~refused[q]
    <3>1. rcv' = [rcv EXCEPT ![q] = Tail(@)] /\ refused' = refused /\ rcv[q] # <<>>
      BY <1>3, <2>2, Zenon DEF Dns!proc_recvfrom, Dns!Answer, Dns!Ready
    <3>2. PICK S : rcv[q] \in Seq(S) /\ Len(rcv[q]) \in 0..2
      BY DEF RcvInv
    <3>3. Tail(rcv[q]) \in Seq(S) /\ Len(Tail(rcv[q])) \in 0..2
      BY <3>1, <3>2
    <3>4. RcvInv'
      BY <3>1, <3>3 DEF RcvInv
    <3>5. QED
      BY <3>1, <3>4 DEF RefusedInv
  <2>3. QED
    BY <2>1, <2>2
<1>4. ASSUME NEW d, Dns!deliver(d)
      PROVE  RcvInv' /\ RefusedInv'
  <2>1. ASSUME NEW q \in Queries
        PROVE  \E S : rcv'[q] \in Seq(S) /\ Len(rcv'[q]) \in 0..2
    <3>1. PICK S : rcv[q] \in Seq(S) /\ Len(rcv[q]) \in 0..2
      BY DEF RcvInv
    <3>2. rcv'[q] = rcv[q] \/ (Len(rcv[q]) < 2 /\ rcv'[q] = Append(rcv[q], d))
      BY <1>4 DEF Dns!deliver
    <3>3. CASE rcv'[q] = rcv[q]
      BY <3>1, <3>3
    <3>4. CASE Len(rcv[q]) < 2 /\ rcv'[q] = Append(rcv[q], d)
      BY <3>1, <3>4, OneMore
    <3>5. QED
      BY <3>2, <3>3, <3>4
  <2>2. DOMAIN rcv' = Queries /\ refused' = refused
    BY <1>4 DEF Dns!deliver
  <2>3. QED
    BY <2>1, <2>2 DEF RcvInv, RefusedInv
<1>5. ASSUME NEW d, Dns!refuse(d)
      PROVE  RcvInv' /\ RefusedInv'
  <2>1. rcv' = rcv
    BY <1>5 DEF Dns!refuse
  <2>2. RefusedInv'
    BY <1>5, Zenon DEF Dns!refuse, RefusedInv
  <2>3. QED
    BY <2>1, <2>2 DEF RcvInv
<1>6. CASE Dns!Main
  <2>1. CASE Dns!recvfrom
    BY <1>2, <2>1 DEF Dns!recvfrom, DnsTypes
  <2>2. QED
    BY <1>1, <1>6, <2>1
    DEF Dns!Main, Dns!commit, Dns!commit_exit, Dns!add, Dns!add_fails
<1>7. CASE Dns!Proc
  <2>1. CASE Dns!proc_finish
    BY <1>2, <2>1 DEF Dns!proc_finish, DnsTypes
  <2>2. QED
    BY <1>1, <1>3, <1>7, <2>1 DEF Dns!Proc, Dns!epoll_wait
<1>8. CASE Dns!Network
  BY <1>1, <1>4, <1>5, <1>8 DEF Dns!Network, Dns!serve, Dns!lose
<1>9. QED
  BY <1>6, <1>7, <1>8 DEF Dns!Next

\* Every step of the UDP client and of the network sets the flag to a flag.
LEMMA LostKept ==
    ASSUME LostInv, Udp!Next \/ UNCHANGED udpvars
    PROVE  LostInv'
  BY Zenon
  DEF LostInv, udpvars, Udp!Next, Udp!Client, Udp!Network, Udp!Deliver, Udp!netvars, Udp!Sendto,
      Udp!end_of_file, Udp!Recvfrom, Udp!Read_fails, Udp!dg_echo, Udp!arrive, Udp!stranger,
      Udp!lose

\* Every variable of the program that runs stays in its domain, for any sizes: no
\* socket buffer, receive buffer or set of descriptors outgrows its limit.
THEOREM TypeCorrect == Spec => []TypeOK
<1> DEFINE Rest == /\ kind \in Kinds
                   /\ kind = "echo" => EchoFlags
                   /\ kind = "dns" => RcvInv /\ RefusedInv
                   /\ kind = "udp" => LostInv
<1>1. Init => Rest
  <2>1. ASSUME Echo!Init
        PROVE  EchoFlags
    BY <2>1, Zenon DEF Echo!Init, Echo!Connected, Echo!Fresh, EchoFlags
  <2>2. ASSUME Dns!Init
        PROVE  RcvInv /\ RefusedInv
    <3>1. <<>> \in Seq({}) /\ Len(<<>>) = 0
      OBVIOUS
    <3>2. RcvInv
      BY <2>2, <3>1, Numbered DEF Dns!Init, RcvInv
    <3>3. RefusedInv
      BY <2>2, Numbered, Zenon DEF Dns!Init, RefusedInv
    <3>4. QED
      BY <3>2, <3>3
  <2>3. ASSUME Udp!Init
        PROVE  LostInv
    BY <2>3, Zenon DEF Udp!Init, LostInv
  <2>4. QED
    BY <2>1, <2>2, <2>3 DEF Init
<1>2. Rest /\ (kind = "dns" => DnsInv) /\ [Next]_vars => Rest'
  <2>1. ASSUME RcvInv, RefusedInv, UNCHANGED dnsvars
        PROVE  RcvInv' /\ RefusedInv'
    BY <2>1 DEF RcvInv, RefusedInv, dnsvars
  <2>2. QED
    BY <2>1, OneKind, EchoFlagsKept, RcvKept, LostKept DEF DnsInv
<1>3. ASSUME Rest, kind = "echo" => EchoInv, kind = "dns" => DnsInv,
             kind = "udp" => UdpInv, kind = "load" => LoadInv
      PROVE  TypeOK
  <2>1. CASE kind = "echo"
    <3>1. out \in 0..taken
      BY <1>3, <2>1, Sizes DEF EchoInv, EchoTypes, Balance, InFlight
    <3>2. {ended, newline, stdineof, closed, killed, rst} \subseteq BOOLEAN
      BY <1>3, <2>1, Zenon DEF EchoFlags
    <3>3. QED
      BY <1>3, <2>1, <3>1, <3>2 DEF EchoInv, EchoTypes, Echo!TypeOK, TypeOK
  <2>2. CASE kind = "dns"
    <3>1. \A q \in Queries : Len(rcv[q]) <= 2
      <4>1. ASSUME NEW q \in Queries
            PROVE  Len(rcv[q]) <= 2
        <5>1. RcvInv
          BY <1>3, <2>2
        <5>2. PICK S : rcv[q] \in Seq(S) /\ Len(rcv[q]) \in 0..2
          BY <5>1 DEF RcvInv
        <5>3. \A n \in 0..2 : n <= 2
          OBVIOUS
        <5>4. QED
          BY <5>2, <5>3, Zenon
      <4>2. QED
        BY <4>1
    <3>2. QED
      BY <1>3, <2>2, <3>1, Numbered DEF DnsInv, DnsTypes, RefusedInv, Dns!TypeOK, TypeOK
  <2>3. CASE kind = "udp"
    <3>1. up \subseteq 1..Lines /\ down \subseteq 1..Lines
      BY <1>3, <2>3, UdpSizes DEF UdpInv, UdpTypes
    <3>2. QED
      BY <1>3, <2>3, <3>1 DEF UdpInv, UdpTypes, LostInv, Udp!TypeOK, TypeOK
  <2>4. QED
    BY <1>3, <2>1, <2>2, <2>3 DEF LoadInv, TypeOK
<1>4. QED
  BY <1>1, <1>2, <1>3, EchoInductive, DnsInductive, UdpInductive, LoadInductive, PTL DEF Spec
-----------------------------------------------------------------------------
(* Whose answer a DNS client prints *)

\* The datagrams in a receive buffer.
Held(s) == {s[k] : k \in 1..Len(s)}

\* What comes in, is read and is thrown away.
LEMMA HeldChanges ==
    ASSUME NEW S, NEW s \in Seq(S), NEW d
    PROVE  /\ Held(<<>>) = {}
           /\ Held(Append(s, d)) \subseteq Held(s) \cup {d}
           /\ s # <<>> => Head(s) \in Held(s) /\ Held(Tail(s)) \subseteq Held(s)
<1>1. Held(<<>>) = {}
  BY DEF Held
<1>2. Held(Append(s, d)) \subseteq Held(s) \cup {d}
  <2>1. Len(s) \in Nat /\ s \in Seq(S \cup {d}) /\ d \in S \cup {d}
    <3>1. Len(s) \in Nat /\ s \in [1..Len(s) -> S]
      OBVIOUS
    <3>2. s \in [1..Len(s) -> S \cup {d}]
      BY <3>1
    <3>3. QED
      BY <3>1, <3>2
  <2>2. /\ Len(Append(s, d)) = Len(s) + 1
        /\ \A k \in 1..(Len(s) + 1) : Append(s, d)[k] = IF k <= Len(s) THEN s[k] ELSE d
    BY <2>1
  <2>3. QED
    BY <2>1, <2>2 DEF Held
<1>3. s # <<>> => Head(s) \in Held(s) /\ Held(Tail(s)) \subseteq Held(s)
  <2>1. ASSUME s # <<>>
        PROVE  /\ Head(s) = s[1] /\ 1 \in 1..Len(s) /\ Len(Tail(s)) = Len(s) - 1
               /\ \A k \in 1..Len(Tail(s)) : Tail(s)[k] = s[k + 1] /\ k + 1 \in 1..Len(s)
    BY <2>1
  <2>2. QED
    BY <2>1 DEF Held
<1>4. QED
  BY <1>1, <1>2, <1>3

\* Sockets are opened in the order of the queries, no two have the same port, and nothing
\* is left in a closed one: so a datagram, however late, never reaches the socket of an
\* earlier query than the one it belongs to.
NoneFromLater ==
    /\ \A d \in net : d.of \in Queries /\ d.of <= next /\ (cpc = "commit" => d.of < next)
    /\ \A d \in net : d.port # 0
    /\ \A p, q \in Queries : port[p] = port[q] /\ port[p] # 0 => p = q
    /\ \A q \in Queries : q > next \/ (q = next /\ cpc = "commit") => port[q] = 0
    /\ \A q \in Queries : port[q] = 0 => rcv[q] = <<>> /\ ~refused[q]
    /\ \A d \in net, q \in Queries : port[q] = d.port => d.of <= q
    /\ \A q \in Queries : \A d \in Held(rcv[q]) : d.of \in 1..q
    /\ DOMAIN result = Queries
    /\ \A q \in Queries : result[q].of \in 0..q

\* As long as nothing was duplicated, at most one datagram belongs to a query, it is on
\* the network or has arrived, and the socket it is meant for is open until it is read.
OneUnderWay ==
    dups = 0 =>
        /\ \A d \in net : port[d.of] = d.port
        /\ \A d, e \in net : d.of = e.of => d = e
        /\ \A q \in Queries : Dns!Ready(q) \/ ppc = q => \A d \in net : d.of # q
        /\ \A q \in Queries : \A d \in Held(rcv[q]) : d.of = q
        /\ \A q \in Queries : result[q].of \in {0, q}

DeliveryInv == NoneFromLater /\ OneUnderWay

\* A socket that is read gives an answer it held, or none; the books of the others and
\* the network are left alone.
LEMMA AnswerOwn ==
    ASSUME RcvInv, RefusedInv, DeliveryInv, NEW q \in Queries, Dns!Answer(q)
    PROVE  /\ DOMAIN result' = Queries
           /\ \A p \in Queries : result'[p].of \in 0..p
           /\ dups = 0 => \A p \in Queries : result'[p].of \in {0, p}
           /\ dups = 0 => \A d \in net : d.of # q
<1> DEFINE d == IF refused[q] THEN [of |-> 0, msg |-> <<>>] ELSE Head(rcv[q])
           r == [of |-> d.of, items |-> Dns!Printed(d.msg)]
<1>1. result' = [result EXCEPT ![q] = r] /\ Dns!Ready(q)
  BY DEF Dns!Answer
<1>2. r.of \in 0..q /\ (dups = 0 => r.of \in {0, q})
  <2>1. CASE refused[q]
    <3>1. d = [of |-> 0, msg |-> <<>>]
      BY <2>1
    <3> HIDE DEF d
    <3>2. d.of = 0
      BY <3>1
    <3>3. QED
      BY <3>2 DEF Queries
  <2>2. CASE ~refused[q]
    <3>1. rcv[q] # <<>> /\ d = Head(rcv[q])
      BY <1>1, <2>2, Zenon DEF Dns!Ready
    <3>2. PICK S : rcv[q] \in Seq(S)
      BY DEF RcvInv
    <3> HIDE DEF d
    <3>3. d \in Held(rcv[q])
      BY <3>1, <3>2, HeldChanges, Zenon
    <3>4. d.of \in 1..q /\ (dups = 0 => d.of = q)
      BY <3>3, Zenon DEF DeliveryInv, NoneFromLater, OneUnderWay
    <3>5. QED
      BY <3>4 DEF Queries
  <2>3. QED
    BY <2>1, <2>2
<1>3. dups = 0 => \A e \in net : e.of # q
  BY <1>1 DEF DeliveryInv, OneUnderWay
<1> HIDE DEF r
<1>4. QED
  BY <1>1, <1>2, <1>3, Numbered DEF DeliveryInv, NoneFromLater, OneUnderWay

\* A socket whose datagram is not on its way any more is closed.
LEMMA ShutKeeps ==
    ASSUME DnsTypes, RcvInv, RefusedInv, DeliveryInv, NEW q \in Queries, Dns!Shut(q),
           q <= next, q = next => cpc # "commit",
           dups = 0 => \A d \in net : d.of # q,
           net' = net, dups' = dups, ppc' \in {ppc, 0},
           (next' = next /\ cpc' = cpc) \/ next' = next + 1,
           next' = next + 1 => cpc # "commit",
           DOMAIN result' = Queries, \A p \in Queries : result'[p].of \in 0..p,
           dups = 0 => \A p \in Queries : result'[p].of \in {0, p}
    PROVE  DeliveryInv'
<1>1. /\ port' = [port EXCEPT ![q] = 0] /\ rcv' = [rcv EXCEPT ![q] = <<>>]
      /\ refused' = [refused EXCEPT ![q] = FALSE]
  BY DEF Dns!Shut
<1>2. /\ port'[q] = 0 /\ rcv'[q] = <<>> /\ ~refused'[q]
      /\ \A p \in Queries \ {q} : port'[p] = port[p] /\ rcv'[p] = rcv[p] /\ refused'[p] = refused[p]
  BY <1>1 DEF DnsTypes, RcvInv, RefusedInv
<1>3. Held(<<>>) = {}
  BY DEF Held
<1>4. NoneFromLater'
  <2>1. \A p \in Queries : \A d \in Held(rcv'[p]) : d.of \in 1..p
    BY <1>2, <1>3 DEF DeliveryInv, NoneFromLater
  <2>2. /\ \A d \in net : d.port # 0
        /\ \A p \in Queries : port'[p] = 0 => rcv'[p] = <<>> /\ ~refused'[p]
        /\ \A d \in net, p \in Queries : port'[p] = d.port => d.of <= p
        /\ \A p, s \in Queries : port'[p] = port'[s] /\ port'[p] # 0 => p = s
    BY <1>2 DEF DeliveryInv, NoneFromLater
  <2>3. /\ \A d \in net : d.of \in Queries /\ d.of <= next' /\ (cpc' = "commit" => d.of < next')
        /\ \A p \in Queries : p > next' \/ (p = next' /\ cpc' = "commit") => port'[p] = 0
    BY <1>2 DEF DeliveryInv, NoneFromLater, DnsTypes, Queries
  <2>4. QED
    BY <2>1, <2>2, <2>3 DEF NoneFromLater
<1>5. OneUnderWay'
  <2>1. ASSUME dups = 0
        PROVE  /\ \A d \in net : port'[d.of] = d.port
               /\ \A p \in Queries : (rcv'[p] # <<>> \/ refused'[p]) \/ ppc' = p
                                        => \A d \in net : d.of # p
               /\ \A p \in Queries : \A d \in Held(rcv'[p]) : d.of = p
    <3>1. \A d \in net : d.of \in Queries \ {q} /\ port[d.of] = d.port
      BY <2>1 DEF DeliveryInv, NoneFromLater, OneUnderWay
    <3>2. \A p \in Queries : \A d \in Held(rcv'[p]) : d.of = p
      BY <1>2, <1>3, <2>1 DEF DeliveryInv, OneUnderWay
    <3>3. ASSUME NEW p \in Queries, rcv'[p] # <<>> \/ refused'[p] \/ ppc' = p
          PROVE  \A d \in net : d.of # p
      <4>1. p = q \/ rcv[p] # <<>> \/ refused[p] \/ ppc = p
        BY <1>2, <3>3 DEF Queries
      <4>2. QED
        BY <2>1, <3>1, <4>1 DEF DeliveryInv, OneUnderWay, Dns!Ready
    <3>4. QED
      BY <1>2, <3>1, <3>2, <3>3
  <2>2. QED
    BY <2>1 DEF DeliveryInv, OneUnderWay, Dns!Ready
<1>6. QED
  BY <1>4, <1>5 DEF DeliveryInv

\* The steps of main(): a socket is opened with a port nobody has, for a query that
\* nothing is on its way to yet; and closed when it was read.
LEMMA MainDelivery ==
    ASSUME DnsInv, RcvInv, RefusedInv, DeliveryInv, Dns!Main
    PROVE  DeliveryInv'
<1> USE Numbered DEF Dns!mainvars, Dns!procvars
<1>1. CASE Dns!commit
  <2>1. /\ cpc = "commit" /\ next \in Queries /\ cpc' # "commit"
        /\ UNCHANGED <<next, rcv, refused, ppc, result, dups>>
    BY <1>1 DEF Dns!commit, DnsInv, DnsTypes
  <2>2. PICK p \in Ports \ {port[q] : q \in Dns!Open} :
           /\ port' = [port EXCEPT ![next] = p]
           /\ \/ net' = net \cup {[to |-> "server", port |-> p, of |-> next,
                                   msg |-> Dns!Request(next)]}
              \/ UNCHANGED net
    BY <1>1 DEF Dns!commit
  <2> DEFINE m == [to |-> "server", port |-> p, of |-> next, msg |-> Dns!Request(next)]
  <2>3. net' \subseteq net \cup {m} /\ m.port = p /\ m.of = next
    BY <2>2
  <2> HIDE DEF m
  <2>4. /\ p # 0 /\ port[next] = 0 /\ rcv[next] = <<>> /\ ~refused[next]
        /\ \A q \in Queries : port[q] # p
        /\ \A d \in net : d.of < next /\ d.of \in Queries
    BY <2>1, <2>2 DEF DeliveryInv, NoneFromLater, Dns!Open
  <2>5. port'[next] = p /\ \A q \in Queries \ {next} : port'[q] = port[q]
    BY <2>1, <2>2 DEF DnsInv, DnsTypes
  <2>6. NoneFromLater'
    <3>1. \A d \in net' : d.of \in Queries /\ d.of <= next /\ d.port # 0
      BY <2>1, <2>3, <2>4 DEF Queries, DeliveryInv, NoneFromLater
    <3>2. \A a, b \in Queries : port'[a] = port'[b] /\ port'[a] # 0 => a = b
      BY <2>4, <2>5 DEF DeliveryInv, NoneFromLater
    <3>3. /\ \A q \in Queries : q > next => port'[q] = 0
          /\ \A q \in Queries : port'[q] = 0 => rcv[q] = <<>> /\ ~refused[q]
      <4>1. /\ \A q \in Queries : q > next => port[q] = 0
            /\ \A q \in Queries : port[q] = 0 => rcv[q] = <<>> /\ ~refused[q]
        BY DEF DeliveryInv, NoneFromLater
      <4>2. \A q \in Queries : q > next => q # next
        BY <2>1 DEF Queries
      <4>3. QED
        BY <2>4, <2>5, <4>1, <4>2, Zenon
    <3>4. ASSUME NEW d \in net', NEW q \in Queries, port'[q] = d.port
          PROVE  d.of <= q
      <4>1. CASE q = next
        BY <3>1, <4>1
      <4>2. CASE q # next
        <5>1. d \in net
          BY <2>3, <2>4, <2>5, <3>4, <4>2
        <5>2. QED
          BY <2>5, <3>4, <4>2, <5>1 DEF DeliveryInv, NoneFromLater
      <4>3. QED
        BY <4>1, <4>2
    <3>5. QED
      BY <2>1, <3>1, <3>2, <3>3, <3>4 DEF DeliveryInv, NoneFromLater
  <2>7. OneUnderWay'
    <3>1. ASSUME dups = 0
          PROVE  /\ \A d \in net' : port'[d.of] = d.port
                 /\ \A d, e \in net' : d.of = e.of => d = e
                 /\ \A q \in Queries : Dns!Ready(q) \/ ppc = q => \A d \in net' : d.of # q
      <4>1. \A d \in net : d.of # next /\ d.of \in Queries /\ port[d.of] = d.port
        BY <2>1, <2>4, <3>1 DEF DeliveryInv, OneUnderWay, Queries
      <4>2. ppc # next /\ ~Dns!Ready(next)
        BY <2>1, <2>4 DEF DnsInv, MainInv, ProcInv, Dns!Ready, Queries
      <4>3. QED
        BY <2>3, <2>5, <3>1, <4>1, <4>2 DEF DeliveryInv, OneUnderWay
    <3>2. \A q \in Queries : Dns!Ready(q)' <=> Dns!Ready(q)
      BY <2>1 DEF Dns!Ready
    <3>3. QED
      BY <2>1, <3>1, <3>2 DEF DeliveryInv, OneUnderWay
  <2>8. QED
    BY <2>6, <2>7 DEF DeliveryInv
<1>2. CASE Dns!commit_exit \/ Dns!add \/ Dns!add_fails
  <2>1. UNCHANGED <<port, rcv, refused, ppc, result, net, dups>>
    BY <1>2 DEF Dns!commit_exit, Dns!add, Dns!add_fails
  <2>2. \/ next' = next /\ cpc' # "commit"
        \/ next' = next + 1 /\ cpc = "add"
    BY <1>2 DEF Dns!commit_exit, Dns!add, Dns!add_fails, Dns!NextQuery
  <2>3. next \in Nat
    BY DEF DnsInv, DnsTypes
  <2>4. NoneFromLater'
    BY <2>1, <2>2, <2>3 DEF DeliveryInv, NoneFromLater, Queries
  <2>5. OneUnderWay'
    BY <2>1 DEF DeliveryInv, OneUnderWay, Dns!Ready
  <2>6. QED
    BY <2>4, <2>5 DEF DeliveryInv
<1>3. CASE Dns!recvfrom
  <2>1. /\ cpc = "recvfrom" /\ next \in Queries /\ Dns!Answer(next) /\ Dns!Shut(next)
        /\ next' = next + 1 /\ UNCHANGED <<ppc, net, dups>>
    BY <1>3 DEF Dns!recvfrom, Dns!NextQuery, DnsInv, DnsTypes
  <2>2. /\ DOMAIN result' = Queries
        /\ \A p \in Queries : result'[p].of \in 0..p
        /\ dups = 0 => \A p \in Queries : result'[p].of \in {0, p}
        /\ dups = 0 => \A d \in net : d.of # next
    BY <2>1, AnswerOwn
  <2>3. QED
    BY <2>1, <2>2, ShutKeeps DEF DnsInv, Queries
<1>4. QED
  BY <1>1, <1>2, <1>3 DEF Dns!Main

\* The steps of dns_async_client_proc(): what it has read is not on its way any more when
\* it closes the socket.
LEMMA ProcDelivery ==
    ASSUME DnsInv, RcvInv, RefusedInv, DeliveryInv, Dns!Proc
    PROVE  DeliveryInv'
<1> USE Numbered DEF Dns!mainvars, Dns!procvars
<1>1. CASE Dns!epoll_wait
  BY <1>1 DEF Dns!epoll_wait, DeliveryInv, NoneFromLater, OneUnderWay, Dns!Ready
<1>2. ASSUME NEW q \in Queries, Dns!proc_recvfrom(q)
      PROVE  DeliveryInv'
  <2>1. /\ Dns!Answer(q) /\ ppc = 0 /\ ppc' = q
        /\ UNCHANGED <<next, cpc, port, net, dups>>
    BY <1>2 DEF Dns!proc_recvfrom
  <2>2. /\ DOMAIN result' = Queries
        /\ \A p \in Queries : result'[p].of \in 0..p
        /\ dups = 0 => \A p \in Queries : result'[p].of \in {0, p}
        /\ dups = 0 => \A d \in net : d.of # q
    BY <2>1, AnswerOwn
  <2>3. /\ \A p \in Queries : Held(rcv'[p]) \subseteq Held(rcv[p])
        /\ \A p \in Queries \ {q} : rcv'[p] = rcv[p] /\ refused'[p] = refused[p]
    <3>1. CASE refused[q]
      BY <1>2, <3>1 DEF Dns!proc_recvfrom, RefusedInv
    <3>2. CASE ~refused[q]
      <4>1. rcv' = [rcv EXCEPT ![q] = Tail(@)] /\ refused' = refused /\ rcv[q] # <<>>
        BY <1>2, <3>2, Zenon DEF Dns!proc_recvfrom, Dns!Answer, Dns!Ready
      <4>2. PICK S : rcv[q] \in Seq(S)
        BY DEF RcvInv
      <4>3. Held(Tail(rcv[q])) \subseteq Held(rcv[q])
        BY <4>1, <4>2, HeldChanges, Zenon
      <4>4. QED
        BY <4>1, <4>3 DEF RcvInv
    <3>3. QED
      BY <3>1, <3>2
  <2>4. port[q] # 0
    BY <2>1 DEF Dns!Answer, Dns!Ready, DeliveryInv, NoneFromLater
  <2>5. NoneFromLater'
    BY <2>1, <2>2, <2>3, <2>4 DEF DeliveryInv, NoneFromLater
  <2>6. OneUnderWay'
    <3>1. dups = 0 => \A p \in Queries : Dns!Ready(p)' \/ ppc' = p => \A d \in net : d.of # p
      BY <2>1, <2>2, <2>3 DEF Dns!Ready, DeliveryInv, OneUnderWay
    <3>2. QED
      BY <2>1, <2>2, <2>3, <3>1 DEF DeliveryInv, OneUnderWay
  <2>7. QED
    BY <2>5, <2>6 DEF DeliveryInv
<1>3. CASE Dns!proc_finish
  <2>1. /\ ppc \in Queries /\ Dns!Shut(ppc) /\ ppc' = 0
        /\ UNCHANGED <<next, cpc, net, dups, result>>
    BY <1>3 DEF Dns!proc_finish, DnsInv, DnsTypes
  <2>2. ppc < next
    BY <2>1 DEF DnsInv, DnsTypes, MainInv, ProcInv, Queries
  <2>3. /\ dups = 0 => \A d \in net : d.of # ppc
        /\ DOMAIN result = Queries /\ \A p \in Queries : result[p].of \in 0..p
        /\ dups = 0 => \A p \in Queries : result[p].of \in {0, p}
    BY <2>1 DEF DeliveryInv, NoneFromLater, OneUnderWay
  <2>4. DnsTypes /\ ppc <= next /\ ppc # next /\ next' # next + 1
    BY <2>1, <2>2 DEF DnsInv, DnsTypes, Queries
  <2>5. QED
    BY <2>1, <2>3, <2>4, ShutKeeps
<1>4. QED
  BY <1>1, <1>2, <1>3 DEF Dns!Proc

\* The steps of the network: without a duplication the server's answer takes the place of
\* the question, and what arrives, or is refused, was meant for this socket.
LEMMA NetworkDelivery ==
    ASSUME DnsInv, RcvInv, RefusedInv, DeliveryInv, Dns!Network
    PROVE  DeliveryInv'
<1> USE Numbered DEF Dns!mainvars, Dns!procvars
<1>1. PICK d \in net : Dns!serve(d) \/ Dns!deliver(d) \/ Dns!lose(d) \/ Dns!refuse(d)
  BY DEF Dns!Network
<1>2. UNCHANGED <<next, cpc, port, ppc, result>>
  BY <1>1 DEF Dns!serve, Dns!deliver, Dns!lose, Dns!refuse
<1>3. CASE Dns!serve(d)
  <2>1. PICK rrs : Dns!Consumed(d, {[to |-> "client", port |-> d.port, of |-> d.of,
                                     msg |-> Dns!Response(d.msg, rrs)]})
    BY <1>3 DEF Dns!serve
  <2> DEFINE a == [to |-> "client", port |-> d.port, of |-> d.of,
                   msg |-> Dns!Response(d.msg, rrs)]
  <2>2. a.port = d.port /\ a.of = d.of /\ Dns!Consumed(d, {a})
    BY <2>1
  <2> HIDE DEF a
  <2>3. \/ net' = (net \ {d}) \cup {a} /\ dups' = dups
        \/ net' = net \cup {a} /\ dups' = dups + 1
    BY <2>2 DEF Dns!Consumed
  <2>4. UNCHANGED <<rcv, refused>> /\ dups \in Nat
    BY <1>3 DEF Dns!serve, DnsInv, DnsTypes
  <2>5. \A e \in net' : \E f \in net : e.of = f.of /\ e.port = f.port
    BY <2>2, <2>3
  <2>6. NoneFromLater'
    BY <1>2, <2>4, <2>5 DEF DeliveryInv, NoneFromLater
  <2>7. OneUnderWay'
    <3>1. ASSUME dups' = 0
          PROVE  dups = 0 /\ net' = (net \ {d}) \cup {a}
      BY <2>3, <2>4, <3>1
    <3>2. \A q \in Queries : Dns!Ready(q)' <=> Dns!Ready(q)
      BY <2>4 DEF Dns!Ready
    <3>3. QED
      BY <1>2, <2>2, <2>4, <2>5, <3>1, <3>2 DEF DeliveryInv, OneUnderWay
  <2>8. QED
    BY <2>6, <2>7 DEF DeliveryInv
<1>4. CASE Dns!deliver(d)
  <2>1. /\ \/ net' = net \ {d} /\ dups' = dups
           \/ net' = net /\ dups' = dups + 1
        /\ refused' = refused /\ dups \in Nat
    BY <1>4 DEF Dns!deliver, Dns!Consumed, DnsInv, DnsTypes
  <2>2. ASSUME NEW q \in Queries
        PROVE  \/ rcv'[q] = rcv[q]
               \/ /\ port[q] = d.port /\ port[q] # 0
                  /\ Held(rcv'[q]) \subseteq Held(rcv[q]) \cup {d}
    <3>1. rcv'[q] = rcv[q] \/ (q \in Dns!Open /\ port[q] = d.port /\ rcv'[q] = Append(rcv[q], d))
      BY <1>4 DEF Dns!deliver
    <3>2. PICK S : rcv[q] \in Seq(S)
      BY DEF RcvInv
    <3>3. Held(Append(rcv[q], d)) \subseteq Held(rcv[q]) \cup {d}
      BY <3>2, HeldChanges, Zenon
    <3>4. QED
      BY <3>1, <3>3 DEF Dns!Open
  <2>3. NoneFromLater'
    <3>1. \A q \in Queries : port[q] = d.port => d.of \in 1..q
      BY DEF DeliveryInv, NoneFromLater, Queries
    <3>2. \A q \in Queries : \A e \in Held(rcv'[q]) : e.of \in 1..q
      BY <2>2, <3>1 DEF DeliveryInv, NoneFromLater
    <3>3. \A q \in Queries : port[q] = 0 => rcv'[q] = <<>> /\ ~refused'[q]
      BY <2>1, <2>2 DEF DeliveryInv, NoneFromLater
    <3>4. net' \subseteq net
      BY <2>1
    <3>5. QED
      BY <1>2, <3>2, <3>3, <3>4 DEF DeliveryInv, NoneFromLater
  <2>4. OneUnderWay'
    <3>1. ASSUME dups' = 0
          PROVE  dups = 0 /\ net' = net \ {d}
      BY <2>1, <3>1
    <3>2. ASSUME dups' = 0, NEW q \in Queries
          PROVE  rcv'[q] = rcv[q] \/ (q = d.of /\ Held(rcv'[q]) \subseteq Held(rcv[q]) \cup {d})
      BY <2>2, <3>1, <3>2 DEF DeliveryInv, NoneFromLater, OneUnderWay
    <3>3. ASSUME dups' = 0, NEW q \in Queries, Dns!Ready(q)' \/ ppc = q
          PROVE  \A e \in net' : e.of # q
      <4>1. Dns!Ready(q) \/ ppc = q \/ q = d.of
        BY <2>1, <3>2, <3>3 DEF Dns!Ready
      <4>2. QED
        BY <3>1, <3>3, <4>1 DEF DeliveryInv, OneUnderWay
    <3>4. ASSUME dups' = 0, NEW q \in Queries
          PROVE  \A e \in Held(rcv'[q]) : e.of = q
      BY <3>1, <3>2, <3>4 DEF DeliveryInv, OneUnderWay
    <3>5. QED
      BY <1>2, <3>1, <3>3, <3>4 DEF DeliveryInv, OneUnderWay
  <2>5. QED
    BY <2>3, <2>4 DEF DeliveryInv
<1>5. CASE Dns!lose(d)
  <2>1. net' = net \ {d} /\ UNCHANGED <<rcv, refused, dups>>
    BY <1>5 DEF Dns!lose
  <2>2. QED
    BY <1>2, <2>1 DEF DeliveryInv, NoneFromLater, OneUnderWay, Dns!Ready
<1>6. CASE Dns!refuse(d)
  <2>1. net' = net \ {d} /\ UNCHANGED <<rcv, dups>>
    BY <1>6 DEF Dns!refuse
  <2>2. \A q \in Queries : refused'[q] => refused[q] \/ (port[q] = d.port /\ port[q] # 0)
    BY <1>6 DEF Dns!refuse, Dns!Open
  <2>3. NoneFromLater'
    BY <1>2, <2>1, <2>2 DEF DeliveryInv, NoneFromLater
  <2>4. OneUnderWay'
    <3>1. ASSUME dups = 0, NEW q \in Queries, Dns!Ready(q)' \/ ppc = q
          PROVE  \A e \in net' : e.of # q
      <4>1. Dns!Ready(q) \/ ppc = q \/ (port[q] = d.port /\ port[q] # 0)
        BY <2>1, <2>2, <3>1 DEF Dns!Ready
      <4>2. Dns!Ready(q) \/ ppc = q \/ q = d.of
        BY <3>1, <4>1 DEF DeliveryInv, NoneFromLater, OneUnderWay
      <4>3. QED
        BY <2>1, <3>1, <4>2 DEF DeliveryInv, OneUnderWay
    <3>2. QED
      BY <1>2, <2>1, <3>1 DEF DeliveryInv, OneUnderWay
  <2>5. QED
    BY <2>3, <2>4 DEF DeliveryInv
<1>7. QED
  BY <1>1, <1>3, <1>4, <1>5, <1>6

\* From the start, and in every step of the client and of the network.
LEMMA DeliveryInductive == Spec => [](kind = "dns" => DeliveryInv)
<1> DEFINE J == RcvInv /\ RefusedInv /\ DeliveryInv
           I == kind = "dns" => J
<1>1. Init => I
  <2>1. ASSUME Dns!Init
        PROVE  J
    <3>1. <<>> \in Seq({}) /\ Len(<<>>) = 0 /\ Held(<<>>) = {}
      BY DEF Held
    <3>2. RcvInv
      BY <2>1, <3>1, Numbered DEF Dns!Init, RcvInv
    <3>3. RefusedInv
      BY <2>1, Numbered, Zenon DEF Dns!Init, RefusedInv
    <3>4. DeliveryInv
      BY <2>1, <3>1, Numbered
      DEF Dns!Init, DeliveryInv, NoneFromLater, OneUnderWay, Dns!Ready, Queries
    <3>5. QED
      BY <3>2, <3>3, <3>4
  <2>2. QED
    BY <2>1 DEF Init
<1>2. I /\ (kind = "dns" => DnsInv) /\ [Next]_vars => I'
  <2>1. ASSUME J, UNCHANGED dnsvars
        PROVE  J'
    BY <2>1
    DEF dnsvars, RcvInv, RefusedInv, DeliveryInv, NoneFromLater, OneUnderWay, Dns!Ready
  <2>2. ASSUME J, DnsInv, Dns!Next
        PROVE  J'
    <3>1. RcvInv' /\ RefusedInv'
      BY <2>2, RcvKept DEF DnsInv
    <3>2. DeliveryInv'
      BY <2>2, MainDelivery, ProcDelivery, NetworkDelivery DEF Dns!Next
    <3>3. QED
      BY <3>1, <3>2
  <2>3. QED
    BY <2>1, <2>2, OneKind
<1>3. I => (kind = "dns" => DeliveryInv)
  OBVIOUS
<1>4. QED
  BY <1>1, <1>2, <1>3, DnsInductive, PTL DEF Spec

\* For any number of names, ports, descriptors and lines, whatever is lost, duplicated and
\* delayed: a DNS query is answered at most once, as long as nothing was duplicated only
\* with the answer to this very query and never with the answer to a later one; no event
\* refers to a socket that was closed or a context that was freed; and the UDP client's
\* k-th echo is one of its first k lines, the k-th when nothing was duplicated.
THEOREM OnceEachHolds == Spec => []OnceEach
<1>1. ASSUME DnsInv, DeliveryInv
      PROVE  Dns!OnceEach
  <2>1. \A q \in Queries : Dns!OwnAnswer(q)
    BY <1>1 DEF DeliveryInv, NoneFromLater, OneUnderWay, Dns!OwnAnswer
  <2>2. QED
    BY <1>1, <2>1, Numbered DEF Dns!OnceEach, DnsInv, DnsTypes, ProcInv, Queries
<1>2. (kind = "dns" => DnsInv /\ DeliveryInv) /\ (kind = "udp" => UdpInv) => OnceEach
  BY <1>1 DEF OnceEach, UdpInv
<1>3. QED
  BY <1>2, DnsInductive, DeliveryInductive, UdpInductive, PTL
=============================================================================
