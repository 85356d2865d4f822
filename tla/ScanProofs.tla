----------------------------- MODULE ScanProofs -----------------------------
(***************************************************************************)
(* Proofs about the servers that scan an array of connections, around      *)
(* select() and around poll().                                             *)
(***************************************************************************)
EXTENDS EchoServers, SocketsProofs

\* Nothing of a server moves while another one runs.
LEMMA OneServer ==
    ASSUME [Next]_vars
    PROVE  /\ kind' = kind
           /\ kind = "select" => Select!Server \/ PeerStep \/ UNCHANGED vars
           /\ kind = "poll" => Poll!Server \/ PeerStep \/ UNCHANGED vars
           /\ kind = "epoll" => Epoll!Server \/ PeerStep \/ UNCHANGED vars
           /\ kind = "reactor" => React!Server \/ PeerStep \/ UNCHANGED vars
           /\ kind = "demo2" => Demo2!Server \/ PeerStep \/ UNCHANGED vars
           /\ kind = "demo3" => Demo3!Server \/ PeerStep \/ UNCHANGED vars
           /\ kind = "libev" => Libev!Server \/ PeerStep \/ UNCHANGED vars
           /\ kind = "demo1" => Demo1!Server \/ PeerStep \/ UNCHANGED vars
           /\ kind = "thread" => Thread!Server \/ PeerStep \/ UNCHANGED vars
           /\ kind = "process" => Process!Server \/ PeerStep \/ UNCHANGED vars
           /\ kind = "udptcp" => UdpTcp!Server \/ PeerStep \/ UNCHANGED vars
  BY DEF Next, Server, PeerStep, vars, SelectStep, PollStep, EpollStep, ReactStep, Demo2Step,
         Demo3Step, LibevStep, Demo1Step, ThreadStep, ProcessStep, UdpTcpStep

\* Two finite sets one of which numbers the other have the same size.
LEMMA SameSize ==
    ASSUME NEW S, NEW T, IsFiniteSet(S), NEW g \in [S -> T],
           \A x, y \in S : g[x] = g[y] => x = y,
           \A t \in T : \E x \in S : g[x] = t
    PROVE  IsFiniteSet(T) /\ Cardinality(T) = Cardinality(S)
<1>1. g \in Surjection(S, T) /\ g \in Injection(S, T)
  BY DEF Surjection, Injection, IsInjective
<1>2. QED
  BY <1>1, FS_Surjection

\* The slots of client[] in both servers.
Slot == 0..(Slots - 1)

\* The numbers are numbers, and client[] is finite.
LEMMA SlotsFinite ==
    /\ Slots \in Nat /\ Slots > 0 /\ InitSlots \in 0..Slots /\ Garbage \subseteq Fds \cup {-1}
    /\ IsFiniteSet(Slot) /\ \A T : T \subseteq Slot => IsFiniteSet(T) /\ Cardinality(T) \in Nat
<1>1. Slots \in Nat /\ Slots > 0 /\ InitSlots \in 0..Slots /\ Garbage \subseteq Fds \cup {-1}
  BY EchoServersAssumption DEF Select!SelectAssumption, Select!Fds, Fds
<1>2. IsFiniteSet(Slot)
  BY <1>1, FS_Interval DEF Slot
<1>3. QED
  BY <1>1, <1>2, FS_Subset, FS_CardinalityType

-----------------------------------------------------------------------------
(* The select() server *)

\* What this server takes from the kernel is what every server takes.
LEMMA SelectKernel ==
    /\ Select!Fds = Fds /\ Select!Listen = Listen /\ Select!OpenFds = OpenFds
    /\ Select!Slot = Slot
    /\ (Select!SocketsInit <=> SocketsInit) /\ (Select!SocketsType <=> SocketsType)
    /\ (Select!AcceptFails <=> AcceptFails) /\ (Select!Exits <=> Exits)
    /\ \A f : (Select!Accepts(f) <=> Accepts(f)) /\ (Select!Closes(f) <=> Closes(f))
    /\ \A f : (Select!Readable(f) <=> Readable(f))
    /\ \A f, n : (Select!Echoes(f, n) <=> Echoes(f, n))
    /\ \A S : Select!Cardinality(S) = Cardinality(S)
<1>1. \A S : Select!Cardinality(S) = Cardinality(S)
  BY DEF Select!Cardinality, Cardinality
<1>2. QED
  BY <1>1 DEF Select!Fds, Select!Listen, Select!OpenFds, Select!Slot, Select!SocketsInit,
    Select!SocketsType, Select!AcceptFails, Select!Exits, Select!Accepts, Select!Closes,
    Select!Readable, Select!Echoes, Select!SendsBack, Select!HasData, Select!Broken,
    Fds, Listen, OpenFds, Slot, SocketsInit, SocketsType, AcceptFails, Exits, Accepts,
    Closes, Readable, Echoes, SendsBack, HasData, Broken

\* The types; and a turn that is not over has something left to count down.
SelectTypes ==
    /\ client \in [Slot -> Fds \cup {-1}]
    /\ allset \subseteq Fds \cup {Listen} /\ rset \subseteq Fds \cup {Listen}
    /\ nready \in Nat /\ maxfd \in Fds \cup {Listen} /\ maxidx \in Slot \cup {-1}
    /\ i \in Slot \cup {Slots} /\ spc \in {"select", "accept", "scan", "exit"}
    /\ spc \in {"accept", "scan"} => nready >= 1

\* The slots that the scan has yet to handle.
Due == {j \in Slot : i <= j /\ j <= maxidx /\ client[j] \in rset}

\* What is left to do after nready was counted down and the scan stands at j.
LEMMA SelectHandled ==
    ASSUME SelectTypes, nready >= 1, NEW j \in Slot \cup {Slots}, Select!Handled(j)
    PROVE  /\ nready' = nready - 1 /\ nready' \in Nat /\ i' = j /\ spc' \in {"select", "scan"}
           /\ spc' = "scan" => nready' >= 1 /\ Due' # {}
<1>1. nready' = nready - 1 /\ i' = j /\ nready \in Nat
  BY DEF Select!Handled, SelectTypes
<1>2. spc' = IF nready' <= 0 \/ Select!ReadySlots' = {} THEN "select" ELSE "scan"
  BY DEF Select!Handled
<1>3. Select!ReadySlots' = Due'
  BY DEF Select!ReadySlots, Due, Select!Slot, Slot
<1>4. nready' \in Nat
  BY <1>1
<1>5. CASE nready' <= 0 \/ Due' = {}
  BY <1>1, <1>2, <1>3, <1>4, <1>5
<1>6. CASE ~(nready' <= 0 \/ Due' = {})
  BY <1>1, <1>2, <1>3, <1>4, <1>6
<1>7. QED
  BY <1>5, <1>6

\* What select() reports is not empty, and is counted.
LEMMA SelectReports ==
    ASSUME SelectTypes, Select!select
    PROVE  /\ spc = "select" /\ rset' = {f \in allset : f <= maxfd /\ Readable(f)} /\ rset' # {}
           /\ rset' \subseteq Fds \cup {Listen}
           /\ IsFiniteSet(rset') /\ nready' = Cardinality(rset') /\ nready' \in Nat /\ nready' >= 1
           /\ i' = 0 /\ UNCHANGED <<svars, client, allset, maxfd, maxidx>>
           /\ Listen \in rset' => spc' = "accept"
           /\ Listen \notin rset' => spc' = "scan"
<1>1. /\ spc = "select" /\ rset' = {f \in allset : f <= maxfd /\ Readable(f)} /\ rset' # {}
      /\ nready' = Cardinality(rset') /\ i' = 0
      /\ spc' = (IF Listen \in rset' THEN "accept" ELSE "scan")
      /\ UNCHANGED <<svars, client, allset, maxfd, maxidx>>
  <2>1. /\ spc = "select" /\ rset' = {f \in allset : f <= maxfd /\ Select!Readable(f)} /\ rset' # {}
        /\ nready' = Select!Cardinality(rset') /\ i' = 0
        /\ spc' = (IF Select!Listen \in rset' THEN "accept" ELSE "scan")
        /\ UNCHANGED <<Select!svars, client, allset, maxfd, maxidx>>
    BY DEF Select!select
  <2>2. {f \in allset : f <= maxfd /\ Select!Readable(f)} = {f \in allset : f <= maxfd /\ Readable(f)}
    BY SelectKernel
  <2>3. QED
    BY <2>1, <2>2, SelectKernel DEF Select!svars, svars
<1>2. rset' \subseteq Fds \cup {Listen}
  BY <1>1 DEF SelectTypes
<1>3. IsFiniteSet(Fds \cup {Listen})
  BY Descriptors, FS_AddElement
<1>4. IsFiniteSet(rset')
  BY <1>2, <1>3, FS_Subset
<1>5. Cardinality(rset') \in Nat /\ Cardinality(rset') # 0
  BY <1>1, <1>4, FS_CardinalityType, FS_EmptySet
<1>6. QED
  BY <1>1, <1>2, <1>4, <1>5

\* What accept() does to the tables.
LEMMA SelectAccepts ==
    ASSUME SelectTypes, Select!accept
    PROVE  /\ spc = "accept" /\ rset' = rset /\ Select!Handled(0)
           /\ \E f \in Fds, j \in Slot :
                 /\ Accepts(f) /\ client[j] < 0 /\ \A k \in Slot : client[k] < 0 => j <= k
                 /\ client' = [client EXCEPT ![j] = f] /\ allset' = allset \cup {f}
                 /\ maxfd' = (IF f > maxfd THEN f ELSE maxfd)
                 /\ maxidx' = (IF j > maxidx THEN j ELSE maxidx)
<1>1. spc = "accept" /\ rset' = rset /\ Select!Handled(0)
  BY DEF Select!accept
<1>2. PICK f \in Fds, j \in Select!FreeSlots :
          /\ Accepts(f) /\ \A k \in Select!FreeSlots : j <= k
          /\ client' = [client EXCEPT ![j] = f] /\ allset' = allset \cup {f}
          /\ maxfd' = (IF f > maxfd THEN f ELSE maxfd)
          /\ maxidx' = (IF j > maxidx THEN j ELSE maxidx)
  BY SelectKernel DEF Select!accept
<1>3. Select!FreeSlots = {k \in Slot : client[k] < 0}
  BY SelectKernel DEF Select!FreeSlots
<1>4. QED
  BY <1>1, <1>2, <1>3

\* What a step of the scan does: it is at the first slot that is due.
LEMMA SelectScans ==
    ASSUME KernelInv, SelectTypes, NEW j \in Select!Slot,
           Select!scan_echo(j) \/ Select!scan_close(j)
    PROVE  /\ spc = "scan" /\ j \in Due /\ (\A k \in Due : j <= k) /\ client[j] \in Fds
           /\ j + 1 \in Slot \cup {Slots}
           /\ Select!Handled(j + 1) /\ UNCHANGED <<rset, maxfd, maxidx>>
           /\ \/ /\ file[client[j]] \in Peers /\ UNCHANGED <<client, allset>>
                 /\ \E n \in 1..MaxSend : SendsBack(file[client[j]], n)
              \/ /\ Closes(client[j]) /\ allset' = allset \ {client[j]}
                 /\ client' = [client EXCEPT ![j] = -1]
<1>1. spc = "scan" /\ Select!IsNext(j) /\ Select!Handled(j + 1) /\ UNCHANGED <<rset, maxfd, maxidx>>
  BY DEF Select!scan_echo, Select!scan_close
<1>2. Select!ReadySlots = Due
  BY SelectKernel DEF Select!ReadySlots, Due
<1>3. j \in Due /\ (\A k \in Due : j <= k)
  BY <1>1, <1>2 DEF Select!IsNext
<1>4. client[j] \in Fds /\ j \in Slot
  BY <1>3, Descriptors DEF Due, SelectTypes
<1>5. j + 1 \in Slot \cup {Slots}
  BY <1>4, SlotsFinite DEF Slot
<1>6. CASE Select!scan_echo(j)
  <2>1. PICK n \in 1..MaxSend : Echoes(client[j], n)
    BY <1>6, SelectKernel DEF Select!scan_echo
  <2>2. file[client[j]] \in Peers /\ SendsBack(file[client[j]], n)
    BY <1>4, <2>1 DEF Echoes, KernelInv, SocketsType
  <2>3. UNCHANGED <<client, allset>>
    BY <1>6 DEF Select!scan_echo
  <2>4. QED
    BY <1>1, <1>3, <1>4, <1>5, <2>2, <2>3
<1>7. CASE Select!scan_close(j)
  <2>1. Closes(client[j]) /\ allset' = allset \ {client[j]} /\ client' = [client EXCEPT ![j] = -1]
    BY <1>7, SelectKernel DEF Select!scan_close
  <2>2. QED
    BY <1>1, <1>3, <1>4, <1>5, <2>1
<1>8. QED
  BY <1>6, <1>7

\* The end of the process.
LEMMA SelectExits ==
    ASSUME Select!accept_exit \/ \E j \in Select!Slot : Select!scan_sigpipe(j)
    PROVE  Exits /\ spc' = "exit" /\ UNCHANGED <<client, allset, rset, nready, maxfd, maxidx, i>>
  BY SelectKernel DEF Select!accept_exit, Select!scan_sigpipe

\* Every step of the server keeps the types.
LEMMA SelectTypesKept ==
    ASSUME KernelInv, SelectTypes, Select!Server
    PROVE  KernelInv' /\ SelectTypes'
<1> USE Descriptors, SlotsFinite
<1>1. CASE Select!select
  <2>1. KernelInv'
    <3>1. UNCHANGED svars
      BY <1>1, SelectReports
    <3>2. QED
      BY <3>1 DEF svars, KernelInv, SocketsType, ConnInv, QueueInv
  <2>2. 0 \in Slot
    BY DEF Slot
  <2>3. QED
    BY <1>1, <2>1, <2>2, SelectReports DEF SelectTypes
<1>2. CASE Select!accept
  <2>1. PICK f \in Fds, j \in Slot :
              /\ Accepts(f) /\ client' = [client EXCEPT ![j] = f] /\ allset' = allset \cup {f}
              /\ maxfd' = (IF f > maxfd THEN f ELSE maxfd)
              /\ maxidx' = (IF j > maxidx THEN j ELSE maxidx)
    BY <1>2, SelectAccepts
  <2>2. KernelInv'
    BY <2>1, AcceptsKeeps
  <2>3. nready >= 1 /\ 0 \in Slot /\ Select!Handled(0) /\ rset' = rset
    BY <1>2, SelectAccepts DEF SelectTypes, Slot
  <2>4. /\ nready' \in Nat /\ i' = 0 /\ spc' \in {"select", "scan"}
        /\ spc' = "scan" => nready' >= 1
    BY <2>3, SelectHandled
  <2>5. QED
    BY <2>1, <2>2, <2>3, <2>4 DEF SelectTypes
<1>3. CASE Select!accept_eintr
  <2>1. spc' = "select" /\ UNCHANGED <<svars, client, allset, rset, nready, maxfd, maxidx, i>>
    BY <1>3 DEF Select!accept_eintr, Select!svars, svars
  <2>2. QED
    BY <2>1 DEF SelectTypes, svars, KernelInv, SocketsType, ConnInv, QueueInv
<1>4. ASSUME NEW j \in Select!Slot, Select!scan_echo(j) \/ Select!scan_close(j)
      PROVE  KernelInv' /\ SelectTypes'
  <2>1. client[j] \in Fds /\ j + 1 \in Slot \cup {Slots} /\ Select!Handled(j + 1) /\ nready >= 1
        /\ UNCHANGED <<rset, maxfd, maxidx>>
    BY <1>4, SelectScans DEF SelectTypes
  <2>2. KernelInv' /\ client' \in [Slot -> Fds \cup {-1}] /\ allset' \subseteq allset
    <3>1. CASE /\ file[client[j]] \in Peers /\ UNCHANGED <<client, allset>>
               /\ \E n \in 1..MaxSend : SendsBack(file[client[j]], n)
      BY <3>1, SendsBackKeeps DEF SelectTypes
    <3>2. CASE /\ Closes(client[j]) /\ allset' = allset \ {client[j]}
               /\ client' = [client EXCEPT ![j] = -1]
      BY <2>1, <3>2, ClosesKeeps DEF SelectTypes
    <3>3. QED
      BY <1>4, <3>1, <3>2, SelectScans
  <2>3. /\ nready' \in Nat /\ i' = j + 1 /\ spc' \in {"select", "scan"}
        /\ spc' = "scan" => nready' >= 1
    BY <2>1, SelectHandled
  <2>4. QED
    BY <2>1, <2>2, <2>3 DEF SelectTypes
<1>5. CASE Select!accept_exit \/ \E j \in Select!Slot : Select!scan_sigpipe(j)
  BY <1>5, SelectExits, ExitsKeeps DEF SelectTypes
<1>6. QED
  BY <1>1, <1>2, <1>3, <1>4, <1>5 DEF Select!Server

\* The memset() reaches the slots that can be used: as many as there are descriptors, or
\* all.  (It reaches 256 of 1024 slots; with more descriptors than that the run that
\* checks QuitsWhenFull shows a server that takes what was on the stack for a client.)
Memset == MaxFd <= InitSlots \/ InitSlots = Slots

\* The three tables agree, and the slots that were not yet used are free.
SelectTables ==
    /\ allset = OpenFds \cup {Listen}
    /\ \A f \in allset : f <= maxfd
    /\ \A f \in OpenFds : \E j \in Slot : j <= maxidx /\ client[j] = f
    /\ \A j, k \in Slot :
          j <= maxidx /\ k <= maxidx /\ client[j] = client[k] /\ client[j] # -1 => j = k
    /\ \A j \in Slot : j <= maxidx /\ client[j] # -1 => client[j] \in OpenFds
    /\ maxidx < InitSlots
    /\ \A j \in Slot : maxidx < j /\ j < InitSlots => client[j] = -1

\* A turn: what is due is readable, and nready counts it, and the listening descriptor
\* until that was handled.
SelectTurn ==
    /\ spc \in {"accept", "scan"} => \A j \in Due : Readable(client[j])
    /\ spc = "accept" =>
          /\ i = 0 /\ Listen \in rset /\ rset \ {Listen} \subseteq OpenFds
          /\ nready = Cardinality(Due) + 1
    /\ spc = "scan" => nready = Cardinality(Due)

SelectInv == spc # "exit" => SelectTables /\ SelectTurn

\* As long as a descriptor is free, one of the slots that the memset() reached is.
LEMMA FirstFree ==
    ASSUME Memset, SelectTypes, SelectTables, NEW f \in Fds \ OpenFds,
           NEW j \in Slot, \A k \in Slot : client[k] < 0 => j <= k
    PROVE  j < InitSlots
<1> USE Descriptors, SlotsFinite
<1>1. SUFFICES ASSUME InitSlots <= j
               PROVE  FALSE
  BY DEF Slot
<1>2. MaxFd <= InitSlots
  BY <1>1 DEF Memset, Slot
<1> DEFINE S == 0..(MaxFd - 1)
           T == Fds \ {f}
           g == [k \in S |-> client[k]]
<1>3. ASSUME NEW k \in S
      PROVE  k \in Slot /\ k <= maxidx /\ client[k] \in T
  <2>1. k \in Slot /\ k < j /\ k < InitSlots
    BY <1>1, <1>2 DEF Slot
  <2>2. client[k] \in Fds \cup {-1} /\ ~(client[k] < 0)
    BY <2>1 DEF SelectTypes, Slot
  <2>3. client[k] # -1
    BY <2>2
  <2>4. k <= maxidx
    BY <2>1, <2>3 DEF SelectTables, SelectTypes, Slot
  <2>5. client[k] \in OpenFds
    BY <2>1, <2>3, <2>4 DEF SelectTables
  <2>6. QED
    BY <2>1, <2>2, <2>3, <2>4, <2>5
<1>4. IsFiniteSet(S) /\ Cardinality(S) = MaxFd
  <2>1. 0 \in Int /\ MaxFd - 1 \in Int
    OBVIOUS
  <2>2. IsFiniteSet(S) /\ Cardinality(S) = IF 0 > MaxFd - 1 THEN 0 ELSE MaxFd - 1 - 0 + 1
    BY <2>1, FS_Interval, Zenon
  <2>3. QED
    BY <2>2
<1>5. IsFiniteSet(T) /\ Cardinality(T) = MaxFd - 1
  <2>1. IsFiniteSet(Fds) /\ f \in Fds /\ Cardinality(Fds) = MaxFd
    OBVIOUS
  <2>2. IsFiniteSet(T) /\ Cardinality(T) = IF f \in Fds THEN Cardinality(Fds) - 1 ELSE Cardinality(Fds)
    BY <2>1, FS_RemoveElement, Zenon
  <2>3. QED
    BY <2>1, <2>2
<1>6. g \in [S -> T]
  BY <1>3
<1>7. \E x, y \in S : x # y /\ g[x] = g[y]
  <2>1. Cardinality(T) < Cardinality(S)
    BY <1>4, <1>5
  <2> HIDE DEF S, T, g
  <2>2. QED
    BY <1>4, <1>5, <1>6, <2>1, FS_PigeonHole
<1>8. PICK x \in S, y \in S : x # y /\ client[x] = client[y]
  BY <1>7
<1>9. client[x] # -1
  BY <1>3
<1>10. QED
  BY <1>3, <1>8, <1>9 DEF SelectTables

\* select() reports the open descriptors that are readable, each in its slot.
LEMMA SelectInvSelect ==
    ASSUME KernelInv, SelectTypes, SelectTables, Select!select
    PROVE  SelectTables' /\ SelectTurn'
<1> USE Descriptors, SlotsFinite
<1>1. /\ rset' = {f \in allset : f <= maxfd /\ Readable(f)}
      /\ IsFiniteSet(rset') /\ nready' = Cardinality(rset') /\ i' = 0
      /\ UNCHANGED <<svars, client, allset, maxfd, maxidx>>
      /\ Listen \in rset' => spc' = "accept"
      /\ Listen \notin rset' => spc' = "scan"
  BY SelectReports
<1>2. SelectTables'
  BY <1>1 DEF SelectTables, svars, OpenFds
<1>3. rset' = {f \in OpenFds \cup {Listen} : Readable(f)}
  BY <1>1 DEF SelectTables
<1>4. Due' = {j \in Slot : j <= maxidx /\ client[j] \in rset'}
  BY <1>1 DEF Due, Slot
<1>5. \A j \in Due' : j \in Slot /\ client[j] \in rset' \ {Listen} /\ Readable(client[j])
  BY <1>3, <1>4 DEF SelectTypes
<1>6. IsFiniteSet(rset' \ {Listen}) /\ Cardinality(Due') = Cardinality(rset' \ {Listen})
  <2> DEFINE g == [j \in Due' |-> client[j]]
  <2>1. IsFiniteSet(Due')
    BY <1>5
  <2>2. g \in [Due' -> rset' \ {Listen}]
    BY <1>5
  <2>3. \A x, y \in Due' : g[x] = g[y] => x = y
    <3>1. SUFFICES ASSUME NEW x \in Due', NEW y \in Due', client[x] = client[y]
                   PROVE  x = y
      OBVIOUS
    <3>2. x \in Slot /\ y \in Slot /\ x <= maxidx /\ y <= maxidx /\ client[x] # -1
      BY <1>4, <1>5, <1>3 DEF OpenFds
    <3>3. QED
      BY <3>1, <3>2 DEF SelectTables
  <2>4. \A t \in rset' \ {Listen} : \E x \in Due' : g[x] = t
    <3>1. ASSUME NEW t \in rset' \ {Listen}
          PROVE  \E x \in Due' : client[x] = t
      <4>1. t \in OpenFds
        BY <1>3
      <4>2. PICK x \in Slot : x <= maxidx /\ client[x] = t
        BY <4>1 DEF SelectTables
      <4>3. QED
        BY <1>4, <4>2
    <3>2. QED
      BY <3>1
  <2> HIDE DEF g
  <2>5. QED
    BY <2>1, <2>2, <2>3, <2>4, SameSize
<1>7. Listen \in rset' => Cardinality(rset' \ {Listen}) = Cardinality(rset') - 1
  BY <1>1, FS_RemoveElement
<1>8. Listen \notin rset' => rset' \ {Listen} = rset'
  OBVIOUS
<1>9. \A j \in Due' : Readable(client[j])'
  BY <1>1, <1>5 DEF svars, Readable
<1>10. rset' \ {Listen} \subseteq OpenFds'
  BY <1>1, <1>3 DEF svars, OpenFds
<1>11. Cardinality(rset') \in Nat /\ Cardinality(Due') \in Nat
  BY <1>1, <1>6, FS_CardinalityType
<1>12. SelectTurn'
  <2>1. spc' = "accept" => Listen \in rset' /\ nready' = Cardinality(Due') + 1
    BY <1>1, <1>6, <1>7, <1>11
  <2>2. spc' = "scan" => nready' = Cardinality(Due')
    BY <1>1, <1>6, <1>8
  <2>3. QED
    BY <1>1, <1>9, <1>10, <2>1, <2>2 DEF SelectTurn
<1>13. QED
  BY <1>2, <1>12

\* accept() enters a descriptor that was not reported, so that as much is due as before.
LEMMA SelectInvAccept ==
    ASSUME Memset, KernelInv, SelectTypes, SelectTables, SelectTurn, Select!accept
    PROVE  SelectTables' /\ SelectTurn'
<1> USE Descriptors, SlotsFinite
<1>1. PICK f \in Fds, j \in Slot :
          /\ Accepts(f) /\ client[j] < 0 /\ \A k \in Slot : client[k] < 0 => j <= k
          /\ client' = [client EXCEPT ![j] = f] /\ allset' = allset \cup {f}
          /\ maxfd' = (IF f > maxfd THEN f ELSE maxfd)
          /\ maxidx' = (IF j > maxidx THEN j ELSE maxidx)
  BY SelectAccepts
<1>2. /\ f \notin OpenFds /\ OpenFds' = OpenFds \cup {f}
      /\ \A g \in Fds : Readable(g) => Readable(g)'
  BY <1>1, AcceptsKeeps
<1>3. /\ spc = "accept" /\ rset' = rset /\ nready' = nready - 1 /\ i' = 0
      /\ spc' \in {"select", "scan"}
  <2>1. spc = "accept" /\ rset' = rset /\ Select!Handled(0)
    BY SelectAccepts
  <2>2. nready >= 1 /\ 0 \in Slot
    BY <2>1 DEF SelectTypes, Slot
  <2>3. QED
    BY <2>1, <2>2, SelectHandled
<1>4. j < InitSlots /\ client[j] = -1
  <2>1. client[j] \in Fds \cup {-1}
    BY DEF SelectTypes
  <2>2. client[j] = -1
    BY <1>1, <2>1
  <2>3. f \in Fds \ OpenFds /\ \A k \in Slot : client[k] < 0 => j <= k
    BY <1>1, <1>2
  <2>4. j < InitSlots
    BY <2>3, FirstFree
  <2>5. QED
    BY <2>2, <2>4
<1>5. maxidx' \in Slot /\ maxidx' < InitSlots /\ j <= maxidx' /\ maxidx <= maxidx'
  <2>1. maxidx \in Int /\ maxidx < InitSlots /\ maxidx \in Slot \cup {-1} /\ j \in Int
    BY DEF SelectTypes, SelectTables, Slot
  <2>2. CASE j > maxidx
    BY <1>1, <1>4, <2>1, <2>2
  <2>3. CASE ~(j > maxidx)
    BY <1>1, <1>4, <2>1, <2>3 DEF Slot
  <2>4. QED
    BY <2>2, <2>3
<1>6. ASSUME NEW k \in Slot, k <= maxidx', k # j
      PROVE  k <= maxidx /\ client'[k] = client[k]
  <2>1. client'[k] = client[k]
    BY <1>1, <1>6 DEF SelectTypes
  <2>2. CASE maxidx < k
    <3>1. k < j
      BY <1>1, <1>6, <2>2 DEF SelectTypes, Slot
    <3>2. client[k] = -1
      BY <1>4, <2>2, <3>1 DEF SelectTables, Slot
    <3>3. QED
      BY <1>1, <3>1, <3>2 DEF Slot
  <2>3. QED
    BY <2>1, <2>2 DEF SelectTypes, Slot
<1>7. client'[j] = f /\ \A k \in Slot \ {j} : client'[k] = client[k]
  BY <1>1 DEF SelectTypes
<1>8. SelectTables'
  <2>1. allset' = OpenFds' \cup {Listen}
    BY <1>1, <1>2 DEF SelectTables
  <2>2. \A g \in allset' : g <= maxfd'
    BY <1>1 DEF SelectTables, SelectTypes
  <2>3. \A g \in OpenFds' : \E k \in Slot : k <= maxidx' /\ client'[k] = g
    <3>1. ASSUME NEW g \in OpenFds
          PROVE  \E k \in Slot : k <= maxidx' /\ client'[k] = g
      <4>1. PICK k \in Slot : k <= maxidx /\ client[k] = g
        BY DEF SelectTables
      <4>2. k # j
        BY <1>4, <4>1 DEF OpenFds
      <4>3. k <= maxidx'
        BY <1>5, <4>1 DEF SelectTypes, Slot
      <4>4. QED
        BY <1>7, <4>1, <4>2, <4>3
    <3>2. QED
      BY <1>2, <1>5, <1>7, <3>1
  <2>4. ASSUME NEW k \in Slot, k <= maxidx', k # j, client'[k] # -1
        PROVE  client'[k] \in OpenFds
    BY <1>6, <2>4 DEF SelectTables
  <2>5. \A k \in Slot : k <= maxidx' /\ client'[k] # -1 => client'[k] \in OpenFds'
    BY <1>2, <1>7, <2>4
  <2>6. ASSUME NEW k \in Slot, NEW l \in Slot, k <= maxidx', l <= maxidx',
               client'[k] = client'[l], client'[k] # -1
        PROVE  k = l
    <3>1. CASE k = j \/ l = j
      BY <1>2, <1>7, <2>4, <2>6, <3>1
    <3>2. CASE k # j /\ l # j
      BY <1>6, <2>6, <3>2 DEF SelectTables
    <3>3. QED
      BY <3>1, <3>2
  <2>7. ASSUME NEW k \in Slot, maxidx' < k, k < InitSlots
        PROVE  client'[k] = -1
    <3>1. k # j /\ maxidx < k
      BY <1>5, <2>7 DEF SelectTypes, Slot
    <3>2. QED
      BY <1>7, <2>7, <3>1 DEF SelectTables
  <2>8. QED
    BY <1>5, <2>1, <2>2, <2>3, <2>5, <2>6, <2>7 DEF SelectTables
<1>9. f \notin rset /\ -1 \notin rset
  BY <1>2, <1>3 DEF SelectTurn, SelectTypes
<1>10. Due' = Due
  <2>1. i = 0
    BY <1>3 DEF SelectTurn
  <2>2. ASSUME NEW k \in Slot
        PROVE  (0 <= k /\ k <= maxidx' /\ client'[k] \in rset)
                 <=> (0 <= k /\ k <= maxidx /\ client[k] \in rset)
    <3>1. CASE k = j
      BY <1>4, <1>7, <1>9, <3>1
    <3>2. CASE k # j
      BY <1>5, <1>6, <1>7, <3>2 DEF SelectTypes, Slot
    <3>3. QED
      BY <3>1, <3>2
  <2>3. QED
    BY <1>3, <2>1, <2>2 DEF Due
<1>11. \A k \in Due' : Readable(client[k])'
  <2>1. ASSUME NEW k \in Due
        PROVE  Readable(client[k])'
    <3>1. k \in Slot /\ client[k] \in rset /\ Readable(client[k]) /\ k # j
      BY <1>3, <1>4, <1>9 DEF Due, SelectTurn
    <3>2. client'[k] = client[k] /\ client[k] \in Fds
      BY <1>7, <3>1 DEF SelectTypes, SelectTables, Due
    <3>3. QED
      BY <1>2, <3>1, <3>2 DEF Readable
  <2>2. QED
    BY <1>10, <2>1
<1>12. nready' = Cardinality(Due')
  <2>1. nready = Cardinality(Due) + 1
    BY <1>3 DEF SelectTurn
  <2>2. Cardinality(Due) \in Nat
    BY DEF Due
  <2>3. QED
    BY <1>3, <1>10, <2>1, <2>2
<1>13. SelectTurn'
  BY <1>3, <1>11, <1>12 DEF SelectTurn
<1>14. QED
  BY <1>8, <1>13

\* A step of the scan takes the first slot that is due off what is due.
LEMMA SelectInvScan ==
    ASSUME KernelInv, SelectTypes, SelectTables, SelectTurn, NEW j \in Select!Slot,
           Select!scan_echo(j) \/ Select!scan_close(j)
    PROVE  SelectTables' /\ SelectTurn'
<1> USE Descriptors, SlotsFinite
<1>1. /\ spc = "scan" /\ j \in Due /\ (\A k \in Due : j <= k) /\ client[j] \in Fds
      /\ j + 1 \in Slot \cup {Slots} /\ Select!Handled(j + 1) /\ UNCHANGED <<rset, maxfd, maxidx>>
  BY SelectScans
<1>2. nready' = nready - 1 /\ i' = j + 1 /\ spc' \in {"select", "scan"}
  <2>1. nready >= 1
    BY <1>1 DEF SelectTypes
  <2>2. QED
    BY <1>1, <2>1, SelectHandled
<1>3. j \in Slot /\ j <= maxidx /\ client[j] \in OpenFds /\ file[client[j]] \in Peers
  BY <1>1 DEF Due, SelectTables, OpenFds, KernelInv, SocketsType
<1> DEFINE echo == /\ file[client[j]] \in Peers /\ UNCHANGED <<client, allset>>
                   /\ \E n \in 1..MaxSend : SendsBack(file[client[j]], n)
           shut == /\ Closes(client[j]) /\ allset' = allset \ {client[j]}
                   /\ client' = [client EXCEPT ![j] = -1]
<1>4. echo \/ shut
  BY SelectScans
<1>5. /\ \A k \in Slot \ {j} : client'[k] = client[k]
      /\ \A g \in (Fds \cup {Listen}) \ {client[j]} : Readable(g) => Readable(g)'
      /\ SelectTables'
  <2>1. CASE echo
    <3>1. Calm /\ OnlyOf(file[client[j]]) /\ OpenFds' = OpenFds
      BY <1>3, <2>1, SendsBackKeeps
    <3>2. \A g \in (Fds \cup {Listen}) \ {client[j]} : Readable(g) => Readable(g)'
      BY <1>1, <1>3, <3>1, OthersReadable
    <3>3. SelectTables'
      BY <1>1, <2>1, <3>1 DEF SelectTables
    <3>4. QED
      BY <2>1, <3>2, <3>3
  <2>2. CASE shut
    <3>1. /\ OpenFds' = OpenFds \ {client[j]} 
          /\ \A g \in (Fds \cup {Listen}) \ {client[j]} : Readable(g) => Readable(g)'
      BY <1>1, <2>2, ClosesKeeps
    <3>2. client'[j] = -1 /\ \A k \in Slot \ {j} : client'[k] = client[k]
      BY <1>3, <2>2 DEF SelectTypes
    <3>3. \A k \in Slot \ {j} : k <= maxidx /\ client[k] # -1 => client[k] # client[j]
      BY <1>3 DEF SelectTables
    <3>4. SelectTables'
      <4>1. allset' = OpenFds' \cup {Listen} /\ \A g \in allset' : g <= maxfd'
        BY <1>1, <2>2, <3>1 DEF SelectTables
      <4>2. \A g \in OpenFds' : \E k \in Slot : k <= maxidx' /\ client'[k] = g
        BY <1>1, <3>1, <3>2 DEF SelectTables
      <4>3. \A k \in Slot : k <= maxidx' /\ client'[k] # -1 => client'[k] \in OpenFds'
        BY <1>1, <3>1, <3>2, <3>3 DEF SelectTables
      <4>4. \A k, l \in Slot :
                k <= maxidx' /\ l <= maxidx' /\ client'[k] = client'[l] /\ client'[k] # -1 => k = l
        BY <1>1, <3>2 DEF SelectTables
      <4>5. maxidx' < InitSlots /\ \A k \in Slot : maxidx' < k /\ k < InitSlots => client'[k] = -1
        BY <1>1, <3>2 DEF SelectTables
      <4>6. QED
        BY <4>1, <4>2, <4>3, <4>4, <4>5 DEF SelectTables
    <3>5. QED
      BY <3>1, <3>2, <3>4
  <2>3. QED
    BY <1>4, <2>1, <2>2
<1>6. Due' = Due \ {j}
  <2>1. ASSUME NEW k \in Slot
        PROVE  (j + 1 <= k /\ k <= maxidx /\ client'[k] \in rset)
                 <=> (k # j /\ i <= k /\ k <= maxidx /\ client[k] \in rset)
    <3>1. CASE k = j
      BY <1>3, <3>1 DEF Slot
    <3>2. CASE k # j
      <4>1. client'[k] = client[k]
        BY <1>5, <3>2
      <4>2. i \in Int /\ i <= j /\ j \in Int /\ k \in Int
        BY <1>1 DEF Due, SelectTypes, Slot
      <4>3. ASSUME i <= k, k <= maxidx, client[k] \in rset
            PROVE  j + 1 <= k
        <5>1. k \in Due
          BY <4>3 DEF Due
        <5>2. j <= k
          BY <1>1, <5>1
        <5>3. QED
          BY <3>2, <4>2, <5>2
      <4>4. j + 1 <= k => i <= k
        BY <4>2
      <4>5. QED
        BY <3>2, <4>1, <4>3, <4>4
    <3>3. QED
      BY <3>1, <3>2
  <2>2. Due' = {k \in Slot : j + 1 <= k /\ k <= maxidx /\ client'[k] \in rset}
    BY <1>1, <1>2 DEF Due
  <2>3. Due \ {j} = {k \in Slot : k # j /\ i <= k /\ k <= maxidx /\ client[k] \in rset}
    BY DEF Due
  <2>4. QED
    BY <2>1, <2>2, <2>3
<1>7. nready' = Cardinality(Due')
  <2>1. nready = Cardinality(Due)
    BY <1>1 DEF SelectTurn
  <2>2. IsFiniteSet(Due) /\ Cardinality(Due) \in Nat
    BY DEF Due
  <2>3. Cardinality(Due \ {j}) = Cardinality(Due) - 1
    BY <1>1, <2>2, FS_RemoveElement
  <2>4. QED
    BY <1>2, <1>6, <2>1, <2>2, <2>3
<1>8. \A k \in Due' : Readable(client[k])'
  <2>1. ASSUME NEW k \in Due, k # j
        PROVE  Readable(client[k])'
    <3>1. k \in Slot /\ k <= maxidx /\ client[k] \in rset /\ Readable(client[k])
      BY <1>1 DEF Due, SelectTurn
    <3>2. client'[k] = client[k] /\ client[k] \in Fds \cup {Listen} /\ client[k] # -1
      BY <1>5, <2>1, <3>1 DEF SelectTypes
    <3>3. client[k] # client[j]
      BY <1>3, <2>1, <3>1, <3>2 DEF SelectTables
    <3>4. QED
      BY <1>5, <3>1, <3>2, <3>3 DEF Readable
  <2>2. QED
    BY <1>6, <2>1
<1>9. SelectTurn'
  BY <1>2, <1>7, <1>8 DEF SelectTurn
<1>10. QED
  BY <1>5, <1>9

\* Types hold from the start and in every step, whatever the memset() reaches.
LEMMA SelectTypeInductive == Spec => [](kind = "select" => KernelInv /\ SelectTypes)
<1> DEFINE I == kind = "select" => KernelInv /\ SelectTypes
<1>1. Init => I
  <2>1. ASSUME Select!Init
        PROVE  KernelInv /\ SelectTypes
    <3>1. KernelInv
      BY <2>1, SelectKernel, KernelInit DEF Select!Init
    <3>2. SelectTypes
      <4>1. client \in [Slot -> Garbage \cup {-1}]
        BY <2>1, SelectKernel DEF Select!Init
      <4>2. client \in [Slot -> Fds \cup {-1}]
        BY <4>1, SlotsFinite
      <4>3. 0 \in Slot
        BY SlotsFinite DEF Slot
      <4>4. QED
        BY <2>1, <4>2, <4>3, SelectKernel, Descriptors DEF Select!Init, SelectTypes
    <3>3. QED
      BY <3>1, <3>2
  <2>2. QED
    BY <2>1 DEF Init
<1>2. I /\ [Next]_vars => I'
  <2>1. ASSUME KernelInv, SelectTypes, UNCHANGED vars
        PROVE  KernelInv' /\ SelectTypes'
    BY <2>1 DEF vars, svars, scanvars, selectvars, KernelInv, SocketsType, ConnInv, QueueInv, SelectTypes
  <2>2. ASSUME KernelInv, SelectTypes, PeerStep
        PROVE  KernelInv' /\ SelectTypes'
    <3>1. KernelInv'
      BY <2>2, PeerKeeps DEF PeerStep
    <3>2. SelectTypes'
      BY <2>2 DEF PeerStep, scanvars, selectvars, SelectTypes
    <3>3. QED
      BY <3>1, <3>2
  <2>3. QED
    BY <2>1, <2>2, OneServer, SelectTypesKept
<1>3. QED
  BY <1>1, <1>2, PTL DEF Spec

\* What a peer does meanwhile changes no table and makes nothing unreadable.
LEMMA SelectInvPeer ==
    ASSUME KernelInv, SelectTypes, SelectInv, PeerStep
    PROVE  SelectInv'
<1>1. PICK p \in Peers : Peer(p)
  BY DEF PeerStep
<1>2. /\ OpenFds' = OpenFds
      /\ \A f \in Fds \cup {Listen} : Readable(f) => Readable(f)'
  BY <1>1, PeerKeeps
<1>3. UNCHANGED <<spc, nready, maxidx, i, client, allset, maxfd, rset>>
  BY DEF PeerStep, scanvars, selectvars
<1>4. Due' = Due
  BY <1>3 DEF Due
<1>5. SUFFICES ASSUME spc # "exit"
               PROVE  SelectTables' /\ SelectTurn'
  BY <1>3 DEF SelectInv
<1>6. SelectTables'
  BY <1>2, <1>3, <1>5 DEF SelectInv, SelectTables
<1>7. ASSUME spc \in {"accept", "scan"}, NEW k \in Due
      PROVE  Readable(client[k])'
  <2>1. Readable(client[k]) /\ client[k] \in Fds \cup {Listen}
    BY <1>5, <1>7 DEF SelectInv, SelectTurn, Due, SelectTypes
  <2>2. QED
    BY <1>2, <1>3, <2>1 DEF Readable
<1>8. SelectTurn'
  BY <1>2, <1>3, <1>4, <1>5, <1>7 DEF SelectInv, SelectTurn
<1>9. QED
  BY <1>6, <1>8

\* The tables agree and the count is exact at every moment, when the memset() suffices.
LEMMA SelectInductive ==
    ASSUME Memset
    PROVE  Spec => [](kind = "select" => SelectInv)
<1> DEFINE T == kind = "select" => KernelInv /\ SelectTypes
           I == kind = "select" => SelectInv
<1>1. Init => I
  <2>1. ASSUME Select!Init
        PROVE  SelectInv
    <3>1. OpenFds = {}
      BY <2>1, SelectKernel, KernelInit DEF Select!Init
    <3>2. /\ \A j \in Slot : j < InitSlots => client[j] = -1
          /\ allset = {Listen} /\ maxfd = Listen /\ maxidx = -1 /\ spc = "select"
      BY <2>1, SelectKernel DEF Select!Init
    <3>3. SelectTables
      <4>1. \A j \in Slot : ~(j <= -1)
        BY SlotsFinite DEF Slot
      <4>2. maxidx < InitSlots
        BY <3>2, SlotsFinite
      <4>3. allset = OpenFds \cup {Listen} /\ \A f \in allset : f <= maxfd
        BY <3>1, <3>2, Descriptors
      <4>4. QED
        BY <3>1, <3>2, <4>1, <4>2, <4>3 DEF SelectTables
    <3>4. QED
      BY <3>2, <3>3 DEF SelectInv, SelectTurn
  <2>2. QED
    BY <2>1 DEF Init
<1>2. T /\ I /\ [Next]_vars => I'
  <2>1. ASSUME SelectInv, UNCHANGED vars
        PROVE  SelectInv'
    BY <2>1 DEF vars, svars, scanvars, selectvars, SelectInv, SelectTables, SelectTurn, Due,
                OpenFds, Readable
  <2>2. ASSUME KernelInv, SelectTypes, SelectInv, Select!Server
        PROVE  SelectInv'
    <3>1. CASE Select!select
      BY <2>2, <3>1, SelectInvSelect DEF SelectInv, Select!select
    <3>2. CASE Select!accept
      BY <2>2, <3>2, SelectInvAccept DEF SelectInv, Select!accept
    <3>3. CASE Select!accept_eintr
      <4>1. /\ spc = "accept" /\ spc' = "select"
            /\ UNCHANGED <<svars, client, allset, rset, nready, maxfd, maxidx, i>>
        BY <3>3 DEF Select!accept_eintr, Select!svars, svars
      <4>2. SelectTables'
        BY <2>2, <4>1 DEF SelectInv, SelectTables, OpenFds, svars
      <4>3. QED
        BY <4>1, <4>2 DEF SelectInv, SelectTurn
    <3>4. ASSUME NEW j \in Select!Slot, Select!scan_echo(j) \/ Select!scan_close(j)
          PROVE  SelectInv'
      BY <2>2, <3>4, SelectInvScan DEF SelectInv, Select!scan_echo, Select!scan_close
    <3>5. CASE Select!accept_exit \/ \E j \in Select!Slot : Select!scan_sigpipe(j)
      BY <3>5, SelectExits DEF SelectInv
    <3>6. QED
      BY <2>2, <3>1, <3>2, <3>3, <3>4, <3>5 DEF Select!Server
  <2>3. QED
    BY <2>1, <2>2, OneServer, SelectInvPeer
<1>3. QED
  BY <1>1, <1>2, SelectTypeInductive, PTL DEF Spec

\* The countdown of nready ends the scan of the select() server exactly when every
\* descriptor that was reported has been handled, however many there are and whatever
\* the peers do during the turn: as long as the memset() suffices.
THEOREM CountdownIsExactHolds ==
    ASSUME Memset
    PROVE  Spec => []CountdownIsExact
<1>1. ASSUME kind = "select" => KernelInv /\ SelectTypes, kind = "select" => SelectInv
      PROVE  CountdownIsExact
  <2>1. Select!ReadySlots = Due
    BY SelectKernel DEF Select!ReadySlots, Due
  <2>2. QED
    BY <1>1, <2>1, SelectKernel
    DEF CountdownIsExact, Select!CountdownIsExact, SelectInv, SelectTurn
<1>2. QED
  BY <1>1, SelectTypeInductive, SelectInductive, PTL

-----------------------------------------------------------------------------
(* The poll() server *)

\* What this server takes from the kernel is what every server takes.
LEMMA PollKernel ==
    /\ Poll!Fds = Fds /\ Poll!Listen = Listen /\ Poll!OpenFds = OpenFds /\ Poll!Slot = Slot
    /\ (Poll!SocketsInit <=> SocketsInit) /\ (Poll!SocketsType <=> SocketsType)
    /\ (Poll!AcceptFails <=> AcceptFails) /\ (Poll!Exits <=> Exits)
    /\ \A f : (Poll!Accepts(f) <=> Accepts(f)) /\ (Poll!Closes(f) <=> Closes(f))
    /\ \A f : (Poll!Readable(f) <=> Readable(f)) /\ (Poll!ReadBlocks(f) <=> ReadBlocks(f))
    /\ \A f, n : (Poll!Echoes(f, n) <=> Echoes(f, n))
    /\ \A S : Poll!Cardinality(S) = Cardinality(S)
<1>1. \A S : Poll!Cardinality(S) = Cardinality(S)
  BY DEF Poll!Cardinality, Cardinality
<1>2. QED
  BY <1>1 DEF Poll!Fds, Poll!Listen, Poll!OpenFds, Poll!Slot, Poll!SocketsInit,
    Poll!SocketsType, Poll!AcceptFails, Poll!Exits, Poll!Accepts, Poll!Closes,
    Poll!Readable, Poll!ReadBlocks, Poll!Echoes, Poll!SendsBack, Poll!HasData, Poll!Broken,
    Fds, Listen, OpenFds, Slot, SocketsInit, SocketsType, AcceptFails, Exits, Accepts,
    Closes, Readable, ReadBlocks, Echoes, SendsBack, HasData, Broken

\* The types, but for revents; a turn that is not over has something left to count down.
PollTypes ==
    /\ fd \in [Slot -> Fds \cup {Listen, -1}]
    /\ nready \in Nat /\ maxidx \in Slot /\ i \in 1..(Slots + 1)
    /\ spc \in {"poll", "accept", "scan", "exit"}
    /\ spc \in {"accept", "scan"} => nready >= 1

\* The entries that the scan has yet to handle, if it gets that far.
PollDue == {j \in Slot : i <= j /\ j <= maxidx /\ fd[j] >= 0 /\ revents[j]}

\* The array agrees with the descriptors.
PollTable ==
    /\ fd[0] = Listen
    /\ \A f \in OpenFds : \E j \in Slot \ {0} : j <= maxidx /\ fd[j] = f
    /\ \A j, k \in Slot : fd[j] = fd[k] /\ fd[j] # -1 => j = k
    /\ \A j \in Slot \ {0} : fd[j] # -1 => j <= maxidx /\ fd[j] \in OpenFds

\* A turn: nready counts what poll() reported and is not yet handled.  That is all that
\* is due, or all but the last entry, which accept() has added.
PollTurn ==
    /\ spc = "accept" =>
          /\ i = 1 /\ nready = Cardinality(PollDue) + 1
          /\ \A j \in PollDue : Readable(fd[j])
          /\ \A j \in Slot : j <= maxidx /\ fd[j] = -1 => ~revents[j]
    /\ spc = "scan" =>
          \E R \in {PollDue, PollDue \ {maxidx}} :
              nready = Cardinality(R) /\ \A j \in R : Readable(fd[j])

PollInv == KernelInv /\ PollTypes /\ (spc # "exit" => PollTable /\ PollTurn)

\* The entry at which the scan goes on is one that poll() reported.
LEMMA PollNext ==
    ASSUME PollInv, spc = "scan", NEW j \in PollDue, \A k \in PollDue : j <= k
    PROVE  \E R \in {PollDue, PollDue \ {maxidx}} :
              /\ nready = Cardinality(R) /\ (\A k \in R : Readable(fd[k])) /\ j \in R
              /\ IsFiniteSet(R) /\ Cardinality(R) \in Nat
<1>1. PICK R \in {PollDue, PollDue \ {maxidx}} :
          nready = Cardinality(R) /\ \A k \in R : Readable(fd[k])
  BY DEF PollInv, PollTurn
<1>2. IsFiniteSet(R) /\ Cardinality(R) \in Nat
  <2>1. R \subseteq Slot
    BY <1>1 DEF PollDue
  <2>2. QED
    BY <2>1, SlotsFinite
<1>3. R # {}
  <2>1. Cardinality(R) # 0
    BY <1>1 DEF PollInv, PollTypes
  <2>2. QED
    BY <1>2, <2>1, FS_EmptySet
<1>4. j \in R
  <2>1. PICK k \in R : TRUE
    BY <1>3
  <2>2. CASE R = PollDue
    BY <2>2
  <2>3. CASE R = PollDue \ {maxidx}
    <3>1. k \in PollDue /\ k # maxidx /\ k \in Int /\ j \in Int /\ maxidx \in Int /\ k <= maxidx
      BY <2>1, <2>3, SlotsFinite DEF PollDue, Slot, PollInv, PollTypes
    <3>2. j <= k
      BY <3>1
    <3>3. j # maxidx
      BY <3>1, <3>2
    <3>4. QED
      BY <2>3, <3>3
  <2>4. QED
    BY <1>1, <2>2, <2>3
<1>5. QED
  BY <1>1, <1>2, <1>4

\* What is left to do after nready was counted down and the scan stands at j.
LEMMA PollHandled ==
    ASSUME PollTypes, nready >= 1, NEW j \in 1..(Slots + 1), Poll!Handled(j)
    PROVE  /\ nready' = nready - 1 /\ nready' \in Nat /\ i' = j /\ spc' \in {"poll", "scan"}
           /\ spc' = "scan" => nready' >= 1
<1>1. nready' = nready - 1 /\ i' = j /\ nready \in Nat
  BY DEF Poll!Handled, PollTypes
<1>2. spc' = IF nready' <= 0 \/ Poll!ReadySlots' = {} THEN "poll" ELSE "scan"
  BY DEF Poll!Handled
<1>3. nready' \in Nat
  BY <1>1
<1>4. CASE nready' <= 0
  BY <1>1, <1>2, <1>3, <1>4
<1>5. CASE ~(nready' <= 0)
  BY <1>1, <1>2, <1>3, <1>5
<1>6. QED
  BY <1>4, <1>5

\* poll() fills in the entries up to maxidx and counts them.
LEMMA PollInvPoll ==
    ASSUME PollInv, Poll!poll
    PROVE  PollInv'
<1> USE Descriptors, SlotsFinite
<1> DEFINE Rep(j) == fd[j] >= 0 /\ Readable(fd[j])
           F == {j \in 0..maxidx : Rep(j)}
<1>1. \A j : Poll!Reported(j) <=> Rep(j)
  BY PollKernel DEF Poll!Reported
<1>2. /\ spc = "poll" /\ (\E j \in 0..maxidx : Rep(j))
      /\ revents' = [j \in Slot |-> IF j <= maxidx THEN Poll!Reported(j) ELSE revents[j]]
      /\ nready' = Cardinality(F) /\ i' = 1
      /\ spc' = (IF Rep(0) THEN "accept" ELSE "scan")
      /\ UNCHANGED <<svars, fd, maxidx>>
  <2>1. {j \in 0..maxidx : Poll!Reported(j)} = F
    BY <1>1
  <2>2. /\ spc = "poll" /\ (\E j \in 0..maxidx : Poll!Reported(j))
        /\ revents' = [j \in Slot |-> IF j <= maxidx THEN Poll!Reported(j) ELSE revents[j]]
        /\ nready' = Cardinality({j \in 0..maxidx : Poll!Reported(j)}) /\ i' = 1
        /\ spc' = (IF Poll!Reported(0) THEN "accept" ELSE "scan")
        /\ UNCHANGED <<svars, fd, maxidx>>
    BY PollKernel DEF Poll!poll, Poll!svars, svars
  <2>3. QED
    BY <1>1, <2>1, <2>2
<1>3. F \subseteq Slot /\ F # {}
  <2>1. F \subseteq Slot
    BY DEF PollInv, PollTypes, Slot
  <2>2. PICK j \in 0..maxidx : Rep(j)
    BY <1>2
  <2>3. j \in F
    BY <2>2
  <2>4. QED
    BY <2>1, <2>3
<1>4. IsFiniteSet(F) /\ Cardinality(F) \in Nat /\ Cardinality(F) >= 1
  <2>1. IsFiniteSet(F) /\ Cardinality(F) \in Nat
    BY <1>3
  <2>2. Cardinality(F) # 0
    <3> HIDE DEF F
    <3>1. QED
      BY <1>3, <2>1, FS_EmptySet
  <2>3. QED
    BY <2>1, <2>2
<1>5. PollDue' = F \ {0}
  <2>1. PollDue' = {j \in Slot : 1 <= j /\ j <= maxidx /\ fd[j] >= 0 /\ revents'[j]}
    BY <1>2 DEF PollDue
  <2>2. \A j \in Slot : j <= maxidx => (revents'[j] <=> Rep(j))
    BY <1>1, <1>2
  <2>3. QED
    BY <2>1, <2>2 DEF PollInv, PollTypes, Slot
<1>6. Rep(0) => Cardinality(F \ {0}) = Cardinality(F) - 1
  <2>1. ASSUME Rep(0)
        PROVE  0 \in F
    BY <2>1 DEF PollInv, PollTypes, Slot
  <2>2. QED
    BY <1>4, <2>1, FS_RemoveElement
<1>7. ~Rep(0) => F \ {0} = F
  OBVIOUS
<1>8. KernelInv' /\ PollTable'
  BY <1>2 DEF svars, PollInv, KernelInv, SocketsType, ConnInv, QueueInv, PollTable, OpenFds
<1>9. PollTypes'
  BY <1>2, <1>4 DEF PollInv, PollTypes
<1>10. \A j \in PollDue' : Readable(fd[j])'
  BY <1>2, <1>5 DEF svars, Readable
<1>11. PollTurn'
  <2>1. CASE Rep(0)
    <3>1. nready' = Cardinality(PollDue') + 1
      BY <1>2, <1>4, <1>5, <1>6, <2>1
    <3>2. \A j \in Slot : j <= maxidx' /\ fd'[j] = -1 => ~revents'[j]
      BY <1>1, <1>2
    <3>3. QED
      BY <1>2, <1>10, <2>1, <3>1, <3>2 DEF PollTurn
  <2>2. CASE ~Rep(0)
    <3>1. nready' = Cardinality(PollDue')
      BY <1>2, <1>5, <1>7, <2>2
    <3>2. QED
      BY <1>2, <1>10, <2>2, <3>1 DEF PollTurn
  <2>3. QED
    BY <2>1, <2>2
<1>12. QED
  BY <1>8, <1>9, <1>11 DEF PollInv

\* accept() takes an entry whose revents poll() has cleared, or the one after the last.
LEMMA PollInvAccept ==
    ASSUME PollInv, Poll!accept
    PROVE  PollInv'
<1> USE Descriptors, SlotsFinite
<1>1. PICK f \in Fds, j \in Slot \ {0} :
          /\ Accepts(f) /\ fd[j] < 0 /\ \A k \in Slot \ {0} : fd[k] < 0 => j <= k
          /\ fd' = [fd EXCEPT ![j] = f]
          /\ maxidx' = (IF j > maxidx THEN j ELSE maxidx)
  <2>1. Poll!FreeSlots = {k \in Slot \ {0} : fd[k] < 0}
    BY PollKernel DEF Poll!FreeSlots
  <2>2. QED
    BY <2>1, PollKernel DEF Poll!accept
<1>2. /\ KernelInv' /\ f \notin OpenFds /\ OpenFds' = OpenFds \cup {f}
      /\ \A g \in Fds : Readable(g) => Readable(g)'
  BY <1>1, AcceptsKeeps DEF PollInv
<1>3. /\ spc = "accept" /\ revents' = revents /\ nready' = nready - 1 /\ i' = 1
      /\ nready' \in Nat /\ spc' \in {"poll", "scan"} /\ (spc' = "scan" => nready' >= 1)
  <2>1. spc = "accept" /\ revents' = revents /\ Poll!Handled(1)
    BY DEF Poll!accept
  <2>2. PollTypes /\ nready >= 1 /\ 1 \in 1..(Slots + 1)
    BY <2>1 DEF PollInv, PollTypes
  <2>3. QED
    BY <2>1, <2>2, PollHandled
<1>4. fd[j] = -1
  <2>1. fd[j] \in Fds \cup {Listen, -1}
    BY DEF PollInv, PollTypes
  <2>2. QED
    BY <1>1, <2>1
<1>5. /\ maxidx \in Slot /\ maxidx' \in Slot /\ j <= maxidx' /\ maxidx <= maxidx'
      /\ j <= maxidx => maxidx' = maxidx
      /\ maxidx < j => maxidx' = j
  BY <1>1 DEF PollInv, PollTypes, Slot
<1>6. fd'[j] = f /\ \A k \in Slot \ {j} : fd'[k] = fd[k]
  BY <1>1 DEF PollInv, PollTypes
<1>7. PollTable
  BY <1>3 DEF PollInv
<1>8. PollTypes'
  BY <1>1, <1>3, <1>5 DEF PollInv, PollTypes
<1>9. PollTable'
  <2>1. \A g \in OpenFds' : \E k \in Slot \ {0} : k <= maxidx' /\ fd'[k] = g
    <3>1. ASSUME NEW g \in OpenFds
          PROVE  \E k \in Slot \ {0} : k <= maxidx' /\ fd'[k] = g
      <4>1. PICK k \in Slot \ {0} : k <= maxidx /\ fd[k] = g
        BY <1>7 DEF PollTable
      <4>2. k # j /\ k <= maxidx'
        BY <1>4, <1>5, <4>1 DEF OpenFds, Slot
      <4>3. QED
        BY <1>6, <4>1, <4>2
    <3>2. QED
      BY <1>1, <1>2, <1>5, <1>6, <3>1
  <2>2. ASSUME NEW k \in Slot \ {0}, k # j, fd'[k] # -1
        PROVE  k <= maxidx /\ fd'[k] \in OpenFds
    BY <1>6, <1>7, <2>2 DEF PollTable
  <2>3. \A k \in Slot \ {0} : fd'[k] # -1 => k <= maxidx' /\ fd'[k] \in OpenFds'
    BY <1>2, <1>5, <1>6, <2>2 DEF Slot
  <2>4. fd'[0] = Listen
    BY <1>1, <1>6, <1>7 DEF PollTable, Slot
  <2>5. ASSUME NEW k \in Slot, NEW l \in Slot, fd'[k] = fd'[l], fd'[k] # -1
        PROVE  k = l
    <3>1. CASE k = j \/ l = j
      BY <1>2, <1>6, <2>2, <2>4, <2>5, <3>1
    <3>2. CASE k # j /\ l # j
      BY <1>6, <1>7, <2>5, <3>2 DEF PollTable
    <3>3. QED
      BY <3>1, <3>2
  <2>6. QED
    BY <2>1, <2>3, <2>4, <2>5 DEF PollTable
<1>10. /\ i = 1 /\ nready = Cardinality(PollDue) + 1 /\ (\A k \in PollDue : Readable(fd[k]))
       /\ \A k \in Slot : k <= maxidx /\ fd[k] = -1 => ~revents[k]
  BY <1>3 DEF PollInv, PollTurn
<1>11. j \notin PollDue
  BY <1>4, <1>1 DEF PollDue
<1>12. PollDue = PollDue' \/ PollDue = PollDue' \ {maxidx'}
  <2>1. ASSUME NEW k \in Slot, k # j
        PROVE  (1 <= k /\ k <= maxidx' /\ fd'[k] >= 0 /\ revents'[k])
                <=> (1 <= k /\ k <= maxidx /\ fd[k] >= 0 /\ revents[k])
    <3>1. fd'[k] = fd[k] /\ revents'[k] = revents[k]
      BY <1>3, <1>6, <2>1
    <3>2. k <= maxidx => k <= maxidx'
      BY <1>5 DEF Slot
    <3>3. 1 <= k /\ fd[k] >= 0 => k <= maxidx
      <4>1. ASSUME 1 <= k, fd[k] >= 0
            PROVE  k <= maxidx
        <5>1. k \in Slot \ {0} /\ fd[k] # -1
          BY <4>1
        <5>2. QED
          BY <1>7, <5>1 DEF PollTable
      <4>2. QED
        BY <4>1
    <3>4. QED
      BY <3>1, <3>2, <3>3
  <2>2. PollDue' \ {j} = PollDue
    BY <1>3, <1>10, <1>11, <2>1 DEF PollDue
  <2>3. CASE j <= maxidx
    <3>1. ~revents[j]
      BY <1>4, <1>10, <2>3
    <3>2. j \notin PollDue'
      BY <1>3, <3>1 DEF PollDue
    <3>3. QED
      BY <2>2, <3>2
  <2>4. CASE maxidx < j
    BY <1>5, <2>2, <2>4
  <2>5. QED
    BY <1>5, <2>3, <2>4 DEF Slot
<1>13. \A k \in PollDue : Readable(fd[k])'
  <2>1. ASSUME NEW k \in PollDue
        PROVE  Readable(fd[k])'
    <3>1. k \in Slot \ {0} /\ k # j /\ fd[k] # -1 /\ Readable(fd[k])
      BY <1>4, <1>10, <1>11 DEF PollDue, Slot
    <3>2. fd[k] \in Fds /\ fd'[k] = fd[k]
      BY <1>6, <1>7, <3>1 DEF PollTable, OpenFds
    <3>3. QED
      BY <1>2, <3>1, <3>2 DEF Readable
  <2>2. QED
    BY <2>1
<1>14. nready' = Cardinality(PollDue)
  <2>1. Cardinality(PollDue) \in Nat
    BY DEF PollDue
  <2>2. QED
    BY <1>3, <1>10, <2>1
<1>15. PollTurn'
  BY <1>3, <1>12, <1>13, <1>14 DEF PollTurn
<1>16. QED
  BY <1>2, <1>8, <1>9, <1>15 DEF PollInv

\* A step of the scan takes the first entry that is due off what is due.
LEMMA PollInvScan ==
    ASSUME PollInv, NEW j \in Poll!Slot, Poll!scan_echo(j) \/ Poll!scan_close(j)
    PROVE  PollInv'
<1> USE Descriptors, SlotsFinite
<1>1. /\ spc = "scan" /\ j \in PollDue /\ (\A k \in PollDue : j <= k)
      /\ Poll!Handled(j + 1) /\ UNCHANGED <<revents, maxidx>>
  <2>1. Poll!ReadySlots = PollDue
    BY PollKernel DEF Poll!ReadySlots, PollDue
  <2>2. QED
    BY <2>1 DEF Poll!scan_echo, Poll!scan_close, Poll!IsNext
<1>2. /\ j \in Slot \ {0} /\ j <= maxidx /\ fd[j] \in OpenFds /\ fd[j] \in Fds /\ fd[j] # -1
      /\ file[fd[j]] \in Peers /\ j + 1 \in 1..(Slots + 1) /\ PollTable /\ maxidx \in Slot
  <2>1. j \in Slot \ {0} /\ j <= maxidx /\ fd[j] # -1 /\ PollTable
    BY <1>1 DEF PollDue, PollInv, PollTypes, Slot
  <2>2. fd[j] \in OpenFds
    BY <2>1 DEF PollTable
  <2>3. QED
    BY <2>1, <2>2 DEF OpenFds, PollInv, PollTypes, KernelInv, SocketsType, Slot
<1>3. /\ nready' = nready - 1 /\ nready' \in Nat /\ i' = j + 1 /\ spc' \in {"poll", "scan"}
      /\ spc' = "scan" => nready' >= 1
  <2>1. nready >= 1 /\ PollTypes
    BY <1>1 DEF PollInv, PollTypes
  <2>2. QED
    BY <1>1, <1>2, <2>1, PollHandled
<1>4. PICK R \in {PollDue, PollDue \ {maxidx}} :
          /\ nready = Cardinality(R) /\ (\A k \in R : Readable(fd[k])) /\ j \in R
          /\ IsFiniteSet(R) /\ Cardinality(R) \in Nat
  BY <1>1, PollNext
<1> DEFINE echo == \E n \in 1..MaxSend : Echoes(fd[j], n) /\ UNCHANGED fd
           shut == Closes(fd[j]) /\ fd' = [fd EXCEPT ![j] = -1]
<1>5. echo \/ shut
  BY PollKernel DEF Poll!scan_echo, Poll!scan_close
<1>6. /\ \A k \in Slot \ {j} : fd'[k] = fd[k]
      /\ \A g \in (Fds \cup {Listen}) \ {fd[j]} : Readable(g) => Readable(g)'
      /\ KernelInv' /\ PollTable' /\ fd' \in [Slot -> Fds \cup {Listen, -1}]
  <2>1. CASE echo
    <3>1. PICK n \in 1..MaxSend : SendsBack(file[fd[j]], n)
      BY <2>1 DEF Echoes
    <3>2. Calm /\ OnlyOf(file[fd[j]]) /\ OpenFds' = OpenFds /\ KernelInv'
      BY <1>2, <3>1, SendsBackKeeps DEF PollInv
    <3>3. \A g \in (Fds \cup {Listen}) \ {fd[j]} : Readable(g) => Readable(g)'
      BY <1>2, <3>2, OthersReadable DEF PollInv
    <3>4. PollTable'
      BY <1>1, <1>2, <2>1, <3>2 DEF PollTable
    <3>5. QED
      BY <2>1, <3>2, <3>3, <3>4 DEF PollInv, PollTypes
  <2>2. CASE shut
    <3>1. /\ KernelInv' /\ OpenFds' = OpenFds \ {fd[j]}
          /\ \A g \in (Fds \cup {Listen}) \ {fd[j]} : Readable(g) => Readable(g)'
      BY <1>2, <2>2, ClosesKeeps DEF PollInv
    <3>2. fd'[j] = -1 /\ \A k \in Slot \ {j} : fd'[k] = fd[k]
      BY <1>2, <2>2 DEF PollInv, PollTypes
    <3>3. \A k \in Slot \ {j} : fd[k] # fd[j]
      BY <1>2 DEF PollTable
    <3>4. PollTable'
      <4>1. \A g \in OpenFds' : \E k \in Slot \ {0} : k <= maxidx' /\ fd'[k] = g
        BY <1>1, <1>2, <3>1, <3>2 DEF PollTable
      <4>2. \A k \in Slot \ {0} : fd'[k] # -1 => k <= maxidx' /\ fd'[k] \in OpenFds'
        BY <1>1, <1>2, <3>1, <3>2, <3>3 DEF PollTable
      <4>3. \A k, l \in Slot : fd'[k] = fd'[l] /\ fd'[k] # -1 => k = l
        BY <1>2, <3>2 DEF PollTable
      <4>4. fd'[0] = Listen
        BY <1>2, <3>2 DEF PollTable, Slot
      <4>5. QED
        BY <4>1, <4>2, <4>3, <4>4 DEF PollTable
    <3>5. fd' \in [Slot -> Fds \cup {Listen, -1}]
      BY <2>2 DEF PollInv, PollTypes
    <3>6. QED
      BY <3>1, <3>2, <3>4, <3>5
  <2>3. QED
    BY <1>5, <2>1, <2>2
<1>7. PollTypes'
  BY <1>1, <1>2, <1>3, <1>6 DEF PollInv, PollTypes
<1>8. PollDue' = PollDue \ {j}
  <2>1. ASSUME NEW k \in Slot
        PROVE  (j + 1 <= k /\ k <= maxidx /\ fd'[k] >= 0 /\ revents[k])
                 <=> (k # j /\ i <= k /\ k <= maxidx /\ fd[k] >= 0 /\ revents[k])
    <3>1. CASE k = j
      BY <1>2, <3>1 DEF Slot
    <3>2. CASE k # j
      <4>1. fd'[k] = fd[k]
        BY <1>6, <3>2
      <4>2. i \in Int /\ i <= j /\ j \in Int /\ k \in Int
        BY <1>1 DEF PollDue, PollInv, PollTypes, Slot
      <4>3. ASSUME i <= k, k <= maxidx, fd[k] >= 0, revents[k]
            PROVE  j + 1 <= k
        <5>1. k \in PollDue
          BY <4>3 DEF PollDue
        <5>2. j <= k
          BY <1>1, <5>1
        <5>3. QED
          BY <3>2, <4>2, <5>2
      <4>4. j + 1 <= k => i <= k
        BY <4>2
      <4>5. QED
        BY <3>2, <4>1, <4>3, <4>4
    <3>3. QED
      BY <3>1, <3>2
  <2>2. PollDue' = {k \in Slot : j + 1 <= k /\ k <= maxidx /\ fd'[k] >= 0 /\ revents[k]}
    BY <1>1, <1>3 DEF PollDue
  <2>3. PollDue \ {j} = {k \in Slot : k # j /\ i <= k /\ k <= maxidx /\ fd[k] >= 0 /\ revents[k]}
    BY DEF PollDue
  <2>4. QED
    BY <2>1, <2>2, <2>3
<1>9. nready' = Cardinality(R \ {j})
  <2>1. Cardinality(R \ {j}) = Cardinality(R) - 1
    BY <1>4, FS_RemoveElement
  <2>2. QED
    BY <1>3, <1>4, <2>1
<1>10. R \ {j} \in {PollDue', PollDue' \ {maxidx'}}
  BY <1>1, <1>4, <1>8
<1>11. ASSUME NEW k \in R \ {j}
       PROVE  Readable(fd[k])'
  <2>1. k \in Slot /\ fd[k] # -1 /\ Readable(fd[k]) /\ fd[k] \in Fds \cup {Listen}
    BY <1>4 DEF PollDue, PollInv, PollTypes
  <2>2. fd'[k] = fd[k] /\ fd[k] # fd[j]
    BY <1>2, <1>6, <1>11, <2>1 DEF PollTable
  <2>3. QED
    BY <1>6, <2>1, <2>2 DEF Readable
<1>12. PollTurn'
  BY <1>3, <1>9, <1>10, <1>11 DEF PollTurn
<1>13. QED
  BY <1>6, <1>7, <1>12 DEF PollInv

\* What a peer does meanwhile changes no table and makes nothing unreadable.
LEMMA PollInvPeer ==
    ASSUME PollInv, PeerStep
    PROVE  PollInv'
<1>1. PICK p \in Peers : Peer(p)
  BY DEF PeerStep
<1>2. /\ KernelInv' /\ OpenFds' = OpenFds
      /\ \A f \in Fds \cup {Listen} : Readable(f) => Readable(f)'
  BY <1>1, PeerKeeps DEF PollInv
<1>3. UNCHANGED <<spc, nready, maxidx, i, fd, revents>> /\ spc # "exit"
  BY DEF PeerStep, scanvars, pollvars
<1>4. PollDue' = PollDue /\ PollTypes' /\ PollTable'
  BY <1>2, <1>3 DEF PollInv, PollDue, PollTypes, PollTable
<1>5. ASSUME NEW k \in PollDue, Readable(fd[k])
      PROVE  Readable(fd[k])'
  <2>1. fd[k] \in Fds \cup {Listen}
    BY Descriptors DEF PollDue, PollInv, PollTypes
  <2>2. QED
    BY <1>2, <1>3, <1>5, <2>1 DEF Readable
<1>6. PollTurn'
  <2>1. CASE spc = "accept"
    BY <1>3, <1>4, <1>5, <2>1 DEF PollInv, PollTurn
  <2>2. CASE spc = "scan"
    <3>1. PICK R \in {PollDue, PollDue \ {maxidx}} :
              nready = Cardinality(R) /\ \A k \in R : Readable(fd[k])
      BY <1>3, <2>2 DEF PollInv, PollTurn
    <3>2. \A k \in R : Readable(fd[k])'
      BY <1>5, <3>1
    <3>3. QED
      BY <1>3, <1>4, <2>2, <3>1, <3>2 DEF PollTurn
  <2>3. QED
    BY <1>3, <2>1, <2>2 DEF PollTurn
<1>7. QED
  BY <1>2, <1>4, <1>6 DEF PollInv

\* From the start, and in every step of the server and of the peers.
LEMMA PollInductive == Spec => [](kind = "poll" => PollInv)
<1> DEFINE I == kind = "poll" => PollInv
<1>1. Init => I
  <2>1. ASSUME Poll!Init
        PROVE  PollInv
    <3>1. KernelInv /\ OpenFds = {}
      BY <2>1, PollKernel, KernelInit DEF Poll!Init
    <3>2. /\ fd = [j \in Slot |-> IF j = 0 THEN Listen ELSE -1]
          /\ nready = 0 /\ maxidx = 0 /\ i = 1 /\ spc = "poll"
      BY <2>1, PollKernel DEF Poll!Init
    <3>3. 0 \in Slot
      BY SlotsFinite DEF Slot
    <3>4. PollTypes
      BY <3>2, <3>3, SlotsFinite DEF PollTypes
    <3>5. PollTable
      BY <3>1, <3>2, <3>3, Descriptors DEF PollTable
    <3>6. QED
      BY <3>1, <3>2, <3>4, <3>5 DEF PollInv, PollTurn
  <2>2. QED
    BY <2>1 DEF Init
<1>2. I /\ [Next]_vars => I'
  <2>1. ASSUME PollInv, UNCHANGED vars
        PROVE  PollInv'
    BY <2>1 DEF vars, svars, scanvars, pollvars, PollInv, KernelInv, SocketsType, ConnInv, QueueInv,
                PollTypes, PollTable, PollTurn, PollDue, OpenFds, Readable
  <2>2. ASSUME PollInv, Poll!Server
        PROVE  PollInv'
    <3>1. CASE Poll!accept_eintr
      <4>1. /\ spc = "accept" /\ spc' = "poll"
            /\ UNCHANGED <<svars, fd, revents, nready, maxidx, i>>
        BY <3>1 DEF Poll!accept_eintr, Poll!svars, svars
      <4>2. KernelInv' /\ PollTable' /\ PollTypes'
        BY <2>2, <4>1 DEF svars, PollInv, KernelInv, SocketsType, ConnInv, QueueInv, PollTable,
                          PollTypes, OpenFds
      <4>3. QED
        BY <4>1, <4>2 DEF PollInv, PollTurn
    <3>2. CASE Poll!accept_exit \/ \E j \in Poll!Slot : Poll!scan_sigpipe(j)
      <4>1. Exits /\ spc' = "exit" /\ UNCHANGED <<fd, revents, nready, maxidx, i>>
        BY <3>2, PollKernel DEF Poll!accept_exit, Poll!scan_sigpipe
      <4>2. QED
        BY <2>2, <4>1, ExitsKeeps DEF PollInv, PollTypes
    <3>3. QED
      BY <2>2, <3>1, <3>2, PollInvPoll, PollInvAccept, PollInvScan DEF Poll!Server
  <2>3. QED
    BY <2>1, <2>2, OneServer, PollInvPeer
<1>3. QED
  BY <1>1, <1>2, PTL DEF Spec

\* The revents of an entry is a flag.
LEMMA ReventsInductive == Spec => [](kind = "poll" => revents \in [Slot -> BOOLEAN])
<1> DEFINE I == kind = "poll" => revents \in [Slot -> BOOLEAN]
<1>1. Init => I
  <2>1. ASSUME Poll!Init
        PROVE  revents \in [Slot -> BOOLEAN]
    BY <2>1, PollKernel, Zenon DEF Poll!Init
  <2>2. QED
    BY <2>1 DEF Init
<1>2. I /\ [Next]_vars => I'
  <2>1. ASSUME revents \in [Slot -> BOOLEAN], Poll!poll
        PROVE  revents' \in [Slot -> BOOLEAN]
    <3>1. revents' = [j \in Slot |-> IF j <= maxidx THEN Poll!Reported(j) ELSE revents[j]]
      BY <2>1, PollKernel, Zenon DEF Poll!poll
    <3>2. \A j \in Slot : Poll!Reported(j) \in BOOLEAN
      BY Zenon DEF Poll!Reported
    <3>3. QED
      BY <2>1, <3>1, <3>2, Zenon
  <2>2. ASSUME Poll!Server, ~Poll!poll
        PROVE  revents' = revents
    BY <2>2 DEF Poll!Server, Poll!accept, Poll!accept_eintr, Poll!accept_exit, Poll!scan_echo,
                Poll!scan_close, Poll!scan_sigpipe
  <2>3. PeerStep \/ UNCHANGED vars => revents' = revents
    BY DEF PeerStep, vars, pollvars
  <2>4. QED
    BY <2>1, <2>2, <2>3, OneServer
<1>3. QED
  BY <1>1, <1>2, PTL DEF Spec
=============================================================================
