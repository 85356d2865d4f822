----------------------------- MODULE EventProofs -----------------------------
(***************************************************************************)
(* The servers that are told of events, epoll or libev, and handle them    *)
(* one after the other: what their inductive invariants are, and that they *)
(* hold for every number of peers, descriptors and events.                 *)
(***************************************************************************)
EXTENDS ScanProofs

\* What may be reported.
Sources == Fds \cup {Listen}

\* The descriptors of one turn can be counted.
LEMMA SourcesFinite ==
    ASSUME NEW E, E \subseteq Sources
    PROVE  IsFiniteSet(E) /\ Cardinality(E) \in Nat /\ (E # {} => Cardinality(E) >= 1)
<1>1. IsFiniteSet(Sources)
  BY Descriptors, FS_AddElement DEF Sources
<1>2. IsFiniteSet(E) /\ Cardinality(E) \in Nat
  BY <1>1, FS_Subset, FS_CardinalityType
<1>3. QED
  BY <1>2, FS_EmptySet

\* epoll_wait() returns something when something is ready, and no more than fits.
LEMMA Batch ==
    ASSUME NEW R, R \subseteq Sources, R # {}, NEW E \in SUBSET R,
           E # R => Cardinality(E) = MaxEvents
    PROVE  E # {}
<1>1. MaxEvents \in Nat \ {0}
  BY EchoServersAssumption DEF Epoll!EpollAssumption
<1>2. Cardinality({}) = 0
  BY FS_EmptySet
<1>3. QED
  BY <1>1, <1>2

\* An event less is not more than fits.
LEMMA Fewer ==
    ASSUME NEW E, E \subseteq Sources, Cardinality(E) <= MaxEvents, NEW f
    PROVE  Cardinality(E \ {f}) <= MaxEvents
<1>1. MaxEvents \in Nat
  BY EchoServersAssumption DEF Epoll!EpollAssumption
<1>2. IsFiniteSet(E) /\ Cardinality(E) \in Nat
  BY SourcesFinite
<1>3. IsFiniteSet(E \ {f}) /\ Cardinality(E \ {f}) <= Cardinality(E)
  BY <1>2, FS_Subset
<1>4. Cardinality(E \ {f}) \in Nat
  BY <1>3, FS_CardinalityType
<1>5. QED
  BY <1>1, <1>2, <1>3, <1>4

-----------------------------------------------------------------------------
(* The epoll server *)

\* What this server takes from the kernel is what every server takes.
LEMMA EpollKernel ==
    /\ Epoll!Fds = Fds /\ Epoll!Listen = Listen /\ Epoll!OpenFds = OpenFds
    /\ (Epoll!SocketsInit <=> SocketsInit) /\ (Epoll!SocketsType <=> SocketsType)
    /\ (Epoll!AcceptFails <=> AcceptFails) /\ (Epoll!Exits <=> Exits)
    /\ \A f : (Epoll!Accepts(f) <=> Accepts(f)) /\ (Epoll!Closes(f) <=> Closes(f))
    /\ \A f : (Epoll!Readable(f) <=> Readable(f))
    /\ \A f, n : (Epoll!Echoes(f, n) <=> Echoes(f, n))
    /\ \A S : Epoll!Cardinality(S) = Cardinality(S)
<1>1. \A S : Epoll!Cardinality(S) = Cardinality(S)
  BY DEF Epoll!Cardinality, Cardinality
<1>2. QED
  BY <1>1 DEF Epoll!Fds, Epoll!Listen, Epoll!OpenFds, Epoll!SocketsInit, Epoll!SocketsType,
    Epoll!AcceptFails, Epoll!Exits, Epoll!Accepts, Epoll!Closes, Epoll!Readable, Epoll!Echoes,
    Epoll!SendsBack, Epoll!HasData, Epoll!Broken,
    Fds, Listen, OpenFds, SocketsInit, SocketsType, AcceptFails, Exits, Accepts,
    Closes, Readable, Echoes, SendsBack, HasData, Broken

\* What is registered is open, and what was reported can still be read or accepted.
EpollInv ==
    /\ KernelInv
    /\ interest \subseteq OpenFds \cup {Listen} /\ connfd \in Fds \cup {-1}
    /\ events \subseteq Sources /\ Cardinality(events) <= MaxEvents
    /\ \A f \in events : Readable(f)
    /\ spc \in {"epoll_wait", "handle", "exit"} /\ (spc = "handle" <=> events # {})

\* What is left after an event was handled that the server does not care for any more.
LEMMA EpollHandled ==
    ASSUME EpollInv, spc = "handle", NEW f \in events, Epoll!Handled(f), KernelInv',
           interest' \subseteq OpenFds' \cup {Listen}, connfd' \in Fds \cup {-1},
           \A g \in events \ {f} : Readable(g)'
    PROVE  EpollInv'
<1>1. events' = events \ {f} /\ spc' = IF events' = {} THEN "epoll_wait" ELSE "handle"
  BY DEF Epoll!Handled
<1>2. events' \subseteq Sources /\ Cardinality(events') <= MaxEvents
  BY <1>1, Fewer DEF EpollInv
<1>3. spc' \in {"epoll_wait", "handle", "exit"} /\ (spc' = "handle" <=> events' # {})
  BY <1>1
<1>4. \A g \in events' : Readable(g)'
  BY <1>1
<1>5. QED
  BY <1>2, <1>3, <1>4 DEF EpollInv

\* epoll_wait() fills events[].
LEMMA EpollWaits ==
    ASSUME EpollInv, Epoll!epoll_wait
    PROVE  EpollInv'
<1> DEFINE R == {f \in interest : Readable(f)}
<1>1. Epoll!Ready = R
  BY EpollKernel DEF Epoll!Ready
<1>2. /\ R # {} /\ spc' = "handle" /\ UNCHANGED <<svars, interest, connfd>>
      /\ events' \in SUBSET R /\ Cardinality(events') <= MaxEvents
      /\ events' # R => Cardinality(events') = MaxEvents
  BY <1>1, EpollKernel DEF Epoll!epoll_wait, Epoll!svars, svars
<1>3. R \subseteq Sources
  BY DEF EpollInv, OpenFds, Sources
<1>4. events' # {}
  <2> HIDE DEF R
  <2>1. QED
    BY <1>2, <1>3, Batch
<1>5. KernelInv' /\ OpenFds' = OpenFds /\ \A f : Readable(f)' = Readable(f)
  BY <1>2 DEF svars, EpollInv, KernelInv, SocketsType, ConnInv, QueueInv, OpenFds, Readable
<1>6. QED
  BY <1>2, <1>3, <1>4, <1>5 DEF EpollInv

\* A new connection does not take anything from the events that wait.
LEMMA EpollAccepts ==
    ASSUME EpollInv, Epoll!accept
    PROVE  EpollInv'
<1>1. spc = "handle" /\ Listen \in events /\ Epoll!Handled(Listen)
  BY EpollKernel DEF Epoll!accept
<1>2. PICK f \in Fds : Accepts(f) /\ connfd' = f /\ interest' = interest \cup {f}
  BY EpollKernel DEF Epoll!accept
<1>3. KernelInv' /\ OpenFds' = OpenFds \cup {f} /\ \A g \in Fds : Readable(g) => Readable(g)'
  BY <1>2, AcceptsKeeps DEF EpollInv
<1>4. \A g \in events \ {Listen} : Readable(g)'
  BY <1>3 DEF EpollInv, Sources
<1>5. QED
  BY <1>1, <1>2, <1>3, <1>4, EpollHandled DEF EpollInv

\* The connection that is served, or closed, is the only one that changes; and what is
\* closed is unregistered, whatever connfd is.
LEMMA EpollHandles ==
    ASSUME EpollInv, NEW f \in Fds, Epoll!handle_echo(f) \/ Epoll!handle_close(f)
    PROVE  EpollInv'
<1>1. spc = "handle" /\ f \in events /\ f # Listen /\ Epoll!Handled(f) /\ connfd' = connfd
  BY EpollKernel DEF Epoll!handle_echo, Epoll!handle_close
<1>2. CASE Epoll!handle_echo(f)
  <2>1. PICK n \in 1..MaxSend : Echoes(f, n) /\ interest' = interest
    BY <1>2, EpollKernel DEF Epoll!handle_echo
  <2>2. file[f] \in Peers /\ SendsBack(file[f], n)
    BY <2>1 DEF Echoes, EpollInv, KernelInv, SocketsType
  <2>3. KernelInv' /\ Calm /\ OnlyOf(file[f]) /\ OpenFds' = OpenFds
    BY <2>2, SendsBackKeeps DEF EpollInv
  <2>4. \A g \in events \ {f} : Readable(g)'
    BY <2>1, <2>3, OthersReadable DEF EpollInv, Sources, Echoes
  <2>5. QED
    BY <1>1, <2>1, <2>3, <2>4, EpollHandled DEF EpollInv
<1>3. CASE Epoll!handle_close(f)
  <2>1. Closes(f) /\ interest' = interest \ {connfd, f}
    BY <1>3, EpollKernel DEF Epoll!handle_close
  <2>2. /\ KernelInv' /\ OpenFds' = OpenFds \ {f}
        /\ \A g \in (Fds \cup {Listen}) \ {f} : Readable(g) => Readable(g)'
    BY <2>1, ClosesKeeps DEF EpollInv
  <2>3. \A g \in events \ {f} : Readable(g)'
    BY <2>2 DEF EpollInv, Sources
  <2>4. QED
    BY <1>1, <2>1, <2>2, <2>3, EpollHandled DEF EpollInv
<1>4. QED
  BY <1>2, <1>3

\* The invariant of the epoll server holds.
LEMMA EpollInductive == Spec => [](kind = "epoll" => EpollInv)
<1> DEFINE I == kind = "epoll" => EpollInv
<1>1. Init => I
  <2>1. ASSUME Epoll!Init
        PROVE  EpollInv
    <3>1. KernelInv /\ OpenFds = {}
      BY <2>1, EpollKernel, KernelInit DEF Epoll!Init
    <3>2. interest = {Listen} /\ connfd = -1 /\ events = {} /\ spc = "epoll_wait"
      BY <2>1, EpollKernel DEF Epoll!Init
    <3>3. Cardinality({}) <= MaxEvents
      BY FS_EmptySet, EchoServersAssumption DEF Epoll!EpollAssumption
    <3>4. QED
      BY <3>1, <3>2, <3>3 DEF EpollInv
  <2>2. QED
    BY <2>1 DEF Init
<1>2. I /\ [Next]_vars => I'
  <2>1. ASSUME EpollInv, UNCHANGED vars
        PROVE  EpollInv'
    BY <2>1 DEF vars, svars, epollvars, EpollInv, KernelInv, SocketsType, ConnInv, QueueInv,
                OpenFds, Readable
  <2>2. ASSUME EpollInv, Epoll!Server
        PROVE  EpollInv'
    <3>1. CASE Epoll!accept_eintr
      <4>1. /\ spc = "handle" /\ Listen \in events /\ Epoll!Handled(Listen)
            /\ connfd' = -1 /\ UNCHANGED <<svars, interest>>
        BY <3>1, EpollKernel DEF Epoll!accept_eintr, Epoll!svars, svars
      <4>2. KernelInv' /\ OpenFds' = OpenFds /\ \A f : Readable(f)' = Readable(f)
        BY <2>2, <4>1 DEF svars, EpollInv, KernelInv, SocketsType, ConnInv, QueueInv, OpenFds, Readable
      <4>3. QED
        BY <2>2, <4>1, <4>2, EpollHandled DEF EpollInv
    <3>2. CASE Epoll!accept_exit \/ \E f \in Fds : Epoll!handle_sigpipe(f)
      <4>1. Exits /\ interest' = {} /\ events' = {} /\ spc' = "exit" /\ connfd' = connfd
        BY <3>2, EpollKernel DEF Epoll!accept_exit, Epoll!handle_sigpipe, Epoll!exit
      <4>2. Cardinality({}) <= MaxEvents
        BY FS_EmptySet, EchoServersAssumption DEF Epoll!EpollAssumption
      <4>3. QED
        BY <2>2, <4>1, <4>2, ExitsKeeps DEF EpollInv
    <3>3. QED
      BY <2>2, <3>1, <3>2, EpollWaits, EpollAccepts, EpollHandles, EpollKernel DEF Epoll!Server
  <2>3. ASSUME EpollInv, PeerStep
        PROVE  EpollInv'
    <3>1. PICK p \in Peers : Peer(p) /\ UNCHANGED <<interest, connfd, events, spc>>
      BY <2>3 DEF PeerStep, epollvars
    <3>2. QED
      BY <2>3, <3>1, PeerKeeps DEF EpollInv, Sources
  <2>4. QED
    BY <2>1, <2>2, <2>3, OneServer
<1>3. QED
  BY <1>1, <1>2, PTL DEF Spec

-----------------------------------------------------------------------------
(* The libev server *)

\* What this server takes from the kernel is what every server takes.
LEMMA LibevKernel ==
    /\ Libev!Fds = Fds /\ Libev!Listen = Listen /\ Libev!OpenFds = OpenFds
    /\ (Libev!SocketsInit <=> SocketsInit) /\ (Libev!SocketsType <=> SocketsType)
    /\ (Libev!AcceptFails <=> AcceptFails) /\ (Libev!Exits <=> Exits)
    /\ \A f : (Libev!Accepts(f) <=> Accepts(f)) /\ (Libev!Readable(f) <=> Readable(f))
    /\ \A p : (Libev!Reports(p) <=> Reports(p))
    /\ \A p, n : (Libev!Receives(p, n) <=> Receives(p, n)) /\ (Libev!Sends(p, n) <=> Sends(p, n))
    /\ \A S : Libev!Cardinality(S) = Cardinality(S)
<1>1. \A S : Libev!Cardinality(S) = Cardinality(S)
  BY DEF Libev!Cardinality, Cardinality
<1>2. QED
  BY <1>1 DEF Libev!Fds, Libev!Listen, Libev!OpenFds, Libev!SocketsInit, Libev!SocketsType,
    Libev!AcceptFails, Libev!Exits, Libev!Accepts, Libev!Readable, Libev!Reports,
    Libev!Receives, Libev!Sends, Libev!HasData, Libev!Broken,
    Fds, Listen, OpenFds, SocketsInit, SocketsType, AcceptFails, Exits, Accepts,
    Readable, Reports, Receives, Sends, HasData, Broken

\* The descriptors whose watcher is allocated.
LiveFds == {f \in Fds : heap[f] = "live"}

\* The watcher of a descriptor is started as long as it is allocated, and as long as it
\* is allocated the descriptor is open.
LibevInv ==
    /\ KernelInv
    /\ reg \in [Fds -> {"none", "in", "out"}] /\ heap \in [Fds -> {"null", "live", "freed"}]
    /\ len \in [Fds -> 0..MaxSend] /\ events \subseteq Sources
    /\ spc \in {"ev_run", "invoke", "exit"}
    /\ \A f \in Fds : heap[f] = "live" <=> reg[f] # "none"
    /\ total_clients = Cardinality(LiveFds)
    /\ spc # "exit" => LiveFds \subseteq OpenFds /\ events \cap Fds \subseteq LiveFds

\* What is left after a callback that changed no watcher but that of f.
LEMMA LibevInvoked ==
    ASSUME LibevInv, spc = "invoke", NEW f \in events, Libev!Invoked(f), KernelInv',
           reg' \in [Fds -> {"none", "in", "out"}], heap' \in [Fds -> {"null", "live", "freed"}],
           len' \in [Fds -> 0..MaxSend],
           \A g \in Fds : heap'[g] = "live" <=> reg'[g] # "none",
           total_clients' = Cardinality(LiveFds'),
           LiveFds' \subseteq OpenFds', LiveFds \ {f} \subseteq LiveFds'
    PROVE  LibevInv'
<1>1. events' = events \ {f} /\ spc' = IF events' = {} THEN "ev_run" ELSE "invoke"
  BY DEF Libev!Invoked
<1>2. spc' \in {"ev_run", "invoke", "exit"}
  BY <1>1
<1>3. events' \subseteq Sources /\ events' \cap Fds \subseteq LiveFds'
  BY <1>1 DEF LibevInv
<1>4. QED
  BY <1>2, <1>3 DEF LibevInv

\* The watchers can be counted.
LEMMA LiveFinite ==
    ASSUME NEW S, S \subseteq Fds
    PROVE  /\ IsFiniteSet(S) /\ Cardinality(S) \in Nat
           /\ \A f \in Fds \ S : Cardinality(S \cup {f}) = Cardinality(S) + 1
           /\ \A f \in S : Cardinality(S \ {f}) = Cardinality(S) - 1 /\ Cardinality(S) >= 1
<1>1. IsFiniteSet(S) /\ Cardinality(S) \in Nat
  BY Descriptors, FS_Subset, FS_CardinalityType
<1>2. ASSUME NEW f \in Fds \ S
      PROVE  Cardinality(S \cup {f}) = Cardinality(S) + 1
  BY <1>1, <1>2, FS_AddElement
<1>3. ASSUME NEW f \in S
      PROVE  Cardinality(S \ {f}) = Cardinality(S) - 1 /\ Cardinality(S) >= 1
  <2>1. Cardinality(S \ {f}) = Cardinality(S) - 1
    BY <1>1, <1>3, FS_RemoveElement
  <2>2. Cardinality(S) # 0
    BY <1>1, <1>3, FS_EmptySet
  <2>3. QED
    BY <1>1, <2>1, <2>2
<1>4. QED
  BY <1>1, <1>2, <1>3

\* ev_run() collects what is ready: of the connections, those with a watcher.
LEMMA LibevRuns ==
    ASSUME LibevInv, Libev!ev_run
    PROVE  LibevInv'
<1>1. /\ spc = "ev_run" /\ events' = Libev!Ready /\ spc' = "invoke"
      /\ UNCHANGED <<svars, reg, heap, len, total_clients>>
  BY DEF Libev!ev_run, Libev!svars, svars
<1>2. Libev!Ready \subseteq Sources /\ Libev!Ready \cap Fds \subseteq LiveFds
  BY LibevKernel, Descriptors DEF Libev!Ready, Sources, LiveFds, LibevInv
<1>3. KernelInv' /\ LiveFds' = LiveFds /\ OpenFds' = OpenFds
  BY <1>1 DEF svars, LibevInv, KernelInv, SocketsType, ConnInv, QueueInv, OpenFds, LiveFds
<1>4. QED
  BY <1>1, <1>2, <1>3 DEF LibevInv

\* A new connection gets a watcher, on a descriptor that has none.
LEMMA LibevAccepts ==
    ASSUME LibevInv, Libev!accept_cb
    PROVE  LibevInv'
<1> USE Descriptors
<1>1. /\ spc = "invoke" /\ Listen \in events /\ Libev!Invoked(Listen)
      /\ total_clients' = total_clients + 1
  BY LibevKernel DEF Libev!accept_cb
<1>2. PICK f \in Fds : /\ Accepts(f) /\ reg' = [reg EXCEPT ![f] = "in"]
                       /\ heap' = [heap EXCEPT ![f] = "live"] /\ len' = [len EXCEPT ![f] = 0]
  BY LibevKernel DEF Libev!accept_cb
<1>3. KernelInv' /\ f \notin OpenFds /\ OpenFds' = OpenFds \cup {f}
  BY <1>2, AcceptsKeeps DEF LibevInv
<1>4. /\ reg' \in [Fds -> {"none", "in", "out"}] /\ heap' \in [Fds -> {"null", "live", "freed"}]
      /\ len' \in [Fds -> 0..MaxSend] /\ \A g \in Fds : heap'[g] = "live" <=> reg'[g] # "none"
  BY <1>2 DEF LibevInv
<1>5. f \notin LiveFds /\ LiveFds' = LiveFds \cup {f}
  <2>1. LiveFds \subseteq OpenFds /\ heap \in [Fds -> {"null", "live", "freed"}]
    BY <1>1 DEF LibevInv
  <2>2. f \notin LiveFds
    BY <1>3, <2>1
  <2>3. \A g \in Fds : heap'[g] = "live" <=> heap[g] = "live" \/ g = f
    BY <1>2, <2>1
  <2>4. QED
    BY <2>2, <2>3 DEF LiveFds
<1>6. Cardinality(LiveFds') = Cardinality(LiveFds) + 1
  <2>1. LiveFds \subseteq Fds
    BY DEF LiveFds
  <2>2. QED
    BY <1>5, <2>1, LiveFinite
<1>7. LiveFds' \subseteq OpenFds'
  BY <1>1, <1>3, <1>5 DEF LibevInv
<1>8. QED
  BY <1>1, <1>3, <1>4, <1>5, <1>6, <1>7, LibevInvoked DEF LibevInv

\* What a callback of a connection finds.
LEMMA LibevCalled ==
    ASSUME LibevInv, spc = "invoke", NEW f \in events \cap Fds
    PROVE  f \in LiveFds /\ f \in OpenFds /\ file[f] \in Peers
  BY DEF LibevInv, KernelInv, SocketsType, OpenFds

\* read() and write() change no watcher's life.
LEMMA LibevTransfers ==
    ASSUME LibevInv, NEW f \in Fds,
           Libev!io_cb_read(f) \/ Libev!io_cb_error(f) \/ Libev!io_cb_write(f)
    PROVE  LibevInv'
<1> USE Descriptors
<1>1. /\ spc = "invoke" /\ f \in events \cap Fds /\ reg[f] # "none" /\ Libev!Invoked(f)
      /\ UNCHANGED <<heap, total_clients>>
  BY LibevKernel DEF Libev!io_cb_read, Libev!io_cb_error, Libev!io_cb_write
<1>2. f \in LiveFds /\ f \in OpenFds /\ file[f] \in Peers
  BY <1>1, LibevCalled
<1>3. /\ KernelInv' /\ OpenFds' = OpenFds
      /\ reg' \in [Fds -> {"none", "in", "out"}] /\ len' \in [Fds -> 0..MaxSend]
      /\ \A g \in Fds : reg'[g] = "none" <=> reg[g] = "none"
  <2>1. CASE Libev!io_cb_read(f)
    <3>1. PICK n \in 1..MaxSend : Receives(file[f], n) /\ len' = [len EXCEPT ![f] = n]
      BY <2>1, LibevKernel DEF Libev!io_cb_read
    <3>2. reg' = [reg EXCEPT ![f] = "out"] /\ n \in 0..MaxSend
      BY <2>1 DEF Libev!io_cb_read
    <3>3. KernelInv' /\ OpenFds' = OpenFds
      BY <1>2, <3>1, ReceivesKeeps DEF LibevInv
    <3>4. len' \in [Fds -> 0..MaxSend]
      BY <3>1, <3>2 DEF LibevInv
    <3>5. QED
      BY <1>1, <3>2, <3>3, <3>4 DEF LibevInv
  <2>2. CASE Libev!io_cb_error(f)
    <3>1. Reports(file[f]) /\ UNCHANGED <<reg, len>>
      BY <2>2, LibevKernel DEF Libev!io_cb_error
    <3>2. KernelInv' /\ OpenFds' = OpenFds
      BY <1>2, <3>1, ReportsKeeps DEF LibevInv
    <3>3. QED
      BY <3>1, <3>2 DEF LibevInv
  <2>3. CASE Libev!io_cb_write(f)
    <3>1. /\ Sends(file[f], len[f]) /\ len' = [len EXCEPT ![f] = 0]
          /\ reg' = [reg EXCEPT ![f] = "in"]
      BY <2>3, LibevKernel DEF Libev!io_cb_write
    <3>2. len[f] \in Nat
      BY DEF LibevInv
    <3>3. KernelInv' /\ OpenFds' = OpenFds
      BY <1>2, <3>1, <3>2, SendsKeeps DEF LibevInv
    <3>4. len' \in [Fds -> 0..MaxSend]
      BY <3>1 DEF LibevInv
    <3>5. QED
      BY <1>1, <3>1, <3>3, <3>4 DEF LibevInv
  <2>4. QED
    BY <2>1, <2>2, <2>3
<1>4. LiveFds' = LiveFds
  BY <1>1 DEF LiveFds
<1>5. \A g \in Fds : heap'[g] = "live" <=> reg'[g] # "none"
  BY <1>1, <1>3 DEF LibevInv
<1>6. QED
  BY <1>1, <1>3, <1>4, <1>5, LibevInvoked DEF LibevInv

\* The end of a stream takes one watcher away, and no event of this turn names it.
LEMMA LibevEof ==
    ASSUME LibevInv, NEW f \in Fds, Libev!io_cb_eof(f)
    PROVE  LibevInv'
<1>1. /\ spc = "invoke" /\ f \in events \cap Fds /\ Libev!Invoked(f)
      /\ reg' = [reg EXCEPT ![f] = "none"] /\ heap' = [heap EXCEPT ![f] = "freed"]
      /\ total_clients' = total_clients - 1 /\ UNCHANGED <<svars, len>>
  BY LibevKernel DEF Libev!io_cb_eof, Libev!svars, svars
<1>2. f \in LiveFds
  BY <1>1, LibevCalled
<1>3. KernelInv' /\ OpenFds' = OpenFds
  BY <1>1 DEF svars, LibevInv, KernelInv, SocketsType, ConnInv, QueueInv, OpenFds
<1>4. /\ reg' \in [Fds -> {"none", "in", "out"}] /\ heap' \in [Fds -> {"null", "live", "freed"}]
      /\ \A g \in Fds : heap'[g] = "live" <=> reg'[g] # "none"
  BY <1>1 DEF LibevInv
<1>5. LiveFds' = LiveFds \ {f}
  BY <1>1 DEF LibevInv, LiveFds
<1>6. Cardinality(LiveFds') = Cardinality(LiveFds) - 1
  <2>1. LiveFds \subseteq Fds
    BY DEF LiveFds
  <2>2. QED
    BY <1>2, <1>5, <2>1, LiveFinite
<1>7. LiveFds' \subseteq OpenFds'
  BY <1>1, <1>3, <1>5 DEF LibevInv
<1>8. QED
  BY <1>1, <1>3, <1>4, <1>5, <1>6, <1>7, LibevInvoked DEF LibevInv

\* The invariant of the libev server holds.
LEMMA LibevInductive == Spec => [](kind = "libev" => LibevInv)
<1> DEFINE I == kind = "libev" => LibevInv
<1>1. Init => I
  <2>1. ASSUME Libev!Init
        PROVE  LibevInv
    <3>1. KernelInv /\ OpenFds = {}
      BY <2>1, LibevKernel, KernelInit DEF Libev!Init
    <3>2. /\ reg = [f \in Fds |-> "none"] /\ heap = [f \in Fds |-> "null"]
          /\ len = [f \in Fds |-> 0] /\ events = {} /\ total_clients = 0 /\ spc = "ev_run"
      BY <2>1, LibevKernel DEF Libev!Init
    <3>3. LiveFds = {} /\ Cardinality({}) = 0
      BY <3>2, FS_EmptySet DEF LiveFds
    <3>4. QED
      BY <3>1, <3>2, <3>3, Descriptors DEF LibevInv
  <2>2. QED
    BY <2>1 DEF Init
<1>2. I /\ [Next]_vars => I'
  <2>1. ASSUME LibevInv, UNCHANGED vars
        PROVE  LibevInv'
    BY <2>1 DEF vars, svars, ctxvars, libevvars, LibevInv, LiveFds, KernelInv, SocketsType, ConnInv,
                QueueInv, OpenFds
  <2>2. ASSUME LibevInv, Libev!Server
        PROVE  LibevInv'
    <3>1. CASE Libev!accept_cb_error
      <4>1. /\ spc = "invoke" /\ Listen \in events /\ Libev!Invoked(Listen)
            /\ UNCHANGED <<svars, reg, heap, len, total_clients>>
        BY <3>1, LibevKernel DEF Libev!accept_cb_error, Libev!svars, svars
      <4>2. KernelInv' /\ OpenFds' = OpenFds /\ LiveFds' = LiveFds
        BY <2>2, <4>1 DEF svars, LibevInv, LiveFds, KernelInv, SocketsType, ConnInv, QueueInv, OpenFds
      <4>3. QED
        BY <2>2, <4>1, <4>2, LibevInvoked DEF LibevInv
    <3>2. ASSUME NEW f \in Fds, Libev!io_cb_sigpipe(f)
          PROVE  LibevInv'
      <4>1. Exits /\ events' = {} /\ spc' = "exit" /\ UNCHANGED <<reg, heap, len, total_clients>>
        BY <3>2, LibevKernel DEF Libev!io_cb_sigpipe
      <4>2. LiveFds' = LiveFds
        BY <4>1 DEF LiveFds
      <4>3. QED
        BY <2>2, <4>1, <4>2, ExitsKeeps DEF LibevInv
    <3>3. QED
      BY <2>2, <3>1, <3>2, LibevRuns, LibevAccepts, LibevTransfers, LibevEof, LibevKernel
      DEF Libev!Server
  <2>3. ASSUME LibevInv, PeerStep
        PROVE  LibevInv'
    <3>1. PICK p \in Peers : Peer(p) /\ UNCHANGED <<reg, heap, len, total_clients, events, spc>>
      BY <2>3 DEF PeerStep, ctxvars, libevvars
    <3>2. LiveFds' = LiveFds
      BY <3>1 DEF LiveFds
    <3>3. QED
      BY <2>3, <3>1, <3>2, PeerKeeps DEF LibevInv
  <2>4. QED
    BY <2>1, <2>2, <2>3, OneServer
<1>3. QED
  BY <1>1, <1>2, PTL DEF Spec

-----------------------------------------------------------------------------
(* The reactor *)

\* What this server takes from the kernel is what every server takes.
LEMMA ReactKernel ==
    /\ React!Fds = Fds /\ React!Listen = Listen /\ React!OpenFds = OpenFds
    /\ (React!SocketsInit <=> SocketsInit) /\ (React!SocketsType <=> SocketsType)
    /\ (React!AcceptFails <=> AcceptFails) /\ (React!Exits <=> Exits)
    /\ \A f : (React!Accepts(f) <=> Accepts(f)) /\ (React!Readable(f) <=> Readable(f))
    /\ \A f : (React!Closes(f) <=> Closes(f)) /\ (React!Reports(f) <=> Reports(f))
    /\ \A p, n : (React!Receives(p, n) <=> Receives(p, n)) /\ (React!Sends(p, n) <=> Sends(p, n))
    /\ \A S : React!Cardinality(S) = Cardinality(S)
<1>1. \A S : React!Cardinality(S) = Cardinality(S)
  BY DEF React!Cardinality, Cardinality
<1>2. QED
  BY <1>1 DEF React!Fds, React!Listen, React!OpenFds, React!SocketsInit, React!SocketsType,
    React!AcceptFails, React!Exits, React!Accepts, React!Readable, React!Reports, React!Closes,
    React!Receives, React!Sends, React!HasData, React!Broken,
    Fds, Listen, OpenFds, SocketsInit, SocketsType, AcceptFails, Exits, Accepts, Closes,
    Readable, Reports, Receives, Sends, HasData, Broken

\* The blocks that there can be.
MaxBlocks == MaxFd \div ItemLength + 1

\* Each variable in its domain.
ReactTypes ==
    /\ reg \in [Fds -> {"none", "in", "out"}] /\ events \subseteq Sources
    /\ block_count \in 0..MaxBlocks /\ itemfd \in [Fds -> Fds \cup {0}]
    /\ heap \in [Fds -> {"null", "live", "freed"}]
    /\ rbuf \in [Fds -> SUBSET Peers] /\ wbuf \in [Fds -> SUBSET Peers]
    /\ reply \in [Peers -> SUBSET Peers] /\ spc \in {"epoll_wait", "handle", "exit"}

\* There is a block for descriptor f among the first b.
Covers(b, f) == f < b * ItemLength

\* A connection is open as long as its item names it, has buffers and is registered.
ReactItems ==
    \A f \in Fds :
        /\ file[f] # NoPeer <=> heap[f] = "live"
        /\ file[f] # NoPeer <=> itemfd[f] = f
        /\ file[f] # NoPeer <=> reg[f] # "none"
        /\ file[f] # NoPeer => Covers(block_count, f)

\* A buffer holds bytes of the connection it belongs to, and a peer is sent such bytes,
\* never more than it sent.
ReactBytes ==
    /\ \A f \in Fds : file[f] # NoPeer => rbuf[f] \subseteq {file[f]} /\ wbuf[f] \subseteq {file[f]}
    /\ \A p \in Peers : reply[p] \subseteq {p} /\ back[p] <= got[p]

ReactInv == KernelInv /\ ReactTypes /\ ReactBytes /\ (spc # "exit" => ReactItems)

\* The block of a descriptor, and of a smaller one.
LEMMA Blocks ==
    /\ ItemLength \in Nat /\ ItemLength > 0 /\ MaxBlocks \in Nat
    /\ \A f \in Fds : /\ f \div ItemLength \in Nat /\ f \div ItemLength + 1 <= MaxBlocks
                      /\ Covers(f \div ItemLength + 1, f)
    /\ \A b, c \in Nat : b <= c => \A f \in Fds : Covers(b, f) => Covers(c, f)
<1>1. ItemLength \in Nat /\ ItemLength > 0
  BY EchoServersAssumption DEF React!ReactorAssumption
<1>2. \A n \in Nat : /\ n \div ItemLength \in Nat /\ (n \div ItemLength) * ItemLength <= n
                     /\ n < (n \div ItemLength + 1) * ItemLength
  BY <1>1, SMT
<1>3. \A b, c \in Nat : b <= c => b * ItemLength <= c * ItemLength
  BY <1>1, SMT
<1>4. MaxFd \in Nat /\ Fds = 1..MaxFd
  BY Descriptors
<1>5. ASSUME NEW f \in Fds
      PROVE  f \div ItemLength <= MaxFd \div ItemLength
  <2> DEFINE q == f \div ItemLength
             m == MaxFd \div ItemLength
  <2>1. q \in Nat /\ m \in Nat /\ q * ItemLength <= f /\ f <= MaxFd /\ MaxFd < (m + 1) * ItemLength
    <3>1. f \in Nat /\ f <= MaxFd
      BY <1>4
    <3>2. QED
      BY <1>2, <1>4, <3>1, Zenon
  <2>2. m + 1 <= q => (m + 1) * ItemLength <= q * ItemLength
    BY <1>3, <2>1
  <2> HIDE DEF q, m
  <2>3. q * ItemLength \in Nat /\ (m + 1) * ItemLength \in Nat
    BY <1>1, <2>1
  <2>4. q <= m
    BY <1>4, <2>1, <2>2, <2>3
  <2>5. QED
    BY <2>4 DEF q, m
<1>6. \A f \in Fds : f \div ItemLength + 1 <= MaxFd \div ItemLength + 1
  BY <1>2, <1>4, <1>5
<1>7. ASSUME NEW b \in Nat, NEW c \in Nat, b <= c, NEW f \in Fds, Covers(b, f)
      PROVE  Covers(c, f)
  <2>1. b * ItemLength <= c * ItemLength
    BY <1>3, <1>7
  <2>2. b * ItemLength \in Nat /\ c * ItemLength \in Nat /\ f \in Nat
    BY <1>1, <1>4
  <2>3. QED
    BY <1>7, <2>1, <2>2 DEF Covers
<1>8. \A f \in Fds : f \in Nat /\ f \div ItemLength \in Nat /\ Covers(f \div ItemLength + 1, f)
  <2>1. \A f \in Fds : f \in Nat
    BY <1>4
  <2>2. QED
    BY <1>2, <2>1, Zenon DEF Covers
<1>9. MaxBlocks \in Nat
  <2>1. MaxFd \div ItemLength \in Nat
    BY <1>2, <1>4, Zenon
  <2>2. QED
    BY <2>1 DEF MaxBlocks
<1>10. \A f \in Fds : f \div ItemLength + 1 <= MaxBlocks
  BY <1>6 DEF MaxBlocks
<1>11. QED
  BY <1>1, <1>7, <1>8, <1>9, <1>10

\* reactor_lookup() leaves no descriptor without its block.
LEMMA ReactLookup ==
    ASSUME ReactTypes, NEW f \in Fds, React!reactor_lookup(f)
    PROVE  /\ block_count' \in 0..MaxBlocks /\ Covers(block_count', f)
           /\ \A g \in Fds : Covers(block_count, g) => Covers(block_count', g)
<1> DEFINE q == f \div ItemLength
<1>1. block_count' = IF q >= block_count THEN q + 1 ELSE block_count
  BY DEF React!reactor_lookup
<1>2. /\ q \in Nat /\ q + 1 <= MaxBlocks /\ Covers(q + 1, f)
      /\ block_count \in Nat /\ block_count <= MaxBlocks /\ MaxBlocks \in Nat
  BY Blocks DEF ReactTypes
<1> HIDE DEF q
<1>3. /\ block_count' \in Nat /\ block_count' <= MaxBlocks /\ q + 1 \in Nat
      /\ q + 1 <= block_count' /\ block_count <= block_count'
  BY <1>1, <1>2
<1>4. \A b, c \in Nat : b <= c => \A g \in Fds : Covers(b, g) => Covers(c, g)
  BY Blocks, Zenon
<1>5. QED
  BY <1>2, <1>3, <1>4

\* What is left after the event of f was handled.
LEMMA ReactHandled ==
    ASSUME ReactTypes, NEW f, React!Handled(f)
    PROVE  events' \subseteq Sources /\ spc' \in {"epoll_wait", "handle"}
<1>1. events' = events \ {f} /\ spc' = IF events' = {} THEN "epoll_wait" ELSE "handle"
  BY DEF React!Handled
<1>2. QED
  BY <1>1 DEF ReactTypes

\* What the handler of a connection finds.
LEMMA ReactCalled ==
    ASSUME ReactInv, spc = "handle", NEW f \in Fds, reg[f] # "none"
    PROVE  file[f] \in Peers
  BY DEF ReactInv, ReactItems, KernelInv, SocketsType

\* epoll_wait() changes nothing but the events.
LEMMA ReactWaits ==
    ASSUME ReactInv, React!epoll_wait
    PROVE  ReactInv'
<1>1. /\ events' \subseteq React!Ready /\ spc = "epoll_wait" /\ spc' = "handle"
      /\ UNCHANGED <<svars, reg, block_count, itemfd, heap, rbuf, wbuf, reply>>
  BY DEF React!epoll_wait, React!svars, svars
<1>2. React!Ready \subseteq Sources
  BY ReactKernel DEF React!Ready, Sources
<1>3. QED
  BY <1>1, <1>2 DEF svars, ReactInv, ReactTypes, ReactItems, ReactBytes, KernelInv, SocketsType,
                    ConnInv, QueueInv

\* accept() sets up an item whose buffers are empty.
LEMMA ReactAccepts ==
    ASSUME ReactInv, React!accept
    PROVE  ReactInv'
<1> USE Descriptors
<1>1. spc = "handle" /\ React!Handled(Listen) /\ reply' = reply
  BY ReactKernel DEF React!accept
<1>2. PICK f \in Fds :
         /\ Accepts(f) /\ React!reactor_lookup(f)
         /\ reg' = [reg EXCEPT ![f] = "in"] /\ itemfd' = [itemfd EXCEPT ![f] = f]
         /\ heap' = [heap EXCEPT ![f] = "live"]
         /\ rbuf' = [rbuf EXCEPT ![f] = {}] /\ wbuf' = [wbuf EXCEPT ![f] = {}]
  BY ReactKernel DEF React!accept
<1>3. /\ KernelInv' /\ file[f] = NoPeer /\ file'[f] \in Peers /\ UNCHANGED <<got, back>>
      /\ \A g \in Fds \ {f} : file'[g] = file[g]
  BY <1>2, AcceptsKeeps DEF ReactInv
<1>4. /\ block_count' \in 0..MaxBlocks /\ Covers(block_count', f)
      /\ \A g \in Fds : Covers(block_count, g) => Covers(block_count', g)
  BY <1>2, ReactLookup DEF ReactInv
<1>5. events' \subseteq Sources /\ spc' \in {"epoll_wait", "handle"}
  BY <1>1, ReactHandled DEF ReactInv
<1>6. ReactTypes'
  <2>1. /\ reg' \in [Fds -> {"none", "in", "out"}] /\ itemfd' \in [Fds -> Fds \cup {0}]
        /\ heap' \in [Fds -> {"null", "live", "freed"}]
    BY <1>2 DEF ReactInv, ReactTypes
  <2>2. rbuf' \in [Fds -> SUBSET Peers] /\ wbuf' \in [Fds -> SUBSET Peers]
    BY <1>2 DEF ReactInv, ReactTypes
  <2>3. QED
    BY <1>1, <1>4, <1>5, <2>1, <2>2 DEF ReactInv, ReactTypes
<1>7. ReactItems'
  <2>1. reg'[f] = "in" /\ itemfd'[f] = f /\ heap'[f] = "live"
    BY <1>2 DEF ReactInv, ReactTypes
  <2>2. \A g \in Fds \ {f} : reg'[g] = reg[g] /\ itemfd'[g] = itemfd[g] /\ heap'[g] = heap[g]
    BY <1>2 DEF ReactInv, ReactTypes
  <2>3. ReactItems
    BY <1>1 DEF ReactInv
  <2>4. QED
    BY <1>3, <1>4, <2>1, <2>2, <2>3 DEF ReactItems
<1>8. ReactBytes'
  <2>1. rbuf'[f] = {} /\ wbuf'[f] = {}
    BY <1>2 DEF ReactInv, ReactTypes
  <2>2. \A g \in Fds \ {f} : rbuf'[g] = rbuf[g] /\ wbuf'[g] = wbuf[g]
    BY <1>2 DEF ReactInv, ReactTypes
  <2>3. \A g \in Fds : file'[g] # NoPeer => rbuf'[g] \subseteq {file'[g]} /\ wbuf'[g] \subseteq {file'[g]}
    BY <1>3, <2>1, <2>2 DEF ReactInv, ReactBytes
  <2>4. QED
    BY <1>1, <1>3, <2>3 DEF ReactInv, ReactBytes
<1>9. QED
  BY <1>3, <1>6, <1>7, <1>8 DEF ReactInv

\* recv() fills the buffers of the connection with its own bytes, or reports an error.
LEMMA ReactReceives ==
    ASSUME ReactInv, NEW f \in Fds, React!recv_data(f) \/ React!recv_error(f)
    PROVE  ReactInv'
<1> USE Descriptors
<1>1. /\ spc = "handle" /\ reg[f] = "in" /\ React!Handled(f) /\ React!reactor_lookup(f)
      /\ UNCHANGED <<itemfd, heap, reply>>
  BY ReactKernel DEF React!recv_data, React!recv_error
<1>2. file[f] \in Peers
  BY <1>1, ReactCalled
<1>3. /\ block_count' \in 0..MaxBlocks
      /\ \A g \in Fds : Covers(block_count, g) => Covers(block_count', g)
  BY <1>1, ReactLookup DEF ReactInv
<1>4. events' \subseteq Sources /\ spc' \in {"epoll_wait", "handle"}
  BY <1>1, ReactHandled DEF ReactInv
<1>5. /\ KernelInv' /\ Calm /\ \A q \in Peers : back'[q] = back[q] /\ got[q] <= got'[q]
      /\ reg' \in [Fds -> {"none", "in", "out"}] /\ \A g \in Fds : reg'[g] # "none" <=> reg[g] # "none"
      /\ rbuf' \in [Fds -> SUBSET Peers] /\ wbuf' \in [Fds -> SUBSET Peers]
      /\ \A g \in Fds \ {f} : rbuf'[g] = rbuf[g] /\ wbuf'[g] = wbuf[g]
      /\ rbuf'[f] \subseteq {file[f]} /\ wbuf'[f] \subseteq {file[f]}
  <2>1. CASE React!recv_data(f)
    <3>1. /\ rbuf' = [rbuf EXCEPT ![f] = @ \cup {file[f]}] /\ wbuf' = [wbuf EXCEPT ![f] = rbuf'[f]]
          /\ reg' = [reg EXCEPT ![f] = "out"]
      BY <2>1 DEF React!recv_data
    <3>2. PICK n \in 1..MaxSend : Receives(file[f], n)
      BY <2>1, ReactKernel DEF React!recv_data
    <3>3. KernelInv' /\ Calm /\ back' = back /\ \A q \in Peers : got[q] <= got'[q]
      BY <1>2, <3>2, ReceivesKeeps DEF ReactInv
    <3>4. /\ rbuf' \in [Fds -> SUBSET Peers] /\ rbuf'[f] = rbuf[f] \cup {file[f]}
          /\ \A g \in Fds \ {f} : rbuf'[g] = rbuf[g]
      BY <1>2, <3>1 DEF ReactInv, ReactTypes
    <3>5. /\ wbuf' \in [Fds -> SUBSET Peers] /\ wbuf'[f] = rbuf'[f]
          /\ \A g \in Fds \ {f} : wbuf'[g] = wbuf[g]
      BY <3>1, <3>4 DEF ReactInv, ReactTypes
    <3>6. rbuf[f] \subseteq {file[f]}
      BY <1>2 DEF ReactInv, ReactBytes
    <3>7. /\ reg' \in [Fds -> {"none", "in", "out"}]
          /\ \A g \in Fds : reg'[g] # "none" <=> reg[g] # "none"
      BY <1>1, <3>1 DEF ReactInv, ReactTypes
    <3>8. QED
      BY <3>3, <3>4, <3>5, <3>6, <3>7
  <2>2. CASE React!recv_error(f)
    <3>1. Reports(file[f]) /\ UNCHANGED <<reg, rbuf, wbuf>>
      BY <2>2, ReactKernel DEF React!recv_error
    <3>2. KernelInv' /\ Calm /\ UNCHANGED <<got, back>>
      BY <1>2, <3>1, ReportsKeeps DEF ReactInv
    <3>3. \A q \in Peers : got[q] <= got[q]
      BY DEF ReactInv, KernelInv, SocketsType
    <3>4. QED
      BY <1>2, <3>1, <3>2, <3>3 DEF ReactInv, ReactTypes, ReactBytes
  <2>3. QED
    BY <2>1, <2>2
<1>6. file' = file
  BY <1>5 DEF Calm
<1>7. ReactTypes'
  BY <1>1, <1>3, <1>4, <1>5 DEF ReactInv, ReactTypes
<1>8. ReactItems'
  BY <1>1, <1>3, <1>5, <1>6 DEF ReactInv, ReactItems
<1>9. ReactBytes'
  <2>1. \A q \in Peers : back'[q] \in Nat /\ got'[q] \in Nat /\ got[q] \in Nat
    BY <1>5 DEF ReactInv, KernelInv, SocketsType
  <2>2. \A q \in Peers : reply'[q] \subseteq {q} /\ back'[q] <= got'[q]
    BY <1>1, <1>5, <2>1 DEF ReactInv, ReactBytes
  <2>3. ASSUME NEW g \in Fds, file'[g] # NoPeer
        PROVE  rbuf'[g] \subseteq {file'[g]} /\ wbuf'[g] \subseteq {file'[g]}
    BY <1>5, <1>6, <2>3 DEF ReactInv, ReactBytes
  <2>4. QED
    BY <2>2, <2>3 DEF ReactBytes
<1>10. QED
  BY <1>5, <1>7, <1>8, <1>9 DEF ReactInv

\* recv() of 0 gives back everything the connection had.
LEMMA ReactEof ==
    ASSUME ReactInv, NEW f \in Fds, React!recv_eof(f)
    PROVE  ReactInv'
<1> USE Descriptors
<1>1. /\ spc = "handle" /\ reg[f] = "in" /\ React!Handled(f) /\ React!reactor_lookup(f)
      /\ heap' = [heap EXCEPT ![f] = "freed"] /\ itemfd' = [itemfd EXCEPT ![f] = 0]
      /\ Closes(f) /\ reg' = [reg EXCEPT ![f] = "none"] /\ UNCHANGED <<rbuf, wbuf, reply>>
  BY ReactKernel DEF React!recv_eof
<1>2. /\ KernelInv' /\ file'[f] = NoPeer /\ \A g \in Fds \ {f} : file'[g] = file[g]
  BY <1>1, ClosesKeeps DEF ReactInv
<1>3. UNCHANGED <<got, back>>
  BY <1>1, ClosesKeeps DEF ReactInv
<1>4. /\ block_count' \in 0..MaxBlocks
      /\ \A g \in Fds : Covers(block_count, g) => Covers(block_count', g)
  BY <1>1, ReactLookup DEF ReactInv
<1>5. events' \subseteq Sources /\ spc' \in {"epoll_wait", "handle"}
  BY <1>1, ReactHandled DEF ReactInv
<1>6. ReactTypes'
  BY <1>1, <1>4, <1>5 DEF ReactInv, ReactTypes
<1>7. ReactItems'
  <2>1. reg'[f] = "none" /\ itemfd'[f] = 0 /\ heap'[f] = "freed"
    BY <1>1 DEF ReactInv, ReactTypes
  <2>2. \A g \in Fds \ {f} : reg'[g] = reg[g] /\ itemfd'[g] = itemfd[g] /\ heap'[g] = heap[g]
    BY <1>1 DEF ReactInv, ReactTypes
  <2>3. ReactItems
    BY <1>1 DEF ReactInv
  <2>4. QED
    BY <1>2, <1>4, <2>1, <2>2, <2>3 DEF ReactItems
<1>8. ReactBytes'
  BY <1>1, <1>2, <1>3 DEF ReactInv, ReactBytes
<1>9. QED
  BY <1>2, <1>6, <1>7, <1>8 DEF ReactInv

\* send() gives the peer the bytes in the buffer of its connection.
LEMMA ReactSends ==
    ASSUME ReactInv, NEW f \in Fds, React!send_reply(f)
    PROVE  ReactInv'
<1> USE Descriptors
<1> DEFINE p == file[f]
<1>1. /\ spc = "handle" /\ reg[f] = "out" /\ React!Handled(f) /\ React!reactor_lookup(f)
      /\ Sends(p, got[p] - back[p]) /\ reg' = [reg EXCEPT ![f] = "in"]
      /\ reply' = [reply EXCEPT ![p] = IF back' = back THEN @ ELSE @ \cup wbuf[f]]
      /\ UNCHANGED <<itemfd, heap, rbuf, wbuf>>
  BY ReactKernel DEF React!send_reply
<1>2. p \in Peers
  BY <1>1, ReactCalled
<1>3. /\ block_count' \in 0..MaxBlocks
      /\ \A g \in Fds : Covers(block_count, g) => Covers(block_count', g)
  BY <1>1, ReactLookup DEF ReactInv
<1>4. events' \subseteq Sources /\ spc' \in {"epoll_wait", "handle"}
  BY <1>1, ReactHandled DEF ReactInv
<1>5. got[p] - back[p] \in Nat
  BY <1>2 DEF ReactInv, ReactBytes, KernelInv, SocketsType
<1>6. /\ KernelInv' /\ Calm /\ OnlyOf(p) /\ got' = got
      /\ back'[p] \in {back[p], back[p] + (got[p] - back[p])}
  BY <1>1, <1>2, <1>5, SendsKeeps DEF ReactInv
<1>7. file' = file
  BY <1>6 DEF Calm
<1>8. wbuf[f] \subseteq {p} /\ reply[p] \subseteq {p}
  BY <1>2 DEF ReactInv, ReactBytes
<1>9. /\ reply' \in [Peers -> SUBSET Peers] /\ reply'[p] \subseteq {p}
      /\ \A q \in Peers \ {p} : reply'[q] = reply[q]
  <2>1. CASE back' = back
    BY <1>1, <1>2, <1>8, <2>1 DEF ReactInv, ReactTypes
  <2>2. CASE back' # back
    <3>1. reply' = [reply EXCEPT ![p] = reply[p] \cup wbuf[f]]
      BY <1>1, <2>2
    <3>2. reply[p] \cup wbuf[f] \subseteq {p} /\ reply[p] \cup wbuf[f] \in SUBSET Peers
      BY <1>2, <1>8
    <3>3. QED
      BY <1>2, <3>1, <3>2 DEF ReactInv, ReactTypes
  <2>3. QED
    BY <2>1, <2>2
<1>10. \A q \in Peers : back'[q] <= got'[q]
  <2>1. back'[p] <= got'[p]
    BY <1>2, <1>6 DEF ReactInv, ReactBytes, KernelInv, SocketsType
  <2>2. \A q \in Peers \ {p} : back'[q] <= got'[q]
    BY <1>6 DEF OnlyOf, ReactInv, ReactBytes
  <2>3. QED
    BY <2>1, <2>2
<1>11. ReactTypes'
  BY <1>1, <1>3, <1>4, <1>9 DEF ReactInv, ReactTypes
<1>12. ReactItems'
  BY <1>1, <1>3, <1>7 DEF ReactInv, ReactTypes, ReactItems
<1>13. ReactBytes'
  BY <1>1, <1>7, <1>9, <1>10 DEF ReactInv, ReactBytes
<1>14. QED
  BY <1>6, <1>11, <1>12, <1>13 DEF ReactInv

\* The invariant of the reactor holds.
LEMMA ReactInductive == Spec => [](kind = "reactor" => ReactInv)
<1> DEFINE I == kind = "reactor" => ReactInv
<1>1. Init => I
  <2>1. ASSUME React!Init
        PROVE  ReactInv
    <3>1. KernelInv /\ OpenFds = {} /\ \A p \in Peers : back[p] = 0 /\ got[p] = 0
      BY <2>1, ReactKernel, KernelInit DEF React!Init
    <3>2. /\ reg = [f \in Fds |-> "none"] /\ heap = [f \in Fds |-> "null"] /\ events = {}
          /\ block_count = 0 /\ itemfd = [f \in Fds |-> 0] /\ spc = "epoll_wait"
          /\ rbuf = [f \in Fds |-> {}] /\ wbuf = [f \in Fds |-> {}] /\ reply = [p \in Peers |-> {}]
      BY <2>1, ReactKernel DEF React!Init
    <3>3. 0 \in 0..MaxBlocks
      BY Blocks
    <3>4. ReactTypes
      BY <3>2, <3>3 DEF ReactTypes
    <3>5. ReactItems
      BY <3>1, <3>2, Descriptors DEF ReactItems, OpenFds
    <3>6. ReactBytes
      BY <3>1, <3>2 DEF ReactBytes
    <3>7. QED
      BY <3>1, <3>4, <3>5, <3>6 DEF ReactInv
  <2>2. QED
    BY <2>1 DEF Init
<1>2. I /\ [Next]_vars => I'
  <2>1. ASSUME ReactInv, UNCHANGED vars
        PROVE  ReactInv'
    BY <2>1 DEF vars, svars, ctxvars, reactorvars, ReactInv, ReactTypes, ReactItems, ReactBytes,
                KernelInv, SocketsType, ConnInv, QueueInv
  <2>2. ASSUME ReactInv, React!Server
        PROVE  ReactInv'
    <3>1. CASE React!accept_break
      <4>1. /\ spc = "handle" /\ events' = {} /\ spc' = "epoll_wait"
            /\ UNCHANGED <<svars, reg, block_count, itemfd, heap, rbuf, wbuf, reply>>
        BY <3>1 DEF React!accept_break, React!svars, svars
      <4>2. QED
        BY <2>2, <4>1 DEF svars, ReactInv, ReactTypes, ReactItems, ReactBytes,
                          KernelInv, SocketsType, ConnInv, QueueInv
    <3>2. ASSUME NEW f \in Fds, React!send_sigpipe(f)
          PROVE  ReactInv'
      <4>1. /\ Exits /\ events' = {} /\ spc' = "exit" /\ reg' = [g \in Fds |-> "none"]
            /\ UNCHANGED <<block_count, itemfd, heap, rbuf, wbuf, reply>>
        BY <3>2, ReactKernel DEF React!send_sigpipe
      <4>2. KernelInv' /\ OpenFds' = {} /\ UNCHANGED <<got, back>>
        BY <2>2, <4>1, ExitsKeeps DEF ReactInv
      <4>3. QED
        BY <2>2, <4>1, <4>2 DEF ReactInv, ReactTypes, ReactBytes, OpenFds
    <3>3. QED
      BY <2>2, <3>1, <3>2, ReactWaits, ReactAccepts, ReactReceives, ReactEof, ReactSends, ReactKernel
      DEF React!Server
  <2>3. ASSUME ReactInv, PeerStep
        PROVE  ReactInv'
    <3>1. PICK p \in Peers : Peer(p) /\ UNCHANGED <<reg, heap, events, spc, block_count, itemfd, rbuf,
                                                    wbuf, reply>>
      BY <2>3 DEF PeerStep, ctxvars, reactorvars
    <3>2. QED
      BY <2>3, <3>1, PeerKeeps DEF ReactInv, ReactTypes, ReactItems, ReactBytes
  <2>4. QED
    BY <2>1, <2>2, <2>3, OneServer
<1>3. QED
  BY <1>1, <1>2, PTL DEF Spec

-----------------------------------------------------------------------------
(* demo3: an edge, then levels *)

\* What this server takes from the kernel is what every server takes.
LEMMA Demo3Kernel ==
    /\ Demo3!Fds = Fds /\ Demo3!Listen = Listen /\ Demo3!OpenFds = OpenFds
    /\ (Demo3!SocketsInit <=> SocketsInit) /\ (Demo3!SocketsType <=> SocketsType)
    /\ (Demo3!AcceptFails <=> AcceptFails) /\ (Demo3!Exits <=> Exits)
    /\ \A f : (Demo3!Accepts(f) <=> Accepts(f)) /\ (Demo3!Readable(f) <=> Readable(f))
    /\ \A p : (Demo3!Reports(p) <=> Reports(p)) /\ (Demo3!Ended(p) <=> Ended(p))
    /\ \A p, n : (Demo3!Receives(p, n) <=> Receives(p, n)) /\ (Demo3!Sends(p, n) <=> Sends(p, n))
    /\ \A f : Demo3!News(f) = <<sent[file[f]], fin[file[f]]>>
    /\ \A S : Demo3!Cardinality(S) = Cardinality(S)
<1>1. \A S : Demo3!Cardinality(S) = Cardinality(S)
  BY DEF Demo3!Cardinality, Cardinality
<1>2. QED
  BY <1>1 DEF Demo3!Fds, Demo3!Listen, Demo3!OpenFds, Demo3!SocketsInit, Demo3!SocketsType,
    Demo3!AcceptFails, Demo3!Exits, Demo3!Accepts, Demo3!Readable, Demo3!Reports, Demo3!Ended,
    Demo3!Receives, Demo3!Sends, Demo3!HasData, Demo3!Broken, Demo3!News,
    Fds, Listen, OpenFds, SocketsInit, SocketsType, AcceptFails, Exits, Accepts,
    Readable, Reports, Ended, Receives, Sends, HasData, Broken

\* Each variable in its domain; between two turns no event is left.
Demo3Types ==
    /\ reg \in [Fds -> {"none", "edge", "in", "out"}]
    /\ seen \in [Fds -> (0..MaxSend) \X {"no", "fin", "rst"}]
    /\ events \subseteq Sources /\ wbuffer \in [1..MaxSend -> Peers \cup {NoPeer}]
    /\ reply \in [Peers -> SUBSET (Peers \cup {NoPeer})]
    /\ spc \in {"epoll_wait", "handle", "exit"} /\ (spc = "epoll_wait" => events = {})
    /\ \A p \in Peers : back[p] <= got[p]

\* What is open is registered; and what was seen of a connection is its past.
Demo3Table ==
    \A f \in Fds :
        /\ reg[f] # "none" <=> file[f] # NoPeer
        /\ file[f] = NoPeer => seen[f] = <<0, "no">>
        /\ file[f] # NoPeer => /\ seen[f][1] <= sent[file[f]]
                               /\ fin[file[f]] = "no" => seen[f][2] = "no"

\* No edge is lost: there is news for every connection that waits for one.
Waiting(f) ==
    /\ file[f] # NoPeer /\ reg[f] = "edge" /\ f \notin events
    /\ fin[file[f]] # "rst" /\ sent[file[f]] > got[file[f]]
Demo3Edges ==
    OpenFds # Fds => \A f \in Fds : Waiting(f) => seen[f] # <<sent[file[f]], fin[file[f]]>>

\* What stands at place k came with a message of k units or more.
Written == \A k \in 1..MaxSend : \A q \in Peers : wbuffer[k] = q => k <= got[q]

\* An answer is due for f and can be sent.
Owed(f) == f \in OpenFds /\ reg[f] = "out" /\ fin[file[f]] # "rst"

\* Nothing is due for a connection that does not wait to write.
Settled ==
    \A p \in Peers :
        \/ fin[p] = "rst" \/ got[p] = back[p]
        \/ \E f \in Fds : file[f] = p /\ reg[f] = "out"

\* Something is due for the others.
Owing == \A f \in Fds : Owed(f) => back[file[f]] < got[file[f]]

\* What is due stands at the front of wbuffer.
Front ==
    \A f \in Fds : Owed(f) => \A k \in 1..(got[file[f]] - back[file[f]]) : wbuffer[k] = file[f]

\* What a peer was sent of others, longer messages have left.
Leftovers == \A p \in Peers : \A q \in reply[p] \ {p, NoPeer} : got[q] >= 2

\* Until two connections need it, wbuffer belongs to the one that waits to write.
Demo3Bytes ==
    /\ Written /\ Owing /\ (spc # "exit" => Settled)
    /\ ~clash => Front /\ Leftovers

Demo3Inv ==
    /\ KernelInv /\ Demo3Types /\ Demo3Bytes
    /\ spc # "exit" => Demo3Table /\ Demo3Edges

\* What a peer may have done.
LEMMA PeerNews ==
    ASSUME KernelInv, NEW p \in Peers, Peer(p)
    PROVE  \A q \in Peers : /\ fin'[q] = "no" => fin[q] = "no"
                            /\ fin[q] = "rst" => fin'[q] = "rst"
                            /\ \/ sent'[q] = sent[q] /\ fin'[q] = fin[q]
                               \/ sent'[q] > sent[q]
                               \/ fin[q] = "no" /\ fin'[q] # "no"
                               \/ fin'[q] = "rst"
<1>1. CASE connect(p) \/ shutdown(p) \/ reset(p)
  BY <1>1 DEF connect, shutdown, reset, KernelInv, SocketsType
<1>2. CASE send(p)
  BY <1>2, Descriptors DEF send, KernelInv, SocketsType
<1>3. QED
  BY <1>1, <1>2 DEF Peer

\* What is left after the event of f was handled.
LEMMA Demo3Handled ==
    ASSUME Demo3Types, NEW f, Demo3!Handled(f)
    PROVE  /\ events' = events \ {f} /\ events' \subseteq Sources
           /\ spc' \in {"epoll_wait", "handle"} /\ (spc' = "epoll_wait" => events' = {})
<1>1. events' = events \ {f} /\ spc' = IF events' = {} THEN "epoll_wait" ELSE "handle"
  BY DEF Demo3!Handled
<1>2. QED
  BY <1>1 DEF Demo3Types

\* Whoever leaves the counters, the registrations and the buffer alone keeps Demo3Bytes.
LEMMA Demo3BytesSame ==
    ASSUME Demo3Bytes, UNCHANGED <<file, got, back, fin, reg, wbuffer, reply>>, clash' <=> clash,
           spc' # "exit" => spc # "exit"
    PROVE  Demo3Bytes'
<1>1. Written' /\ Owing' /\ (spc' # "exit" => Settled')
  BY DEF Demo3Bytes, Written, Owing, Owed, OpenFds, Settled
<1>2. ~clash' => Front' /\ Leftovers'
  BY DEF Demo3Bytes, Front, Leftovers, Owed, OpenFds
<1>3. QED
  BY <1>1, <1>2 DEF Demo3Bytes

\* epoll_wait() takes note of what it reports.
LEMMA Demo3Waits ==
    ASSUME Demo3Inv, Demo3!epoll_wait
    PROVE  Demo3Inv'
<1> DEFINE N(f) == <<sent[file[f]], fin[file[f]]>>
<1>1. PICK E \in SUBSET Demo3!Ready :
         /\ events' = E /\ seen' = [f \in Fds |-> IF f \in E THEN N(f) ELSE seen[f]]
         /\ spc = "epoll_wait" /\ spc' = "handle" /\ UNCHANGED <<svars, reg, wbuffer, reply, clash>>
  BY Demo3Kernel DEF Demo3!epoll_wait, Demo3!svars, svars
<1>2. E \subseteq Sources /\ \A f \in E \cap Fds : reg[f] # "none"
  BY <1>1, Demo3Kernel, Descriptors DEF Demo3!Ready, Sources
<1>3. \A f \in E \cap Fds : file[f] \in Peers
  BY <1>1, <1>2 DEF Demo3Inv, Demo3Table, KernelInv, SocketsType
<1>4. \A f \in E \cap Fds : N(f) \in (0..MaxSend) \X {"no", "fin", "rst"}
  BY <1>3 DEF Demo3Inv, KernelInv, SocketsType
<1>5. seen' \in [Fds -> (0..MaxSend) \X {"no", "fin", "rst"}]
  <2> HIDE DEF N
  <2>1. QED
    BY <1>1, <1>4 DEF Demo3Inv, Demo3Types
<1>6. KernelInv' /\ OpenFds' = OpenFds
  BY <1>1 DEF svars, Demo3Inv, KernelInv, SocketsType, ConnInv, QueueInv, OpenFds
<1>7. Demo3Types'
  BY <1>1, <1>2, <1>5 DEF svars, Demo3Inv, Demo3Types
<1>8. Demo3Bytes'
  <2>1. UNCHANGED <<file, got, back, fin, reg, wbuffer, reply>> /\ (clash' <=> clash)
    BY <1>1 DEF svars
  <2>2. QED
    BY <1>1, <2>1, Demo3BytesSame DEF Demo3Inv
<1>9. \A f \in Fds : /\ f \in E => seen'[f] = N(f)
                     /\ f \notin E => seen'[f] = seen[f]
  BY <1>1
<1>10. Demo3Table'
  <2>1. \A f \in Fds : /\ reg'[f] # "none" <=> file'[f] # NoPeer
                       /\ file'[f] = NoPeer => seen'[f] = <<0, "no">>
    BY <1>1, <1>2, <1>9 DEF svars, Demo3Inv, Demo3Table
  <2>2. ASSUME NEW f \in Fds, file[f] # NoPeer
        PROVE  /\ seen'[f][1] <= sent[file[f]]
               /\ fin[file[f]] = "no" => seen'[f][2] = "no"
    <3>1. CASE f \in E
      <4>1. seen'[f][1] = sent[file[f]] /\ seen'[f][2] = fin[file[f]]
        BY <1>9, <3>1
      <4>2. sent[file[f]] \in Nat
        BY <1>3, <3>1 DEF Demo3Inv, KernelInv, SocketsType
      <4>3. QED
        BY <4>1, <4>2
    <3>2. CASE f \notin E
      BY <1>1, <1>9, <2>2, <3>2 DEF Demo3Inv, Demo3Table
    <3>3. QED
      BY <3>1, <3>2
  <2>3. UNCHANGED <<sent, file, fin>>
    BY <1>1 DEF svars
  <2>4. QED
    BY <2>1, <2>2, <2>3 DEF Demo3Table
<1>11. Demo3Edges'
  <2>1. ASSUME NEW f \in Fds, OpenFds # Fds, Waiting(f)'
        PROVE  Waiting(f) /\ seen'[f] = seen[f]
    BY <1>1, <1>9, <2>1 DEF svars, Waiting, Demo3Inv, Demo3Types
  <2>2. UNCHANGED <<sent, file, fin>>
    BY <1>1 DEF svars
  <2>3. QED
    BY <1>1, <1>6, <2>1, <2>2 DEF Demo3Inv, Demo3Edges
<1>12. QED
  BY <1>6, <1>7, <1>8, <1>10, <1>11 DEF Demo3Inv

\* A new connection waits for its first edge, of which nothing was seen.
LEMMA Demo3Accepts ==
    ASSUME Demo3Inv, Demo3!accept
    PROVE  Demo3Inv'
<1> USE Descriptors
<1>1. spc = "handle" /\ Demo3!Handled(Listen) /\ UNCHANGED <<seen, wbuffer, reply, clash>>
  BY Demo3Kernel DEF Demo3!accept
<1>2. PICK f \in Fds : Accepts(f) /\ reg' = [reg EXCEPT ![f] = "edge"]
  BY Demo3Kernel DEF Demo3!accept
<1>3. /\ KernelInv' /\ file[f] = NoPeer /\ file'[f] \in Peers /\ f \notin OpenFds
      /\ OpenFds' = OpenFds \cup {f} /\ \A g \in Fds \ {f} : file'[g] = file[g]
      /\ UNCHANGED <<sent, got, back, fin>>
  BY <1>2, AcceptsKeeps DEF Demo3Inv
<1>4. /\ events' = events \ {Listen} /\ events' \subseteq Sources
      /\ spc' \in {"epoll_wait", "handle"} /\ (spc' = "epoll_wait" => events' = {})
  BY <1>1, Demo3Handled DEF Demo3Inv
<1>5. /\ reg' \in [Fds -> {"none", "edge", "in", "out"}] /\ reg'[f] = "edge"
      /\ \A g \in Fds \ {f} : reg'[g] = reg[g]
  BY <1>2 DEF Demo3Inv, Demo3Types
<1>6. Demo3Types'
  BY <1>1, <1>3, <1>4, <1>5 DEF Demo3Inv, Demo3Types
<1>7. Demo3Bytes'
  <2>1. (clash' <=> clash) /\ UNCHANGED <<got, back, fin, wbuffer, reply>>
    BY <1>1, <1>3
  <2>2. \A g \in Fds : Owed(g)' => Owed(g) /\ file'[g] = file[g]
    BY <1>3, <1>5, <2>1 DEF Owed
  <2>3. Written' /\ Owing' /\ (~clash' => Front' /\ Leftovers')
    BY <2>1, <2>2 DEF Demo3Inv, Demo3Bytes, Written, Owing, Front, Leftovers
  <2>4. Settled'
    <3>1. Settled
      BY <1>1 DEF Demo3Inv, Demo3Bytes
    <3>2. ASSUME NEW q \in Peers, NEW g \in Fds, file[g] = q, reg[g] = "out"
          PROVE  file'[g] = q /\ reg'[g] = "out"
      BY <1>3, <1>5, <3>2
    <3>3. QED
      BY <2>1, <3>1, <3>2 DEF Settled
  <2>5. QED
    BY <2>3, <2>4 DEF Demo3Bytes
<1>8. seen[f] = <<0, "no">> /\ sent[file'[f]] \in Nat /\ got[file'[f]] \in Nat
  BY <1>1, <1>3 DEF Demo3Inv, Demo3Table, KernelInv, SocketsType
<1>9. Demo3Table'
  <2>1. ASSUME NEW g \in Fds \ {f}
        PROVE  /\ reg'[g] # "none" <=> file'[g] # NoPeer
               /\ file'[g] = NoPeer => seen'[g] = <<0, "no">>
               /\ file'[g] # NoPeer => /\ seen'[g][1] <= sent'[file'[g]]
                                       /\ fin'[file'[g]] = "no" => seen'[g][2] = "no"
    BY <1>1, <1>3, <1>5 DEF Demo3Inv, Demo3Table
  <2>2. /\ reg'[f] # "none" /\ file'[f] # NoPeer
        /\ seen'[f][1] <= sent'[file'[f]] /\ seen'[f][2] = "no"
    BY <1>1, <1>3, <1>5, <1>8
  <2>3. QED
    BY <2>1, <2>2 DEF Demo3Table
<1>10. Demo3Edges'
  <2>1. ASSUME OpenFds' # Fds, NEW g \in Fds \ {f}, Waiting(g)'
        PROVE  seen'[g] # <<sent'[file'[g]], fin'[file'[g]]>>
    <3>1. Waiting(g)
      BY <1>3, <1>4, <1>5, <2>1 DEF Waiting
    <3>2. OpenFds # Fds
      BY <1>3
    <3>3. seen[g] # <<sent[file[g]], fin[file[g]]>>
      BY <1>1, <3>1, <3>2 DEF Demo3Inv, Demo3Edges
    <3>4. QED
      BY <1>1, <1>3, <3>3
  <2>2. ASSUME Waiting(f)'
        PROVE  seen'[f] # <<sent'[file'[f]], fin'[file'[f]]>>
    <3>1. sent[file'[f]] > got[file'[f]]
      BY <1>3, <2>2 DEF Waiting
    <3>2. sent[file'[f]] # 0
      BY <1>8, <3>1
    <3>3. QED
      BY <1>1, <1>3, <1>8, <3>2
  <2>3. QED
    BY <2>1, <2>2 DEF Demo3Edges
<1>11. QED
  BY <1>3, <1>6, <1>7, <1>9, <1>10 DEF Demo3Inv

\* What a handler finds when it is called for f.
LEMMA Demo3Called ==
    ASSUME Demo3Inv, spc = "handle", NEW f \in Fds, reg[f] # "none"
    PROVE  file[f] \in Peers
  BY DEF Demo3Inv, Demo3Table, KernelInv, SocketsType

\* A handler that leaves the streams, and all registrations but that of f, alone keeps
\* the table; and the edges, if f does not wait for one in vain.
LEMMA Demo3Keeps ==
    ASSUME Demo3Inv, spc = "handle", NEW f \in Fds, Demo3!Handled(f), Calm,
           file[f] \in Peers, OnlyOf(file[f]), KernelInv',
           reg' \in [Fds -> {"none", "edge", "in", "out"}], reg'[f] # "none",
           \A g \in Fds \ {f} : reg'[g] = reg[g],
           seen' = seen,
           reg'[f] = "edge" => fin[file[f]] = "rst" \/ got[file[f]] = sent[file[f]],
           \A p \in Peers : got[p] <= got'[p]
    PROVE  Demo3Table' /\ Demo3Edges'
<1> USE Descriptors
<1>1. UNCHANGED <<file, sent, fin>> /\ OpenFds' = OpenFds /\ events' = events \ {f}
  BY Demo3Handled DEF Calm, OpenFds, Demo3Inv
<1>2. Demo3Table'
  <2>1. \A g \in Fds : reg'[g] # "none" <=> reg[g] # "none"
    BY DEF Demo3Inv, Demo3Table
  <2>2. QED
    BY <1>1, <2>1 DEF Demo3Inv, Demo3Table
<1>3. ASSUME OpenFds' # Fds, NEW g \in Fds, Waiting(g)'
      PROVE  seen'[g] # <<sent'[file'[g]], fin'[file'[g]]>>
  <2>1. /\ file[g] # NoPeer /\ reg'[g] = "edge" /\ g \notin events \ {f}
        /\ fin[file[g]] # "rst" /\ sent[file[g]] > got'[file[g]]
    BY <1>1, <1>3 DEF Waiting
  <2>2. /\ got[file[g]] \in Nat /\ got'[file[g]] \in Nat /\ sent[file[g]] \in Nat
        /\ got[file[g]] <= got'[file[g]]
    BY <2>1 DEF Demo3Inv, KernelInv, SocketsType
  <2>3. g # f
    BY <2>1, <2>2
  <2>4. Waiting(g)
    BY <2>1, <2>2, <2>3 DEF Waiting
  <2>5. QED
    BY <1>1, <1>3, <2>4 DEF Demo3Inv, Demo3Edges
<1>4. QED
  BY <1>2, <1>3 DEF Demo3Edges

\* recv() takes wbuffer for the connection.
LEMMA Demo3Receives ==
    ASSUME Demo3Inv, NEW f \in Fds, Demo3!recv_data(f)
    PROVE  Demo3Inv'
<1> USE Descriptors
<1>1. /\ spc = "handle" /\ reg[f] \in {"edge", "in"} /\ Demo3!Handled(f)
      /\ reg' = [reg EXCEPT ![f] = "out"] /\ UNCHANGED <<seen, reply>>
  BY DEF Demo3!recv_data
<1>2. PICK n \in 1..MaxSend :
         /\ Receives(file[f], n)
         /\ wbuffer' = [k \in 1..MaxSend |-> IF k <= n THEN file[f] ELSE wbuffer[k]]
  BY Demo3Kernel DEF Demo3!recv_data, Demo3!Buffer
<1>3. file[f] \in Peers
  BY <1>1, Demo3Called
<1>4. /\ KernelInv' /\ Calm /\ OnlyOf(file[f]) /\ back' = back
      /\ got'[file[f]] = got[file[f]] + n /\ \A q \in Peers : got[q] <= got'[q]
  BY <1>2, <1>3, ReceivesKeeps DEF Demo3Inv
<1>5. /\ reg' \in [Fds -> {"none", "edge", "in", "out"}] /\ reg'[f] = "out"
      /\ \A g \in Fds \ {f} : reg'[g] = reg[g]
  BY <1>1 DEF Demo3Inv, Demo3Types
<1>6. Demo3Table' /\ Demo3Edges'
  BY <1>1, <1>3, <1>4, <1>5, Demo3Keeps
<1>7. /\ events' \subseteq Sources /\ spc' \in {"epoll_wait", "handle"}
      /\ (spc' = "epoll_wait" => events' = {})
  BY <1>1, Demo3Handled DEF Demo3Inv
<1>8. \A q \in Peers : back'[q] <= got'[q]
  <2>1. \A q \in Peers : back[q] <= got[q] /\ back[q] \in Nat /\ got[q] \in Nat /\ got'[q] \in Nat
    BY <1>4 DEF Demo3Inv, Demo3Types, KernelInv, SocketsType
  <2>2. QED
    BY <1>4, <2>1
<1>9. Demo3Types'
  <2>1. wbuffer' \in [1..MaxSend -> Peers \cup {NoPeer}]
    BY <1>2, <1>3 DEF Demo3Inv, Demo3Types
  <2>2. QED
    BY <1>1, <1>5, <1>7, <1>8, <2>1 DEF Demo3Inv, Demo3Types
<1>10. ~clash' => ~clash /\ \A g \in Fds : reg[g] # "out"
  BY Demo3Kernel, Zenon DEF Demo3!recv_data
<1>11. Demo3Bytes'
  <2> DEFINE p == file[f]
  <2>1. UNCHANGED <<file, fin, back, reply>> /\ OpenFds' = OpenFds
    BY <1>1, <1>4 DEF Calm, OpenFds
  <2>2. /\ n \in Nat /\ n >= 1 /\ \A q \in Peers : got[q] \in Nat /\ got'[q] \in Nat /\ back[q] \in Nat
    BY <1>4 DEF Demo3Inv, KernelInv, SocketsType
  <2>3. \A g \in Fds : file[g] = p => g = f
    BY <1>3 DEF Demo3Inv, KernelInv, ConnInv
  <2>4. fin[p] = "rst" \/ got[p] = back[p]
    <3>1. Settled
      BY <1>1 DEF Demo3Inv, Demo3Bytes
    <3>2. QED
      BY <1>1, <1>3, <2>3, <3>1 DEF Settled
  <2>5. Written'
    <3>1. ASSUME NEW k \in 1..MaxSend, NEW q \in Peers, wbuffer'[k] = q
          PROVE  k <= got'[q]
      <4>1. CASE k <= n
        <5>1. q = p /\ k \in Nat
          BY <1>2, <3>1, <4>1
        <5>2. QED
          BY <1>4, <2>2, <4>1, <5>1
      <4>2. CASE ~(k <= n)
        <5>1. wbuffer[k] = q
          BY <1>2, <3>1, <4>2
        <5>2. k <= got[q] /\ got[q] <= got'[q]
          BY <1>4, <5>1 DEF Demo3Inv, Demo3Bytes, Written
        <5>3. QED
          BY <2>2, <5>2
      <4>3. QED
        BY <4>1, <4>2
    <3>2. QED
      BY <3>1 DEF Written
  <2>6. Owing'
    <3>1. ASSUME NEW g \in Fds, Owed(g)'
          PROVE  back[file[g]] < got'[file[g]]
      <4>1. file[g] \in Peers /\ fin[file[g]] # "rst"
        BY <2>1, <3>1 DEF Owed, OpenFds, Demo3Inv, KernelInv, SocketsType
      <4>2. CASE g = f
        BY <1>4, <2>2, <2>4, <4>1, <4>2
      <4>3. CASE g # f
        <5>1. Owed(g)
          BY <1>5, <2>1, <3>1, <4>3 DEF Owed
        <5>2. back[file[g]] < got[file[g]] /\ got[file[g]] <= got'[file[g]]
          BY <1>4, <4>1, <5>1 DEF Demo3Inv, Demo3Bytes, Owing
        <5>3. QED
          BY <2>2, <4>1, <5>2
      <4>4. QED
        BY <4>2, <4>3
    <3>2. QED
      BY <2>1, <3>1 DEF Owing
  <2>7. Settled'
    <3>1. Settled
      BY <1>1 DEF Demo3Inv, Demo3Bytes
    <3>2. ASSUME NEW q \in Peers, q # p
          PROVE  \/ fin[q] = "rst" \/ got'[q] = back[q]
                 \/ \E g \in Fds : file[g] = q /\ reg'[g] = "out"
      <4>1. got'[q] = got[q]
        BY <1>4, <3>2 DEF OnlyOf
      <4>2. ASSUME NEW g \in Fds, file[g] = q, reg[g] = "out"
            PROVE  reg'[g] = "out"
        BY <1>5, <3>2, <4>2
      <4>3. QED
        BY <3>1, <4>1, <4>2 DEF Settled
    <3>3. \E g \in Fds : file[g] = p /\ reg'[g] = "out"
      BY <1>5
    <3>4. QED
      BY <2>1, <3>2, <3>3 DEF Settled
  <2>8. ASSUME ~clash'
        PROVE  Front' /\ Leftovers'
    <3>1. ASSUME NEW g \in Fds, Owed(g)'
          PROVE  \A k \in 1..(got'[file[g]] - back[file[g]]) : wbuffer'[k] = file[g]
      <4>1. g = f /\ fin[p] # "rst"
        BY <1>5, <1>10, <2>1, <2>8, <3>1 DEF Owed
      <4>2. got'[p] - back[p] = n
        BY <1>3, <1>4, <2>2, <2>4, <4>1
      <4>3. \A k \in 1..n : k \in 1..MaxSend /\ k <= n
        OBVIOUS
      <4>4. \A k \in 1..n : wbuffer'[k] = p
        BY <1>2, <4>3
      <4>5. QED
        BY <4>1, <4>2, <4>4
    <3>2. Front'
      BY <2>1, <3>1 DEF Front
    <3>3. Leftovers'
      <4>1. Leftovers
        BY <1>10, <2>8 DEF Demo3Inv, Demo3Bytes
      <4>2. ASSUME NEW q \in Peers, got[q] >= 2
            PROVE  got'[q] >= 2
        BY <1>4, <2>2, <4>2
      <4>3. \A q \in Peers : reply[q] \subseteq Peers \cup {NoPeer}
        BY DEF Demo3Inv, Demo3Types
      <4>4. QED
        BY <2>1, <4>1, <4>2, <4>3 DEF Leftovers
    <3>4. QED
      BY <3>2, <3>3
  <2>9. QED
    BY <2>5, <2>6, <2>7, <2>8 DEF Demo3Bytes
<1>12. QED
  BY <1>4, <1>6, <1>9, <1>11 DEF Demo3Inv

\* The end of a stream changes nothing, but that the error was reported.
LEMMA Demo3Ends ==
    ASSUME Demo3Inv, NEW f \in Fds, Demo3!recv_end(f)
    PROVE  Demo3Inv'
<1> USE Descriptors
<1>1. /\ spc = "handle" /\ reg[f] \in {"edge", "in"} /\ Demo3!Handled(f) /\ Ended(file[f])
      /\ UNCHANGED <<reg, seen, wbuffer, reply, clash>>
  BY Demo3Kernel DEF Demo3!recv_end
<1>2. UNCHANGED svars \/ Reports(file[f])
  BY Demo3Kernel DEF Demo3!recv_end, Demo3!svars, svars
<1>3. file[f] \in Peers
  BY <1>1, Demo3Called
<1>4. KernelInv' /\ Calm /\ OnlyOf(file[f]) /\ UNCHANGED <<got, back>>
  <2>1. CASE UNCHANGED svars
    BY <2>1 DEF svars, Demo3Inv, KernelInv, SocketsType, ConnInv, QueueInv, Calm, OnlyOf
  <2>2. CASE Reports(file[f])
    BY <1>3, <2>2, ReportsKeeps DEF Demo3Inv
  <2>3. QED
    BY <1>2, <2>1, <2>2
<1>5. fin[file[f]] = "rst" \/ got[file[f]] = sent[file[f]]
  BY <1>1 DEF Ended
<1>6. \A p \in Peers : got[p] <= got'[p]
  BY <1>4 DEF Demo3Inv, KernelInv, SocketsType
<1>7. Demo3Table' /\ Demo3Edges'
  <2>1. reg' \in [Fds -> {"none", "edge", "in", "out"}] /\ reg'[f] # "none"
    BY <1>1 DEF Demo3Inv, Demo3Types
  <2>2. \A g \in Fds \ {f} : reg'[g] = reg[g]
    BY <1>1
  <2>3. QED
    BY <1>1, <1>3, <1>4, <1>5, <1>6, <2>1, <2>2, Demo3Keeps
<1>8. /\ events' \subseteq Sources /\ spc' \in {"epoll_wait", "handle"}
      /\ (spc' = "epoll_wait" => events' = {})
  BY <1>1, Demo3Handled DEF Demo3Inv
<1>9. Demo3Types'
  BY <1>1, <1>4, <1>8 DEF Demo3Inv, Demo3Types
<1>10. Demo3Bytes'
  <2>1. UNCHANGED <<file, got, back, fin, reg, wbuffer, reply>> /\ (clash' <=> clash)
    BY <1>1, <1>4 DEF Calm
  <2>2. QED
    BY <1>1, <2>1, Demo3BytesSame DEF Demo3Inv
<1>11. QED
  BY <1>4, <1>7, <1>9, <1>10 DEF Demo3Inv

\* A write to a connection that was not reset succeeds.
LEMMA SendsCount ==
    ASSUME KernelInv, NEW p \in Peers, NEW n \in Nat, Sends(p, n), fin[p] # "rst"
    PROVE  back'[p] = back[p] + n
<1>1. back' = [back EXCEPT ![p] = @ + n]
  BY DEF Sends
<1>2. QED
  BY <1>1 DEF KernelInv, SocketsType

\* send() gives the peer what stands in wbuffer.
LEMMA Demo3Sends ==
    ASSUME Demo3Inv, NEW f \in Fds, Demo3!send_reply(f)
    PROVE  Demo3Inv'
<1> USE Descriptors
<1> DEFINE p == file[f]
           D == {wbuffer[k] : k \in {j \in 1..MaxSend : fin[p] # "rst"}}
<1>1. /\ spc = "handle" /\ reg[f] = "out" /\ Demo3!Handled(f) /\ Sends(p, got[p] - back[p])
      /\ reply' = [reply EXCEPT ![p] = @ \cup D]
      /\ reg' = [reg EXCEPT ![f] = "in"] /\ UNCHANGED <<seen, wbuffer, clash>>
  BY Demo3Kernel DEF Demo3!send_reply, Demo3!Delivered, Demo3!Buffer
<1>2. p \in Peers
  BY <1>1, Demo3Called
<1>3. got[p] - back[p] \in Nat
  BY <1>2 DEF Demo3Inv, Demo3Types, KernelInv, SocketsType
<1>4. /\ KernelInv' /\ Calm /\ OnlyOf(p) /\ got' = got
      /\ back'[p] \in {back[p], back[p] + (got[p] - back[p])}
  BY <1>1, <1>2, <1>3, SendsKeeps DEF Demo3Inv
<1>5. /\ reg' \in [Fds -> {"none", "edge", "in", "out"}] /\ reg'[f] = "in"
      /\ \A g \in Fds \ {f} : reg'[g] = reg[g]
  BY <1>1 DEF Demo3Inv, Demo3Types
<1>6. \A q \in Peers : got[q] <= got'[q]
  BY <1>4 DEF Demo3Inv, KernelInv, SocketsType
<1>7. Demo3Table' /\ Demo3Edges'
  BY <1>1, <1>2, <1>4, <1>5, <1>6, Demo3Keeps
<1>8. /\ events' \subseteq Sources /\ spc' \in {"epoll_wait", "handle"}
      /\ (spc' = "epoll_wait" => events' = {})
  BY <1>1, Demo3Handled DEF Demo3Inv
<1>9. \A q \in Peers : back'[q] <= got'[q]
  <2>1. back'[p] <= got'[p]
    BY <1>2, <1>4 DEF Demo3Inv, Demo3Types, KernelInv, SocketsType
  <2>2. \A q \in Peers \ {p} : back'[q] <= got'[q]
    BY <1>4 DEF OnlyOf, Demo3Inv, Demo3Types
  <2>3. QED
    BY <2>1, <2>2
<1>10. /\ reply' \in [Peers -> SUBSET (Peers \cup {NoPeer})]
       /\ reply'[p] = reply[p] \cup D /\ \A q \in Peers \ {p} : reply'[q] = reply[q]
  <2>1. D \subseteq Peers \cup {NoPeer}
    BY DEF Demo3Inv, Demo3Types
  <2> HIDE DEF D
  <2>2. QED
    BY <1>1, <1>2, <2>1 DEF Demo3Inv, Demo3Types
<1>11. Demo3Types'
  BY <1>1, <1>5, <1>8, <1>9, <1>10 DEF Demo3Inv, Demo3Types
<1>12. Demo3Bytes'
  <2>1. /\ UNCHANGED <<file, fin, got, wbuffer>> /\ OpenFds' = OpenFds /\ (clash' <=> clash)
        /\ spc' # "exit"
    BY <1>1, <1>4, <1>8 DEF Calm, OpenFds
  <2>2. \A q \in Peers : got[q] \in Nat /\ back[q] \in Nat
    BY DEF Demo3Inv, KernelInv, SocketsType
  <2>3. \A g \in Fds : file[g] = p => g = f
    BY <1>2 DEF Demo3Inv, KernelInv, ConnInv
  <2>4. ASSUME NEW g \in Fds, Owed(g)'
        PROVE  Owed(g) /\ file[g] \in Peers \ {p} /\ back'[file[g]] = back[file[g]]
    <3>1. Owed(g) /\ g # f
      BY <1>5, <2>1, <2>4 DEF Owed
    <3>2. file[g] \in Peers \ {p}
      BY <2>3, <3>1 DEF Owed, OpenFds, Demo3Inv, KernelInv, SocketsType
    <3>3. QED
      BY <1>4, <3>1, <3>2 DEF OnlyOf
  <2>5. Written' /\ Owing'
    BY <2>1, <2>4 DEF Demo3Inv, Demo3Bytes, Written, Owing
  <2>6. Settled'
    <3>1. Settled
      BY <1>1 DEF Demo3Inv, Demo3Bytes
    <3>2. fin[p] = "rst" \/ got[p] = back'[p]
      <4>1. ASSUME fin[p] # "rst"
            PROVE  back'[p] = back[p] + (got[p] - back[p])
        BY <1>1, <1>2, <1>3, <4>1, SendsCount DEF Demo3Inv
      <4>2. QED
        BY <1>2, <2>2, <4>1
    <3>3. ASSUME NEW q \in Peers, q # p
          PROVE  \/ fin[q] = "rst" \/ got[q] = back'[q]
                 \/ \E g \in Fds : file[g] = q /\ reg'[g] = "out"
      <4>1. back'[q] = back[q]
        BY <1>4, <3>3 DEF OnlyOf
      <4>2. ASSUME NEW g \in Fds, file[g] = q, reg[g] = "out"
            PROVE  reg'[g] = "out"
        BY <1>5, <3>3, <4>2
      <4>3. QED
        BY <3>1, <4>1, <4>2 DEF Settled
    <3>4. QED
      BY <2>1, <3>2, <3>3 DEF Settled
  <2>7. ASSUME ~clash'
        PROVE  Front' /\ Leftovers'
    <3>1. Front /\ Leftovers
      BY <2>1, <2>7 DEF Demo3Inv, Demo3Bytes
    <3>2. Front'
      BY <2>1, <2>4, <3>1 DEF Front
    <3>3. ASSUME NEW q \in D \ {p, NoPeer}
          PROVE  got[q] >= 2
      <4>1. PICK k \in 1..MaxSend : wbuffer[k] = q /\ fin[p] # "rst"
        BY <3>3
      <4>2. q \in Peers
        BY <3>3, <4>1 DEF Demo3Inv, Demo3Types
      <4>3. k <= got[q]
        BY <4>1, <4>2 DEF Demo3Inv, Demo3Bytes, Written
      <4>4. Owed(f)
        BY <1>1, <1>2, <4>1 DEF Owed, OpenFds
      <4>5. 1 \in 1..(got[p] - back[p])
        BY <1>2, <2>2, <4>4 DEF Demo3Inv, Demo3Bytes, Owing
      <4>6. wbuffer[1] = p
        BY <3>1, <4>4, <4>5 DEF Front
      <4>7. k # 1
        BY <3>3, <4>1, <4>6
      <4>8. QED
        BY <2>2, <4>2, <4>3, <4>7
    <3>4. Leftovers'
      <4> HIDE DEF D
      <4>1. QED
        BY <1>10, <2>1, <3>1, <3>3 DEF Leftovers
    <3>5. QED
      BY <3>2, <3>4
  <2>8. QED
    BY <2>1, <2>5, <2>6, <2>7 DEF Demo3Bytes
<1>13. QED
  BY <1>4, <1>7, <1>11, <1>12 DEF Demo3Inv

\* A peer only adds news.
LEMMA Demo3Peers ==
    ASSUME Demo3Inv, PeerStep
    PROVE  Demo3Inv'
<1>1. PICK p \in Peers : Peer(p) /\ UNCHANGED <<reg, seen, events, wbuffer, reply, clash, spc>>
  BY DEF PeerStep, ctxvars, demo3vars
<1>2. /\ KernelInv' /\ UNCHANGED <<file, got, back>> /\ OpenFds' = OpenFds
      /\ \A q \in Peers : sent[q] <= sent'[q]
  BY <1>1, PeerKeeps DEF Demo3Inv
<1>3. \A q \in Peers : /\ fin'[q] = "no" => fin[q] = "no"
                       /\ fin[q] = "rst" => fin'[q] = "rst"
                       /\ \/ sent'[q] = sent[q] /\ fin'[q] = fin[q]
                          \/ sent'[q] > sent[q]
                          \/ fin[q] = "no" /\ fin'[q] # "no"
                          \/ fin'[q] = "rst"
  BY <1>1, PeerNews DEF Demo3Inv
<1>4. Demo3Types'
  BY <1>1, <1>2 DEF Demo3Inv, Demo3Types
<1>5. Demo3Bytes'
  <2>1. UNCHANGED <<file, got, back, reg, wbuffer, reply, spc>> /\ (clash' <=> clash)
    BY <1>1, <1>2
  <2>2. ASSUME NEW f \in Fds, Owed(f)'
        PROVE  Owed(f)
    <3>1. f \in OpenFds /\ file[f] \in Peers /\ reg[f] = "out" /\ fin'[file[f]] # "rst"
      BY <1>2, <2>1, <2>2 DEF Owed, OpenFds, Demo3Inv, KernelInv, SocketsType
    <3>2. QED
      BY <1>3, <3>1 DEF Owed
  <2>3. Written' /\ Owing' /\ (~clash' => Front' /\ Leftovers')
    BY <2>1, <2>2 DEF Demo3Inv, Demo3Bytes, Written, Owing, Front, Leftovers
  <2>4. spc' # "exit" => Settled'
    BY <1>3, <2>1 DEF Demo3Inv, Demo3Bytes, Settled
  <2>5. QED
    BY <2>3, <2>4 DEF Demo3Bytes
<1>6. ASSUME spc # "exit"
      PROVE  Demo3Table'
  <2>1. ASSUME NEW f \in Fds, file[f] # NoPeer
        PROVE  /\ seen[f][1] <= sent'[file[f]]
               /\ fin'[file[f]] = "no" => seen[f][2] = "no"
    <3>1. file[f] \in Peers /\ seen[f][1] \in Nat
      BY <2>1 DEF Demo3Inv, Demo3Types, KernelInv, SocketsType
    <3>2. sent[file[f]] \in Nat /\ sent'[file[f]] \in Nat /\ sent[file[f]] <= sent'[file[f]]
      BY <1>2, <3>1 DEF Demo3Inv, KernelInv, SocketsType
    <3>3. seen[f][1] <= sent[file[f]] /\ (fin[file[f]] = "no" => seen[f][2] = "no")
      BY <1>6, <2>1 DEF Demo3Inv, Demo3Table
    <3>4. QED
      BY <1>3, <3>1, <3>2, <3>3
  <2>2. QED
    BY <1>1, <1>2, <1>6, <2>1 DEF Demo3Inv, Demo3Table
<1>7. ASSUME spc # "exit"
      PROVE  Demo3Edges'
  <2>1. ASSUME OpenFds # Fds, NEW f \in Fds, Waiting(f)'
        PROVE  seen[f] # <<sent'[file[f]], fin'[file[f]]>>
    <3>1. /\ file[f] \in Peers /\ reg[f] = "edge" /\ f \notin events
          /\ fin'[file[f]] # "rst" /\ sent'[file[f]] > got[file[f]]
      BY <1>1, <1>2, <2>1 DEF Waiting, Demo3Inv, KernelInv, SocketsType
    <3>2. /\ seen[f][1] \in Nat /\ sent[file[f]] \in Nat /\ sent'[file[f]] \in Nat
          /\ seen[f][1] <= sent[file[f]] /\ (fin[file[f]] = "no" => seen[f][2] = "no")
      <4>1. /\ seen \in [Fds -> (0..MaxSend) \X {"no", "fin", "rst"}]
            /\ sent \in [Peers -> 0..MaxSend] /\ sent' \in [Peers -> 0..MaxSend]
        BY <1>2 DEF Demo3Inv, Demo3Types, KernelInv, SocketsType
      <4>2. seen[f][1] \in Nat /\ sent[file[f]] \in Nat /\ sent'[file[f]] \in Nat
        BY <3>1, <4>1, Descriptors
      <4>3. seen[f][1] <= sent[file[f]] /\ (fin[file[f]] = "no" => seen[f][2] = "no")
        BY <1>7, <3>1, Descriptors DEF Demo3Inv, Demo3Table
      <4>4. QED
        BY <4>2, <4>3
    <3>3. CASE sent'[file[f]] > sent[file[f]]
      <4>1. seen[f][1] # sent'[file[f]]
        BY <3>2, <3>3
      <4>2. QED
        BY <4>1
    <3>4. CASE fin[file[f]] = "no" /\ fin'[file[f]] # "no"
      <4>1. seen[f][2] # fin'[file[f]]
        BY <3>2, <3>4
      <4>2. QED
        BY <4>1
    <3>5. CASE sent'[file[f]] = sent[file[f]] /\ fin'[file[f]] = fin[file[f]]
      <4>1. Waiting(f)
        BY <3>1, <3>5, Descriptors DEF Waiting
      <4>2. QED
        BY <1>7, <2>1, <3>5, <4>1 DEF Demo3Inv, Demo3Edges
    <3>6. QED
      BY <1>3, <3>1, <3>3, <3>4, <3>5
  <2>2. QED
    BY <1>1, <1>2, <2>1 DEF Demo3Edges
<1>8. QED
  BY <1>1, <1>2, <1>4, <1>5, <1>6, <1>7 DEF Demo3Inv

\* The invariant of demo3 holds.
LEMMA Demo3Inductive == Spec => [](kind = "demo3" => Demo3Inv)
<1> DEFINE I == kind = "demo3" => Demo3Inv
<1>1. Init => I
  <2>1. ASSUME Demo3!Init
        PROVE  Demo3Inv
    <3>1. KernelInv /\ OpenFds = {} /\ \A p \in Peers : back[p] = 0 /\ got[p] = 0
      BY <2>1, Demo3Kernel, KernelInit DEF Demo3!Init
    <3>2. /\ reg = [f \in Fds |-> "none"] /\ seen = [f \in Fds |-> <<0, "no">>] /\ events = {}
          /\ wbuffer = [k \in 1..MaxSend |-> NoPeer] /\ reply = [p \in Peers |-> {}]
          /\ spc = "epoll_wait"
      BY <2>1, Demo3Kernel DEF Demo3!Init, Demo3!Buffer
    <3>3. Demo3Types
      BY <3>1, <3>2, Descriptors DEF Demo3Types
    <3>4. Demo3Table /\ Demo3Edges
      BY <3>1, <3>2 DEF Demo3Table, Demo3Edges, Waiting, OpenFds
    <3>5. Demo3Bytes
      <4>1. Written /\ Owing /\ Settled
        BY <3>1, <3>2, Descriptors DEF Written, Owing, Owed, Settled
      <4>2. Front /\ Leftovers
        BY <3>1, <3>2 DEF Front, Leftovers, Owed
      <4>3. QED
        BY <4>1, <4>2 DEF Demo3Bytes
    <3>6. QED
      BY <3>1, <3>3, <3>4, <3>5 DEF Demo3Inv
  <2>2. QED
    BY <2>1 DEF Init
<1>2. I /\ [Next]_vars => I'
  <2>1. ASSUME Demo3Inv, UNCHANGED vars
        PROVE  Demo3Inv'
    <3>1. UNCHANGED <<svars, reg, seen, events, wbuffer, reply, clash, spc>>
      BY <2>1 DEF vars, ctxvars, demo3vars
    <3>2. Demo3Bytes'
      BY <2>1, <3>1, Demo3BytesSame DEF svars, Demo3Inv
    <3>3. KernelInv' /\ Demo3Types' /\ (spc' # "exit" => Demo3Table' /\ Demo3Edges')
      BY <2>1, <3>1 DEF svars, Demo3Inv, Demo3Types, Demo3Table, Demo3Edges, Waiting,
                        KernelInv, SocketsType, ConnInv, QueueInv, OpenFds
    <3>4. QED
      BY <3>2, <3>3 DEF Demo3Inv
  <2>2. ASSUME Demo3Inv, Demo3!Server
        PROVE  Demo3Inv'
    <3>1. CASE Demo3!accept_break
      <4>1. /\ spc = "handle" /\ OpenFds = Fds /\ events' = {} /\ spc' = "epoll_wait"
            /\ UNCHANGED <<svars, reg, seen, wbuffer, reply, clash>>
        BY <3>1, Demo3Kernel DEF Demo3!accept_break, AcceptFails, Demo3!svars, svars
      <4>2. OpenFds' = Fds /\ (clash' <=> clash)
        BY <4>1 DEF OpenFds, svars
      <4>3. KernelInv' /\ Demo3Types' /\ Demo3Table' /\ Demo3Edges'
        BY <2>2, <4>1, <4>2 DEF svars, Demo3Inv, Demo3Types, Demo3Table, Demo3Edges,
                                KernelInv, SocketsType, ConnInv, QueueInv
      <4>4. Demo3Bytes'
        BY <2>2, <4>1, <4>2, Demo3BytesSame DEF svars, Demo3Inv
      <4>5. QED
        BY <4>3, <4>4 DEF Demo3Inv
    <3>2. ASSUME NEW f \in Fds, Demo3!send_sigpipe(f)
          PROVE  Demo3Inv'
      <4>1. /\ Exits /\ events' = {} /\ spc' = "exit"
            /\ UNCHANGED <<reg, seen, wbuffer, reply, clash>>
        BY <3>2, Demo3Kernel DEF Demo3!send_sigpipe
      <4>2. KernelInv' /\ OpenFds' = {} /\ UNCHANGED <<got, back>> /\ (clash' <=> clash)
        BY <2>2, <4>1, ExitsKeeps DEF Demo3Inv
      <4>3. Demo3Bytes'
        BY <2>2, <4>1, <4>2 DEF Demo3Inv, Demo3Bytes, Written, Owing, Owed, Front, Leftovers
      <4>4. QED
        BY <2>2, <4>1, <4>2, <4>3 DEF Demo3Inv, Demo3Types
    <3>3. QED
      BY <2>2, <3>1, <3>2, Demo3Waits, Demo3Accepts, Demo3Receives, Demo3Ends, Demo3Sends, Demo3Kernel
      DEF Demo3!Server
  <2>3. QED
    BY <2>1, <2>2, Demo3Peers, OneServer
<1>3. QED
  BY <1>1, <1>2, PTL DEF Spec
=============================================================================
