-------------------------- MODULE EchoServersProofs --------------------------
(***************************************************************************)
(* The servers with shared buffers, with threads and with processes; and   *)
(* what holds of all the servers together.                                 *)
(***************************************************************************)
EXTENDS EventProofs

-----------------------------------------------------------------------------
(* demo2: select() and one buffer *)

\* What this server takes from the kernel is what every server takes.
LEMMA Demo2Kernel ==
    /\ Demo2!Fds = Fds /\ Demo2!Listen = Listen /\ Demo2!OpenFds = OpenFds
    /\ (Demo2!SocketsInit <=> SocketsInit) /\ (Demo2!SocketsType <=> SocketsType)
    /\ (Demo2!AcceptFails <=> AcceptFails) /\ (Demo2!Exits <=> Exits)
    /\ \A f : (Demo2!Accepts(f) <=> Accepts(f)) /\ (Demo2!Readable(f) <=> Readable(f))
    /\ \A f : (Demo2!Closes(f) <=> Closes(f)) /\ (Demo2!Reports(f) <=> Reports(f))
    /\ \A p, n : (Demo2!Receives(p, n) <=> Receives(p, n)) /\ (Demo2!Sends(p, n) <=> Sends(p, n))
  BY DEF Demo2!Fds, Demo2!Listen, Demo2!OpenFds, Demo2!SocketsInit, Demo2!SocketsType,
    Demo2!AcceptFails, Demo2!Exits, Demo2!Accepts, Demo2!Readable, Demo2!Reports, Demo2!Closes,
    Demo2!Receives, Demo2!Sends, Demo2!HasData, Demo2!Broken,
    Fds, Listen, OpenFds, SocketsInit, SocketsType, AcceptFails, Exits, Accepts, Closes,
    Readable, Reports, Receives, Sends, HasData, Broken

\* Each variable in its domain; only data makes the server wait to write.
Demo2Types ==
    /\ rfds_in \subseteq Sources /\ wfds_in \subseteq Fds
    /\ rfds_out \subseteq Sources /\ wfds_out \subseteq Fds
    /\ lastfd \in Sources /\ cur_fd \in Sources
    /\ buffer \in Peers \cup {NoPeer} /\ ret \in -1..MaxSend
    /\ reply \in [Peers -> SUBSET (Peers \cup {NoPeer})]
    /\ spc \in {"select", "accept", "scan", "exit"}
    /\ wfds_in # {} \/ wfds_out # {} => MaxSend >= 1

\* What is open is watched.
Demo2Watch ==
    /\ Listen \in rfds_in
    /\ \A f \in Fds : file[f] # NoPeer => f \in rfds_in /\ f <= lastfd

\* Until two connections need it, the buffer belongs to the one that waits to write, and
\* the scan writes to no other.
Demo2Bytes ==
    ~clash =>
        /\ \A p \in Peers : reply[p] \subseteq {p}
        /\ spc # "exit" => \A f \in wfds_in : file[f] \in Peers /\ file[f] = buffer
        /\ spc \in {"accept", "scan"} => \A f \in wfds_out : f > cur_fd => f \in wfds_in

Demo2Inv == KernelInv /\ Demo2Types /\ Demo2Bytes /\ (spc # "exit" => Demo2Watch)

\* select() reports what is ready, or everything.
LEMMA Demo2Selects ==
    ASSUME Demo2Inv, Demo2!select
    PROVE  Demo2Inv'
<1>1. /\ spc = "select" /\ cur_fd' = Listen /\ wfds_out' = wfds_in
      /\ spc' = IF Listen \in rfds_out' THEN "accept" ELSE "scan"
      /\ UNCHANGED <<svars, buffer, ret, reply, clash, rfds_in, wfds_in, lastfd>>
  BY Demo2Kernel DEF Demo2!select, Demo2!svars, svars, Demo2!datavars
<1>2. rfds_out' \subseteq rfds_in
  BY DEF Demo2!select
<1>3. KernelInv' /\ (clash' <=> clash) /\ spc' \in {"accept", "scan"} /\ file' = file
  BY <1>1 DEF svars, Demo2Inv, KernelInv, SocketsType, ConnInv, QueueInv
<1>4. Demo2Types'
  BY <1>1, <1>2, <1>3 DEF Demo2Inv, Demo2Types, Sources
<1>5. Demo2Bytes' /\ Demo2Watch'
  BY <1>1, <1>3 DEF Demo2Inv, Demo2Bytes, Demo2Watch
<1>6. QED
  BY <1>3, <1>4, <1>5 DEF Demo2Inv

\* accept() watches the new connection.
LEMMA Demo2Accepts ==
    ASSUME Demo2Inv, Demo2!accept
    PROVE  Demo2Inv'
<1> USE Descriptors
<1>1. /\ spc = "accept" /\ spc' = "scan"
      /\ UNCHANGED <<wfds_in, rfds_out, wfds_out, buffer, ret, reply, clash, cur_fd>>
  BY DEF Demo2!accept, Demo2!datavars
<1>2. PICK f \in Fds : /\ Accepts(f) /\ rfds_in' = rfds_in \cup {f}
                       /\ lastfd' = IF f > lastfd THEN f ELSE lastfd
  BY Demo2Kernel DEF Demo2!accept
<1>3. /\ KernelInv' /\ file[f] = NoPeer /\ \A g \in Fds \ {f} : file'[g] = file[g]
  BY <1>2, AcceptsKeeps DEF Demo2Inv
<1>4. lastfd' \in Sources /\ f <= lastfd' /\ \A g \in Fds : g <= lastfd => g <= lastfd'
  BY <1>2 DEF Demo2Inv, Demo2Types, Sources
<1>5. Demo2Types'
  BY <1>1, <1>2, <1>4 DEF Demo2Inv, Demo2Types, Sources
<1>6. Demo2Watch'
  BY <1>1, <1>2, <1>3, <1>4 DEF Demo2Inv, Demo2Watch
<1>7. Demo2Bytes'
  <2>1. clash' <=> clash
    BY <1>1
  <2>2. ~clash => \A g \in wfds_in : g # f /\ g \in Fds
    BY <1>1, <1>3 DEF Demo2Inv, Demo2Bytes, Demo2Types
  <2>3. QED
    BY <1>1, <1>3, <2>1, <2>2 DEF Demo2Inv, Demo2Bytes
<1>8. QED
  BY <1>3, <1>5, <1>6, <1>7 DEF Demo2Inv

\* Where the scan is.
LEMMA Demo2Next ==
    ASSUME Demo2Inv, NEW f \in Fds, Demo2!IsNext(f)
    PROVE  /\ spc = "scan" /\ f > cur_fd /\ cur_fd \in Nat
           /\ f \notin rfds_out => f \in wfds_out
  BY Descriptors DEF Demo2!IsNext, Demo2!Due, Demo2Inv, Demo2Types, Sources

\* recv() takes the buffer for the connection.
LEMMA Demo2Receives ==
    ASSUME Demo2Inv, NEW f \in Fds, Demo2!recv_data(f)
    PROVE  Demo2Inv'
<1> USE Descriptors
<1>1. /\ Demo2!IsNext(f) /\ buffer' = file[f] /\ wfds_in' = wfds_in \cup {f}
      /\ cur_fd' = f /\ spc' = "scan" /\ UNCHANGED <<rfds_in, rfds_out, wfds_out, lastfd, reply>>
  BY DEF Demo2!recv_data, Demo2!Scanned
<1>2. PICK n \in 1..MaxSend : Receives(file[f], n) /\ ret' = n
  BY Demo2Kernel DEF Demo2!recv_data
<1>3. file[f] \in Peers /\ spc = "scan" /\ f > cur_fd /\ cur_fd \in Nat
  BY <1>1, Demo2Next DEF Demo2!recv_data, Demo2Inv, KernelInv, SocketsType
<1>4. KernelInv' /\ Calm
  BY <1>2, <1>3, ReceivesKeeps DEF Demo2Inv
<1>5. ~clash' => ~clash /\ wfds_in \ {f} = {}
  BY Zenon DEF Demo2!recv_data
<1>6. file' = file
  BY <1>4 DEF Calm
<1>7. Demo2Types'
  BY <1>1, <1>2, <1>3 DEF Demo2Inv, Demo2Types, Sources
<1>8. Demo2Watch'
  BY <1>1, <1>3, <1>6 DEF Demo2Inv, Demo2Watch
<1>9. Demo2Bytes'
  <2>1. ASSUME ~clash'
        PROVE  wfds_in' = {f} /\ \A g \in wfds_out : ~(g > f)
    <3>1. ~clash /\ wfds_in \subseteq {f}
      BY <1>5, <2>1
    <3>2. ASSUME NEW g \in wfds_out, g > f
          PROVE  FALSE
      <4>1. g > cur_fd
        BY <1>3, <3>2 DEF Demo2Inv, Demo2Types
      <4>2. g \in wfds_in
        BY <1>3, <3>1, <4>1 DEF Demo2Inv, Demo2Bytes
      <4>3. QED
        BY <3>1, <3>2, <4>2
    <3>3. QED
      BY <1>1, <3>1, <3>2
  <2>2. QED
    BY <1>1, <1>3, <1>5, <1>6, <2>1 DEF Demo2Inv, Demo2Bytes
<1>10. QED
  BY <1>4, <1>7, <1>8, <1>9 DEF Demo2Inv

\* The end of a stream, or an error, uses the buffer up.
LEMMA Demo2Ends ==
    ASSUME Demo2Inv, NEW f \in Fds, Demo2!recv_eof(f) \/ Demo2!recv_error(f)
    PROVE  Demo2Inv'
<1> USE Descriptors
<1>1. /\ Demo2!IsNext(f) /\ cur_fd' = f /\ spc' = "scan" /\ ret' \in {-1, 0}
      /\ UNCHANGED <<wfds_in, rfds_out, wfds_out, lastfd, buffer, reply>>
  BY DEF Demo2!recv_eof, Demo2!recv_error, Demo2!Scanned, Demo2!setvars
<1>2. spc = "scan" /\ f > cur_fd /\ cur_fd \in Nat
  BY <1>1, Demo2Next
<1>3. ~clash' => ~clash /\ wfds_in = {}
  BY Zenon DEF Demo2!recv_eof, Demo2!recv_error
<1>4. /\ KernelInv' /\ rfds_in \ {f} \subseteq rfds_in' /\ rfds_in' \subseteq rfds_in
      /\ \A g \in Fds : file'[g] # NoPeer => file[g] # NoPeer /\ g \in rfds_in'
  <2>1. CASE Demo2!recv_eof(f)
    <3>1. Closes(f) /\ rfds_in' = rfds_in \ {f}
      BY <2>1, Demo2Kernel DEF Demo2!recv_eof
    <3>2. KernelInv' /\ file'[f] = NoPeer /\ \A g \in Fds \ {f} : file'[g] = file[g]
      BY <3>1, ClosesKeeps DEF Demo2Inv
    <3>3. QED
      BY <1>2, <3>1, <3>2 DEF Demo2Inv, Demo2Watch
  <2>2. CASE Demo2!recv_error(f)
    <3>1. rfds_in' = rfds_in /\ (UNCHANGED svars \/ (file[f] # NoPeer /\ Reports(file[f])))
      <4>1. rfds_in' = rfds_in
        BY <2>2 DEF Demo2!recv_error, Demo2!setvars
      <4>2. CASE file[f] = NoPeer
        BY <2>2, <4>1, <4>2 DEF Demo2!recv_error, Demo2!svars, svars
      <4>3. CASE file[f] # NoPeer
        BY <2>2, <4>1, <4>3, Demo2Kernel DEF Demo2!recv_error
      <4>4. QED
        BY <4>2, <4>3
    <3>2. KernelInv' /\ file' = file
      <4>1. CASE UNCHANGED svars
        BY <4>1 DEF svars, Demo2Inv, KernelInv, SocketsType, ConnInv, QueueInv
      <4>2. CASE file[f] # NoPeer /\ Reports(file[f])
        <5>1. file[f] \in Peers
          BY <4>2 DEF Demo2Inv, KernelInv, SocketsType
        <5>2. QED
          BY <4>2, <5>1, ReportsKeeps DEF Demo2Inv, Calm
      <4>3. QED
        BY <3>1, <4>1, <4>2
    <3>3. QED
      BY <1>2, <3>1, <3>2 DEF Demo2Inv, Demo2Watch
  <2>3. QED
    BY <2>1, <2>2
<1>5. Demo2Types'
  BY <1>1, <1>4 DEF Demo2Inv, Demo2Types, Sources
<1>6. Demo2Watch'
  BY <1>1, <1>2, <1>4 DEF Demo2Inv, Demo2Watch
<1>7. Demo2Bytes'
  <2>1. ASSUME ~clash', NEW g \in wfds_out, g > f
        PROVE  FALSE
    <3>1. g > cur_fd /\ ~clash /\ wfds_in = {}
      BY <1>2, <1>3, <2>1 DEF Demo2Inv, Demo2Types
    <3>2. QED
      BY <1>2, <3>1 DEF Demo2Inv, Demo2Bytes
  <2>2. QED
    BY <1>1, <1>3, <2>1 DEF Demo2Inv, Demo2Bytes
<1>8. QED
  BY <1>4, <1>5, <1>6, <1>7 DEF Demo2Inv

\* send() gives the peer what is in the buffer.
LEMMA Demo2Sends ==
    ASSUME Demo2Inv, NEW f \in Fds, Demo2!send_reply(f)
    PROVE  Demo2Inv'
<1> USE Descriptors
<1> DEFINE p == file[f]
<1>1. /\ Demo2!IsNext(f) /\ f \notin rfds_out /\ cur_fd' = f /\ spc' = "scan"
      /\ wfds_in' = wfds_in \ {f} /\ rfds_in' = rfds_in \cup {f}
      /\ UNCHANGED <<rfds_out, wfds_out, lastfd, buffer, clash>>
  BY DEF Demo2!send_reply, Demo2!Scanned
<1>2. spc = "scan" /\ f > cur_fd /\ cur_fd \in Nat /\ f \in wfds_out
  BY <1>1, Demo2Next
<1>3. MaxSend >= 1 /\ ret \in -1..MaxSend
  BY <1>2 DEF Demo2Inv, Demo2Types
<1>4. /\ KernelInv' /\ file' = file /\ ret' \in -1..MaxSend
      /\ \/ reply' = reply
         \/ p \in Peers /\ reply' = [reply EXCEPT ![p] = @ \cup {buffer}]
  <2>1. CASE p = NoPeer
    <3>1. UNCHANGED svars /\ reply' = reply /\ ret' = -1
      BY <2>1 DEF Demo2!send_reply, Demo2!svars, svars
    <3>2. QED
      BY <1>3, <3>1 DEF svars, Demo2Inv, KernelInv, SocketsType, ConnInv, QueueInv
  <2>2. CASE p # NoPeer
    <3>1. p \in Peers
      BY <2>2 DEF Demo2Inv, KernelInv, SocketsType
    <3>2. PICK n \in IF ret = -1 THEN {0, 1} ELSE {ret} :
             /\ Sends(p, n)
             /\ reply' = [reply EXCEPT ![p] = IF back' = back THEN @ ELSE @ \cup {buffer}]
             /\ ret' = IF back' = back /\ n > 0 THEN -1 ELSE n
      BY <2>2, Demo2Kernel DEF Demo2!send_reply
    <3>3. n \in Nat /\ n <= MaxSend
      BY <1>3, <3>2
    <3>4. KernelInv' /\ Calm
      BY <3>1, <3>2, <3>3, SendsKeeps DEF Demo2Inv
    <3>5. ret' \in -1..MaxSend
      BY <3>2, <3>3
    <3>6. reply' = reply \/ reply' = [reply EXCEPT ![p] = @ \cup {buffer}]
      <4>1. CASE back' = back
        BY <3>1, <3>2, <4>1 DEF Demo2Inv, Demo2Types
      <4>2. CASE back' # back
        BY <3>2, <4>2
      <4>3. QED
        BY <4>1, <4>2
    <3>7. QED
      BY <3>1, <3>4, <3>5, <3>6 DEF Calm
  <2>3. QED
    BY <2>1, <2>2
<1>5. /\ reply' \in [Peers -> SUBSET (Peers \cup {NoPeer})]
      /\ \A q \in Peers : reply'[q] \subseteq IF q = p THEN reply[q] \cup {buffer} ELSE reply[q]
  <2>1. CASE reply' = reply
    BY <2>1 DEF Demo2Inv, Demo2Types
  <2>2. CASE p \in Peers /\ reply' = [reply EXCEPT ![p] = @ \cup {buffer}]
    <3>1. reply[p] \cup {buffer} \in SUBSET (Peers \cup {NoPeer})
      BY <2>2 DEF Demo2Inv, Demo2Types
    <3>2. QED
      BY <2>2, <3>1 DEF Demo2Inv, Demo2Types
  <2>3. QED
    BY <1>4, <2>1, <2>2
<1>6. Demo2Types'
  BY <1>1, <1>3, <1>4, <1>5 DEF Demo2Inv, Demo2Types, Sources
<1>7. Demo2Watch'
  BY <1>1, <1>2, <1>4 DEF Demo2Inv, Demo2Watch
<1>8. Demo2Bytes'
  <2>1. clash' <=> clash
    BY <1>1
  <2>2. ASSUME ~clash
        PROVE  buffer = p /\ \A q \in Peers : reply'[q] \subseteq {q}
    <3>1. f \in wfds_in
      BY <1>2, <2>2 DEF Demo2Inv, Demo2Bytes
    <3>2. buffer = p /\ \A q \in Peers : reply[q] \subseteq {q}
      BY <1>2, <2>2, <3>1 DEF Demo2Inv, Demo2Bytes
    <3>3. QED
      BY <1>5, <3>2
  <2>3. ASSUME ~clash, NEW g \in wfds_out, g > f
        PROVE  g \in wfds_in'
    <3>1. g > cur_fd /\ g # f
      BY <1>2, <2>3 DEF Demo2Inv, Demo2Types
    <3>2. QED
      BY <1>1, <1>2, <2>3, <3>1 DEF Demo2Inv, Demo2Bytes
  <2>4. QED
    BY <1>1, <1>2, <1>4, <2>1, <2>2, <2>3 DEF Demo2Inv, Demo2Bytes
<1>9. QED
  BY <1>4, <1>6, <1>7, <1>8 DEF Demo2Inv

\* The invariant of demo2 holds.
LEMMA Demo2Inductive == Spec => [](kind = "demo2" => Demo2Inv)
<1> DEFINE I == kind = "demo2" => Demo2Inv
<1>1. Init => I
  <2>1. ASSUME Demo2!Init
        PROVE  Demo2Inv
    <3>1. KernelInv /\ OpenFds = {}
      BY <2>1, Demo2Kernel, KernelInit DEF Demo2!Init
    <3>2. /\ rfds_in = {Listen} /\ wfds_in = {} /\ rfds_out = {} /\ wfds_out = {}
          /\ lastfd = Listen /\ cur_fd = Listen /\ buffer = NoPeer /\ ret = 0
          /\ reply = [p \in Peers |-> {}] /\ spc = "select"
      BY <2>1, Demo2Kernel DEF Demo2!Init
    <3>3. Demo2Types
      BY <3>2, Descriptors DEF Demo2Types, Sources
    <3>4. Demo2Watch /\ Demo2Bytes
      BY <3>1, <3>2 DEF Demo2Watch, Demo2Bytes, OpenFds
    <3>5. QED
      BY <3>1, <3>3, <3>4 DEF Demo2Inv
  <2>2. QED
    BY <2>1 DEF Init
<1>2. I /\ [Next]_vars => I'
  <2>1. ASSUME Demo2Inv, UNCHANGED vars
        PROVE  Demo2Inv'
    BY <2>1 DEF vars, svars, demo2vars, Demo2Inv, Demo2Types, Demo2Watch, Demo2Bytes,
                KernelInv, SocketsType, ConnInv, QueueInv
  <2>2. ASSUME Demo2Inv, Demo2!Server
        PROVE  Demo2Inv'
    <3>1. CASE Demo2!turn \/ (Demo2!accept_fails /\ spc' = "scan")
      <4>1. /\ spc \in {"scan", "accept"} /\ spc' \in {"select", "scan"}
            /\ UNCHANGED <<svars, rfds_in, wfds_in, rfds_out, wfds_out, lastfd, buffer, ret, reply,
                           clash, cur_fd>>
        BY <3>1 DEF Demo2!turn, Demo2!accept_fails, Demo2!svars, svars, Demo2!setvars, Demo2!datavars
      <4>2. KernelInv' /\ (clash' <=> clash) /\ file' = file
        BY <2>2, <4>1 DEF svars, Demo2Inv, KernelInv, SocketsType, ConnInv, QueueInv
      <4>3. QED
        BY <2>2, <4>1, <4>2 DEF Demo2Inv, Demo2Types, Demo2Watch, Demo2Bytes
    <3>2. CASE (Demo2!accept_fails /\ spc' # "scan") \/ \E f \in Fds : Demo2!send_sigpipe(f)
      <4>1. /\ Exits /\ spc' = "exit"
            /\ UNCHANGED <<rfds_in, wfds_in, rfds_out, wfds_out, lastfd, buffer, ret, reply,
                           clash, cur_fd>>
        BY <3>2, Demo2Kernel DEF Demo2!send_sigpipe, Demo2!accept_fails, Demo2!setvars, Demo2!datavars
      <4>2. KernelInv' /\ (clash' <=> clash)
        BY <2>2, <4>1, ExitsKeeps DEF Demo2Inv
      <4>3. QED
        BY <2>2, <4>1, <4>2 DEF Demo2Inv, Demo2Types, Demo2Bytes
    <3>3. CASE Demo2!accept_fails
      BY <3>1, <3>2, <3>3
    <3>4. Demo2!Fds = Fds
      BY Demo2Kernel
    <3>5. CASE \E f \in Fds : \/ Demo2!recv_data(f) \/ Demo2!recv_eof(f) \/ Demo2!recv_error(f)
                             \/ Demo2!send_reply(f) \/ Demo2!send_sigpipe(f)
      BY <2>2, <3>2, <3>5, Demo2Receives, Demo2Ends, Demo2Sends
    <3>6. CASE Demo2!turn
      BY <3>1, <3>6
    <3>7. CASE Demo2!select
      BY <2>2, <3>7, Demo2Selects
    <3>8. CASE Demo2!accept
      BY <2>2, <3>8, Demo2Accepts
    <3>9. QED
      BY <2>2, <3>3, <3>4, <3>5, <3>6, <3>7, <3>8 DEF Demo2!Server
  <2>3. ASSUME Demo2Inv, PeerStep
        PROVE  Demo2Inv'
    <3>1. PICK p \in Peers : Peer(p) /\ UNCHANGED <<demo2vars, reply, clash, spc>>
      BY <2>3 DEF PeerStep
    <3>2. QED
      BY <2>3, <3>1, PeerKeeps DEF Demo2Inv, Demo2Types, Demo2Watch, Demo2Bytes, demo2vars
  <2>4. QED
    BY <2>1, <2>2, <2>3, OneServer
<1>3. QED
  BY <1>1, <1>2, PTL DEF Spec

-----------------------------------------------------------------------------
(* One thread for each connection *)

\* What demo1 takes from the kernel is what every server takes.
LEMMA Demo1Kernel ==
    /\ Demo1!Fds = Fds /\ Demo1!OpenFds = OpenFds
    /\ (Demo1!SocketsInit <=> SocketsInit) /\ (Demo1!SocketsType <=> SocketsType)
    /\ (Demo1!AcceptFails <=> AcceptFails) /\ (Demo1!Exits <=> Exits)
    /\ \A f : (Demo1!Accepts(f) <=> Accepts(f)) /\ (Demo1!Closes(f) <=> Closes(f))
    /\ \A p, n : (Demo1!Receives(p, n) <=> Receives(p, n)) /\ (Demo1!Sends(p, n) <=> Sends(p, n))
    /\ \A S : Demo1!Cardinality(S) = Cardinality(S)
<1>1. \A S : Demo1!Cardinality(S) = Cardinality(S)
  BY DEF Demo1!Cardinality, Cardinality
<1>2. QED
  BY <1>1 DEF Demo1!Fds, Demo1!OpenFds, Demo1!SocketsInit, Demo1!SocketsType, Demo1!AcceptFails,
    Demo1!Exits, Demo1!Accepts, Demo1!Reports, Demo1!Closes, Demo1!Receives, Demo1!Sends,
    Demo1!HasData, Demo1!Broken,
    Fds, OpenFds, SocketsInit, SocketsType, AcceptFails, Exits, Accepts, Closes,
    Reports, Receives, Sends, HasData, Broken

\* And so with the server that looks at errors.
LEMMA ThreadKernel ==
    /\ Thread!Fds = Fds /\ Thread!OpenFds = OpenFds
    /\ (Thread!SocketsInit <=> SocketsInit) /\ (Thread!SocketsType <=> SocketsType)
    /\ (Thread!AcceptFails <=> AcceptFails) /\ (Thread!Exits <=> Exits)
    /\ \A f : (Thread!Accepts(f) <=> Accepts(f)) /\ (Thread!Closes(f) <=> Closes(f))
    /\ \A p, n : (Thread!Receives(p, n) <=> Receives(p, n)) /\ (Thread!Sends(p, n) <=> Sends(p, n))
    /\ \A S : Thread!Cardinality(S) = Cardinality(S)
<1>1. \A S : Thread!Cardinality(S) = Cardinality(S)
  BY DEF Thread!Cardinality, Cardinality
<1>2. QED
  BY <1>1 DEF Thread!Fds, Thread!OpenFds, Thread!SocketsInit, Thread!SocketsType, Thread!AcceptFails,
    Thread!Exits, Thread!Accepts, Thread!Reports, Thread!Closes, Thread!Receives, Thread!Sends,
    Thread!HasData, Thread!Broken,
    Fds, OpenFds, SocketsInit, SocketsType, AcceptFails, Exits, Accepts, Closes,
    Reports, Receives, Sends, HasData, Broken

Threads == 1..MaxThreads
IsOpen(f) == f \in Fds /\ file[f] # NoPeer

\* What the two servers do, where they do the same: a thread is made for a connection or
\* for -1; it reads clientfd; it reads, writes and closes; the process ends.
ThreadNew(t) ==
    /\ spc = "run" /\ tpc[t] = "none" /\ tpc' = [tpc EXCEPT ![t] = "start"]
    /\ clash' = (clash \/ \E u \in Threads : tpc[u] = "start")
    /\ UNCHANGED <<tfd, held, reply, spc>>
    /\ \/ \E f \in Fds : Accepts(f) /\ clientfd' = f
       \/ clientfd' = -1 /\ UNCHANGED svars
ThreadStart(t) ==
    /\ spc = "run" /\ tpc[t] = "start"
    /\ tfd' = [tfd EXCEPT ![t] = clientfd] /\ tpc' = [tpc EXCEPT ![t] = "read"]
    /\ UNCHANGED <<svars, clientfd, held, reply, clash, spc>>
ThreadRead(t) ==
    /\ spc = "run" /\ tpc[t] = "read" /\ IsOpen(tfd[t])
    /\ \E n \in 1..MaxSend :
          /\ Receives(file[tfd[t]], n)
          /\ held' = [held EXCEPT ![t] = <<file[tfd[t]], n>>]
    /\ tpc' = [tpc EXCEPT ![t] = "write"]
    /\ UNCHANGED <<clientfd, tfd, reply, clash, spc>>
ThreadWrite(t) ==
    /\ spc = "run" /\ tpc[t] = "write"
    /\ IF IsOpen(tfd[t])
       THEN /\ Sends(file[tfd[t]], held[t][2])
            /\ reply' = [reply EXCEPT ![file[tfd[t]]] =
                            IF back' = back THEN @ ELSE @ \cup {held[t][1]}]
       ELSE UNCHANGED <<svars, reply>>
    /\ held' = [held EXCEPT ![t] = <<NoPeer, 0>>] /\ tpc' = [tpc EXCEPT ![t] = "read"]
    /\ UNCHANGED <<clientfd, tfd, clash, spc>>
ThreadClose(t) ==
    /\ spc = "run" /\ tpc[t] = "read"
    /\ IF IsOpen(tfd[t]) THEN Closes(tfd[t]) ELSE UNCHANGED svars
    /\ tpc' = [tpc EXCEPT ![t] = "done"]
    /\ UNCHANGED <<clientfd, tfd, held, reply, clash, spc>>
ThreadsDie ==
    /\ spc = "run" /\ Exits /\ spc' = "exit"
    /\ UNCHANGED <<clientfd, tpc, tfd, held, reply, clash>>
ThreadMove ==
    \/ ThreadsDie
    \/ \E t \in Threads : \/ ThreadNew(t) \/ ThreadStart(t) \/ ThreadRead(t)
                          \/ ThreadWrite(t) \/ ThreadClose(t)

\* Every step of demo1 is one of these.
LEMMA Demo1Moves ==
    ASSUME Demo1!Server
    PROVE  ThreadMove
<1>1. /\ Demo1!Threads = Threads /\ Demo1!Nothing = <<NoPeer, 0>>
      /\ \A f : Demo1!IsOpen(f) <=> IsOpen(f)
  BY Demo1Kernel DEF Demo1!Threads, Threads, Demo1!IsOpen, IsOpen, Demo1!Nothing
<1>2. CASE Demo1!accept_exit
  BY <1>2, Demo1Kernel DEF Demo1!accept_exit, Demo1!Dies, ThreadsDie, ThreadMove
<1>3. ASSUME NEW t \in Threads, Demo1!accept(t) \/ Demo1!accept_unchecked(t)
      PROVE  ThreadNew(t)
  BY <1>1, <1>3, Demo1Kernel
  DEF Demo1!accept, Demo1!accept_unchecked, Demo1!Creates, ThreadNew, Demo1!svars, svars
<1>4. ASSUME NEW t \in Threads, Demo1!start(t)
      PROVE  ThreadStart(t)
  BY <1>4 DEF Demo1!start, ThreadStart, Demo1!svars, svars
<1>5. ASSUME NEW t \in Threads, Demo1!read(t)
      PROVE  ThreadRead(t)
  BY <1>1, <1>5, Demo1Kernel DEF Demo1!read, ThreadRead
<1>6. ASSUME NEW t \in Threads, Demo1!write(t)
      PROVE  ThreadWrite(t)
  <2>1. CASE IsOpen(tfd[t])
    BY <1>1, <1>6, <2>1, Demo1Kernel DEF Demo1!write, Demo1!Written, ThreadWrite
  <2>2. CASE ~IsOpen(tfd[t])
    BY <1>1, <1>6, <2>2 DEF Demo1!write, Demo1!Written, ThreadWrite, Demo1!svars, svars
  <2>3. QED
    BY <2>1, <2>2
<1>7. ASSUME NEW t \in Threads, Demo1!close(t)
      PROVE  ThreadClose(t)
  <2>1. CASE IsOpen(tfd[t])
    BY <1>1, <1>7, <2>1, Demo1Kernel DEF Demo1!close, ThreadClose
  <2>2. CASE ~IsOpen(tfd[t])
    BY <1>1, <1>7, <2>2 DEF Demo1!close, ThreadClose, Demo1!svars, svars
  <2>3. QED
    BY <2>1, <2>2
<1>8. ASSUME NEW t \in Threads, Demo1!sigpipe(t) \/ Demo1!recv_error(t)
      PROVE  ThreadsDie
  BY <1>8, Demo1Kernel DEF Demo1!sigpipe, Demo1!recv_error, Demo1!Dies, ThreadsDie
<1>9. QED
  BY <1>1, <1>2, <1>3, <1>4, <1>5, <1>6, <1>7, <1>8 DEF Demo1!Server, Demo1!Thread, ThreadMove

\* Every step of the other one, too.
LEMMA ThreadMoves ==
    ASSUME Thread!Server
    PROVE  ThreadMove
<1>1. /\ Thread!Threads = Threads /\ Thread!Nothing = <<NoPeer, 0>>
      /\ \A f : Thread!IsOpen(f) <=> IsOpen(f)
  BY ThreadKernel DEF Thread!Threads, Threads, Thread!IsOpen, IsOpen, Thread!Nothing
<1>2. CASE Thread!accept_exit
  BY <1>2, ThreadKernel DEF Thread!accept_exit, Thread!Dies, ThreadsDie, ThreadMove
<1>3. ASSUME NEW t \in Threads, Thread!accept(t) \/ Thread!accept_unchecked(t)
      PROVE  ThreadNew(t)
  BY <1>1, <1>3, ThreadKernel
  DEF Thread!accept, Thread!accept_unchecked, Thread!Creates, ThreadNew, Thread!svars, svars
<1>4. ASSUME NEW t \in Threads, Thread!start(t)
      PROVE  ThreadStart(t)
  BY <1>4 DEF Thread!start, ThreadStart, Thread!svars, svars
<1>5. ASSUME NEW t \in Threads, Thread!read(t)
      PROVE  ThreadRead(t)
  BY <1>1, <1>5, ThreadKernel DEF Thread!read, ThreadRead
<1>6. ASSUME NEW t \in Threads, Thread!write(t)
      PROVE  ThreadWrite(t)
  <2>1. CASE IsOpen(tfd[t])
    BY <1>1, <1>6, <2>1, ThreadKernel DEF Thread!write, Thread!Written, ThreadWrite
  <2>2. CASE ~IsOpen(tfd[t])
    BY <1>1, <1>6, <2>2 DEF Thread!write, Thread!Written, ThreadWrite, Thread!svars, svars
  <2>3. QED
    BY <2>1, <2>2
<1>7. ASSUME NEW t \in Threads, Thread!close(t)
      PROVE  ThreadClose(t)
  <2>1. CASE IsOpen(tfd[t])
    BY <1>1, <1>7, <2>1, ThreadKernel DEF Thread!close, ThreadClose
  <2>2. CASE ~IsOpen(tfd[t])
    BY <1>1, <1>7, <2>2 DEF Thread!close, ThreadClose, Thread!svars, svars
  <2>3. QED
    BY <2>1, <2>2
<1>8. ASSUME NEW t \in Threads, Thread!sigpipe(t) \/ Thread!recv_error(t)
      PROVE  ThreadsDie
  BY <1>8, ThreadKernel DEF Thread!sigpipe, Thread!recv_error, Thread!Dies, ThreadsDie
<1>9. QED
  BY <1>1, <1>2, <1>3, <1>4, <1>5, <1>6, <1>7, <1>8 DEF Thread!Server, Thread!Thread, ThreadMove

\* Each variable in its domain; a thread that writes has something of somebody.
ThreadTypes ==
    /\ clientfd \in Fds \cup {-1} /\ tfd \in [Threads -> Fds \cup {-1}]
    /\ tpc \in [Threads -> {"none", "start", "read", "write", "done"}]
    /\ held \in [Threads -> (Peers \cup {NoPeer}) \X (0..MaxSend)]
    /\ reply \in [Peers -> SUBSET Peers] /\ spc \in {"run", "exit"}
    /\ \A t \in Threads : tpc[t] = "write" => held[t][1] \in Peers /\ tfd[t] \in Fds

\* Thread t serves descriptor f, or will.
Owner(t, f) ==
    \/ tpc[t] \in {"read", "write"} /\ tfd[t] = f
    \/ tpc[t] = "start" /\ clientfd = f

\* Until clientfd is overwritten too early, descriptors and threads belong together, and
\* what a thread has read came from the connection it is going to write to.
ThreadTable ==
    /\ \A t, u \in Threads : tpc[t] = "start" /\ tpc[u] = "start" => t = u
    /\ \A t \in Threads, f \in Fds : Owner(t, f) => file[f] # NoPeer
    /\ \A t, u \in Threads, f \in Fds : Owner(t, f) /\ Owner(u, f) => t = u
    /\ \A f \in Fds : file[f] # NoPeer => \E t \in Threads : Owner(t, f)
    /\ \A t \in Threads : tpc[t] = "write" => held[t][1] = file[tfd[t]]
ThreadBytes == ~clash => \A p \in Peers : reply[p] \subseteq {p}

ThreadInv ==
    KernelInv /\ ThreadTypes /\ ThreadBytes /\ (spc = "run" /\ ~clash => ThreadTable)

\* A new thread for a new descriptor.
LEMMA ThreadInvNew ==
    ASSUME ThreadInv, NEW t \in Threads, ThreadNew(t)
    PROVE  ThreadInv'
<1> USE Descriptors
<1>1. /\ spc = "run" /\ tpc[t] = "none" /\ tpc' = [tpc EXCEPT ![t] = "start"]
      /\ UNCHANGED <<tfd, held, reply, spc>>
  BY DEF ThreadNew
<1>2. ~clash' => ~clash /\ \A u \in Threads : tpc[u] # "start"
  BY Zenon DEF ThreadNew
<1>3. /\ tpc' \in [Threads -> {"none", "start", "read", "write", "done"}]
      /\ tpc'[t] = "start" /\ \A u \in Threads \ {t} : tpc'[u] = tpc[u]
  BY <1>1 DEF ThreadInv, ThreadTypes
<1>4. /\ KernelInv' /\ clientfd' \in Fds \cup {-1}
      /\ \A g \in Fds : file[g] # NoPeer => file'[g] = file[g]
      /\ \A g \in Fds : g = clientfd' <=> file[g] = NoPeer /\ file'[g] # NoPeer
  <2>1. CASE clientfd' = -1 /\ UNCHANGED svars
    BY <2>1 DEF svars, ThreadInv, KernelInv, SocketsType, ConnInv, QueueInv
  <2>2. CASE \E f \in Fds : Accepts(f) /\ clientfd' = f
    <3>1. PICK f \in Fds : Accepts(f) /\ clientfd' = f
      BY <2>2
    <3>2. /\ KernelInv' /\ file[f] = NoPeer /\ file'[f] \in Peers
          /\ \A g \in Fds \ {f} : file'[g] = file[g]
      BY <3>1, AcceptsKeeps DEF ThreadInv
    <3>3. QED
      BY <3>1, <3>2
  <2>3. QED
    BY <2>1, <2>2 DEF ThreadNew
<1>5. ThreadTypes'
  BY <1>1, <1>3, <1>4 DEF ThreadInv, ThreadTypes
<1>6. ThreadBytes'
  BY <1>1, <1>2 DEF ThreadInv, ThreadBytes
<1>7. ASSUME ~clash'
      PROVE  ThreadTable'
  <2>1. ThreadTable /\ \A u \in Threads : tpc[u] # "start"
    BY <1>1, <1>2, <1>7 DEF ThreadInv
  <2>2. \A u \in Threads \ {t}, g \in Fds : Owner(u, g)' <=> Owner(u, g)
    BY <1>1, <1>3, <2>1 DEF Owner
  <2>3. \A g \in Fds : (Owner(t, g)' <=> g = clientfd') /\ ~Owner(t, g)
    BY <1>1, <1>3 DEF Owner
  <2>4. \A u, v \in Threads : tpc'[u] = "start" /\ tpc'[v] = "start" => u = v
    BY <1>3, <2>1
  <2>5. \A u \in Threads, g \in Fds : Owner(u, g)' => file'[g] # NoPeer
    BY <1>4, <2>1, <2>2, <2>3 DEF ThreadTable
  <2>6. \A u, v \in Threads, g \in Fds : Owner(u, g)' /\ Owner(v, g)' => u = v
    BY <1>4, <2>1, <2>2, <2>3 DEF ThreadTable
  <2>7. \A g \in Fds : file'[g] # NoPeer => \E u \in Threads : Owner(u, g)'
    BY <1>4, <2>1, <2>2, <2>3 DEF ThreadTable
  <2>8. \A u \in Threads : tpc'[u] = "write" => held'[u][1] = file'[tfd'[u]]
    <3>1. ASSUME NEW u \in Threads, tpc'[u] = "write"
          PROVE  held'[u][1] = file'[tfd'[u]]
      <4>1. tpc[u] = "write" /\ tfd[u] \in Fds /\ held[u][1] = file[tfd[u]]
        BY <1>3, <2>1, <3>1 DEF ThreadTable, ThreadInv, ThreadTypes
      <4>2. file[tfd[u]] # NoPeer
        BY <2>1, <4>1 DEF ThreadTable, Owner
      <4>3. QED
        BY <1>1, <1>4, <4>1, <4>2
    <3>2. QED
      BY <3>1
  <2>9. QED
    BY <2>4, <2>5, <2>6, <2>7, <2>8 DEF ThreadTable
<1>8. QED
  BY <1>4, <1>5, <1>6, <1>7 DEF ThreadInv

\* Who owns what is not changed by what a thread does until it closes.
LEMMA ThreadSame ==
    ASSUME ThreadInv, spc = "run", file' = file, NEW t \in Threads, clash' = clash,
           tpc[t] # "start" \/ tpc' = [tpc EXCEPT ![t] = "read"],
           tpc' \in [Threads -> {"none", "start", "read", "write", "done"}],
           \A u \in Threads \ {t} : tpc'[u] = tpc[u] /\ tfd'[u] = tfd[u] /\ held'[u] = held[u],
           tpc'[t] \in {"read", "write"},
           tpc'[t] = "write" => held'[t][1] = file[tfd'[t]],
           ~clash => \A f \in Fds, u \in Threads : Owner(u, f)' <=> Owner(u, f)
    PROVE  spc' = "run" /\ ~clash' => ThreadTable'
<1>1. SUFFICES ASSUME spc' = "run", ~clash'
               PROVE  ThreadTable'
  OBVIOUS
<1>2. ~clash /\ ThreadTable
  BY <1>1 DEF ThreadInv
<1>3. \A u \in Threads : tpc'[u] = "start" => tpc[u] = "start"
  OBVIOUS
<1>4. \A u \in Threads : tpc'[u] = "write" => held'[u][1] = file'[tfd'[u]]
  BY <1>2 DEF ThreadTable
<1>5. QED
  BY <1>2, <1>3, <1>4 DEF ThreadTable

\* int clientfd = *(int *) args: the thread takes what is meant for it.
LEMMA ThreadInvStart ==
    ASSUME ThreadInv, NEW t \in Threads, ThreadStart(t)
    PROVE  ThreadInv'
<1>1. /\ spc = "run" /\ tpc[t] = "start" /\ tfd' = [tfd EXCEPT ![t] = clientfd]
      /\ tpc' = [tpc EXCEPT ![t] = "read"]
      /\ UNCHANGED <<svars, clientfd, held, reply, clash, spc>>
  BY DEF ThreadStart
<1>2. /\ tpc' \in [Threads -> {"none", "start", "read", "write", "done"}]
      /\ tfd' \in [Threads -> Fds \cup {-1}] /\ tpc'[t] = "read" /\ tfd'[t] = clientfd
      /\ \A u \in Threads \ {t} : tpc'[u] = tpc[u] /\ tfd'[u] = tfd[u]
  BY <1>1 DEF ThreadInv, ThreadTypes
<1>3. KernelInv' /\ file' = file
  BY <1>1 DEF svars, ThreadInv, KernelInv, SocketsType, ConnInv, QueueInv
<1>4. ThreadTypes' /\ ThreadBytes'
  BY <1>1, <1>2 DEF ThreadInv, ThreadTypes, ThreadBytes
<1>5. ASSUME ~clash
      PROVE  \A f \in Fds, u \in Threads : Owner(u, f)' <=> Owner(u, f)
  <2>1. \A u \in Threads \ {t} : tpc[u] # "start"
    BY <1>1, <1>5 DEF ThreadInv, ThreadTable
  <2>2. QED
    BY <1>1, <1>2, <2>1 DEF Owner
<1>6. spc' = "run" /\ ~clash' => ThreadTable'
  BY <1>1, <1>2, <1>3, <1>5, ThreadSame
<1>7. QED
  BY <1>3, <1>4, <1>6 DEF ThreadInv

\* read() fills the thread's buffer.
LEMMA ThreadInvRead ==
    ASSUME ThreadInv, NEW t \in Threads, ThreadRead(t)
    PROVE  ThreadInv'
<1> USE Descriptors
<1>1. /\ spc = "run" /\ tpc[t] = "read" /\ IsOpen(tfd[t]) /\ tpc' = [tpc EXCEPT ![t] = "write"]
      /\ UNCHANGED <<clientfd, tfd, reply, clash, spc>>
  BY DEF ThreadRead
<1>2. PICK n \in 1..MaxSend : /\ Receives(file[tfd[t]], n)
                              /\ held' = [held EXCEPT ![t] = <<file[tfd[t]], n>>]
  BY DEF ThreadRead
<1>3. file[tfd[t]] \in Peers /\ tfd[t] \in Fds
  BY <1>1 DEF IsOpen, ThreadInv, KernelInv, SocketsType
<1>4. KernelInv' /\ file' = file
  BY <1>2, <1>3, ReceivesKeeps DEF ThreadInv, Calm
<1>5. /\ tpc' \in [Threads -> {"none", "start", "read", "write", "done"}] /\ tpc'[t] = "write"
      /\ \A u \in Threads \ {t} : tpc'[u] = tpc[u]
  BY <1>1 DEF ThreadInv, ThreadTypes
<1>6. /\ held' \in [Threads -> (Peers \cup {NoPeer}) \X (0..MaxSend)]
      /\ held'[t][1] = file[tfd[t]] /\ \A u \in Threads \ {t} : held'[u] = held[u]
  <2>1. <<file[tfd[t]], n>> \in (Peers \cup {NoPeer}) \X (0..MaxSend)
    BY <1>2, <1>3
  <2>2. QED
    BY <1>2, <2>1 DEF ThreadInv, ThreadTypes
<1>7. ThreadTypes'
  BY <1>1, <1>3, <1>5, <1>6 DEF ThreadInv, ThreadTypes
<1>8. ThreadBytes'
  BY <1>1 DEF ThreadInv, ThreadBytes
<1>9. \A f \in Fds, u \in Threads : Owner(u, f)' <=> Owner(u, f)
  BY <1>1, <1>5 DEF Owner
<1>10. spc' = "run" /\ ~clash' => ThreadTable'
  BY <1>1, <1>4, <1>5, <1>6, <1>9, ThreadSame
<1>11. QED
  BY <1>4, <1>7, <1>8, <1>10 DEF ThreadInv

\* write() sends it.
LEMMA ThreadInvWrite ==
    ASSUME ThreadInv, NEW t \in Threads, ThreadWrite(t)
    PROVE  ThreadInv'
<1> USE Descriptors
<1> DEFINE p == file[tfd[t]]
           b == held[t][1]
<1>1. /\ spc = "run" /\ tpc[t] = "write" /\ held' = [held EXCEPT ![t] = <<NoPeer, 0>>]
      /\ tpc' = [tpc EXCEPT ![t] = "read"] /\ UNCHANGED <<clientfd, tfd, clash, spc>>
  BY DEF ThreadWrite
<1>2. tfd[t] \in Fds /\ b \in Peers /\ held[t][2] \in Nat
  BY <1>1 DEF ThreadInv, ThreadTypes
<1>3. /\ KernelInv' /\ file' = file
      /\ \/ reply' = reply
         \/ p \in Peers /\ reply' = [reply EXCEPT ![p] = @ \cup {b}]
  <2>1. CASE IsOpen(tfd[t])
    <3>1. /\ Sends(p, held[t][2])
          /\ reply' = [reply EXCEPT ![p] = IF back' = back THEN @ ELSE @ \cup {b}]
      BY <2>1 DEF ThreadWrite
    <3>2. p \in Peers
      BY <2>1 DEF IsOpen, ThreadInv, KernelInv, SocketsType
    <3>3. KernelInv' /\ file' = file
      BY <1>2, <3>1, <3>2, SendsKeeps DEF ThreadInv, Calm
    <3>4. CASE back' = back
      BY <3>1, <3>2, <3>3, <3>4 DEF ThreadInv, ThreadTypes
    <3>5. CASE back' # back
      BY <3>1, <3>2, <3>3, <3>5
    <3>6. QED
      BY <3>4, <3>5
  <2>2. CASE ~IsOpen(tfd[t])
    <3>1. UNCHANGED <<svars, reply>>
      BY <2>2 DEF ThreadWrite
    <3>2. QED
      <4>1. KernelInv /\ UNCHANGED <<backlog, file, phase, sent, got, back, fin, err, reply>>
        BY <3>1 DEF svars, ThreadInv
      <4>2. SocketsType'
        BY <4>1, Zenon DEF KernelInv, SocketsType
      <4>3. ConnInv'
        BY <4>1, Zenon DEF KernelInv, ConnInv
      <4>4. QueueInv'
        BY <4>1, Zenon DEF KernelInv, QueueInv
      <4>5. QED
        BY <4>1, <4>2, <4>3, <4>4 DEF KernelInv
  <2>3. QED
    BY <2>1, <2>2
<1>4. /\ reply' \in [Peers -> SUBSET Peers]
      /\ \A q \in Peers : reply'[q] \subseteq IF q = p THEN reply[q] \cup {b} ELSE reply[q]
  <2>1. CASE reply' = reply
    BY <2>1 DEF ThreadInv, ThreadTypes
  <2>2. CASE p \in Peers /\ reply' = [reply EXCEPT ![p] = @ \cup {b}]
    <3>1. reply[p] \cup {b} \in SUBSET Peers
      BY <1>2, <2>2 DEF ThreadInv, ThreadTypes
    <3>2. QED
      BY <2>2, <3>1 DEF ThreadInv, ThreadTypes
  <2>3. QED
    BY <1>3, <2>1, <2>2
<1>5. /\ tpc' \in [Threads -> {"none", "start", "read", "write", "done"}] /\ tpc'[t] = "read"
      /\ \A u \in Threads \ {t} : tpc'[u] = tpc[u]
  BY <1>1 DEF ThreadInv, ThreadTypes
<1>6. /\ held' \in [Threads -> (Peers \cup {NoPeer}) \X (0..MaxSend)]
      /\ \A u \in Threads \ {t} : held'[u] = held[u]
  BY <1>1 DEF ThreadInv, ThreadTypes
<1>7. ThreadTypes'
  BY <1>1, <1>4, <1>5, <1>6 DEF ThreadInv, ThreadTypes
<1>8. ThreadBytes'
  <2>1. ASSUME ~clash
        PROVE  b = p /\ \A q \in Peers : reply[q] \subseteq {q}
    BY <1>1, <2>1 DEF ThreadInv, ThreadTable, ThreadBytes
  <2>2. ASSUME ~clash
        PROVE  \A q \in Peers : reply'[q] \subseteq {q}
    BY <1>4, <2>1, <2>2
  <2>3. QED
    BY <1>1, <2>2 DEF ThreadBytes
<1>9. \A f \in Fds, u \in Threads : Owner(u, f)' <=> Owner(u, f)
  BY <1>1, <1>5 DEF Owner
<1>10. spc' = "run" /\ ~clash' => ThreadTable'
  BY <1>1, <1>3, <1>5, <1>6, <1>9, ThreadSame
<1>11. QED
  BY <1>3, <1>7, <1>8, <1>10 DEF ThreadInv

\* A thread closes its own descriptor and nobody else's.
LEMMA ThreadInvClose ==
    ASSUME ThreadInv, NEW t \in Threads, ThreadClose(t)
    PROVE  ThreadInv'
<1> USE Descriptors
<1>1. /\ spc = "run" /\ tpc[t] = "read" /\ tpc' = [tpc EXCEPT ![t] = "done"]
      /\ UNCHANGED <<clientfd, tfd, held, reply, clash, spc>>
  BY DEF ThreadClose
<1>2. /\ tpc' \in [Threads -> {"none", "start", "read", "write", "done"}] /\ tpc'[t] = "done"
      /\ \A u \in Threads \ {t} : tpc'[u] = tpc[u]
  BY <1>1 DEF ThreadInv, ThreadTypes
<1>3. /\ KernelInv' /\ \A g \in Fds \ {tfd[t]} : file'[g] = file[g]
      /\ tfd[t] \in Fds => file'[tfd[t]] = NoPeer
  <2>1. CASE IsOpen(tfd[t])
    <3>1. Closes(tfd[t]) /\ tfd[t] \in Fds
      BY <2>1 DEF ThreadClose, IsOpen
    <3>2. QED
      BY <3>1, ClosesKeeps DEF ThreadInv
  <2>2. CASE ~IsOpen(tfd[t])
    <3>1. UNCHANGED svars
      BY <2>2 DEF ThreadClose
    <3>2. QED
      BY <2>2, <3>1 DEF IsOpen, svars, ThreadInv, KernelInv, SocketsType, ConnInv, QueueInv
  <2>3. QED
    BY <2>1, <2>2
<1>4. ThreadTypes' /\ ThreadBytes'
  BY <1>1, <1>2 DEF ThreadInv, ThreadTypes, ThreadBytes
<1>5. ASSUME ~clash
      PROVE  ThreadTable'
  <2>1. ThreadTable
    BY <1>1, <1>5 DEF ThreadInv
  <2>2. \A f \in Fds : (Owner(t, f) <=> f = tfd[t]) /\ ~Owner(t, f)'
    BY <1>1, <1>2 DEF Owner
  <2>3. \A f \in Fds, u \in Threads \ {t} : Owner(u, f)' <=> Owner(u, f)
    BY <1>1, <1>2 DEF Owner
  <2>4. \A u, v \in Threads : tpc'[u] = "start" /\ tpc'[v] = "start" => u = v
    BY <1>2, <2>1 DEF ThreadTable
  <2>5. \A u \in Threads, f \in Fds : Owner(u, f)' => file'[f] # NoPeer
    BY <1>3, <2>1, <2>2, <2>3 DEF ThreadTable
  <2>6. \A u, v \in Threads, f \in Fds : Owner(u, f)' /\ Owner(v, f)' => u = v
    BY <2>1, <2>2, <2>3 DEF ThreadTable
  <2>7. \A f \in Fds : file'[f] # NoPeer => \E u \in Threads : Owner(u, f)'
    <3>1. ASSUME NEW f \in Fds, file'[f] # NoPeer
          PROVE  \E u \in Threads : Owner(u, f)'
      <4>1. f # tfd[t] /\ file[f] # NoPeer
        BY <1>3, <3>1
      <4>2. PICK u \in Threads : Owner(u, f)
        BY <2>1, <4>1 DEF ThreadTable
      <4>3. QED
        BY <2>2, <2>3, <4>1, <4>2
    <3>2. QED
      BY <3>1
  <2>8. \A u \in Threads : tpc'[u] = "write" => held'[u][1] = file'[tfd'[u]]
    <3>1. ASSUME NEW u \in Threads, tpc'[u] = "write"
          PROVE  held'[u][1] = file'[tfd'[u]]
      <4>1. u # t /\ tpc[u] = "write" /\ tfd[u] \in Fds /\ held[u][1] = file[tfd[u]]
        BY <1>2, <2>1, <3>1 DEF ThreadTable, ThreadInv, ThreadTypes
      <4>2. tfd[u] # tfd[t]
        BY <2>1, <2>2, <4>1 DEF ThreadTable, Owner
      <4>3. QED
        BY <1>1, <1>3, <4>1, <4>2
    <3>2. QED
      BY <3>1
  <2>9. QED
    BY <2>4, <2>5, <2>6, <2>7, <2>8 DEF ThreadTable
<1>6. clash' <=> clash
  BY <1>1
<1>7. QED
  BY <1>3, <1>4, <1>5, <1>6 DEF ThreadInv

\* No step of either server breaks the invariant.
LEMMA ThreadInvMove ==
    ASSUME ThreadInv, ThreadMove
    PROVE  ThreadInv'
<1>1. CASE ThreadsDie
  <2>1. Exits /\ spc' = "exit" /\ UNCHANGED <<clientfd, tpc, tfd, held, reply, clash>>
    BY <1>1 DEF ThreadsDie
  <2>2. KernelInv' /\ (clash' <=> clash)
    BY <2>1, ExitsKeeps DEF ThreadInv
  <2>3. QED
    BY <2>1, <2>2 DEF ThreadInv, ThreadTypes, ThreadBytes
<1>2. QED
  BY <1>1, ThreadInvNew, ThreadInvStart, ThreadInvRead, ThreadInvWrite, ThreadInvClose DEF ThreadMove

\* The invariant of the servers with threads holds.
LEMMA ThreadInductive == Spec => [](kind \in {"demo1", "thread"} => ThreadInv)
<1> DEFINE I == kind \in {"demo1", "thread"} => ThreadInv
<1>1. Init => I
  <2>1. ASSUME Demo1!Init \/ Thread!Init
        PROVE  ThreadInv
    <3>1. SocketsInit
      BY <2>1, Demo1Kernel, ThreadKernel DEF Demo1!Init, Thread!Init
    <3>2. /\ clientfd = -1 /\ tpc = [t \in Threads |-> "none"] /\ tfd = [t \in Threads |-> -1]
          /\ held = [t \in Threads |-> <<NoPeer, 0>>] /\ reply = [p \in Peers |-> {}] /\ spc = "run"
      BY <2>1 DEF Demo1!Init, Thread!Init, Demo1!Threads, Thread!Threads, Threads,
                  Demo1!Nothing, Thread!Nothing
    <3>3. KernelInv /\ OpenFds = {}
      BY <3>1, KernelInit
    <3>4. ThreadTypes /\ ThreadBytes
      BY <3>2, Descriptors DEF ThreadTypes, ThreadBytes
    <3>5. ThreadTable
      BY <3>2, <3>3 DEF ThreadTable, Owner, OpenFds
    <3>6. QED
      BY <3>3, <3>4, <3>5 DEF ThreadInv
  <2>2. QED
    BY <2>1 DEF Init
<1>2. I /\ [Next]_vars => I'
  <2>1. ASSUME ThreadInv, file' = file, KernelInv', UNCHANGED <<threadvars, reply, clash, spc>>
        PROVE  ThreadInv'
    BY <2>1 DEF threadvars, ThreadInv, ThreadTypes, ThreadTable, ThreadBytes, Owner
  <2>2. ASSUME ThreadInv, UNCHANGED vars
        PROVE  file' = file /\ KernelInv' /\ UNCHANGED <<threadvars, reply, clash, spc>>
    BY <2>2 DEF vars, svars, ThreadInv, KernelInv, SocketsType, ConnInv, QueueInv
  <2>3. ASSUME ThreadInv, PeerStep
        PROVE  file' = file /\ KernelInv' /\ UNCHANGED <<threadvars, reply, clash, spc>>
    <3>1. PICK p \in Peers : Peer(p) /\ UNCHANGED <<threadvars, reply, clash, spc>>
      BY <2>3 DEF PeerStep
    <3>2. QED
      BY <2>3, <3>1, PeerKeeps DEF ThreadInv
  <2>4. QED
    BY <2>1, <2>2, <2>3, OneServer, Demo1Moves, ThreadMoves, ThreadInvMove
<1>3. QED
  BY <1>1, <1>2, PTL DEF Spec

-----------------------------------------------------------------------------
(* One process for each connection *)

\* Where the parent waits.
ParentWait == IF kind = "udptcp" THEN "select" ELSE "accept"
sigstate == <<sigchld, handler, errno>>
udpstate == <<rset, queue, answered>>

\* What the two servers do, one disjunct for each of their actions.
ProcDatagram ==
    /\ spc # "exit" /\ queue + answered < MaxDatagrams /\ queue' = queue + 1
    /\ UNCHANGED <<svars, conn, child, sigstate, rset, answered, spc>>
ProcSelect ==
    /\ spc = "select"
    /\ rset' = {x \in {"tcp"} : backlog # <<>>} \cup {x \in {"udp"} : queue > 0}
    /\ rset' # {} /\ spc' = (IF "tcp" \in rset' THEN "accept" ELSE "udp")
    /\ UNCHANGED <<svars, conn, child, sigstate, queue, answered>>
ProcAccept ==
    /\ spc = "accept" /\ backlog # <<>> /\ conn' = Head(backlog)
    /\ phase' = [phase EXCEPT ![Head(backlog)] = "open"] /\ backlog' = Tail(backlog)
    /\ spc' = "fork"
    /\ UNCHANGED <<file, sent, got, back, fin, err, child, sigstate, udpstate>>
ProcFork ==
    /\ spc = "fork" /\ spc' = "close"
    /\ child' = [child EXCEPT ![conn] = "run"] \/ child' = child
    /\ UNCHANGED <<svars, conn, sigstate, udpstate>>
ProcExit ==
    /\ spc \in {"fork", "interrupted"} /\ spc' = "exit"
    /\ phase' = [p \in Peers |-> IF phase[p] = "queued" \/ (p = conn /\ child[p] # "run")
                                THEN "gone" ELSE phase[p]]
    /\ backlog' = <<>> /\ conn' = NoPeer
    /\ UNCHANGED <<file, sent, got, back, fin, err, child, sigstate, udpstate>>
ProcClose ==
    /\ spc = "close"
    /\ phase' = [phase EXCEPT ![conn] = IF child[conn] = "run" THEN "open" ELSE "gone"]
    /\ conn' = NoPeer /\ spc' = (IF "udp" \in rset THEN "udp" ELSE ParentWait)
    /\ UNCHANGED <<backlog, file, sent, got, back, fin, err, child, sigstate, udpstate>>
ProcUdpEcho ==
    /\ spc = "udp" /\ queue > 0 /\ queue' = queue - 1 /\ answered' = answered + 1
    /\ rset' = {} /\ spc' = "select"
    /\ UNCHANGED <<svars, conn, child, sigstate>>
ProcChildEcho(p) ==
    /\ \E n \in 1..MaxSend : SendsBack(p, n)
    /\ UNCHANGED <<conn, child, sigstate, udpstate, spc>>
ProcChildExit(p) ==
    /\ child[p] = "run" /\ child' = [child EXCEPT ![p] = IF spc = "exit" THEN "reaped" ELSE "zombie"]
    /\ phase' = [phase EXCEPT ![p] = IF conn = p THEN "open" ELSE "gone"]
    /\ sigchld' = (spc # "exit")
    /\ \/ UNCHANGED <<got, err>>
       \/ \E n \in 1..MaxSend : /\ HasData(p, n) /\ got' = [got EXCEPT ![p] = @ + n]
                                 /\ err' = [err EXCEPT ![p] = "no"]
    /\ UNCHANGED <<backlog, file, sent, back, fin, conn, handler, errno, udpstate, spc>>
ProcSignal ==
    /\ spc # "exit" /\ handler' = TRUE /\ sigchld' = FALSE
    /\ spc' = IF spc = "select" THEN "interrupted" ELSE spc
    /\ UNCHANGED <<svars, conn, child, errno, udpstate>>
ProcReap ==
    /\ handler /\ \E p \in Peers : child[p] = "zombie" /\ child' = [child EXCEPT ![p] = "reaped"]
    /\ UNCHANGED <<svars, conn, sigstate, udpstate, spc>>
ProcReturn ==
    /\ \A p \in Peers : child[p] # "zombie"
    /\ handler' = FALSE /\ errno' \in {errno, "EINTR", "ECHILD"}
    /\ UNCHANGED <<svars, conn, child, sigchld, udpstate, spc>>
ProcAgain ==
    /\ spc = "interrupted" /\ spc' = "select" /\ errno' = "ok"
    /\ UNCHANGED <<svars, conn, child, sigchld, handler, udpstate>>
ProcMove ==
    \/ ProcDatagram \/ ProcSelect \/ ProcAccept \/ ProcFork \/ ProcExit \/ ProcClose \/ ProcUdpEcho
    \/ ProcSignal \/ ProcReap \/ ProcReturn \/ ProcAgain
    \/ \E p \in Peers : ProcChildEcho(p) \/ ProcChildExit(p)

\* Every step of the server that waits in accept() is one of these.
LEMMA ProcessMoves ==
    ASSUME kind = "process", Process!Server
    PROVE  ProcMove
<1> USE DEF Process!svars, svars, Process!procvars, Process!sigvars, Process!udpvars, sigstate, udpstate
<1>1. CASE Process!datagram \/ Process!select \/ Process!udp_echo
  BY <1>1 DEF Process!datagram, Process!select, Process!udp_echo, Process!Runs, ProcSelect,
              ProcUdpEcho, ProcMove
<1>2. CASE Process!accept \/ Process!fork
  BY <1>2 DEF Process!accept, Process!fork, Process!Runs, ProcAccept, ProcFork, ProcMove
<1>3. CASE Process!fork_fails \/ Process!select_error
  BY <1>3 DEF Process!fork_fails, Process!select_error, Process!ParentExits, Process!Runs,
              ProcFork, ProcExit, ProcMove
<1>4. CASE Process!close
  BY <1>4 DEF Process!close, Process!Runs, Process!Wait, ParentWait, ProcClose, ProcMove
<1>5. CASE Process!sig_chld \/ Process!select_eintr
  BY <1>5 DEF Process!sig_chld, Process!select_eintr, Process!Runs, ProcSignal, ProcAgain, ProcMove
<1>6. CASE Process!waitpid
  BY <1>6 DEF Process!waitpid, Process!Zombies, ProcReap, ProcMove
<1>7. CASE Process!sig_return
  <2>1. \A p \in Peers : child[p] # "zombie"
    BY <1>7 DEF Process!sig_return, Process!Zombies
  <2>2. errno' \in {errno, "EINTR", "ECHILD"}
    BY <1>7 DEF Process!sig_return
  <2>3. QED
    BY <1>7, <2>1, <2>2 DEF Process!sig_return, ProcReturn, ProcMove
<1>8. ASSUME NEW p \in Peers, Process!child_echo(p)
      PROVE  ProcChildEcho(p)
  BY <1>8 DEF Process!child_echo, Process!lvars, Process!SendsBack, Process!HasData, Process!Broken,
              SendsBack, HasData, Broken, ProcChildEcho
<1>9. ASSUME NEW p \in Peers, Process!child_exit(p) \/ Process!child_fails(p)
      PROVE  ProcChildExit(p)
  <2>1. CASE Process!child_exit(p)
    BY <2>1 DEF Process!child_exit, Process!ChildEnds, ProcChildExit
  <2>2. CASE Process!child_fails(p)
    BY <2>2 DEF Process!child_fails, Process!ChildEnds, Process!HasData, HasData, ProcChildExit
  <2>3. QED
    BY <1>9, <2>1, <2>2
<1>10. QED
  BY <1>1, <1>2, <1>3, <1>4, <1>5, <1>6, <1>7, <1>8, <1>9 DEF Process!Server, Process!Parent, ProcMove

\* Every step of the server that waits in select(), too.
LEMMA UdpTcpMoves ==
    ASSUME kind = "udptcp", UdpTcp!Server
    PROVE  ProcMove
<1> USE DEF UdpTcp!svars, svars, UdpTcp!procvars, UdpTcp!sigvars, UdpTcp!udpvars, sigstate, udpstate
<1>1. CASE UdpTcp!datagram \/ UdpTcp!select \/ UdpTcp!udp_echo
  BY <1>1 DEF UdpTcp!datagram, UdpTcp!select, UdpTcp!udp_echo, UdpTcp!Runs, ProcDatagram, ProcSelect,
              ProcUdpEcho, ProcMove
<1>2. CASE UdpTcp!accept \/ UdpTcp!fork
  BY <1>2 DEF UdpTcp!accept, UdpTcp!fork, UdpTcp!Runs, ProcAccept, ProcFork, ProcMove
<1>3. CASE UdpTcp!fork_fails \/ UdpTcp!select_error
  BY <1>3 DEF UdpTcp!fork_fails, UdpTcp!select_error, UdpTcp!ParentExits, UdpTcp!Runs,
              ProcFork, ProcExit, ProcMove
<1>4. CASE UdpTcp!close
  BY <1>4 DEF UdpTcp!close, UdpTcp!Runs, UdpTcp!Wait, ParentWait, ProcClose, ProcMove
<1>5. CASE UdpTcp!sig_chld \/ UdpTcp!select_eintr
  BY <1>5 DEF UdpTcp!sig_chld, UdpTcp!select_eintr, UdpTcp!Runs, ProcSignal, ProcAgain, ProcMove
<1>6. CASE UdpTcp!waitpid
  BY <1>6 DEF UdpTcp!waitpid, UdpTcp!Zombies, ProcReap, ProcMove
<1>7. CASE UdpTcp!sig_return
  <2>1. \A p \in Peers : child[p] # "zombie"
    BY <1>7 DEF UdpTcp!sig_return, UdpTcp!Zombies
  <2>2. errno' \in {errno, "EINTR", "ECHILD"}
    BY <1>7 DEF UdpTcp!sig_return
  <2>3. QED
    BY <1>7, <2>1, <2>2 DEF UdpTcp!sig_return, ProcReturn, ProcMove
<1>8. ASSUME NEW p \in Peers, UdpTcp!child_echo(p)
      PROVE  ProcChildEcho(p)
  BY <1>8 DEF UdpTcp!child_echo, UdpTcp!lvars, UdpTcp!SendsBack, UdpTcp!HasData, UdpTcp!Broken,
              SendsBack, HasData, Broken, ProcChildEcho
<1>9. ASSUME NEW p \in Peers, UdpTcp!child_exit(p) \/ UdpTcp!child_fails(p)
      PROVE  ProcChildExit(p)
  <2>1. CASE UdpTcp!child_exit(p)
    BY <2>1 DEF UdpTcp!child_exit, UdpTcp!ChildEnds, ProcChildExit
  <2>2. CASE UdpTcp!child_fails(p)
    BY <2>2 DEF UdpTcp!child_fails, UdpTcp!ChildEnds, UdpTcp!HasData, HasData, ProcChildExit
  <2>3. QED
    BY <1>9, <2>1, <2>2
<1>10. QED
  BY <1>1, <1>2, <1>3, <1>4, <1>5, <1>6, <1>7, <1>8, <1>9 DEF UdpTcp!Server, UdpTcp!Parent, ProcMove

\* Each variable in its domain, but for the flags of the signal.
ProcTypes ==
    /\ conn \in Peers \cup {NoPeer} /\ child \in [Peers -> {"none", "run", "zombie", "reaped"}]
    /\ errno \in {"ok", "EINTR", "ECHILD"} /\ rset \subseteq {"tcp", "udp"}
    /\ queue \in Nat /\ answered \in Nat /\ queue + answered <= MaxDatagrams
    /\ spc \in {"select", "accept", "fork", "close", "udp", "interrupted", "exit"}

\* A connection is open as long as somebody holds it; the parent holds one between
\* accept() and close().
ProcConns ==
    /\ conn # NoPeer <=> spc \in {"fork", "close"}
    /\ \A p \in Peers : phase[p] = "open" <=> conn = p \/ child[p] = "run"
    /\ \A f \in Fds : file[f] = NoPeer

\* What select() reported is still there.
ProcReady ==
    /\ "udp" \in rset => queue > 0
    /\ spc = "udp" => "udp" \in rset
    /\ kind = "udptcp" /\ spc = "accept" => backlog # <<>>

ProcInv == KernelInv /\ ProcTypes /\ ProcConns /\ ProcReady

\* These servers keep no descriptor in the table.
LEMMA ProcKernel ==
    ASSUME SocketsType', \A f \in Fds : file'[f] = NoPeer, QueueInv'
    PROVE  KernelInv'
  BY DEF KernelInv, ConnInv

\* The queue does not care for connections that were accepted.
LEMMA ProcQueue ==
    ASSUME KernelInv, NEW p \in Peers, phase[p] = "open", NEW v, phase' = [phase EXCEPT ![p] = v],
           backlog' = backlog
    PROVE  QueueInv'
<1>1. \A k \in 1..Len(backlog) : backlog[k] \in Peers /\ backlog[k] # p
  BY DEF KernelInv, SocketsType, QueueInv
<1>2. QED
  BY <1>1 DEF KernelInv, SocketsType, QueueInv

\* The parent takes a connection, hands it to a child, and lets go of it.
LEMMA ProcInvConns ==
    ASSUME ProcInv, ProcAccept \/ ProcFork \/ ProcClose \/ ProcExit, kind' = kind
    PROVE  ProcInv'
<1> USE Descriptors DEF sigstate, udpstate, svars
<1>1. CASE ProcAccept
  <2> DEFINE p == Head(backlog)
  <2>1. /\ backlog # <<>> /\ conn' = p /\ spc = "accept" /\ spc' = "fork"
        /\ phase' = [phase EXCEPT ![p] = "open"] /\ backlog' = Tail(backlog)
        /\ UNCHANGED <<file, sent, got, back, fin, err, child, errno, rset, queue, answered>>
    BY <1>1 DEF ProcAccept
  <2>2. p \in Peers /\ phase[p] = "queued" /\ backlog' \in Seq(Peers) /\ QueueInv'
    BY <2>1, QueueTakes DEF ProcInv
  <2>3. SocketsType'
    BY <2>1, <2>2 DEF ProcInv, KernelInv, SocketsType
  <2>4. KernelInv'
    BY <2>1, <2>2, <2>3, ProcKernel DEF ProcInv, ProcConns
  <2>5. ProcTypes'
    BY <2>1, <2>2 DEF ProcInv, ProcTypes
  <2>6. ProcConns'
    <3>1. \A q \in Peers : phase'[q] = IF q = p THEN "open" ELSE phase[q]
      BY <2>1 DEF ProcInv, KernelInv, SocketsType
    <3>2. conn = NoPeer
      BY <2>1 DEF ProcInv, ProcConns
    <3>3. QED
      BY <2>1, <2>2, <3>1, <3>2 DEF ProcInv, ProcConns
  <2>7. ProcReady'
    BY <2>1 DEF ProcInv, ProcReady
  <2>8. QED
    BY <2>4, <2>5, <2>6, <2>7 DEF ProcInv
<1>2. CASE ProcFork
  <2>1. /\ spc = "fork" /\ spc' = "close" /\ conn \in Peers
        /\ child' = [child EXCEPT ![conn] = "run"] \/ child' = child
        /\ UNCHANGED <<backlog, file, phase, sent, got, back, fin, err, conn, errno, rset, queue,
                       answered>>
    BY <1>2 DEF ProcFork, ProcInv, ProcConns, ProcTypes
  <2>2. KernelInv'
    BY <2>1 DEF ProcInv, KernelInv, SocketsType, ConnInv, QueueInv
  <2>3. ProcTypes'
    BY <2>1 DEF ProcInv, ProcTypes
  <2>4. ProcConns' /\ ProcReady'
    BY <2>1 DEF ProcInv, ProcTypes, ProcConns, ProcReady
  <2>5. QED
    BY <2>2, <2>3, <2>4 DEF ProcInv
<1>3. CASE ProcClose
  <2>1. /\ spc = "close" /\ conn \in Peers /\ conn' = NoPeer
        /\ phase' = [phase EXCEPT ![conn] = IF child[conn] = "run" THEN "open" ELSE "gone"]
        /\ spc' = (IF "udp" \in rset THEN "udp" ELSE ParentWait)
        /\ UNCHANGED <<backlog, file, sent, got, back, fin, err, child, errno, rset, queue, answered>>
    BY <1>3 DEF ProcClose, ProcInv, ProcConns, ProcTypes
  <2>2. phase[conn] = "open"
    BY <2>1 DEF ProcInv, ProcConns
  <2>3. SocketsType'
    BY <2>1 DEF ProcInv, KernelInv, SocketsType
  <2>4. KernelInv'
    BY <2>1, <2>2, <2>3, ProcQueue, ProcKernel DEF ProcInv, ProcConns
  <2>5. /\ spc' \in {"udp", "select", "accept"} /\ (spc' = "udp" => "udp" \in rset)
        /\ kind = "udptcp" => spc' # "accept"
    BY <2>1 DEF ParentWait
  <2>6. ProcTypes'
    BY <2>1, <2>5 DEF ProcInv, ProcTypes
  <2>7. ProcConns'
    <3>1. \A q \in Peers : phase'[q] = IF q = conn THEN (IF child[q] = "run" THEN "open" ELSE "gone")
                                       ELSE phase[q]
      BY <2>1 DEF ProcInv, KernelInv, SocketsType
    <3>2. \A q \in Peers : phase'[q] = "open" <=> child[q] = "run"
      BY <3>1 DEF ProcInv, ProcConns
    <3>3. QED
      BY <2>1, <2>5, <3>2 DEF ProcInv, ProcConns
  <2>8. ProcReady'
    BY <2>1, <2>5 DEF ProcInv, ProcReady
  <2>9. QED
    BY <2>4, <2>6, <2>7, <2>8 DEF ProcInv
<1>4. CASE ProcExit
  <2>1. /\ spc' = "exit" /\ backlog' = <<>> /\ conn' = NoPeer
        /\ phase' = [p \in Peers |-> IF phase[p] = "queued" \/ (p = conn /\ child[p] # "run")
                                    THEN "gone" ELSE phase[p]]
        /\ UNCHANGED <<file, sent, got, back, fin, err, child, errno, rset, queue, answered>>
    BY <1>4 DEF ProcExit
  <2>2. SocketsType' /\ QueueInv'
    BY <2>1 DEF ProcInv, KernelInv, SocketsType, QueueInv
  <2>3. KernelInv'
    BY <2>1, <2>2, ProcKernel DEF ProcInv, ProcConns
  <2>4. ProcTypes' /\ ProcConns' /\ ProcReady'
    BY <2>1 DEF ProcInv, ProcTypes, ProcConns, ProcReady
  <2>5. QED
    BY <2>3, <2>4 DEF ProcInv
<1>5. QED
  BY <1>1, <1>2, <1>3, <1>4

\* A child serves its peer, and ends.
LEMMA ProcInvChild ==
    ASSUME ProcInv, NEW p \in Peers, ProcChildEcho(p) \/ ProcChildExit(p), kind' = kind
    PROVE  ProcInv'
<1> USE Descriptors DEF sigstate, udpstate, svars
<1>1. CASE ProcChildEcho(p)
  <2>1. PICK n \in 1..MaxSend : SendsBack(p, n)
    BY <1>1 DEF ProcChildEcho
  <2>2. KernelInv' /\ UNCHANGED <<backlog, file, phase>>
    BY <2>1, SendsBackKeeps DEF ProcInv, Calm
  <2>3. UNCHANGED <<conn, child, errno, rset, queue, answered, spc>>
    BY <1>1 DEF ProcChildEcho
  <2>4. QED
    BY <2>2, <2>3 DEF ProcInv, ProcTypes, ProcConns, ProcReady
<1>2. CASE ProcChildExit(p)
  <2>1. /\ child[p] = "run" /\ phase' = [phase EXCEPT ![p] = IF conn = p THEN "open" ELSE "gone"]
        /\ child' = [child EXCEPT ![p] = IF spc = "exit" THEN "reaped" ELSE "zombie"]
        /\ UNCHANGED <<backlog, file, sent, back, fin, conn, errno, rset, queue, answered, spc>>
    BY <1>2 DEF ProcChildExit
  <2>2. phase[p] = "open"
    BY <2>1 DEF ProcInv, ProcConns
  <2>3. SocketsType'
    <3>1. got' \in [Peers -> 0..MaxSend] /\ err' \in [Peers -> {"no", "reset", "pipe"}]
      <4>1. CASE UNCHANGED <<got, err>>
        BY <4>1 DEF ProcInv, KernelInv, SocketsType
      <4>2. ASSUME NEW n \in 1..MaxSend, HasData(p, n), got' = [got EXCEPT ![p] = @ + n],
                   err' = [err EXCEPT ![p] = "no"]
            PROVE  got' \in [Peers -> 0..MaxSend] /\ err' \in [Peers -> {"no", "reset", "pipe"}]
        <5>1. got[p] + n \in 0..MaxSend
          BY <4>2 DEF HasData, ProcInv, KernelInv, SocketsType
        <5>2. QED
          BY <4>2, <5>1 DEF ProcInv, KernelInv, SocketsType
      <4>3. QED
        BY <1>2, <4>1, <4>2 DEF ProcChildExit
    <3>2. QED
      BY <2>1, <3>1 DEF ProcInv, KernelInv, SocketsType
  <2>4. KernelInv'
    BY <2>1, <2>2, <2>3, ProcQueue, ProcKernel DEF ProcInv, ProcConns
  <2>5. ProcTypes'
    BY <2>1 DEF ProcInv, ProcTypes
  <2>6. ProcConns'
    <3>1. \A q \in Peers : phase'[q] = IF q = p THEN (IF conn = q THEN "open" ELSE "gone") ELSE phase[q]
      BY <2>1 DEF ProcInv, KernelInv, SocketsType
    <3>2. child'[p] # "run" /\ \A q \in Peers \ {p} : child'[q] = child[q]
      BY <2>1 DEF ProcInv, ProcTypes
    <3>3. QED
      BY <2>1, <3>1, <3>2 DEF ProcInv, ProcConns
  <2>7. ProcReady'
    BY <2>1 DEF ProcInv, ProcReady
  <2>8. QED
    BY <2>4, <2>5, <2>6, <2>7 DEF ProcInv
<1>3. QED
  BY <1>1, <1>2

\* What does not touch the connections: datagrams, select() and the signal.
LEMMA ProcInvCalm ==
    ASSUME ProcInv, kind' = kind,
           \/ ProcDatagram \/ ProcSelect \/ ProcUdpEcho \/ ProcSignal \/ ProcReap \/ ProcReturn
           \/ ProcAgain
    PROVE  ProcInv'
<1> USE DEF sigstate, udpstate
<1>1. UNCHANGED <<svars, conn>>
  BY DEF ProcDatagram, ProcSelect, ProcUdpEcho, ProcSignal, ProcReap, ProcReturn, ProcAgain
<1>2. KernelInv' /\ UNCHANGED <<backlog, file, phase>>
  BY <1>1 DEF svars, ProcInv, KernelInv, SocketsType, ConnInv, QueueInv
<1>3. MaxDatagrams \in Nat
  BY EchoServersAssumption
<1>4. CASE ProcDatagram
  BY <1>1, <1>2, <1>3, <1>4 DEF ProcDatagram, ProcInv, ProcTypes, ProcConns, ProcReady
<1>5. CASE ProcSelect
  <2>1. /\ spc = "select" /\ rset' \subseteq {"tcp", "udp"} /\ rset' # {}
        /\ "tcp" \in rset' => backlog # <<>>
        /\ "udp" \in rset' => queue > 0
        /\ spc' = (IF "tcp" \in rset' THEN "accept" ELSE "udp")
        /\ UNCHANGED <<child, errno, queue, answered>>
    BY <1>5 DEF ProcSelect
  <2>2. /\ spc' \in {"accept", "udp"} /\ (spc' = "udp" => "udp" \in rset')
        /\ spc' = "accept" => backlog # <<>>
    BY <2>1
  <2>3. QED
    BY <1>1, <1>2, <2>1, <2>2 DEF ProcInv, ProcTypes, ProcConns, ProcReady
<1>6. CASE ProcUdpEcho
  BY <1>1, <1>2, <1>3, <1>6 DEF ProcUdpEcho, ProcInv, ProcTypes, ProcConns, ProcReady
<1>7. CASE ProcSignal
  BY <1>1, <1>2, <1>7 DEF ProcSignal, ProcInv, ProcTypes, ProcConns, ProcReady
<1>8. CASE ProcReap
  BY <1>1, <1>2, <1>8 DEF ProcReap, ProcInv, ProcTypes, ProcConns, ProcReady
<1>9. CASE ProcReturn \/ ProcAgain
  BY <1>1, <1>2, <1>9 DEF ProcReturn, ProcAgain, ProcInv, ProcTypes, ProcConns, ProcReady
<1>10. QED
  BY <1>4, <1>5, <1>6, <1>7, <1>8, <1>9

\* The invariant of the servers with processes holds.
LEMMA ProcInductive == Spec => [](kind \in {"process", "udptcp"} => ProcInv)
<1> DEFINE I == kind \in {"process", "udptcp"} => ProcInv
<1>1. Init => I
  <2>1. ASSUME \/ kind = "process" /\ Process!Init
               \/ kind = "udptcp" /\ UdpTcp!Init
        PROVE  ProcInv
    <3>1. SocketsInit
      BY <2>1 DEF Process!Init, UdpTcp!Init, Process!SocketsInit, UdpTcp!SocketsInit, SocketsInit,
                  Process!Fds, UdpTcp!Fds, Fds
    <3>2. /\ conn = NoPeer /\ child = [p \in Peers |-> "none"] /\ errno = "ok"
          /\ rset = {} /\ queue = 0 /\ answered = 0 /\ spc \in {"select", "accept"}
          /\ kind = "udptcp" => spc = "select"
      BY <2>1 DEF Process!Init, UdpTcp!Init, Process!Wait, UdpTcp!Wait
    <3>3. KernelInv
      BY <3>1, KernelInit
    <3>4. phase = [p \in Peers |-> "new"] /\ file = [f \in Fds |-> NoPeer]
      BY <3>1 DEF SocketsInit
    <3>5. MaxDatagrams \in Nat
      BY EchoServersAssumption
    <3>6. QED
      BY <3>2, <3>3, <3>4, <3>5, Descriptors DEF ProcInv, ProcTypes, ProcConns, ProcReady
  <2>2. QED
    BY <2>1 DEF Init
<1>2. I /\ [Next]_vars => I'
  <2>1. ASSUME ProcInv, UNCHANGED vars
        PROVE  ProcInv'
    BY <2>1 DEF vars, svars, procvars, ProcInv, ProcTypes, ProcConns, ProcReady, KernelInv, SocketsType,
                ConnInv, QueueInv
  <2>2. ASSUME ProcInv, PeerStep
        PROVE  ProcInv'
    <3>1. PICK p \in Peers : Peer(p) /\ UNCHANGED <<kind, procvars, rset, spc>>
      BY <2>2 DEF PeerStep
    <3>2. KernelInv' /\ file' = file
      BY <2>2, <3>1, PeerKeeps DEF ProcInv
    <3>3. /\ \A q \in Peers : phase'[q] = "open" <=> phase[q] = "open"
          /\ backlog # <<>> => backlog' # <<>>
      BY <2>2, <3>1 DEF Peer, connect, send, shutdown, reset, ProcInv, KernelInv, SocketsType
    <3>4. QED
      BY <2>2, <3>1, <3>2, <3>3 DEF procvars, ProcInv, ProcTypes, ProcConns, ProcReady
  <2>3. ASSUME ProcInv, ProcMove, kind' = kind
        PROVE  ProcInv'
    BY <2>3, ProcInvConns, ProcInvChild, ProcInvCalm DEF ProcMove
  <2>4. QED
    BY <2>1, <2>2, <2>3, OneServer, ProcessMoves, UdpTcpMoves
<1>3. QED
  BY <1>1, <1>2, PTL DEF Spec

\* The flags of the signal; and while the parent runs, a zombie has its SIGCHLD pending or
\* the handler is running.
ProcSignals ==
    /\ sigchld \in BOOLEAN /\ handler \in BOOLEAN
    /\ spc # "exit" => (\A p \in Peers : child[p] # "zombie") \/ sigchld \/ handler

\* No step of either server forgets a child.
LEMMA ProcSignalsMove ==
    ASSUME ProcTypes, ProcSignals, ProcMove
    PROVE  ProcSignals'
<1> USE DEF sigstate, udpstate
<1>1. CASE \/ ProcDatagram \/ ProcSelect \/ ProcAccept \/ ProcFork \/ ProcExit \/ ProcClose
           \/ ProcUdpEcho \/ ProcAgain \/ ProcReap \/ \E p \in Peers : ProcChildEcho(p)
  <2>1. UNCHANGED <<sigchld, handler>>
    BY <1>1 DEF ProcDatagram, ProcSelect, ProcAccept, ProcFork, ProcExit, ProcClose, ProcUdpEcho,
                ProcAgain, ProcReap, ProcChildEcho
  <2>2. spc' # "exit" => spc # "exit"
    BY <1>1 DEF ProcDatagram, ProcSelect, ProcAccept, ProcFork, ProcExit, ProcClose, ProcUdpEcho,
                ProcAgain, ProcReap, ProcChildEcho
  <2>3. \A q \in Peers : child'[q] = "zombie" => child[q] = "zombie"
    BY <1>1 DEF ProcDatagram, ProcSelect, ProcAccept, ProcFork, ProcExit, ProcClose, ProcUdpEcho,
                ProcAgain, ProcReap, ProcChildEcho, ProcTypes
  <2>4. QED
    BY <2>1, <2>2, <2>3, Zenon DEF ProcSignals
<1>2. CASE ProcSignal
  BY <1>2, Zenon DEF ProcSignal, ProcSignals
<1>3. CASE ProcReturn
  <2>1. handler' = FALSE /\ sigchld' = sigchld /\ \A p \in Peers : child'[p] # "zombie"
    BY <1>3 DEF ProcReturn
  <2>2. QED
    BY <2>1, Zenon DEF ProcSignals
<1>4. CASE \E p \in Peers : ProcChildExit(p)
  BY <1>4, Zenon DEF ProcChildExit, ProcSignals
<1>5. QED
  BY <1>1, <1>2, <1>3, <1>4 DEF ProcMove

\* No zombie is forgotten, however signals coalesce.
LEMMA ProcSignalsInductive == Spec => [](kind \in {"process", "udptcp"} => ProcSignals)
<1> DEFINE T == kind \in {"process", "udptcp"} => ProcInv
           I == kind \in {"process", "udptcp"} => ProcSignals
<1>1. Init => I
  <2>1. ASSUME Process!Init \/ UdpTcp!Init
        PROVE  ProcSignals
    <3>1. sigchld = FALSE /\ handler = FALSE /\ \A p \in Peers : child[p] # "zombie"
      BY <2>1 DEF Process!Init, UdpTcp!Init
    <3>2. QED
      BY <3>1, Zenon DEF ProcSignals
  <2>2. QED
    BY <2>1 DEF Init
<1>2. T /\ I /\ [Next]_vars => I'
  <2>1. ASSUME ProcSignals, PeerStep \/ UNCHANGED vars
        PROVE  ProcSignals'
    BY <2>1, Zenon DEF PeerStep, vars, procvars, ProcSignals
  <2>2. QED
    BY <2>1, OneServer, ProcessMoves, UdpTcpMoves, ProcSignalsMove DEF ProcInv
<1>3. QED
  BY <1>1, <1>2, ProcInductive, PTL DEF Spec

-----------------------------------------------------------------------------
(* What the other proofs left open: which server runs, histories, and the end *)

\* One of the servers runs.
LEMMA KindInductive == Spec => [](kind \in AllKinds)
<1>1. Init => kind \in AllKinds
  BY EchoServersAssumption DEF Init
<1>2. kind \in AllKinds /\ [Next]_vars => (kind \in AllKinds)'
  BY OneServer
<1>3. QED
  BY <1>1, <1>2, PTL DEF Spec

\* The history of overwritten buffers is a flag.
LEMMA ClashInductive ==
    Spec => [](kind \in {"demo1", "thread", "demo2", "demo3"} => clash \in BOOLEAN)
<1> DEFINE I == kind \in {"demo1", "thread", "demo2", "demo3"} => clash \in BOOLEAN
<1>1. Init => I
  <2>1. ASSUME Demo1!Init \/ Thread!Init \/ Demo2!Init \/ Demo3!Init
        PROVE  clash \in BOOLEAN
    BY <2>1, Zenon DEF Demo1!Init, Thread!Init, Demo2!Init, Demo3!Init
  <2>2. QED
    BY <2>1 DEF Init
<1>2. I /\ [Next]_vars => I'
  <2>1. ASSUME clash \in BOOLEAN, PeerStep \/ UNCHANGED vars
        PROVE  clash' \in BOOLEAN
    BY <2>1 DEF PeerStep, vars
  <2>2. ASSUME clash \in BOOLEAN, ThreadMove
        PROVE  clash' \in BOOLEAN
    <3>1. UNCHANGED clash \/ clash' = (clash \/ \E u \in Threads : tpc[u] = "start")
      BY <2>2, Zenon DEF ThreadMove, ThreadsDie, ThreadNew, ThreadStart, ThreadRead, ThreadWrite,
                         ThreadClose
    <3>2. QED
      BY <2>2, <3>1, Zenon
  <2>3. ASSUME clash \in BOOLEAN, Demo2!Server
        PROVE  clash' \in BOOLEAN
    <3>1. \/ UNCHANGED clash
          \/ clash' = (clash \/ wfds_in # {})
          \/ \E f \in Fds : clash' = (clash \/ wfds_in \ {f} # {})
      BY <2>3, Demo2Kernel, Zenon
      DEF Demo2!Server, Demo2!select, Demo2!turn, Demo2!accept, Demo2!accept_fails, Demo2!recv_data,
          Demo2!recv_eof, Demo2!recv_error, Demo2!send_reply, Demo2!send_sigpipe, Demo2!datavars
    <3>2. QED
      BY <2>3, <3>1, Zenon
  <2>4. ASSUME clash \in BOOLEAN, Demo3!Server
        PROVE  clash' \in BOOLEAN
    <3>1. UNCHANGED clash \/ clash' = (clash \/ \E g \in Demo3!Fds : reg[g] = "out")
      BY <2>4, Zenon
      DEF Demo3!Server, Demo3!epoll_wait, Demo3!accept, Demo3!accept_break, Demo3!recv_data,
          Demo3!recv_end, Demo3!send_reply, Demo3!send_sigpipe
    <3>2. QED
      BY <2>4, <3>1, Zenon
  <2>5. QED
    BY <2>1, <2>2, <2>3, <2>4, OneServer, Demo1Moves, ThreadMoves
<1>3. QED
  BY <1>1, <1>2, PTL DEF Spec

\* demo3 leaves nothing open when SIGPIPE ends it.
LEMMA Demo3ExitInductive == Spec => [](kind = "demo3" /\ spc = "exit" => OpenFds = {})
<1> DEFINE I == kind = "demo3" /\ spc = "exit" => OpenFds = {}
<1>1. Init => I
  <2>1. Demo3!Init => spc # "exit"
    BY DEF Demo3!Init
  <2>2. QED
    BY <2>1 DEF Init
<1>2. I /\ [Next]_vars => I'
  <2>1. ASSUME Demo3!Server, spc' = "exit"
        PROVE  OpenFds' = {}
    <3>1. Exits
      BY <2>1, Demo3Kernel
      DEF Demo3!Server, Demo3!epoll_wait, Demo3!accept, Demo3!accept_break, Demo3!recv_data,
          Demo3!recv_end, Demo3!send_reply, Demo3!send_sigpipe, Demo3!Handled
    <3>2. QED
      BY <3>1 DEF Exits, OpenFds
  <2>2. UNCHANGED vars => OpenFds' = OpenFds /\ spc' = spc
    BY DEF vars, svars, OpenFds
  <2>3. PeerStep => spc' = spc /\ spc # "exit"
    BY DEF PeerStep
  <2>4. QED
    BY <2>1, <2>2, <2>3, OneServer
<1>3. QED
  BY <1>1, <1>2, PTL DEF Spec

-----------------------------------------------------------------------------
(* What holds of all the servers *)

\* Whose bytes a peer is sent: by the reactor its own, however items and buffers are
\* reused; by demo2, demo1 and thread its own until two connections need the buffer or
\* clientfd at the same time; by demo3, until then, its own first and behind them what
\* longer messages of others left in the buffer.
THEOREM OwnBytesHolds == Spec => []OwnBytes
<1>1. ASSUME kind = "reactor" => ReactInv, kind = "demo2" => Demo2Inv, kind = "demo3" => Demo3Inv,
             kind \in {"demo1", "thread"} => ThreadInv
      PROVE  OwnBytes
  <2>1. kind = "demo3" => Demo3!OwnBytes
    BY <1>1, Demo3Kernel DEF Demo3!OwnBytes, Demo3Inv, Demo3Bytes, Front, Leftovers, Owed, OpenFds
  <2>2. QED
    BY <1>1, <2>1 DEF OwnBytes, React!OwnBytes, Demo2!OwnBytes, Thread!OwnBytes,
                      ReactInv, ReactBytes, Demo2Inv, Demo2Bytes, ThreadInv, ThreadBytes
<1>2. QED
  BY <1>1, ReactInductive, Demo2Inductive, Demo3Inductive, ThreadInductive, PTL

\* The scan of the select() server reads where select() reported something.
LEMMA SelectNeverBlocks ==
    ASSUME KernelInv, SelectTypes, SelectInv
    PROVE  Select!NeverBlocks
<1>1. Select!ReadySlots = Due /\ \A f : Select!ReadBlocks(f) <=> ~Readable(f) /\ file[f] # NoPeer
  BY SelectKernel DEF Select!ReadySlots, Due, Select!ReadBlocks
<1>2. QED
  BY <1>1 DEF Select!NeverBlocks, Select!IsNext, SelectInv, SelectTurn

\* And so does that of the poll() server, although the entry that accept() has just added
\* may have an old revents.
LEMMA PollNeverBlocks ==
    ASSUME PollInv
    PROVE  Poll!NeverBlocks
<1>1. SUFFICES ASSUME NEW j \in Slot, spc = "scan", Poll!IsNext(j)
               PROVE  ~Poll!ReadBlocks(fd[j])
  BY PollKernel DEF Poll!NeverBlocks
<1>2. j \in PollDue /\ \A k \in PollDue : j <= k
  BY <1>1, PollKernel DEF Poll!IsNext, Poll!ReadySlots, PollDue
<1>3. Readable(fd[j])
  BY <1>1, <1>2, PollNext
<1>4. QED
  BY <1>3, PollKernel DEF ReadBlocks

\* A server with blocking descriptors never waits for one peer while it has others to serve:
\* what select(), poll() or epoll_wait() reported is still true when it is acted upon,
\* whatever the peers and the scan itself did in between; as long as the memset() of the
\* select() server suffices.
THEOREM NeverBlocksHolds ==
    ASSUME Memset
    PROVE  Spec => []NeverBlocks
<1>1. ASSUME kind = "select" => KernelInv /\ SelectTypes, kind = "select" => SelectInv,
             kind = "poll" => PollInv, kind = "epoll" => EpollInv,
             kind \in {"process", "udptcp"} => ProcInv
      PROVE  NeverBlocks
  <2>1. kind = "epoll" => Epoll!NeverBlocks
    BY <1>1, EpollKernel DEF Epoll!NeverBlocks, EpollInv
  <2>2. kind = "udptcp" => UdpTcp!NeverBlocks
    BY <1>1 DEF UdpTcp!NeverBlocks, ProcInv, ProcReady
  <2>3. QED
    BY <1>1, <2>1, <2>2, SelectNeverBlocks, PollNeverBlocks DEF NeverBlocks
<1>2. QED
  BY <1>1, SelectTypeInductive, SelectInductive, PollInductive, EpollInductive, ProcInductive, PTL

\* One owner is one thread.
LEMMA ThreadOwners ==
    ASSUME ThreadTable, ThreadTypes, NEW f \in OpenFds
    PROVE  Cardinality({t \in Threads : tpc[t] \in {"read", "write"} /\ tfd[t] \in Fds /\ tfd[t] = f}
                       \cup {t \in Threads : tpc[t] = "start" /\ clientfd = f}) = 1
<1> DEFINE O == {t \in Threads : tpc[t] \in {"read", "write"} /\ tfd[t] \in Fds /\ tfd[t] = f}
                \cup {t \in Threads : tpc[t] = "start" /\ clientfd = f}
<1>1. f \in Fds /\ file[f] # NoPeer
  BY DEF OpenFds
<1>2. \A t \in Threads : t \in O <=> Owner(t, f)
  BY <1>1 DEF Owner
<1>3. PICK t \in Threads : Owner(t, f)
  BY <1>1 DEF ThreadTable
<1>4. \A u \in Threads : Owner(u, f) => u = t
  BY <1>1, <1>3 DEF ThreadTable
<1>5. O = {t}
  BY <1>2, <1>3, <1>4
<1>6. QED
  BY <1>5, FS_Singleton

\* Each thread serves a descriptor that is open.
LEMMA ThreadAgrees ==
    ASSUME ThreadInv
    PROVE  Demo1!OneThreadEach /\ Thread!OneThreadEach
<1>1. ASSUME spc = "run", ~clash
      PROVE  /\ \A f \in OpenFds :
                   Cardinality({t \in Threads : tpc[t] \in {"read", "write"} /\ tfd[t] \in Fds
                                                /\ tfd[t] = f}
                               \cup {t \in Threads : tpc[t] = "start" /\ clientfd = f}) = 1
             /\ \A t \in Threads : tpc[t] \in {"read", "write"} /\ tfd[t] \in Fds => tfd[t] \in OpenFds
  <2>1. ThreadTable /\ ThreadTypes
    BY <1>1 DEF ThreadInv
  <2>2. \A t \in Threads : tpc[t] \in {"read", "write"} /\ tfd[t] \in Fds => tfd[t] \in OpenFds
    BY <2>1 DEF ThreadTable, Owner, OpenFds
  <2>3. QED
    BY <2>1, <2>2, ThreadOwners
<1>2. /\ Demo1!Threads = Threads /\ Demo1!OpenFds = OpenFds /\ Demo1!Fds = Fds
      /\ Thread!Threads = Threads /\ Thread!OpenFds = OpenFds /\ Thread!Fds = Fds
  BY Demo1Kernel, ThreadKernel DEF Demo1!Threads, Thread!Threads, Threads
<1>3. Demo1!OneThreadEach
  BY <1>1, <1>2, Demo1Kernel DEF Demo1!OneThreadEach, Demo1!Live
<1>4. Thread!OneThreadEach
  BY <1>1, <1>2, ThreadKernel DEF Thread!OneThreadEach, Thread!Live
<1>5. QED
  BY <1>3, <1>4

\* The tables of the two servers that scan an array.
LEMMA ScansAgree ==
    /\ SelectTypes /\ SelectInv => Select!TablesAgree
    /\ PollInv => Poll!TableAgrees
<1>1. ASSUME SelectTypes, SelectInv, spc # "exit"
      PROVE  Select!TablesAgree
  <2>1. SelectTables /\ \A j \in 0..maxidx : j \in Slot /\ j <= maxidx
    BY <1>1, SlotsFinite DEF SelectInv, SelectTypes, Slot
  <2>2. QED
    BY <2>1, SelectKernel DEF Select!TablesAgree, SelectTables
<1>2. ASSUME PollInv, spc # "exit"
      PROVE  Poll!TableAgrees
  <2>1. PollTable /\ \A j \in Slot \ {0} : j <= maxidx => j \in 1..maxidx
    BY <1>2, SlotsFinite DEF PollInv, PollTypes, Slot
  <2>2. QED
    BY <2>1, PollKernel DEF Poll!TableAgrees, PollTable
<1>3. QED
  BY <1>1, <1>2 DEF Select!TablesAgree, Poll!TableAgrees

\* Those of the servers that wait for events.
LEMMA EventsAgree ==
    /\ EpollInv => Epoll!RegisteredIsOpen
    /\ ReactInv => React!ItemsAgree
    /\ LibevInv => Libev!WatchersAgree
    /\ Demo2Inv => Demo2!OpenIsWatched
    /\ Demo3Inv /\ (spc = "exit" => OpenFds = {}) => Demo3!NoLostEdge
<1>1. EpollInv => Epoll!RegisteredIsOpen
  BY EpollKernel DEF EpollInv, Epoll!RegisteredIsOpen
<1>2. ReactInv => React!ItemsAgree
  BY ReactKernel DEF ReactInv, ReactItems, React!ItemsAgree, OpenFds, Covers
<1>3. LibevInv => Libev!WatchersAgree
  BY LibevKernel DEF LibevInv, LiveFds, Libev!WatchersAgree, Sources
<1>4. Demo2Inv => Demo2!OpenIsWatched
  BY Demo2Kernel, Descriptors
  DEF Demo2Inv, Demo2Types, Demo2Watch, Demo2!OpenIsWatched, OpenFds, Sources
<1>5. Demo3Inv /\ (spc = "exit" => OpenFds = {}) => Demo3!NoLostEdge
  BY Demo3Kernel DEF Demo3Inv, Demo3Edges, Waiting, Demo3!NoLostEdge, OpenFds
<1>6. QED
  BY <1>1, <1>2, <1>3, <1>4, <1>5

\* Those of the servers that fork.
LEMMA ChildrenAgree ==
    ASSUME ProcInv, ProcSignals
    PROVE  Process!NoneForgotten /\ UdpTcp!NoneForgotten
  BY DEF ProcInv, ProcConns, ProcSignals, Process!NoneForgotten, UdpTcp!NoneForgotten,
         Process!Zombies, UdpTcp!Zombies

\* What a server knows of its connections agrees with those that are open, whatever was
\* closed and whichever descriptor was reused: slots, sets and bounds of the scans, what
\* is registered, items and buffers, edges, watchers, threads and children; as long as
\* the memset() of the select() server suffices.
THEOREM TablesAgreeHolds ==
    ASSUME Memset
    PROVE  Spec => []TablesAgree
<1>1. Spec => [](kind = "select" => Select!TablesAgree)
  <2>1. ASSUME kind = "select" => KernelInv /\ SelectTypes, kind = "select" => SelectInv
        PROVE  kind = "select" => Select!TablesAgree
    BY <2>1, ScansAgree
  <2>2. QED
    BY <2>1, SelectTypeInductive, SelectInductive, PTL
<1>2. Spec => [](kind = "demo3" => Demo3!NoLostEdge)
  <2>1. ASSUME kind = "demo3" => Demo3Inv, kind = "demo3" /\ spc = "exit" => OpenFds = {}
        PROVE  kind = "demo3" => Demo3!NoLostEdge
    BY <2>1, EventsAgree
  <2>2. QED
    BY <2>1, Demo3Inductive, Demo3ExitInductive, PTL
<1>3. Spec => [](kind \in {"process", "udptcp"} => Process!NoneForgotten /\ UdpTcp!NoneForgotten)
  <2>1. ASSUME kind \in {"process", "udptcp"} => ProcInv,
               kind \in {"process", "udptcp"} => ProcSignals
        PROVE  kind \in {"process", "udptcp"} => Process!NoneForgotten /\ UdpTcp!NoneForgotten
    BY <2>1, ChildrenAgree
  <2>2. QED
    BY <2>1, ProcInductive, ProcSignalsInductive, PTL
<1>4. ASSUME kind \in AllKinds,
             kind = "select" => Select!TablesAgree, kind = "demo3" => Demo3!NoLostEdge,
             kind \in {"process", "udptcp"} => Process!NoneForgotten /\ UdpTcp!NoneForgotten,
             kind = "poll" => PollInv, kind = "epoll" => EpollInv, kind = "reactor" => ReactInv,
             kind = "libev" => LibevInv, kind = "demo2" => Demo2Inv,
             kind \in {"demo1", "thread"} => ThreadInv
      PROVE  TablesAgree
  BY <1>4, ScansAgree, EventsAgree, ThreadAgrees DEF TablesAgree, AllKinds
<1>5. QED
  BY <1>1, <1>2, <1>3, <1>4, KindInductive, PollInductive, EpollInductive, ReactInductive,
     LibevInductive, Demo2Inductive, ThreadInductive, PTL

\* Each variable of the server that runs stays in its domain: in particular nready never
\* counts below zero, whatever client[] held at the start, no turn has more events than
\* events[] holds, and the reactor has no more blocks than its table has room for.
THEOREM TypeCorrect == Spec => []TypeOK
<1>1. KernelInv /\ SelectTypes => Select!TypeOK
  BY SelectKernel DEF KernelInv, SelectTypes, Select!TypeOK
<1>2. PollInv /\ revents \in [Slot -> BOOLEAN] => Poll!TypeOK
  BY PollKernel DEF PollInv, KernelInv, PollTypes, Poll!TypeOK
<1>3. EpollInv => Epoll!TypeOK
  BY EpollKernel DEF EpollInv, KernelInv, Epoll!TypeOK, OpenFds, Sources
<1>4. ReactInv => React!TypeOK
  BY ReactKernel DEF ReactInv, KernelInv, ReactTypes, React!TypeOK, MaxBlocks, Sources
<1>5. LibevInv => Libev!TypeOK
  <2>1. ASSUME LibevInv
        PROVE  total_clients \in Nat
    <3>1. LiveFds \subseteq Fds
      BY DEF LiveFds
    <3>2. QED
      BY <2>1, <3>1, LiveFinite DEF LibevInv
  <2>2. QED
    BY <2>1, LibevKernel DEF LibevInv, KernelInv, Libev!TypeOK, Sources
<1>6. Demo2Inv /\ clash \in BOOLEAN => Demo2!TypeOK
  BY Demo2Kernel DEF Demo2Inv, KernelInv, Demo2Types, Demo2!TypeOK, Sources
<1>7. Demo3Inv /\ clash \in BOOLEAN => Demo3!TypeOK
  BY Demo3Kernel DEF Demo3Inv, KernelInv, Demo3Types, Demo3!TypeOK, Demo3!Buffer, Sources
<1>8. ThreadInv /\ clash \in BOOLEAN => Demo1!TypeOK /\ Thread!TypeOK
  BY Demo1Kernel, ThreadKernel DEF ThreadInv, KernelInv, ThreadTypes, Demo1!TypeOK, Thread!TypeOK,
    Threads, Demo1!Threads, Thread!Threads
<1>9. ProcInv /\ ProcSignals => Process!TypeOK /\ UdpTcp!TypeOK
  <2>1. MaxDatagrams \in Nat
    BY EchoServersAssumption
  <2>2. (Process!SocketsType <=> SocketsType) /\ (UdpTcp!SocketsType <=> SocketsType)
    BY DEF Process!SocketsType, UdpTcp!SocketsType, SocketsType, Process!Fds, UdpTcp!Fds, Fds
  <2>3. ProcTypes => queue \in 0..MaxDatagrams /\ answered \in 0..MaxDatagrams
    BY <2>1 DEF ProcTypes
  <2>4. QED
    BY <2>2, <2>3 DEF ProcInv, KernelInv, ProcTypes, ProcSignals, Process!TypeOK, UdpTcp!TypeOK
<1> DEFINE A == /\ kind \in AllKinds /\ (kind = "select" => KernelInv /\ SelectTypes)
                /\ (kind = "poll" => PollInv) /\ (kind = "poll" => revents \in [Slot -> BOOLEAN])
                /\ (kind = "epoll" => EpollInv)
           B == /\ (kind = "reactor" => ReactInv) /\ (kind = "libev" => LibevInv)
                /\ (kind = "demo2" => Demo2Inv) /\ (kind = "demo3" => Demo3Inv)
           C == /\ (kind \in {"demo1", "thread", "demo2", "demo3"} => clash \in BOOLEAN)
                /\ (kind \in {"demo1", "thread"} => ThreadInv)
                /\ (kind \in {"process", "udptcp"} => ProcInv)
                /\ (kind \in {"process", "udptcp"} => ProcSignals)
<1>10. A /\ B /\ C => TypeOK
  BY <1>1, <1>2, <1>3, <1>4, <1>5, <1>6, <1>7, <1>8, <1>9 DEF TypeOK, AllKinds
<1>11. Spec => []A
  BY KindInductive, SelectTypeInductive, PollInductive, ReventsInductive, EpollInductive, PTL
<1>12. Spec => []B
  BY ReactInductive, LibevInductive, Demo2Inductive, Demo3Inductive, PTL
<1>13. Spec => []C
  BY ClashInductive, ThreadInductive, ProcInductive, ProcSignalsInductive, PTL
<1> HIDE DEF A, B, C
<1>14. QED
  BY <1>10, <1>11, <1>12, <1>13, PTL
=============================================================================
