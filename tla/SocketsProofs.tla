---------------------------- MODULE SocketsProofs ----------------------------
(***************************************************************************)
(* What the kernel keeps whatever a server does: the lemmas on which the   *)
(* proofs about every server rest.                                         *)
(***************************************************************************)
EXTENDS Sockets, FiniteSetTheorems, TLAPS

\* A descriptor stands for a connection that was accepted, and no two for the same.
ConnInv ==
    /\ \A f \in Fds : file[f] # NoPeer => phase[file[f]] = "open"
    /\ \A f, g \in Fds : file[f] = file[g] /\ file[f] # NoPeer => f = g

\* Who waits for accept() waits once.
QueueInv ==
    /\ \A k \in 1..Len(backlog) : phase[backlog[k]] = "queued"
    /\ \A j, k \in 1..Len(backlog) : backlog[j] = backlog[k] => j = k

KernelInv == SocketsType /\ ConnInv /\ QueueInv

\* The descriptors are numbered from 1, the listening one is 0.
LEMMA Descriptors ==
    /\ Fds = 1..MaxFd /\ Fds \subseteq Nat /\ Listen = 0 /\ Listen \notin Fds
    /\ MaxFd \in Nat /\ MaxFd > 0 /\ MaxSend \in Nat /\ NoPeer \notin Peers
    /\ IsFiniteSet(Fds) /\ Cardinality(Fds) = MaxFd
<1>1. MaxFd \in Nat /\ MaxFd > 0 /\ MaxSend \in Nat /\ NoPeer \notin Peers
  BY SocketsAssumption
<1>2. IsFiniteSet(1..MaxFd) /\ Cardinality(1..MaxFd) = MaxFd
  <2>1. IsFiniteSet(1..MaxFd) /\ Cardinality(1..MaxFd) = IF 1 > MaxFd THEN 0 ELSE MaxFd - 1 + 1
    BY <1>1, FS_Interval
  <2>2. QED
    BY <1>1, <2>1
<1>3. QED
  BY <1>1, <1>2 DEF Fds, Listen

\* At the start nobody is connected.
LEMMA KernelInit ==
    ASSUME SocketsInit
    PROVE  KernelInv /\ OpenFds = {} /\ \A p \in Peers : back[p] = 0 /\ got[p] = 0
  BY Descriptors
  DEF SocketsInit, KernelInv, SocketsType, ConnInv, QueueInv, OpenFds

\* A peer touches nothing that is the server's, and takes nothing back: what can be
\* read stays so.
LEMMA PeerKeeps ==
    ASSUME KernelInv, NEW p \in Peers, Peer(p)
    PROVE  /\ KernelInv'
           /\ UNCHANGED <<file, got, back>> /\ OpenFds' = OpenFds
           /\ \A q \in Peers : sent[q] <= sent'[q]
           /\ \A f \in Fds \cup {Listen} : Readable(f) => Readable(f)'
<1> USE Descriptors
<1>1. CASE connect(p)
  <2>1. /\ phase[p] = "new" /\ phase' = [phase EXCEPT ![p] = "queued"]
        /\ backlog' = Append(backlog, p) /\ UNCHANGED <<file, sent, got, back, fin, err>>
    BY <1>1 DEF connect
  <2>2. /\ backlog \in Seq(Peers) /\ Len(backlog) \in Nat
        /\ backlog' \in Seq(Peers) /\ Len(backlog') = Len(backlog) + 1
        /\ backlog'[Len(backlog) + 1] = p
        /\ \A k \in 1..Len(backlog) : backlog'[k] = backlog[k] /\ backlog[k] \in Peers
    BY <2>1 DEF KernelInv, SocketsType
  <2>3. SocketsType'
    BY <2>1, <2>2 DEF KernelInv, SocketsType
  <2>4. ConnInv'
    BY <2>1 DEF KernelInv, SocketsType, ConnInv
  <2>5. QueueInv'
    <3>1. \A k \in 1..Len(backlog) : phase[backlog[k]] = "queued" /\ backlog[k] # p
      BY <2>1 DEF KernelInv, QueueInv
    <3>2. \A k \in 1..Len(backlog') : phase'[backlog'[k]] = "queued"
      BY <2>1, <2>2, <3>1 DEF KernelInv, SocketsType
    <3>3. ASSUME NEW j \in 1..Len(backlog'), NEW k \in 1..Len(backlog'), backlog'[j] = backlog'[k]
          PROVE  j = k
      BY <2>2, <3>1, <3>3 DEF KernelInv, QueueInv
    <3>4. QED
      BY <3>2, <3>3 DEF QueueInv
  <2>6. backlog' # <<>>
    BY <2>2
  <2>7. \A q \in Peers : sent[q] <= sent'[q]
    <3>1. \A q \in Peers : sent[q] \in Nat /\ sent'[q] = sent[q]
      BY <2>1 DEF KernelInv, SocketsType
    <3>2. QED
      BY <3>1
  <2>8. \A f \in Fds \cup {Listen} : Readable(f) => Readable(f)'
    BY <2>1, <2>6 DEF Readable
  <2>9. QED
    BY <2>1, <2>3, <2>4, <2>5, <2>7, <2>8 DEF KernelInv, OpenFds
<1>2. CASE send(p)
  <2>1. /\ sent' = [sent EXCEPT ![p] = @ + 1] /\ sent[p] < MaxSend
        /\ UNCHANGED <<backlog, file, phase, got, back, fin, err>>
    BY <1>2 DEF send
  <2>2. KernelInv'
    BY <2>1 DEF KernelInv, SocketsType, ConnInv, QueueInv
  <2>3. \A q \in Peers : sent[q] <= sent'[q] /\ sent[q] \in Nat /\ sent'[q] \in Nat /\ got[q] \in Nat
    <3>1. \A q \in Peers : sent[q] \in Nat /\ got[q] \in Nat
      BY DEF KernelInv, SocketsType
    <3>2. \A q \in Peers : sent'[q] = IF q = p THEN sent[q] + 1 ELSE sent[q]
      BY <2>1 DEF KernelInv, SocketsType
    <3>3. QED
      BY <3>1, <3>2
  <2>4. ASSUME NEW f \in Fds \cup {Listen}, Readable(f)
        PROVE  Readable(f)'
    <3>1. CASE f = Listen
      BY <2>1, <2>4, <3>1 DEF Readable
    <3>2. CASE f # Listen
      <4>1. f \in Fds /\ file[f] \in Peers
        BY <2>4, <3>2 DEF KernelInv, SocketsType, Readable
      <4>2. QED
        BY <2>1, <2>3, <2>4, <3>2, <4>1 DEF Readable
    <3>3. QED
      BY <3>1, <3>2
  <2>5. QED
    BY <2>1, <2>2, <2>3, <2>4 DEF OpenFds
<1>3. CASE shutdown(p)
  BY <1>3 DEF shutdown, KernelInv, SocketsType, ConnInv, QueueInv, Readable, OpenFds
<1>4. CASE reset(p)
  BY <1>4 DEF reset, KernelInv, SocketsType, ConnInv, QueueInv, Readable, OpenFds
<1>5. QED
  BY <1>1, <1>2, <1>3, <1>4 DEF Peer

\* accept() takes the oldest of the queue; nobody else loses his place.
LEMMA QueueTakes ==
    ASSUME KernelInv, backlog # <<>>, backlog' = Tail(backlog),
           phase' = [phase EXCEPT ![Head(backlog)] = "open"]
    PROVE  /\ Head(backlog) \in Peers /\ phase[Head(backlog)] = "queued"
           /\ backlog' \in Seq(Peers) /\ QueueInv'
<1>1. PICK p \in Peers : p = Head(backlog)
  BY DEF KernelInv, SocketsType
<1>2. /\ Len(backlog) \in Nat \ {0} /\ p = backlog[1] /\ phase[p] = "queued"
      /\ backlog' \in Seq(Peers) /\ Len(backlog') = Len(backlog) - 1
      /\ \A k \in 1..Len(backlog') : backlog'[k] = backlog[k + 1] /\ k + 1 \in 1..Len(backlog)
  <2>1. /\ Len(backlog) \in Nat \ {0} /\ p = backlog[1]
        /\ backlog' \in Seq(Peers) /\ Len(backlog') = Len(backlog) - 1
        /\ \A k \in 1..(Len(backlog) - 1) : backlog'[k] = backlog[k + 1]
    BY <1>1 DEF KernelInv, SocketsType
  <2>2. 1 \in 1..Len(backlog) /\ \A k \in 1..Len(backlog') : k + 1 \in 1..Len(backlog)
    BY <2>1
  <2>3. QED
    BY <2>1, <2>2 DEF KernelInv, QueueInv
<1>3. ASSUME NEW k \in 1..Len(backlog')
      PROVE  phase'[backlog'[k]] = "queued"
  <2>1. backlog'[k] = backlog[k + 1] /\ k + 1 \in 1..Len(backlog)
    BY <1>2
  <2>2. 1 \in 1..Len(backlog) /\ k + 1 # 1
    BY <1>2
  <2>3. backlog'[k] # p /\ phase[backlog'[k]] = "queued"
    BY <1>2, <2>1, <2>2 DEF KernelInv, QueueInv
  <2>4. backlog'[k] \in Peers
    BY <1>2
  <2>5. QED
    BY <1>1, <2>3, <2>4 DEF KernelInv, SocketsType
<1>4. ASSUME NEW j \in 1..Len(backlog'), NEW k \in 1..Len(backlog'), backlog'[j] = backlog'[k]
      PROVE  j = k
  <2>1. j + 1 = k + 1
    BY <1>2, <1>4 DEF KernelInv, QueueInv
  <2>2. QED
    BY <1>2, <2>1
<1>5. QED
  BY <1>1, <1>2, <1>3, <1>4 DEF QueueInv

\* accept() gives a descriptor that was free to the oldest of the queue.
LEMMA AcceptsKeeps ==
    ASSUME KernelInv, NEW f \in Fds, Accepts(f)
    PROVE  /\ KernelInv'
           /\ f \notin OpenFds /\ file[f] = NoPeer /\ OpenFds' = OpenFds \cup {f}
           /\ file'[f] \in Peers /\ phase[file'[f]] = "queued" /\ phase'[file'[f]] = "open"
           /\ \A g \in Fds \ {f} : file'[g] = file[g]
           /\ \A g \in Fds : file[g] # file'[f]
           /\ UNCHANGED <<sent, got, back, fin, err>>
           /\ \A g \in Fds : Readable(g) => Readable(g)'
<1> USE Descriptors
<1>1. /\ Head(backlog) \in Peers /\ phase[Head(backlog)] = "queued"
      /\ backlog' \in Seq(Peers) /\ QueueInv'
  BY QueueTakes DEF Accepts
<1>2. PICK p \in Peers : p = Head(backlog)
  BY <1>1
<1>3. /\ backlog # <<>> /\ f \notin OpenFds /\ file[f] = NoPeer
      /\ file' = [file EXCEPT ![f] = p] /\ phase' = [phase EXCEPT ![p] = "open"]
      /\ UNCHANGED <<sent, got, back, fin, err>>
  BY <1>2 DEF Accepts, OpenFds
<1>4. SocketsType'
  BY <1>1, <1>3 DEF KernelInv, SocketsType
<1>5. \A g \in Fds : file[g] # p
  BY <1>1, <1>2 DEF KernelInv, ConnInv
<1>6. ConnInv'
  <2>1. \A g \in Fds : file'[g] = IF g = f THEN p ELSE file[g]
    BY <1>3 DEF KernelInv, SocketsType
  <2>2. \A q \in Peers : phase'[q] = IF q = p THEN "open" ELSE phase[q]
    BY <1>3 DEF KernelInv, SocketsType
  <2>3. \A g \in Fds : file[g] \in Peers \cup {NoPeer}
    BY DEF KernelInv, SocketsType
  <2>4. QED
    BY <1>5, <2>1, <2>2, <2>3 DEF KernelInv, ConnInv
<1>7. OpenFds' = OpenFds \cup {f}
  BY <1>3 DEF OpenFds, KernelInv, SocketsType
<1>8. \A g \in Fds : Readable(g) => Readable(g)'
  BY <1>3 DEF Readable, KernelInv, SocketsType
<1>9. QED
  BY <1>1, <1>2, <1>3, <1>4, <1>5, <1>6, <1>7, <1>8 DEF KernelInv, SocketsType

\* close() frees the descriptor and ends its connection; the others are as before.
LEMMA ClosesKeeps ==
    ASSUME KernelInv, NEW f \in Fds, Closes(f)
    PROVE  /\ KernelInv'
           /\ OpenFds' = OpenFds \ {f} /\ file'[f] = NoPeer
           /\ \A g \in Fds \ {f} : file'[g] = file[g]
           /\ UNCHANGED <<backlog, sent, got, back, fin, err>>
           /\ \A g \in (Fds \cup {Listen}) \ {f} : Readable(g) => Readable(g)'
<1> USE Descriptors
<1>1. /\ file' = [file EXCEPT ![f] = NoPeer]
      /\ phase' = [p \in Peers |-> IF file[f] = p THEN "gone" ELSE phase[p]]
      /\ UNCHANGED <<backlog, sent, got, back, fin, err>>
  BY DEF Closes
<1>2. \A g \in Fds : file'[g] = IF g = f THEN NoPeer ELSE file[g]
  BY <1>1 DEF KernelInv, SocketsType
<1>3. SocketsType'
  BY <1>1 DEF KernelInv, SocketsType
<1>4. ConnInv'
  BY <1>1, <1>2 DEF KernelInv, SocketsType, ConnInv
<1>5. QueueInv'
  <2>1. \A k \in 1..Len(backlog) : backlog[k] \in Peers /\ phase[backlog[k]] = "queued"
    BY DEF KernelInv, SocketsType, QueueInv
  <2>2. file[f] \in Peers => phase[file[f]] = "open"
    BY DEF KernelInv, ConnInv
  <2>3. QED
    BY <1>1, <2>1, <2>2 DEF KernelInv, QueueInv
<1>6. OpenFds' = OpenFds \ {f}
  BY <1>2 DEF OpenFds
<1>7. \A g \in (Fds \cup {Listen}) \ {f} : Readable(g) => Readable(g)'
  BY <1>1, <1>2 DEF Readable
<1>8. QED
  BY <1>1, <1>2, <1>3, <1>4, <1>5, <1>6, <1>7 DEF KernelInv

\* The end of the process leaves no descriptor.
LEMMA ExitsKeeps ==
    ASSUME KernelInv, Exits
    PROVE  KernelInv' /\ OpenFds' = {} /\ UNCHANGED <<sent, got, back, fin, err>>
  BY Descriptors DEF Exits, KernelInv, SocketsType, ConnInv, QueueInv, OpenFds

\* What read() and write() leave alone.
Calm == UNCHANGED <<backlog, file, phase, sent, fin>>

\* They change the counters of p only.
OnlyOf(p) ==
    \A q \in Peers \ {p} : got'[q] = got[q] /\ back'[q] = back[q] /\ err'[q] = err[q]

\* A call that only moves counters keeps what the kernel keeps.
LEMMA CalmKeeps ==
    ASSUME KernelInv, Calm, SocketsType'
    PROVE  KernelInv' /\ OpenFds' = OpenFds
  BY DEF Calm, KernelInv, ConnInv, QueueInv, OpenFds

\* The descriptors of other connections stay readable.
LEMMA OthersReadable ==
    ASSUME KernelInv, Calm, NEW f \in Fds, file[f] # NoPeer, OnlyOf(file[f]),
           NEW g \in (Fds \cup {Listen}) \ {f}, Readable(g)
    PROVE  Readable(g)'
<1>1. CASE g = Listen
  BY <1>1 DEF Readable, Calm
<1>2. CASE g # Listen
  <2>1. g \in Fds /\ g # f /\ file[g] \in Peers /\ file[g] # file[f]
    BY <1>2, Descriptors DEF Readable, KernelInv, SocketsType, ConnInv
  <2>2. got'[file[g]] = got[file[g]]
    BY <2>1 DEF OnlyOf
  <2>3. QED
    BY <1>2, <2>2 DEF Readable, Calm
<1>3. QED
  BY <1>1, <1>2

\* read() of data.
LEMMA ReceivesKeeps ==
    ASSUME KernelInv, NEW p \in Peers, NEW n \in 1..MaxSend, Receives(p, n)
    PROVE  /\ KernelInv' /\ Calm /\ OnlyOf(p) /\ OpenFds' = OpenFds /\ back' = back
           /\ got'[p] = got[p] + n /\ err' = err
           /\ \A q \in Peers : got[q] <= got'[q]
<1>1. /\ n \in Nat /\ got' = [got EXCEPT ![p] = @ + n] /\ got[p] + n \in 0..MaxSend
      /\ UNCHANGED <<backlog, file, phase, sent, back, fin, err>>
  BY Descriptors DEF Receives, HasData, KernelInv, SocketsType
<1>2. SocketsType' /\ Calm /\ OnlyOf(p)
  BY <1>1 DEF KernelInv, SocketsType, Calm, OnlyOf
<1>3. got'[p] = got[p] + n /\ \A q \in Peers : got[q] <= got'[q]
  BY <1>1, Descriptors DEF KernelInv, SocketsType
<1>4. QED
  BY <1>1, <1>2, <1>3, CalmKeeps

\* read() or write() that reports an error.
LEMMA ReportsKeeps ==
    ASSUME KernelInv, NEW p \in Peers, Reports(p)
    PROVE  /\ KernelInv' /\ Calm /\ OnlyOf(p) /\ OpenFds' = OpenFds
           /\ UNCHANGED <<got, back>>
<1>1. SocketsType' /\ Calm /\ OnlyOf(p) /\ UNCHANGED <<got, back>>
  BY DEF Reports, KernelInv, SocketsType, Calm, OnlyOf
<1>2. QED
  BY <1>1, CalmKeeps

\* write().
LEMMA SendsKeeps ==
    ASSUME KernelInv, NEW p \in Peers, NEW n \in Nat, Sends(p, n)
    PROVE  /\ KernelInv' /\ Calm /\ OnlyOf(p) /\ OpenFds' = OpenFds /\ got' = got
           /\ back'[p] \in {back[p], back[p] + n}
<1>1. CASE back' = [back EXCEPT ![p] = @ + n] /\ UNCHANGED <<backlog, file, phase, sent, got, fin, err>>
  <2>1. SocketsType' /\ Calm /\ OnlyOf(p) /\ got' = got /\ back'[p] = back[p] + n
    BY <1>1 DEF KernelInv, SocketsType, Calm, OnlyOf
  <2>2. QED
    BY <2>1, CalmKeeps
<1>2. CASE Reports(p)
  BY <1>2, ReportsKeeps
<1>3. QED
  BY <1>1, <1>2 DEF Sends

\* read() and write() of the same data.
LEMMA SendsBackKeeps ==
    ASSUME KernelInv, NEW p \in Peers, NEW n \in 1..MaxSend, SendsBack(p, n)
    PROVE  /\ KernelInv' /\ Calm /\ OnlyOf(p) /\ OpenFds' = OpenFds
<1>1. /\ n \in Nat /\ got' = [got EXCEPT ![p] = @ + n] /\ got[p] + n \in 0..MaxSend
      /\ UNCHANGED <<backlog, file, phase, sent, fin>>
  BY Descriptors DEF SendsBack, HasData, KernelInv, SocketsType
<1>2. \/ err' = [err EXCEPT ![p] = "no"] /\ UNCHANGED back
      \/ back' = [back EXCEPT ![p] = @ + n] /\ UNCHANGED err
  <2>1. CASE fin[p] = "rst"
    BY <2>1 DEF SendsBack
  <2>2. CASE fin[p] # "rst"
    BY <2>2 DEF SendsBack
  <2>3. QED
    BY <2>1, <2>2
<1>3. Calm
  BY <1>1 DEF Calm
<1>4. SocketsType'
  <2>1. got' \in [Peers -> 0..MaxSend] /\ UNCHANGED <<backlog, file, phase, sent, fin>>
    BY <1>1 DEF KernelInv, SocketsType
  <2>2. back' \in [Peers -> Nat] /\ err' \in [Peers -> {"no", "reset", "pipe"}]
    <3>1. CASE err' = [err EXCEPT ![p] = "no"] /\ UNCHANGED back
      BY <3>1 DEF KernelInv, SocketsType
    <3>2. CASE back' = [back EXCEPT ![p] = @ + n] /\ UNCHANGED err
      BY <1>1, <3>2 DEF KernelInv, SocketsType
    <3>3. QED
      BY <1>2, <3>1, <3>2
  <2>3. QED
    BY <2>1, <2>2 DEF KernelInv, SocketsType
<1>5. OnlyOf(p)
  BY <1>1, <1>2 DEF OnlyOf, KernelInv, SocketsType
<1>6. QED
  BY <1>3, <1>4, <1>5, CalmKeeps
=============================================================================
