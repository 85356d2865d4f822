------------------------------ MODULE Sockets ------------------------------
(***************************************************************************)
(* What the single-process TCP servers under network/ see of the kernel    *)
(* and of their peers: a listen queue, a descriptor table that hands out   *)
(* the lowest free number, and byte streams that grow, end or are reset    *)
(* while the server works.  Data is counted in units of which one read()   *)
(* returns at least one; the server's own calls are operators that the     *)
(* server modules use inside their actions.  A reset connection reports its*)
(* error once; writing to it after that raises SIGPIPE.                    *)
(***************************************************************************)
EXTENDS Integers, Sequences, FiniteSets

CONSTANTS
    Peers,      \* the programs that may connect, each once
    NoPeer,     \* marks a free descriptor
    MaxFd,      \* the process's descriptor limit
    MaxSend     \* bound: how many units a peer sends

ASSUME SocketsAssumption ==
    /\ NoPeer \notin Peers
    /\ IsFiniteSet(Peers)
    /\ MaxFd \in Nat \ {0}
    /\ MaxSend \in Nat

VARIABLES
    backlog,    \* connections that wait for accept()
    file,       \* the connection behind each descriptor
    phase,      \* of each peer's connection
    sent,       \* units the peer sent
    got,        \* units read() returned to the server
    back,       \* units the server wrote back
    fin,        \* how the peer ended its stream
    err         \* the error the connection has yet to report

svars == <<backlog, file, phase, sent, got, back, fin, err>>

Listen == 0
Fds == 1..MaxFd

SocketsInit ==
    /\ backlog = <<>>
    /\ file = [f \in Fds |-> NoPeer]
    /\ phase = [p \in Peers |-> "new"]
    /\ sent = [p \in Peers |-> 0]
    /\ got = [p \in Peers |-> 0]
    /\ back = [p \in Peers |-> 0]
    /\ fin = [p \in Peers |-> "no"]
    /\ err = [p \in Peers |-> "no"]

SocketsType ==
    /\ backlog \in Seq(Peers)
    /\ file \in [Fds -> Peers \cup {NoPeer}]
    /\ phase \in [Peers -> {"new", "queued", "open", "gone"}]
    /\ sent \in [Peers -> 0..MaxSend]
    /\ got \in [Peers -> 0..MaxSend]
    /\ back \in [Peers -> Nat]
    /\ fin \in [Peers -> {"no", "fin", "rst"}]
    /\ err \in [Peers -> {"no", "reset", "pipe"}]

-----------------------------------------------------------------------------
(* The peers *)

\* The handshake completes in the kernel, before and without accept().
connect(p) ==
    /\ phase[p] = "new"
    /\ phase' = [phase EXCEPT ![p] = "queued"]
    /\ backlog' = Append(backlog, p)
    /\ UNCHANGED <<file, sent, got, back, fin, err>>

send(p) ==
    /\ phase[p] \in {"queued", "open"}
    /\ fin[p] = "no"
    /\ sent[p] < MaxSend
    /\ sent' = [sent EXCEPT ![p] = @ + 1]
    /\ UNCHANGED <<backlog, file, phase, got, back, fin, err>>

\* The peer ends its stream in order.
shutdown(p) ==
    /\ phase[p] \in {"queued", "open"}
    /\ fin[p] = "no"
    /\ fin' = [fin EXCEPT ![p] = "fin"]
    /\ UNCHANGED <<backlog, file, phase, sent, got, back, err>>

\* The connection is reset: ECONNRESET, or EPIPE when the stream had ended.
reset(p) ==
    /\ phase[p] \in {"queued", "open"}
    /\ fin[p] # "rst"
    /\ fin' = [fin EXCEPT ![p] = "rst"]
    /\ err' = [err EXCEPT ![p] = IF fin[p] = "fin" THEN "pipe" ELSE "reset"]
    /\ UNCHANGED <<backlog, file, phase, sent, got, back>>

Peer(p) == connect(p) \/ send(p) \/ shutdown(p) \/ reset(p)

-----------------------------------------------------------------------------
(* The server's system calls *)

OpenFds == {f \in Fds : file[f] # NoPeer}

\* What select(), poll() and epoll_wait() report, whatever was reported before.
Readable(f) ==
    IF f = Listen THEN backlog # <<>>
    ELSE /\ file[f] # NoPeer
         /\ \/ sent[file[f]] > got[file[f]]
            \/ fin[file[f]] # "no"

\* accept() takes the oldest connection and the lowest free descriptor f.
Accepts(f) ==
    /\ backlog # <<>>
    /\ f \in Fds \ OpenFds
    /\ \A g \in Fds \ OpenFds : f <= g
    /\ file' = [file EXCEPT ![f] = Head(backlog)]
    /\ phase' = [phase EXCEPT ![Head(backlog)] = "open"]
    /\ backlog' = Tail(backlog)
    /\ UNCHANGED <<sent, got, back, fin, err>>

\* accept() fails because no descriptor is left.
AcceptFails == backlog # <<>> /\ OpenFds = Fds

\* The connection of p has n units for read(), even after a reset.
HasData(p, n) == n <= sent[p] - got[p]
Arrived(f, n) == file[f] # NoPeer /\ HasData(file[f], n)

\* Writing to p raises SIGPIPE, which none of the servers handles: the connection
\* was reset, and the error EPIPE is pending or ECONNRESET was reported before.
Broken(p) == fin[p] = "rst" /\ err[p] # "reset"
BrokenPipe(f) == Broken(file[f])

\* read() returns n units of p.
Receives(p, n) ==
    /\ HasData(p, n)
    /\ got' = [got EXCEPT ![p] = @ + n]
    /\ UNCHANGED <<backlog, file, phase, sent, back, fin, err>>

\* read() or write() returns -1 and reports the error of the connection of p.
Reports(p) ==
    /\ err[p] # "no"
    /\ err' = [err EXCEPT ![p] = "no"]
    /\ UNCHANGED <<backlog, file, phase, sent, got, back, fin>>

\* write() of n units to p succeeds, or reports ECONNRESET after a reset.
Sends(p, n) ==
    \/ /\ fin[p] # "rst"
       /\ back' = [back EXCEPT ![p] = @ + n]
       /\ UNCHANGED <<backlog, file, phase, sent, got, fin, err>>
    \/ fin[p] = "rst" /\ ~Broken(p) /\ Reports(p)

\* read() returns n units of p, and write() sends them back or reports ECONNRESET.
SendsBack(p, n) ==
    /\ HasData(p, n)
    /\ ~Broken(p)
    /\ got' = [got EXCEPT ![p] = @ + n]
    /\ IF fin[p] = "rst"
       THEN err' = [err EXCEPT ![p] = "no"] /\ UNCHANGED back
       ELSE back' = [back EXCEPT ![p] = @ + n] /\ UNCHANGED err
    /\ UNCHANGED <<backlog, file, phase, sent, fin>>
Echoes(f, n) == file[f] # NoPeer /\ SendsBack(file[f], n)

\* The stream of p has ended and read() returns 0, or -1 while an error is pending.
Ended(p) ==
    \/ fin[p] = "rst"
    \/ fin[p] = "fin" /\ got[p] = sent[p]

\* read(f) returns 0 or -1: the stream has ended, was reset, or f is not open.
ReadEnds(f) == file[f] # NoPeer => Ended(file[f])

Closes(f) ==
    /\ file' = [file EXCEPT ![f] = NoPeer]
    /\ phase' = [p \in Peers |-> IF file[f] = p THEN "gone" ELSE phase[p]]
    /\ UNCHANGED <<backlog, sent, got, back, fin, err>>

\* read(f) has to wait for the peer.
ReadBlocks(f) == ~Readable(f) /\ file[f] # NoPeer

\* The process exits and the kernel closes everything.
Exits ==
    /\ file' = [f \in Fds |-> NoPeer]
    /\ phase' = [p \in Peers |-> IF phase[p] = "new" THEN "new" ELSE "gone"]
    /\ backlog' = <<>>
    /\ UNCHANGED <<sent, got, back, fin, err>>
=============================================================================
