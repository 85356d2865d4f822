----------------------------- MODULE PollServer -----------------------------
(***************************************************************************)
(* The echo server of network/echo/d4_poll_echo_server.cpp: the loop of    *)
(* the select() server around poll(), with one array of struct pollfd.     *)
(*                                                                         *)
(* Only the fd fields are initialised.  poll() writes the revents of the   *)
(* entries it is given, 0..maxidx; an entry that accept() adds above them  *)
(* keeps the revents it had on the stack, and only the countdown of nready *)
(* keeps the scan that follows in the same turn away from it.              *)
(***************************************************************************)
EXTENDS Sockets

CONSTANT Slots      \* MAX_POLL_SIZE, the length of client[]

PollAssumption == Slots \in Nat \ {0}

VARIABLES
    fd,         \* client[].fd
    revents,    \* client[].revents & POLLRDNORM
    nready,     \* nready
    maxidx,     \* maxidx
    i,          \* the entry at which the scan goes on
    spc         \* where the server is

lvars == <<fd, revents, nready, maxidx, i, spc>>
vars == <<svars, lvars>>

Slot == 0..(Slots - 1)

Init ==
    /\ SocketsInit
    /\ fd = [j \in Slot |-> IF j = 0 THEN Listen ELSE -1]
    /\ revents \in [Slot -> BOOLEAN]
    /\ nready = 0
    /\ maxidx = 0
    /\ i = 1
    /\ spc = "poll"

\* An entry with a negative fd is ignored, and its revents cleared.
Reported(j) == fd[j] >= 0 /\ Readable(fd[j])

poll ==
    /\ spc = "poll"
    /\ \E j \in 0..maxidx : Reported(j)
    /\ revents' = [j \in Slot |-> IF j <= maxidx THEN Reported(j) ELSE revents[j]]
    /\ nready' = Cardinality({j \in 0..maxidx : Reported(j)})
    /\ i' = 1
    /\ spc' = IF Reported(0) THEN "accept" ELSE "scan"
    /\ UNCHANGED <<svars, fd, maxidx>>

\* Mutant: the search for a free entry may return the listening socket's.
FreeSlotsFromZero == {j \in Slot : fd[j] < 0 \/ j = 0}

FreeSlots == {j \in Slot \ {0} : fd[j] < 0}

\* The entries the scan has yet to handle; it handles the first one next.
ReadySlots == {j \in Slot : i <= j /\ j <= maxidx /\ fd[j] >= 0 /\ revents[j]}
IsNext(j) == j \in ReadySlots /\ \A k \in ReadySlots : j <= k

\* Mutant: the scan does not stop when everything reported has been handled.
HandledNoBreak(j) ==
    /\ nready' = nready - 1
    /\ i' = j
    /\ spc' = IF ReadySlots' = {} THEN "poll" ELSE "scan"

\* if (--nready <= 0), or nothing is left for the scan from j on: back to poll().
Handled(j) ==
    /\ nready' = nready - 1
    /\ i' = j
    /\ spc' = IF nready' <= 0 \/ ReadySlots' = {} THEN "poll" ELSE "scan"

\* accept() returns a descriptor, which goes into the first free entry.
accept ==
    /\ spc = "accept"
    /\ \E f \in Fds, j \in FreeSlots :
          /\ Accepts(f)
          /\ \A k \in FreeSlots : j <= k
          /\ fd' = [fd EXCEPT ![j] = f]
          /\ maxidx' = IF j > maxidx THEN j ELSE maxidx
    /\ UNCHANGED revents
    /\ Handled(1)

\* accept() was interrupted: continue.
accept_eintr ==
    /\ spc = "accept"
    /\ spc' = "poll"
    /\ UNCHANGED <<svars, fd, revents, nready, maxidx, i>>

\* err_sys("accept error") or err_quit("too many clients").
accept_exit ==
    /\ spc = "accept"
    /\ AcceptFails \/ FreeSlots = {}
    /\ Exits
    /\ spc' = "exit"
    /\ UNCHANGED <<fd, revents, nready, maxidx, i>>

\* Data has come and is written back.
scan_echo(j) ==
    /\ spc = "scan"
    /\ IsNext(j)
    /\ \E n \in 1..MaxSend : Echoes(fd[j], n)
    /\ UNCHANGED <<fd, revents, maxidx>>
    /\ Handled(j + 1)

\* read() returned 0 or -1: close, and free the entry.
scan_close(j) ==
    /\ spc = "scan"
    /\ IsNext(j)
    /\ ReadEnds(fd[j])
    /\ Closes(fd[j])
    /\ fd' = [fd EXCEPT ![j] = -1]
    /\ UNCHANGED <<revents, maxidx>>
    /\ Handled(j + 1)

\* write() raises SIGPIPE.
scan_sigpipe(j) ==
    /\ spc = "scan"
    /\ IsNext(j)
    /\ Arrived(fd[j], 1)
    /\ BrokenPipe(fd[j])
    /\ Exits
    /\ spc' = "exit"
    /\ UNCHANGED <<fd, revents, nready, maxidx, i>>

Server ==
    \/ poll
    \/ accept \/ accept_eintr \/ accept_exit
    \/ \E j \in Slot : scan_echo(j) \/ scan_close(j) \/ scan_sigpipe(j)

Next ==
    \/ Server
    \/ spc # "exit" /\ (\E p \in Peers : Peer(p)) /\ UNCHANGED lvars

Spec == Init /\ [][Next]_vars
-----------------------------------------------------------------------------
(* Properties *)

\* Every variable stays in its domain; nready never counts below zero.
TypeOK ==
    /\ SocketsType
    /\ fd \in [Slot -> Fds \cup {Listen, -1}]
    /\ revents \in [Slot -> BOOLEAN]
    /\ nready \in Nat
    /\ maxidx \in Slot
    /\ i \in 1..(Slots + 1)
    /\ spc \in {"poll", "accept", "scan", "exit"}

\* The array agrees with the descriptors: entry 0 is the listening socket, every
\* open connection stands in exactly one of the entries handed to poll(), and no
\* entry names a descriptor that is not open.
TableAgrees ==
    spc # "exit" =>
        /\ fd[0] = Listen
        /\ \A f \in OpenFds : \E j \in 1..maxidx : fd[j] = f
        /\ \A j, k \in Slot : fd[j] = fd[k] /\ fd[j] # -1 => j = k
        /\ \A j \in Slot \ {0} : fd[j] # -1 => j <= maxidx /\ fd[j] \in OpenFds

\* The revents of an entry that poll() has not filled in is never acted upon: the
\* scan reads only where it cannot have to wait for a peer.
NeverBlocks ==
    \A j \in Slot : spc = "scan" /\ IsNext(j) => ~ReadBlocks(fd[j])
=============================================================================
