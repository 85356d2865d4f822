---------------------------- MODULE SelectServer ----------------------------
(***************************************************************************)
(* The echo server of network/echo/d3_select_echo_server.cpp: one process, *)
(* one loop around select(), and the connections in the array client[].    *)
(*                                                                         *)
(* memset(client, -1, FD_SETSIZE) fills FD_SETSIZE bytes, that is a quarter*)
(* of the array: the slots from InitSlots on start with what the stack     *)
(* held, here any number in Garbage.                                       *)
(***************************************************************************)
EXTENDS Sockets

CONSTANTS
    Slots,      \* FD_SETSIZE, the length of client[]
    InitSlots,  \* how many slots the memset() reaches
    Garbage     \* what an uninitialised slot may hold

SelectAssumption ==
    /\ Slots \in Nat \ {0}
    /\ InitSlots \in 0..Slots
    /\ Garbage \subseteq Fds \cup {-1}

VARIABLES
    client,     \* client[]
    allset,     \* allset
    rset,       \* rset, the descriptors select() reported
    nready,     \* nready
    maxfd,      \* maxfd
    maxidx,     \* maxidx
    i,          \* the slot at which the scan goes on
    spc         \* where the server is

lvars == <<client, allset, rset, nready, maxfd, maxidx, i, spc>>
vars == <<svars, lvars>>

Slot == 0..(Slots - 1)

Init ==
    /\ SocketsInit
    /\ client \in [Slot -> Garbage \cup {-1}]
    /\ \A j \in Slot : j < InitSlots => client[j] = -1
    /\ allset = {Listen}
    /\ rset = {}
    /\ nready = 0
    /\ maxfd = Listen
    /\ maxidx = -1
    /\ i = 0
    /\ spc = "select"

\* Mutant: nready leaves the listening descriptor out.
select_undercounts ==
    /\ spc = "select"
    /\ rset' = {f \in allset : f <= maxfd /\ Readable(f)}
    /\ rset' # {}
    /\ nready' = Cardinality(rset' \ {Listen})
    /\ i' = 0
    /\ spc' = IF Listen \in rset' THEN "accept" ELSE "scan"
    /\ UNCHANGED <<svars, client, allset, maxfd, maxidx>>

\* select() returns when something is readable; it looks at 0..maxfd only.
select ==
    /\ spc = "select"
    /\ rset' = {f \in allset : f <= maxfd /\ Readable(f)}
    /\ rset' # {}
    /\ nready' = Cardinality(rset')
    /\ i' = 0
    /\ spc' = IF Listen \in rset' THEN "accept" ELSE "scan"
    /\ UNCHANGED <<svars, client, allset, maxfd, maxidx>>

FreeSlots == {j \in Slot : client[j] < 0}

\* Mutant: the scan stops before the last slot in use.
ReadySlotsShort == {j \in Slot : i <= j /\ j < maxidx /\ client[j] \in rset}

\* The slots the scan has yet to handle; it handles the first one next.
ReadySlots == {j \in Slot : i <= j /\ j <= maxidx /\ client[j] \in rset}
IsNext(j) == j \in ReadySlots /\ \A k \in ReadySlots : j <= k

\* if (--nready <= 0), or nothing is left for the scan from j on: back to select().
Handled(j) ==
    /\ nready' = nready - 1
    /\ i' = j
    /\ spc' = IF nready' <= 0 \/ ReadySlots' = {} THEN "select" ELSE "scan"

\* Mutant: the new connection is not entered into allset.
accept_unregistered ==
    /\ spc = "accept"
    /\ \E f \in Fds, j \in FreeSlots :
          /\ Accepts(f)
          /\ \A k \in FreeSlots : j <= k
          /\ client' = [client EXCEPT ![j] = f]
          /\ maxfd' = IF f > maxfd THEN f ELSE maxfd
          /\ maxidx' = IF j > maxidx THEN j ELSE maxidx
    /\ UNCHANGED <<allset, rset>>
    /\ Handled(0)

\* accept() returns a descriptor, which goes into the first free slot.
accept ==
    /\ spc = "accept"
    /\ \E f \in Fds, j \in FreeSlots :
          /\ Accepts(f)
          /\ \A k \in FreeSlots : j <= k
          /\ client' = [client EXCEPT ![j] = f]
          /\ allset' = allset \cup {f}
          /\ maxfd' = IF f > maxfd THEN f ELSE maxfd
          /\ maxidx' = IF j > maxidx THEN j ELSE maxidx
    /\ UNCHANGED rset
    /\ Handled(0)

\* accept() was interrupted: continue.
accept_eintr ==
    /\ spc = "accept"
    /\ spc' = "select"
    /\ UNCHANGED <<svars, client, allset, rset, nready, maxfd, maxidx, i>>

\* err_sys("accept error") or err_quit("too many clients").
accept_exit ==
    /\ spc = "accept"
    /\ AcceptFails \/ FreeSlots = {}
    /\ Exits
    /\ spc' = "exit"
    /\ UNCHANGED <<client, allset, rset, nready, maxfd, maxidx, i>>

\* Mutant: an echo is not counted.
scan_echo_uncounted(j) ==
    /\ spc = "scan"
    /\ IsNext(j)
    /\ \E n \in 1..MaxSend : Echoes(client[j], n)
    /\ UNCHANGED <<client, allset, rset, nready, maxfd, maxidx>>
    /\ i' = j + 1
    /\ spc' = IF ReadySlots' = {} THEN "select" ELSE "scan"

\* Data has come and is written back.
scan_echo(j) ==
    /\ spc = "scan"
    /\ IsNext(j)
    /\ \E n \in 1..MaxSend : Echoes(client[j], n)
    /\ UNCHANGED <<client, allset, rset, maxfd, maxidx>>
    /\ Handled(j + 1)

\* read() returned 0 or -1: close, and forget the descriptor.
scan_close(j) ==
    /\ spc = "scan"
    /\ IsNext(j)
    /\ ReadEnds(client[j])
    /\ Closes(client[j])
    /\ allset' = allset \ {client[j]}
    /\ client' = [client EXCEPT ![j] = -1]
    /\ UNCHANGED <<rset, maxfd, maxidx>>
    /\ Handled(j + 1)

\* write() raises SIGPIPE.
scan_sigpipe(j) ==
    /\ spc = "scan"
    /\ IsNext(j)
    /\ Arrived(client[j], 1)
    /\ BrokenPipe(client[j])
    /\ Exits
    /\ spc' = "exit"
    /\ UNCHANGED <<client, allset, rset, nready, maxfd, maxidx, i>>

Server ==
    \/ select
    \/ accept \/ accept_eintr \/ accept_exit
    \/ \E j \in Slot : scan_echo(j) \/ scan_close(j) \/ scan_sigpipe(j)

Next ==
    \/ Server
    \/ spc # "exit" /\ (\E p \in Peers : Peer(p)) /\ UNCHANGED lvars

Spec == Init /\ [][Next]_vars
-----------------------------------------------------------------------------
(* Properties *)

\* Every variable stays in its domain; nready never counts below zero.
TypeOK ==
    /\ SocketsType
    /\ client \in [Slot -> Fds \cup {-1}]
    /\ allset \subseteq Fds \cup {Listen}
    /\ rset \subseteq Fds \cup {Listen}
    /\ nready \in Nat
    /\ maxfd \in Fds \cup {Listen}
    /\ maxidx \in Slot \cup {-1}
    /\ i \in Slot \cup {Slots}
    /\ spc \in {"select", "accept", "scan", "exit"}

\* The three tables agree: an open descriptor is watched by select(), within its
\* range, and stands in exactly one slot that the scan reaches.
TablesAgree ==
    spc # "exit" =>
        /\ allset = OpenFds \cup {Listen}
        /\ \A f \in allset : f <= maxfd
        /\ \A f \in OpenFds :
              \E j \in Slot : j <= maxidx /\ client[j] = f
        /\ \A j, k \in 0..maxidx : client[j] = client[k] /\ client[j] # -1 => j = k
        /\ \A j \in 0..maxidx : client[j] # -1 => client[j] \in OpenFds

\* The process is never put to sleep by one connection: the scan reads only from
\* descriptors that have something to say, although peers act between select()
\* and read().
NeverBlocks ==
    \A j \in Slot : spc = "scan" /\ IsNext(j) => ~ReadBlocks(client[j])

\* The countdown of nready ends the scan exactly when every reported descriptor
\* has been handled.
CountdownIsExact ==
    spc = "scan" => nready = Cardinality(ReadySlots)

\* err_quit("too many clients"): the search for a slot fails only when every
\* slot is in use by a client.
QuitsWhenFull ==
    spc = "accept" /\ FreeSlots = {} => Cardinality(OpenFds) = Slots
=============================================================================
