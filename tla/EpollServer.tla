---------------------------- MODULE EpollServer ----------------------------
(***************************************************************************)
(* The echo server of network/echo/d5_epoll_echo_server.cpp: one epoll     *)
(* instance, level triggered, and a loop over the events of one            *)
(* epoll_wait().  The array events[] is a set here, because the kernel     *)
(* reports in an order the server has no say in.                           *)
(*                                                                         *)
(* When a connection ends, the server unregisters connfd, the descriptor   *)
(* it accepted last, and closes sockfd, the one that ended; the kernel     *)
(* drops a closed descriptor from the interest list by itself.             *)
(***************************************************************************)
EXTENDS Sockets

CONSTANT MaxEvents      \* MAX_POLL_SIZE, the length of events[]

EpollAssumption == MaxEvents \in Nat \ {0}

VARIABLES
    interest,   \* the descriptors registered with epollfd
    connfd,     \* connfd
    events,     \* the events of this turn that are still to be handled
    spc         \* where the server is

lvars == <<interest, connfd, events, spc>>
vars == <<svars, lvars>>

\* connfd is not initialised; it is set before anything can be closed.
Init ==
    /\ SocketsInit
    /\ interest = {Listen}
    /\ connfd = -1
    /\ events = {}
    /\ spc = "epoll_wait"

Ready == {f \in interest : Readable(f)}

\* Mutant: epoll_wait() is told of more room than events[] has.
epoll_wait_overrun ==
    /\ spc = "epoll_wait"
    /\ Ready # {}
    /\ events' = Ready
    /\ spc' = "handle"
    /\ UNCHANGED <<svars, interest, connfd>>

\* Returns as many of the ready descriptors as fit into events[].
epoll_wait ==
    /\ spc = "epoll_wait"
    /\ Ready # {}
    /\ \E E \in SUBSET Ready :
          /\ Cardinality(E) <= MaxEvents
          /\ E # Ready => Cardinality(E) = MaxEvents
          /\ events' = E
    /\ spc' = "handle"
    /\ UNCHANGED <<svars, interest, connfd>>

\* Mutant: the event of an ended connection is not taken off, its turn comes again.
HandledKeepsEnded(f) ==
    /\ events' = IF f # Listen /\ file'[f] = NoPeer THEN events ELSE events \ {f}
    /\ spc' = IF events' = {} THEN "epoll_wait" ELSE "handle"

\* i++: the event of f is done with.
Handled(f) ==
    /\ events' = events \ {f}
    /\ spc' = IF events' = {} THEN "epoll_wait" ELSE "handle"

\* accept() returns a descriptor, which is registered for EPOLLIN.
accept ==
    /\ spc = "handle"
    /\ Listen \in events
    /\ \E f \in Fds :
          /\ Accepts(f)
          /\ connfd' = f
          /\ interest' = interest \cup {f}
    /\ Handled(Listen)

\* accept() was interrupted: connfd is -1, continue.
accept_eintr ==
    /\ spc = "handle"
    /\ Listen \in events
    /\ connfd' = -1
    /\ Handled(Listen)
    /\ UNCHANGED <<svars, interest>>

\* The kernel closes the descriptors, epollfd among them.
exit ==
    /\ Exits
    /\ interest' = {}
    /\ events' = {}
    /\ spc' = "exit"
    /\ UNCHANGED connfd

\* err_sys("accept error").
accept_exit ==
    /\ spc = "handle"
    /\ Listen \in events
    /\ AcceptFails
    /\ exit

\* Data has come and is written back.
handle_echo(f) ==
    /\ spc = "handle"
    /\ f \in events \ {Listen}
    /\ \E n \in 1..MaxSend : Echoes(f, n)
    /\ Handled(f)
    /\ UNCHANGED <<interest, connfd>>

\* Mutant: the interest list keeps the closed descriptor.
handle_close_registered(f) ==
    /\ spc = "handle"
    /\ f \in events \ {Listen}
    /\ ReadEnds(f)
    /\ interest' = interest \ {connfd}
    /\ Closes(f)
    /\ Handled(f)
    /\ UNCHANGED connfd

\* Mutant: only an error closes the connection, the end of the stream does not.
handle_close_error_only(f) ==
    /\ spc = "handle"
    /\ f \in events \ {Listen}
    /\ ReadEnds(f)
    /\ IF fin[file[f]] = "rst"
       THEN interest' = interest \ {connfd, f} /\ Closes(f)
       ELSE UNCHANGED <<svars, interest>>
    /\ Handled(f)
    /\ UNCHANGED connfd

\* read() returned 0 or -1: unregister connfd and close the descriptor f.
handle_close(f) ==
    /\ spc = "handle"
    /\ f \in events \ {Listen}
    /\ ReadEnds(f)
    /\ interest' = interest \ {connfd, f}
    /\ Closes(f)
    /\ Handled(f)
    /\ UNCHANGED connfd

\* write() raises SIGPIPE.
handle_sigpipe(f) ==
    /\ spc = "handle"
    /\ f \in events \ {Listen}
    /\ Arrived(f, 1)
    /\ BrokenPipe(f)
    /\ exit

Server ==
    \/ epoll_wait
    \/ accept \/ accept_eintr \/ accept_exit
    \/ \E f \in Fds : handle_echo(f) \/ handle_close(f) \/ handle_sigpipe(f)

Next ==
    \/ Server
    \/ spc # "exit" /\ (\E p \in Peers : Peer(p)) /\ UNCHANGED lvars

Spec == Init /\ [][Next]_vars
-----------------------------------------------------------------------------
(* Properties *)

\* Every variable stays in its domain; a turn has events exactly while it is
\* handled, and never more than events[] holds.
TypeOK ==
    /\ SocketsType
    /\ interest \subseteq Fds \cup {Listen}
    /\ connfd \in Fds \cup {-1}
    /\ events \subseteq Fds \cup {Listen}
    /\ Cardinality(events) <= MaxEvents
    /\ spc \in {"epoll_wait", "handle", "exit"}
    /\ spc = "handle" <=> events # {}

\* What is registered is open, although the descriptor that is unregistered is
\* not always the one that is closed.
RegisteredIsOpen == interest \subseteq OpenFds \cup {Listen}

\* An event is never stale: however many descriptors were closed and reused
\* since epoll_wait() returned, each event left names a connection that was
\* there then, so that read() and accept() do not wait for a peer.
NeverBlocks == \A f \in events : Readable(f)

\* What the comment at the close says: a connection is unregistered when it is
\* closed, so a connection that is open is registered.
OpenIsRegistered == OpenFds \subseteq interest

\* The connection of p is registered.
Served(p) == \E f \in interest \ {Listen} : file[f] = p
=============================================================================
