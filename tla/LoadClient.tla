----------------------------- MODULE LoadClient -----------------------------
(***************************************************************************)
(* network/demo4_c1000k_client.cpp: one connection is opened per turn of   *)
(* the loop until there are LoadMax, and whenever a batch of them is full  *)
(* one call of epoll_wait() is handled.                                    *)
(*                                                                         *)
(* The handlers send and receive on sockfd, the socket of this turn (0     *)
(* when none was opened), whatever descriptor the event is of, and close   *)
(* that of the event.  What the connections carry is left out; here is     *)
(* what the kernel says of each: is there something to read, is there room *)
(* to send, has it ended or was it reset.                                  *)
(***************************************************************************)
EXTENDS Integers, FiniteSetsExt

CONSTANTS
    LoadMax,        \* 100000 connections
    Batch,          \* 1000
    LoadFds         \* the descriptors a process may have, but for the standard ones

VARIABLES
    lpc,            \* where main() is
    connections, sockfd,
    socks,          \* the sockets that are open, all of them registered
    readable,       \* of these, those that have data,
    eof,            \* whose stream has ended,
    broken,         \* that were reset,
    full,           \* and whose send buffer is full
    todo            \* the events of this batch that are yet to be handled

kernelvars == <<readable, eof, broken, full>>
vars == <<lpc, connections, sockfd, socks, kernelvars, todo>>

Init ==
    /\ lpc = "open" /\ connections = 0 /\ sockfd = 0
    /\ socks = {} /\ readable = {} /\ eof = {} /\ broken = {} /\ full = {}
    /\ todo = {}

\* The batch is handled after a turn with this many connections.
Due(n) == n % Batch = Batch - 1 \/ n >= LoadMax

\* socket(), connect(), the greeting and EPOLL_CTL_ADD.
open ==
    /\ lpc = "open" /\ connections < LoadMax
    /\ \E f \in LoadFds \ socks :
          /\ \A g \in LoadFds \ socks : f <= g
          /\ sockfd' = f /\ socks' = socks \cup {f}
    /\ connections' = connections + 1
    /\ lpc' = IF Due(connections') THEN "epoll_wait" ELSE "open"
    /\ UNCHANGED <<kernelvars, todo>>

\* socket() or connect() fails: goto err.
open_fails ==
    /\ lpc = "open" /\ connections < LoadMax
    /\ lpc' = "exit"
    /\ UNCHANGED <<connections, sockfd, socks, kernelvars, todo>>

\* There are enough connections.
open_none ==
    /\ lpc = "open" /\ connections >= LoadMax
    /\ sockfd' = 0
    /\ lpc' = "epoll_wait"
    /\ UNCHANGED <<connections, socks, kernelvars, todo>>

\* The end of a stream can be read, a reset connection read and written.
In(f) == f \in readable \cup eof \cup broken
Out(f) == f \notin full \/ f \in broken

\* At most connections events are reported, or none in 100 ms.
epoll_wait ==
    /\ lpc = "epoll_wait"
    /\ LET found == {f \in socks : In(f) \/ Out(f)}
       IN  todo' \in kSubset(Min({Cardinality(found), connections}), found)
    /\ lpc' = IF todo' = {} THEN "open" ELSE "handle"
    /\ UNCHANGED <<connections, sockfd, socks, kernelvars>>

Handled(f) ==
    /\ todo' = todo \ {f}
    /\ lpc' = IF todo' = {} THEN "open" ELSE "handle"

\* EPOLLOUT: something is sent on sockfd, or that fails, with SIGPIPE once a reset was
\* reported.
send(f) ==
    /\ lpc = "handle" /\ f \in todo /\ Out(f)
    /\ \/ Handled(f)
       \/ sockfd \in broken /\ lpc' = "exit" /\ todo' = {}
    /\ UNCHANGED <<connections, sockfd, socks, kernelvars>>

\* EPOLLIN: sockfd had data.
recv_data(f) ==
    /\ lpc = "handle" /\ f \in todo /\ ~Out(f)
    /\ sockfd \in readable
    /\ readable' \in {readable, readable \ {sockfd}}
    /\ Handled(f)
    /\ UNCHANGED <<connections, sockfd, socks, eof, broken, full>>

Closed(f) ==
    /\ socks' = socks \ {f}
    /\ readable' = readable \ {f} /\ eof' = eof \ {f}
    /\ broken' = broken \ {f} /\ full' = full \ {f}

\* Mutant: the connection is counted off and stays open.
recv_end_open(f) ==
    /\ lpc = "handle" /\ f \in todo /\ ~Out(f)
    /\ sockfd \in (eof \cup broken) \ readable
    /\ connections' = connections - 1
    /\ Handled(f)
    /\ UNCHANGED <<sockfd, socks, kernelvars>>

\* EPOLLIN: the stream of sockfd has ended, or its reset was reported; f is closed.
recv_end(f) ==
    /\ lpc = "handle" /\ f \in todo /\ ~Out(f)
    /\ sockfd \in (eof \cup broken) \ readable
    /\ connections' = connections - 1
    /\ Closed(f)
    /\ Handled(f)
    /\ UNCHANGED sockfd

\* EPOLLIN: recv() of sockfd fails, it is no socket, was reset or has nothing; f is closed
\* and not counted off.
recv_error(f) ==
    /\ lpc = "handle" /\ f \in todo /\ ~Out(f)
    /\ sockfd \notin readable \cup (eof \ broken)
    /\ Closed(f)
    /\ Handled(f)
    /\ UNCHANGED <<connections, sockfd>>

\* What happens to the connections meanwhile.
peer(f) ==
    /\ f \in socks \ broken
    /\ \/ f \notin eof /\ readable' = readable \cup {f} /\ UNCHANGED <<eof, broken, full>>
       \/ eof' = eof \cup {f} /\ UNCHANGED <<readable, broken, full>>
       \/ broken' = broken \cup {f} /\ UNCHANGED <<readable, eof, full>>
       \/ full' \in {full \cup {f}, full \ {f}} /\ UNCHANGED <<readable, eof, broken>>
    /\ UNCHANGED <<lpc, connections, sockfd, socks, todo>>

Main ==
    \/ open \/ open_fails \/ open_none \/ epoll_wait
    \/ \E f \in LoadFds : send(f) \/ recv_data(f) \/ recv_end(f) \/ recv_error(f)

Next == Main \/ \E f \in LoadFds : peer(f)
-----------------------------------------------------------------------------
(* Properties *)

\* Every variable stays in its domain; only open sockets have a state.
TypeOK ==
    /\ lpc \in {"open", "epoll_wait", "handle", "exit"}
    /\ sockfd \in LoadFds \cup {0} /\ socks \subseteq LoadFds
    /\ readable \cup eof \cup broken \cup full \subseteq socks

\* Although the handlers mix up the two descriptors, every event is of a socket that is
\* open, and connections, which some paths do not count down, never falls below the
\* number of open sockets: so the limit is kept and epoll_wait() asks for enough events.
Counted ==
    /\ todo \subseteq socks
    /\ Cardinality(socks) <= connections /\ connections <= LoadMax
=============================================================================
