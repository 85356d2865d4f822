------------------------------- MODULE Reactor -------------------------------
(***************************************************************************)
(* The server of network/demo4_c1000k_server.cpp: an epoll loop in which   *)
(* every connection has a context (sock_item) with two buffers of its own, *)
(* found by descriptor in a list of blocks that grows on demand.  A        *)
(* connection is registered either for EPOLLIN or for EPOLLOUT: what one   *)
(* event read, a later event sends.                                        *)
(*                                                                         *)
(* The hundred listening ports behave alike; one stands for them.  A buffer*)
(* is described by the peers whose bytes it holds, since both memcpy() and *)
(* send() take all of it and not only what recv() filled.                  *)
(***************************************************************************)
EXTENDS Sockets

CONSTANTS
    MaxEvents,      \* EVENTS_LENGTH
    ItemLength      \* ITEM_LENGTH

ReactorAssumption == MaxEvents \in Nat \ {0} /\ ItemLength \in Nat \ {0}

VARIABLES
    reg,            \* what each descriptor is registered for
    events,         \* the events of this turn that are still to be handled
    block_count,    \* block_count, the length of the list eventblocks
    itemfd,         \* sock_item.fd
    heap,           \* whether rbuf and wbuf of the item are allocated
    rbuf, wbuf,     \* the peers whose bytes they hold
    reply,          \* history: the peers whose bytes each peer was sent
    spc             \* where the server is

lvars == <<reg, events, block_count, itemfd, heap, rbuf, wbuf, reply, spc>>
vars == <<svars, lvars>>

Init ==
    /\ SocketsInit
    /\ reg = [f \in Fds |-> "none"]
    /\ events = {}
    /\ block_count = 0
    /\ itemfd = [f \in Fds |-> 0]
    /\ heap = [f \in Fds |-> "null"]
    /\ rbuf = [f \in Fds |-> {}]
    /\ wbuf = [f \in Fds |-> {}]
    /\ reply = [p \in Peers |-> {}]
    /\ spc = "epoll_wait"

\* EPOLLOUT is always ready: the peers read what they are sent.
Ready ==
    {f \in Fds : \/ reg[f] = "in" /\ Readable(f)
                 \/ reg[f] = "out"}
    \cup {f \in {Listen} : Readable(f)}

epoll_wait ==
    /\ spc = "epoll_wait"
    /\ Ready # {}
    /\ \E E \in SUBSET Ready :
          /\ Cardinality(E) <= MaxEvents
          /\ E # Ready => Cardinality(E) = MaxEvents
          /\ events' = E
    /\ spc' = "handle"
    /\ UNCHANGED <<svars, reg, block_count, itemfd, heap, rbuf, wbuf, reply>>

\* i++: the event of f is done with.
Handled(f) ==
    /\ events' = events \ {f}
    /\ spc' = IF events' = {} THEN "epoll_wait" ELSE "handle"

\* Mutant: a descriptor at the end of a block is looked for before its block is there.
reactor_lookup_short(f) ==
    block_count' = IF f \div ItemLength > block_count
                   THEN f \div ItemLength ELSE block_count

\* reactor_lookup() adds blocks until the one of f is there.
reactor_lookup(f) ==
    block_count' = IF f \div ItemLength >= block_count
                   THEN f \div ItemLength + 1 ELSE block_count

\* Mutant: malloc() for calloc(), the buffers keep what was in that memory.
accept_malloc ==
    /\ spc = "handle"
    /\ Listen \in events
    /\ \E f \in Fds :
          /\ Accepts(f)
          /\ reactor_lookup(f)
          /\ reg' = [reg EXCEPT ![f] = "in"]
          /\ itemfd' = [itemfd EXCEPT ![f] = f]
          /\ heap' = [heap EXCEPT ![f] = "live"]
    /\ Handled(Listen)
    /\ UNCHANGED <<rbuf, wbuf, reply>>

\* accept() returns a descriptor: register it and set up its item.
accept ==
    /\ spc = "handle"
    /\ Listen \in events
    /\ \E f \in Fds :
          /\ Accepts(f)
          /\ reactor_lookup(f)
          /\ reg' = [reg EXCEPT ![f] = "in"]
          /\ itemfd' = [itemfd EXCEPT ![f] = f]
          /\ heap' = [heap EXCEPT ![f] = "live"]
          /\ rbuf' = [rbuf EXCEPT ![f] = {}]
          /\ wbuf' = [wbuf EXCEPT ![f] = {}]
    /\ Handled(Listen)
    /\ UNCHANGED reply

\* accept() fails: break, the events left are given up until the next turn.
accept_break ==
    /\ spc = "handle"
    /\ Listen \in events
    /\ AcceptFails
    /\ events' = {}
    /\ spc' = "epoll_wait"
    /\ UNCHANGED <<svars, reg, block_count, itemfd, heap, rbuf, wbuf, reply>>

\* recv() returns data: copy the buffer and wait for EPOLLOUT.
recv_data(f) ==
    /\ spc = "handle"
    /\ f \in events \cap Fds
    /\ reg[f] = "in"
    /\ \E n \in 1..MaxSend : Receives(file[f], n)
    /\ rbuf' = [rbuf EXCEPT ![f] = @ \cup {file[f]}]
    /\ wbuf' = [wbuf EXCEPT ![f] = rbuf'[f]]
    /\ reg' = [reg EXCEPT ![f] = "out"]
    /\ reactor_lookup(f)
    /\ Handled(f)
    /\ UNCHANGED <<itemfd, heap, reply>>

\* Mutant: the buffers are not freed.
recv_eof_leak(f) ==
    /\ spc = "handle"
    /\ f \in events \cap Fds
    /\ reg[f] = "in"
    /\ ReadEnds(f) /\ err[file[f]] = "no"
    /\ itemfd' = [itemfd EXCEPT ![f] = 0]
    /\ Closes(f)
    /\ reg' = [reg EXCEPT ![f] = "none"]
    /\ reactor_lookup(f)
    /\ Handled(f)
    /\ UNCHANGED <<heap, rbuf, wbuf, reply>>

\* recv() returns 0: free the buffers and close, which also unregisters.
recv_eof(f) ==
    /\ spc = "handle"
    /\ f \in events \cap Fds
    /\ reg[f] = "in"
    /\ ReadEnds(f) /\ err[file[f]] = "no"
    /\ heap' = [heap EXCEPT ![f] = "freed"]
    /\ itemfd' = [itemfd EXCEPT ![f] = 0]
    /\ Closes(f)
    /\ reg' = [reg EXCEPT ![f] = "none"]
    /\ reactor_lookup(f)
    /\ Handled(f)
    /\ UNCHANGED <<rbuf, wbuf, reply>>

\* recv() returns -1: nothing is done; the connection has reported its error now.
recv_error(f) ==
    /\ spc = "handle"
    /\ f \in events \cap Fds
    /\ reg[f] = "in"
    /\ Reports(file[f])
    /\ reactor_lookup(f)
    /\ Handled(f)
    /\ UNCHANGED <<reg, itemfd, heap, rbuf, wbuf, reply>>

\* Mutant: the connection stays registered for EPOLLOUT.
send_reply_keeps_out(f) ==
    /\ spc = "handle"
    /\ f \in events \cap Fds
    /\ reg[f] = "out"
    /\ Sends(file[f], got[file[f]] - back[file[f]])
    /\ reply' = [reply EXCEPT ![file[f]] = IF back' = back THEN @ ELSE @ \cup wbuf[f]]
    /\ reactor_lookup(f)
    /\ Handled(f)
    /\ UNCHANGED <<reg, itemfd, heap, rbuf, wbuf>>

\* EPOLLOUT: send() the whole of wbuf, or report ECONNRESET; back to EPOLLIN.
send_reply(f) ==
    /\ spc = "handle"
    /\ f \in events \cap Fds
    /\ reg[f] = "out"
    /\ Sends(file[f], got[file[f]] - back[file[f]])
    /\ reply' = [reply EXCEPT ![file[f]] = IF back' = back THEN @ ELSE @ \cup wbuf[f]]
    /\ reg' = [reg EXCEPT ![f] = "in"]
    /\ reactor_lookup(f)
    /\ Handled(f)
    /\ UNCHANGED <<itemfd, heap, rbuf, wbuf>>

\* send() raises SIGPIPE.
send_sigpipe(f) ==
    /\ spc = "handle"
    /\ f \in events \cap Fds
    /\ reg[f] = "out"
    /\ BrokenPipe(f)
    /\ Exits
    /\ reg' = [g \in Fds |-> "none"]
    /\ events' = {}
    /\ spc' = "exit"
    /\ UNCHANGED <<block_count, itemfd, heap, rbuf, wbuf, reply>>

Server ==
    \/ epoll_wait
    \/ accept \/ accept_break
    \/ \E f \in Fds :
          \/ recv_data(f) \/ recv_eof(f) \/ recv_error(f)
          \/ send_reply(f) \/ send_sigpipe(f)

Next ==
    \/ Server
    \/ spc # "exit" /\ (\E p \in Peers : Peer(p)) /\ UNCHANGED lvars

Spec == Init /\ [][Next]_vars
-----------------------------------------------------------------------------
(* Properties *)

\* Every variable stays in its domain.
TypeOK ==
    /\ SocketsType
    /\ reg \in [Fds -> {"none", "in", "out"}]
    /\ events \subseteq Fds \cup {Listen}
    /\ block_count \in 0..(MaxFd \div ItemLength + 1)
    /\ itemfd \in [Fds -> Fds \cup {0}]
    /\ heap \in [Fds -> {"null", "live", "freed"}]
    /\ rbuf \in [Fds -> SUBSET Peers]
    /\ wbuf \in [Fds -> SUBSET Peers]
    /\ reply \in [Peers -> SUBSET Peers]
    /\ spc \in {"epoll_wait", "handle", "exit"}

\* A connection is open exactly as long as its item lies in a block that exists,
\* names it, owns two buffers and is registered: nothing is leaked, freed twice
\* or used after it was freed, however descriptors are reused.
ItemsAgree ==
    spc # "exit" =>
        \A f \in Fds :
            /\ f \in OpenFds <=> heap[f] = "live"
            /\ f \in OpenFds <=> itemfd[f] = f
            /\ f \in OpenFds <=> reg[f] # "none"
            /\ f \in OpenFds => f < block_count * ItemLength

\* A peer is sent only bytes that it sent itself, although whole buffers are sent
\* and items are reused.
OwnBytes == \A p \in Peers : reply[p] \subseteq {p}
=============================================================================
