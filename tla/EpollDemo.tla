------------------------------ MODULE EpollDemo ------------------------------
(***************************************************************************)
(* The server of network/demo3_epoll.cpp: a new connection is registered   *)
(* edge triggered, from its first answer on level triggered; one wbuffer   *)
(* serves all connections, and nothing is ever closed.                     *)
(*                                                                         *)
(* An edge is news since the descriptor was last reported, so the model    *)
(* keeps what was known then.  Of each unit in wbuffer it keeps whose it   *)
(* is.  memcpy() takes the whole of rbuffer, also what earlier and longer  *)
(* messages left behind the new one, and nothing else writes to either:    *)
(* between two calls the buffers are equal, and one variable stands for    *)
(* both.  The answer is always the whole buffer.                           *)
(***************************************************************************)
EXTENDS Sockets

CONSTANT MaxEvents      \* EVENTS_LENGTH

VARIABLES
    reg,            \* what each descriptor is registered for
    seen,           \* what of its peer was known when it was last reported
    events,         \* the events of this turn that are still to be handled
    wbuffer,        \* whose each unit of wbuffer is
    reply,          \* history: the peers whose bytes each peer was sent
    clash,          \* history: two connections needed wbuffer at once
    spc             \* where the server is

\* A message of MaxSend units fits into the buffer.
Buffer == 1..MaxSend

lvars == <<reg, seen, events, wbuffer, reply, clash, spc>>
vars == <<svars, lvars>>

Init ==
    /\ SocketsInit
    /\ reg = [f \in Fds |-> "none"]
    /\ seen = [f \in Fds |-> <<0, "no">>]
    /\ events = {}
    /\ wbuffer = [k \in Buffer |-> NoPeer]
    /\ reply = [p \in Peers |-> {}]
    /\ clash = FALSE
    /\ spc = "epoll_wait"

News(f) == <<sent[file[f]], fin[file[f]]>>

Ready ==
    {f \in Fds : \/ reg[f] = "in" /\ Readable(f)
                 \/ reg[f] = "edge" /\ Readable(f) /\ seen[f] # News(f)
                 \/ reg[f] = "out"}
    \cup {f \in {Listen} : Readable(f)}

epoll_wait ==
    /\ spc = "epoll_wait"
    /\ Ready # {}
    /\ \E E \in SUBSET Ready :
          /\ Cardinality(E) <= MaxEvents
          /\ E # Ready => Cardinality(E) = MaxEvents
          /\ events' = E
          /\ seen' = [f \in Fds |-> IF f \in E THEN News(f) ELSE seen[f]]
    /\ spc' = "handle"
    /\ UNCHANGED <<svars, reg, wbuffer, reply, clash>>

Handled(f) ==
    /\ events' = events \ {f}
    /\ spc' = IF events' = {} THEN "epoll_wait" ELSE "handle"

accept ==
    /\ spc = "handle"
    /\ Listen \in events
    /\ \E f \in Fds :
          /\ Accepts(f)
          /\ reg' = [reg EXCEPT ![f] = "edge"]
    /\ Handled(Listen)
    /\ UNCHANGED <<seen, wbuffer, reply, clash>>

\* accept() fails: break.  The events left are given up, and an edge among them
\* is not reported again.
accept_break ==
    /\ spc = "handle"
    /\ Listen \in events
    /\ AcceptFails
    /\ events' = {}
    /\ spc' = "epoll_wait"
    /\ UNCHANGED <<svars, reg, seen, wbuffer, reply, clash>>

\* Mutant: the buffer is not copied.
recv_data_uncopied(f) ==
    /\ spc = "handle"
    /\ f \in events \cap Fds
    /\ reg[f] \in {"edge", "in"}
    /\ \E n \in Buffer : Receives(file[f], n)
    /\ clash' = (clash \/ \E g \in Fds : reg[g] = "out")
    /\ reg' = [reg EXCEPT ![f] = "out"]
    /\ Handled(f)
    /\ UNCHANGED <<seen, wbuffer, reply>>

\* recv() returns n units, which overwrite the front of the buffer; copy all of it
\* and wait for EPOLLOUT.
recv_data(f) ==
    /\ spc = "handle"
    /\ f \in events \cap Fds
    /\ reg[f] \in {"edge", "in"}
    /\ \E n \in Buffer :
          /\ Receives(file[f], n)
          /\ wbuffer' = [k \in Buffer |-> IF k <= n THEN file[f] ELSE wbuffer[k]]
    /\ clash' = (clash \/ \E g \in Fds : reg[g] = "out")
    /\ reg' = [reg EXCEPT ![f] = "out"]
    /\ Handled(f)
    /\ UNCHANGED <<seen, reply>>

\* recv() returns 0 or -1: nothing is done.
recv_end(f) ==
    /\ spc = "handle"
    /\ f \in events \cap Fds
    /\ reg[f] \in {"edge", "in"}
    /\ Ended(file[f])
    /\ IF err[file[f]] = "no" THEN UNCHANGED svars ELSE Reports(file[f])
    /\ Handled(f)
    /\ UNCHANGED <<reg, seen, wbuffer, reply, clash>>

\* Whose units the peer gets when send() succeeds: all that stand in wbuffer.
Delivered(f) ==
    {wbuffer[k] : k \in {j \in Buffer : fin[file[f]] # "rst"}}

\* Mutant: the connection is not registered for EPOLLIN again.
send_reply_keeps_out(f) ==
    /\ spc = "handle"
    /\ f \in events \cap Fds
    /\ reg[f] = "out"
    /\ Sends(file[f], got[file[f]] - back[file[f]])
    /\ reply' = [reply EXCEPT ![file[f]] = @ \cup Delivered(f)]
    /\ Handled(f)
    /\ UNCHANGED <<reg, seen, wbuffer, clash>>

\* EPOLLOUT: send() the whole of wbuffer, which answers all that was read from the
\* peer; back to EPOLLIN, now level triggered.
send_reply(f) ==
    /\ spc = "handle"
    /\ f \in events \cap Fds
    /\ reg[f] = "out"
    /\ Sends(file[f], got[file[f]] - back[file[f]])
    /\ reply' = [reply EXCEPT ![file[f]] = @ \cup Delivered(f)]
    /\ reg' = [reg EXCEPT ![f] = "in"]
    /\ Handled(f)
    /\ UNCHANGED <<seen, wbuffer, clash>>

\* send() raises SIGPIPE.
send_sigpipe(f) ==
    /\ spc = "handle"
    /\ f \in events \cap Fds
    /\ reg[f] = "out"
    /\ BrokenPipe(f)
    /\ Exits
    /\ events' = {}
    /\ spc' = "exit"
    /\ UNCHANGED <<reg, seen, wbuffer, reply, clash>>

Server ==
    \/ epoll_wait \/ accept \/ accept_break
    \/ \E f \in Fds :
          recv_data(f) \/ recv_end(f) \/ send_reply(f) \/ send_sigpipe(f)
-----------------------------------------------------------------------------
(* Properties *)

\* Every variable stays in its domain.
TypeOK ==
    /\ SocketsType
    /\ reg \in [Fds -> {"none", "edge", "in", "out"}]
    /\ seen \in [Fds -> (0..MaxSend) \X {"no", "fin", "rst"}]
    /\ events \subseteq Fds \cup {Listen}
    /\ wbuffer \in [Buffer -> Peers \cup {NoPeer}]
    /\ reply \in [Peers -> SUBSET (Peers \cup {NoPeer})]
    /\ clash \in BOOLEAN
    /\ spc \in {"epoll_wait", "handle", "exit"}

\* No edge is lost before the descriptors run out: a connection that waits for an
\* edge has nothing to read, or its edge is due or among the events of this turn,
\* unless it was reset.
NoLostEdge ==
    OpenFds # Fds =>
        \A f \in OpenFds :
            reg[f] = "edge" /\ fin[file[f]] # "rst" /\ sent[file[f]] > got[file[f]] =>
                seen[f] # News(f) \/ f \in events

\* Until two connections need wbuffer at the same time, the answer that is due
\* begins with the units it answers; and what else a peer is sent, behind its own,
\* was left by peers of whom a longer message came: at least two units.
OwnBytes ==
    \/ clash
    \/ /\ \A f \in OpenFds :
             reg[f] = "out" /\ fin[file[f]] # "rst" =>
                 \A k \in 1..(got[file[f]] - back[file[f]]) : wbuffer[k] = file[f]
       /\ \A p \in Peers : \A q \in reply[p] \ {p, NoPeer} : got[q] >= 2
=============================================================================
