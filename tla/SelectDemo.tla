----------------------------- MODULE SelectDemo -----------------------------
(***************************************************************************)
(* The server of network/demo2_select.cpp: select() for reading and for    *)
(* writing, one buffer and one length (ret) for all connections.  What one *)
(* turn of the loop received, a later turn sends to whoever is writable.   *)
(*                                                                         *)
(* close() takes a descriptor out of rfds_in but not out of wfds_in.  When *)
(* select() then fails with EBADF its result is not looked at, and the     *)
(* kernel has left rfds_out and wfds_out as they were: everything that is  *)
(* registered counts as ready.                                             *)
(***************************************************************************)
EXTENDS Sockets

VARIABLES
    rfds_in, wfds_in,       \* registered for reading, for writing
    rfds_out, wfds_out,     \* what this turn takes for ready
    lastfd,                 \* lastfd
    cur_fd,                 \* cur_fd
    buffer,                 \* whose bytes recv() put into buffer last
    ret,                    \* ret: how many of them, or -1
    reply,                  \* history: the peers whose bytes each peer was sent
    clash,                  \* history: two connections needed the buffer at once
    spc                     \* where the server is

setvars == <<rfds_in, wfds_in, rfds_out, wfds_out, lastfd>>
datavars == <<buffer, ret, reply, clash>>
lvars == <<setvars, datavars, cur_fd, spc>>
vars == <<svars, lvars>>

Init ==
    /\ SocketsInit
    /\ rfds_in = {Listen} /\ wfds_in = {} /\ rfds_out = {} /\ wfds_out = {}
    /\ lastfd = Listen
    /\ cur_fd = Listen
    /\ buffer = NoPeer /\ ret = 0
    /\ reply = [p \in Peers |-> {}]
    /\ clash = FALSE
    /\ spc = "select"

\* The descriptors that the scan from cur_fd on has yet to look at.
Due == {f \in rfds_out \cup wfds_out : cur_fd < f /\ f <= lastfd}
IsNext(f) == spc = "scan" /\ f \in Due /\ \A g \in Due : f <= g

BadFds == ((rfds_in \cup wfds_in) \ {Listen}) \ OpenFds

\* select() returns what is ready, or fails with EBADF.  A writable descriptor
\* stays writable.
select ==
    /\ spc = "select"
    /\ IF BadFds # {}
       THEN rfds_out' = rfds_in /\ wfds_out' = wfds_in
       ELSE rfds_out' = {f \in rfds_in : Readable(f)} /\ wfds_out' = wfds_in
    /\ rfds_out' \cup wfds_out' # {}
    /\ cur_fd' = Listen
    /\ spc' = IF Listen \in rfds_out' THEN "accept" ELSE "scan"
    /\ UNCHANGED <<svars, datavars, rfds_in, wfds_in, lastfd>>

\* Mutant: lastfd is not raised.
accept_keeps_lastfd ==
    /\ spc = "accept"
    /\ \E f \in Fds :
          /\ Accepts(f)
          /\ rfds_in' = rfds_in \cup {f}
          /\ lastfd' = IF lastfd = Listen THEN f ELSE lastfd
    /\ spc' = "scan"
    /\ UNCHANGED <<wfds_in, rfds_out, wfds_out, datavars, cur_fd>>

\* accept() waits for a connection if there is none, and registers it.
accept ==
    /\ spc = "accept"
    /\ \E f \in Fds :
          /\ Accepts(f)
          /\ rfds_in' = rfds_in \cup {f}
          /\ lastfd' = IF f > lastfd THEN f ELSE lastfd
    /\ spc' = "scan"
    /\ UNCHANGED <<wfds_in, rfds_out, wfds_out, datavars, cur_fd>>

\* accept() fails: FD_SET(-1) aborts in a checked build; otherwise it sets a bit
\* above lastfd, which nobody looks at.
accept_fails ==
    /\ spc = "accept"
    /\ AcceptFails
    /\ \/ spc' = "scan" /\ UNCHANGED svars
       \/ spc' = "exit" /\ Exits
    /\ UNCHANGED <<setvars, datavars, cur_fd>>

Scanned(f) ==
    /\ cur_fd' = f
    /\ spc' = "scan"

\* Data has come: keep it in the buffer until the connection is writable.
recv_data(f) ==
    /\ IsNext(f) /\ f \in rfds_out
    /\ file[f] # NoPeer
    /\ \E n \in 1..MaxSend : Receives(file[f], n) /\ ret' = n
    /\ buffer' = file[f]
    /\ wfds_in' = wfds_in \cup {f}
    /\ clash' = (clash \/ wfds_in \ {f} # {})
    /\ Scanned(f)
    /\ UNCHANGED <<rfds_in, rfds_out, wfds_out, lastfd, reply>>

\* recv() returns 0: close, and forget the descriptor for reading.
recv_eof(f) ==
    /\ IsNext(f) /\ f \in rfds_out
    /\ file[f] # NoPeer /\ Ended(file[f]) /\ err[file[f]] = "no"
    /\ Closes(f)
    /\ rfds_in' = rfds_in \ {f}
    /\ ret' = 0
    /\ clash' = (clash \/ wfds_in # {})
    /\ Scanned(f)
    /\ UNCHANGED <<wfds_in, rfds_out, wfds_out, lastfd, buffer, reply>>

\* recv() returns -1, for a reset connection or a closed descriptor.
recv_error(f) ==
    /\ IsNext(f) /\ f \in rfds_out
    /\ IF file[f] = NoPeer THEN UNCHANGED svars ELSE Reports(file[f])
    /\ ret' = -1
    /\ clash' = (clash \/ wfds_in # {})
    /\ Scanned(f)
    /\ UNCHANGED <<setvars, buffer, reply>>

\* send() of what ret says is in the buffer: nothing for 0; for -1 the length is
\* huge, the kernel refuses it or sends what lies behind the buffer.
send_reply(f) ==
    /\ IsNext(f) /\ f \notin rfds_out
    /\ IF file[f] = NoPeer
       THEN UNCHANGED <<svars, reply>> /\ ret' = -1
       ELSE \E n \in IF ret = -1 THEN {0, 1} ELSE {ret} :
               /\ Sends(file[f], n)
               /\ reply' = [reply EXCEPT ![file[f]] = IF back' = back THEN @ ELSE @ \cup {buffer}]
               /\ ret' = IF back' = back /\ n > 0 THEN -1 ELSE n
    /\ wfds_in' = wfds_in \ {f}
    /\ rfds_in' = rfds_in \cup {f}
    /\ Scanned(f)
    /\ UNCHANGED <<rfds_out, wfds_out, lastfd, buffer, clash>>

\* send() raises SIGPIPE.
send_sigpipe(f) ==
    /\ IsNext(f) /\ f \notin rfds_out
    /\ file[f] # NoPeer /\ BrokenPipe(f)
    /\ Exits
    /\ spc' = "exit"
    /\ UNCHANGED <<setvars, datavars, cur_fd>>

\* The scan is over: while (1).
turn ==
    /\ spc = "scan" /\ Due = {}
    /\ spc' = "select"
    /\ UNCHANGED <<svars, setvars, datavars, cur_fd>>

Server ==
    \/ select \/ accept \/ accept_fails \/ turn
    \/ \E f \in Fds :
          \/ recv_data(f) \/ recv_eof(f) \/ recv_error(f)
          \/ send_reply(f) \/ send_sigpipe(f)
-----------------------------------------------------------------------------
(* Properties *)

\* Every variable stays in its domain.
TypeOK ==
    /\ SocketsType
    /\ \A s \in {rfds_in, wfds_in, rfds_out, wfds_out} : s \subseteq Fds \cup {Listen}
    /\ lastfd \in Fds \cup {Listen} /\ cur_fd \in Fds \cup {Listen}
    /\ buffer \in Peers \cup {NoPeer} /\ ret \in -1..MaxSend
    /\ reply \in [Peers -> SUBSET (Peers \cup {NoPeer})]
    /\ clash \in BOOLEAN
    /\ spc \in {"select", "accept", "scan", "exit"}

\* No open connection is forgotten: select() watches it and the scan reaches it,
\* whatever stale descriptors are registered besides.
OpenIsWatched ==
    spc # "exit" => \A f \in OpenFds \cup {Listen} : f \in rfds_in /\ f <= lastfd

\* A peer is sent only its own bytes as long as no two connections need the
\* buffer at the same time.
OwnBytes == clash \/ \A p \in Peers : reply[p] \subseteq {p}
=============================================================================
