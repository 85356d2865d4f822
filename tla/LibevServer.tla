----------------------------- MODULE LibevServer -----------------------------
(***************************************************************************)
(* The server of libev/demo1_echo_server.cpp: libev calls accept_cb() for  *)
(* the listening descriptor and io_cb() for each connection; a connection  *)
(* has a watcher of its own with a buffer, registered either for EV_READ   *)
(* or for EV_WRITE.  All descriptors are non-blocking.                     *)
(*                                                                         *)
(* At the end of a stream the watcher is stopped and freed, the descriptor *)
(* is not closed.                                                          *)
(***************************************************************************)
EXTENDS Sockets

VARIABLES
    reg,            \* what the watcher of each descriptor is started for
    events,         \* the watchers libev has found pending in this turn
    heap,           \* the watcher and its buffer: allocated, freed
    len,            \* buf->len
    total_clients,  \* total_clients
    spc             \* where the loop is

lvars == <<reg, events, heap, len, total_clients, spc>>
vars == <<svars, lvars>>

Init ==
    /\ SocketsInit
    /\ reg = [f \in Fds |-> "none"]
    /\ events = {}
    /\ heap = [f \in Fds |-> "null"]
    /\ len = [f \in Fds |-> 0]
    /\ total_clients = 0
    /\ spc = "ev_run"

\* ev_run() waits, and collects every watcher that is ready.
Ready ==
    {f \in Fds : \/ reg[f] = "in" /\ Readable(f)
                 \/ reg[f] = "out"}
    \cup {f \in {Listen} : Readable(f)}

ev_run ==
    /\ spc = "ev_run"
    /\ Ready # {}
    /\ events' = Ready
    /\ spc' = "invoke"
    /\ UNCHANGED <<svars, reg, heap, len, total_clients>>

\* The callback of f is done.
Invoked(f) ==
    /\ events' = events \ {f}
    /\ spc' = IF events' = {} THEN "ev_run" ELSE "invoke"

accept_cb ==
    /\ spc = "invoke"
    /\ Listen \in events
    /\ \E f \in Fds :
          /\ Accepts(f)
          /\ reg' = [reg EXCEPT ![f] = "in"]
          /\ heap' = [heap EXCEPT ![f] = "live"]
          /\ len' = [len EXCEPT ![f] = 0]
    /\ total_clients' = total_clients + 1
    /\ Invoked(Listen)

\* accept() fails; the watcher allocated before it is lost.
accept_cb_error ==
    /\ spc = "invoke"
    /\ Listen \in events
    /\ AcceptFails
    /\ Invoked(Listen)
    /\ UNCHANGED <<svars, reg, heap, len, total_clients>>

\* Data has come: wait for EV_WRITE.
io_cb_read(f) ==
    /\ spc = "invoke"
    /\ f \in events \cap Fds
    /\ reg[f] = "in"
    /\ \E n \in 1..MaxSend :
          Receives(file[f], n) /\ len' = [len EXCEPT ![f] = n]
    /\ reg' = [reg EXCEPT ![f] = "out"]
    /\ Invoked(f)
    /\ UNCHANGED <<heap, total_clients>>

io_cb_error(f) ==
    /\ spc = "invoke"
    /\ f \in events \cap Fds
    /\ reg[f] = "in"
    /\ Reports(file[f])
    /\ Invoked(f)
    /\ UNCHANGED <<reg, heap, len, total_clients>>

\* Mutant: the watcher is freed without ev_io_stop().
io_cb_eof_started(f) ==
    /\ spc = "invoke"
    /\ f \in events \cap Fds
    /\ reg[f] = "in"
    /\ Ended(file[f]) /\ err[file[f]] = "no"
    /\ heap' = [heap EXCEPT ![f] = "freed"]
    /\ total_clients' = total_clients - 1
    /\ Invoked(f)
    /\ UNCHANGED <<svars, reg, len>>

\* read() returns 0: stop and free the watcher, "Successfully close client".
io_cb_eof(f) ==
    /\ spc = "invoke"
    /\ f \in events \cap Fds
    /\ reg[f] = "in"
    /\ Ended(file[f]) /\ err[file[f]] = "no"
    /\ reg' = [reg EXCEPT ![f] = "none"]
    /\ heap' = [heap EXCEPT ![f] = "freed"]
    /\ total_clients' = total_clients - 1
    /\ Invoked(f)
    /\ UNCHANGED <<svars, len>>

\* EV_WRITE: send what was read; back to EV_READ.
io_cb_write(f) ==
    /\ spc = "invoke"
    /\ f \in events \cap Fds
    /\ reg[f] = "out"
    /\ Sends(file[f], len[f])
    /\ len' = [len EXCEPT ![f] = 0]
    /\ reg' = [reg EXCEPT ![f] = "in"]
    /\ Invoked(f)
    /\ UNCHANGED <<heap, total_clients>>

\* write() raises SIGPIPE.
io_cb_sigpipe(f) ==
    /\ spc = "invoke"
    /\ f \in events \cap Fds
    /\ reg[f] = "out"
    /\ BrokenPipe(f)
    /\ Exits
    /\ events' = {}
    /\ spc' = "exit"
    /\ UNCHANGED <<reg, heap, len, total_clients>>

Server ==
    \/ ev_run \/ accept_cb \/ accept_cb_error
    \/ \E f \in Fds :
          \/ io_cb_read(f) \/ io_cb_error(f) \/ io_cb_eof(f)
          \/ io_cb_write(f) \/ io_cb_sigpipe(f)
-----------------------------------------------------------------------------
(* Properties *)

\* Every variable stays in its domain.
TypeOK ==
    /\ SocketsType
    /\ reg \in [Fds -> {"none", "in", "out"}]
    /\ events \subseteq Fds \cup {Listen}
    /\ heap \in [Fds -> {"null", "live", "freed"}]
    /\ len \in [Fds -> 0..MaxSend]
    /\ total_clients \in Nat
    /\ spc \in {"ev_run", "invoke", "exit"}

\* No callback is called with a watcher that was freed, each live watcher is
\* started, and total_clients counts them.
WatchersAgree ==
    spc # "exit" =>
        /\ \A f \in Fds : heap[f] = "live" <=> reg[f] # "none"
        /\ events \ {Listen} \subseteq {f \in Fds : heap[f] = "live"}
        /\ total_clients = Cardinality({f \in Fds : heap[f] = "live"})

\* The connection of p has not been given up.
Served(p) == \E f \in Fds : file[f] = p /\ heap[f] = "live"
=============================================================================
