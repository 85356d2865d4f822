---------------------------- MODULE ThreadServer ----------------------------
(***************************************************************************)
(* The servers that start a thread for each connection:                    *)
(* network/echo/d1_multi_thread_echo_server.cpp (Checks = TRUE) and        *)
(* network/demo1_socket.cpp (Checks = FALSE), which looks at no error.     *)
(*                                                                         *)
(* The thread is given the address of main()'s clientfd and reads it when  *)
(* it starts to run, which may be after the next accept() has stored       *)
(* another descriptor there: the variable has one place on the stack.      *)
(*                                                                         *)
(* Neither program installs a signal handler, so accept() and read() do not*)
(* return EINTR, and the branches that would go on after it are dead.      *)
(***************************************************************************)
EXTENDS Sockets

CONSTANTS
    Checks,         \* whether errors of accept() and read() are looked at
    MaxThreads      \* bound: how many threads are started

Threads == 1..MaxThreads

VARIABLES
    clientfd,       \* main()'s clientfd
    tpc,            \* where each thread is
    tfd,            \* its own clientfd
    held,           \* what it has read and not yet written back: peer, amount
    reply,          \* history: the peers whose bytes each peer was sent
    clash,          \* history: clientfd was overwritten before it was read
    spc             \* whether the process runs

lvars == <<clientfd, tpc, tfd, held, reply, clash, spc>>
vars == <<svars, lvars>>

Nothing == <<NoPeer, 0>>

Init ==
    /\ SocketsInit
    /\ clientfd = -1
    /\ tpc = [t \in Threads |-> "none"]
    /\ tfd = [t \in Threads |-> -1]
    /\ held = [t \in Threads |-> Nothing]
    /\ reply = [p \in Peers |-> {}]
    /\ clash = FALSE
    /\ spc = "run"

\* pthread_create() of the next thread.
Creates(t) ==
    /\ tpc[t] = "none"
    /\ \A u \in Threads : u < t => tpc[u] # "none"
    /\ tpc' = [tpc EXCEPT ![t] = "start"]
    /\ clash' = (clash \/ \E u \in Threads : tpc[u] = "start")
    /\ UNCHANGED <<tfd, held, reply, spc>>

accept(t) ==
    /\ spc = "run"
    /\ \E f \in Fds : Accepts(f) /\ clientfd' = f
    /\ Creates(t)

Dies ==
    /\ Exits
    /\ spc' = "exit"
    /\ UNCHANGED <<clientfd, tpc, tfd, held, reply, clash>>

\* accept() fails: err_sys(), or a thread is started for descriptor -1.
accept_exit == spc = "run" /\ Checks /\ AcceptFails /\ Dies
accept_unchecked(t) ==
    /\ spc = "run"
    /\ ~Checks
    /\ AcceptFails
    /\ clientfd' = -1
    /\ Creates(t)
    /\ UNCHANGED svars

\* int clientfd = *(int *) args;
start(t) ==
    /\ spc = "run"
    /\ tpc[t] = "start"
    /\ tfd' = [tfd EXCEPT ![t] = clientfd]
    /\ tpc' = [tpc EXCEPT ![t] = "read"]
    /\ UNCHANGED <<svars, clientfd, held, reply, clash, spc>>

IsOpen(f) == f \in Fds /\ file[f] # NoPeer

\* read() returns data.
read(t) ==
    /\ spc = "run"
    /\ tpc[t] = "read" /\ IsOpen(tfd[t])
    /\ \E n \in 1..MaxSend :
          /\ Receives(file[tfd[t]], n)
          /\ held' = [held EXCEPT ![t] = <<file[tfd[t]], n>>]
    /\ tpc' = [tpc EXCEPT ![t] = "write"]
    /\ UNCHANGED <<clientfd, tfd, reply, clash, spc>>

\* Back to read(); of a write to a closed descriptor nothing is seen but EBADF.
Written(t) ==
    /\ held' = [held EXCEPT ![t] = Nothing]
    /\ tpc' = [tpc EXCEPT ![t] = "read"]
    /\ UNCHANGED <<clientfd, tfd, clash, spc>>

write(t) ==
    /\ spc = "run"
    /\ tpc[t] = "write"
    /\ IF IsOpen(tfd[t])
       THEN /\ Sends(file[tfd[t]], held[t][2])
            /\ reply' = [reply EXCEPT ![file[tfd[t]]] =
                            IF back' = back THEN @ ELSE @ \cup {held[t][1]}]
       ELSE UNCHANGED <<svars, reply>>
    /\ Written(t)

\* write() raises SIGPIPE, which ends all threads.
sigpipe(t) ==
    /\ spc = "run"
    /\ tpc[t] = "write" /\ IsOpen(tfd[t]) /\ BrokenPipe(tfd[t])
    /\ Dies

\* Mutant: the end of the stream does not close the descriptor.
close_leak(t) ==
    /\ spc = "run"
    /\ tpc[t] = "read"
    /\ IsOpen(tfd[t]) => Ended(file[tfd[t]])
    /\ UNCHANGED svars
    /\ tpc' = [tpc EXCEPT ![t] = "done"]
    /\ UNCHANGED <<clientfd, tfd, held, reply, clash, spc>>

\* read() returns 0, or, where errors are looked at, -1: close and end.  A second
\* close() of the same descriptor fails, or closes whatever has taken its number.
close(t) ==
    /\ spc = "run"
    /\ tpc[t] = "read"
    /\ IF IsOpen(tfd[t])
       THEN /\ Ended(file[tfd[t]])
            /\ Checks \/ err[file[tfd[t]]] = "no"
            /\ Closes(tfd[t])
       ELSE Checks /\ UNCHANGED svars
    /\ tpc' = [tpc EXCEPT ![t] = "done"]
    /\ UNCHANGED <<clientfd, tfd, held, reply, clash, spc>>

\* demo1_socket.cpp: recv() returned -1, and send() is called with that length.  On
\* a reset connection it raises SIGPIPE; a closed descriptor is tried for ever.
recv_error(t) ==
    /\ spc = "run"
    /\ ~Checks
    /\ tpc[t] = "read" /\ IsOpen(tfd[t])
    /\ Ended(file[tfd[t]]) /\ err[file[tfd[t]]] # "no"
    /\ Dies

Thread(t) ==
    \/ start(t) \/ read(t) \/ write(t) \/ sigpipe(t) \/ close(t) \/ recv_error(t)

Server ==
    \/ accept_exit
    \/ \E t \in Threads : accept(t) \/ accept_unchecked(t) \/ Thread(t)
-----------------------------------------------------------------------------
(* Properties *)

\* Every variable stays in its domain.
TypeOK ==
    /\ SocketsType
    /\ clientfd \in Fds \cup {-1}
    /\ tpc \in [Threads -> {"none", "start", "read", "write", "done"}]
    /\ tfd \in [Threads -> Fds \cup {-1}]
    /\ held \in [Threads -> (Peers \cup {NoPeer}) \X (0..MaxSend)]
    /\ reply \in [Peers -> SUBSET Peers]
    /\ clash \in BOOLEAN
    /\ spc \in {"run", "exit"}

Live(t) == tpc[t] \in {"read", "write"} /\ tfd[t] \in Fds

\* As long as every thread reads clientfd before the next accept() overwrites it,
\* each open connection has exactly one thread and each thread its own connection.
OneThreadEach ==
    spc = "run" /\ ~clash =>
        /\ \A f \in OpenFds :
              Cardinality({t \in Threads : Live(t) /\ tfd[t] = f}
                          \cup {t \in Threads : tpc[t] = "start" /\ clientfd = f}) = 1
        /\ \A t \in Threads : Live(t) => tfd[t] \in OpenFds

\* A peer is sent only its own bytes under the same condition: the descriptor that
\* is written to is still the one that was read.
OwnBytes == clash \/ \A p \in Peers : reply[p] \subseteq {p}

\* "Start a thread to handle the client's request": each connection accepted gets
\* a thread that handles it.
EachHandled ==
    spc = "run" =>
        \A f \in OpenFds :
            \E t \in Threads : (Live(t) /\ tfd[t] = f) \/ tpc[t] = "start"
=============================================================================
