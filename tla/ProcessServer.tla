---------------------------- MODULE ProcessServer ----------------------------
(***************************************************************************)
(* The servers that fork() a child for each connection:                    *)
(* network/echo/d2_multi_process_echo_server.cpp, which waits in accept(), *)
(* and network/udp/d7_udp_tcp_select_echo_server.cpp (Selects = TRUE),     *)
(* which waits in select() for connections and for datagrams.  The child   *)
(* runs str_echo() of basic_lib.                                           *)
(*                                                                         *)
(* Parent and child each have a descriptor of the connection, which ends   *)
(* when both are closed.  A child that ended is a zombie until sig_chld()  *)
(* has reaped it; a SIGCHLD that comes while one is pending is lost, and   *)
(* one that comes during the handler waits for its end.  Signal() sets     *)
(* SA_RESTART: accept() goes on after a signal, select() never does.       *)
(***************************************************************************)
EXTENDS Sockets

CONSTANTS
    Selects,        \* which of the two servers
    MaxProcs,       \* how many children fit into the process table
    MaxDatagrams    \* bound: how many datagrams come

VARIABLES
    conn,           \* the connection behind the parent's clientfd
    child,          \* the child of each connection
    sigchld,        \* SIGCHLD is pending
    handler,        \* the parent is inside sig_chld()
    errno,          \* what errno says after an interrupted select()
    rset,           \* what select() reported
    queue,          \* datagrams waiting at udpfd
    answered,       \* datagrams answered
    spc             \* where the parent is

procvars == <<conn, child>>
sigvars == <<sigchld, handler, errno>>
udpvars == <<rset, queue, answered>>
lvars == <<procvars, sigvars, udpvars, spc>>
vars == <<svars, lvars>>

Wait == IF Selects THEN "select" ELSE "accept"

Init ==
    /\ SocketsInit
    /\ conn = NoPeer
    /\ child = [p \in Peers |-> "none"]
    /\ sigchld = FALSE /\ handler = FALSE /\ errno = "ok"
    /\ rset = {} /\ queue = 0 /\ answered = 0
    /\ spc = Wait

\* The parent runs its own code.
Runs(pc) == spc = pc /\ ~handler

Zombies == {p \in Peers : child[p] = "zombie"}
Running == {p \in Peers : child[p] = "run"}

datagram ==
    /\ Selects /\ spc # "exit"
    /\ queue + answered < MaxDatagrams
    /\ queue' = queue + 1
    /\ UNCHANGED <<svars, procvars, sigvars, rset, answered, spc>>

select ==
    /\ Runs("select")
    /\ rset' = {x \in {"tcp"} : backlog # <<>>} \cup {x \in {"udp"} : queue > 0}
    /\ rset' # {}
    /\ spc' = IF "tcp" \in rset' THEN "accept" ELSE "udp"
    /\ UNCHANGED <<svars, procvars, sigvars, queue, answered>>

accept ==
    /\ Runs("accept")
    /\ backlog # <<>>
    /\ conn' = Head(backlog)
    /\ phase' = [phase EXCEPT ![Head(backlog)] = "open"]
    /\ backlog' = Tail(backlog)
    /\ spc' = "fork"
    /\ UNCHANGED <<file, sent, got, back, fin, err, child, sigvars, udpvars>>

fork ==
    /\ Runs("fork")
    /\ Cardinality(Running \cup Zombies) < MaxProcs
    /\ child' = [child EXCEPT ![conn] = "run"]
    /\ spc' = "close"
    /\ UNCHANGED <<svars, conn, sigvars, udpvars>>

\* The parent ends; the children go on, and init reaps them.
ParentExits ==
    /\ spc' = "exit"
    /\ phase' = [p \in Peers |-> IF phase[p] = "queued" \/ (p = conn /\ child[p] # "run")
                                THEN "gone" ELSE phase[p]]
    /\ backlog' = <<>>
    /\ conn' = NoPeer
    /\ UNCHANGED <<file, sent, got, back, fin, err, child, sigvars, udpvars>>

\* fork() fails: Fork() ends the process; the other server goes on to close().
fork_fails ==
    /\ Runs("fork")
    /\ Cardinality(Running \cup Zombies) = MaxProcs
    /\ IF Selects THEN ParentExits
       ELSE spc' = "close" /\ UNCHANGED <<svars, procvars, sigvars, udpvars>>

\* Mutant: the parent keeps its descriptor of the connection.
close_forgotten ==
    /\ Runs("close")
    /\ conn' = NoPeer
    /\ spc' = IF "udp" \in rset THEN "udp" ELSE Wait
    /\ UNCHANGED <<svars, child, sigvars, udpvars>>

\* The parent closes its descriptor; that ends the connection if no child has one.
close ==
    /\ Runs("close")
    /\ phase' = [phase EXCEPT ![conn] = IF child[conn] = "run" THEN "open" ELSE "gone"]
    /\ conn' = NoPeer
    /\ spc' = IF "udp" \in rset THEN "udp" ELSE Wait
    /\ UNCHANGED <<backlog, file, sent, got, back, fin, err, child, sigvars, udpvars>>

\* Recvfrom() and Sendto().
udp_echo ==
    /\ Runs("udp")
    /\ queue > 0
    /\ queue' = queue - 1 /\ answered' = answered + 1
    /\ rset' = {}
    /\ spc' = "select"
    /\ UNCHANGED <<svars, procvars, sigvars>>

\* read() returns data and Writen() sends it back.
child_echo(p) ==
    /\ child[p] = "run"
    /\ fin[p] # "rst"
    /\ \E n \in 1..MaxSend : SendsBack(p, n)
    /\ UNCHANGED lvars

\* The child is gone, and with it its descriptor.
ChildEnds(p) ==
    /\ child[p] = "run"
    /\ child' = [child EXCEPT ![p] = IF spc = "exit" THEN "reaped" ELSE "zombie"]
    /\ phase' = [phase EXCEPT ![p] = IF conn = p THEN "open" ELSE "gone"]
    /\ sigchld' = (spc # "exit")
    /\ UNCHANGED <<backlog, file, sent, back, fin, conn, handler, errno, udpvars, spc>>

\* read() returns 0 and str_echo() returns, or -1: err_sys().
child_exit(p) ==
    /\ Ended(p)
    /\ ChildEnds(p)
    /\ UNCHANGED <<got, err>>

\* read() returns data, but the connection was reset: Writen() calls err_sys() or
\* raises SIGPIPE.
child_fails(p) ==
    /\ fin[p] = "rst"
    /\ \E n \in 1..MaxSend : HasData(p, n) /\ got' = [got EXCEPT ![p] = @ + n]
    /\ err' = [err EXCEPT ![p] = "no"]
    /\ ChildEnds(p)

\* SIGCHLD is delivered; select() will return EINTR.
sig_chld ==
    /\ sigchld /\ ~handler /\ spc # "exit"
    /\ handler' = TRUE /\ sigchld' = FALSE
    /\ UNCHANGED errno
    /\ spc' = IF spc = "select" THEN "interrupted" ELSE spc
    /\ UNCHANGED <<svars, procvars, udpvars>>

\* Mutant: sig_chld() calls waitpid() once.
waitpid_once ==
    /\ handler
    /\ \E p \in Zombies : child' = [child EXCEPT ![p] = "reaped"]
    /\ handler' = FALSE
    /\ UNCHANGED <<svars, conn, sigchld, errno, udpvars, spc>>

waitpid ==
    /\ handler
    /\ \E p \in Zombies : child' = [child EXCEPT ![p] = "reaped"]
    /\ UNCHANGED <<svars, conn, sigvars, udpvars, spc>>

\* waitpid() finds nothing more to reap: 0, or -1 with ECHILD when no child is
\* left.  select() sets errno after the handler that interrupted it; a handler that
\* runs after that, before errno is tested, may overwrite it.
sig_return ==
    /\ handler
    /\ Zombies = {}
    /\ handler' = FALSE
    /\ errno' \in IF spc # "interrupted" THEN {errno}
                  ELSE IF errno = "ok" THEN {"EINTR"}
                  ELSE {errno} \cup {x \in {"ECHILD"} : Running = {}}
    /\ UNCHANGED <<svars, procvars, sigchld, udpvars, spc>>

\* if (errno == EINTR) continue;
select_eintr ==
    /\ Runs("interrupted")
    /\ errno = "EINTR"
    /\ spc' = "select"
    /\ errno' = "ok"
    /\ UNCHANGED <<svars, procvars, sigchld, handler, udpvars>>

\* err_sys("select error").
select_error ==
    /\ Runs("interrupted")
    /\ errno # "EINTR"
    /\ ParentExits

Parent ==
    \/ select \/ accept \/ fork \/ fork_fails \/ close \/ udp_echo
    \/ sig_chld \/ waitpid \/ sig_return \/ select_eintr \/ select_error

Server == Parent \/ datagram \/ \E p \in Peers : child_echo(p) \/ child_exit(p) \/ child_fails(p)
-----------------------------------------------------------------------------
(* Properties *)

\* Every variable stays in its domain.
TypeOK ==
    /\ SocketsType
    /\ conn \in Peers \cup {NoPeer}
    /\ child \in [Peers -> {"none", "run", "zombie", "reaped"}]
    /\ sigchld \in BOOLEAN /\ handler \in BOOLEAN /\ errno \in {"ok", "EINTR", "ECHILD"}
    /\ rset \subseteq {"tcp", "udp"}
    /\ queue \in 0..MaxDatagrams /\ answered \in 0..MaxDatagrams
    /\ spc \in {"select", "accept", "fork", "close", "udp", "interrupted", "exit"}

\* Signals coalesce and children end while others are reaped, yet no zombie is
\* forgotten: its SIGCHLD is pending or the handler is about to find it.  And a
\* connection is open exactly as long as the parent or a child holds it.
NoneForgotten ==
    /\ spc # "exit" => (Zombies # {} => sigchld \/ handler)
    /\ \A p \in Peers : phase[p] = "open" <=> conn = p \/ child[p] = "run"

\* The parent calls Accept() and Recvfrom() for what select() reported, although
\* it forks and handles signals in between.
NeverBlocks ==
    /\ Selects /\ spc = "accept" => backlog # <<>>
    /\ spc = "udp" => queue > 0

\* The connection of p got a child.
Served(p) == child[p] # "none" \/ conn = p
=============================================================================
