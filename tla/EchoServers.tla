----------------------------- MODULE EchoServers -----------------------------
(***************************************************************************)
(* The servers of network/ and libev/ against the same kernel and the same *)
(* peers.  kind says which of them is running; it is chosen once, and the  *)
(* variables of the others stay at zero.  What the servers have to         *)
(* guarantee is stated here, once for all of them.                         *)
(***************************************************************************)
EXTENDS Sockets

CONSTANTS
    Kinds,                      \* the servers to look at
    Slots, InitSlots, Garbage,  \* of SelectServer; Slots of PollServer too
    MaxEvents,                  \* of EpollServer, Reactor and EpollDemo
    ItemLength,                 \* of Reactor
    MaxThreads,                 \* of ThreadServer
    MaxProcs, MaxDatagrams,     \* of ProcessServer
    Brief                       \* bound: the servers to which a peer sends one unit

VARIABLES
    kind,
    spc,                                                        \* every server
    nready, maxidx, i,                                          \* with a scan
    events,                                                     \* with epoll
    client, allset, rset, maxfd,                                \* SelectServer
    fd, revents,                                                \* PollServer
    interest, connfd,                                           \* EpollServer
    reg, heap,                                                  \* with contexts
    block_count, itemfd, rbuf, wbuf,                            \* Reactor
    reply, clash,                                               \* histories
    rfds_in, wfds_in, rfds_out, wfds_out, lastfd, cur_fd, buffer, ret, \* SelectDemo
    seen, wbuffer,                                              \* EpollDemo
    len, total_clients,                                         \* LibevServer
    clientfd, tpc, tfd, held,                                   \* ThreadServer
    conn, child, sigchld, handler, errno, queue, answered       \* ProcessServer

Select == INSTANCE SelectServer
Poll == INSTANCE PollServer
Epoll == INSTANCE EpollServer
React == INSTANCE Reactor
Demo2 == INSTANCE SelectDemo
Demo3 == INSTANCE EpollDemo
Libev == INSTANCE LibevServer
Demo1 == INSTANCE ThreadServer WITH Checks <- FALSE
Thread == INSTANCE ThreadServer WITH Checks <- TRUE
Process == INSTANCE ProcessServer WITH Selects <- FALSE
UdpTcp == INSTANCE ProcessServer WITH Selects <- TRUE

AllKinds ==
    {"select", "poll", "epoll", "reactor", "demo2", "demo3", "libev",
     "demo1", "thread", "process", "udptcp"}

ASSUME EchoServersAssumption ==
    /\ Kinds \subseteq AllKinds
    /\ Select!SelectAssumption /\ Poll!PollAssumption
    /\ Epoll!EpollAssumption /\ React!ReactorAssumption
    /\ {MaxThreads, MaxProcs, MaxDatagrams} \subseteq Nat

scanvars == <<nready, maxidx, i>>
selectvars == <<client, allset, maxfd>>
pollvars == <<fd, revents>>
epollvars == <<interest, connfd>>
ctxvars == <<reg, heap>>
reactorvars == <<block_count, itemfd, rbuf, wbuf>>
demo2vars == <<rfds_in, wfds_in, rfds_out, wfds_out, lastfd, cur_fd, buffer, ret>>
demo3vars == <<seen, wbuffer>>
libevvars == <<len, total_clients>>
threadvars == <<clientfd, tpc, tfd, held>>
procvars == <<conn, child, sigchld, handler, errno, queue, answered>>

vars == <<svars, kind, spc, scanvars, events, selectvars, rset, pollvars, epollvars, ctxvars,
          reactorvars, reply, clash, demo2vars, demo3vars, libevvars, threadvars, procvars>>

NoScan == nready = 0 /\ maxidx = 0 /\ i = 0
NoEvents == events = 0
NoRset == rset = 0
NoSelect == client = 0 /\ allset = 0 /\ maxfd = 0
NoPoll == fd = 0 /\ revents = 0
NoEpoll == interest = 0 /\ connfd = 0
NoReg == reg = 0
NoHeap == heap = 0
NoReactor == block_count = 0 /\ itemfd = 0 /\ rbuf = 0 /\ wbuf = 0
NoReply == reply = 0
NoClash == clash = 0
NoDemo2 ==
    /\ rfds_in = 0 /\ wfds_in = 0 /\ rfds_out = 0 /\ wfds_out = 0
    /\ lastfd = 0 /\ cur_fd = 0 /\ buffer = 0 /\ ret = 0
NoDemo3 == seen = 0 /\ wbuffer = 0
NoLibev == len = 0 /\ total_clients = 0
NoThread == clientfd = 0 /\ tpc = 0 /\ tfd = 0 /\ held = 0
NoProcess ==
    /\ conn = 0 /\ child = 0 /\ sigchld = 0 /\ handler = 0
    /\ errno = 0 /\ queue = 0 /\ answered = 0

Init ==
    /\ kind \in Kinds
    /\ \/ /\ kind = "select" /\ Select!Init
          /\ NoEvents /\ NoPoll /\ NoEpoll /\ NoReg /\ NoHeap /\ NoReactor /\ NoReply
          /\ NoClash /\ NoDemo2 /\ NoDemo3 /\ NoLibev /\ NoThread /\ NoProcess
       \/ /\ kind = "poll" /\ Poll!Init
          /\ NoEvents /\ NoRset /\ NoSelect /\ NoEpoll /\ NoReg /\ NoHeap
          /\ NoReactor /\ NoReply /\ NoClash /\ NoDemo2 /\ NoDemo3 /\ NoLibev
          /\ NoThread /\ NoProcess
       \/ /\ kind = "epoll" /\ Epoll!Init
          /\ NoScan /\ NoRset /\ NoSelect /\ NoPoll /\ NoReg /\ NoHeap /\ NoReactor
          /\ NoReply /\ NoClash /\ NoDemo2 /\ NoDemo3 /\ NoLibev /\ NoThread
          /\ NoProcess
       \/ /\ kind = "reactor" /\ React!Init
          /\ NoScan /\ NoRset /\ NoSelect /\ NoPoll /\ NoEpoll /\ NoClash /\ NoDemo2
          /\ NoDemo3 /\ NoLibev /\ NoThread /\ NoProcess
       \/ /\ kind = "demo2" /\ Demo2!Init
          /\ NoScan /\ NoEvents /\ NoRset /\ NoSelect /\ NoPoll /\ NoEpoll /\ NoReg
          /\ NoHeap /\ NoReactor /\ NoDemo3 /\ NoLibev /\ NoThread /\ NoProcess
       \/ /\ kind = "demo3" /\ Demo3!Init
          /\ NoScan /\ NoRset /\ NoSelect /\ NoPoll /\ NoEpoll /\ NoHeap /\ NoReactor
          /\ NoDemo2 /\ NoLibev /\ NoThread /\ NoProcess
       \/ /\ kind = "libev" /\ Libev!Init
          /\ NoScan /\ NoRset /\ NoSelect /\ NoPoll /\ NoEpoll /\ NoReactor
          /\ NoReply /\ NoClash /\ NoDemo2 /\ NoDemo3 /\ NoThread /\ NoProcess
       \/ /\ kind = "demo1" /\ Demo1!Init
          /\ NoScan /\ NoEvents /\ NoRset /\ NoSelect /\ NoPoll /\ NoEpoll /\ NoReg
          /\ NoHeap /\ NoReactor /\ NoDemo2 /\ NoDemo3 /\ NoLibev /\ NoProcess
       \/ /\ kind = "thread" /\ Thread!Init
          /\ NoScan /\ NoEvents /\ NoRset /\ NoSelect /\ NoPoll /\ NoEpoll /\ NoReg
          /\ NoHeap /\ NoReactor /\ NoDemo2 /\ NoDemo3 /\ NoLibev /\ NoProcess
       \/ /\ kind = "process" /\ Process!Init
          /\ NoScan /\ NoEvents /\ NoSelect /\ NoPoll /\ NoEpoll /\ NoReg /\ NoHeap
          /\ NoReactor /\ NoReply /\ NoClash /\ NoDemo2 /\ NoDemo3 /\ NoLibev
          /\ NoThread
       \/ /\ kind = "udptcp" /\ UdpTcp!Init
          /\ NoScan /\ NoEvents /\ NoSelect /\ NoPoll /\ NoEpoll /\ NoReg /\ NoHeap
          /\ NoReactor /\ NoReply /\ NoClash /\ NoDemo2 /\ NoDemo3 /\ NoLibev
          /\ NoThread

SelectStep ==
    /\ kind = "select" /\ Select!Server
    /\ UNCHANGED <<events, pollvars, epollvars, reg, heap, reactorvars, reply, clash,
                    demo2vars, demo3vars, libevvars, threadvars, procvars>>

PollStep ==
    /\ kind = "poll" /\ Poll!Server
    /\ UNCHANGED <<events, rset, selectvars, epollvars, reg, heap, reactorvars, reply,
                    clash, demo2vars, demo3vars, libevvars, threadvars, procvars>>

EpollStep ==
    /\ kind = "epoll" /\ Epoll!Server
    /\ UNCHANGED <<scanvars, rset, selectvars, pollvars, reg, heap, reactorvars, reply,
                    clash, demo2vars, demo3vars, libevvars, threadvars, procvars>>

ReactStep ==
    /\ kind = "reactor" /\ React!Server
    /\ UNCHANGED <<scanvars, rset, selectvars, pollvars, epollvars, clash, demo2vars,
                    demo3vars, libevvars, threadvars, procvars>>

Demo2Step ==
    /\ kind = "demo2" /\ Demo2!Server
    /\ UNCHANGED <<scanvars, events, rset, selectvars, pollvars, epollvars, reg, heap,
                    reactorvars, demo3vars, libevvars, threadvars, procvars>>

Demo3Step ==
    /\ kind = "demo3" /\ Demo3!Server
    /\ UNCHANGED <<scanvars, rset, selectvars, pollvars, epollvars, heap, reactorvars,
                    demo2vars, libevvars, threadvars, procvars>>

LibevStep ==
    /\ kind = "libev" /\ Libev!Server
    /\ UNCHANGED <<scanvars, rset, selectvars, pollvars, epollvars, reactorvars, reply,
                    clash, demo2vars, demo3vars, threadvars, procvars>>

Demo1Step ==
    /\ kind = "demo1" /\ Demo1!Server
    /\ UNCHANGED <<scanvars, events, rset, selectvars, pollvars, epollvars, reg, heap,
                    reactorvars, demo2vars, demo3vars, libevvars, procvars>>

ThreadStep ==
    /\ kind = "thread" /\ Thread!Server
    /\ UNCHANGED <<scanvars, events, rset, selectvars, pollvars, epollvars, reg, heap,
                    reactorvars, demo2vars, demo3vars, libevvars, procvars>>

ProcessStep ==
    /\ kind = "process" /\ Process!Server
    /\ UNCHANGED <<scanvars, events, selectvars, pollvars, epollvars, reg, heap,
                    reactorvars, reply, clash, demo2vars, demo3vars, libevvars, threadvars>>

UdpTcpStep ==
    /\ kind = "udptcp" /\ UdpTcp!Server
    /\ UNCHANGED <<scanvars, events, selectvars, pollvars, epollvars, reg, heap,
                    reactorvars, reply, clash, demo2vars, demo3vars, libevvars, threadvars>>

Server ==
    /\ \/ SelectStep \/ PollStep \/ EpollStep \/ ReactStep \/ Demo2Step \/ Demo3Step
       \/ LibevStep \/ Demo1Step \/ ThreadStep \/ ProcessStep \/ UdpTcpStep
    /\ UNCHANGED kind

PeerStep ==
    /\ spc # "exit"
    /\ \E p \in Peers : Peer(p)
    /\ kind \in Brief => \A p \in Peers : sent'[p] <= 1
    /\ UNCHANGED <<kind, spc, scanvars, events, selectvars, rset, pollvars, epollvars, ctxvars,
                   reactorvars, reply, clash, demo2vars, demo3vars, libevvars, threadvars,
                   procvars>>

Next == Server \/ PeerStep

Spec == Init /\ [][Next]_vars

(* The process runs whenever it can.  accept() may be interrupted by a       *)
(* signal, but not for ever.  Peers owe nobody anything.                     *)
AcceptReturns ==
    /\ Server
    /\ phase' # phase
    /\ \E p \in Peers : phase[p] = "queued" /\ phase'[p] # "queued"

Fairness == WF_vars(Server) /\ SF_vars(AcceptReturns)

FairSpec == Spec /\ Fairness
-----------------------------------------------------------------------------
(* Properties *)

\* Every variable of the server that runs stays in its domain: in particular
\* nready never counts below zero and no turn has more events than events[] holds.
TypeOK ==
    \/ kind = "select" /\ Select!TypeOK
    \/ kind = "poll" /\ Poll!TypeOK
    \/ kind = "epoll" /\ Epoll!TypeOK
    \/ kind = "reactor" /\ React!TypeOK
    \/ kind = "demo2" /\ Demo2!TypeOK
    \/ kind = "demo3" /\ Demo3!TypeOK
    \/ kind = "libev" /\ Libev!TypeOK
    \/ kind = "demo1" /\ Demo1!TypeOK
    \/ kind = "thread" /\ Thread!TypeOK
    \/ kind = "process" /\ Process!TypeOK
    \/ kind = "udptcp" /\ UdpTcp!TypeOK

\* The server's tables agree with the connections that are open, whatever was
\* closed and reused: client[], allset, maxfd and maxidx of the select() server,
\* client[] and maxidx of the poll() server, what the epoll server has registered,
\* the items, buffers and registrations of the reactor, the descriptor sets of
\* demo2, the edges of demo3, the watchers of the libev server, one thread for each
\* connection, the descriptors and children of the forking servers.
TablesAgree ==
    \/ kind = "select" /\ Select!TablesAgree
    \/ kind = "poll" /\ Poll!TableAgrees
    \/ kind = "epoll" /\ Epoll!RegisteredIsOpen
    \/ kind = "reactor" /\ React!ItemsAgree
    \/ kind = "demo2" /\ Demo2!OpenIsWatched
    \/ kind = "demo3" /\ Demo3!NoLostEdge
    \/ kind = "libev" /\ Libev!WatchersAgree
    \/ kind = "demo1" /\ Demo1!OneThreadEach
    \/ kind = "thread" /\ Thread!OneThreadEach
    \/ kind = "process" /\ Process!NoneForgotten
    \/ kind = "udptcp" /\ UdpTcp!NoneForgotten

\* A server that reads blocking descriptors never waits for one peer while it has
\* others to serve: what select(), poll() or epoll_wait() reported is still true
\* when it is acted upon.
NeverBlocks ==
    /\ kind = "select" => Select!NeverBlocks
    /\ kind = "poll" => Poll!NeverBlocks
    /\ kind = "epoll" => Epoll!NeverBlocks
    /\ kind = "udptcp" => UdpTcp!NeverBlocks

\* The countdown of nready ends the scan of the select() server exactly when
\* every descriptor that was reported has been handled.
CountdownIsExact == kind = "select" => Select!CountdownIsExact

\* Whose bytes a peer is sent.  The reactor has a buffer for each connection: only
\* the peer's own.  demo2, demo1 and thread share one buffer, or one clientfd: only
\* its own as long as no two connections need it at the same time.  demo3 sends all
\* of its buffer each time: until two connections need it at the same time the
\* answer begins with the peer's own, and behind them come what longer messages of
\* other peers have left.
OwnBytes ==
    /\ kind = "reactor" => React!OwnBytes
    /\ kind = "demo2" => Demo2!OwnBytes
    /\ kind = "demo3" => Demo3!OwnBytes
    /\ kind \in {"demo1", "thread"} => Thread!OwnBytes

\* Whether the server still looks at the connection of p.
Served(p) ==
    /\ kind = "epoll" => Epoll!Served(p)
    /\ kind = "libev" => Libev!Served(p)
    /\ kind \in {"demo1", "thread"} => ~clash
    /\ kind \in {"process", "udptcp"} => Process!Served(p)

\* Everything a peer sends on an accepted connection is answered, with as many
\* units (whose, is the question of OwnBytes), unless the connection is reset, the
\* server has lost sight of it (the epoll server unregistered it, two threads took
\* the same descriptor, no child could be made), or the process ends.
EchoesAll ==
    \A p \in Peers :
        back[p] < sent[p] /\ phase[p] = "open" ~>
            back[p] = sent[p] \/ fin[p] = "rst" \/ ~Served(p) \/ spc = "exit"

\* A connection that has ended is closed and its descriptor can be used again,
\* unless the server has lost sight of it before.  Two servers are left out because
\* they close no connection at all: demo3, and the libev server, whose callback
\* reports "Successfully close client" after freeing the watcher only.
ClosesAll ==
    \A p \in Peers :
        fin[p] # "no" /\ kind \notin {"demo3", "libev"} ~>
            phase[p] = "gone" \/ (phase[p] = "open" /\ ~Served(p))

\* d3_select_echo_server.cpp: the server gives up with "too many clients" when
\* each slot of client[] is in use.
QuitsWhenFull == kind = "select" => Select!QuitsWhenFull

\* d5_epoll_echo_server.cpp: a connection is unregistered when it is closed, and
\* not before.
OpenIsRegistered == kind = "epoll" => Epoll!OpenIsRegistered

\* d1_multi_thread_echo_server.cpp: a new thread handles each client's requests.
EachHandled == kind = "thread" => Thread!EachHandled
=============================================================================
