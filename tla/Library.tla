------------------------------ MODULE Library ------------------------------
(***************************************************************************)
(* The parts of basic_lib and of the demos that stand for themselves: the  *)
(* transfers of Stream, the timer of Rtt, the sockets of Endpoint and the  *)
(* threads of ThreadDemos.  part says which is running; the variables of   *)
(* the others stand still.                                                 *)
(***************************************************************************)
EXTENDS Integers

CONSTANTS
    Parts,                                                  \* what to look at
    Fds, Calls, N, ReadBuf, Newlines, StreamLength,         \* of Stream
    Samples, MaxPackets, MaxStops,                          \* of Rtt
    Opens, Addresses,                                       \* of Endpoint
    Demos, Workers, Turns                                   \* of ThreadDemos

VARIABLES
    part,
    func, sfd, iopc, arrived, over, pos, nleft, read_buf, got, returned, had,   \* Stream
    rpc, rtt_srtt, rtt_rttvar, rtt_rto, rtt_nrexmt, packets, stops, sends,      \* Rtt
    fn, epc, res, last, fds, usable, tcp, nonblock, handler, alarm, errno,      \* Endpoint
    demo, code, tpc, mem, reg, owner, depth, asleep, sent, received, queue, once,
    ran, ready, out                                                            \* ThreadDemos

IO == INSTANCE Stream
Timer == INSTANCE Rtt
Sock == INSTANCE Endpoint
Demo == INSTANCE ThreadDemos

ASSUME LibraryAssumption ==
    /\ Parts \subseteq {"stream", "rtt", "endpoint", "demo"}
    /\ Calls \subseteq {"readn", "writen", "readline"} /\ N \in Nat /\ N > 1
    /\ {ReadBuf, StreamLength, MaxPackets, MaxStops, Addresses, Turns} \subseteq Nat
    /\ MaxStops <= 3 /\ Samples \subseteq Nat /\ Newlines \subseteq Nat
    /\ Demos \subseteq Demo!AllDemos /\ Workers \in Nat /\ Workers >= 4

streamvars == <<func, sfd, iopc, arrived, over, pos, nleft, read_buf, got, returned, had>>
rttvars == <<rpc, rtt_srtt, rtt_rttvar, rtt_rto, rtt_nrexmt, packets, stops, sends>>
endpointvars == <<fn, epc, res, last, fds, usable, tcp, nonblock, handler, alarm, errno>>
demovars == <<demo, code, tpc, mem, reg, owner, depth, asleep, sent, received, queue, once,
              ran, ready, out>>
vars == <<part, streamvars, rttvars, endpointvars, demovars>>

NoStream ==
    /\ func = 0 /\ sfd = 0 /\ iopc = 0 /\ arrived = 0 /\ over = 0 /\ pos = 0 /\ nleft = 0
    /\ read_buf = 0 /\ got = 0 /\ returned = 0 /\ had = 0
NoRtt ==
    /\ rpc = 0 /\ rtt_srtt = 0 /\ rtt_rttvar = 0 /\ rtt_rto = 0 /\ rtt_nrexmt = 0
    /\ packets = 0 /\ stops = 0 /\ sends = 0
NoEndpoint ==
    /\ fn = 0 /\ epc = 0 /\ res = 0 /\ last = 0 /\ fds = 0 /\ usable = 0 /\ tcp = 0
    /\ nonblock = 0 /\ handler = 0 /\ alarm = 0 /\ errno = 0
NoDemo ==
    /\ demo = "none" /\ code = 0 /\ tpc = 0 /\ mem = 0 /\ reg = 0 /\ owner = 0 /\ depth = 0
    /\ asleep = 0 /\ sent = <<>> /\ received = <<>> /\ queue = 0 /\ once = 0 /\ ran = 0 /\ ready = 0
    /\ out = 0

Init ==
    /\ part \in Parts
    /\ \/ part = "stream" /\ IO!Init /\ NoRtt /\ NoEndpoint /\ NoDemo
       \/ part = "rtt" /\ Timer!Init /\ NoStream /\ NoEndpoint /\ NoDemo
       \/ part = "endpoint" /\ Sock!Init /\ NoStream /\ NoRtt /\ NoDemo
       \/ part = "demo" /\ Demo!Init /\ NoStream /\ NoRtt /\ NoEndpoint

StreamStep ==
    part = "stream" /\ IO!Next /\ UNCHANGED <<part, rttvars, endpointvars, demovars>>
RttStep ==
    part = "rtt" /\ Timer!Next /\ UNCHANGED <<part, streamvars, endpointvars, demovars>>
EndpointStep ==
    part = "endpoint" /\ Sock!Next /\ UNCHANGED <<part, streamvars, rttvars, demovars>>
DemoStep ==
    part = "demo" /\ Demo!Next /\ UNCHANGED <<part, streamvars, rttvars, endpointvars>>

Next == StreamStep \/ RttStep \/ EndpointStep \/ DemoStep

Spec == Init /\ [][Next]_vars

\* A thread that can run again and again runs: the scheduler and the mutex starve
\* nobody, although others wake up spuriously.
ThreadRuns(t) ==
    part = "demo" /\ Demo!Thread(t) /\ UNCHANGED <<part, streamvars, rttvars, endpointvars>>

FairSpec == Spec /\ \A t \in 0..Workers : SF_vars(ThreadRuns(t))
-----------------------------------------------------------------------------
(* Properties *)

\* Every variable of the part that runs stays in its domain.
TypeOK ==
    /\ part \in Parts
    /\ part = "stream" => IO!TypeOK
    /\ part = "rtt" => Timer!TypeOK
    /\ part = "endpoint" => Sock!TypeOK
    /\ part = "demo" => Demo!TypeOK

\* readn(), writen() and readline() transfer the right bytes, in order, none twice and
\* none left out, and return when and what they should.
TransfersRight == part = "stream" => IO!InPlace /\ IO!ReturnsRight

\* A transmission always has an alarm; a packet is given up after the last of them.
RetransmitsRight == part = "rtt" => Timer!RetransmitsRight

\* No timeout is longer than RTT_RXTMAX, which unprtt.h calls the maximum.
TimeoutIsBounded == part = "rtt" => Timer!TimeoutIsBounded

\* The functions that make a socket leave the one usable socket open, or none.  The timed
\* ones, which are given a socket, leave it connected and blocking or have failed, and
\* then it is closed, unless connect_nonb() failed in connect() or getsockopt() at once:
\* then it is open and non-blocking.  No alarm is left, the caller's neither.
OpensRight == part = "endpoint" => Sock!OpensRight

\* The demos end with the result they are about.
RightResult == part = "demo" => Demo!RightResult

\* The demos have no data race.
NoDataRace == part = "demo" => Demo!NoDataRace

\* Through SimpleSyncQueue and the queue of demo5 go all values once, in order.
F == INSTANCE Fifo WITH Values <- Demo!Values, Capacity <- Turns * Workers
RefinesFifo == F!FifoSpec

\* main() of the demos ends, but for the two that loop for ever.
AllEnd == <>(part # "demo" \/ demo \in {"timed", "unique_lock"} \/ Demo!Ended(Demo!Main))
=============================================================================
