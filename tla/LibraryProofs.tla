---------------------------- MODULE LibraryProofs ----------------------------
(***************************************************************************)
(* Proofs about the parts of basic_lib and about the small demos.  The     *)
(* timer of Rtt keeps its alarm and its count of retransmissions right for *)
(* every sequence of measured times; the functions of Endpoint leave the   *)
(* sockets they should, no alarm and no handler, for every number of       *)
(* addresses; those of Stream transfer every byte once; and the demos of   *)
(* ThreadDemos have no data race, end with the right result and use their  *)
(* queue as a Fifo, for every number of threads and turns.                 *)
(***************************************************************************)
EXTENDS Library, SequenceTheorems, FiniteSetTheorems, TLAPS

\* How many addresses, and how long a stream, is a natural number.
LEMMA Numbers == Addresses \in Nat /\ StreamLength \in Nat /\ ReadBuf \in Nat
  BY LibraryAssumption

\* Nothing of a part moves while another part runs.
LEMMA OnePart ==
    ASSUME [Next]_vars
    PROVE  /\ part' = part
           /\ part = "stream" => IO!Next \/ UNCHANGED streamvars
           /\ part = "rtt" => Timer!Next \/ UNCHANGED rttvars
           /\ part = "endpoint" => Sock!Next \/ UNCHANGED endpointvars
           /\ part = "demo" => Demo!Next \/ UNCHANGED demovars
           /\ part # "demo" => UNCHANGED demovars
  BY DEF Next, vars, StreamStep, RttStep, EndpointStep, DemoStep

-----------------------------------------------------------------------------
(* The timer *)

\* A waiting packet has been sent once more than its alarm has gone off.
RttInv ==
    /\ rpc \in {"idle", "wait", "gaveup"}
    /\ rtt_srtt \in Nat /\ rtt_rttvar \in Nat
    /\ rtt_rto \in Nat /\ rtt_rto >= Timer!RTT_RXTMIN
    /\ rtt_nrexmt \in 0..(Timer!RTT_MAXNREXMT + 1)
    /\ sends \in 0..(Timer!RTT_MAXNREXMT + 1)
    /\ rpc = "wait" => rtt_nrexmt <= Timer!RTT_MAXNREXMT /\ sends = rtt_nrexmt + 1
    /\ rpc = "gaveup" => sends = Timer!RTT_MAXNREXMT + 1

\* Whatever the estimators say, rtt_minmax() returns a timeout within the limits.
LEMMA MinMax ==
    ASSUME NEW rto \in Int
    PROVE  Timer!rtt_minmax(rto) \in Nat /\ Timer!rtt_minmax(rto) >= Timer!RTT_RXTMIN
  BY DEF Timer!rtt_minmax, Timer!RTT_RXTMIN, Timer!RTT_RXTMAX, Timer!Sec

\* rtt_init()
LEMMA RttStart ==
    ASSUME Timer!Init
    PROVE  RttInv
<1>1. rtt_srtt \in Nat /\ rtt_rttvar \in Nat
  BY DEF Timer!Init, Timer!Sec
<1>2. Timer!RTT_RTOCALC(rtt_srtt, rtt_rttvar) \in Int
  BY <1>1 DEF Timer!RTT_RTOCALC
<1>3. rtt_rto \in Nat /\ rtt_rto >= Timer!RTT_RXTMIN
  BY <1>2, MinMax DEF Timer!Init
<1>4. QED
  BY <1>1, <1>3 DEF Timer!Init, RttInv, Timer!RTT_MAXNREXMT

\* rtt_stop(): the estimators stay natural numbers, whatever was measured.
LEMMA RttStop ==
    ASSUME RttInv, NEW rtt \in Samples, Timer!rtt_stop(rtt)
    PROVE  RttInv'
<1>1. rtt \in Nat
  BY LibraryAssumption
<1>2. rtt_srtt' \in Nat
  BY <1>1 DEF RttInv, Timer!rtt_stop, Timer!Sec
<1>3. rtt_rttvar' \in Nat
  BY <1>1 DEF RttInv, Timer!rtt_stop, Timer!Sec, Timer!Abs
<1>4. Timer!RTT_RTOCALC(rtt_srtt', rtt_rttvar') \in Int
  BY <1>2, <1>3 DEF Timer!RTT_RTOCALC
<1>5. rtt_rto' \in Nat /\ rtt_rto' >= Timer!RTT_RXTMIN
  BY <1>4, MinMax DEF Timer!rtt_stop
<1>6. QED
  BY <1>2, <1>3, <1>5 DEF RttInv, Timer!rtt_stop, Timer!RTT_MAXNREXMT, Timer!RTT_RXTMIN, Timer!Sec

\* Every step of the timer and of its caller.
LEMMA RttKeeps ==
    ASSUME RttInv, Timer!Next \/ UNCHANGED rttvars
    PROVE  RttInv'
<1> USE DEF RttInv, Timer!RTT_MAXNREXMT, Timer!RTT_RXTMIN, Timer!Sec
<1>1. CASE Timer!rtt_newpack
  BY <1>1 DEF Timer!rtt_newpack
<1>2. CASE Timer!rtt_timeout
  BY <1>2 DEF Timer!rtt_timeout
<1>3. CASE Timer!go_on
  BY <1>3 DEF Timer!go_on
<1>4. ASSUME NEW rtt \in Samples, Timer!rtt_stop(rtt)
      PROVE  RttInv'
  BY <1>4, RttStop
<1>5. CASE UNCHANGED rttvars
  BY <1>5 DEF rttvars
<1>6. QED
  BY <1>1, <1>2, <1>3, <1>4, <1>5 DEF Timer!Next

\* Every transmission has an alarm of at least RTT_RXTMIN, and a packet is given up
\* exactly after its last allowed transmission, for all measured times and packets.
THEOREM RetransmitsRightHolds == Spec => []RetransmitsRight
<1> DEFINE I == part = "rtt" => RttInv
<1>1. Init => I
  BY RttStart DEF Init
<1>2. I /\ [Next]_vars => I'
  BY OnePart, RttKeeps
<1>3. I => RetransmitsRight
  BY DEF RetransmitsRight, RttInv, Timer!RetransmitsRight, Timer!rtt_start,
         Timer!RTT_MAXNREXMT, Timer!RTT_RXTMIN, Timer!Sec
<1>4. QED
  BY <1>1, <1>2, <1>3, PTL DEF Spec
-----------------------------------------------------------------------------
(* The functions that open a socket *)

\* The functions that walk the list of addresses hold the socket of the address they
\* are at, and no other, and never touch the alarm or a connection in progress.
ListedInv ==
    /\ epc \in {"socket", "try", "listen", "ok", "quit"}
    /\ epc = "socket" => fds = {}
    /\ epc \in {"try", "listen"} => fds = {res}
    /\ epc \in {"listen", "ok"} => usable = res /\ fds = {usable}
    /\ epc \in {"socket", "try", "listen", "ok"} => res \in 1..last
    /\ epc = "quit" /\ fn # "tcp_listen" => fds = {}
    /\ epc = "listen" => fn = "tcp_listen"
    /\ tcp = "closed" /\ alarm = "off" /\ handler = FALSE

\* connect_nonb() holds the socket it was given, which is non-blocking until it returns.
NonbInv ==
    /\ epc \in {"socket", "select", "done", "ok", "error"}
    /\ alarm = "off" /\ handler = FALSE
    /\ epc \in {"socket", "select", "done", "ok"} => fds = {1}
    /\ epc = "socket" => nonblock = FALSE /\ tcp = "closed" /\ errno = "none"
    /\ epc = "select" => nonblock = TRUE /\ tcp # "closed" /\ errno = "none"
    /\ epc = "done" => /\ nonblock = TRUE
                       /\ \/ tcp = "connected" /\ errno = "none"
                          \/ tcp = "refused" /\ errno = "SO_ERROR"
    /\ epc = "ok" => nonblock = FALSE /\ tcp = "connected" /\ usable = 1
    /\ epc = "error" => /\ tcp # "connecting"
                        /\ IF errno \in {"connect", "getsockopt"}
                           THEN fds = {1} /\ nonblock = TRUE ELSE fds = {}

\* connect_timeo(): the handler is there while the alarm can come, and what connect()
\* said is only what the network had said.
TimeoInv ==
    /\ epc \in {"socket", "connect", "blocked", "return", "ok", "error"}
    /\ nonblock = FALSE
    /\ epc \in {"socket", "connect", "blocked", "return", "ok"} => fds = {1}
    /\ epc = "socket" => tcp = "closed" /\ errno = "none" /\ handler = FALSE
    /\ epc = "connect" => tcp = "closed" /\ errno = "none"
    /\ epc = "blocked" => tcp # "closed" /\ errno = "none"
    /\ epc = "return" => tcp # "closed" /\ (errno = "none" => tcp = "connected")
    /\ epc = "ok" => tcp = "connected" /\ usable = 1
    /\ epc = "error" => tcp = "closed" /\ fds = {}
    /\ epc \in {"ok", "error"} => alarm = "off" /\ handler = FALSE

\* Sock!TypeOK but for the two flags.
EndpointTypes ==
    /\ fn \in Opens /\ last \in 1..Addresses /\ res \in 0..last
    /\ fds \subseteq 1..last /\ usable \in 0..last
    /\ epc \in {"socket", "try", "listen", "select", "done", "connect", "blocked", "return",
                "ok", "error", "quit"}
    /\ tcp \in {"closed", "connecting", "connected", "refused"}
    /\ alarm \in {"off", "own", "caller"}

EndpointInv ==
    /\ EndpointTypes
    /\ fn \notin Sock!Timed => ListedInv
    /\ fn = "connect_nonb" => NonbInv
    /\ fn = "connect_timeo" => TimeoInv

Listing == Sock!socket \/ Sock!socket_fails \/ Sock!works("ok") \/ Sock!works("listen") \/ Sock!fails

\* One turn of the loop over the addresses.
LEMMA ListingKeeps ==
    ASSUME EndpointInv, NEW f \in {"tcp_connect", "tcp_listen", "udp_connect", "udp_server", "udp_client"},
           Sock!Listed(f), Listing, epc' = "listen" => f = "tcp_listen"
    PROVE  EndpointInv'
<1> USE DEF EndpointInv, EndpointTypes, ListedInv, Sock!Listed, Sock!timedvars, Sock!Timed
<1>1. CASE Sock!socket
  BY <1>1 DEF Sock!socket
<1>2. CASE Sock!socket_fails
  BY <1>2 DEF Sock!socket_fails, Sock!NextAddress
<1>3. CASE Sock!works("ok")
  BY <1>3 DEF Sock!works
<1>4. CASE Sock!works("listen")
  BY <1>4 DEF Sock!works
<1>5. CASE Sock!fails
  BY <1>5 DEF Sock!fails, Sock!NextAddress
<1>6. QED
  BY <1>1, <1>2, <1>3, <1>4, <1>5 DEF Listing

\* tcp_connect(), tcp_listen(), udp_connect(), udp_server() and udp_client()
LEMMA ListedKeeps ==
    ASSUME EndpointInv,
           \/ Sock!tcp_connect \/ Sock!tcp_listen \/ Sock!udp_connect
           \/ Sock!udp_server \/ Sock!udp_client
    PROVE  EndpointInv'
<1>0. Sock!socket \/ Sock!socket_fails \/ Sock!works("ok") \/ Sock!fails => epc' # "listen"
  BY DEF Sock!socket, Sock!socket_fails, Sock!works, Sock!fails, Sock!NextAddress
<1>1. CASE Sock!tcp_connect
  BY <1>0, <1>1, ListingKeeps DEF Sock!tcp_connect, Listing
<1>2. CASE Sock!udp_connect
  BY <1>0, <1>2, ListingKeeps DEF Sock!udp_connect, Listing
<1>3. CASE Sock!udp_server
  BY <1>0, <1>3, ListingKeeps DEF Sock!udp_server, Listing
<1>4. CASE Sock!tcp_listen
  <2>1. CASE Listing
    BY <1>4, <2>1, ListingKeeps DEF Sock!tcp_listen
  <2>2. CASE epc \in {"try", "listen"} /\ epc' \in {"ok", "quit"} /\ (epc' = "ok" => epc = "listen")
             /\ UNCHANGED <<res, fds, usable>>
    BY <1>4, <2>2 DEF Sock!tcp_listen, EndpointInv, EndpointTypes, ListedInv, Sock!Listed,
                      Sock!timedvars, Sock!Timed
  <2>3. QED
    BY <1>4, <2>1, <2>2 DEF Sock!tcp_listen, Listing
<1>5. CASE Sock!udp_client
  <2>1. CASE Sock!socket_fails
    BY <1>0, <1>5, <2>1, ListingKeeps DEF Sock!udp_client, Listing
  <2>2. CASE ~Sock!socket_fails
    BY <1>5, <2>2 DEF Sock!udp_client, EndpointInv, EndpointTypes, ListedInv, Sock!Listed,
                      Sock!timedvars, Sock!Timed
  <2>3. QED
    BY <2>1, <2>2
<1>6. QED
  BY <1>1, <1>2, <1>3, <1>4, <1>5

\* connect_nonb(), the network and Select()'s time limit.
LEMMA NonbKeeps ==
    ASSUME EndpointInv, fn = "connect_nonb",
           Sock!connect_nonb \/ Sock!syn_answered \/ Sock!connect_alarm
    PROVE  EndpointInv'
<1> USE Numbers DEF EndpointInv, EndpointTypes, NonbInv, Sock!Timed
<1>1. CASE Sock!nonb_connect
  BY <1>1 DEF Sock!nonb_connect, Sock!Leave
<1>2. CASE Sock!nonb_timeout
  BY <1>2 DEF Sock!nonb_timeout, Sock!Leave
<1>3. CASE Sock!nonb_select
  BY <1>3 DEF Sock!nonb_select, Sock!Leave
<1>4. CASE Sock!nonb_done
  <2>1. CASE errno = "none"
    BY <1>4, <2>1 DEF Sock!nonb_done, Sock!Leave
  <2>2. CASE errno # "none"
    BY <1>4, <2>2 DEF Sock!nonb_done, Sock!Leave
  <2>3. QED
    BY <2>1, <2>2
<1>5. CASE Sock!syn_answered
  BY <1>5 DEF Sock!syn_answered
<1>6. CASE Sock!connect_alarm
  BY <1>6 DEF Sock!connect_alarm
<1>7. QED
  BY <1>1, <1>2, <1>3, <1>4, <1>5, <1>6 DEF Sock!connect_nonb

\* connect_timeo(), the network and SIGALRM, which comes between any two of its steps.
LEMMA TimeoKeeps ==
    ASSUME EndpointInv, fn = "connect_timeo",
           Sock!connect_timeo \/ Sock!syn_answered \/ Sock!connect_alarm
    PROVE  EndpointInv'
<1> USE Numbers DEF EndpointInv, EndpointTypes, TimeoInv, Sock!Timed
<1>1. CASE Sock!timeo_alarm
  BY <1>1 DEF Sock!timeo_alarm
<1>2. CASE Sock!timeo_connect
  BY <1>2 DEF Sock!timeo_connect
<1>3. CASE Sock!timeo_returns
  BY <1>3 DEF Sock!timeo_returns
<1>4. CASE Sock!timeo_return
  <2>1. CASE errno = "none"
    BY <1>4, <2>1 DEF Sock!timeo_return, Sock!Leave
  <2>2. CASE errno # "none"
    BY <1>4, <2>2 DEF Sock!timeo_return, Sock!Leave
  <2>3. QED
    BY <2>1, <2>2
<1>5. CASE Sock!syn_answered
  BY <1>5 DEF Sock!syn_answered
<1>6. CASE Sock!connect_alarm
  BY <1>6 DEF Sock!connect_alarm
<1>7. QED
  BY <1>1, <1>2, <1>3, <1>4, <1>5, <1>6 DEF Sock!connect_timeo

\* Every step of the functions, the network and the alarm clock.
LEMMA EndpointKeeps ==
    ASSUME EndpointInv, Sock!Next \/ UNCHANGED endpointvars
    PROVE  EndpointInv'
<1>1. CASE UNCHANGED endpointvars
  BY <1>1 DEF endpointvars, EndpointInv, EndpointTypes, ListedInv, NonbInv, TimeoInv
<1>2. CASE fn = "connect_nonb" /\ Sock!Next
  <2>1. Sock!connect_nonb \/ Sock!syn_answered \/ Sock!connect_alarm
    BY <1>2 DEF Sock!Next, Sock!Function, Sock!tcp_connect, Sock!tcp_listen, Sock!udp_connect,
        Sock!udp_server, Sock!udp_client, Sock!Listed, Sock!connect_timeo, Sock!timeo_alarm,
        Sock!timeo_connect, Sock!timeo_returns, Sock!timeo_return, EndpointInv, NonbInv
  <2>2. QED
    BY <1>2, <2>1, NonbKeeps
<1>3. CASE fn = "connect_timeo" /\ Sock!Next
  <2>1. Sock!connect_timeo \/ Sock!syn_answered \/ Sock!connect_alarm
    BY <1>3 DEF Sock!Next, Sock!Function, Sock!tcp_connect, Sock!tcp_listen, Sock!udp_connect,
        Sock!udp_server, Sock!udp_client, Sock!Listed, Sock!connect_nonb, Sock!nonb_connect,
        Sock!nonb_timeout, Sock!nonb_select, Sock!nonb_done
  <2>2. QED
    BY <1>3, <2>1, TimeoKeeps
<1>4. CASE fn \notin Sock!Timed /\ Sock!Next
  <2>1. \/ Sock!tcp_connect \/ Sock!tcp_listen \/ Sock!udp_connect
        \/ Sock!udp_server \/ Sock!udp_client
    BY <1>4 DEF Sock!Next, Sock!Function, Sock!connect_nonb, Sock!nonb_connect, Sock!nonb_timeout,
        Sock!nonb_select, Sock!nonb_done, Sock!connect_timeo, Sock!timeo_alarm,
        Sock!timeo_connect, Sock!timeo_returns, Sock!timeo_return, Sock!syn_answered,
        Sock!connect_alarm, Sock!Timed, EndpointInv, ListedInv
  <2>2. QED
    BY <2>1, ListedKeeps
<1>5. QED
  BY <1>1, <1>2, <1>3, <1>4 DEF Sock!Timed

\* Before the first of its system calls.
LEMMA EndpointStart ==
    ASSUME Sock!Init
    PROVE  EndpointInv
<1> USE Numbers DEF Sock!Init, Sock!Timed
<1>1. EndpointTypes
  BY DEF EndpointTypes
<1>2. fn \notin Sock!Timed => ListedInv
  BY DEF ListedInv
<1>3. fn = "connect_nonb" => NonbInv
  BY DEF NonbInv
<1>4. fn = "connect_timeo" => TimeoInv
  BY DEF TimeoInv
<1>5. QED
  BY <1>1, <1>2, <1>3, <1>4 DEF EndpointInv

\* The two flags of Sock!TypeOK.
Flags == nonblock \in BOOLEAN /\ handler \in BOOLEAN

\* Every step leaves them flags.
LEMMA FlagsKeep ==
    ASSUME Flags, Sock!Next \/ UNCHANGED endpointvars
    PROVE  Flags'
<1>1. /\ nonblock' = nonblock \/ nonblock' = TRUE \/ nonblock' = FALSE
      /\ handler' = handler \/ handler' = TRUE \/ handler' = FALSE
  BY DEF endpointvars, Sock!Next, Sock!Function, Sock!tcp_connect, Sock!tcp_listen,
         Sock!udp_connect, Sock!udp_server, Sock!udp_client, Sock!Listed, Sock!timedvars,
         Sock!connect_nonb, Sock!nonb_connect, Sock!nonb_timeout, Sock!nonb_select,
         Sock!nonb_done, Sock!connect_timeo, Sock!timeo_alarm, Sock!timeo_connect,
         Sock!timeo_returns, Sock!timeo_return, Sock!syn_answered, Sock!connect_alarm
<1>2. QED
  BY <1>1, Zenon DEF Flags

\* For any number of addresses, any of which may fail, and any order of answer and time
\* limit: a function that makes a socket leaves the usable one open or, quitting after
\* the last address, none; a timed one that succeeds leaves the socket it was given
\* connected and blocking, connect_timeo() that fails leaves it closed, and
\* connect_nonb() that fails leaves it closed after a timeout or a late refusal, open and
\* non-blocking when connect() failed at once or getsockopt() failed; and connect_timeo()
\* leaves no alarm, not the one its caller may have set either, and no handler.
THEOREM OpensRightHolds == Spec => []OpensRight
<1> DEFINE I == part = "endpoint" => EndpointInv
<1>1. Init => I
  BY EndpointStart DEF Init
<1>2. I /\ [Next]_vars => I'
  BY OnePart, EndpointKeeps
<1>3. I => OpensRight
  BY DEF OpensRight, Sock!OpensRight, Sock!MakesOne, Sock!ConnectsGiven, Sock!NoAlarmLeft,
         EndpointInv, ListedInv, NonbInv, TimeoInv, Sock!Timed
<1>4. QED
  BY <1>1, <1>2, <1>3, PTL DEF Spec
-----------------------------------------------------------------------------
(* The transfers *)

\* The n bytes of descriptor f that follow its first a.
Run(f, a, n) == [k \in 1..n |-> <<f, a + k>>]

\* Runs are sequences; one is the concatenation of its parts.
LEMMA RunSeq ==
    ASSUME NEW f \in Fds, NEW a \in Nat, NEW n \in Nat
    PROVE  /\ Run(f, a, n) \in Seq(Fds \X Nat)
           /\ Len(Run(f, a, n)) = n
           /\ \A k \in 1..n : Run(f, a, n)[k] = <<f, a + k>>
  BY DEF Run

\* The only run of no bytes is the empty one.
LEMMA RunEmpty ==
    ASSUME NEW f \in Fds, NEW a \in Nat, NEW n \in Nat
    PROVE  /\ Run(f, a, 0) = <<>>
           /\ Run(f, a, n) = <<>> <=> n = 0
  BY DEF Run

\* Two sequences with the same elements at the same places are equal.
LEMMA RunIs ==
    ASSUME NEW f \in Fds, NEW a \in Nat, NEW n \in Nat, NEW s \in Seq(Fds \X Nat),
           Len(s) = n, \A k \in 1..n : s[k] = <<f, a + k>>
    PROVE  s = Run(f, a, n)
<1> DEFINE r == Run(f, a, n)
<1>1. r \in Seq(Fds \X Nat) /\ Len(r) = n /\ \A k \in 1..n : r[k] = <<f, a + k>>
  BY RunSeq
<1> HIDE DEF r
<1>2. s = r
  BY <1>1, SeqEqual
<1>3. QED
  BY <1>2 DEF r

\* A run followed by the run that begins where it ends is a run.
LEMMA RunConcat ==
    ASSUME NEW f \in Fds, NEW a \in Nat, NEW m \in Nat, NEW n \in Nat
    PROVE  Run(f, a, m) \o Run(f, a + m, n) = Run(f, a, m + n)
<1> DEFINE p == Run(f, a, m)
           q == Run(f, a + m, n)
<1>1. p \in Seq(Fds \X Nat) /\ Len(p) = m /\ \A k \in 1..m : p[k] = <<f, a + k>>
  BY RunSeq
<1>2. a + m \in Nat /\ m + n \in Nat
  OBVIOUS
<1>3. q \in Seq(Fds \X Nat) /\ Len(q) = n /\ \A k \in 1..n : q[k] = <<f, (a + m) + k>>
  BY <1>2, RunSeq
<1> HIDE DEF p, q
<1>4. p \o q \in Seq(Fds \X Nat) /\ Len(p \o q) = m + n
  BY <1>1, <1>3, ConcatProperties
<1>5. ASSUME NEW k \in 1..(m + n)
      PROVE  (p \o q)[k] = <<f, a + k>>
  <2> DEFINE S == Fds \X Nat
  <2>0. p \in Seq(S) /\ q \in Seq(S) /\ Len(p) = m /\ Len(q) = n
    BY <1>1, <1>3
  <2> HIDE DEF S
  <2>1. (p \o q)[k] = IF k <= m THEN p[k] ELSE q[k - m]
    BY <2>0, ConcatProperties
  <2>2. CASE k <= m
    BY <1>1, <2>1, <2>2
  <2>3. CASE ~(k <= m)
    <3>1. k - m \in 1..n /\ (a + m) + (k - m) = a + k
      BY <2>3
    <3>2. QED
      BY <1>3, <2>1, <2>3, <3>1
  <2>4. QED
    BY <2>2, <2>3
<1>6. p \o q = Run(f, a, m + n)
  BY <1>2, <1>4, <1>5, RunIs
<1>7. QED
  BY <1>6 DEF p, q

\* The byte after a run makes it one longer.
LEMMA RunAppend ==
    ASSUME NEW f \in Fds, NEW a \in Nat, NEW m \in Nat
    PROVE  Append(Run(f, a, m), <<f, a + m + 1>>) = Run(f, a, m + 1)
<1> DEFINE p == Run(f, a, m)
           c == <<f, a + m + 1>>
<1>1. p \in Seq(Fds \X Nat) /\ Len(p) = m /\ \A k \in 1..m : p[k] = <<f, a + k>>
  BY RunSeq
<1>2. c \in Fds \X Nat /\ c = <<f, a + (m + 1)>> /\ m + 1 \in Nat
  OBVIOUS
<1> HIDE DEF p, c
<1>3. Append(p, c) \in Seq(Fds \X Nat) /\ Len(Append(p, c)) = m + 1
  BY <1>1, <1>2
<1>4. ASSUME NEW k \in 1..(m + 1)
      PROVE  Append(p, c)[k] = <<f, a + k>>
  <2>1. CASE k = m + 1
    BY <1>1, <1>2, <2>1
  <2>2. CASE k # m + 1
    <3>1. k \in 1..m
      BY <2>2
    <3>2. Append(p, c)[k] = p[k]
      BY <1>1, <1>2, <3>1
    <3>3. QED
      BY <1>1, <3>1, <3>2
  <2>3. QED
    BY <2>1, <2>2
<1>5. Append(p, c) = Run(f, a, m + 1)
  BY <1>2, <1>3, <1>4, RunIs
<1>6. QED
  BY <1>5 DEF p, c

\* The first byte of a run, and the run after it.
LEMMA RunTail ==
    ASSUME NEW f \in Fds, NEW a \in Nat, NEW n \in Nat, n > 0
    PROVE  /\ Head(Run(f, a, n)) = <<f, a + 1>>
           /\ Tail(Run(f, a, n)) = Run(f, a + 1, n - 1)
<1> DEFINE p == Run(f, a, n)
<1>1. p \in Seq(Fds \X Nat) /\ Len(p) = n /\ \A k \in 1..n : p[k] = <<f, a + k>>
  BY RunSeq
<1>2. n - 1 \in Nat /\ a + 1 \in Nat
  OBVIOUS
<1> HIDE DEF p
<1>3. Head(p) = <<f, a + 1>>
  BY <1>1
<1>4. Tail(p) \in Seq(Fds \X Nat) /\ Len(Tail(p)) = n - 1
  BY <1>1
<1>5. ASSUME NEW k \in 1..(n - 1)
      PROVE  Tail(p)[k] = <<f, (a + 1) + k>>
  <2>1. Tail(p)[k] = p[k + 1] /\ k + 1 \in 1..n
    BY <1>1
  <2>2. p[k + 1] = <<f, a + (k + 1)>>
    BY <1>1, <2>1
  <2>3. a + (k + 1) = (a + 1) + k
    OBVIOUS
  <2>4. QED
    BY <2>1, <2>2, <2>3
<1>6. Tail(p) = Run(f, a + 1, n - 1)
  BY <1>2, <1>4, <1>5, RunIs
<1>7. QED
  BY <1>3, <1>6 DEF p

\* The first n of n bytes.
LEMMA RunSub ==
    ASSUME NEW f \in Fds, NEW a \in Nat, NEW n \in Nat
    PROVE  SubSeq(Run(f, a, n), 1, n) = Run(f, a, n)
<1> DEFINE p == Run(f, a, n)
<1>1. p \in Seq(Fds \X Nat) /\ Len(p) = n /\ \A k \in 1..n : p[k] = <<f, a + k>>
  BY RunSeq
<1> HIDE DEF p
<1>2. /\ SubSeq(p, 1, n) \in Seq(Fds \X Nat) /\ Len(SubSeq(p, 1, n)) = n
      /\ \A k \in 1..n : SubSeq(p, 1, n)[k] = p[k]
  BY <1>1
<1>3. \A k \in 1..n : SubSeq(p, 1, n)[k] = <<f, a + k>>
  BY <1>1, <1>2
<1>4. SubSeq(p, 1, n) = Run(f, a, n)
  BY <1>2, <1>3, RunIs
<1>5. QED
  BY <1>4 DEF p
-----------------------------------------------------------------------------
(* What a call has read or written is a run that begins where the calls before it
   ended, what my_read() has ahead is the run after that, and read() has taken just
   these: so no byte is lost when the caller turns to another descriptor. *)
RunsInv ==
    /\ Len(got) \in Nat /\ got = Run(sfd, had[sfd], Len(got))
    /\ Len(read_buf) \in 0..ReadBuf
    /\ read_buf = Run(sfd, had[sfd] + Len(got), Len(read_buf))
    /\ func # "readline" => Len(read_buf) = 0
    /\ func # "writen" =>
          /\ pos[sfd] = had[sfd] + Len(got) + Len(read_buf)
          /\ \A f \in Fds \ {sfd} : pos[f] = had[f]

\* The descriptors and the counters.
StreamTypes ==
    /\ func \in {"readn", "writen", "readline"} /\ func \in Calls /\ sfd \in Fds
    /\ iopc \in {"idle", "in", "dead"}
    /\ arrived \in [Fds -> Nat] /\ pos \in [Fds -> Nat] /\ had \in [Fds -> Nat]
    /\ DOMAIN over = Fds
    /\ \A f \in Fds : pos[f] <= arrived[f] /\ arrived[f] <= StreamLength
    /\ nleft \in 0..N /\ returned \in -1..N

Newline(k) == had[sfd] + k \in Newlines

\* A call that goes on has more to do, and the call that returned has done it.
CallInv ==
    /\ iopc = "in" => returned = 0
    /\ func # "readline" /\ iopc # "dead" /\ (iopc = "in" \/ returned # 0) => Len(got) = N - nleft
    /\ func # "readline" /\ iopc = "in" => nleft > 0
    /\ func # "readline" /\ iopc = "idle" /\ returned # 0 =>
          \/ nleft = 0 /\ returned = N
          \/ func = "readn" /\ returned = N - nleft /\ IO!AtEnd
    /\ func = "readline" /\ iopc = "in" =>
          Len(got) + 1 < N /\ \A k \in 1..Len(got) : ~Newline(k)
    /\ func = "readline" /\ iopc = "idle" /\ returned # 0 =>
          /\ Len(got) > 0
          /\ \A k \in 1..(Len(got) - 1) : ~Newline(k)
          /\ \/ returned = Len(got) /\ (Newline(Len(got)) \/ IO!AtEnd)
             \/ returned = N /\ Len(got) = N - 1 /\ ~Newline(Len(got))

StreamInv == StreamTypes /\ RunsInv /\ CallInv

\* The peer only adds to what is there, and nothing after the end.
LEMMA PeerKeeps ==
    ASSUME StreamInv, NEW f \in Fds, IO!peer(f)
    PROVE  StreamInv'
<1>1. UNCHANGED <<func, sfd, iopc, pos, nleft, read_buf, got, returned, had>> /\ ~over[f]
  BY DEF IO!peer
<1>2. StreamTypes'
  BY <1>1, Numbers DEF StreamInv, StreamTypes, IO!peer
<1>3. RunsInv'
  BY <1>1 DEF StreamInv, RunsInv
<1>4. ASSUME IO!AtEnd
      PROVE  IO!AtEnd'
  <2>1. f # sfd /\ sfd \in Fds /\ sfd' = sfd
    BY <1>1, <1>4 DEF IO!AtEnd, StreamInv, StreamTypes
  <2>2. arrived'[sfd] = arrived[sfd] /\ over'[sfd] = over[sfd]
    BY <2>1 DEF IO!peer, StreamInv, StreamTypes
  <2>3. QED
    BY <1>1, <1>4, <2>1, <2>2 DEF IO!AtEnd, IO!Available
<1>5. CallInv'
  BY <1>1, <1>4 DEF StreamInv, CallInv, Newline
<1>6. QED
  BY <1>2, <1>3, <1>5 DEF StreamInv

\* A call goes on where the last one on its descriptor ended: on another descriptor
\* only when nothing was read ahead.
LEMMA CallKeeps ==
    ASSUME StreamInv, NEW f \in Fds, IO!call(f)
    PROVE  StreamInv'
<1> DEFINE g == Len(got)
           b == Len(read_buf)
<1>1. /\ iopc = "idle" /\ (f = sfd \/ b = 0)
      /\ sfd' = f /\ iopc' = "in" /\ had' = [had EXCEPT ![sfd] = @ + g]
      /\ nleft' = N /\ got' = <<>> /\ returned' = 0
      /\ UNCHANGED <<func, arrived, over, pos, read_buf>>
  BY DEF IO!call, IO!readlinebuf
<1>2. StreamTypes /\ g \in Nat /\ N \in Nat /\ N > 1
  BY LibraryAssumption DEF StreamInv, RunsInv
<1>3. StreamTypes'
  BY <1>1, <1>2 DEF StreamTypes
<1>4. had'[sfd] = had[sfd] + g /\ \A h \in Fds \ {sfd} : had'[h] = had[h]
  BY <1>1, <1>2 DEF StreamTypes
<1>5. Len(got') = 0 /\ got' = Run(f, had'[f], 0)
  <2>1. had'[f] \in Nat
    BY <1>1, <1>3 DEF StreamTypes
  <2>2. QED
    BY <1>1, <2>1, RunEmpty
<1>6. read_buf' = Run(f, had'[f] + 0, b)
  <2>1. CASE f = sfd
    <3>1. had'[f] + 0 = had[sfd] + g
      BY <1>2, <1>4, <2>1 DEF StreamTypes
    <3>2. QED
      BY <1>1, <2>1, <3>1 DEF StreamInv, RunsInv
  <2>2. CASE b = 0
    <3>1. read_buf = <<>>
      BY <1>2, <2>2, RunEmpty DEF StreamInv, RunsInv, StreamTypes
    <3>2. had'[f] + 0 \in Nat
      BY <1>1, <1>3 DEF StreamTypes
    <3>3. QED
      BY <1>1, <2>2, <3>1, <3>2, RunEmpty
  <2>3. QED
    BY <1>1, <2>1, <2>2
<1>7. func # "writen" => /\ pos[f] = had'[f] + 0 + b
                        /\ \A h \in Fds \ {f} : pos[h] = had'[h]
  BY <1>1, <1>2, <1>4 DEF StreamInv, StreamTypes, RunsInv
<1>8. RunsInv'
  BY <1>1, <1>5, <1>6, <1>7 DEF StreamInv, RunsInv
<1>9. CallInv'
  BY <1>1, <1>2, <1>5 DEF CallInv
<1>10. QED
  BY <1>3, <1>8, <1>9 DEF StreamInv

\* What the rest of the loops has to show: a transfer of n more bytes.
LEMMA TransferKeeps ==
    ASSUME StreamInv, func \in {"readn", "writen"}, iopc = "in", NEW n \in 1..nleft,
           got' = Run(sfd, had[sfd], Len(got) + n), IO!Advance(n),
           UNCHANGED <<func, sfd, arrived, over, read_buf, had>>,
           func = "readn" => n <= IO!Available /\ pos' = [pos EXCEPT ![sfd] = @ + n],
           func = "writen" => UNCHANGED pos
    PROVE  StreamInv'
<1> DEFINE g == Len(got)
<1>1. StreamTypes /\ g \in Nat /\ N \in Nat /\ N > 1 /\ g = N - nleft /\ returned = 0
  BY LibraryAssumption DEF StreamInv, RunsInv, CallInv
<1>2. /\ nleft' = nleft - n /\ nleft' \in 0..N
      /\ \/ nleft' = 0 /\ iopc' = "idle" /\ returned' = N
         \/ nleft' > 0 /\ iopc' = "in" /\ returned' = 0
  BY <1>1 DEF IO!Advance, IO!Return, StreamTypes
<1>3. Len(got') = g + n /\ g + n = N - nleft' /\ g + n \in Nat
  <2>1. g + n \in Nat /\ had[sfd] \in Nat /\ sfd \in Fds /\ g + n = N - nleft'
    BY <1>1, <1>2 DEF StreamTypes
  <2>2. Len(Run(sfd, had[sfd], g + n)) = g + n
    BY <2>1, RunSeq
  <2>3. got' = Run(sfd, had[sfd], g + n)
    OBVIOUS
  <2> HIDE DEF g
  <2>4. QED
    BY <2>1, <2>2, <2>3
<1>4. StreamTypes'
  <2>1. pos' \in [Fds -> Nat] /\ \A f \in Fds : pos'[f] <= arrived[f]
    <3>1. n \in Nat /\ pos \in [Fds -> Nat] /\ arrived \in [Fds -> Nat] /\ sfd \in Fds
          /\ \A f \in Fds : pos[f] <= arrived[f]
      BY <1>1 DEF StreamTypes
    <3>2. CASE func = "writen"
      BY <3>1, <3>2
    <3>3. CASE func = "readn"
      <4>1. pos' = [pos EXCEPT ![sfd] = @ + n] /\ n <= arrived[sfd] - pos[sfd]
        BY <3>3 DEF IO!Available
      <4>2. QED
        BY <3>1, <4>1
    <3>4. QED
      BY <3>2, <3>3
  <2>2. QED
    BY <1>1, <1>2, <2>1 DEF StreamTypes
<1>5. RunsInv'
  <2>1. Len(read_buf) = 0 /\ read_buf' = <<>>
    BY <1>1, RunEmpty DEF StreamInv, RunsInv, StreamTypes
  <2>2. had[sfd] + (g + n) \in Nat
    BY <1>1 DEF StreamTypes
  <2>3. read_buf' = Run(sfd, had[sfd] + (g + n), 0)
    BY <1>1, <2>1, <2>2, RunEmpty DEF StreamTypes
  <2>4. func = "readn" => pos'[sfd] = had[sfd] + (g + n) + 0 /\ \A f \in Fds \ {sfd} : pos'[f] = had[f]
    BY <1>1, <2>1 DEF StreamInv, RunsInv, StreamTypes
  <2>5. QED
    BY <1>1, <1>3, <2>1, <2>3, <2>4 DEF StreamInv, RunsInv
<1>6. CallInv'
  <2>1. func' # "readline" /\ iopc' # "dead" /\ N > 0
    BY <1>1, <1>2
  <2>2. QED
    BY <1>1, <1>2, <1>3, <2>1 DEF CallInv
<1>7. QED
  BY <1>4, <1>5, <1>6 DEF StreamInv

\* An interrupted read() or write() changes nothing.
LEMMA InterruptedKeeps ==
    ASSUME StreamInv, func \in {"readn", "writen"}, iopc = "in", IO!Advance(IO!Interrupted)
    PROVE  UNCHANGED <<nleft, iopc, returned>>
  BY DEF StreamInv, StreamTypes, CallInv, IO!Advance, IO!Interrupted

\* readn(): what read() took follows what it had.
LEMMA ReadnKeeps ==
    ASSUME StreamInv, IO!readn
    PROVE  StreamInv'
<1> DEFINE g == Len(got)
<1>1. /\ func = "readn" /\ iopc = "in" /\ UNCHANGED <<func, sfd, arrived, over, read_buf, had>>
      /\ StreamTypes /\ RunsInv /\ g \in Nat /\ N \in Nat /\ nleft \in 1..N /\ g = N - nleft
      /\ sfd \in Fds /\ had[sfd] \in Nat
  <2>1. func = "readn" /\ iopc = "in" /\ UNCHANGED <<func, sfd, arrived, over, read_buf, had>>
    BY DEF IO!readn
  <2>2. StreamTypes /\ RunsInv /\ CallInv
    BY DEF StreamInv
  <2>3. N \in Nat /\ sfd \in Fds /\ had[sfd] \in Nat /\ nleft \in 0..N
    BY <2>2, LibraryAssumption DEF StreamTypes
  <2>4. g \in Nat
    BY <2>2 DEF RunsInv
  <2>5. nleft > 0 /\ g = N - nleft
    BY <2>1, <2>2 DEF CallInv
  <2>6. QED
    BY <2>1, <2>2, <2>3, <2>4, <2>5
<1>2. ASSUME NEW n \in 1..nleft, n <= IO!Available,
             got' = SubSeq(got, 1, N - nleft) \o IO!Bytes(pos[sfd], n),
             pos' = [pos EXCEPT ![sfd] = @ + n], IO!Advance(n)
      PROVE  StreamInv'
  <2>1. IO!Bytes(pos[sfd], n) = Run(sfd, had[sfd] + g, n)
    BY <1>1 DEF IO!Bytes, Run, RunsInv, StreamTypes
  <2>2. SubSeq(got, 1, N - nleft) = Run(sfd, had[sfd], g)
    BY <1>1, RunSub DEF RunsInv
  <2>3. got' = Run(sfd, had[sfd], g + n)
    <3>1. n \in Nat /\ sfd \in Fds /\ had[sfd] \in Nat /\ g \in Nat
      BY <1>1
    <3>2. Run(sfd, had[sfd], g) \o Run(sfd, had[sfd] + g, n) = Run(sfd, had[sfd], g + n)
      BY <3>1, RunConcat
    <3>3. QED
      BY <1>2, <2>1, <2>2, <3>2
  <2>4. QED
    BY <1>1, <1>2, <2>3, TransferKeeps
<1>3. CASE IO!Advance(IO!Interrupted) /\ UNCHANGED <<got, pos>>
  <2>1. UNCHANGED <<nleft, iopc, returned>>
    BY <1>1, <1>3, InterruptedKeeps
  <2>2. QED
    BY <1>1, <1>3, <2>1
    DEF StreamInv, StreamTypes, RunsInv, CallInv, Newline, IO!AtEnd, IO!Available
<1>4. CASE IO!AtEnd /\ IO!Return(N - nleft) /\ UNCHANGED <<got, pos, nleft>>
  <2>1. StreamTypes'
    BY <1>1, <1>4 DEF StreamTypes, IO!Return
  <2>2. RunsInv'
    BY <1>1, <1>4 DEF RunsInv
  <2>3. IO!AtEnd'
    BY <1>1, <1>4 DEF IO!AtEnd, IO!Available
  <2>4. CallInv'
    BY <1>1, <1>4, <2>3 DEF CallInv, IO!Return
  <2>5. QED
    BY <2>1, <2>2, <2>4 DEF StreamInv
<1>5. QED
  BY <1>2, <1>3, <1>4 DEF IO!readn

\* writen(): what write() took follows what it had.
LEMMA WritenKeeps ==
    ASSUME StreamInv, IO!writen
    PROVE  StreamInv'
<1> DEFINE g == Len(got)
<1>1. /\ func = "writen" /\ iopc = "in" /\ UNCHANGED <<func, sfd, arrived, over, pos, read_buf, had>>
      /\ StreamTypes /\ RunsInv /\ g \in Nat /\ N \in Nat /\ nleft \in 1..N /\ g = N - nleft
      /\ sfd \in Fds /\ had[sfd] \in Nat
  BY LibraryAssumption DEF IO!writen, StreamInv, RunsInv, CallInv, StreamTypes
<1>2. ASSUME NEW n \in 1..nleft,
             got' = got \o IO!Bytes(had[sfd] + N - nleft, n), IO!Advance(n)
      PROVE  StreamInv'
  <2>1. IO!Bytes(had[sfd] + N - nleft, n) = Run(sfd, had[sfd] + g, n)
    <3>1. had[sfd] + N - nleft = had[sfd] + g
      BY <1>1
    <3>2. QED
      BY <3>1 DEF IO!Bytes, Run
  <2>2. got' = Run(sfd, had[sfd], g + n)
    <3>1. n \in Nat /\ sfd \in Fds /\ had[sfd] \in Nat /\ g \in Nat
      BY <1>1
    <3>2. Run(sfd, had[sfd], g) \o Run(sfd, had[sfd] + g, n) = Run(sfd, had[sfd], g + n)
      BY <3>1, RunConcat
    <3>3. got = Run(sfd, had[sfd], g)
      BY <1>1 DEF RunsInv
    <3>4. QED
      BY <1>2, <2>1, <3>2, <3>3
  <2>3. QED
    BY <1>1, <1>2, <2>2, TransferKeeps
<1>3. CASE IO!Advance(IO!Interrupted) /\ UNCHANGED got
  <2>1. UNCHANGED <<nleft, iopc, returned>>
    BY <1>1, <1>3, InterruptedKeeps
  <2>2. QED
    BY <1>1, <1>3, <2>1
    DEF StreamInv, StreamTypes, RunsInv, CallInv, Newline, IO!AtEnd, IO!Available
<1>4. QED
  BY <1>2, <1>3 DEF IO!writen
\* err_sys(): the process is gone, what it had stays as it was.
LEMMA FailsKeeps ==
    ASSUME StreamInv, IO!fails
    PROVE  StreamInv'
<1>1. iopc' = "dead" /\ returned' = -1 /\ N \in Nat
      /\ UNCHANGED <<func, sfd, arrived, over, pos, nleft, read_buf, got, had>>
  BY LibraryAssumption DEF IO!fails
<1>2. StreamTypes'
  BY <1>1 DEF StreamInv, StreamTypes
<1>3. RunsInv'
  BY <1>1 DEF StreamInv, RunsInv
<1>4. CallInv'
  BY <1>1 DEF CallInv
<1>5. QED
  BY <1>2, <1>3, <1>4 DEF StreamInv

\* my_read() fills its buffer with what follows what the call has.
LEMMA FillKeeps ==
    ASSUME StreamInv, IO!my_read_fill
    PROVE  StreamInv'
<1> DEFINE g == Len(got)
<1>1. /\ func = "readline" /\ iopc = "in" /\ read_buf = <<>>
      /\ UNCHANGED <<func, sfd, iopc, arrived, over, nleft, got, returned, had>>
  BY DEF IO!my_read_fill
<1>2. PICK n \in 1..ReadBuf : /\ n <= IO!Available /\ read_buf' = IO!Bytes(pos[sfd], n)
                              /\ pos' = [pos EXCEPT ![sfd] = @ + n]
  BY DEF IO!my_read_fill
<1>3. /\ StreamTypes /\ RunsInv /\ CallInv /\ g \in Nat /\ n \in Nat /\ sfd \in Fds
      /\ had[sfd] \in Nat /\ pos \in [Fds -> Nat] /\ arrived \in [Fds -> Nat]
  BY Numbers DEF StreamInv, RunsInv, StreamTypes
<1>4. pos[sfd] = had[sfd] + g /\ \A f \in Fds \ {sfd} : pos[f] = had[f]
  BY <1>1, <1>3 DEF RunsInv
<1>5. read_buf' = Run(sfd, had[sfd] + g, n) /\ Len(read_buf') = n
  <2>1. read_buf' = Run(sfd, had[sfd] + g, n)
    BY <1>2, <1>4 DEF IO!Bytes, Run
  <2>2. had[sfd] + g \in Nat
    BY <1>3
  <2>3. Len(Run(sfd, had[sfd] + g, n)) = n
    BY <1>3, <2>2, RunSeq
  <2>4. QED
    BY <2>1, <2>3
<1>6. /\ pos' \in [Fds -> Nat] /\ \A f \in Fds : pos'[f] <= arrived[f]
      /\ pos'[sfd] = had[sfd] + g + n /\ \A f \in Fds \ {sfd} : pos'[f] = had[f]
  <2>1. pos' = [pos EXCEPT ![sfd] = @ + n] /\ n <= arrived[sfd] - pos[sfd]
    BY <1>2 DEF IO!Available
  <2>2. \A f \in Fds : pos[f] <= arrived[f]
    BY <1>3 DEF StreamTypes
  <2>3. QED
    BY <1>3, <1>4, <2>1, <2>2
<1>7. StreamTypes'
  BY <1>1, <1>3, <1>6 DEF StreamTypes
<1>8. RunsInv'
  <2>1. n \in 0..ReadBuf
    BY <1>2, Numbers
  <2>2. QED
    BY <1>1, <1>3, <1>5, <1>6, <2>1 DEF RunsInv
<1>9. CallInv'
  BY <1>1, <1>3 DEF CallInv, Newline
<1>10. QED
  BY <1>7, <1>8, <1>9 DEF StreamInv

\* readline() takes the next byte and stops at a newline, or when its buffer is full.
LEMMA ReadlineKeeps ==
    ASSUME StreamInv, IO!readline
    PROVE  StreamInv'
<1> DEFINE g == Len(got)
           b == Len(read_buf)
<1>1. /\ func = "readline" /\ iopc = "in" /\ read_buf # <<>>
      /\ got' = Append(got, Head(read_buf)) /\ read_buf' = Tail(read_buf)
      /\ UNCHANGED <<func, sfd, arrived, over, pos, nleft, had>>
  BY DEF IO!readline
<1>2. /\ StreamTypes /\ RunsInv /\ CallInv /\ g \in Nat /\ b \in 0..ReadBuf /\ sfd \in Fds
      /\ had[sfd] \in Nat /\ N \in Nat /\ g + 1 < N /\ returned = 0
  BY <1>1, LibraryAssumption DEF StreamInv, RunsInv, StreamTypes, CallInv
<1>3. got = Run(sfd, had[sfd], g) /\ read_buf = Run(sfd, had[sfd] + g, b) /\ had[sfd] + g \in Nat
  BY <1>2 DEF RunsInv
<1>4. b \in Nat /\ b > 0
  <2>1. b \in Nat
    BY <1>2, Numbers
  <2>2. b # 0
    BY <1>1, <1>2, <1>3, <2>1, RunEmpty
  <2>3. QED
    BY <2>1, <2>2
<1>5. /\ Head(read_buf) = <<sfd, had[sfd] + g + 1>>
      /\ read_buf' = Run(sfd, had[sfd] + g + 1, b - 1)
  <2>1. /\ Head(Run(sfd, had[sfd] + g, b)) = <<sfd, had[sfd] + g + 1>>
        /\ Tail(Run(sfd, had[sfd] + g, b)) = Run(sfd, had[sfd] + g + 1, b - 1)
    BY <1>2, <1>3, <1>4, RunTail
  <2>2. QED
    BY <1>1, <1>3, <2>1
<1>6. got' = Run(sfd, had[sfd], g + 1)
  <2>1. Append(Run(sfd, had[sfd], g), <<sfd, had[sfd] + g + 1>>) = Run(sfd, had[sfd], g + 1)
    BY <1>2, RunAppend
  <2>2. QED
    BY <1>1, <1>3, <1>5, <2>1
<1>7. Len(got') = g + 1 /\ Len(read_buf') = b - 1
  <2>1. g + 1 \in Nat /\ b - 1 \in Nat /\ had[sfd] + g + 1 \in Nat
    BY <1>2, <1>4
  <2>2. Len(Run(sfd, had[sfd], g + 1)) = g + 1
    BY <1>2, <2>1, RunSeq
  <2>3. Len(Run(sfd, had[sfd] + g + 1, b - 1)) = b - 1
    BY <1>2, <2>1, RunSeq
  <2>4. QED
    BY <1>5, <1>6, <2>2, <2>3
<1>8. Head(read_buf)[2] = had[sfd] + (g + 1) /\ had[sfd] + g + 1 = had[sfd] + (g + 1)
  BY <1>2, <1>5
<1>9. \/ iopc' = "idle" /\ returned' = g + 1 /\ Newline(g + 1)
      \/ iopc' = "idle" /\ returned' = N /\ g + 2 = N /\ ~Newline(g + 1)
      \/ iopc' = "in" /\ returned' = 0 /\ g + 2 < N /\ ~Newline(g + 1)
  <2>1. /\ Newline(g + 1) => iopc' = "idle" /\ returned' = g + 1
        /\ ~Newline(g + 1) /\ g + 1 + 1 = N => iopc' = "idle" /\ returned' = N
        /\ ~Newline(g + 1) /\ g + 1 + 1 # N => iopc' = "in" /\ returned' = 0
    BY <1>1, <1>2, <1>8 DEF IO!readline, IO!Return, Newline
  <2>2. QED
    BY <1>2, <2>1
<1>10. StreamTypes'
  BY <1>1, <1>2, <1>9 DEF StreamTypes
<1>11. RunsInv'
  <2>1. read_buf' = Run(sfd, had[sfd] + (g + 1), b - 1)
    BY <1>5, <1>8
  <2>2. b - 1 \in 0..ReadBuf
    BY <1>2, <1>4, Numbers
  <2>3. pos[sfd] = had[sfd] + (g + 1) + (b - 1) /\ \A f \in Fds \ {sfd} : pos[f] = had[f]
    <3>1. pos[sfd] = had[sfd] + g + b /\ \A f \in Fds \ {sfd} : pos[f] = had[f]
      BY <1>1, <1>2 DEF RunsInv
    <3>2. had[sfd] + g + b = had[sfd] + (g + 1) + (b - 1)
      BY <1>2, <1>4
    <3>3. QED
      BY <3>1, <3>2
  <2>4. QED
    BY <1>1, <1>2, <1>6, <1>7, <2>1, <2>2, <2>3 DEF RunsInv
<1>12. CallInv'
  <2>1. \A k \in 1..g : ~Newline(k)
    BY <1>1, <1>2 DEF CallInv
  <2>2. \A k : Newline(k)' <=> Newline(k)
    BY <1>1 DEF Newline
  <2>3. iopc' = "in" => \A k \in 1..(g + 1) : ~Newline(k)
    BY <1>2, <1>9, <2>1
  <2>4. g + 1 - 1 = g /\ g + 1 > 0
    BY <1>2
  <2>5. CASE iopc' = "in"
    <3>1. returned' = 0 /\ g + 1 + 1 < N
      BY <1>2, <1>9, <2>5
    <3>2. QED
      BY <1>1, <1>7, <2>2, <2>3, <2>5, <3>1 DEF CallInv
  <2>6. CASE iopc' = "idle"
    <3>1. \/ returned' = g + 1 /\ Newline(g + 1)
          \/ returned' = N /\ g + 1 = N - 1 /\ ~Newline(g + 1)
      BY <1>2, <1>9, <2>6
    <3>2. QED
      BY <1>1, <1>7, <2>1, <2>2, <2>4, <2>6, <3>1 DEF CallInv
  <2>7. QED
    BY <1>9, <2>5, <2>6
<1>13. QED
  BY <1>10, <1>11, <1>12 DEF StreamInv

\* readline() at the end of the stream.
LEMMA EofKeeps ==
    ASSUME StreamInv, IO!readline_eof
    PROVE  StreamInv'
<1>1. /\ func = "readline" /\ iopc = "in" /\ IO!AtEnd /\ iopc' = "idle" /\ returned' = Len(got)
      /\ UNCHANGED <<func, sfd, arrived, over, pos, nleft, read_buf, got, had>>
      /\ Len(got) \in Nat /\ N \in Nat /\ Len(got) + 1 < N
  BY LibraryAssumption DEF IO!readline_eof, IO!Return, StreamInv, RunsInv, CallInv
<1>2. StreamTypes'
  BY <1>1 DEF StreamInv, StreamTypes
<1>3. RunsInv'
  BY <1>1 DEF StreamInv, RunsInv
<1>4. IO!AtEnd'
  BY <1>1 DEF IO!AtEnd, IO!Available
<1>5. CallInv'
  <2>1. \A k \in 1..(Len(got) - 1) : ~Newline(k)'
    BY <1>1 DEF StreamInv, CallInv, Newline
  <2>2. QED
    BY <1>1, <1>4, <2>1 DEF CallInv
<1>6. QED
  BY <1>2, <1>3, <1>5 DEF StreamInv

\* Every step of the callers, the functions and the peers.
LEMMA StreamKeeps ==
    ASSUME StreamInv, IO!Next \/ UNCHANGED streamvars
    PROVE  StreamInv'
<1>1. CASE UNCHANGED streamvars
  BY <1>1
  DEF streamvars, StreamInv, StreamTypes, RunsInv, CallInv, Newline, IO!AtEnd, IO!Available
<1>2. QED
  BY <1>1, PeerKeeps, CallKeeps, ReadnKeeps, WritenKeeps, FailsKeeps, FillKeeps, ReadlineKeeps,
     EofKeeps
  DEF IO!Next

\* Before the first call.
LEMMA StreamStart ==
    ASSUME IO!Init
    PROVE  StreamInv
<1>1. StreamTypes
  BY LibraryAssumption, Numbers DEF IO!Init, StreamTypes
<1>2. RunsInv
  <2>1. Len(got) = 0 /\ Len(read_buf) = 0 /\ had[sfd] = 0 /\ sfd \in Fds
    BY DEF IO!Init
  <2>2. Run(sfd, 0, 0) = <<>> /\ 0 + 0 = 0
    BY <2>1, RunEmpty
  <2>3. QED
    BY <2>1, <2>2, Numbers DEF IO!Init, RunsInv
<1>3. CallInv
  BY DEF IO!Init, CallInv
<1>4. QED
  BY <1>1, <1>2, <1>3 DEF StreamInv

\* readn(), writen() and readline() transfer every byte once, in order, and return
\* only when their work is done: for any number of descriptors, any sizes, and any way
\* the transfers are cut up, interrupted and read ahead.
THEOREM TransfersRightHolds == Spec => []TransfersRight
<1> DEFINE I == part = "stream" => StreamInv
<1>1. Init => I
  BY StreamStart DEF Init
<1>2. I /\ [Next]_vars => I'
  BY OnePart, StreamKeeps
<1>3. I => TransfersRight
  <2> SUFFICES ASSUME StreamInv
               PROVE  IO!InPlace /\ IO!ReturnsRight
    BY DEF TransfersRight
  <2>1. /\ Len(got) \in Nat /\ sfd \in Fds /\ had[sfd] \in Nat /\ N \in Nat /\ N > 1
        /\ got = Run(sfd, had[sfd], Len(got))
    BY LibraryAssumption DEF StreamInv, RunsInv, StreamTypes
  <2>2. DOMAIN got = 1..Len(got) /\ \A k \in 1..Len(got) : got[k] = <<sfd, had[sfd] + k>>
    BY <2>1 DEF Run
  <2>3. IO!InPlace
    BY <2>2 DEF IO!InPlace
  <2>4. \A k \in 1..Len(got) : got[k][2] = had[sfd] + k
    BY <2>2
  <2>5. ASSUME iopc = "idle", returned # 0
        PROVE  /\ func = "writen" => Len(got) = N
               /\ func = "readn" => Len(got) = returned /\ (returned = N \/ IO!AtEnd)
    BY <2>1, <2>5 DEF StreamInv, CallInv
  <2>6. ASSUME iopc = "idle", returned # 0, func = "readline"
        PROVE  /\ \A k \in 1..(Len(got) - 1) : got[k][2] \notin Newlines
               /\ got[Len(got)][2] \in Newlines \/ IO!AtEnd \/ Len(got) = N - 1
               /\ returned \in {Len(got), Len(got) + 1}
               /\ got[Len(got)][2] \in Newlines \/ Len(got) < N - 1 => returned = Len(got)
    <3>1. /\ Len(got) > 0
          /\ \A k \in 1..(Len(got) - 1) : ~Newline(k)
          /\ \/ returned = Len(got) /\ (Newline(Len(got)) \/ IO!AtEnd)
             \/ returned = N /\ Len(got) = N - 1 /\ ~Newline(Len(got))
      BY <2>6 DEF StreamInv, CallInv
    <3>2. Newline(Len(got)) <=> got[Len(got)][2] \in Newlines
      BY <2>1, <2>4, <3>1 DEF Newline
    <3>3. \A k \in 1..(Len(got) - 1) : got[k][2] \notin Newlines
      BY <2>1, <2>4, <3>1 DEF Newline
    <3>4. QED
      BY <2>1, <3>1, <3>2, <3>3
  <2>7. IO!ReturnsRight
    BY <2>5, <2>6 DEF IO!ReturnsRight
  <2>8. QED
    BY <2>3, <2>7
<1>4. QED
  BY <1>1, <1>2, <1>3, PTL DEF Spec
-----------------------------------------------------------------------------
(* The code of the demos *)

Threads == 0..Workers

\* How many threads and turns there are is a number, and there are four threads.
LEMMA DemoSizes == Workers \in Nat /\ Workers >= 4 /\ Turns \in Nat /\ Demo!Threads = Threads
  BY LibraryAssumption DEF Demo!Threads, Threads

\* main() starts n threads and joins them in the same order.
StartsAll(c, n) ==
    /\ Len(c) = 2 * n
    /\ \A k \in 1..n : c[k].op = "spawn" /\ c[k].arg = k
    /\ \A k \in (n + 1)..(2 * n) : c[k].op = "join" /\ c[k].arg = k - n

\* A loop of n turns whose body has the operations o1 to o4.
Loops(c, n, o1, o2, o3, o4) ==
    /\ Len(c) = 4 * n
    /\ \A k \in 1..(4 * n) :
          c[k].op = IF k % 4 = 1 THEN o1 ELSE IF k % 4 = 2 THEN o2
                    ELSE IF k % 4 = 3 THEN o3 ELSE o4

\* SpawnAll is such a main().
LEMMA SpawnAllStarts ==
    ASSUME NEW n \in Nat
    PROVE  StartsAll(Demo!SpawnAll(n), n)
<1> DEFINE a == [k \in 1..n |-> [op |-> "spawn", arg |-> k]]
           b == [k \in 1..n |-> [op |-> "join", arg |-> k]]
           A == {[op |-> "spawn", arg |-> k] : k \in 1..n}
           B == {[op |-> "join", arg |-> k] : k \in 1..n}
           S == A \cup B
<1>1. a \in Seq(S) /\ b \in Seq(S) /\ Len(a) = n /\ Len(b) = n
  <2>1. \A k \in 1..n : a[k] \in A /\ b[k] \in B
    OBVIOUS
  <2>2. DOMAIN a = 1..n /\ DOMAIN b = 1..n /\ Len(a) = n /\ Len(b) = n
    OBVIOUS
  <2>3. a = [k \in 1..n |-> a[k]] /\ b = [k \in 1..n |-> b[k]]
    OBVIOUS
  <2>4. \A k \in 1..n : a[k] \in S /\ b[k] \in S
    BY <2>1
  <2> HIDE DEF a, b, S
  <2>5. a \in Seq(S)
    BY <2>3, <2>4
  <2>6. b \in Seq(S)
    BY <2>3, <2>4
  <2>7. QED
    BY <2>2, <2>5, <2>6
<1>2. Demo!SpawnAll(n) = a \o b
  BY Zenon DEF Demo!SpawnAll, Demo!On
<1> HIDE DEF S
<1>3. /\ Len(a \o b) = 2 * n
      /\ \A k \in 1..n : (a \o b)[k] = a[k]
      /\ \A k \in (n + 1)..(2 * n) : (a \o b)[k] = b[k - n]
  BY <1>1, ConcatProperties
<1>4. QED
  BY <1>2, <1>3 DEF StartsAll

\* Repeat makes such a loop.
LEMMA RepeatLoops ==
    ASSUME NEW n \in Nat, NEW a, NEW b, NEW c, NEW d
    PROVE  /\ Loops(Demo!Repeat(n, <<a, b, c, d>>), n, a.op, b.op, c.op, d.op)
           /\ \A k \in 1..(4 * n) : k % 4 = 3 => Demo!Repeat(n, <<a, b, c, d>>)[k] = c
<1> DEFINE s == <<a, b, c, d>>
           r == Demo!Repeat(n, s)
<1>1. Len(s) = 4 /\ s[1] = a /\ s[2] = b /\ s[3] = c /\ s[4] = d
  OBVIOUS
<1> HIDE DEF s
<1>2. n * Len(s) = 4 * n /\ 4 * n \in Nat
  BY <1>1
<1>3. r = [k \in 1..(4 * n) |-> s[1 + ((k - 1) % 4)]]
  BY <1>1, <1>2, Zenon DEF Demo!Repeat
<1>4. Len(r) = 4 * n
  BY <1>2, <1>3
<1>5. ASSUME NEW k \in 1..(4 * n)
      PROVE  r[k] = IF k % 4 = 1 THEN a ELSE IF k % 4 = 2 THEN b ELSE IF k % 4 = 3 THEN c ELSE d
  <2>1. r[k] = s[1 + ((k - 1) % 4)]
    BY <1>3
  <2>2. k % 4 = 0 => (k - 1) % 4 = 3
    OBVIOUS
  <2>3. k % 4 # 0 => 1 + ((k - 1) % 4) = k % 4
    OBVIOUS
  <2>4. k % 4 \in 0..3
    OBVIOUS
  <2>5. QED
    BY <1>1, <2>1, <2>2, <2>3, <2>4
<1>6. QED
  <2>1. \A k \in 1..(4 * n) : k % 4 = 3 => r[k] = c
    BY <1>5
  <2>2. Loops(r, n, a.op, b.op, c.op, d.op)
    <3>1. \A k \in 1..(4 * n) :
             /\ k % 4 = 1 => r[k] = a
             /\ k % 4 = 2 => r[k] = b
             /\ k % 4 = 3 => r[k] = c
             /\ k % 4 = 0 => r[k] = d
      BY <1>5
    <3> HIDE DEF r
    <3>2. QED
      BY <1>4, <3>1 DEF Loops
  <2>3. QED
    BY <2>1, <2>2 DEF s, r

\* What a demo runs is its code, from the start to the end.
Coded == demo \in Demos /\ code = Demo!Code(demo) /\ tpc \in [Threads -> Nat]

\* The demo that counts.
LEMMA MutexCode ==
    ASSUME Coded, demo = "mutex"
    PROVE  /\ StartsAll(code[0], Workers)
           /\ \A t \in 1..Workers :
                 /\ Loops(code[t], Turns, "lock", "load", "store", "unlock")
                 /\ \A k \in 1..(4 * Turns) : k % 4 = 3 => code[t][k].arg = 1
<1>1. code = Demo!demo1_mutex
  BY Zenon DEF Coded, Demo!Code
<1>2. code[0] = Demo!SpawnAll(Workers) /\ \A t \in 1..Workers : code[t] = Demo!increases_10k
  BY <1>1, DemoSizes DEF Demo!demo1_mutex, Demo!Program, Threads, Demo!Main
<1>3. QED
  BY <1>2, DemoSizes, SpawnAllStarts, RepeatLoops DEF Demo!increases_10k, Demo!Op, Demo!On

\* The recursive mutex: main() alone, with eight instructions.
LEMMA RecursiveCode ==
    ASSUME Coded, demo = "recursive"
    PROVE  /\ Len(code[0]) = 8
           /\ \A k \in {1, 2, 5} : code[0][k].op = "lock"
           /\ \A k \in {4, 7, 8} : code[0][k].op = "unlock"
           /\ code[0][3].op = "mul" /\ code[0][3].arg = 32
           /\ code[0][6].op = "div" /\ code[0][6].arg = 23
           /\ \A t \in 1..Workers : Len(code[t]) = 0
<1>1. code = Demo!demo2_recursive
  BY Zenon DEF Coded, Demo!Code
<1>2. code[0] = Demo!both /\ \A t \in 1..Workers : code[t] = <<>>
  BY <1>1, DemoSizes DEF Demo!demo2_recursive, Demo!Program, Threads, Demo!Main
<1>3. QED
  BY <1>2 DEF Demo!both, Demo!mul, Demo!div, Demo!Op, Demo!On

\* The timed mutex.
LEMMA TimedCode ==
    ASSUME Coded, demo = "timed"
    PROVE  /\ StartsAll(code[0], 2)
           /\ \A t \in 1..Workers :
                 /\ Len(code[t]) = 6
                 /\ code[t][1].op = "try_lock_for" /\ code[t][1].arg = 5
                 /\ code[t][2].op = "nop" /\ code[t][3].op = "unlock" /\ code[t][5].op = "nop"
                 /\ \A k \in {4, 6} : code[t][k].op = "goto" /\ code[t][k].arg = 1
<1>1. code = Demo!demo3_timed
  BY Zenon DEF Coded, Demo!Code
<1>2. code[0] = Demo!SpawnAll(2) /\ \A t \in 1..Workers : code[t] = Demo!work
  BY <1>1, DemoSizes DEF Demo!demo3_timed, Demo!Program, Threads, Demo!Main
<1>3. QED
  BY <1>2, SpawnAllStarts DEF Demo!work, Demo!Op, Demo!On

\* The lock_guard.
LEMMA GuardCode ==
    ASSUME Coded, demo = "guard"
    PROVE  /\ StartsAll(code[0], Workers)
           /\ \A t \in 1..Workers :
                 /\ Len(code[t]) = 3 /\ code[t][1].op = "lock"
                 /\ IF t % 2 = 0 THEN code[t][2].op = "print" /\ code[t][3].op = "unlock"
                    ELSE code[t][2].op = "unlock" /\ code[t][3].op = "print"
<1>1. code = Demo!demo4_guard
  BY Zenon DEF Coded, Demo!Code
<1>2. /\ code[0] = Demo!SpawnAll(Workers)
      /\ \A t \in 1..Workers : code[t] = Demo!print_thread_id(t)
  BY <1>1, DemoSizes DEF Demo!demo4_guard, Demo!Program, Threads, Demo!Main
<1>3. QED
  BY <1>2, DemoSizes, SpawnAllStarts DEF Demo!print_thread_id, Demo!Op, Demo!On

\* The producer and the consumers of the unique_lock demo.
LEMMA UniqueCode ==
    ASSUME Coded, demo = "unique_lock"
    PROVE  /\ StartsAll(code[0], 2)
           /\ Loops(code[1], Turns, "lock", "push_front", "notify_one", "unlock")
           /\ \A t \in 2..Workers :
                 /\ Len(code[t]) = 5 /\ code[t][1].op = "lock" /\ code[t][2].op = "wait"
                 /\ code[t][3].op = "pop_back" /\ code[t][4].op = "unlock"
                 /\ code[t][5].op = "goto" /\ code[t][5].arg = 1
<1>1. code = Demo!demo5_unique_lock
  BY Zenon DEF Coded, Demo!Code
<1>2. /\ code[0] = Demo!SpawnAll(2)
      /\ code[1] = Demo!fun1
      /\ \A t \in 2..Workers : code[t] = Demo!fun2
  BY <1>1, DemoSizes DEF Demo!demo5_unique_lock, Demo!Program, Threads, Demo!Main
<1>3. QED
  <2>1. Loops(code[1], Turns, "lock", "push_front", "notify_one", "unlock")
    BY <1>2, DemoSizes, RepeatLoops DEF Demo!fun1, Demo!Op
  <2>2. QED
    BY <1>2, <2>1, SpawnAllStarts DEF Demo!fun2, Demo!Op, Demo!On

\* The producers and consumers of SimpleSyncQueue.
LEMMA QueueCode ==
    ASSUME Coded, demo = "sync_queue"
    PROVE  /\ StartsAll(code[0], Workers)
           /\ \A t \in 1..Workers :
                 IF t % 2 = 1 THEN Loops(code[t], Turns, "lock", "push_back", "notify_one", "unlock")
                 ELSE Loops(code[t], Turns, "lock", "wait", "pop_front", "unlock")
<1>1. code = Demo!demo2_sync_queue
  BY Zenon DEF Coded, Demo!Code
<1>2. /\ code[0] = Demo!SpawnAll(Workers)
      /\ \A t \in 1..Workers : code[t] = IF t % 2 = 1 THEN Demo!PutDatas ELSE Demo!TakeDatas
  BY <1>1, DemoSizes DEF Demo!demo2_sync_queue, Demo!Program, Threads, Demo!Main
<1>3. QED
  BY <1>2, DemoSizes, SpawnAllStarts, RepeatLoops
  DEF Demo!PutDatas, Demo!TakeDatas, Demo!Put, Demo!Take, Demo!Op, Demo!On

\* The functions of which one runs.
LEMMA OnceCode ==
    ASSUME Coded, demo = "once"
    PROVE  /\ StartsAll(code[0], Workers)
           /\ \A t \in 1..Workers :
                 /\ Len(code[t]) = 2 /\ code[t][1].op = "call_once"
                 /\ code[t][2].op = IF t = Workers THEN "throw" ELSE "return"
<1>1. code = Demo!demo1_call_once
  BY Zenon DEF Coded, Demo!Code
<1>2. /\ code[0] = Demo!SpawnAll(Workers)
      /\ \A t \in 1..Workers : code[t] = Demo!do_once(t)
  BY <1>1, DemoSizes DEF Demo!demo1_call_once, Demo!Program, Threads, Demo!Main
<1>3. QED
  <2>1. ASSUME NEW t \in 1..Workers
        PROVE  /\ Len(code[t]) = 2 /\ code[t][1].op = "call_once"
               /\ code[t][2].op = IF t = Workers THEN "throw" ELSE "return"
    <3> DEFINE o == IF t = Workers THEN "throw" ELSE "return"
    <3>1. code[t] = <<[op |-> "call_once", arg |-> 0], [op |-> o, arg |-> t]>>
      BY <1>2 DEF Demo!do_once, Demo!Op, Demo!On
    <3> HIDE DEF o
    <3>2. QED
      BY <3>1 DEF o
  <2>2. QED
    BY <1>2, <2>1, DemoSizes, SpawnAllStarts

\* The atomic variable.
LEMMA AtomicCode ==
    ASSUME Coded, demo = "atomic"
    PROVE  /\ StartsAll(code[0], 2)
           /\ Len(code[1]) = 2 /\ code[1][1].op = "load_until_set" /\ code[1][2].op = "print"
           /\ \A t \in 2..Workers :
                 Len(code[t]) = 1 /\ code[t][1].op = "store_atomic" /\ code[t][1].arg = 10
<1>1. code = Demo!demo1_atomic
  BY Zenon DEF Coded, Demo!Code
<1>2. /\ code[0] = Demo!SpawnAll(2)
      /\ code[1] = Demo!print_count
      /\ \A t \in 2..Workers : code[t] = Demo!set_count
  BY <1>1, DemoSizes DEF Demo!demo1_atomic, Demo!Program, Threads, Demo!Main
<1>3. QED
  BY <1>2, SpawnAllStarts DEF Demo!print_count, Demo!set_count, Demo!Op, Demo!On

\* The promises and the futures; the workers only set the value.
LEMMA PromiseCode ==
    ASSUME Coded, demo \in {"promise", "future", "task"}
    PROVE  /\ demo = "promise" =>
                 /\ Len(code[0]) = 6
                 /\ \A k \in {1, 4} : code[0][k].op = "spawn"
                 /\ \A k \in {2, 5} : code[0][k].op = "get"
                 /\ \A k \in {3, 6} : code[0][k].op = "join"
                 /\ \A k \in {1, 2, 3} : code[0][k].arg = 1
                 /\ \A k \in {4, 5, 6} : code[0][k].arg = 2
           /\ demo = "future" =>
                 /\ Len(code[0]) = 4
                 /\ \A k \in {1, 3} : code[0][k].op = "async"
                 /\ \A k \in {2, 4} : code[0][k].op = "get"
                 /\ \A k \in {1, 2} : code[0][k].arg = 1
                 /\ \A k \in {3, 4} : code[0][k].arg = 2
           /\ demo = "task" =>
                 /\ Len(code[0]) = 2 /\ code[0][1].op = "set_value"
                 /\ code[0][2].op = "get" /\ code[0][2].arg = 0
           /\ \A t \in 1..Workers :
                 IF demo = "task" THEN Len(code[t]) = 0
                 ELSE Len(code[t]) = 1 /\ code[t][1].op = "set_value"
<1> USE DemoSizes DEF Demo!Program, Threads, Demo!Main, Demo!Op, Demo!On
<1>1. CASE demo = "promise"
  <2>1. code = Demo!demo3_promise
    BY <1>1, Zenon DEF Coded, Demo!Code
  <2>2. QED
    BY <1>1, <2>1 DEF Demo!demo3_promise, Demo!print1
<1>2. CASE demo = "future"
  <2>1. code = Demo!demo1_future
    BY <1>2, Zenon DEF Coded, Demo!Code
  <2>2. QED
    BY <1>2, <2>1 DEF Demo!demo1_future
<1>3. CASE demo = "task"
  <2>1. code = Demo!demo2_package_task
    BY <1>3, Zenon DEF Coded, Demo!Code
  <2>2. QED
    BY <1>3, <2>1 DEF Demo!demo2_package_task
<1>4. QED
  BY <1>1, <1>2, <1>3

\* main() reads the local variable it lent to a thread.
LEMMA LentCode ==
    ASSUME Coded, demo = "thread1"
    PROVE  /\ Len(code[0]) = 3
           /\ code[0][1].op = "spawn" /\ code[0][1].arg = 1
           /\ code[0][2].op = "join" /\ code[0][2].arg = 1
           /\ code[0][3].op = "load"
           /\ \A t \in 1..Workers :
                 /\ Len(code[t]) = 2 /\ code[t][1].op = "load"
                 /\ code[t][2].op = "store" /\ code[t][2].arg = 10
<1>1. code = Demo!demo1_thread
  BY Zenon DEF Coded, Demo!Code
<1>2. code[0] = Demo!test1 /\ \A t \in 1..Workers : code[t] = Demo!thread_fun1
  BY <1>1, DemoSizes DEF Demo!demo1_thread, Demo!Program, Threads, Demo!Main
<1>3. QED
  BY <1>2 DEF Demo!test1, Demo!thread_fun1, Demo!Op, Demo!On

\* main() starts one thread after the other; only thread 2 has the reference.
LEMMA BasicCode ==
    ASSUME Coded, demo = "thread2"
    PROVE  /\ Len(code[0]) = 13
           /\ \A k \in {1, 3, 5, 8, 10, 12} : code[0][k].op = "spawn"
           /\ \A k \in {2, 4, 6, 9, 13} : code[0][k].op = "join"
           /\ \A k \in {1, 2, 3, 4, 12, 13} : code[0][k].arg = 1
           /\ \A k \in {5, 6} : code[0][k].arg = 2
           /\ \A k \in {8, 9} : code[0][k].arg = 3
           /\ code[0][10].arg = 4 /\ code[0][7].op = "load" /\ code[0][11].op = "nop"
           /\ Len(code[2]) = 2 /\ code[2][1].op = "load"
           /\ code[2][2].op = "store" /\ code[2][2].arg = 10
           /\ Len(code[1]) = 1 /\ Len(code[3]) = 2
           /\ \A t \in 4..Workers : Len(code[t]) = 3
           /\ \A t \in (1..Workers) \ {2} : \A k \in 1..Len(code[t]) : code[t][k].op \in {"print", "nop"}
<1>1. code = Demo!demo2_thread
  BY Zenon DEF Coded, Demo!Code
<1>2. code[0] = Demo!Call(1) \o Demo!Call(1) \o Demo!Call(2) \o <<Demo!Op("load")>> \o Demo!Call(3)
                  \o <<Demo!On("spawn", 4), Demo!Op("nop")>> \o Demo!Call(1)
  <2>1. 0 \in Demo!Threads
    BY DemoSizes DEF Threads
  <2>2. QED
    BY <1>1, <2>1, Zenon DEF Demo!demo2_thread, Demo!Program, Demo!Main
<1>3. \A t \in 1..Workers : code[t] = Demo!func(t)
  BY <1>1, DemoSizes DEF Demo!demo2_thread, Demo!Program, Threads, Demo!Main
<1>4. /\ code[1] = <<Demo!Op("print")>> /\ code[2] = Demo!thread_fun1
      /\ code[3] = <<Demo!Op("nop"), Demo!Op("print")>>
      /\ \A t \in 4..Workers : code[t] = <<Demo!Op("print"), Demo!Op("nop"), Demo!Op("print")>>
  <2>1. 1 # 2 /\ 1 # 3 /\ 2 # 3 /\ {1, 2, 3} \subseteq 1..Workers
    BY DemoSizes
  <2>2. \A t \in 4..Workers : t # 1 /\ t # 2 /\ t # 3 /\ t \in 1..Workers
    BY DemoSizes
  <2>3. code[1] = <<Demo!Op("print")>>
    BY <1>3, <2>1, Zenon DEF Demo!func
  <2>4. code[2] = Demo!thread_fun1
    BY <1>3, <2>1, Zenon DEF Demo!func
  <2>5. code[3] = <<Demo!Op("nop"), Demo!Op("print")>>
    BY <1>3, <2>1, Zenon DEF Demo!func
  <2>6. \A t \in 4..Workers : code[t] = <<Demo!Op("print"), Demo!Op("nop"), Demo!Op("print")>>
    BY <1>3, <2>2, Zenon DEF Demo!func
  <2>7. QED
    BY <2>3, <2>4, <2>5, <2>6
<1>5. /\ Len(code[1]) = 1 /\ Len(code[3]) = 2
      /\ \A t \in 4..Workers : Len(code[t]) = 3
      /\ Len(code[2]) = 2 /\ code[2][1].op = "load"
      /\ code[2][2].op = "store" /\ code[2][2].arg = 10
  BY <1>4 DEF Demo!thread_fun1, Demo!Op, Demo!On
<1>6. ASSUME NEW t \in (1..Workers) \ {2}, NEW k \in 1..Len(code[t])
      PROVE  code[t][k].op \in {"print", "nop"}
  <2>1. CASE t = 1
    BY <1>4, <1>5, <2>1 DEF Demo!Op
  <2>2. CASE t = 3
    BY <1>4, <1>5, <2>2 DEF Demo!Op
  <2>3. CASE t \in 4..Workers
    BY <1>4, <1>5, <2>3 DEF Demo!Op
  <2>4. QED
    BY <2>1, <2>2, <2>3, DemoSizes
<1>7. QED
  BY <1>2, <1>5, <1>6 DEF Demo!Call, Demo!Op, Demo!On
-----------------------------------------------------------------------------
(* What a step does *)

\* A thread that moves is at an instruction, awake, and main() has not ended; the step is
\* the one of that instruction.
LEMMA Dispatch ==
    ASSUME Coded, NEW t \in Threads, Demo!Thread(t), NEW o, o = code[t][tpc[t]].op
    PROVE  /\ tpc[t] # 0 /\ ~(tpc[t] > Len(code[t])) /\ t \notin asleep
           /\ ~(tpc[0] > Len(code[0]))
           /\ demo' = demo /\ code' = code
           /\ o = "lock" => Demo!lock(t)
           /\ o = "unlock" => Demo!unlock(t)
           /\ o = "try_lock_for" => Demo!try_lock_for(t)
           /\ o \in {"goto", "nop"} => Demo!jump(t)
           /\ o \in {"load", "load_until_set"} => Demo!load(t)
           /\ o \in {"store", "store_atomic", "mul", "div"} => Demo!store(t)
           /\ o = "print" => Demo!print(t)
           /\ o \in {"push_back", "push_front"} => Demo!push(t)
           /\ o \in {"pop_front", "pop_back"} => Demo!pop(t)
           /\ o = "wait" => Demo!wait(t)
           /\ o = "notify_one" => Demo!notify_one(t)
           /\ o = "call_once" => Demo!call_once(t)
           /\ o \in {"return", "throw"} => Demo!once_ends(t)
           /\ o = "set_value" => Demo!set_value(t)
           /\ o = "get" => Demo!get(t)
           /\ o \in {"spawn", "async"} => Demo!spawn(t)
           /\ o = "join" => Demo!join(t)
  BY DEF Demo!Thread, Demo!lock, Demo!unlock, Demo!try_lock_for, Demo!jump, Demo!load, Demo!store,
         Demo!print, Demo!push, Demo!pop, Demo!wait, Demo!notify_one, Demo!call_once,
         Demo!once_ends, Demo!set_value, Demo!get, Demo!spawn, Demo!join, Demo!At, Demo!Started,
         Demo!Ended, Demo!Main

\* Where a step leads: to the next instruction, with the exceptions of the jumps.
LEMMA Moves ==
    ASSUME Coded, NEW t \in Threads, Demo!Thread(t), NEW o, o = code[t][tpc[t]].op
    PROVE  LET a == code[t][tpc[t]].arg
           IN  /\ o \notin {"spawn", "async", "wait", "goto", "try_lock_for", "call_once"} =>
                     tpc' = [tpc EXCEPT ![t] = @ + 1]
               /\ o = "wait" => tpc' = tpc \/ tpc' = [tpc EXCEPT ![t] = @ + 1]
               /\ o = "goto" => tpc' = [tpc EXCEPT ![t] = a]
               /\ o = "try_lock_for" => \/ tpc' = [tpc EXCEPT ![t] = @ + 1]
                                        \/ tpc' = [tpc EXCEPT ![t] = a]
               /\ o = "call_once" => \/ tpc' = [tpc EXCEPT ![t] = @ + 1]
                                     \/ tpc' = [tpc EXCEPT ![t] = @ + 2]
               /\ o \in {"spawn", "async"} =>
                     \/ tpc' = [tpc EXCEPT ![t] = @ + 1, ![a] = 1]
                     \/ o = "async" /\ tpc' = [tpc EXCEPT ![t] = @ + 1]
  BY DEF Demo!Thread, Demo!lock, Demo!unlock, Demo!try_lock_for, Demo!jump, Demo!load, Demo!store,
         Demo!print, Demo!push, Demo!pop, Demo!wait, Demo!notify_one, Demo!call_once,
         Demo!once_ends, Demo!set_value, Demo!get, Demo!spawn, Demo!join, Demo!At, Demo!Step,
         Demo!Arg

\* A step that is not the mutex's leaves the mutex alone, and so on.
LEMMA Leaves ==
    ASSUME Coded, NEW t \in Threads, Demo!Thread(t), NEW o, o = code[t][tpc[t]].op
    PROVE  /\ o \notin {"lock", "unlock", "try_lock_for", "wait"} => UNCHANGED <<owner, depth>>
           /\ o \notin {"store", "store_atomic", "mul", "div"} => UNCHANGED mem
           /\ o \notin {"load", "load_until_set"} => UNCHANGED reg
           /\ o # "print" => UNCHANGED out
           /\ o \notin {"wait", "notify_one"} => UNCHANGED asleep
           /\ o \notin {"push_back", "push_front"} => UNCHANGED sent
           /\ o \notin {"pop_back", "pop_front"} => UNCHANGED received
           /\ o \notin {"pop_back", "pop_front", "push_back", "push_front"} => UNCHANGED queue
           /\ o \notin {"call_once", "return", "throw"} => UNCHANGED <<once, ran>>
           /\ o \notin {"set_value", "get"} => UNCHANGED ready
  BY DEF Demo!Thread, Demo!lock, Demo!unlock, Demo!try_lock_for, Demo!jump, Demo!load, Demo!store,
         Demo!print, Demo!push, Demo!pop, Demo!wait, Demo!notify_one, Demo!call_once,
         Demo!once_ends, Demo!set_value, Demo!get, Demo!spawn, Demo!join, Demo!At,
         Demo!mutexvars, Demo!queuevars, Demo!syncvars
-----------------------------------------------------------------------------
(* Every thread stays in its code *)

\* How many threads main() starts, in the demos that start all threads and join them.
Started(d) == IF d \in {"timed", "unique_lock", "atomic"} THEN 2 ELSE Workers
StartAll == {"mutex", "timed", "guard", "unique_lock", "sync_queue", "once", "atomic"}

\* Which instructions a loop has.
LEMMA LoopOps ==
    ASSUME NEW c, NEW n \in Nat, NEW o1, NEW o2, NEW o3, NEW o4, Loops(c, n, o1, o2, o3, o4)
    PROVE  Len(c) \in Nat /\ \A k \in 1..Len(c) : c[k].op \in {o1, o2, o3, o4}
  BY DEF Loops

\* main() of these demos.
LEMMA StartMain ==
    ASSUME Coded, demo \in StartAll
    PROVE  Started(demo) \in 1..Workers /\ StartsAll(code[0], Started(demo))
<1>1. Started(demo) \in 1..Workers
  BY DemoSizes DEF Started
<1>2. StartsAll(code[0], Started(demo))
  BY MutexCode, TimedCode, GuardCode, UniqueCode, QueueCode, OnceCode, AtomicCode
  DEF StartAll, Started
<1>3. QED
  BY <1>1, <1>2

\* The instructions of the threads they start.
LEMMA WorkerOps ==
    ASSUME Coded, demo \in StartAll, NEW t \in 1..Workers
    PROVE  /\ Len(code[t]) \in Nat
           /\ \A k \in 1..Len(code[t]) :
                 /\ code[t][k].op \notin {"spawn", "async", "join", "get"}
                 /\ code[t][k].op \in {"goto", "try_lock_for"} => code[t][k].arg \in 1..Len(code[t])
                 /\ code[t][k].op = "call_once" => k < Len(code[t])
<1>1. CASE demo = "mutex"
  <2>1. Loops(code[t], Turns, "lock", "load", "store", "unlock")
    BY <1>1, MutexCode
  <2>2. /\ Len(code[t]) \in Nat
        /\ \A k \in 1..Len(code[t]) : code[t][k].op \in {"lock", "load", "store", "unlock"}
    BY <2>1, LoopOps, DemoSizes
  <2>3. QED
    BY <2>2
<1>2. CASE demo = "sync_queue"
  <2>1. \/ Loops(code[t], Turns, "lock", "push_back", "notify_one", "unlock")
        \/ Loops(code[t], Turns, "lock", "wait", "pop_front", "unlock")
    BY <1>2, QueueCode
  <2>2. /\ Len(code[t]) \in Nat
        /\ \A k \in 1..Len(code[t]) :
              code[t][k].op \in {"lock", "push_back", "notify_one", "unlock", "wait", "pop_front"}
    <3>1. CASE Loops(code[t], Turns, "lock", "push_back", "notify_one", "unlock")
      BY <3>1, LoopOps, DemoSizes
    <3>2. CASE Loops(code[t], Turns, "lock", "wait", "pop_front", "unlock")
      BY <3>2, LoopOps, DemoSizes
    <3>3. QED
      BY <2>1, <3>1, <3>2
  <2>3. QED
    BY <2>2
<1>3. CASE demo = "unique_lock" /\ t = 1
  <2>1. Loops(code[t], Turns, "lock", "push_front", "notify_one", "unlock")
    BY <1>3, UniqueCode
  <2>2. /\ Len(code[t]) \in Nat
        /\ \A k \in 1..Len(code[t]) : code[t][k].op \in {"lock", "push_front", "notify_one", "unlock"}
    BY <2>1, LoopOps, DemoSizes
  <2>3. QED
    BY <2>2
<1>4. CASE demo = "unique_lock" /\ t # 1
  <2>1. t \in 2..Workers
    BY <1>4, DemoSizes
  <2>2. Len(code[t]) = 5 /\ \A k \in 1..5 :
            \/ code[t][k].op \in {"lock", "wait", "pop_back", "unlock"}
            \/ code[t][k].op = "goto" /\ code[t][k].arg = 1
    BY <1>4, <2>1, UniqueCode
  <2>3. QED
    BY <2>2
<1>5. CASE demo = "timed"
  <2>1. Len(code[t]) = 6 /\ \A k \in 1..6 :
            \/ code[t][k].op \in {"nop", "unlock"}
            \/ code[t][k].op = "goto" /\ code[t][k].arg = 1
            \/ code[t][k].op = "try_lock_for" /\ code[t][k].arg = 5
    BY <1>5, TimedCode
  <2>2. QED
    BY <2>1
<1>6. CASE demo = "guard"
  <2>1. Len(code[t]) = 3 /\ \A k \in 1..3 : code[t][k].op \in {"lock", "print", "unlock"}
    BY <1>6, GuardCode
  <2>2. QED
    BY <2>1
<1>7. CASE demo = "once"
  <2>1. /\ Len(code[t]) = 2 /\ code[t][1].op = "call_once"
        /\ code[t][2].op \in {"return", "throw"}
    BY <1>7, OnceCode
  <2>2. QED
    BY <2>1
<1>8. CASE demo = "atomic"
  <2>1. t = 1 \/ t \in 2..Workers
    BY DemoSizes
  <2>2. Len(code[t]) \in {1, 2} /\ \A k \in 1..Len(code[t]) :
            code[t][k].op \in {"load_until_set", "print", "store_atomic"}
    BY <1>8, <2>1, AtomicCode
  <2>3. QED
    BY <2>2
<1>9. QED
  BY <1>1, <1>2, <1>3, <1>4, <1>5, <1>6, <1>7, <1>8 DEF StartAll

\* Jumps stay in the code, and main() starts threads that there are.
InRange(t, k) ==
    /\ code[t][k].op \in {"goto", "try_lock_for"} => code[t][k].arg \in 1..Len(code[t])
    /\ code[t][k].op = "call_once" => k < Len(code[t])
    /\ code[t][k].op \in {"spawn", "async"} => t = 0 /\ code[t][k].arg \in 1..Workers
    /\ code[t][k].op = "get" => code[t][k].arg \in Threads

\* So it is in every demo.
LEMMA WellFormed ==
    ASSUME Coded, NEW t \in Threads
    PROVE  Len(code[t]) \in Nat /\ \A k \in 1..Len(code[t]) : InRange(t, k)
<1> USE DemoSizes DEF InRange
<1>1. t = 0 \/ t \in 1..Workers
  BY DEF Threads
<1>2. CASE demo \in StartAll /\ t = 0
  <2>1. PICK n \in 1..Workers : StartsAll(code[0], n)
    BY <1>2, StartMain
  <2>2. Len(code[0]) \in Nat /\ \A k \in 1..Len(code[0]) : k \in 1..n \/ k \in (n + 1)..(2 * n)
    BY <2>1 DEF StartsAll
  <2>3. ASSUME NEW k \in 1..Len(code[0])
        PROVE  \/ code[0][k].op = "spawn" /\ code[0][k].arg \in 1..Workers
               \/ code[0][k].op = "join"
    BY <2>1, <2>2 DEF StartsAll
  <2>4. QED
    BY <1>2, <2>2, <2>3
<1>3. CASE demo \in StartAll /\ t \in 1..Workers
  BY <1>3, WorkerOps
<1>4. CASE demo = "recursive"
  <2>1. Len(code[t]) \in {0, 8}
    BY <1>1, <1>4, RecursiveCode
  <2>2. \A k \in 1..Len(code[t]) : code[t][k].op \in {"lock", "unlock", "mul", "div"}
    <3>1. CASE t = 0
      <4>1. Len(code[0]) = 8 /\ \A k \in 1..8 : k \in {1, 2, 5, 4, 7, 8} \/ k = 3 \/ k = 6
        BY <1>4, RecursiveCode
      <4>2. \A k \in 1..8 : code[0][k].op \in {"lock", "unlock", "mul", "div"}
        BY <1>4, <4>1, RecursiveCode
      <4>3. QED
        BY <3>1, <4>1, <4>2
    <3>2. CASE t \in 1..Workers
      BY <1>4, <3>2, RecursiveCode
    <3>3. QED
      BY <1>1, <3>1, <3>2
  <2>3. QED
    BY <2>1, <2>2
<1>5. CASE demo \in {"promise", "future", "task"} /\ t = 0
  <2>1. {0, 1, 2} \subseteq Threads /\ {1, 2} \subseteq 1..Workers
    BY DEF Threads
  <2>2. Len(code[0]) \in {6, 4, 2}
    BY <1>5, PromiseCode
  <2>3. \A k \in 1..Len(code[0]) :
            \/ code[0][k].op \in {"spawn", "async"} /\ code[0][k].arg \in {1, 2}
            \/ code[0][k].op = "get" /\ code[0][k].arg \in {0, 1, 2}
            \/ code[0][k].op \in {"join", "set_value"}
    <3>1. CASE demo = "promise"
      BY <3>1, PromiseCode
    <3>2. CASE demo = "future"
      BY <3>2, PromiseCode
    <3>3. CASE demo = "task"
      BY <3>3, PromiseCode
    <3>4. QED
      BY <1>5, <3>1, <3>2, <3>3
  <2>4. QED
    BY <1>5, <2>1, <2>2, <2>3
<1>6. CASE demo \in {"promise", "future", "task"} /\ t \in 1..Workers
  BY <1>6, PromiseCode
<1>7. CASE demo = "thread1"
  <2>1. \A k \in 1..3 : k \in {1, 2, 3}
    OBVIOUS
  <2>2. QED
    BY <1>1, <1>7, <2>1, LentCode
<1>8. CASE demo = "thread2"
  <2>1. CASE t = 0
    <3>1. Len(code[0]) = 13 /\ \A k \in 1..13 :
              \/ code[0][k].op = "spawn" /\ code[0][k].arg \in {1, 2, 3, 4}
              \/ code[0][k].op \in {"join", "load", "nop"}
      BY <1>8, BasicCode
    <3>2. QED
      <4>1. {1, 2, 3, 4} \subseteq 1..Workers
        OBVIOUS
      <4>2. ASSUME NEW k \in 1..13
            PROVE  InRange(0, k)
        <5>1. CASE code[0][k].op = "spawn" /\ code[0][k].arg \in {1, 2, 3, 4}
          BY <4>1, <5>1
        <5>2. CASE code[0][k].op \in {"join", "load", "nop"}
          BY <5>2
        <5>3. QED
          BY <3>1, <5>1, <5>2
      <4> HIDE DEF InRange
      <4>3. QED
        BY <2>1, <3>1, <4>2
  <2>2. CASE t = 2
    <3>1. Len(code[2]) = 2 /\ \A k \in 1..2 : code[2][k].op \in {"load", "store"}
      BY <1>8, BasicCode
    <3>2. QED
      BY <2>2, <3>1
  <2>3. CASE t \in (1..Workers) \ {2}
    <3>1. t \in {1, 3} \/ t \in 4..Workers
      BY <2>3
    <3>2. QED
      <4>1. Len(code[t]) \in Nat
        BY <1>8, <3>1, BasicCode
      <4>2. \A k \in 1..Len(code[t]) : code[t][k].op \in {"print", "nop"}
        BY <1>8, <2>3, BasicCode
      <4>3. QED
        BY <4>1, <4>2
  <2>4. QED
    BY <1>1, <2>1, <2>2, <2>3
<1>9. demo \in Demo!AllDemos
  BY LibraryAssumption DEF Coded
<1>10. QED
  BY <1>1, <1>2, <1>3, <1>4, <1>5, <1>6, <1>7, <1>8, <1>9 DEF Demo!AllDemos, StartAll

\* A thread has not started, is at an instruction, or has ended.
Placed == Coded /\ \A t \in Threads : tpc[t] \in 0..(Len(code[t]) + 1)

\* The instruction a moving thread is at is one of its code.
LEMMA InCode ==
    ASSUME Placed, NEW t \in Threads, Demo!Thread(t)
    PROVE  tpc[t] \in 1..Len(code[t]) /\ tpc[0] \in Nat /\ tpc[0] <= Len(code[0]) /\ t \notin asleep
  <1>1. 0 \in Threads
    BY DemoSizes DEF Threads
  <1>2. QED
    BY <1>1, Dispatch, WellFormed DEF Placed, Coded

\* So it is after every step.
LEMMA PlacedKept ==
    ASSUME Placed, Demo!Next \/ UNCHANGED demovars
    PROVE  Placed'
<1>1. CASE UNCHANGED demovars
  BY <1>1 DEF Placed, Coded, demovars
<1>2. ASSUME NEW t \in Threads, Demo!spurious(t)
      PROVE  Placed'
  BY <1>2 DEF Placed, Coded, Demo!spurious
<1>3. ASSUME NEW t \in Threads, Demo!Thread(t)
      PROVE  Placed'
  <2> DEFINE k == tpc[t]
             o == code[t][k].op
             a == code[t][k].arg
  <2>1. /\ demo' = demo /\ code' = code
        /\ k \in 1..Len(code[t]) /\ tpc \in [Threads -> Nat]
        /\ \A u \in Threads : Len(code[u]) \in Nat /\ tpc[u] \in 0..(Len(code[u]) + 1)
        /\ o \in {"goto", "try_lock_for"} => a \in 1..Len(code[t])
        /\ o = "call_once" => k < Len(code[t])
        /\ o \in {"spawn", "async"} => a \in Threads
    <3>1. demo' = demo /\ code' = code /\ k \in 1..Len(code[t])
      BY <1>3, Dispatch, InCode DEF Placed
    <3>2. InRange(t, k)
      BY <3>1, WellFormed DEF Placed
    <3>3. \A u \in 1..Workers : u \in Threads
      BY DemoSizes DEF Threads
    <3>4. QED
      BY <3>1, <3>2, <3>3, WellFormed DEF Placed, Coded, InRange
  <2>2. \/ \E v \in 0..(Len(code[t]) + 1) : tpc' = [tpc EXCEPT ![t] = v]
        \/ a \in Threads /\ tpc' = [tpc EXCEPT ![t] = @ + 1, ![a] = 1]
    <3>1. tpc = [tpc EXCEPT ![t] = k]
      BY <2>1
    <3>2. k + 1 \in 0..(Len(code[t]) + 1) /\ k \in 0..(Len(code[t]) + 1)
      BY <2>1
    <3>3. o = "call_once" => k + 2 \in 0..(Len(code[t]) + 1)
      BY <2>1
    <3>4. o \in {"goto", "try_lock_for"} => a \in 0..(Len(code[t]) + 1)
      BY <2>1
    <3>5. tpc' \in {tpc, [tpc EXCEPT ![t] = @ + 1]} => \E v \in 0..(Len(code[t]) + 1) : tpc' = [tpc EXCEPT ![t] = v]
      BY <3>1, <3>2
    <3>6. o \in {"goto", "try_lock_for"} /\ tpc' = [tpc EXCEPT ![t] = a] => \E v \in 0..(Len(code[t]) + 1) : tpc' = [tpc EXCEPT ![t] = v]
      BY <3>4
    <3>7. o = "call_once" /\ tpc' = [tpc EXCEPT ![t] = @ + 2] => \E v \in 0..(Len(code[t]) + 1) : tpc' = [tpc EXCEPT ![t] = v]
      BY <3>3
    <3>8. QED
      BY <1>3, <2>1, <3>5, <3>6, <3>7, Moves DEF Placed
  <2> HIDE DEF k, o, a
  <2>3. tpc' \in [Threads -> Nat] /\ \A u \in Threads : tpc'[u] \in 0..(Len(code[u]) + 1)
    BY <2>1, <2>2 DEF k
  <2>4. QED
    BY <2>1, <2>3 DEF Placed, Coded
<1>4. QED
  BY <1>1, <1>2, <1>3, DemoSizes DEF Demo!Next
-----------------------------------------------------------------------------
(* main() of the demos that start all threads and join them *)

\* A thread runs once main() is past the instruction that starts it, and has ended when
\* main() is past the one that joins it.
StartInv ==
    /\ tpc[0] >= 1
    /\ \A t \in 1..Workers : tpc[t] # 0 <=> (t <= Started(demo) /\ t < tpc[0])
    /\ \A t \in 1..Started(demo) : tpc[0] > Started(demo) + t => tpc[t] > Len(code[t])

\* A step of a thread that main() started moves this thread alone, and not back to 0.
LEMMA WorkerMoves ==
    ASSUME Placed, demo \in StartAll, NEW t \in 1..Workers, Demo!Thread(t)
    PROVE  \E v \in Nat \ {0} : tpc' = [tpc EXCEPT ![t] = v]
<1>1. t \in Threads
  BY DemoSizes DEF Threads
<1>2. tpc[t] \in 1..Len(code[t]) /\ Len(code[t]) \in Nat /\ tpc \in [Threads -> Nat]
  BY <1>1, InCode, WellFormed DEF Placed, Coded
<1> DEFINE o == code[t][tpc[t]].op
           a == code[t][tpc[t]].arg
<1>3. o \notin {"spawn", "async"} /\ (o \in {"goto", "try_lock_for"} => a \in Nat \ {0})
  BY <1>2, WorkerOps DEF Placed
<1>4. tpc[t] \in Nat \ {0} /\ tpc[t] + 1 \in Nat \ {0} /\ tpc[t] + 2 \in Nat \ {0}
  BY <1>2
<1>5. tpc = [tpc EXCEPT ![t] = tpc[t]]
  BY <1>1, <1>2
<1>6. \/ tpc' = [tpc EXCEPT ![t] = tpc[t]]
      \/ tpc' = [tpc EXCEPT ![t] = tpc[t] + 1]
      \/ tpc' = [tpc EXCEPT ![t] = tpc[t] + 2]
      \/ o \in {"goto", "try_lock_for"} /\ tpc' = [tpc EXCEPT ![t] = a]
  BY <1>1, <1>3, <1>5, Moves DEF Placed
<1>7. QED
  BY <1>3, <1>4, <1>6

\* A step of main() starts the thread it is at, or waits for it.
LEMMA MainMoves ==
    ASSUME Placed, demo \in StartAll, Demo!Thread(0)
    PROVE  LET n == Started(demo)
               k == tpc[0]
           IN  /\ k \in 1..(2 * n)
               /\ k <= n => /\ code[0][k].op = "spawn"
                            /\ tpc' = [tpc EXCEPT ![0] = k + 1, ![k] = 1]
               /\ k > n => /\ code[0][k].op = "join"
                           /\ tpc[k - n] > Len(code[k - n]) /\ tpc' = [tpc EXCEPT ![0] = k + 1]
<1> DEFINE n == Started(demo)
           k == tpc[0]
<1>1. 0 \in Threads
  BY DemoSizes DEF Threads
<1>2. StartsAll(code[0], n) /\ n \in 1..Workers
  BY StartMain DEF Placed
<1>3. k \in 1..(2 * n)
  BY <1>1, <1>2, InCode DEF StartsAll
<1>4. ASSUME k <= n
      PROVE  code[0][k].op = "spawn" /\ tpc' = [tpc EXCEPT ![0] = k + 1, ![k] = 1]
  <2>1. code[0][k].op = "spawn" /\ code[0][k].arg = k
    BY <1>2, <1>3, <1>4 DEF StartsAll
  <2>2. QED
    BY <1>1, <2>1, Moves DEF Placed
<1>5. ASSUME k > n
      PROVE  /\ code[0][k].op = "join"
             /\ tpc[k - n] > Len(code[k - n]) /\ tpc' = [tpc EXCEPT ![0] = k + 1]
  <2>1. code[0][k].op = "join" /\ code[0][k].arg = k - n
    <3>1. k \in (n + 1)..(2 * n)
      BY <1>2, <1>3, <1>5
    <3>2. QED
      BY <1>2, <3>1 DEF StartsAll
  <2>2. Demo!join(0)
    BY <1>1, <2>1, Dispatch DEF Placed
  <2>3. Demo!Arg(0) = k - n
    BY <2>1 DEF Demo!Arg
  <2>4. Demo!Ended(k - n) /\ tpc' = [tpc EXCEPT ![0] = @ + 1]
    BY <2>2, <2>3, Zenon DEF Demo!join, Demo!Step
  <2>5. QED
    BY <2>1, <2>4 DEF Demo!Ended
<1>6. QED
  BY <1>3, <1>4, <1>5

\* main() starts and joins in order, and a thread that has ended stays where it is.
LEMMA StartKept ==
    ASSUME Placed, demo \in StartAll, StartInv, Demo!Next \/ UNCHANGED demovars
    PROVE  StartInv'
<1> USE DemoSizes
<1> DEFINE n == Started(demo)
<1>1. /\ n \in 1..Workers /\ StartsAll(code[0], n) /\ tpc \in [Threads -> Nat]
      /\ \A u \in Threads : Len(code[u]) \in Nat
  BY StartMain, WellFormed DEF Placed, Coded
<1>2. CASE UNCHANGED demovars
  BY <1>2 DEF StartInv, demovars
<1>3. ASSUME NEW t \in Threads, Demo!spurious(t)
      PROVE  StartInv'
  BY <1>3 DEF StartInv, Demo!spurious
<1>4. CASE Demo!Thread(0)
  <2>1. demo' = demo /\ code' = code /\ 0 \in Threads /\ 1..Workers \subseteq Threads
    BY <1>4, Dispatch DEF Placed, Threads
  <2>2. CASE tpc[0] <= n
    <3>1. tpc[0] \in 1..n /\ tpc' = [tpc EXCEPT ![0] = tpc[0] + 1, ![tpc[0]] = 1]
      BY <1>1, <1>4, <2>2, MainMoves
    <3>2. tpc'[0] = tpc[0] + 1 /\ tpc'[tpc[0]] = 1
      BY <1>1, <2>1, <3>1
    <3>3. \A u \in 1..Workers : u # tpc[0] => tpc'[u] = tpc[u]
      BY <1>1, <2>1, <3>1
    <3>4. QED
      BY <1>1, <2>1, <3>1, <3>2, <3>3 DEF StartInv, Threads
  <2>3. CASE tpc[0] > n
    <3>1. /\ tpc[0] \in (n + 1)..(2 * n) /\ tpc' = [tpc EXCEPT ![0] = tpc[0] + 1]
          /\ tpc[tpc[0] - n] > Len(code[tpc[0] - n])
      BY <1>1, <1>4, <2>3, MainMoves
    <3>2. tpc'[0] = tpc[0] + 1 /\ \A u \in 1..Workers : tpc'[u] = tpc[u]
      BY <1>1, <2>1, <3>1
    <3>3. ASSUME NEW u \in 1..n, tpc'[0] > n + u
          PROVE  tpc'[u] > Len(code'[u])
      <4>1. tpc[0] \in Nat /\ (u = tpc[0] - n \/ tpc[0] > n + u)
        BY <1>1, <2>1, <3>2, <3>3
      <4>2. tpc[u] > Len(code[u])
        BY <3>1, <4>1 DEF StartInv
      <4>3. QED
        BY <1>1, <2>1, <3>2, <4>2
    <3>4. ASSUME NEW u \in 1..Workers
          PROVE  tpc'[u] # 0 <=> (u <= n /\ u < tpc'[0])
      <4>1. tpc'[u] = tpc[u] /\ tpc'[0] = tpc[0] + 1 /\ tpc[0] \in Nat
        BY <1>1, <3>1, <3>2, <3>4
      <4>2. tpc[u] # 0 <=> (u <= n /\ u < tpc[0])
        BY <3>4 DEF StartInv
      <4>3. u <= n => u < tpc[0] /\ u < tpc[0] + 1
        BY <1>1, <3>1, <3>4
      <4>4. QED
        BY <4>1, <4>2, <4>3
    <3>5. QED
      BY <1>1, <2>1, <3>1, <3>2, <3>3, <3>4 DEF StartInv
  <2>4. QED
    BY <1>1, <2>1, <2>2, <2>3
<1>5. ASSUME NEW t \in 1..Workers, Demo!Thread(t)
      PROVE  StartInv'
  <2>1. t \in Threads /\ 0 \in Threads /\ 1..Workers \subseteq Threads
    BY DEF Threads
  <2>2. demo' = demo /\ code' = code /\ tpc[t] \in 1..Len(code[t])
    BY <1>5, <2>1, Dispatch, InCode DEF Placed
  <2>3. PICK v \in Nat \ {0} : tpc' = [tpc EXCEPT ![t] = v]
    BY <1>5, WorkerMoves
  <2>4. tpc'[0] = tpc[0] /\ tpc'[t] = v /\ \A u \in 1..Workers : u # t => tpc'[u] = tpc[u]
    BY <1>1, <2>1, <2>3
  <2>5. tpc[t] # 0 /\ ~(tpc[t] > Len(code[t]))
    BY <1>1, <2>1, <2>2
  <2>6. QED
    <3>1. n' = n
      BY <2>2 DEF Started
    <3>2. tpc'[0] >= 1
      BY <2>4 DEF StartInv
    <3>3. ASSUME NEW u \in 1..Workers
          PROVE  tpc'[u] # 0 <=> (u <= n /\ u < tpc'[0])
      <4>1. tpc'[u] # 0 <=> tpc[u] # 0
        BY <2>4, <2>5
      <4>2. QED
        BY <2>4, <4>1 DEF StartInv
    <3>4. ASSUME NEW u \in 1..n, tpc'[0] > n + u
          PROVE  tpc'[u] > Len(code'[u])
      <4>1. tpc[u] > Len(code[u]) /\ u \in 1..Workers
        BY <1>1, <2>4, <3>4 DEF StartInv
      <4>2. u # t
        BY <2>5, <4>1
      <4>3. QED
        BY <2>2, <2>4, <4>1, <4>2
    <3> HIDE DEF n
    <3>5. QED
      BY <3>1, <3>2, <3>3, <3>4 DEF StartInv, n
<1>6. QED
  BY <1>2, <1>3, <1>4, <1>5 DEF Demo!Next, Threads
-----------------------------------------------------------------------------
(* The mutex *)

\* Where in its code thread t has the mutex; in a wait() it may be without it.
Inside(d, t, k) ==
    \/ d \in {"mutex", "sync_queue"} /\ t # 0 /\ k # 0 /\ k % 4 # 1
    \/ d = "unique_lock" /\ t = 1 /\ k # 0 /\ k % 4 # 1
    \/ d = "unique_lock" /\ t \notin {0, 1} /\ k \in {2, 3, 4}
    \/ d = "timed" /\ t # 0 /\ k \in {2, 3}
    \/ d = "guard" /\ t # 0 /\ (k = 2 \/ (k = 3 /\ t % 2 = 0))

\* The code takes it, keeps it and gives it back, and uses nothing shared without it.
Disciplined(t, k) ==
    LET o == code[t][k].op
        a == code[t][k].arg
    IN  /\ o = "lock" => ~Inside(demo, t, k) /\ Inside(demo, t, k + 1)
        /\ o = "unlock" => Inside(demo, t, k) /\ ~Inside(demo, t, k + 1)
        /\ o = "try_lock_for" => /\ ~Inside(demo, t, k) /\ Inside(demo, t, k + 1)
                                 /\ ~Inside(demo, t, a)
        /\ o = "goto" => ~Inside(demo, t, k) /\ ~Inside(demo, t, a)
        /\ o = "wait" => Inside(demo, t, k) /\ Inside(demo, t, k + 1)
        /\ o = "call_once" => /\ ~Inside(demo, t, k) /\ ~Inside(demo, t, k + 1)
                              /\ ~Inside(demo, t, k + 2)
        /\ o \notin {"lock", "unlock", "try_lock_for", "goto", "wait", "call_once"} =>
              (Inside(demo, t, k) <=> Inside(demo, t, k + 1))
        /\ o \in {"push_back", "push_front", "pop_front", "pop_back"} => Inside(demo, t, k)
        /\ demo \in StartAll /\ o \in {"load", "store", "mul", "div"} => Inside(demo, t, k)

\* main() of the demos that start all threads only starts and joins.
LEMMA MainOps ==
    ASSUME Coded, demo \in StartAll, NEW k \in 1..Len(code[0])
    PROVE  code[0][k].op \in {"spawn", "join"}
<1>1. PICK n \in 1..Workers : StartsAll(code[0], n)
  BY StartMain
<1>2. k \in 1..n \/ k \in (n + 1)..(2 * n)
  BY <1>1, DemoSizes DEF StartsAll
<1>3. QED
  BY <1>1, <1>2 DEF StartsAll

\* A thread starts without the mutex.
LEMMA StartsOutside ==
    ASSUME NEW d, NEW t
    PROVE  ~Inside(d, t, 0) /\ ~Inside(d, t, 1)
  BY DEF Inside

\* The loops that lock at their first and unlock at their fourth instruction.
LEMMA LoopDisciplined ==
    ASSUME NEW t \in 1..Workers, NEW o2, NEW o3, Loops(code[t], Turns, "lock", o2, o3, "unlock"),
           demo \in {"mutex", "sync_queue"} \/ (demo = "unique_lock" /\ t = 1),
           {o2, o3} \subseteq {"load", "store", "push_back", "push_front", "notify_one", "wait",
                               "pop_front"},
           NEW k \in 1..Len(code[t])
    PROVE  Disciplined(t, k)
<1>1. k \in Nat /\ k # 0 /\ k \in 1..(4 * Turns) /\ t # 0
  BY DemoSizes DEF Loops
<1>2. \A j \in Nat \ {0} : Inside(demo, t, j) <=> j % 4 # 1
  BY <1>1 DEF Inside
<1>3. /\ k % 4 = 1 => (k + 1) % 4 = 2
      /\ k % 4 = 2 => (k + 1) % 4 = 3
      /\ k % 4 = 3 => (k + 1) % 4 = 0
      /\ k % 4 = 0 => (k + 1) % 4 = 1
      /\ k % 4 \in 0..3
  BY <1>1
<1>4. /\ k % 4 = 1 => code[t][k].op = "lock" /\ ~Inside(demo, t, k) /\ Inside(demo, t, k + 1)
      /\ k % 4 = 2 => code[t][k].op = o2 /\ Inside(demo, t, k) /\ Inside(demo, t, k + 1)
      /\ k % 4 = 3 => code[t][k].op = o3 /\ Inside(demo, t, k) /\ Inside(demo, t, k + 1)
      /\ k % 4 = 0 => code[t][k].op = "unlock" /\ Inside(demo, t, k) /\ ~Inside(demo, t, k + 1)
  BY <1>1, <1>2, <1>3 DEF Loops
<1>5. CASE k % 4 = 1
  BY <1>4, <1>5 DEF Disciplined
<1>6. CASE k % 4 = 2
  BY <1>4, <1>6 DEF Disciplined
<1>7. CASE k % 4 = 3
  BY <1>4, <1>7 DEF Disciplined
<1>8. CASE k % 4 = 0
  BY <1>4, <1>8 DEF Disciplined
<1>9. QED
  BY <1>3, <1>5, <1>6, <1>7, <1>8

\* Every demo but the one with the recursive mutex is disciplined.
LEMMA Discipline ==
    ASSUME Coded, demo # "recursive", NEW t \in Threads, NEW k \in 1..Len(code[t])
    PROVE  Disciplined(t, k)
<1>1. t = 0 \/ t \in 1..Workers
  BY DemoSizes DEF Threads
<1>2. CASE demo \in StartAll /\ t = 0
  <2>3. code[0][k].op \in {"spawn", "join"}
    BY <1>2, MainOps
  <2>4. \A j : ~Inside(demo, 0, j)
    BY DEF Inside
  <2>5. QED
    BY <1>2, <2>3, <2>4 DEF Disciplined
<1>3. CASE demo = "mutex" /\ t \in 1..Workers
  BY <1>3, MutexCode, LoopDisciplined
<1>4. CASE demo = "sync_queue" /\ t \in 1..Workers
  <2>1. CASE Loops(code[t], Turns, "lock", "push_back", "notify_one", "unlock")
    BY <1>4, <2>1, LoopDisciplined
  <2>2. CASE Loops(code[t], Turns, "lock", "wait", "pop_front", "unlock")
    BY <1>4, <2>2, LoopDisciplined
  <2>3. QED
    BY <1>4, <2>1, <2>2, QueueCode
<1>5. CASE demo = "unique_lock" /\ t = 1
  <2>1. Loops(code[t], Turns, "lock", "push_front", "notify_one", "unlock") /\ t \in 1..Workers
    BY <1>5, UniqueCode, DemoSizes
  <2>2. QED
    BY <1>5, <2>1, LoopDisciplined
<1>6. CASE demo = "unique_lock" /\ t \in 2..Workers
  <2>1. /\ k \in 1..5 /\ t \notin {0, 1} /\ code[t][1].op = "lock" /\ code[t][2].op = "wait"
        /\ code[t][3].op = "pop_back" /\ code[t][4].op = "unlock"
        /\ code[t][5].op = "goto" /\ code[t][5].arg = 1
    <3>1. /\ Len(code[t]) = 5 /\ code[t][1].op = "lock" /\ code[t][2].op = "wait"
          /\ code[t][3].op = "pop_back" /\ code[t][4].op = "unlock"
          /\ code[t][5].op = "goto" /\ code[t][5].arg = 1
      BY <1>6, UniqueCode
    <3>2. k \in 1..5 /\ t \notin {0, 1}
      BY <1>6, <3>1, DemoSizes
    <3>3. QED
      BY <3>1, <3>2
  <2>2. \A j \in Nat : Inside(demo, t, j) <=> j \in {2, 3, 4}
    BY <1>6, <2>1 DEF Inside
  <2>3. ~Inside(demo, t, 1) /\ ~Inside(demo, t, 5) /\ \A j \in {2, 3, 4} : Inside(demo, t, j)
    BY <2>2
  <2>4. CASE k = 1
    BY <2>1, <2>3, <2>4 DEF Disciplined
  <2>5. CASE k = 2
    BY <2>1, <2>3, <2>5 DEF Disciplined
  <2>6. CASE k = 3
    BY <2>1, <2>3, <2>6 DEF Disciplined
  <2>7. CASE k = 4
    BY <2>1, <2>3, <2>7 DEF Disciplined
  <2>8. CASE k = 5
    BY <2>1, <2>3, <2>8 DEF Disciplined
  <2>9. QED
    BY <2>1, <2>4, <2>5, <2>6, <2>7, <2>8
<1>7. CASE demo = "timed" /\ t \in 1..Workers
  <2>1. /\ k \in 1..6 /\ t # 0 /\ code[t][1].op = "try_lock_for" /\ code[t][1].arg = 5
        /\ code[t][2].op = "nop" /\ code[t][3].op = "unlock" /\ code[t][5].op = "nop"
        /\ code[t][4].op = "goto" /\ code[t][4].arg = 1
        /\ code[t][6].op = "goto" /\ code[t][6].arg = 1
    <3>1. /\ Len(code[t]) = 6 /\ code[t][1].op = "try_lock_for" /\ code[t][1].arg = 5
          /\ code[t][2].op = "nop" /\ code[t][3].op = "unlock" /\ code[t][5].op = "nop"
          /\ code[t][4].op = "goto" /\ code[t][4].arg = 1
          /\ code[t][6].op = "goto" /\ code[t][6].arg = 1
      BY <1>7, TimedCode
    <3>2. k \in 1..6 /\ t # 0
      BY <1>7, <3>1, DemoSizes
    <3>3. QED
      BY <3>1, <3>2
  <2>2. \A j \in Nat : Inside(demo, t, j) <=> j \in {2, 3}
    BY <1>7, <2>1 DEF Inside
  <2>3. /\ Inside(demo, t, 2) /\ Inside(demo, t, 3)
        /\ \A j \in {1, 4, 5, 6} : ~Inside(demo, t, j)
    BY <2>2
  <2>4. CASE k = 1
    BY <2>1, <2>3, <2>4 DEF Disciplined
  <2>5. CASE k = 2
    BY <2>1, <2>3, <2>5 DEF Disciplined
  <2>6. CASE k = 3
    BY <2>1, <2>3, <2>6 DEF Disciplined
  <2>7. CASE k \in {4, 6}
    BY <2>1, <2>3, <2>7 DEF Disciplined
  <2>8. CASE k = 5
    BY <2>1, <2>3, <2>8 DEF Disciplined
  <2>9. QED
    BY <2>1, <2>4, <2>5, <2>6, <2>7, <2>8
<1>8. CASE demo = "guard" /\ t \in 1..Workers
  <2>1. /\ k \in 1..3 /\ t # 0 /\ code[t][1].op = "lock"
        /\ IF t % 2 = 0 THEN code[t][2].op = "print" /\ code[t][3].op = "unlock"
           ELSE code[t][2].op = "unlock" /\ code[t][3].op = "print"
    <3>1. /\ Len(code[t]) = 3 /\ code[t][1].op = "lock"
          /\ IF t % 2 = 0 THEN code[t][2].op = "print" /\ code[t][3].op = "unlock"
             ELSE code[t][2].op = "unlock" /\ code[t][3].op = "print"
      BY <1>8, GuardCode
    <3>2. k \in 1..3 /\ t # 0
      BY <1>8, <3>1, DemoSizes
    <3>3. QED
      BY <3>1, <3>2
  <2>2. \A j \in Nat : Inside(demo, t, j) <=> (j = 2 \/ (j = 3 /\ t % 2 = 0))
    BY <1>8, <2>1 DEF Inside
  <2>3. /\ ~Inside(demo, t, 1) /\ Inside(demo, t, 2) /\ ~Inside(demo, t, 4)
        /\ Inside(demo, t, 3) <=> t % 2 = 0
    BY <2>2
  <2>4. CASE k = 1
    BY <2>1, <2>3, <2>4 DEF Disciplined
  <2>5. CASE k = 2
    BY <2>1, <2>3, <2>5 DEF Disciplined
  <2>6. CASE k = 3
    BY <2>1, <2>3, <2>6 DEF Disciplined
  <2>7. QED
    BY <2>1, <2>4, <2>5, <2>6
<1>9. CASE demo \notin {"mutex", "sync_queue", "unique_lock", "timed", "guard"}
  <2>1. \A j : ~Inside(demo, t, j)
    BY <1>9 DEF Inside
  <2>2. code[t][k].op \notin {"lock", "unlock", "try_lock_for", "goto", "wait", "push_back",
                              "push_front", "pop_front", "pop_back"}
    <3>1. CASE demo = "once" /\ t \in 1..Workers
      <4>1. code[t][k].op \in {"call_once", "throw", "return"}
        BY <3>1, OnceCode
      <4>2. QED
        BY <4>1
    <3>2. CASE demo = "atomic" /\ t \in 1..Workers
      <4>1. t = 1 \/ t \in 2..Workers
        BY <3>2, DemoSizes
      <4>2. code[t][k].op \in {"load_until_set", "print", "store_atomic"}
        BY <3>2, <4>1, AtomicCode
      <4>3. QED
        BY <4>2
    <3>3. CASE demo \in {"promise", "future", "task"}
      <4>1. code[t][k].op \in {"set_value", "spawn", "async", "get", "join"}
        <5>1. CASE t # 0
          BY <1>1, <3>3, <5>1, PromiseCode
        <5>2. CASE t = 0 /\ demo = "promise"
          BY <5>2, PromiseCode
        <5>3. CASE t = 0 /\ demo = "future"
          BY <5>3, PromiseCode
        <5>4. CASE t = 0 /\ demo = "task"
          BY <5>4, PromiseCode
        <5>5. QED
          BY <3>3, <5>1, <5>2, <5>3, <5>4
      <4>2. QED
        BY <4>1
    <3>4. CASE demo = "thread1"
      <4>1. code[t][k].op \in {"load", "store", "spawn", "join"}
        BY <1>1, <3>4, LentCode
      <4>2. QED
        BY <4>1
    <3>5. CASE demo = "thread2"
      <4>1. code[t][k].op \in {"load", "store", "spawn", "join", "print", "nop"}
        <5>1. CASE t = 0
          <6>1. Len(code[0]) = 13 /\ \A j \in 1..13 : code[0][j].op \in {"spawn", "join", "load", "nop"}
            BY <3>5, BasicCode
          <6>2. QED
            BY <5>1, <6>1
        <5>2. CASE t = 2
          BY <3>5, <5>2, BasicCode
        <5>3. CASE t \in (1..Workers) \ {2}
          BY <3>5, <5>3, BasicCode
        <5>4. QED
          BY <1>1, <5>1, <5>2, <5>3
      <4>2. QED
        BY <4>1
    <3>6. CASE demo \in StartAll /\ t = 0
      <4>1. code[0][k].op \in {"spawn", "join"}
        BY <3>6, MainOps
      <4>2. QED
        BY <3>6, <4>1
    <3>7. demo \in Demo!AllDemos
      BY LibraryAssumption DEF Coded
    <3>8. QED
      BY <1>1, <1>9, <3>1, <3>2, <3>3, <3>4, <3>5, <3>6, <3>7 DEF Demo!AllDemos, StartAll
  <2>3. demo \in StartAll => code[t][k].op \notin {"load", "store", "mul", "div"}
    <3>1. demo \in StartAll => demo \in {"once", "atomic"}
      BY <1>9 DEF StartAll
    <3>2. CASE t \in 1..Workers /\ demo = "once"
      BY <3>2, OnceCode
    <3>3. CASE t \in 1..Workers /\ demo = "atomic"
      <4>1. t = 1 \/ t \in 2..Workers
        BY <3>3, DemoSizes
      <4>2. code[t][k].op \in {"load_until_set", "print", "store_atomic"}
        BY <3>3, <4>1, AtomicCode
      <4>3. QED
        BY <4>2
    <3>4. CASE t = 0 /\ demo \in StartAll
      <4>1. code[0][k].op \in {"spawn", "join"}
        BY <3>4, MainOps
      <4>2. QED
        BY <3>4, <4>1
    <3>5. QED
      BY <1>1, <3>1, <3>2, <3>3, <3>4
  <2>4. QED
    BY <2>1, <2>2, <2>3 DEF Disciplined
<1>10. QED
  <2>1. t = 0 \/ t = 1 \/ t \in 2..Workers
    BY <1>1, DemoSizes
  <2>2. demo \in {"mutex", "sync_queue", "unique_lock", "timed", "guard"} => demo \in StartAll
    BY DEF StartAll
  <2>3. QED
    BY <1>1, <1>2, <1>3, <1>4, <1>5, <1>6, <1>7, <1>8, <1>9, <2>1, <2>2

\* Who has the mutex is where it is to have it, and who is there has it.
MutexInv ==
    /\ owner \in 0..(Workers + 1) /\ asleep \subseteq Threads
    /\ depth = IF owner = Workers + 1 THEN 0 ELSE 1
    /\ \A t \in Threads : owner = t => Inside(demo, t, tpc[t])
    /\ \A t \in Threads : Inside(demo, t, tpc[t]) /\ code[t][tpc[t]].op # "wait" => owner = t

\* What a step of one thread may do to the mutex: leave it, take it, give it back, keep it.
Leave(t) ==
    /\ code[t][tpc[t]].op # "wait" /\ UNCHANGED <<owner, depth>>
    /\ Inside(demo, t, tpc'[t]) <=> Inside(demo, t, tpc[t])
Get(t) == owner = Workers + 1 /\ owner' = t /\ depth' = 1 /\ Inside(demo, t, tpc'[t])
Give(t) ==
    /\ owner = t /\ owner' = Workers + 1 /\ depth' = 0
    /\ Inside(demo, t, tpc'[t]) => code[t][tpc'[t]].op = "wait"
Keep(t) == owner = t /\ UNCHANGED <<owner, depth>> /\ Inside(demo, t, tpc'[t])

\* Each of them keeps the invariant.
LEMMA MutexSteps ==
    ASSUME MutexInv, NEW t \in Threads, demo' = demo, code' = code, asleep' \subseteq Threads,
           \A u \in Threads : u # t => tpc'[u] = tpc[u],
           Leave(t) \/ Get(t) \/ Give(t) \/ Keep(t)
    PROVE  MutexInv'
<1>1. t \in 0..Workers /\ t # Workers + 1 /\ t \in 0..(Workers + 1) /\ Workers + 1 \in 0..(Workers + 1)
  BY DemoSizes DEF Threads
<1>2. \A u \in Threads : u # Workers + 1
  BY DemoSizes DEF Threads
<1>3. CASE Leave(t)
  BY <1>3 DEF MutexInv, Leave
<1>4. CASE Get(t)
  BY <1>1, <1>2, <1>4 DEF MutexInv, Get
<1>5. CASE Give(t)
  BY <1>1, <1>2, <1>5 DEF MutexInv, Give
<1>6. CASE Keep(t)
  BY <1>1, <1>6 DEF MutexInv, Keep
<1>7. QED
  BY <1>3, <1>4, <1>5, <1>6

\* Starting a thread takes nothing away: it has no mutex before or after.
LEMMA SpawnKeepsMutex ==
    ASSUME Placed, demo # "recursive", demo \in StartAll => StartInv, MutexInv,
           NEW t \in Threads, Demo!Thread(t), code[t][tpc[t]].op \in {"spawn", "async"}
    PROVE  MutexInv'
<1> DEFINE a == code[t][tpc[t]].arg
<1>1. /\ demo' = demo /\ code' = code /\ UNCHANGED <<owner, depth, asleep>>
      /\ tpc \in [Threads -> Nat] /\ 0 \in Threads
  <2>1. demo' = demo /\ code' = code /\ UNCHANGED <<owner, depth, asleep>>
    BY Dispatch, Leaves DEF Placed
  <2>2. QED
    BY <2>1, DemoSizes DEF Placed, Coded, Threads
<1>2. tpc[t] \in 1..Len(code[t]) /\ InRange(t, tpc[t]) /\ Disciplined(t, tpc[t])
  BY InCode, WellFormed, Discipline DEF Placed
<1>3. t = 0 /\ a \in 1..Workers /\ a \in Threads /\ a # 0
  BY <1>2, DemoSizes DEF InRange, Threads
<1>4. Inside(demo, t, tpc[t]) <=> Inside(demo, t, tpc[t] + 1)
  BY <1>2 DEF Disciplined
<1>5. \/ tpc' = [tpc EXCEPT ![t] = @ + 1, ![a] = 1]
      \/ tpc' = [tpc EXCEPT ![t] = @ + 1]
  BY Moves DEF Placed
<1>6. tpc'[t] = tpc[t] + 1 /\ \A u \in Threads : u # t /\ u # a => tpc'[u] = tpc[u]
  BY <1>1, <1>3, <1>5
<1>7. tpc'[a] = 1 \/ tpc'[a] = tpc[a]
  BY <1>1, <1>3, <1>5
<1>8. CASE tpc'[a] = tpc[a]
  <2>1. \A u \in Threads : u # t => tpc'[u] = tpc[u]
    BY <1>6, <1>8
  <2>2. Leave(t)
    BY <1>1, <1>4, <1>6 DEF Leave
  <2>3. QED
    BY <1>1, <2>1, <2>2, MutexSteps DEF MutexInv
<1>9. CASE tpc'[a] = 1 /\ demo \in StartAll
  <2>1. tpc[a] = 0
    <3>1. code[0][tpc[0]].op = "spawn" /\ tpc[0] \in Nat
      <4>1. code[0][tpc[0]].op # "async"
        BY <1>2, <1>3, <1>9, MainOps DEF Placed
      <4>2. QED
        BY <1>1, <1>3, <4>1
    <3>2. tpc[0] <= Started(demo) \/ tpc[0] > Started(demo)
      BY <1>9, <3>1, StartMain, DemoSizes DEF Placed
    <3>3. tpc[0] <= Started(demo) /\ tpc[0] \in 1..Workers
      BY <1>3, <1>9, <3>1, <3>2, MainMoves, StartMain, DemoSizes DEF Placed
    <3>4. code[0][tpc[0]].arg = tpc[0]
      BY <1>9, <1>2, <1>3, <3>3, StartMain DEF Placed, StartsAll
    <3>5. QED
      BY <1>3, <1>9, <3>3, <3>4 DEF StartInv
  <2>2. ~Inside(demo, a, tpc[a]) /\ ~Inside(demo, a, tpc'[a])
    BY <1>9, <2>1, StartsOutside
  <2>3. QED
    BY <1>1, <1>4, <1>6, <2>2 DEF MutexInv
<1>10. CASE demo \notin StartAll
  <2>1. \A u, k : ~Inside(demo, u, k)
    BY <1>10 DEF Inside, StartAll
  <2>2. QED
    BY <1>1, <2>1 DEF MutexInv
<1>11. QED
  BY <1>7, <1>8, <1>9, <1>10

\* Every step of a disciplined demo keeps the mutex with who is to have it.
LEMMA MutexKept ==
    ASSUME Placed, demo # "recursive", demo \in StartAll => StartInv, MutexInv,
           Demo!Next \/ UNCHANGED demovars
    PROVE  MutexInv'
<1>1. CASE UNCHANGED demovars
  BY <1>1 DEF MutexInv, demovars
<1>2. ASSUME NEW t \in Threads, Demo!spurious(t)
      PROVE  MutexInv'
  BY <1>2 DEF MutexInv, Demo!spurious, Demo!mutexvars
<1>3. ASSUME NEW t \in Threads, Demo!Thread(t)
      PROVE  MutexInv'
  <2> DEFINE k == tpc[t]
             o == code[t][k].op
             a == code[t][k].arg
  <2>1. /\ demo' = demo /\ code' = code /\ tpc \in [Threads -> Nat] /\ k \in 1..Len(code[t])
        /\ Disciplined(t, k) /\ k \in Nat
    BY <1>3, Dispatch, InCode, Discipline, WellFormed DEF Placed, Coded
  <2>2. asleep' \subseteq Threads
    <3>1. CASE o = "wait"
      BY <1>3, <3>1, Dispatch DEF MutexInv, Placed, Demo!wait
    <3>2. CASE o = "notify_one"
      BY <1>3, <3>2, Dispatch DEF MutexInv, Placed, Demo!notify_one
    <3>3. CASE o \notin {"wait", "notify_one"}
      BY <1>3, <3>3, Leaves DEF MutexInv, Placed
    <3>4. QED
      BY <3>1, <3>2, <3>3
  <2>3. CASE o \in {"spawn", "async"}
    BY <1>3, <2>3, SpawnKeepsMutex
  <2>4. ASSUME o \notin {"spawn", "async"}
        PROVE  \A u \in Threads : u # t => tpc'[u] = tpc[u]
    BY <1>3, <2>1, <2>4, Moves DEF Placed
  <2>5. CASE o = "lock"
    <3>1. Demo!lock(t) /\ Inside(demo, t, k + 1) /\ ~Inside(demo, t, k)
      BY <1>3, <2>1, <2>5, Dispatch DEF Placed, Disciplined
    <3>2. owner = Workers + 1 /\ owner' = t /\ depth' = depth + 1 /\ tpc'[t] = k + 1
      BY <2>1, <3>1 DEF Demo!lock, Demo!Free, Demo!Step, MutexInv
    <3>3. Get(t)
      BY <3>1, <3>2, DemoSizes DEF Get, MutexInv
    <3>4. QED
      BY <2>1, <2>2, <2>4, <2>5, <3>3, MutexSteps
  <2>6. CASE o = "unlock"
    <3>1. Demo!unlock(t) /\ ~Inside(demo, t, k + 1) /\ Inside(demo, t, k)
      BY <1>3, <2>1, <2>6, Dispatch DEF Placed, Disciplined
    <3>2. owner = t /\ depth = 1
      BY <2>6, <3>1, DemoSizes DEF MutexInv, Threads
    <3>3. depth' = 0 /\ owner' = Workers + 1 /\ tpc'[t] = k + 1
      BY <2>1, <3>1, <3>2 DEF Demo!unlock, Demo!Free, Demo!Step
    <3>4. Give(t)
      BY <3>1, <3>2, <3>3 DEF Give
    <3>5. QED
      BY <2>1, <2>2, <2>4, <2>6, <3>4, MutexSteps
  <2>7. CASE o = "try_lock_for"
    <3>1. /\ Demo!try_lock_for(t) /\ ~Inside(demo, t, k) /\ Inside(demo, t, k + 1)
          /\ ~Inside(demo, t, a)
      BY <1>3, <2>1, <2>7, Dispatch DEF Placed, Disciplined
    <3>2. CASE owner = Workers + 1
      <4>1. owner' = t /\ depth' = 1 /\ tpc'[t] = k + 1
        BY <2>1, <3>1, <3>2 DEF Demo!try_lock_for, Demo!Free, Demo!Step
      <4>2. Get(t)
        BY <3>1, <3>2, <4>1 DEF Get
      <4>3. QED
        BY <2>1, <2>2, <2>4, <2>7, <4>2, MutexSteps
    <3>3. CASE owner # Workers + 1
      <4>1. tpc'[t] = a /\ UNCHANGED <<owner, depth>>
        BY <2>1, <3>1, <3>3 DEF Demo!try_lock_for, Demo!Free, Demo!Arg, Demo!mutexvars
      <4>2. Leave(t)
        BY <2>7, <3>1, <4>1 DEF Leave
      <4>3. QED
        BY <2>1, <2>2, <2>4, <2>7, <4>2, MutexSteps
    <3>4. QED
      BY <3>2, <3>3
  <2>8. CASE o = "wait"
    <3>1. Demo!wait(t) /\ Inside(demo, t, k) /\ Inside(demo, t, k + 1)
      BY <1>3, <2>1, <2>8, Dispatch DEF Placed, Disciplined
    <3>2. \/ owner = t /\ tpc'[t] = k + 1 /\ UNCHANGED <<owner, depth>>
          \/ owner = t /\ owner' = Workers + 1 /\ depth' = 0 /\ tpc'[t] = k
          \/ owner = Workers + 1 /\ owner' = t /\ depth' = 1 /\ tpc'[t] = k
      BY <2>1, <3>1 DEF Demo!wait, Demo!Free, Demo!Step
    <3>3. Keep(t) \/ Give(t) \/ Get(t)
      BY <2>8, <3>1, <3>2 DEF Keep, Give, Get
    <3>4. QED
      BY <2>1, <2>2, <2>4, <2>8, <3>3, MutexSteps
  <2>9. CASE o \notin {"lock", "unlock", "try_lock_for", "wait", "spawn", "async"}
    <3>1. Inside(demo, t, tpc'[t]) <=> Inside(demo, t, k)
      <4>1. CASE o = "goto"
        BY <1>3, <2>1, <4>1, Moves DEF Placed, Disciplined
      <4>2. CASE o = "call_once"
        BY <1>3, <2>1, <4>2, Moves DEF Placed, Disciplined
      <4>3. CASE o \notin {"goto", "call_once"}
        <5>1. tpc'[t] = k + 1
          BY <1>3, <2>1, <2>9, <4>3, Moves DEF Placed
        <5>2. QED
          BY <2>1, <2>9, <4>3, <5>1 DEF Disciplined
      <4>4. QED
        BY <4>1, <4>2, <4>3
    <3>2. Leave(t)
      BY <1>3, <2>9, <3>1, Leaves DEF Placed, Leave
    <3>3. QED
      BY <2>1, <2>2, <2>4, <2>9, <3>2, MutexSteps
  <2>10. QED
    BY <2>3, <2>5, <2>6, <2>7, <2>8, <2>9
<1>4. QED
  BY <1>1, <1>2, <1>3, DemoSizes DEF Demo!Next
-----------------------------------------------------------------------------
(* Counting turns *)

\* The turns in which the threads of S, at the places f, are past the r-th instruction
\* from the end of the loop; r is 1 or 2.
Past(f, S, r) == {x \in S \X (1..Turns) : f[x[1]] > 4 * x[2] - r}

\* There are finitely many, and all of them when every thread is at the end.
LEMMA PastFinite ==
    ASSUME NEW f, NEW S, NEW r, IsFiniteSet(S)
    PROVE  /\ IsFiniteSet(Past(f, S, r)) /\ Cardinality(Past(f, S, r)) \in Nat
           /\ IsFiniteSet(S \X (1..Turns))
           /\ Cardinality(S \X (1..Turns)) = Cardinality(S) * Turns
           /\ Cardinality(Past(f, S, r)) <= Cardinality(S \X (1..Turns))
           /\ Past(f, S, r) # S \X (1..Turns) =>
                 Cardinality(Past(f, S, r)) < Cardinality(S \X (1..Turns))
<1>1. IsFiniteSet(1..Turns) /\ Cardinality(1..Turns) = Turns
  BY DemoSizes, FS_Interval
<1>2. IsFiniteSet(S \X (1..Turns)) /\ Cardinality(S \X (1..Turns)) = Cardinality(S) * Turns
  BY <1>1, FS_Product
<1>3. Past(f, S, r) \in SUBSET (S \X (1..Turns))
  BY DEF Past
<1> DEFINE P == Past(f, S, r)
           T == S \X (1..Turns)
<1> HIDE DEF P, T
<1>4. /\ IsFiniteSet(P) /\ Cardinality(P) <= Cardinality(T)
      /\ Cardinality(T) = Cardinality(P) => T = P
  BY <1>2, <1>3, FS_Subset DEF P, T
<1>5. Cardinality(P) \in Nat /\ Cardinality(T) \in Nat
  BY <1>2, <1>4, FS_CardinalityType DEF T
<1>6. P # T => Cardinality(P) < Cardinality(T)
  BY <1>4, <1>5
<1>7. QED
  BY <1>2, <1>4, <1>5, <1>6 DEF P, T

\* A step that is not of that instruction changes nothing.
LEMMA PastSame ==
    ASSUME NEW f, NEW g, NEW S, NEW r \in {1, 2},
           \A u \in S : /\ f[u] \in Nat
                        /\ \/ g[u] = f[u]
                           \/ g[u] = f[u] + 1 /\ f[u] % 4 # 4 - r
    PROVE  Past(g, S, r) = Past(f, S, r)
<1>1. ASSUME NEW u \in S, NEW j \in 1..Turns
      PROVE  g[u] > 4 * j - r <=> f[u] > 4 * j - r
  <2>1. CASE g[u] = f[u]
    BY <2>1
  <2>2. CASE g[u] = f[u] + 1 /\ f[u] % 4 # 4 - r
    <3>1. f[u] # 4 * j - r
      <4>1. j \in Nat /\ j > 0
        BY DemoSizes
      <4>2. (4 * j - 1) % 4 = 3 /\ (4 * j - 2) % 4 = 2
        BY <4>1
      <4>3. QED
        BY <2>2, <4>2
    <3>2. QED
      BY <2>2, <3>1, DemoSizes
  <2>3. QED
    BY <2>1, <2>2
<1>2. QED
  BY <1>1 DEF Past

\* A step by which thread t alone, from the place f[t] to g[t], gets past that instruction.
Passes(f, g, S, r, t) ==
    /\ IsFiniteSet(S) /\ r \in {1, 2} /\ t \in S
    /\ \A u \in S : u # t => g[u] = f[u]
    /\ f[t] \in 1..(4 * Turns) /\ f[t] % 4 = 4 - r /\ g[t] = f[t] + 1

\* Such a step adds one.
LEMMA PastOne ==
    ASSUME NEW f, NEW g, NEW S, NEW r, NEW t, Passes(f, g, S, r, t)
    PROVE  /\ Cardinality(Past(g, S, r)) = Cardinality(Past(f, S, r)) + 1
           /\ Cardinality(Past(f, S, r)) < Cardinality(S \X (1..Turns))
<1> DEFINE i == (f[t] + r) \div 4
<1>0. /\ IsFiniteSet(S) /\ r \in {1, 2} /\ t \in S
      /\ \A u \in S : u # t => g[u] = f[u]
      /\ f[t] \in 1..(4 * Turns) /\ f[t] % 4 = 4 - r /\ g[t] = f[t] + 1
  BY DEF Passes
<1> USE <1>0
<1>1. i \in 1..Turns /\ f[t] = 4 * i - r
  <2>1. CASE r = 1
    BY <2>1, DemoSizes
  <2>2. CASE r = 2
    BY <2>2, DemoSizes
  <2>3. QED
    BY <2>1, <2>2
<1> HIDE DEF i
<1>2. ASSUME NEW j \in 1..Turns
      PROVE  g[t] > 4 * j - r <=> f[t] > 4 * j - r \/ j = i
  BY <1>1, DemoSizes
<1>3. ~(f[t] > 4 * i - r)
  BY <1>1, DemoSizes
<1>4. Past(g, S, r) = Past(f, S, r) \cup {<<t, i>>}
  <2>1. ASSUME NEW u \in S, NEW j \in 1..Turns
        PROVE  g[u] > 4 * j - r <=> f[u] > 4 * j - r \/ (u = t /\ j = i)
    BY <1>2
  <2>2. <<t, i>> \in S \X (1..Turns)
    BY <1>1
  <2>3. ASSUME NEW x \in S \X (1..Turns)
        PROVE  x \in Past(g, S, r) <=> x \in Past(f, S, r) \cup {<<t, i>>}
    <3>1. PICK u \in S, j \in 1..Turns : x = <<u, j>>
      OBVIOUS
    <3>2. x = <<t, i>> <=> u = t /\ j = i
      BY <3>1
    <3>3. QED
      BY <2>1, <3>1, <3>2 DEF Past
  <2>4. QED
    BY <2>2, <2>3 DEF Past
<1>5. <<t, i>> \notin Past(f, S, r) /\ <<t, i>> \in S \X (1..Turns)
  BY <1>1, <1>3 DEF Past
<1>6. Cardinality(Past(f, S, r)) < Cardinality(S \X (1..Turns))
  BY <1>5, PastFinite
<1>7. QED
  BY <1>4, <1>5, <1>6, PastFinite, FS_AddElement

\* At the end all turns are past.
LEMMA PastAll ==
    ASSUME NEW f, NEW S, IsFiniteSet(S), NEW r \in {1, 2},
           \A u \in S : f[u] \in Nat /\ f[u] > 4 * Turns
    PROVE  Cardinality(Past(f, S, r)) = Cardinality(S) * Turns
<1>1. \A u \in S, j \in 1..Turns : f[u] > 4 * j - r
  BY DemoSizes
<1>2. Past(f, S, r) = S \X (1..Turns)
  BY <1>1 DEF Past
<1>3. QED
  BY <1>2, PastFinite

\* At the start none is.
LEMMA PastNone ==
    ASSUME NEW f, NEW S, NEW r \in {1, 2}, \A u \in S : f[u] = 0
    PROVE  Cardinality(Past(f, S, r)) = 0
<1>1. \A u \in S, j \in 1..Turns : ~(f[u] > 4 * j - r)
  BY DemoSizes
<1>2. Past(f, S, r) = {}
  BY <1>1 DEF Past
<1>3. QED
  BY <1>2, FS_EmptySet

\* main() of the demos that start all threads moves a thread at most from 0 to 1, and
\* touches nothing else.
LEMMA MainPlaces ==
    ASSUME Placed, demo \in StartAll, StartInv, Demo!Thread(0)
    PROVE  /\ \A u \in 1..Workers : tpc'[u] = tpc[u] \/ (tpc[u] = 0 /\ tpc'[u] = 1)
           /\ UNCHANGED <<demo, code, mem, reg, out, sent, received, queue, once, ran, ready>>
<1> DEFINE n == Started(demo)
<1>1. /\ tpc \in [Threads -> Nat] /\ Coded /\ 1..Workers \subseteq Threads /\ 0 \in Threads
      /\ n \in 1..Workers
  BY StartMain, DemoSizes DEF Placed, Coded, Threads
<1> HIDE DEF n
<1>2. CASE tpc[0] <= n
  <2>1. /\ tpc[0] \in 1..Workers /\ tpc[0] <= n /\ code[0][tpc[0]].op = "spawn"
        /\ tpc' = [tpc EXCEPT ![0] = tpc[0] + 1, ![tpc[0]] = 1]
    BY <1>1, <1>2, MainMoves, DemoSizes DEF n
  <2>2. tpc[tpc[0]] = 0
    BY <2>1, DemoSizes DEF StartInv, n
  <2>3. tpc'[tpc[0]] = 1 /\ \A u \in 1..Workers : u # tpc[0] => tpc'[u] = tpc[u]
    BY <1>1, <2>1, DemoSizes
  <2>4. UNCHANGED <<demo, code, mem, reg, out, sent, received, queue, once, ran, ready>>
    BY <1>1, <2>1, Leaves, Dispatch
  <2>5. QED
    BY <2>2, <2>3, <2>4
<1>3. CASE ~(tpc[0] <= n)
  <2>1. code[0][tpc[0]].op = "join" /\ tpc' = [tpc EXCEPT ![0] = tpc[0] + 1]
    BY <1>1, <1>3, MainMoves, DemoSizes DEF n
  <2>2. UNCHANGED <<demo, code, mem, reg, out, sent, received, queue, once, ran, ready>>
    BY <1>1, <2>1, Leaves, Dispatch
  <2>3. QED
    BY <1>1, <2>1, <2>2, DemoSizes
<1>4. QED
  BY <1>2, <1>3

\* All threads of these demos have ended when main() has.
LEMMA AllEnded ==
    ASSUME Placed, demo \in StartAll, StartInv, tpc[0] > Len(code[0])
    PROVE  \A t \in 1..Started(demo) : tpc[t] > Len(code[t])
<1>1. Len(code[0]) = 2 * Started(demo) /\ Started(demo) \in Nat
  BY StartMain, DemoSizes DEF Placed, StartsAll
<1>2. tpc[0] \in Nat
  BY DemoSizes DEF Placed, Coded, Threads
<1>3. QED
  BY <1>1, <1>2 DEF StartInv
-----------------------------------------------------------------------------
(* mutex/demo1_mutex.cpp *)

\* Every turn past its store is counted, and who is about to store has read the count.
CountInv ==
    /\ mem = Cardinality(Past(tpc, 1..Workers, 1)) /\ mem \in Nat
    /\ DOMAIN reg = Threads
    /\ \A t \in 1..Workers : tpc[t] % 4 = 3 => reg[t] = mem

\* Every step of a thread of the demo goes to the next instruction.
LEMMA CountPlaces ==
    ASSUME Placed, demo = "mutex", NEW t \in 1..Workers, Demo!Thread(t)
    PROVE  /\ tpc[t] \in 1..(4 * Turns) /\ tpc' = [tpc EXCEPT ![t] = @ + 1]
           /\ Loops(code[t], Turns, "lock", "load", "store", "unlock")
<1>1. Coded /\ t \in Threads
  BY DemoSizes DEF Placed, Threads
<1>2. Loops(code[t], Turns, "lock", "load", "store", "unlock")
  BY <1>1, MutexCode
<1>3. tpc[t] \in 1..(4 * Turns) /\ tpc[t] \in 1..Len(code[t])
  BY <1>1, <1>2, InCode DEF Loops
<1>4. code[t][tpc[t]].op \in {"lock", "load", "store", "unlock"}
  BY <1>2, <1>3, LoopOps, DemoSizes
<1>5. tpc' = [tpc EXCEPT ![t] = @ + 1]
  BY <1>1, <1>4, Moves
<1>6. QED
  BY <1>2, <1>3, <1>5

\* No increment is lost.
LEMMA CountKept ==
    ASSUME Placed, demo = "mutex", StartInv, MutexInv, CountInv, Demo!Next \/ UNCHANGED demovars
    PROVE  CountInv'
<1>0. /\ tpc \in [Threads -> Nat] /\ Coded /\ 1..Workers \subseteq Threads /\ demo \in StartAll
      /\ IsFiniteSet(1..Workers) /\ 0 \in Threads
  <2>1. IsFiniteSet(1..Workers)
    BY DemoSizes, FS_Interval
  <2>2. QED
    BY <2>1, DemoSizes DEF Placed, Coded, Threads, StartAll
<1>1. CASE UNCHANGED demovars
  BY <1>1 DEF CountInv, demovars, Past
<1>2. ASSUME NEW t \in Threads, Demo!spurious(t)
      PROVE  CountInv'
  BY <1>2 DEF CountInv, Demo!spurious, Past
<1>3. CASE Demo!Thread(0)
  <2>1. /\ UNCHANGED <<mem, reg>>
        /\ \A u \in 1..Workers : tpc'[u] = tpc[u] \/ (tpc[u] = 0 /\ tpc'[u] = 1)
    BY <1>0, <1>3, MainPlaces
  <2>2. Past(tpc', 1..Workers, 1) = Past(tpc, 1..Workers, 1)
    <3>1. \A u \in 1..Workers : tpc[u] \in Nat /\ (\/ tpc'[u] = tpc[u]
                                                   \/ tpc'[u] = tpc[u] + 1 /\ tpc[u] % 4 # 4 - 1)
      BY <1>0, <2>1
    <3>2. QED
      BY <3>1, PastSame
  <2>3. \A u \in 1..Workers : tpc'[u] % 4 = 3 => tpc[u] % 4 = 3
    BY <1>0, <2>1
  <2>4. QED
    BY <2>1, <2>2, <2>3 DEF CountInv
<1>4. ASSUME NEW t \in 1..Workers, Demo!Thread(t)
      PROVE  CountInv'
  <2> DEFINE k == tpc[t]
             o == code[t][k].op
  <2>1. /\ k \in 1..(4 * Turns) /\ k \in Nat /\ tpc' = [tpc EXCEPT ![t] = @ + 1]
        /\ Loops(code[t], Turns, "lock", "load", "store", "unlock") /\ t \in Threads
    BY <1>0, <1>4, CountPlaces, DemoSizes
  <2>2. tpc'[t] = k + 1 /\ \A u \in 1..Workers : u # t => tpc'[u] = tpc[u]
    BY <1>0, <2>1
  <2>3. CASE o = "store"
    <3>1. k % 4 = 3
      BY <2>1, <2>3 DEF Loops
    <3>2. Demo!store(t) /\ code[t][k].arg = 1
      BY <1>0, <1>4, <2>1, <2>3, <3>1, Dispatch, MutexCode
    <3>3. mem' = mem + 1 /\ reg' = reg
      <4>1. reg[t] = mem
        BY <3>1 DEF CountInv
      <4>2. mem' = reg[t] + 1
        BY <2>3, <3>2 DEF Demo!store, Demo!At, Demo!Arg
      <4>3. QED
        BY <3>2, <4>1, <4>2 DEF Demo!store
    <3>4. Cardinality(Past(tpc', 1..Workers, 1)) = Cardinality(Past(tpc, 1..Workers, 1)) + 1
      <4> DEFINE W == 1..Workers
      <4>1. t \in W /\ IsFiniteSet(W) /\ \A u \in W : u # t => tpc'[u] = tpc[u]
        BY <1>0, <2>2
      <4>2. k % 4 = 4 - 1
        BY <3>1
      <4> HIDE DEF W
      <4>3. Cardinality(Past(tpc', W, 1)) = Cardinality(Past(tpc, W, 1)) + 1
        <5>1. /\ 1 \in {1, 2} /\ tpc[t] \in 1..(4 * Turns) /\ tpc[t] % 4 = 4 - 1
              /\ tpc'[t] = tpc[t] + 1
          BY <2>1, <2>2, <4>2
        <5>2. QED
          <6>1. Passes(tpc, tpc', W, 1, t)
            BY <4>1, <5>1 DEF Passes
          <6>2. /\ Cardinality(Past(tpc', W, 1)) = Cardinality(Past(tpc, W, 1)) + 1
                /\ Cardinality(Past(tpc, W, 1)) < Cardinality(W \X (1..Turns))
            BY <6>1, PastOne, Zenon
          <6>3. QED
            BY <6>2
      <4>4. QED
        BY <4>3 DEF W
    <3>5. ASSUME NEW u \in 1..Workers, tpc'[u] % 4 = 3
          PROVE  FALSE
      <4>1. u # t
        <5>1. (k + 1) % 4 # 3
          BY <2>1, <3>1
        <5>2. QED
          BY <2>2, <3>5, <5>1
      <4>2. tpc[u] % 4 = 3 /\ tpc[u] \in Nat /\ u \in Threads
        BY <1>0, <2>2, <3>5, <4>1
      <4>3. Inside(demo, u, tpc[u]) /\ Inside(demo, t, tpc[t])
        BY <2>1, <3>1, <4>2, DemoSizes DEF Inside
      <4>4. code[u][tpc[u]].op # "wait"
        <5>1. tpc[u] \in 1..Len(code[u])
          <6>1. Loops(code[u], Turns, "lock", "load", "store", "unlock")
            BY <1>0, MutexCode
          <6>2. tpc[u] \in 0..(4 * Turns + 1) /\ tpc[u] # 0 /\ tpc[u] # 4 * Turns + 1
            <7>1. Len(code[u]) = 4 * Turns /\ tpc[u] \in 0..(Len(code[u]) + 1)
              BY <4>2, <6>1 DEF Placed, Loops
            <7>2. (4 * Turns + 1) % 4 = 1
              BY DemoSizes
            <7>3. QED
              BY <4>2, <7>1, <7>2
          <6>3. QED
            BY <6>1, <6>2, DemoSizes DEF Loops
        <5>2. code[u][tpc[u]].op \in {"lock", "load", "store", "unlock"}
          BY <1>0, <5>1, MutexCode, LoopOps, DemoSizes
        <5>3. QED
          BY <5>2
      <4>5. owner = u /\ owner = t
        BY <2>1, <2>3, <4>2, <4>3, <4>4 DEF MutexInv
      <4>6. QED
        BY <4>1, <4>5
    <3>6. QED
      BY <3>3, <3>4, <3>5 DEF CountInv
  <2>4. CASE o # "store"
    <3>1. k % 4 # 3 /\ o \in {"lock", "load", "unlock"}
      BY <2>1, <2>4, LoopOps, DemoSizes DEF Loops
    <3>2. Past(tpc', 1..Workers, 1) = Past(tpc, 1..Workers, 1)
      <4>1. \A u \in 1..Workers : tpc[u] \in Nat /\ (\/ tpc'[u] = tpc[u]
                                                     \/ tpc'[u] = tpc[u] + 1 /\ tpc[u] % 4 # 4 - 1)
        BY <1>0, <2>2, <3>1
      <4>2. QED
        BY <4>1, PastSame
    <3>3. mem' = mem
      BY <1>0, <1>4, <3>1, Leaves
    <3>4. CASE o = "load"
      <4>1. Demo!load(t)
        BY <1>0, <1>4, <3>4, Dispatch
      <4>2. reg' = [reg EXCEPT ![t] = mem]
        BY <4>1 DEF Demo!load
      <4>3. QED
        BY <1>0, <2>2, <3>2, <3>3, <4>2 DEF CountInv
    <3>5. CASE o # "load"
      <4>1. reg' = reg
        BY <1>0, <1>4, <3>1, <3>5, Leaves
      <4>2. (k + 1) % 4 # 3
        <5>1. k % 4 # 2
          BY <2>1, <3>5 DEF Loops
        <5>2. QED
          BY <2>1, <5>1
      <4>3. QED
        BY <2>2, <3>2, <3>3, <4>1, <4>2 DEF CountInv
    <3>6. QED
      BY <3>4, <3>5
  <2>5. QED
    BY <2>3, <2>4
<1>5. QED
  BY <1>1, <1>2, <1>3, <1>4, DemoSizes DEF Demo!Next, Threads

\* The count is right at the end.
LEMMA CountRight ==
    ASSUME Placed, demo = "mutex", StartInv, CountInv, tpc[0] > Len(code[0])
    PROVE  mem = Workers * Turns
<1>1. ASSUME NEW u \in 1..Workers
      PROVE  tpc[u] \in Nat /\ tpc[u] > 4 * Turns
  <2>1. Len(code[u]) = 4 * Turns
    BY MutexCode DEF Placed, Loops
  <2>2. tpc[u] > Len(code[u])
    BY AllEnded DEF StartAll, Started
  <2>3. QED
    BY <2>1, <2>2, DemoSizes DEF Placed, Coded, Threads
<1>2. IsFiniteSet(1..Workers) /\ Cardinality(1..Workers) = Workers
  BY DemoSizes, FS_Interval
<1>3. QED
  BY <1>1, <1>2, PastAll DEF CountInv
-----------------------------------------------------------------------------
(* mutex/demo4_lock_guard.cpp *)

\* The threads that are past their print, at the places f: an odd one prints last.
Printed(f) == {t \in 1..Workers : f[t] > IF t % 2 = 0 THEN 2 ELSE 3}
GuardInv == out = Cardinality(Printed(tpc))

\* A line of a thread is counted once.
LEMMA GuardKept ==
    ASSUME Placed, demo = "guard", StartInv, GuardInv, Demo!Next \/ UNCHANGED demovars
    PROVE  GuardInv'
<1>0. /\ tpc \in [Threads -> Nat] /\ Coded /\ 1..Workers \subseteq Threads /\ demo \in StartAll
      /\ 0 \in Threads
  BY DemoSizes DEF Placed, Coded, Threads, StartAll
<1>1. CASE UNCHANGED demovars
  BY <1>1 DEF GuardInv, demovars
<1>2. ASSUME NEW t \in Threads, Demo!spurious(t)
      PROVE  GuardInv'
  BY <1>2 DEF GuardInv, Demo!spurious
<1>3. CASE Demo!Thread(0)
  <2>1. out' = out /\ \A u \in 1..Workers : tpc'[u] = tpc[u] \/ (tpc[u] = 0 /\ tpc'[u] = 1)
    BY <1>0, <1>3, MainPlaces
  <2>2. Printed(tpc') = Printed(tpc)
    BY <1>0, <2>1 DEF Printed
  <2>3. QED
    BY <2>1, <2>2 DEF GuardInv
<1>4. ASSUME NEW t \in 1..Workers, Demo!Thread(t)
      PROVE  GuardInv'
  <2> DEFINE k == tpc[t]
             o == code[t][k].op
             p == IF t % 2 = 0 THEN 2 ELSE 3
  <2>1. /\ k \in 1..3 /\ t \in Threads
        /\ IF k = 1 THEN o = "lock" ELSE IF k = p THEN o = "print" ELSE o = "unlock"
    <3>1. Len(code[t]) = 3 /\ t \in Threads
      BY <1>0, GuardCode
    <3>2. k \in 1..3
      BY <1>4, <3>1, InCode
    <3>3. QED
      BY <1>0, <3>1, <3>2, GuardCode
  <2>2. o \in {"lock", "print", "unlock"} /\ p \in {2, 3}
    BY <2>1
  <2>3. tpc' = [tpc EXCEPT ![t] = @ + 1]
    BY <1>0, <1>4, <2>1, <2>2, Moves
  <2>4. tpc'[t] = k + 1 /\ \A u \in 1..Workers : u # t => tpc'[u] = tpc[u]
    BY <1>0, <2>1, <2>3
  <2>5. CASE k = p
    <3>1. Demo!print(t)
      BY <1>0, <1>4, <2>1, <2>5, Dispatch
    <3>2. out' = out + 1
      BY <3>1 DEF Demo!print
    <3>3. t \notin Printed(tpc) /\ Printed(tpc') = Printed(tpc) \cup {t}
      BY <2>1, <2>4, <2>5 DEF Printed
    <3>4. IsFiniteSet(Printed(tpc))
      <4>1. IsFiniteSet(1..Workers) /\ Printed(tpc) \in SUBSET (1..Workers)
        BY DemoSizes, FS_Interval DEF Printed
      <4>2. QED
        BY <4>1, FS_Subset
    <3>5. Cardinality(Printed(tpc')) = Cardinality(Printed(tpc)) + 1
      BY <3>3, <3>4, FS_AddElement
    <3>6. QED
      BY <3>2, <3>5 DEF GuardInv
  <2>6. CASE k # p
    <3>1. out' = out
      BY <1>0, <1>4, <2>1, <2>2, <2>6, Leaves
    <3>2. Printed(tpc') = Printed(tpc)
      BY <2>1, <2>4, <2>6 DEF Printed
    <3>3. QED
      BY <3>1, <3>2 DEF GuardInv
  <2>7. QED
    BY <2>5, <2>6
<1>5. QED
  BY <1>1, <1>2, <1>3, <1>4, DemoSizes DEF Demo!Next, Threads

\* At the end every thread has printed, and nobody has the mutex.
LEMMA GuardRight ==
    ASSUME Placed, demo = "guard", StartInv, MutexInv, GuardInv, tpc[0] > Len(code[0])
    PROVE  out = Workers /\ owner = Workers + 1
<1>1. ASSUME NEW t \in 1..Workers
      PROVE  tpc[t] \in Nat /\ tpc[t] > 3
  <2>1. Len(code[t]) = 3 /\ tpc[t] > Len(code[t])
    <3>1. Started(demo) = Workers /\ demo \in StartAll
      BY DEF StartAll, Started
    <3>2. tpc[t] > Len(code[t])
      BY <3>1, AllEnded
    <3>3. QED
      BY <3>2, GuardCode DEF Placed
  <2>2. tpc[t] \in Nat
    BY DemoSizes DEF Placed, Coded, Threads
  <2>3. QED
    BY <2>1, <2>2
<1>2. out = Workers
  <2>1. Printed(tpc) = 1..Workers
    BY <1>1 DEF Printed
  <2>2. Cardinality(1..Workers) = Workers
    BY DemoSizes, FS_Interval
  <2>3. QED
    BY <2>1, <2>2 DEF GuardInv
<1>3. \A t \in Threads : ~Inside(demo, t, tpc[t])
  BY <1>1, DemoSizes DEF Inside, Threads
<1>4. owner \notin Threads
  BY <1>3 DEF MutexInv
<1>5. QED
  BY <1>2, <1>4, DemoSizes DEF MutexInv, Threads
-----------------------------------------------------------------------------
(* concurrent_tools/demo1_call_once.cpp *)

\* One thread at a time is in the function, and one that got past it without throwing
\* found it done.
OnceInv ==
    /\ once \in {"unset", "running", "done"}
    /\ ran = IF once = "done" THEN 1 ELSE 0
    /\ \A t \in 1..Workers : tpc[t] = 2 => once = "running"
    /\ \A t, u \in 1..Workers : tpc[t] = 2 /\ tpc[u] = 2 => t = u
    /\ \A t \in 1..Workers : tpc[t] > 2 /\ t # Workers => once = "done"

\* Every step keeps it, the one that throws too.
LEMMA OnceKept ==
    ASSUME Placed, demo = "once", StartInv, OnceInv, Demo!Next \/ UNCHANGED demovars
    PROVE  OnceInv'
<1>0. /\ tpc \in [Threads -> Nat] /\ Coded /\ 1..Workers \subseteq Threads /\ demo \in StartAll
      /\ 0 \in Threads
  BY DemoSizes DEF Placed, Coded, Threads, StartAll
<1>1. CASE UNCHANGED demovars
  BY <1>1 DEF OnceInv, demovars
<1>2. ASSUME NEW t \in Threads, Demo!spurious(t)
      PROVE  OnceInv'
  BY <1>2 DEF OnceInv, Demo!spurious, Demo!syncvars
<1>3. CASE Demo!Thread(0)
  <2>1. /\ UNCHANGED <<once, ran>>
        /\ \A u \in 1..Workers : tpc'[u] = tpc[u] \/ (tpc[u] = 0 /\ tpc'[u] = 1)
    BY <1>0, <1>3, MainPlaces
  <2>2. QED
    BY <1>0, <2>1 DEF OnceInv
<1>4. ASSUME NEW t \in 1..Workers, Demo!Thread(t)
      PROVE  OnceInv'
  <2>1. /\ tpc[t] \in 1..2 /\ t \in Threads
        /\ tpc[t] = 1 => code[t][tpc[t]].op = "call_once"
        /\ tpc[t] = 2 => code[t][tpc[t]].op = IF t = Workers THEN "throw" ELSE "return"
    <3>1. Len(code[t]) = 2 /\ t \in Threads
      BY <1>0, OnceCode
    <3>2. tpc[t] \in 1..2
      BY <1>4, <3>1, InCode
    <3>3. QED
      BY <1>0, <3>1, <3>2, OnceCode
  <2>2. CASE tpc[t] = 1
    <3>1. Demo!call_once(t)
      BY <1>0, <1>4, <2>1, <2>2, Dispatch
    <3>2. \/ once = "unset" /\ once' = "running" /\ ran' = ran /\ tpc' = [tpc EXCEPT ![t] = 2]
          \/ once = "done" /\ once' = "done" /\ ran' = ran /\ tpc' = [tpc EXCEPT ![t] = 3]
      BY <2>2, <3>1 DEF Demo!call_once, Demo!Step
    <3>3. QED
      BY <1>0, <2>2, <3>2 DEF OnceInv
  <2>3. CASE tpc[t] = 2
    <3>1. Demo!once_ends(t)
      BY <1>0, <1>4, <2>1, <2>3, Dispatch
    <3>2. /\ tpc' = [tpc EXCEPT ![t] = 3]
          /\ IF t = Workers THEN once' = "unset" /\ ran' = ran
             ELSE once' = "done" /\ ran' = ran + 1
      BY <2>1, <2>3, <3>1 DEF Demo!once_ends, Demo!Step, Demo!At
    <3>3. once = "running"
      BY <2>3 DEF OnceInv
    <3>4. \A u \in 1..Workers : tpc'[u] # 2
      BY <1>0, <2>3, <3>2 DEF OnceInv
    <3>5. QED
      BY <1>0, <3>2, <3>3, <3>4 DEF OnceInv
  <2>4. QED
    BY <2>1, <2>2, <2>3
<1>5. QED
  BY <1>1, <1>2, <1>3, <1>4, DemoSizes DEF Demo!Next, Threads

\* One call has returned from the function at the end.
LEMMA OnceRight ==
    ASSUME Placed, demo = "once", StartInv, OnceInv, tpc[0] > Len(code[0])
    PROVE  ran = 1
<1>1. Started(demo) = Workers /\ demo \in StartAll /\ 1 \in 1..Workers /\ 1 # Workers
  BY DemoSizes DEF StartAll, Started
<1>2. tpc[1] > Len(code[1]) /\ Len(code[1]) = 2
  BY <1>1, AllEnded, OnceCode DEF Placed
<1>3. once = "done"
  BY <1>1, <1>2 DEF OnceInv
<1>4. QED
  BY <1>3 DEF OnceInv
-----------------------------------------------------------------------------
(* atomic/demo1_atomic_quickstart.cpp *)

\* The value is the one that was set, once the first thread is past its loop.
AtomicInv ==
    /\ mem \in {0, 10} /\ DOMAIN reg = Threads
    /\ tpc[1] > 1 => reg[1] = 10

\* Every step keeps it.
LEMMA AtomicKept ==
    ASSUME Placed, demo = "atomic", StartInv, AtomicInv, Demo!Next \/ UNCHANGED demovars
    PROVE  AtomicInv'
<1>0. /\ tpc \in [Threads -> Nat] /\ Coded /\ 1..Workers \subseteq Threads /\ demo \in StartAll
      /\ 0 \in Threads /\ 1 \in Threads /\ 1 \in 1..Workers
  BY DemoSizes DEF Placed, Coded, Threads, StartAll
<1>1. CASE UNCHANGED demovars
  BY <1>1 DEF AtomicInv, demovars
<1>2. ASSUME NEW t \in Threads, Demo!spurious(t)
      PROVE  AtomicInv'
  BY <1>2 DEF AtomicInv, Demo!spurious
<1>3. CASE Demo!Thread(0)
  <2>1. UNCHANGED <<mem, reg>> /\ (tpc'[1] = tpc[1] \/ (tpc[1] = 0 /\ tpc'[1] = 1))
    BY <1>0, <1>3, MainPlaces
  <2>2. QED
    BY <1>0, <2>1 DEF AtomicInv
<1>4. CASE Demo!Thread(1)
  <2>1. tpc[1] \in 1..2
    BY <1>0, <1>4, InCode, AtomicCode
  <2>2. CASE tpc[1] = 1
    <3>1. Demo!load(1) /\ code[1][tpc[1]].op = "load_until_set"
      BY <1>0, <1>4, <2>2, Dispatch, AtomicCode
    <3>2. mem # 0 /\ mem' = mem /\ reg' = [reg EXCEPT ![1] = mem]
      BY <3>1 DEF Demo!load, Demo!At
    <3>3. QED
      BY <1>0, <3>2 DEF AtomicInv
  <2>3. CASE tpc[1] = 2
    <3>1. code[1][tpc[1]].op = "print"
      BY <1>0, <2>3, AtomicCode
    <3>2. UNCHANGED <<mem, reg>>
      BY <1>0, <1>4, <3>1, Leaves
    <3>3. QED
      BY <2>3, <3>2 DEF AtomicInv
  <2>4. QED
    BY <2>1, <2>2, <2>3
<1>5. ASSUME NEW t \in 2..Workers, Demo!Thread(t)
      PROVE  AtomicInv'
  <2>1. t \in Threads /\ t # 1
    BY <1>0, DemoSizes DEF Threads
  <2>2. tpc[t] = 1
    <3>1. Len(code[t]) = 1
      BY <1>0, AtomicCode
    <3>2. tpc[t] \in 1..Len(code[t])
      BY <1>5, <2>1, InCode
    <3>3. QED
      BY <3>1, <3>2
  <2>3. code[t][tpc[t]].op = "store_atomic" /\ code[t][tpc[t]].arg = 10
    BY <1>0, <2>2, AtomicCode
  <2>4. Demo!store(t)
    BY <1>0, <1>5, <2>1, <2>3, Dispatch
  <2>5. mem' = 10 /\ reg' = reg /\ tpc' = [tpc EXCEPT ![t] = @ + 1]
    BY <2>3, <2>4 DEF Demo!store, Demo!At, Demo!Arg, Demo!Step
  <2>6. QED
    BY <1>0, <2>1, <2>5 DEF AtomicInv
<1>6. QED
  BY <1>1, <1>2, <1>3, <1>4, <1>5, DemoSizes DEF Demo!Next, Threads

\* The first thread has read it at the end.
LEMMA AtomicRight ==
    ASSUME Placed, demo = "atomic", StartInv, AtomicInv, tpc[0] > Len(code[0])
    PROVE  reg[1] = 10
<1>1. Started(demo) = 2 /\ demo \in StartAll /\ 1 \in 1..2
  BY DEF StartAll, Started
<1>2. tpc[1] > Len(code[1]) /\ Len(code[1]) = 2 /\ tpc[1] \in Nat
  <2>1. tpc[1] > Len(code[1])
    BY <1>1, AllEnded
  <2>2. Len(code[1]) = 2
    BY AtomicCode DEF Placed
  <2>3. tpc[1] \in Nat
    BY DemoSizes DEF Placed, Coded, Threads
  <2>4. QED
    BY <2>1, <2>2, <2>3
<1>3. QED
  BY <1>2 DEF AtomicInv
-----------------------------------------------------------------------------
(* mutex/demo2_recursive_mutex.cpp *)

\* main() runs alone and holds the mutex as often as it has locked it.
RecursiveInv ==
    /\ tpc[0] \in 1..9 /\ \A t \in 1..Workers : tpc[t] = 0
    /\ mem = 0 /\ asleep = {}
    /\ depth = IF tpc[0] \in {1, 9} THEN 0 ELSE IF tpc[0] \in {2, 5, 8} THEN 1 ELSE 2
    /\ owner = IF depth = 0 THEN Workers + 1 ELSE 0

\* Every step keeps it.
LEMMA RecursiveKept ==
    ASSUME Placed, demo = "recursive", RecursiveInv, Demo!Next \/ UNCHANGED demovars
    PROVE  RecursiveInv'
<1>0. /\ tpc \in [Threads -> Nat] /\ Coded /\ 1..Workers \subseteq Threads /\ 0 \in Threads
      /\ Workers + 1 # 0
  BY DemoSizes DEF Placed, Coded, Threads
<1>1. CASE UNCHANGED demovars
  BY <1>1 DEF RecursiveInv, demovars
<1>2. ASSUME NEW t \in Threads, Demo!spurious(t)
      PROVE  RecursiveInv'
  BY <1>2 DEF RecursiveInv, Demo!spurious
<1>3. ASSUME NEW t \in 1..Workers, Demo!Thread(t)
      PROVE  FALSE
  <2>1. tpc[t] \in 1..Len(code[t])
    BY <1>0, <1>3, InCode
  <2>2. QED
    BY <1>0, <2>1 DEF RecursiveInv
<1>4. CASE Demo!Thread(0)
  <2>1. tpc[0] \in 1..8
    BY <1>0, <1>4, InCode, RecursiveCode
  <2>2. CASE tpc[0] \in {1, 2, 5}
    <3>1. code[0][tpc[0]].op = "lock"
      BY <1>0, <2>2, RecursiveCode
    <3>2. Demo!lock(0) /\ UNCHANGED <<mem, asleep>>
      BY <1>0, <1>4, <3>1, Dispatch, Leaves
    <3>3. owner' = 0 /\ depth' = depth + 1 /\ tpc' = [tpc EXCEPT ![0] = @ + 1]
      BY <3>2 DEF Demo!lock, Demo!Step
    <3>4. tpc'[0] = tpc[0] + 1 /\ \A u \in 1..Workers : tpc'[u] = tpc[u]
      BY <1>0, <3>3, DemoSizes
    <3>5. QED
      BY <2>2, <3>2, <3>3, <3>4 DEF RecursiveInv
  <2>3. CASE tpc[0] \in {4, 7, 8}
    <3>1. code[0][tpc[0]].op = "unlock"
      BY <1>0, <2>3, RecursiveCode
    <3>2. Demo!unlock(0) /\ UNCHANGED <<mem, asleep>>
      BY <1>0, <1>4, <3>1, Dispatch, Leaves
    <3>3. /\ depth' = depth - 1 /\ owner' = IF depth' = 0 THEN Workers + 1 ELSE owner
          /\ tpc' = [tpc EXCEPT ![0] = @ + 1]
      BY <3>2 DEF Demo!unlock, Demo!Step, Demo!Free
    <3>4. tpc'[0] = tpc[0] + 1 /\ \A u \in 1..Workers : tpc'[u] = tpc[u]
      BY <1>0, <3>3, DemoSizes
    <3>5. QED
      BY <2>3, <3>2, <3>3, <3>4 DEF RecursiveInv
  <2>4. CASE tpc[0] \in {3, 6}
    <3>1. \/ code[0][tpc[0]].op = "mul" /\ code[0][tpc[0]].arg = 32
          \/ code[0][tpc[0]].op = "div" /\ code[0][tpc[0]].arg = 23
      BY <1>0, <2>4, RecursiveCode
    <3>2. Demo!store(0) /\ UNCHANGED <<owner, depth, asleep>>
      BY <1>0, <1>4, <3>1, Dispatch, Leaves
    <3>3. tpc' = [tpc EXCEPT ![0] = @ + 1] /\ (mem' = 0 * 32 \/ mem' = 0 \div 23)
      BY <3>1, <3>2 DEF Demo!store, Demo!Step, Demo!At, Demo!Arg, RecursiveInv
    <3>4. tpc'[0] = tpc[0] + 1 /\ \A u \in 1..Workers : tpc'[u] = tpc[u]
      BY <1>0, <3>3, DemoSizes
    <3>5. QED
      BY <2>4, <3>2, <3>3, <3>4 DEF RecursiveInv
  <2>5. QED
    BY <2>1, <2>2, <2>3, <2>4
<1>5. QED
  BY <1>1, <1>2, <1>3, <1>4, DemoSizes DEF Demo!Next, Threads
-----------------------------------------------------------------------------
(* future/ *)

\* Only threads 1 and 2 are there, and main() is past a get() when its promise has the
\* value.
PromiseInv ==
    /\ ready \subseteq {1, 2} /\ \A t \in 3..Workers : tpc[t] = 0
    /\ tpc[0] > 2 => 1 \in ready
    /\ tpc[0] > (IF demo = "promise" THEN 5 ELSE 4) => 2 \in ready

\* A step of main() of these demos, by the instruction it is at.
LEMMA PromiseMain ==
    ASSUME Placed, demo \in {"promise", "future"}, Demo!Thread(0)
    PROVE  /\ tpc[0] \in 1..6 /\ (demo = "future" => tpc[0] \in 1..4)
           /\ tpc'[0] = tpc[0] + 1 /\ \A u \in 3..Workers : tpc'[u] = tpc[u]
           /\ ready \subseteq ready' /\ ready' \subseteq ready \cup {1, 2}
           /\ tpc[0] = 2 => 1 \in ready'
           /\ tpc[0] = (IF demo = "promise" THEN 5 ELSE 4) => 2 \in ready'
<1> DEFINE k == tpc[0]
           o == code[0][k].op
           a == code[0][k].arg
<1>1. Coded /\ 0 \in Threads /\ tpc \in [Threads -> Nat] /\ 3..Workers \subseteq Threads
  BY DemoSizes DEF Placed, Coded, Threads
<1>2. k \in 1..Len(code[0])
  BY <1>1, InCode
<1>3. k \in 1..6 /\ (demo = "future" => k \in 1..4)
  <2>1. Len(code[0]) = IF demo = "promise" THEN 6 ELSE 4
    BY <1>1, PromiseCode
  <2>2. QED
    BY <1>2, <2>1
<1>4. /\ o \in {"spawn", "async", "get", "join"} /\ a \in {1, 2}
      /\ k = 2 => o = "get" /\ a = 1
      /\ k = (IF demo = "promise" THEN 5 ELSE 4) => o = "get" /\ a = 2
  <2>1. CASE demo = "promise"
    BY <1>1, <1>3, <2>1, PromiseCode
  <2>2. CASE demo = "future"
    BY <1>1, <1>3, <2>2, PromiseCode
  <2>3. QED
    BY <2>1, <2>2
<1>5. \/ tpc' = [tpc EXCEPT ![0] = @ + 1, ![a] = 1]
      \/ tpc' = [tpc EXCEPT ![0] = @ + 1]
  BY <1>1, <1>4, Moves
<1>6. tpc'[0] = tpc[0] + 1 /\ \A u \in 3..Workers : tpc'[u] = tpc[u]
  <2>1. \A u \in 3..Workers : u \in Threads /\ u # 0 /\ u # a
    BY <1>1, <1>4, DemoSizes
  <2>2. a \in Threads /\ a # 0
    BY <1>4, DemoSizes DEF Threads
  <2>3. QED
    BY <1>1, <1>5, <2>1, <2>2
<1>7. /\ ready \subseteq ready' /\ ready' \subseteq ready \cup {a}
      /\ o = "get" => a \in ready'
  <2>1. CASE o = "get"
    <3>1. Demo!get(0) /\ Demo!Arg(0) = a
      BY <1>1, <2>1, Dispatch DEF Demo!Arg
    <3>2. QED
      BY <3>1 DEF Demo!get
  <2>2. CASE o # "get"
    BY <1>1, <1>4, <2>2, Leaves
  <2>3. QED
    BY <2>1, <2>2
<1>8. QED
  BY <1>3, <1>4, <1>6, <1>7

\* Every step keeps it.
LEMMA PromiseKept ==
    ASSUME Placed, demo \in {"promise", "future"}, PromiseInv, Demo!Next \/ UNCHANGED demovars
    PROVE  PromiseInv'
<1>0. tpc \in [Threads -> Nat] /\ Coded /\ 1..Workers \subseteq Threads /\ 0 \in Threads
  BY DemoSizes DEF Placed, Coded, Threads
<1>1. CASE UNCHANGED demovars
  BY <1>1 DEF PromiseInv, demovars
<1>2. ASSUME NEW t \in Threads, Demo!spurious(t)
      PROVE  PromiseInv'
  BY <1>2 DEF PromiseInv, Demo!spurious, Demo!syncvars
<1>3. CASE Demo!Thread(0)
  <2>1. demo' = demo
    BY <1>0, <1>3, Dispatch
  <2>2. /\ tpc[0] \in 1..6 /\ tpc'[0] = tpc[0] + 1 /\ \A u \in 3..Workers : tpc'[u] = tpc[u]
        /\ ready \subseteq ready' /\ ready' \subseteq ready \cup {1, 2}
        /\ tpc[0] = 2 => 1 \in ready'
        /\ tpc[0] = (IF demo = "promise" THEN 5 ELSE 4) => 2 \in ready'
    BY <1>3, PromiseMain
  <2>3. tpc[0] > 1 => 1 \in ready'
    BY <2>2 DEF PromiseInv
  <2>4. tpc[0] + 1 > (IF demo = "promise" THEN 5 ELSE 4) => 2 \in ready'
    BY <2>2 DEF PromiseInv
  <2>5. QED
    BY <2>1, <2>2, <2>3, <2>4 DEF PromiseInv
<1>4. ASSUME NEW t \in 1..Workers, Demo!Thread(t)
      PROVE  PromiseInv'
  <2>1. Len(code[t]) = 1 /\ code[t][1].op = "set_value"
    BY <1>0, PromiseCode
  <2>2. tpc[t] \in 1..Len(code[t]) /\ t \in Threads /\ demo' = demo
    BY <1>0, <1>4, InCode, Dispatch
  <2>3. tpc[t] = 1 /\ code[t][tpc[t]].op = "set_value"
    BY <2>1, <2>2
  <2>4. t \in {1, 2}
    BY <2>3, DemoSizes DEF PromiseInv
  <2>5. Demo!set_value(t)
    BY <1>0, <1>4, <2>2, <2>3, Dispatch
  <2>6. ready' = ready \cup {t} /\ tpc' = [tpc EXCEPT ![t] = @ + 1]
    BY <2>5 DEF Demo!set_value, Demo!Step
  <2>7. tpc'[0] = tpc[0] /\ \A u \in 3..Workers : tpc'[u] = tpc[u]
    <3>1. \A u \in 3..Workers : u \in Threads /\ u # t
      BY <2>4, DemoSizes DEF Threads
    <3>2. QED
      BY <1>0, <2>2, <2>4, <2>6, <3>1
  <2>8. QED
    BY <2>2, <2>4, <2>6, <2>7 DEF PromiseInv
<1>5. QED
  BY <1>1, <1>2, <1>3, <1>4, DemoSizes DEF Demo!Next, Threads

\* Both values are there at the end.
LEMMA PromiseRight ==
    ASSUME Placed, demo \in {"promise", "future"}, PromiseInv, tpc[0] > Len(code[0])
    PROVE  ready = {1, 2}
<1>1. Len(code[0]) = IF demo = "promise" THEN 6 ELSE 4
  <2>1. CASE demo = "promise"
    BY <2>1, PromiseCode DEF Placed
  <2>2. CASE demo = "future"
    BY <2>2, PromiseCode DEF Placed
  <2>3. QED
    BY <2>1, <2>2
<1>2. tpc[0] \in Nat
  BY DemoSizes DEF Placed, Coded, Threads
<1>3. 1 \in ready
  <2>1. tpc[0] > 2
    BY <1>1, <1>2
  <2>2. QED
    BY <2>1 DEF PromiseInv
<1>4. 2 \in ready
  <2>1. tpc[0] > (IF demo = "promise" THEN 5 ELSE 4)
    BY <1>1, <1>2
  <2>2. QED
    BY <2>1 DEF PromiseInv
<1>5. QED
  BY <1>3, <1>4 DEF PromiseInv
-----------------------------------------------------------------------------
(* thread/ *)

\* Which thread has the reference, and where main() starts it, waits for it, and reads
\* what it left.
Lent == IF demo = "thread1" THEN 1 ELSE 2
Lends == IF demo = "thread1" THEN 1 ELSE 5

\* The thread runs between being started and being joined, and adds ten to the variable;
\* main() reads it afterwards.
LentInv ==
    /\ DOMAIN reg = Threads /\ tpc[0] >= 1 /\ tpc[Lent] \in 0..3
    /\ tpc[0] <= Lends => tpc[Lent] = 0
    /\ tpc[0] > Lends + 1 => tpc[Lent] = 3
    /\ tpc[Lent] <= 2 => mem = 10
    /\ tpc[Lent] = 2 => reg[Lent] = 10
    /\ tpc[Lent] = 3 => mem = 20
    /\ tpc[0] > Lends + 2 => reg[0] = 20
    /\ demo = "thread1" => \A t \in 2..Workers : tpc[t] = 0

\* The code of the two demos, as far as the variable goes.
LEMMA LentBoth ==
    ASSUME Coded, demo \in {"thread1", "thread2"}
    PROVE  /\ Lent \in {1, 2} /\ Lends \in {1, 5} /\ Len(code[0]) \in Nat
           /\ Len(code[0]) >= Lends + 2 /\ Len(code[Lent]) = 2
           /\ code[0][Lends].op = "spawn" /\ code[0][Lends + 1].op = "join"
           /\ code[0][Lends].arg = Lent /\ code[0][Lends + 1].arg = Lent
           /\ code[0][Lends + 2].op = "load"
           /\ code[Lent][1].op = "load"
           /\ code[Lent][2].op = "store" /\ code[Lent][2].arg = 10
           /\ \A k \in 1..Len(code[0]) :
                 /\ code[0][k].op \in {"spawn", "join", "load", "nop"}
                 /\ code[0][k].op = "spawn" => code[0][k].arg \in 1..Workers
                 /\ demo = "thread1" /\ code[0][k].op = "spawn" => code[0][k].arg = 1
                 /\ k # Lends /\ code[0][k].op = "spawn" => code[0][k].arg # Lent
                 /\ k # Lends + 2 => code[0][k].op # "load"
           /\ demo = "thread2" => \A t \in (1..Workers) \ {Lent} : \A k \in 1..Len(code[t]) :
                                     code[t][k].op \in {"print", "nop"}
<1>1. CASE demo = "thread1"
  <2>1. /\ Lent = 1 /\ Lends = 1 /\ Len(code[0]) = 3 /\ Len(code[1]) = 2
        /\ code[1][1].op = "load" /\ code[1][2].op = "store" /\ code[1][2].arg = 10
    BY <1>1, LentCode, DemoSizes DEF Lent, Lends
  <2>2. /\ code[0][1].op = "spawn" /\ code[0][2].op = "join" /\ code[0][3].op = "load"
        /\ code[0][1].arg = 1 /\ code[0][2].arg = 1
    BY <1>1, LentCode
  <2>3. QED
    BY <1>1, <2>1, <2>2, DemoSizes
<1>2. CASE demo = "thread2"
  <2>1. /\ Lent = 2 /\ Lends = 5 /\ Len(code[0]) = 13 /\ Len(code[2]) = 2
        /\ code[2][1].op = "load" /\ code[2][2].op = "store" /\ code[2][2].arg = 10
        /\ code[0][5].op = "spawn" /\ code[0][6].op = "join" /\ code[0][7].op = "load"
        /\ code[0][5].arg = 2 /\ code[0][6].arg = 2
    BY <1>2, BasicCode, DemoSizes DEF Lent, Lends
  <2>2. ASSUME NEW k \in 1..13
        PROVE  /\ code[0][k].op \in {"spawn", "join", "load", "nop"}
               /\ code[0][k].op = "spawn" => code[0][k].arg \in 1..4
               /\ k # 5 /\ code[0][k].op = "spawn" => code[0][k].arg # 2
               /\ k # 7 => code[0][k].op # "load"
    <3>1. \/ k \in {1, 3, 12} \/ k \in {2, 4, 6, 9, 13}
          \/ k = 5 \/ k = 7 \/ k = 8 \/ k = 10 \/ k = 11
      OBVIOUS
    <3>2. CASE k \in {1, 3, 12}
      BY <1>2, <3>2, BasicCode
    <3>3. CASE k \in {2, 4, 6, 9, 13}
      BY <1>2, <3>3, BasicCode
    <3>4. CASE k = 5 \/ k = 7 \/ k = 8
      BY <1>2, <3>4, BasicCode
    <3>5. CASE k = 10 \/ k = 11
      BY <1>2, <3>5, BasicCode
    <3>6. QED
      BY <3>1, <3>2, <3>3, <3>4, <3>5, Zenon
  <2>3. \A t \in (1..Workers) \ {2} : \A k \in 1..Len(code[t]) : code[t][k].op \in {"print", "nop"}
    BY <1>2, BasicCode
  <2>4. 5 + 1 = 6 /\ 5 + 2 = 7 /\ 1..4 \subseteq 1..Workers
    BY DemoSizes
  <2>5. \A k \in 1..13 : code[0][k].op = "spawn" => code[0][k].arg \in 1..Workers
    BY <2>2, <2>4
  <2>6. /\ code[0][Lends].op = "spawn" /\ code[0][Lends + 1].op = "join"
        /\ code[0][Lends].arg = Lent /\ code[0][Lends + 1].arg = Lent
        /\ code[0][Lends + 2].op = "load"
    BY <2>1, <2>4
  <2>7. /\ Lent \in {1, 2} /\ Lends \in {1, 5} /\ Len(code[0]) \in Nat
        /\ Len(code[0]) >= Lends + 2 /\ Len(code[Lent]) = 2
        /\ code[Lent][1].op = "load" /\ code[Lent][2].op = "store" /\ code[Lent][2].arg = 10
    BY <2>1
  <2>8. ASSUME NEW k \in 1..Len(code[0])
        PROVE  /\ code[0][k].op \in {"spawn", "join", "load", "nop"}
               /\ code[0][k].op = "spawn" => code[0][k].arg \in 1..Workers
               /\ demo = "thread1" /\ code[0][k].op = "spawn" => code[0][k].arg = 1
               /\ k # Lends /\ code[0][k].op = "spawn" => code[0][k].arg # Lent
               /\ k # Lends + 2 => code[0][k].op # "load"
    <3>1. k \in 1..13 /\ Lends = 5 /\ Lends + 2 = 7 /\ Lent = 2 /\ demo # "thread1"
      BY <1>2, <2>1, <2>8
    <3>2. QED
      BY <2>2, <2>5, <3>1
  <2>9. \A t \in (1..Workers) \ {Lent} : \A k \in 1..Len(code[t]) : code[t][k].op \in {"print", "nop"}
    BY <2>1, <2>3
  <2>10. QED
    BY <2>6, <2>7, <2>8, <2>9
<1>3. QED
  BY <1>1, <1>2

\* A step of main().
LEMMA LentMain ==
    ASSUME Placed, demo \in {"thread1", "thread2"}, Demo!Thread(0), LentInv
    PROVE  LentInv'
<1> DEFINE k == tpc[0]
           o == code[0][k].op
           a == code[0][k].arg
<1>1. /\ Coded /\ 0 \in Threads /\ tpc \in [Threads -> Nat] /\ 1..Workers \subseteq Threads
      /\ Lent \in 1..Workers /\ Lends \in Nat /\ Lent # 0
  <2>1. Coded /\ tpc \in [Threads -> Nat]
    BY DEF Placed, Coded
  <2>2. Lent \in {1, 2} /\ Lends \in {1, 5}
    BY <2>1, LentBoth
  <2>3. 0 \in Threads /\ 1..Workers \subseteq Threads /\ {1, 2} \subseteq 1..Workers
    BY DemoSizes DEF Threads
  <2> HIDE DEF Lent, Lends
  <2>4. QED
    BY <2>1, <2>2, <2>3
<1>2. k \in 1..Len(code[0]) /\ demo' = demo /\ code' = code /\ Lent' = Lent /\ Lends' = Lends
  <2>1. k \in 1..Len(code[0]) /\ demo' = demo /\ code' = code
    BY <1>1, InCode, Dispatch
  <2>2. QED
    BY <2>1 DEF Lent, Lends
<1>3. /\ o \in {"spawn", "join", "load", "nop"}
      /\ o = "spawn" => a \in 1..Workers
      /\ demo = "thread1" /\ o = "spawn" => a = 1
      /\ k # Lends /\ o = "spawn" => a # Lent
      /\ k # Lends + 2 => o # "load"
  BY <1>1, <1>2, LentBoth
<1>4. mem' = mem
  BY <1>1, <1>3, Leaves
<1>5. CASE o = "spawn"
  <2>1. tpc' = [tpc EXCEPT ![0] = @ + 1, ![a] = 1] /\ reg' = reg
    BY <1>1, <1>5, Moves, Leaves
  <2>2. tpc'[0] = k + 1 /\ tpc'[a] = 1 /\ \A u \in 1..Workers : u # a => tpc'[u] = tpc[u]
    <3>1. a \in 1..Workers /\ a \in Threads /\ a # 0
      BY <1>1, <1>3, <1>5, DemoSizes
    <3>2. QED
      BY <1>1, <2>1, <3>1, DemoSizes
  <2>3. CASE k = Lends
    <3>1. a = Lent
      BY <1>1, <2>3, LentBoth
    <3>2. tpc'[Lent] = 1 /\ tpc[Lent] = 0
      <4>1. tpc[0] <= Lends
        BY <1>1, <2>3
      <4>2. QED
        BY <2>2, <3>1, <4>1 DEF LentInv
    <3>3. demo = "thread1" => \A u \in 2..Workers : tpc'[u] = tpc[u]
      BY <1>3, <1>5, <2>2, DemoSizes
    <3>4. Lent' = Lent /\ Lends' = Lends /\ mem' = mem /\ reg' = reg /\ demo' = demo
      BY <1>2, <1>4, <2>1
    <3>5. tpc'[0] >= 1 /\ tpc'[0] > Lends /\ ~(tpc'[0] > Lends + 1) /\ ~(tpc'[0] > Lends + 2)
      BY <1>1, <2>2, <2>3
    <3>6. ~(tpc'[0] <= Lends) /\ mem = 10
      BY <1>1, <2>2, <2>3, <3>2 DEF LentInv
    <3>7. QED
      BY <3>2, <3>3, <3>4, <3>5, <3>6 DEF LentInv
  <2>4. CASE k # Lends
    <3>1. tpc'[Lent] = tpc[Lent]
      BY <1>1, <1>3, <1>5, <2>2, <2>4
    <3>2. k # Lends + 1 /\ k # Lends + 2
      <4>1. code[0][Lends + 1].op = "join" /\ code[0][Lends + 2].op = "load"
        BY <1>1, LentBoth
      <4>2. QED
        BY <1>5, <4>1
    <3>3. demo = "thread1" => \A u \in 2..Workers : tpc'[u] = tpc[u]
      BY <1>3, <1>5, <2>2, DemoSizes
    <3>4. k + 1 <= Lends => k <= Lends
      BY <1>1
    <3>5. (k + 1 > Lends + 1 => k > Lends + 1) /\ (k + 1 > Lends + 2 => k > Lends + 2)
      BY <1>1, <2>4, <3>2
    <3>6. QED
      <4>1. Lent' = Lent /\ Lends' = Lends /\ mem' = mem /\ reg' = reg /\ demo' = demo
        BY <1>2, <1>4, <2>1
      <4>2. tpc'[0] >= 1
        BY <1>1, <2>2
      <4>3. QED
        BY <2>2, <3>1, <3>3, <3>4, <3>5, <4>1, <4>2 DEF LentInv
  <2>5. QED
    BY <2>3, <2>4
<1>6. CASE o # "spawn"
  <2>1. tpc' = [tpc EXCEPT ![0] = @ + 1]
    BY <1>1, <1>3, <1>6, Moves
  <2>2. tpc'[0] = k + 1 /\ \A u \in 1..Workers : tpc'[u] = tpc[u]
    BY <1>1, <2>1, DemoSizes
  <2>3. k # Lends
    <3>1. code[0][Lends].op = "spawn"
      BY <1>1, LentBoth
    <3>2. QED
      BY <1>6, <3>1
  <2>4. k = Lends + 1 => tpc[Lent] = 3
    <3>1. SUFFICES ASSUME k = Lends + 1
                   PROVE  tpc[Lent] > 2
      <4>1. tpc[Lent] \in 0..3
        BY DEF LentInv
      <4>2. QED
        BY <3>1, <4>1
    <3>2. o = "join" /\ a = Lent /\ Len(code[Lent]) = 2
      BY <1>1, <3>1, LentBoth
    <3>3. Demo!join(0) /\ Demo!Arg(0) = Lent
      BY <1>1, <3>2, Dispatch DEF Demo!Arg
    <3>4. Demo!Ended(Lent)
      BY <3>3, Zenon DEF Demo!join
    <3>5. QED
      BY <3>2, <3>4 DEF Demo!Ended
  <2>5. /\ DOMAIN reg' = Threads /\ reg'[Lent] = reg[Lent]
        /\ k # Lends + 2 => reg'[0] = reg[0]
        /\ k = Lends + 2 => reg'[0] = mem
    <3>1. CASE k # Lends + 2
      <4>1. reg' = reg
        BY <1>1, <1>3, <3>1, Leaves
      <4>2. QED
        BY <3>1, <4>1 DEF LentInv
    <3>2. CASE k = Lends + 2
      <4>1. o = "load"
        BY <1>1, <3>2, LentBoth
      <4>2. Demo!load(0)
        BY <1>1, <4>1, Dispatch
      <4>3. reg' = [reg EXCEPT ![0] = mem]
        BY <4>2 DEF Demo!load
      <4>4. QED
        BY <1>1, <3>2, <4>3 DEF LentInv
    <3>3. QED
      BY <3>1, <3>2
  <2>6. tpc'[Lent] = tpc[Lent] /\ \A u \in 2..Workers : tpc'[u] = tpc[u]
    BY <1>1, <2>2, DemoSizes
  <2>7. QED
    <3>1. Lent' = Lent /\ Lends' = Lends /\ mem' = mem /\ demo' = demo
      BY <1>2, <1>4
    <3>2. k \in Nat /\ Lends \in Nat /\ k >= 1
      BY <1>1 DEF LentInv
    <3>3. DOMAIN reg' = Threads /\ tpc'[0] >= 1 /\ tpc'[Lent] \in 0..3
      BY <2>2, <2>5, <2>6, <3>2 DEF LentInv
    <3>4. tpc'[0] <= Lends => tpc'[Lent] = 0
      BY <2>2, <2>6, <3>2 DEF LentInv
    <3>5. tpc'[0] > Lends + 1 => tpc'[Lent] = 3
      <4>1. tpc'[0] > Lends + 1 => k > Lends + 1 \/ k = Lends + 1
        BY <2>2, <2>3, <3>2
      <4>2. QED
        BY <2>4, <2>6, <4>1 DEF LentInv
    <3>6. /\ tpc'[Lent] <= 2 => mem = 10
          /\ tpc'[Lent] = 2 => reg'[Lent] = 10
          /\ tpc'[Lent] = 3 => mem = 20
      BY <2>5, <2>6 DEF LentInv
    <3>7. tpc'[0] > Lends + 2 => reg'[0] = 20
      <4>1. CASE k = Lends + 2
        <5>1. tpc[Lent] = 3
          BY <3>2, <4>1 DEF LentInv
        <5>2. QED
          BY <2>5, <4>1, <5>1 DEF LentInv
      <4>2. CASE k # Lends + 2
        <5>1. tpc'[0] > Lends + 2 => k > Lends + 2
          BY <2>2, <3>2, <4>2
        <5>2. QED
          BY <2>5, <4>2, <5>1 DEF LentInv
      <4>3. QED
        BY <4>1, <4>2
    <3>8. demo = "thread1" => \A u \in 2..Workers : tpc'[u] = 0
      BY <2>6 DEF LentInv
    <3>9. QED
      BY <3>1, <3>3, <3>4, <3>5, <3>6, <3>7, <3>8 DEF LentInv
<1>7. QED
  BY <1>5, <1>6

\* Every step keeps it.
LEMMA LentKept ==
    ASSUME Placed, demo \in {"thread1", "thread2"}, LentInv, Demo!Next \/ UNCHANGED demovars
    PROVE  LentInv'
<1>0. /\ tpc \in [Threads -> Nat] /\ Coded /\ 1..Workers \subseteq Threads /\ 0 \in Threads
      /\ Lent \in 1..Workers /\ Lends \in Nat /\ Lent # 0
  <2>1. Coded /\ Lent \in {1, 2} /\ Lends \in {1, 5}
    BY LentBoth DEF Placed
  <2>2. QED
    BY <2>1, DemoSizes DEF Placed, Coded, Threads
<1>1. CASE UNCHANGED demovars
  BY <1>1 DEF LentInv, demovars, Lent, Lends
<1>2. ASSUME NEW t \in Threads, Demo!spurious(t)
      PROVE  LentInv'
  BY <1>2 DEF LentInv, Demo!spurious, Lent, Lends
<1>3. ASSUME NEW t \in 1..Workers, Demo!Thread(t)
      PROVE  LentInv'
  <2>1. demo' = demo /\ tpc[t] \in 1..Len(code[t]) /\ t \in Threads
    BY <1>0, <1>3, Dispatch, InCode
  <2>2. Lent' = Lent /\ Lends' = Lends
    BY <2>1 DEF Lent, Lends
  <2>3. CASE t # Lent
    <3>1. demo = "thread2"
      <4>1. demo = "thread1" => t \in 2..Workers
        BY <2>3, DemoSizes DEF Lent
      <4>2. QED
        BY <2>1, <4>1 DEF LentInv
    <3>2. code[t][tpc[t]].op \in {"print", "nop"}
      BY <1>0, <2>1, <2>3, <3>1, LentBoth
    <3>3. UNCHANGED <<mem, reg>> /\ tpc' = [tpc EXCEPT ![t] = @ + 1]
      BY <1>0, <1>3, <2>1, <3>2, Leaves, Moves
    <3>4. tpc'[0] = tpc[0] /\ tpc'[Lent] = tpc[Lent]
      BY <1>0, <2>1, <2>3, <3>3, DemoSizes
    <3>5. QED
      BY <2>1, <2>2, <3>1, <3>3, <3>4 DEF LentInv
  <2>4. CASE t = Lent
    <3>1. Len(code[t]) = 2 /\ code[t][1].op = "load" /\ code[t][2].op = "store" /\ code[t][2].arg = 10
      BY <1>0, <2>4, LentBoth
    <3>2. tpc[t] \in 1..2
      BY <2>1, <3>1
    <3>3. tpc' = [tpc EXCEPT ![t] = @ + 1]
      <4>1. code[t][tpc[t]].op \in {"load", "store"}
        BY <3>1, <3>2
      <4>2. QED
        BY <1>0, <1>3, <2>1, <4>1, Moves
    <3>4. /\ tpc'[0] = tpc[0] /\ tpc'[Lent] = tpc[Lent] + 1
          /\ \A u \in 1..Workers : u # Lent => tpc'[u] = tpc[u]
      BY <1>0, <2>4, <3>3
    <3>5. demo = "thread1" => \A u \in 2..Workers : tpc'[u] = tpc[u]
      BY <3>4, DemoSizes DEF Lent
    <3>6. CASE tpc[t] = 1
      <4>1. Demo!load(t)
        BY <1>0, <1>3, <2>1, <3>1, <3>6, Dispatch
      <4>2. mem' = mem /\ reg' = [reg EXCEPT ![Lent] = mem]
        BY <2>4, <4>1 DEF Demo!load
      <4>3. DOMAIN reg' = Threads /\ reg'[Lent] = mem /\ reg'[0] = reg[0]
        BY <1>0, <4>2 DEF LentInv
      <4>4. QED
        BY <2>1, <2>2, <2>4, <3>4, <3>5, <3>6, <4>2, <4>3 DEF LentInv
    <3>7. CASE tpc[t] = 2
      <4>1. Demo!store(t)
        BY <1>0, <1>3, <2>1, <3>1, <3>7, Dispatch
      <4>2. reg' = reg /\ mem' = reg[t] + 10
        BY <3>1, <3>7, <4>1 DEF Demo!store, Demo!At, Demo!Arg
      <4>3. mem' = 20
        BY <2>4, <3>7, <4>2 DEF LentInv
      <4>4. QED
        BY <2>1, <2>2, <2>4, <3>4, <3>5, <3>7, <4>2, <4>3 DEF LentInv
    <3>8. QED
      BY <3>2, <3>6, <3>7
  <2>5. QED
    BY <2>3, <2>4
<1>4. QED
  BY <1>1, <1>2, <1>3, LentMain, DemoSizes DEF Demo!Next, Threads

\* main() has read what the thread left.
LEMMA LentRight ==
    ASSUME Placed, demo \in {"thread1", "thread2"}, LentInv, tpc[0] > Len(code[0])
    PROVE  reg[0] = 20
<1>1. Len(code[0]) >= Lends + 2 /\ Len(code[0]) \in Nat /\ Lends \in Nat
  BY LentBoth DEF Placed
<1>2. tpc[0] \in Nat
  BY DemoSizes DEF Placed, Coded, Threads
<1>3. QED
  BY <1>1, <1>2 DEF LentInv
-----------------------------------------------------------------------------
(* SimpleSyncQueue, and the queue of mutex/demo5_unique_lock.cpp *)

\* Who fills the queue, and who empties it, in the demos that have one.
QueueDemos == {"sync_queue", "unique_lock"}
Putters == IF demo = "sync_queue" THEN {t \in 1..Workers : t % 2 = 1} ELSE {1}
Takers == {t \in 1..Workers : t % 2 = 0}
Pushes == {"push_back", "push_front"}
Pops == {"pop_front", "pop_back"}

\* Thread t is about to take from the queue.
AtPop(t) == tpc[t] \in 1..Len(code[t]) /\ code[t][tpc[t]].op \in Pops

\* The queue has what was sent and not received, the oldest first, or last, as it is
\* filled.
Holds(d, s, r, q) ==
    /\ Len(s) = Len(r) + Len(q)
    /\ \A k \in 1..Len(q) : q[k] = s[IF d = "sync_queue" THEN Len(r) + k ELSE Len(s) + 1 - k]

\* Every turn past its push has sent, and of SimpleSyncQueue every turn past its pop has
\* received.  Who is about to take found something there.
QueueInv ==
    /\ sent \in Seq(Demo!Values) /\ received \in Seq(Demo!Values) /\ queue \in Seq(Demo!Values)
    /\ Len(sent) = Cardinality(Past(tpc, Putters, 2))
    /\ Holds(demo, sent, received, queue)
    /\ \A t \in 1..Workers : AtPop(t) => queue # <<>>
    /\ demo = "sync_queue" => Len(received) = Cardinality(Past(tpc, Takers, 1))

\* Where the queue is used in the code.
QueueUse(t, k) ==
    LET o == code[t][k].op
    IN  /\ o \in {"lock", "unlock", "wait", "notify_one", "goto"} \cup Pushes \cup Pops
        /\ o \in Pushes => /\ o = IF demo = "sync_queue" THEN "push_back" ELSE "push_front"
                           /\ t \in Putters /\ k \in 1..(4 * Turns) /\ k % 4 = 2
        /\ o \in Pops => /\ o = IF demo = "sync_queue" THEN "pop_front" ELSE "pop_back"
                         /\ t \notin Putters /\ k # 1 /\ k - 1 \in 1..Len(code[t])
                         /\ code[t][k - 1].op = "wait"
                         /\ demo = "sync_queue" => t \in Takers /\ k \in 1..(4 * Turns) /\ k % 4 = 3
        /\ t \in Putters /\ o \notin Pushes => k % 4 # 2 /\ o \notin {"goto", "wait"}
        /\ t \in Takers /\ demo = "sync_queue" /\ o \notin Pops => k % 4 # 3 /\ o # "goto"
        /\ o = "goto" => code[t][k].arg = 1

\* So it is in both demos.
LEMMA QueueUsed ==
    ASSUME Coded, demo \in QueueDemos, NEW t \in 1..Workers, NEW k \in 1..Len(code[t])
    PROVE  QueueUse(t, k)
<1>1. CASE demo = "sync_queue" /\ t % 2 = 1
  <2>1. Loops(code[t], Turns, "lock", "push_back", "notify_one", "unlock")
    BY <1>1, QueueCode
  <2>2. /\ k \in 1..(4 * Turns) /\ k \in Nat
        /\ k % 4 = 2 => code[t][k].op = "push_back"
        /\ k % 4 # 2 => code[t][k].op \in {"lock", "notify_one", "unlock"}
    BY <2>1, DemoSizes DEF Loops
  <2>3. t \in Putters /\ t \notin Takers
    BY <1>1 DEF Putters, Takers
  <2>4. CASE k % 4 = 2
    BY <1>1, <2>2, <2>3, <2>4 DEF QueueUse, Pushes, Pops
  <2>5. CASE k % 4 # 2
    BY <1>1, <2>2, <2>3, <2>5 DEF QueueUse, Pushes, Pops
  <2>6. QED
    BY <2>4, <2>5
<1>2. CASE demo = "sync_queue" /\ t % 2 # 1
  <2>1. Loops(code[t], Turns, "lock", "wait", "pop_front", "unlock")
    BY <1>2, QueueCode
  <2>2. /\ k \in 1..(4 * Turns) /\ k \in Nat
        /\ k % 4 = 3 => code[t][k].op = "pop_front"
        /\ k % 4 # 3 => code[t][k].op \in {"lock", "wait", "unlock"}
    BY <2>1, DemoSizes DEF Loops
  <2>3. t \notin Putters
    BY <1>2 DEF Putters
  <2>4. CASE k % 4 = 3
    <3>1. k - 1 \in 1..(4 * Turns) /\ (k - 1) % 4 = 2 /\ k # 1
      <4>1. k \in Nat /\ k % 4 = 3 => (k - 1) % 4 = 2 /\ k # 1
        OBVIOUS
      <4>2. Turns \in Nat /\ 4 * Turns \in Nat
        BY DemoSizes
      <4>3. QED
        BY <2>2, <2>4, <4>1, <4>2
    <3>2. code[t][k - 1].op = "wait" /\ k - 1 \in 1..Len(code[t])
      BY <2>1, <3>1 DEF Loops
    <3>3. t \in Takers
      BY <1>2 DEF Takers
    <3>4. QED
      BY <1>2, <2>2, <2>3, <2>4, <3>1, <3>2, <3>3 DEF QueueUse, Pushes, Pops
  <2>5. CASE k % 4 # 3
    BY <1>2, <2>2, <2>3, <2>5 DEF QueueUse, Pushes, Pops
  <2>6. QED
    BY <2>4, <2>5
<1>3. CASE demo = "unique_lock" /\ t = 1
  <2>1. Loops(code[t], Turns, "lock", "push_front", "notify_one", "unlock")
    BY <1>3, UniqueCode
  <2>2. /\ k \in 1..(4 * Turns) /\ k \in Nat
        /\ k % 4 = 2 => code[t][k].op = "push_front"
        /\ k % 4 # 2 => code[t][k].op \in {"lock", "notify_one", "unlock"}
    BY <2>1, DemoSizes DEF Loops
  <2>3. t \in Putters
    BY <1>3 DEF Putters
  <2>4. CASE k % 4 = 2
    BY <1>3, <2>2, <2>3, <2>4 DEF QueueUse, Pushes, Pops
  <2>5. CASE k % 4 # 2
    BY <1>3, <2>2, <2>3, <2>5 DEF QueueUse, Pushes, Pops
  <2>6. QED
    BY <2>4, <2>5
<1>4. CASE demo = "unique_lock" /\ t # 1
  <2>1. t \in 2..Workers
    BY <1>4, DemoSizes
  <2>2. /\ Len(code[t]) = 5 /\ code[t][1].op = "lock" /\ code[t][2].op = "wait"
        /\ code[t][3].op = "pop_back" /\ code[t][4].op = "unlock"
        /\ code[t][5].op = "goto" /\ code[t][5].arg = 1
    BY <1>4, <2>1, UniqueCode
  <2>3. t \notin Putters /\ k \in 1..5
    BY <1>4, <2>2 DEF Putters
  <2>4. CASE k = 3
    <3>1. code[t][k - 1].op = "wait" /\ k - 1 \in 1..Len(code[t]) /\ code[t][k].op = "pop_back"
      BY <2>2, <2>4
    <3>2. QED
      BY <1>4, <2>3, <2>4, <3>1 DEF QueueUse, Pushes, Pops
  <2>5. CASE k # 3
    <3>1. code[t][k].op \in {"lock", "wait", "unlock", "goto"} /\ (code[t][k].op = "goto" => code[t][k].arg = 1)
      BY <2>2, <2>3, <2>5
    <3>2. QED
      BY <1>4, <2>3, <3>1 DEF QueueUse, Pushes, Pops
  <2>6. QED
    BY <2>4, <2>5
<1>5. QED
  BY <1>1, <1>2, <1>3, <1>4 DEF QueueDemos

\* Those who fill it and those who empty it are finitely many threads.
LEMMA QueueUsers ==
    ASSUME demo \in QueueDemos
    PROVE  /\ Putters \subseteq 1..Workers /\ Takers \subseteq 1..Workers
           /\ IsFiniteSet(Putters) /\ IsFiniteSet(Takers) /\ demo \in StartAll
<1>1. Putters \in SUBSET (1..Workers) /\ Takers \in SUBSET (1..Workers)
  BY DemoSizes DEF Putters, Takers
<1>2. IsFiniteSet(1..Workers)
  BY DemoSizes, FS_Interval
<1>3. QED
  BY <1>1, <1>2, FS_Subset DEF QueueDemos, StartAll

\* Two threads are not about to take at once.
LEMMA OnePops ==
    ASSUME Placed, demo \in QueueDemos, MutexInv, NEW t \in 1..Workers, NEW u \in 1..Workers,
           AtPop(t), AtPop(u)
    PROVE  t = u
<1>1. t \in Threads /\ u \in Threads /\ Coded /\ demo # "recursive"
  BY DemoSizes DEF Threads, Placed, QueueDemos
<1>2. Disciplined(t, tpc[t]) /\ Disciplined(u, tpc[u])
  BY <1>1, Discipline DEF AtPop
<1>3. Inside(demo, t, tpc[t]) /\ code[t][tpc[t]].op # "wait"
  BY <1>2 DEF AtPop, Pops, Disciplined
<1>4. Inside(demo, u, tpc[u]) /\ code[u][tpc[u]].op # "wait"
  BY <1>2 DEF AtPop, Pops, Disciplined
<1>5. QED
  BY <1>1, <1>3, <1>4 DEF MutexInv

\* The value x is added to the queue q, which becomes p.
Fills(V, d, s, r, q, x, p) ==
    /\ s \in Seq(V) /\ r \in Seq(V) /\ q \in Seq(V) /\ x \in V /\ Holds(d, s, r, q)
    /\ p = IF d = "sync_queue" THEN Append(q, x) ELSE <<x>> \o q

\* Filling it.
LEMMA HoldsPush ==
    ASSUME NEW V, NEW d, NEW s, NEW r, NEW q, NEW x, NEW p, Fills(V, d, s, r, q, x, p)
    PROVE  Append(s, x) \in Seq(V) /\ p \in Seq(V) /\ p # <<>> /\ Holds(d, Append(s, x), r, p)
<1>0. /\ s \in Seq(V) /\ r \in Seq(V) /\ q \in Seq(V) /\ x \in V /\ Holds(d, s, r, q)
      /\ p = IF d = "sync_queue" THEN Append(q, x) ELSE <<x>> \o q
  BY DEF Fills
<1> USE <1>0
<1>1. /\ Len(s) \in Nat /\ Len(r) \in Nat /\ Len(q) \in Nat
      /\ Append(s, x) \in Seq(V) /\ Len(Append(s, x)) = Len(s) + 1
      /\ \A i \in 1..Len(s) : Append(s, x)[i] = s[i]
      /\ Append(s, x)[Len(s) + 1] = x
  BY AppendProperties
<1>2. CASE d = "sync_queue"
  <2>1. /\ p \in Seq(V) /\ p # <<>> /\ Len(p) = Len(q) + 1
        /\ \A i \in 1..Len(q) : p[i] = q[i]
        /\ p[Len(q) + 1] = x
    BY <1>2, AppendProperties
  <2>2. ASSUME NEW k \in 1..(Len(q) + 1)
        PROVE  p[k] = Append(s, x)[Len(r) + k]
    <3>1. CASE k = Len(q) + 1
      BY <1>1, <2>1, <3>1 DEF Holds
    <3>2. CASE k \in 1..Len(q)
      <4>1. Len(r) + k \in 1..Len(s)
        BY <1>1, <3>2 DEF Holds
      <4>2. QED
        BY <1>1, <1>2, <2>1, <3>2, <4>1 DEF Holds
    <3>3. k = Len(q) + 1 \/ k \in 1..Len(q)
      BY <1>1
    <3>4. QED
      BY <3>1, <3>2, <3>3, Zenon
  <2>3. Len(s) + 1 = Len(r) + Len(p)
    BY <1>1, <2>1 DEF Holds
  <2>4. QED
    BY <1>1, <1>2, <2>1, <2>2, <2>3 DEF Holds
<1>3. CASE d # "sync_queue"
  <2>1. <<x>> \in Seq(V) /\ Len(<<x>>) = 1 /\ <<x>>[1] = x
    OBVIOUS
  <2>2. /\ p \in Seq(V) /\ Len(p) = Len(q) + 1 /\ p[1] = x
        /\ \A i \in 2..(Len(q) + 1) : p[i] = q[i - 1]
    <3>1. p = <<x>> \o q
      BY <1>3
    <3> DEFINE b == <<x>>
    <3> HIDE DEF b
    <3>2. /\ p \in Seq(V) /\ Len(p) = Len(b) + Len(q)
          /\ \A i \in 1..(Len(b) + Len(q)) : p[i] = IF i <= Len(b) THEN b[i] ELSE q[i - Len(b)]
      <4>1. b \in Seq(V) /\ p = b \o q
        BY <2>1, <3>1 DEF b
      <4>2. /\ b \o q \in Seq(V) /\ Len(b \o q) = Len(b) + Len(q)
            /\ \A i \in 1..(Len(b) + Len(q)) :
                  (b \o q)[i] = IF i <= Len(b) THEN b[i] ELSE q[i - Len(b)]
        BY <4>1, ConcatProperties, Zenon
      <4>3. QED
        BY <4>1, <4>2, Zenon
    <3>3. Len(b) = 1 /\ b[1] = x
      BY <2>1 DEF b
    <3>4. QED
      BY <1>1, <3>2, <3>3
  <2>3. ASSUME NEW k \in 1..(Len(q) + 1)
        PROVE  p[k] = Append(s, x)[Len(s) + 1 + 1 - k]
    <3>1. CASE k = 1
      BY <1>1, <2>2, <3>1
    <3>2. CASE k \in 2..(Len(q) + 1)
      <4>1. k - 1 \in 1..Len(q) /\ Len(s) + 1 + 1 - k = Len(s) + 1 - (k - 1)
        BY <1>1, <3>2
      <4>2. p[k] = s[Len(s) + 1 - (k - 1)]
        BY <1>3, <2>2, <3>2, <4>1 DEF Holds
      <4>3. Len(s) + 1 - (k - 1) \in 1..Len(s)
        BY <1>1, <4>1 DEF Holds
      <4>4. QED
        BY <1>1, <4>1, <4>2, <4>3
    <3>3. k = 1 \/ k \in 2..(Len(q) + 1)
      BY <1>1
    <3>4. QED
      BY <3>1, <3>2, <3>3, Zenon
  <2>4. Len(s) + 1 = Len(r) + Len(p) /\ p # <<>>
    <3>1. Len(p) # 0
      BY <1>1, <2>2
    <3>2. p # <<>>
      BY <3>1
    <3>3. QED
      BY <1>1, <2>2, <3>2 DEF Holds
  <2>5. QED
    BY <1>1, <1>3, <2>2, <2>3, <2>4 DEF Holds
<1>4. QED
  BY <1>2, <1>3

\* Taking x from the queue q of values V leaves p.
Takes(V, d, s, r, q, x, p) ==
    /\ s \in Seq(V) /\ r \in Seq(V) /\ q \in Seq(V) /\ q # <<>> /\ Holds(d, s, r, q)
    /\ d = "sync_queue" => x = Head(q) /\ p = Tail(q)
    /\ d # "sync_queue" => x = q[Len(q)] /\ p = SubSeq(q, 1, Len(q) - 1)

\* It gives the oldest value that was not received.
LEMMA HoldsPop ==
    ASSUME NEW V, NEW d, NEW s, NEW r, NEW q, NEW x, NEW p, Takes(V, d, s, r, q, x, p)
    PROVE  /\ x = s[Len(r) + 1] /\ x \in V /\ Len(r) < Len(s)
           /\ Append(r, x) \in Seq(V) /\ p \in Seq(V) /\ Holds(d, s, Append(r, x), p)
           /\ Len(Append(r, x)) = Len(r) + 1
<1>0. /\ s \in Seq(V) /\ r \in Seq(V) /\ q \in Seq(V) /\ q # <<>> /\ Holds(d, s, r, q)
      /\ d = "sync_queue" => x = Head(q) /\ p = Tail(q)
      /\ d # "sync_queue" => x = q[Len(q)] /\ p = SubSeq(q, 1, Len(q) - 1)
  BY DEF Takes
<1> USE <1>0
<1>1. Len(s) \in Nat /\ Len(r) \in Nat /\ Len(q) \in Nat /\ Len(q) > 0 /\ \A k \in 1..Len(q) : q[k] \in V
  BY EmptySeq
<1>2. x = s[Len(r) + 1] /\ x \in V
  <2>1. CASE d = "sync_queue"
    BY <1>1, <2>1 DEF Holds
  <2>2. CASE d # "sync_queue"
    <3>1. Len(s) + 1 - Len(q) = Len(r) + 1 /\ Len(q) \in 1..Len(q)
      BY <1>1 DEF Holds
    <3>2. QED
      BY <1>1, <2>2, <3>1 DEF Holds
  <2>3. QED
    BY <2>1, <2>2
<1>3. Append(r, x) \in Seq(V) /\ Len(Append(r, x)) = Len(r) + 1
  BY <1>2, AppendProperties
<1>4. /\ p \in Seq(V) /\ Len(p) = Len(q) - 1
      /\ \A k \in 1..(Len(q) - 1) : p[k] = q[IF d = "sync_queue" THEN k + 1 ELSE k]
  <2>1. CASE d = "sync_queue"
    <3>1. p = Tail(q)
      BY <2>1
    <3>2. /\ Tail(q) \in Seq(V) /\ Len(Tail(q)) = Len(q) - 1
          /\ \A k \in 1..Len(Tail(q)) : Tail(q)[k] = q[k + 1]
      BY HeadTailProperties
    <3>3. QED
      BY <2>1, <3>1, <3>2
  <2>2. CASE d # "sync_queue"
    <3> DEFINE n == Len(q) - 1
    <3>1. p = SubSeq(q, 1, n) /\ 1 \in Int /\ n \in Int /\ \A i \in 1..n : q[i] \in V
      BY <1>1, <2>2
    <3> HIDE DEF n
    <3>2. /\ p \in Seq(V) /\ Len(p) = IF 1 <= n THEN n - 1 + 1 ELSE 0
          /\ \A i \in 1..(n - 1 + 1) : p[i] = q[1 + i - 1]
      <4>1. /\ SubSeq(q, 1, n) \in Seq(V) /\ Len(SubSeq(q, 1, n)) = IF 1 <= n THEN n - 1 + 1 ELSE 0
            /\ \A i \in 1..(n - 1 + 1) : SubSeq(q, 1, n)[i] = q[1 + i - 1]
        BY <3>1, SubSeqProperties
      <4>2. QED
        BY <3>1, <4>1
    <3>3. n \in Nat /\ n = Len(q) - 1
      BY <1>1 DEF n
    <3>4. Len(p) = n /\ \A i \in 1..n : p[i] = q[i]
      BY <3>2, <3>3
    <3>5. QED
      BY <2>2, <3>2, <3>3, <3>4
  <2>3. QED
    BY <2>1, <2>2
<1>5. Len(s) = Len(r) + 1 + Len(p) /\ Len(r) < Len(s)
  BY <1>1, <1>4 DEF Holds
<1>6. ASSUME NEW k \in 1..Len(p)
      PROVE  p[k] = s[IF d = "sync_queue" THEN Len(r) + 1 + k ELSE Len(s) + 1 - k]
  <2>1. k \in 1..(Len(q) - 1) /\ k \in 1..Len(q) /\ k + 1 \in 1..Len(q)
    BY <1>1, <1>4
  <2>2. CASE d = "sync_queue"
    <3>1. Len(r) + (k + 1) = Len(r) + 1 + k
      BY <1>1
    <3>2. QED
      BY <1>4, <2>1, <2>2, <3>1 DEF Holds
  <2>3. CASE d # "sync_queue"
    BY <1>4, <2>1, <2>3 DEF Holds
  <2>4. QED
    BY <2>2, <2>3
<1>7. QED
  BY <1>2, <1>3, <1>4, <1>5, <1>6 DEF Holds

\* A value that is pushed: it is one of Values, there is room for it, and the turn counts.
LEMMA QueuePush ==
    ASSUME Placed, demo \in QueueDemos, QueueInv, NEW t \in 1..Workers, Demo!Thread(t),
           code[t][tpc[t]].op \in Pushes
    PROVE  LET x == <<t, tpc[t]>>
           IN  /\ x \in Demo!Values /\ Len(sent) - Len(received) < Turns * Workers
               /\ sent' = Append(sent, x) /\ received' = received
               /\ QueueInv'
<1> DEFINE k == tpc[t]
           o == code[t][k].op
           x == <<t, k>>
<1>1. /\ t \in Threads /\ Coded /\ tpc \in [Threads -> Nat] /\ demo' = demo /\ code' = code
      /\ k \in 1..Len(code[t]) /\ QueueUse(t, k) /\ 1..Workers \subseteq Threads
  <2>1. t \in Threads /\ Coded /\ tpc \in [Threads -> Nat] /\ 1..Workers \subseteq Threads
    BY DemoSizes DEF Placed, Coded, Threads
  <2>2. k \in 1..Len(code[t]) /\ demo' = demo /\ code' = code
    BY <2>1, InCode, Dispatch
  <2>3. QED
    BY <2>1, <2>2, QueueUsed
<1>2. /\ o = IF demo = "sync_queue" THEN "push_back" ELSE "push_front"
      /\ t \in Putters /\ k \in 1..(4 * Turns) /\ k % 4 = 2
  BY <1>1 DEF QueueUse
<1>3. x \in Demo!Values
  BY <1>1, <1>2, DemoSizes DEF Demo!Values
<1>4. /\ sent' = Append(sent, x) /\ received' = received /\ tpc' = [tpc EXCEPT ![t] = @ + 1]
      /\ queue' = IF demo = "sync_queue" THEN Append(queue, x) ELSE <<x>> \o queue
  <2>1. Demo!push(t)
    BY <1>1, Dispatch DEF Pushes
  <2>2. Demo!At(t, "push_back") <=> demo = "sync_queue"
    BY <1>2, <2>1 DEF Demo!push, Demo!At
  <2>3. QED
    BY <2>1, <2>2 DEF Demo!push, Demo!Step
<1> HIDE DEF x
<1>5. /\ sent' \in Seq(Demo!Values) /\ queue' \in Seq(Demo!Values) /\ queue' # <<>>
      /\ Holds(demo, sent', received, queue')
  <2> DEFINE V == Demo!Values
  <2>1. /\ sent \in Seq(V) /\ received \in Seq(V) /\ queue \in Seq(V) /\ x \in V
        /\ Holds(demo, sent, received, queue)
    BY <1>3 DEF QueueInv
  <2> HIDE DEF V
  <2>2. /\ Append(sent, x) \in Seq(V) /\ queue' \in Seq(V) /\ queue' # <<>>
        /\ Holds(demo, Append(sent, x), received, queue')
    <3>1. Fills(V, demo, sent, received, queue, x, queue')
      BY <1>4, <2>1 DEF Fills
    <3>2. QED
      BY <3>1, HoldsPush, Zenon
  <2>3. QED
    BY <1>4, <2>2 DEF V
<1>6. tpc'[t] = k + 1 /\ \A u \in Threads : u # t => tpc'[u] = tpc[u]
  BY <1>1, <1>4
<1>7. Putters' = Putters /\ Takers' = Takers
  BY <1>1 DEF Putters, Takers
<1>8. /\ Cardinality(Past(tpc', Putters, 2)) = Cardinality(Past(tpc, Putters, 2)) + 1
      /\ Cardinality(Past(tpc, Putters, 2)) < Cardinality(Putters \X (1..Turns))
  <2> DEFINE W == Putters
  <2>1. t \in W /\ IsFiniteSet(W) /\ \A u \in W : u # t => tpc'[u] = tpc[u]
    BY <1>1, <1>2, <1>6, QueueUsers
  <2>2. 2 \in {1, 2} /\ tpc[t] \in 1..(4 * Turns) /\ tpc[t] % 4 = 4 - 2 /\ tpc'[t] = tpc[t] + 1
    BY <1>2, <1>6
  <2> HIDE DEF W
  <2>3. /\ Cardinality(Past(tpc', W, 2)) = Cardinality(Past(tpc, W, 2)) + 1
        /\ Cardinality(Past(tpc, W, 2)) < Cardinality(W \X (1..Turns))
    <3>1. Passes(tpc, tpc', W, 2, t)
      BY <2>1, <2>2 DEF Passes
    <3>2. QED
      BY <3>1, PastOne, Zenon
  <2>4. QED
    BY <2>3 DEF W
<1>9. Len(sent) < Turns * Workers
  <2> DEFINE A == Putters \X (1..Turns)
             B == (1..Workers) \X (1..Turns)
  <2>1. A \in SUBSET B
    BY QueueUsers
  <2>2. IsFiniteSet(1..Workers) /\ Cardinality(1..Workers) = Workers
    BY DemoSizes, FS_Interval
  <2>3. IsFiniteSet(B) /\ Cardinality(B) = Workers * Turns
    BY <2>2, PastFinite
  <2>4. IsFiniteSet(A) /\ Cardinality(Past(tpc, Putters, 2)) < Cardinality(A)
    BY <1>8, QueueUsers, PastFinite
  <2>5. Cardinality(Past(tpc, Putters, 2)) \in Nat
    BY QueueUsers, PastFinite
  <2> HIDE DEF A, B
  <2>6. Cardinality(A) <= Cardinality(B) /\ Cardinality(A) \in Nat
    BY <2>1, <2>3, <2>4, FS_Subset, FS_CardinalityType
  <2>7. Workers * Turns = Turns * Workers /\ Workers * Turns \in Nat
    BY DemoSizes
  <2>8. QED
    BY <2>3, <2>4, <2>5, <2>6, <2>7 DEF QueueInv
<1>10. Len(sent) - Len(received) < Turns * Workers
  BY <1>9, DemoSizes DEF QueueInv
<1>11. Len(sent') = Cardinality(Past(tpc', Putters, 2))
  <2>1. Len(sent') = Len(sent) + 1
    BY <1>3, <1>4, AppendProperties DEF QueueInv
  <2>2. QED
    BY <1>8, <2>1 DEF QueueInv
<1>12. demo = "sync_queue" => Past(tpc', Takers, 1) = Past(tpc, Takers, 1)
  <2>1. ASSUME demo = "sync_queue"
        PROVE  \A u \in Takers : tpc[u] \in Nat /\ (\/ tpc'[u] = tpc[u]
                                                    \/ tpc'[u] = tpc[u] + 1 /\ tpc[u] % 4 # 4 - 1)
    <3>1. t \notin Takers
      BY <1>2, <2>1 DEF Putters, Takers
    <3>2. QED
      BY <1>1, <1>6, <3>1 DEF Takers
  <2>2. QED
    BY <2>1, PastSame
<1>13. QED
  BY <1>1, <1>3, <1>4, <1>5, <1>7, <1>10, <1>11, <1>12 DEF QueueInv, x

\* A value that is taken is the oldest that was not.
LEMMA QueuePop ==
    ASSUME Placed, demo \in QueueDemos, MutexInv, QueueInv, NEW t \in 1..Workers, Demo!Thread(t),
           code[t][tpc[t]].op \in Pops
    PROVE  /\ Len(received) < Len(sent)
           /\ received' = Append(received, sent[Len(received) + 1]) /\ sent' = sent
           /\ QueueInv'
<1> DEFINE k == tpc[t]
           o == code[t][k].op
<1>1. /\ t \in Threads /\ Coded /\ tpc \in [Threads -> Nat] /\ demo' = demo /\ code' = code
      /\ k \in 1..Len(code[t]) /\ QueueUse(t, k) /\ 1..Workers \subseteq Threads
  <2>1. t \in Threads /\ Coded /\ tpc \in [Threads -> Nat] /\ 1..Workers \subseteq Threads
    BY DemoSizes DEF Placed, Coded, Threads
  <2>2. k \in 1..Len(code[t]) /\ demo' = demo /\ code' = code
    BY <2>1, InCode, Dispatch
  <2>3. QED
    BY <2>1, <2>2, QueueUsed
<1>2. /\ o = IF demo = "sync_queue" THEN "pop_front" ELSE "pop_back"
      /\ t \notin Putters
      /\ demo = "sync_queue" => t \in Takers /\ k \in 1..(4 * Turns) /\ k % 4 = 3
  BY <1>1 DEF QueueUse
<1>3. AtPop(t) /\ queue # <<>>
  BY <1>1 DEF AtPop, QueueInv
<1>4. PICK x : /\ received' = Append(received, x) /\ sent' = sent
               /\ IF demo = "sync_queue" THEN x = Head(queue) /\ queue' = Tail(queue)
                  ELSE x = queue[Len(queue)] /\ queue' = SubSeq(queue, 1, Len(queue) - 1)
  <2>1. Demo!pop(t)
    BY <1>1, Dispatch DEF Pops
  <2>2. QED
    BY <1>2, <2>1 DEF Demo!pop, Demo!At, Demo!Last, Demo!Front
<1>5. tpc' = [tpc EXCEPT ![t] = @ + 1]
  BY <1>1, Moves DEF Pops
<1>6. tpc'[t] = k + 1 /\ \A u \in Threads : u # t => tpc'[u] = tpc[u]
  BY <1>1, <1>5
<1>7. /\ x = sent[Len(received) + 1] /\ Len(received) < Len(sent)
      /\ received' \in Seq(Demo!Values) /\ queue' \in Seq(Demo!Values)
      /\ Holds(demo, sent, received', queue') /\ Len(received') = Len(received) + 1
  <2> DEFINE V == Demo!Values
             p == queue'
  <2>1. sent \in Seq(V) /\ received \in Seq(V) /\ queue \in Seq(V) /\ Holds(demo, sent, received, queue)
    BY DEF QueueInv
  <2>2. /\ demo = "sync_queue" => x = Head(queue) /\ p = Tail(queue)
        /\ demo # "sync_queue" => x = queue[Len(queue)] /\ p = SubSeq(queue, 1, Len(queue) - 1)
        /\ queue # <<>>
    BY <1>3, <1>4
  <2> HIDE DEF V, p
  <2>3. Takes(V, demo, sent, received, queue, x, p)
    BY <2>1, <2>2 DEF Takes
  <2>4. /\ x = sent[Len(received) + 1] /\ x \in V /\ Len(received) < Len(sent)
        /\ Append(received, x) \in Seq(V) /\ p \in Seq(V)
        /\ Holds(demo, sent, Append(received, x), p)
        /\ Len(Append(received, x)) = Len(received) + 1
    BY <2>3, HoldsPop
  <2>5. QED
    BY <1>4, <2>4 DEF V, p
<1>8. Putters' = Putters /\ Takers' = Takers
  BY <1>1 DEF Putters, Takers
<1>9. Past(tpc', Putters, 2) = Past(tpc, Putters, 2)
  <2>1. \A u \in Putters : tpc[u] \in Nat /\ (\/ tpc'[u] = tpc[u]
                                              \/ tpc'[u] = tpc[u] + 1 /\ tpc[u] % 4 # 4 - 2)
    BY <1>1, <1>2, <1>6, QueueUsers
  <2>2. QED
    BY <2>1, PastSame
<1>10. ASSUME demo = "sync_queue"
       PROVE  Cardinality(Past(tpc', Takers, 1)) = Cardinality(Past(tpc, Takers, 1)) + 1
  <2> DEFINE W == Takers
  <2>1. t \in W /\ IsFiniteSet(W) /\ \A u \in W : u # t => tpc'[u] = tpc[u]
    <3>1. t \in Takers /\ Takers \subseteq Threads /\ IsFiniteSet(Takers)
      BY <1>1, <1>2, <1>10, QueueUsers
    <3>2. QED
      BY <1>6, <3>1
  <2>2. 1 \in {1, 2} /\ tpc[t] \in 1..(4 * Turns) /\ tpc[t] % 4 = 4 - 1 /\ tpc'[t] = tpc[t] + 1
    BY <1>2, <1>6, <1>10
  <2> HIDE DEF W
  <2>3. Cardinality(Past(tpc', W, 1)) = Cardinality(Past(tpc, W, 1)) + 1
    <3>1. Passes(tpc, tpc', W, 1, t)
      BY <2>1, <2>2 DEF Passes
    <3>2. /\ Cardinality(Past(tpc', W, 1)) = Cardinality(Past(tpc, W, 1)) + 1
          /\ Cardinality(Past(tpc, W, 1)) < Cardinality(W \X (1..Turns))
      BY <3>1, PastOne, Zenon
    <3>3. QED
      BY <3>2
  <2>4. QED
    BY <2>3 DEF W
<1>11. ASSUME NEW u \in 1..Workers, AtPop(u)'
       PROVE  FALSE
  <2>1. tpc'[u] \in 1..Len(code[u]) /\ code[u][tpc'[u]].op \in Pops
    BY <1>1, <1>11 DEF AtPop
  <2>2. CASE u = t
    <3>1. QueueUse(t, k + 1)
      BY <1>1, <1>6, <2>1, <2>2, QueueUsed
    <3>2. code[t][(k + 1) - 1].op = "wait"
      BY <1>6, <2>1, <2>2, <3>1 DEF QueueUse
    <3>3. (k + 1) - 1 = k
      BY <1>1
    <3>4. QED
      BY <3>2, <3>3 DEF Pops
  <2>3. CASE u # t
    <3>1. AtPop(u)
      BY <1>1, <1>6, <2>1, <2>3 DEF AtPop
    <3>2. QED
      BY <1>3, <2>3, <3>1, OnePops
  <2>4. QED
    BY <2>2, <2>3
<1>12. QED
  BY <1>1, <1>4, <1>7, <1>8, <1>9, <1>10, <1>11 DEF QueueInv

\* Any other step of a thread leaves the queue alone.
LEMMA QueueLeft ==
    ASSUME Placed, demo \in QueueDemos, QueueInv, NEW t \in 1..Workers, Demo!Thread(t),
           code[t][tpc[t]].op \notin Pushes \cup Pops
    PROVE  QueueInv' /\ sent' = sent /\ received' = received
<1> DEFINE k == tpc[t]
           o == code[t][k].op
<1>1. /\ t \in Threads /\ Coded /\ tpc \in [Threads -> Nat] /\ demo' = demo /\ code' = code
      /\ k \in 1..Len(code[t]) /\ QueueUse(t, k) /\ 1..Workers \subseteq Threads
  <2>1. t \in Threads /\ Coded /\ tpc \in [Threads -> Nat] /\ 1..Workers \subseteq Threads
    BY DemoSizes DEF Placed, Coded, Threads
  <2>2. k \in 1..Len(code[t]) /\ demo' = demo /\ code' = code
    BY <2>1, InCode, Dispatch
  <2>3. QED
    BY <2>1, <2>2, QueueUsed
<1>2. o \in {"lock", "unlock", "wait", "notify_one", "goto"}
  BY <1>1 DEF QueueUse
<1>3. UNCHANGED <<sent, received, queue>>
  BY <1>1, <1>2, Leaves
<1>4. Putters' = Putters /\ Takers' = Takers
  BY <1>1 DEF Putters, Takers
<1>5. /\ \A u \in Threads : u # t => tpc'[u] = tpc[u]
      /\ o = "goto" => tpc'[t] = 1
      /\ o # "goto" => tpc'[t] = k + 1 \/ (o = "wait" /\ tpc'[t] = k)
  <2>1. o = "goto" => code[t][k].arg = 1
    BY <1>1 DEF QueueUse
  <2>2. CASE o = "goto"
    <3>1. tpc' = [tpc EXCEPT ![t] = 1]
      BY <1>1, <2>1, <2>2, Moves
    <3>2. QED
      BY <1>1, <2>2, <3>1
  <2>3. CASE o = "wait"
    <3>1. tpc' = tpc \/ tpc' = [tpc EXCEPT ![t] = @ + 1]
      BY <1>1, <2>3, Moves
    <3>2. QED
      BY <1>1, <2>3, <3>1
  <2>4. CASE o \notin {"goto", "wait"}
    <3>1. tpc' = [tpc EXCEPT ![t] = @ + 1]
      BY <1>1, <1>2, <2>4, Moves
    <3>2. QED
      BY <1>1, <2>4, <3>1
  <2>5. QED
    BY <2>2, <2>3, <2>4
<1>6. Past(tpc', Putters, 2) = Past(tpc, Putters, 2)
  <2>1. t \in Putters => k % 4 # 2 /\ o \notin {"goto", "wait"}
    BY <1>1 DEF QueueUse
  <2>2. \A u \in Putters : tpc[u] \in Nat /\ (\/ tpc'[u] = tpc[u]
                                              \/ tpc'[u] = tpc[u] + 1 /\ tpc[u] % 4 # 4 - 2)
    BY <1>1, <1>5, <2>1, QueueUsers
  <2>3. QED
    BY <2>2, PastSame
<1>7. ASSUME demo = "sync_queue"
      PROVE  Past(tpc', Takers, 1) = Past(tpc, Takers, 1)
  <2>1. t \in Takers => k % 4 # 3 /\ o # "goto"
    BY <1>1, <1>7 DEF QueueUse
  <2>2. \A u \in Takers : tpc[u] \in Nat /\ (\/ tpc'[u] = tpc[u]
                                             \/ tpc'[u] = tpc[u] + 1 /\ tpc[u] % 4 # 4 - 1)
    BY <1>1, <1>5, <2>1, QueueUsers
  <2>3. QED
    BY <2>2, PastSame
<1>8. ASSUME NEW u \in 1..Workers, AtPop(u)'
      PROVE  queue # <<>>
  <2>1. tpc'[u] \in 1..Len(code[u]) /\ code[u][tpc'[u]].op \in Pops
    BY <1>1, <1>8 DEF AtPop
  <2>2. CASE u # t
    BY <1>1, <1>5, <2>1, <2>2 DEF AtPop, QueueInv
  <2>3. CASE u = t
    <3>1. QueueUse(t, tpc'[t])
      BY <1>1, <2>1, <2>3, QueueUsed
    <3>2. tpc'[t] # 1 /\ code[t][tpc'[t] - 1].op = "wait" /\ code[t][tpc'[t]].op # "wait"
      BY <2>1, <2>3, <3>1 DEF QueueUse, Pops
    <3>3. tpc'[t] = k + 1 /\ o = "wait"
      <4>1. tpc'[t] = k + 1
        BY <1>5, <3>2
      <4>2. (k + 1) - 1 = k
        BY <1>1
      <4>3. QED
        BY <3>2, <4>1, <4>2
    <3>4. Demo!wait(t)
      BY <1>1, <3>3, Dispatch
    <3>5. tpc' # tpc
      BY <1>1, <3>3
    <3>6. QED
      BY <3>4, <3>5 DEF Demo!wait
  <2>4. QED
    BY <2>2, <2>3
<1>9. QED
  BY <1>1, <1>3, <1>4, <1>6, <1>7, <1>8 DEF QueueInv

\* Every step keeps the queue right, and is one of Fifo.
LEMMA QueueKept ==
    ASSUME Placed, demo \in QueueDemos, StartInv, MutexInv, QueueInv,
           Demo!Next \/ UNCHANGED demovars
    PROVE  QueueInv' /\ [F!FifoNext]_(F!fvars)
<1>0. /\ tpc \in [Threads -> Nat] /\ Coded /\ 1..Workers \subseteq Threads /\ demo \in StartAll
      /\ 0 \in Threads
  BY QueueUsers, DemoSizes DEF Placed, Coded, Threads
<1>1. CASE UNCHANGED demovars
  <2>1. UNCHANGED <<demo, code, tpc, sent, received, queue>>
    BY <1>1 DEF demovars
  <2>2. Putters' = Putters /\ Takers' = Takers /\ \A t : AtPop(t)' <=> AtPop(t)
    BY <2>1 DEF Putters, Takers, AtPop
  <2>3. QED
    BY <2>1, <2>2 DEF QueueInv, F!fvars
<1>2. ASSUME NEW t \in Threads, Demo!spurious(t)
      PROVE  QueueInv' /\ UNCHANGED F!fvars
  <2>1. UNCHANGED <<demo, code, tpc, sent, received, queue>>
    BY <1>2 DEF Demo!spurious
  <2>2. Putters' = Putters /\ Takers' = Takers /\ \A u : AtPop(u)' <=> AtPop(u)
    BY <2>1 DEF Putters, Takers, AtPop
  <2>3. QED
    BY <2>1, <2>2 DEF QueueInv, F!fvars
<1>3. CASE Demo!Thread(0)
  <2>1. /\ UNCHANGED <<demo, code, sent, received, queue>>
        /\ \A u \in 1..Workers : tpc'[u] = tpc[u] \/ (tpc[u] = 0 /\ tpc'[u] = 1)
    BY <1>0, <1>3, MainPlaces
  <2>2. Putters' = Putters /\ Takers' = Takers
    BY <2>1 DEF Putters, Takers
  <2>3. Past(tpc', Putters, 2) = Past(tpc, Putters, 2)
    <3>1. \A u \in Putters : tpc[u] \in Nat /\ (\/ tpc'[u] = tpc[u]
                                                \/ tpc'[u] = tpc[u] + 1 /\ tpc[u] % 4 # 4 - 2)
      BY <1>0, <2>1, QueueUsers
    <3>2. QED
      BY <3>1, PastSame
  <2>4. Past(tpc', Takers, 1) = Past(tpc, Takers, 1)
    <3>1. \A u \in Takers : tpc[u] \in Nat /\ (\/ tpc'[u] = tpc[u]
                                               \/ tpc'[u] = tpc[u] + 1 /\ tpc[u] % 4 # 4 - 1)
      BY <1>0, <2>1, QueueUsers
    <3>2. QED
      BY <3>1, PastSame
  <2>5. ASSUME NEW u \in 1..Workers, AtPop(u)'
        PROVE  AtPop(u)
    <3>1. tpc'[u] \in 1..Len(code[u]) /\ code[u][tpc'[u]].op \in Pops
      BY <2>1, <2>5 DEF AtPop
    <3>2. QueueUse(u, tpc'[u])
      BY <1>0, <3>1, QueueUsed
    <3>3. tpc'[u] # 1
      BY <3>1, <3>2 DEF QueueUse
    <3>4. QED
      BY <2>1, <3>1, <3>3 DEF AtPop
  <2>6. QED
    BY <2>1, <2>2, <2>3, <2>4, <2>5 DEF QueueInv, F!fvars
<1>4. ASSUME NEW t \in 1..Workers, Demo!Thread(t)
      PROVE  QueueInv' /\ [F!FifoNext]_(F!fvars)
  <2>1. CASE code[t][tpc[t]].op \in Pushes
    <3> DEFINE x == <<t, tpc[t]>>
    <3>1. /\ x \in Demo!Values /\ Len(sent) - Len(received) < Turns * Workers
          /\ sent' = Append(sent, x) /\ received' = received /\ QueueInv'
      BY <1>4, <2>1, QueuePush
    <3> HIDE DEF x
    <3>2. QED
      BY <3>1 DEF F!FifoNext, F!Send
  <2>2. CASE code[t][tpc[t]].op \in Pops
    <3>1. /\ Len(received) < Len(sent)
          /\ received' = Append(received, sent[Len(received) + 1]) /\ sent' = sent /\ QueueInv'
      BY <1>4, <2>2, QueuePop
    <3>2. QED
      BY <3>1 DEF F!FifoNext, F!Receive
  <2>3. CASE code[t][tpc[t]].op \notin Pushes \cup Pops
    BY <1>4, <2>3, QueueLeft DEF F!fvars
  <2>4. QED
    BY <2>1, <2>2, <2>3
<1>5. QED
  BY <1>1, <1>2, <1>3, <1>4, DemoSizes DEF Demo!Next, Threads

\* With as many that fill the queue as that empty it, it is empty at the end and all
\* values came out.
LEMMA QueueRight ==
    ASSUME Placed, demo = "sync_queue", StartInv, QueueInv, tpc[0] > Len(code[0]),
           Workers % 2 = 0
    PROVE  queue = <<>> /\ Len(received) = Turns * (Workers \div 2)
<1> DEFINE h == Workers \div 2
           H == 1..h
<1>1. h \in Nat /\ Workers = 2 * h
  BY DemoSizes
<1> HIDE DEF h
<1>2. IsFiniteSet(H) /\ Cardinality(H) = h
  BY <1>1, FS_Interval
<1>3. Putters = {t \in 1..Workers : t % 2 = 1} /\ demo \in QueueDemos /\ demo \in StartAll
      /\ Started(demo) = Workers
  BY DEF Putters, QueueDemos, StartAll, Started
<1>4. Cardinality(Takers) = h
  <2> DEFINE g == [k \in H |-> 2 * k]
  <2>1. g \in [H -> Takers]
    BY <1>1 DEF Takers
  <2>2. \A a, b \in H : g[a] = g[b] => a = b
    OBVIOUS
  <2>3. ASSUME NEW t \in Takers
        PROVE  \E k \in H : g[k] = t
    <3>1. t \in 1..Workers /\ t % 2 = 0
      BY DEF Takers
    <3>2. (t \div 2) \in H /\ 2 * (t \div 2) = t
      BY <1>1, <3>1
    <3>3. QED
      BY <3>2
  <2> HIDE DEF g, H
  <2>4. ExistsBijection(H, Takers)
    BY <2>1, <2>2, <2>3 DEF ExistsBijection, Bijection, Injection, Surjection, IsInjective
  <2>5. QED
    BY <1>2, <2>4, FS_Bijection
<1>5. Cardinality(Putters) = h
  <2> DEFINE g == [k \in H |-> 2 * k - 1]
  <2>1. g \in [H -> Putters]
    BY <1>1, <1>3
  <2>2. \A a, b \in H : g[a] = g[b] => a = b
    OBVIOUS
  <2>3. ASSUME NEW t \in Putters
        PROVE  \E k \in H : g[k] = t
    <3>1. t \in 1..Workers /\ t % 2 = 1
      BY <1>3
    <3>2. ((t + 1) \div 2) \in H /\ 2 * ((t + 1) \div 2) - 1 = t
      BY <1>1, <3>1
    <3>3. QED
      BY <3>2
  <2> HIDE DEF g, H
  <2>4. ExistsBijection(H, Putters)
    BY <2>1, <2>2, <2>3 DEF ExistsBijection, Bijection, Injection, Surjection, IsInjective
  <2>5. QED
    BY <1>2, <2>4, FS_Bijection
<1>6. ASSUME NEW t \in 1..Workers
      PROVE  tpc[t] \in Nat /\ tpc[t] > 4 * Turns
  <2>1. tpc[t] > Len(code[t])
    BY <1>3, AllEnded
  <2>2. Len(code[t]) = 4 * Turns
    BY QueueCode DEF Placed, Loops
  <2>3. tpc[t] \in Nat
    BY DemoSizes DEF Placed, Coded, Threads
  <2>4. QED
    BY <2>1, <2>2, <2>3
<1>7. Cardinality(Past(tpc, Putters, 2)) = h * Turns
  BY <1>3, <1>5, <1>6, QueueUsers, PastAll
<1>8. Cardinality(Past(tpc, Takers, 1)) = h * Turns
  BY <1>3, <1>4, <1>6, QueueUsers, PastAll
<1>9. Len(sent) = h * Turns /\ Len(received) = h * Turns /\ Len(sent) = Len(received) + Len(queue)
  BY <1>7, <1>8 DEF QueueInv, Holds
<1>10. queue \in Seq(Demo!Values) /\ received \in Seq(Demo!Values)
  BY DEF QueueInv
<1>11. Len(queue) = 0
  BY <1>9, <1>10
<1>12. queue = <<>>
  BY <1>10, <1>11, EmptySeq
<1>13. h * Turns = Turns * h
  BY <1>1, DemoSizes
<1>14. QED
  BY <1>9, <1>12, <1>13 DEF h

\* The other demos have no queue.
LEMMA NoQueue ==
    ASSUME Placed, demo \notin QueueDemos, Demo!Next \/ UNCHANGED demovars
    PROVE  UNCHANGED F!fvars
<1>1. CASE UNCHANGED demovars
  BY <1>1 DEF demovars, F!fvars
<1>2. ASSUME NEW t \in Threads, Demo!spurious(t)
      PROVE  UNCHANGED F!fvars
  BY <1>2 DEF Demo!spurious, F!fvars
<1>3. ASSUME NEW t \in Threads, Demo!Thread(t)
      PROVE  UNCHANGED F!fvars
  <2> DEFINE k == tpc[t]
             o == code[t][k].op
  <2>1. Coded /\ k \in 1..Len(code[t])
    BY <1>3, InCode DEF Placed
  <2>2. o \notin {"push_back", "push_front", "pop_back", "pop_front"}
    <3>1. CASE t = 0 /\ demo \in StartAll
      BY <2>1, <3>1, MainOps
    <3>2. CASE t \in 1..Workers /\ demo = "mutex"
      <4>1. Loops(code[t], Turns, "lock", "load", "store", "unlock")
        BY <2>1, <3>2, MutexCode
      <4>2. o \in {"lock", "load", "store", "unlock"}
        BY <2>1, <4>1, LoopOps, DemoSizes
      <4>3. QED
        BY <4>2
    <3>3. CASE t \in 1..Workers /\ demo = "timed"
      <4>1. Len(code[t]) = 6 /\ \A j \in 1..6 : code[t][j].op \in {"try_lock_for", "nop", "unlock", "goto"}
        BY <2>1, <3>3, TimedCode
      <4>2. QED
        BY <2>1, <4>1
    <3>4. CASE t \in 1..Workers /\ demo = "guard"
      <4>1. Len(code[t]) = 3 /\ \A j \in 1..3 : code[t][j].op \in {"lock", "print", "unlock"}
        BY <2>1, <3>4, GuardCode
      <4>2. QED
        BY <2>1, <4>1
    <3>5. CASE demo = "recursive"
      <4>1. t = 0 \/ t \in 1..Workers
        BY DemoSizes DEF Threads
      <4>2. \A j \in 1..Len(code[t]) : code[t][j].op \in {"lock", "unlock", "mul", "div"}
        <5>1. CASE t = 0
          <6>1. Len(code[0]) = 8 /\ \A j \in 1..8 : j \in {1, 2, 5, 4, 7, 8} \/ j = 3 \/ j = 6
            BY <2>1, <3>5, RecursiveCode
          <6>2. \A j \in 1..8 : code[0][j].op \in {"lock", "unlock", "mul", "div"}
            BY <2>1, <3>5, <6>1, RecursiveCode
          <6>3. QED
            BY <5>1, <6>1, <6>2
        <5>2. CASE t \in 1..Workers
          BY <2>1, <3>5, <5>2, RecursiveCode
        <5>3. QED
          BY <4>1, <5>1, <5>2
      <4>3. QED
        BY <2>1, <4>2
    <3>6. CASE demo \notin {"mutex", "timed", "guard", "recursive"}
      <4>1. Disciplined(t, k) /\ ~Inside(demo, t, k)
        BY <2>1, <3>6, Discipline DEF Inside, QueueDemos
      <4>2. QED
        BY <4>1 DEF Disciplined
    <3>7. t = 0 \/ t \in 1..Workers
      BY DemoSizes DEF Threads
    <3>8. QED
      BY <3>1, <3>2, <3>3, <3>4, <3>5, <3>6, <3>7 DEF StartAll
  <2>3. QED
    BY <1>3, <2>1, <2>2, Leaves DEF F!fvars
<1>4. QED
  BY <1>1, <1>2, <1>3, DemoSizes DEF Demo!Next
-----------------------------------------------------------------------------
(* All demos *)

\* The once_flag and the promises.
SyncTypes == ready \subseteq Threads /\ once \in {"unset", "running", "done"}

\* The inductive invariant: each demo has its own, on top of where its threads are and who
\* has the mutex.
DemoInv ==
    /\ Placed /\ SyncTypes
    /\ demo \in StartAll => StartInv
    /\ demo # "recursive" => MutexInv
    /\ demo = "recursive" => RecursiveInv
    /\ demo = "mutex" => CountInv
    /\ demo = "guard" => GuardInv
    /\ demo = "once" => OnceInv
    /\ demo = "atomic" => AtomicInv
    /\ demo \in {"promise", "future"} => PromiseInv
    /\ demo \in {"thread1", "thread2"} => LentInv
    /\ demo \in QueueDemos => QueueInv

\* It holds when a demo starts.
LEMMA DemoStart ==
    ASSUME Demo!Init
    PROVE  DemoInv
<1>0. /\ Workers \in Nat /\ Workers >= 4 /\ Turns \in Nat /\ Demo!Threads = Threads
      /\ 0 \in Threads /\ 1..Workers \subseteq Threads
  BY DemoSizes DEF Threads
<1>1. /\ demo \in Demos /\ code = Demo!Code(demo) /\ tpc = [t \in Threads |-> IF t = 0 THEN 1 ELSE 0]
      /\ mem = (IF demo \in {"thread1", "thread2"} THEN 10 ELSE 0)
      /\ reg = [t \in Threads |-> 0]
      /\ owner = Workers + 1 /\ depth = 0 /\ asleep = {}
      /\ sent = <<>> /\ received = <<>> /\ queue = <<>>
      /\ once = "unset" /\ ran = 0 /\ ready = {} /\ out = 0
  BY <1>0 DEF Demo!Init, Demo!Main, Demo!Free
<1>2. /\ tpc \in [Threads -> Nat] /\ tpc[0] = 1 /\ \A t \in 1..Workers : tpc[t] = 0
      /\ \A t \in Threads : tpc[t] \in {0, 1}
  <2>1. \A t \in 1..Workers : t # 0
    BY <1>0
  <2>2. QED
    BY <1>0, <1>1, <2>1
<1>3. Placed
  <2>1. Coded
    BY <1>1, <1>2 DEF Coded
  <2>2. \A t \in Threads : Len(code[t]) \in Nat
    BY <2>1, WellFormed
  <2>3. QED
    BY <1>2, <2>1, <2>2 DEF Placed
<1>4. StartInv /\ SyncTypes
  <2>1. Started(demo) \in Nat
    BY <1>0 DEF Started
  <2>2. StartInv
    BY <1>0, <1>2, <2>1 DEF StartInv
  <2>3. QED
    BY <1>1, <2>2 DEF SyncTypes
<1>5. MutexInv
  <2>1. \A t \in Threads : ~Inside(demo, t, tpc[t])
    BY <1>2, StartsOutside
  <2>2. owner \in 0..(Workers + 1) /\ \A t \in Threads : owner # t
    BY <1>0, <1>1 DEF Threads
  <2>3. QED
    BY <1>1, <2>1, <2>2 DEF MutexInv
<1>6. demo = "recursive" => RecursiveInv
  BY <1>1, <1>2 DEF RecursiveInv
<1>7. demo = "mutex" => CountInv
  <2>1. Cardinality(Past(tpc, 1..Workers, 1)) = 0
    BY <1>2, PastNone
  <2>2. \A t \in 1..Workers : tpc[t] % 4 # 3
    BY <1>2
  <2>3. QED
    BY <1>1, <2>1, <2>2 DEF CountInv
<1>8. demo = "guard" => GuardInv
  <2>1. Printed(tpc) = {}
    BY <1>2 DEF Printed
  <2>2. QED
    BY <1>1, <2>1, FS_EmptySet DEF GuardInv
<1>9. demo = "once" => OnceInv
  BY <1>1, <1>2 DEF OnceInv
<1>10. demo = "atomic" => AtomicInv
  <2>1. tpc[1] = 0
    BY <1>0, <1>2
  <2>2. QED
    BY <1>1, <2>1 DEF AtomicInv
<1>11. demo \in {"promise", "future"} => PromiseInv
  BY <1>0, <1>1, <1>2 DEF PromiseInv
<1>12. demo \in {"thread1", "thread2"} => LentInv
  <2>1. tpc[Lent] = 0 /\ Lends \in {1, 5} /\ \A t \in 2..Workers : tpc[t] = 0
    BY <1>0, <1>2 DEF Lent, Lends
  <2>2. QED
    BY <1>1, <1>2, <2>1 DEF LentInv
<1>13. demo \in QueueDemos => QueueInv
  <2>1. ASSUME demo \in QueueDemos
        PROVE  Cardinality(Past(tpc, Putters, 2)) = 0 /\ Cardinality(Past(tpc, Takers, 1)) = 0
    <3>1. (\A u \in Putters : tpc[u] = 0) /\ \A u \in Takers : tpc[u] = 0
      BY <1>2, <2>1, QueueUsers
    <3>2. QED
      BY <3>1, PastNone
  <2>2. /\ sent \in Seq(Demo!Values) /\ received \in Seq(Demo!Values) /\ queue \in Seq(Demo!Values)
        /\ Len(sent) = 0 /\ Len(received) = 0 /\ Len(queue) = 0
    BY <1>1
  <2>3. Holds(demo, sent, received, queue)
    BY <2>2 DEF Holds
  <2>4. \A t \in 1..Workers : ~AtPop(t)
    BY <1>2 DEF AtPop
  <2>5. QED
    BY <2>1, <2>2, <2>3, <2>4 DEF QueueInv
<1>14. QED
  BY <1>3, <1>4, <1>5, <1>6, <1>7, <1>8, <1>9, <1>10, <1>11, <1>12, <1>13 DEF DemoInv

\* Every step keeps the flag and the promises in their domains.
LEMMA SyncKept ==
    ASSUME Placed, SyncTypes, Demo!Next \/ UNCHANGED demovars
    PROVE  SyncTypes'
<1>1. CASE UNCHANGED demovars
  BY <1>1 DEF SyncTypes, demovars
<1>2. ASSUME NEW t \in Threads, Demo!spurious(t)
      PROVE  SyncTypes'
  BY <1>2 DEF SyncTypes, Demo!spurious, Demo!syncvars
<1>3. ASSUME NEW t \in Threads, Demo!Thread(t)
      PROVE  SyncTypes'
  <2> DEFINE o == code[t][tpc[t]].op
  <2>1. Coded /\ tpc[t] \in 1..Len(code[t])
    BY <1>3, InCode DEF Placed
  <2>2. CASE o = "set_value"
    <3>1. Demo!set_value(t)
      BY <1>3, <2>1, <2>2, Dispatch
    <3>2. QED
      BY <3>1 DEF SyncTypes, Demo!set_value
  <2>3. CASE o = "get"
    <3>1. Demo!get(t)
      BY <1>3, <2>1, <2>3, Dispatch
    <3>2. Demo!Arg(t) \in Threads
      BY <2>1, <2>3, WellFormed DEF InRange, Demo!Arg
    <3>3. QED
      BY <3>1, <3>2 DEF SyncTypes, Demo!get
  <2>4. CASE o = "call_once"
    <3>1. Demo!call_once(t)
      BY <1>3, <2>1, <2>4, Dispatch
    <3>2. QED
      BY <3>1 DEF SyncTypes, Demo!call_once
  <2>5. CASE o \in {"return", "throw"}
    <3>1. Demo!once_ends(t)
      BY <1>3, <2>1, <2>5, Dispatch
    <3>2. QED
      BY <3>1 DEF SyncTypes, Demo!once_ends
  <2>6. CASE o \notin {"set_value", "get", "call_once", "return", "throw"}
    BY <1>3, <2>1, <2>6, Leaves DEF SyncTypes
  <2>7. QED
    BY <2>2, <2>3, <2>4, <2>5, <2>6
<1>4. QED
  BY <1>1, <1>2, <1>3, DemoSizes DEF Demo!Next

\* A demo stays the demo it is.
LEMMA SameDemo ==
    ASSUME Coded, Demo!Next \/ UNCHANGED demovars
    PROVE  demo' = demo
<1>1. CASE UNCHANGED demovars
  BY <1>1 DEF demovars
<1>2. ASSUME NEW t \in Threads, Demo!spurious(t)
      PROVE  demo' = demo
  BY <1>2 DEF Demo!spurious
<1>3. ASSUME NEW t \in Threads, Demo!Thread(t)
      PROVE  demo' = demo
  BY <1>3, Dispatch
<1>4. QED
  BY <1>1, <1>2, <1>3, DemoSizes DEF Demo!Next

\* Every step of a demo keeps the invariant.
LEMMA DemoKept ==
    ASSUME DemoInv, Demo!Next \/ UNCHANGED demovars
    PROVE  DemoInv'
<1>1. Placed /\ SyncTypes /\ demo' = demo
  BY SameDemo DEF DemoInv, Placed
<1>2. Placed' /\ SyncTypes'
  BY <1>1, PlacedKept, SyncKept
<1>3. demo \in StartAll => StartInv /\ StartInv'
  BY <1>1, StartKept DEF DemoInv
<1>4. demo # "recursive" => MutexInv /\ MutexInv'
  BY <1>1, <1>3, MutexKept DEF DemoInv
<1>5. demo = "recursive" => RecursiveInv'
  BY <1>1, RecursiveKept DEF DemoInv
<1>6. demo = "mutex" => CountInv'
  BY <1>1, <1>3, <1>4, CountKept DEF DemoInv, StartAll
<1>7. demo = "guard" => GuardInv'
  BY <1>1, <1>3, GuardKept DEF DemoInv, StartAll
<1>8. demo = "once" => OnceInv'
  BY <1>1, <1>3, OnceKept DEF DemoInv, StartAll
<1>9. demo = "atomic" => AtomicInv'
  BY <1>1, <1>3, AtomicKept DEF DemoInv, StartAll
<1>10. demo \in {"promise", "future"} => PromiseInv'
  BY <1>1, PromiseKept DEF DemoInv
<1>11. demo \in {"thread1", "thread2"} => LentInv'
  BY <1>1, LentKept DEF DemoInv
<1>12. demo \in QueueDemos => QueueInv'
  <2>1. demo \in QueueDemos => demo \in StartAll /\ demo # "recursive"
    BY DEF QueueDemos, StartAll
  <2>2. QED
    BY <1>1, <1>3, <1>4, <2>1, QueueKept DEF DemoInv
<1>13. QED
  BY <1>1, <1>2, <1>3, <1>4, <1>5, <1>6, <1>7, <1>8, <1>9, <1>10, <1>11, <1>12 DEF DemoInv

\* The domains follow; who unlocks has the mutex.
LEMMA DemoTypes ==
    ASSUME DemoInv
    PROVE  Demo!TypeOK
<1>0. /\ Workers \in Nat /\ Workers >= 4 /\ Demo!Threads = Threads /\ Coded /\ 0 \in Threads
      /\ \A t \in Threads : t = 0 \/ t \in 1..Workers
  BY DemoSizes DEF DemoInv, Placed, Threads
<1>1. owner \in 0..(Workers + 1) /\ depth \in 0..3 /\ asleep \subseteq Threads
  <2>1. CASE demo # "recursive"
    BY <2>1 DEF DemoInv, MutexInv
  <2>2. CASE demo = "recursive"
    BY <1>0, <2>2 DEF DemoInv, RecursiveInv
  <2>3. QED
    BY <2>1, <2>2
<1>2. ASSUME NEW t \in Threads, Demo!At(t, "unlock")
      PROVE  owner = t
  <2>1. tpc[t] \in 1..Len(code[t]) /\ code[t][tpc[t]].op = "unlock" /\ Len(code[t]) \in Nat
    BY <1>0, <1>2, WellFormed DEF Demo!At, Demo!Started, Demo!Ended, DemoInv, Placed
  <2>2. CASE demo # "recursive"
    <3>1. Disciplined(t, tpc[t])
      BY <1>0, <2>1, <2>2, Discipline
    <3>2. Inside(demo, t, tpc[t]) /\ code[t][tpc[t]].op # "wait"
      BY <2>1, <3>1 DEF Disciplined
    <3>3. QED
      BY <2>2, <3>2 DEF DemoInv, MutexInv
  <2>3. CASE demo = "recursive"
    <3>1. t = 0
      BY <1>0, <2>1, <2>3 DEF DemoInv, RecursiveInv
    <3>2. tpc[0] \notin {1, 9}
      <4>1. Len(code[0]) = 8 /\ code[0][1].op = "lock"
        BY <1>0, <2>3, RecursiveCode
      <4>2. QED
        BY <2>1, <3>1, <4>1
    <3>3. depth # 0
      BY <2>3, <3>2 DEF DemoInv, RecursiveInv
    <3>4. QED
      BY <2>3, <3>1, <3>3 DEF DemoInv, RecursiveInv
  <2>4. QED
    BY <2>2, <2>3
<1>3. QED
  BY <1>0, <1>1, <1>2 DEF Demo!TypeOK, Demo!Free, DemoInv, SyncTypes, Placed, Coded

\* So does the absence of data races: a thread that writes has the mutex, or is alone, or
\* main() waits for it.
LEMMA DemoRaces ==
    ASSUME DemoInv
    PROVE  Demo!NoDataRace
<1> DEFINE Wr == {"store", "mul", "div", "push_back", "push_front", "pop_front", "pop_back"}
           o(t) == code[t][tpc[t]].op
           Runs(t) == tpc[t] \in 1..Len(code[t])
<1>0. /\ Demo!Threads = Threads /\ Coded /\ 0 \in Threads /\ 1..Workers \subseteq Threads
      /\ \A t \in Threads : t = 0 \/ t \in 1..Workers
  BY DemoSizes DEF DemoInv, Placed, Threads
<1>1. SUFFICES ASSUME NEW t \in Threads, NEW u \in Threads, t # u, Runs(t), Runs(u),
                      o(t) \in Wr, o(u) \in Wr \cup {"load"}
               PROVE  FALSE
  <2>1. ASSUME NEW v \in Threads, NEW p, Demo!At(v, p)
        PROVE  Runs(v) /\ o(v) = p
    BY <1>0, <2>1, WellFormed DEF Demo!At, Demo!Started, Demo!Ended, DemoInv, Placed
  <2> HIDE DEF Runs, o
  <2>2. QED
    BY <1>0, <2>1 DEF Demo!NoDataRace
<1>2. CASE demo \in StartAll
  <2>1. demo # "recursive" /\ MutexInv
    BY <1>2 DEF DemoInv, StartAll
  <2>2. Disciplined(t, tpc[t]) /\ Disciplined(u, tpc[u])
    BY <1>0, <1>1, <2>1, Discipline
  <2>3. Inside(demo, t, tpc[t]) /\ o(t) # "wait"
    BY <1>1, <1>2, <2>2 DEF Disciplined
  <2>4. Inside(demo, u, tpc[u]) /\ o(u) # "wait"
    BY <1>1, <1>2, <2>2 DEF Disciplined
  <2>5. QED
    BY <1>1, <2>1, <2>3, <2>4 DEF MutexInv
<1>3. CASE demo = "recursive"
  <2>1. t = 0 /\ u = 0
    BY <1>0, <1>1, <1>3 DEF DemoInv, RecursiveInv
  <2>2. QED
    BY <1>1, <2>1
<1>4. CASE demo \in {"promise", "future", "task"}
  <2>1. CASE t = 0 /\ demo = "promise"
    BY <1>0, <1>1, <2>1, PromiseCode
  <2>2. CASE t = 0 /\ demo = "future"
    BY <1>0, <1>1, <2>2, PromiseCode
  <2>3. CASE t = 0 /\ demo = "task"
    BY <1>0, <1>1, <2>3, PromiseCode
  <2>4. CASE t \in 1..Workers
    <3>1. CASE demo = "task"
      <4>1. Len(code[t]) = 0
        BY <1>0, <1>4, <2>4, <3>1, PromiseCode
      <4>2. QED
        BY <1>1, <4>1
    <3>2. CASE demo # "task"
      <4>1. Len(code[t]) = 1 /\ code[t][1].op = "set_value"
        BY <1>0, <1>4, <2>4, <3>2, PromiseCode
      <4>2. tpc[t] = 1
        BY <1>1, <4>1
      <4>3. QED
        BY <1>1, <4>1, <4>2
    <3>3. QED
      BY <3>1, <3>2
  <2>5. QED
    BY <1>0, <1>4, <2>1, <2>2, <2>3, <2>4
<1>5. CASE demo \in {"thread1", "thread2"}
  <2>1. LentInv /\ Lent \in 1..Workers /\ Lent # 0 /\ Lends \in Nat
    <3>1. Lent \in {1, 2} /\ Lends \in {1, 5}
      BY <1>0, <1>5, LentBoth
    <3>2. QED
      BY <1>5, <3>1, DemoSizes DEF DemoInv
  <2>2. ASSUME NEW v \in Threads, v # 0, v # Lent, Runs(v), o(v) \in Wr \cup {"load"}
        PROVE  FALSE
    <3>1. v \in 1..Workers
      BY <1>0, <2>2
    <3>2. demo = "thread2"
      <4>1. demo = "thread1" => v \in 2..Workers
        BY <2>2, <3>1, DemoSizes DEF Lent
      <4>2. QED
        BY <1>5, <2>1, <2>2, <4>1 DEF LentInv
    <3>3. o(v) \in {"print", "nop"}
      BY <1>0, <2>2, <3>1, <3>2, LentBoth
    <3>4. QED
      BY <2>2, <3>3
  <2>3. t # 0
    <3>1. t = 0 => o(t) \in {"spawn", "join", "load", "nop"}
      BY <1>0, <1>1, <1>5, LentBoth
    <3>2. QED
      BY <1>1, <3>1
  <2>4. t = Lent
    BY <1>1, <2>2, <2>3
  <2>5. u = 0
    BY <1>1, <2>2, <2>4
  <2>6. o(0) = "load"
    <3>1. o(0) \in {"spawn", "join", "load", "nop"}
      BY <1>0, <1>1, <1>5, <2>5, LentBoth
    <3>2. QED
      BY <1>1, <2>5, <3>1
  <2>7. tpc[0] = Lends + 2
    BY <1>0, <1>1, <1>5, <2>5, <2>6, LentBoth
  <2>8. tpc[Lent] = 3
    BY <2>1, <2>7 DEF LentInv
  <2>9. Len(code[Lent]) = 2
    BY <1>0, <1>5, LentBoth
  <2>10. QED
    BY <1>1, <2>4, <2>8, <2>9
<1>6. demo \in Demo!AllDemos
  BY <1>0, LibraryAssumption DEF Coded
<1>7. QED
  BY <1>2, <1>3, <1>4, <1>5, <1>6 DEF Demo!AllDemos, StartAll

\* So does the result.
LEMMA DemoResults ==
    ASSUME DemoInv, Workers % 2 = 0
    PROVE  Demo!RightResult
<1>1. SUFFICES ASSUME tpc[0] > Len(code[0])
               PROVE  Demo!RightResult
  BY DEF Demo!RightResult, Demo!Ended, Demo!Main
<1>2. Placed /\ Coded
  BY DEF DemoInv, Placed
<1>3. demo = "mutex" => mem = Workers * Turns
  BY <1>1, <1>2, CountRight DEF DemoInv, StartAll
<1>4. demo = "recursive" => mem = 0 /\ owner = Workers + 1
  <2>1. ASSUME demo = "recursive"
        PROVE  mem = 0 /\ owner = Workers + 1
    <3>1. RecursiveInv /\ Len(code[0]) = 8
      BY <1>2, <2>1, RecursiveCode DEF DemoInv
    <3>2. tpc[0] = 9
      BY <1>1, <3>1 DEF RecursiveInv
    <3>3. QED
      BY <3>1, <3>2 DEF RecursiveInv
  <2>2. QED
    BY <2>1
<1>5. demo = "guard" => out = Workers /\ owner = Workers + 1
  BY <1>1, <1>2, GuardRight DEF DemoInv, StartAll
<1>6. demo = "sync_queue" => queue = <<>> /\ Len(received) = Turns * (Workers \div 2)
  BY <1>1, <1>2, QueueRight DEF DemoInv, StartAll, QueueDemos
<1>7. demo = "once" => ran = 1
  BY <1>1, <1>2, OnceRight DEF DemoInv, StartAll
<1>8. demo \in {"promise", "future"} => ready = {1, 2}
  BY <1>1, <1>2, PromiseRight DEF DemoInv
<1>9. demo = "atomic" => reg[1] = 10
  BY <1>1, <1>2, AtomicRight DEF DemoInv, StartAll
<1>10. demo \in {"thread1", "thread2"} => reg[0] = 20
  BY <1>1, <1>2, LentRight DEF DemoInv
<1>11. QED
  BY <1>3, <1>4, <1>5, <1>6, <1>7, <1>8, <1>9, <1>10
  DEF Demo!RightResult, Demo!Main, Demo!Free
-----------------------------------------------------------------------------
(* The theorems about the demos, and about all parts *)

\* Every variable of the part that runs stays in its domain; among them the place of every
\* thread in its code, and the owner of the mutex, who alone unlocks it.
THEOREM TypeCorrect == Spec => []TypeOK
<1> DEFINE I == /\ part \in Parts
                /\ part = "stream" => StreamInv
                /\ part = "rtt" => RttInv
                /\ part = "endpoint" => EndpointInv /\ Flags
                /\ part = "demo" => DemoInv
<1>1. Init => I
  <2>1. Sock!Init => Flags
    BY Zenon DEF Sock!Init, Flags
  <2>2. QED
    BY <2>1, StreamStart, RttStart, EndpointStart, DemoStart DEF Init
<1>2. I /\ [Next]_vars => I'
  BY OnePart, StreamKeeps, RttKeeps, EndpointKeeps, FlagsKeep, DemoKept
<1>3. I => TypeOK
  <2> SUFFICES ASSUME I
               PROVE  TypeOK
    OBVIOUS
  <2>1. part = "stream" => IO!TypeOK
    BY DEF StreamInv, StreamTypes, RunsInv, IO!TypeOK
  <2>2. part = "rtt" => Timer!TypeOK
    BY DEF RttInv, Timer!TypeOK
  <2>3. part = "endpoint" => Sock!TypeOK
    BY Zenon DEF EndpointInv, EndpointTypes, Flags, Sock!TypeOK
  <2>4. part = "demo" => Demo!TypeOK
    BY DemoTypes
  <2>5. QED
    BY <2>1, <2>2, <2>3, <2>4 DEF TypeOK
<1>4. QED
  BY <1>1, <1>2, <1>3, PTL DEF Spec

\* The demos have no data race: whoever is about to write the shared variable or the
\* queue has the mutex, runs alone, or is joined before anyone else reads; for every
\* number of threads and turns.
THEOREM NoDataRaceHolds == Spec => []NoDataRace
<1> DEFINE I == part = "demo" => DemoInv
<1>1. Init => I
  BY DemoStart DEF Init
<1>2. I /\ [Next]_vars => I'
  BY OnePart, DemoKept
<1>3. I => NoDataRace
  BY DemoRaces DEF NoDataRace
<1>4. QED
  BY <1>1, <1>2, <1>3, PTL DEF Spec

\* When main() ends it has what its demo is about, in particular every increment of every
\* thread, and every value through the queue; for every number of turns and, as
\* demo2_sync_queue.cpp starts a consumer for every producer, every even number of threads.
THEOREM RightResultHolds ==
    ASSUME Workers % 2 = 0
    PROVE  Spec => []RightResult
<1> DEFINE I == part = "demo" => DemoInv
<1>1. Init => I
  BY DemoStart DEF Init
<1>2. I /\ [Next]_vars => I'
  BY OnePart, DemoKept
<1>3. I => RightResult
  BY DemoResults DEF RightResult
<1>4. QED
  BY <1>1, <1>2, <1>3, PTL DEF Spec

\* SimpleSyncQueue and the queue of demo5_unique_lock.cpp implement Fifo: of all values
\* that go in none is lost, doubled or overtaken, for every number of threads and turns.
THEOREM QueueRefinement == Spec => RefinesFifo
<1> DEFINE I == part = "demo" => DemoInv
<1>1. Init => I /\ F!FifoInit
  BY DemoStart DEF Init, NoDemo, Demo!Init, F!FifoInit
<1>2. I /\ [Next]_vars => I'
  BY OnePart, DemoKept
<1>3. ASSUME I, [Next]_vars
      PROVE  [F!FifoNext]_(F!fvars)
  <2>1. CASE part # "demo"
    BY <1>3, <2>1, OnePart DEF demovars, F!fvars
  <2>2. CASE part = "demo" /\ demo \in QueueDemos
    <3>1. Placed /\ StartInv /\ MutexInv /\ QueueInv
      BY <1>3, <2>2 DEF DemoInv, QueueDemos, StartAll
    <3>2. QED
      BY <1>3, <2>2, <3>1, OnePart, QueueKept
  <2>3. CASE part = "demo" /\ demo \notin QueueDemos
    <3>1. Placed
      BY <1>3, <2>3 DEF DemoInv
    <3>2. QED
      BY <1>3, <2>3, <3>1, OnePart, NoQueue
  <2>4. QED
    BY <2>1, <2>2, <2>3
<1>4. QED
  BY <1>1, <1>2, <1>3, PTL DEF Spec, RefinesFifo, F!FifoSpec
=============================================================================
