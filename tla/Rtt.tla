-------------------------------- MODULE Rtt --------------------------------
(***************************************************************************)
(* The retransmission timer of basic_lib/rtt.c, driven the way its         *)
(* comments ask for: rtt_init() once; for every packet rtt_newpack(), then *)
(* alarm(rtt_start()) with every transmission, and rtt_stop() when the     *)
(* answer comes or rtt_timeout() when the alarm does.                      *)
(*                                                                         *)
(* Times are floats in the code.  Here they are integers, in 1/Sec of a    *)
(* second, which is exact as long as at most three answers come.           *)
(***************************************************************************)
EXTENDS Integers

CONSTANTS
    Samples,        \* the round-trip times that occur, in seconds
    MaxPackets,     \* bound: how many packets are sent
    MaxStops        \* bound: how many of them are answered

Sec == 512
RTT_RXTMIN == 2 * Sec
RTT_RXTMAX == 60 * Sec
RTT_MAXNREXMT == 3

VARIABLES
    rpc,                            \* where the caller is
    rtt_srtt, rtt_rttvar, rtt_rto,  \* struct rtt_info
    rtt_nrexmt,
    packets, stops, sends           \* packets so far, answered; transmissions of this one

vars == <<rpc, rtt_srtt, rtt_rttvar, rtt_rto, rtt_nrexmt, packets, stops, sends>>

RTT_RTOCALC(srtt, rttvar) == srtt + 4 * rttvar

\* Mutant: short timeouts are left as they are.
rtt_minmax_max(rto) == IF rto > RTT_RXTMAX THEN RTT_RXTMAX ELSE rto

rtt_minmax(rto) ==
    IF rto < RTT_RXTMIN THEN RTT_RXTMIN
    ELSE IF rto > RTT_RXTMAX THEN RTT_RXTMAX ELSE rto

\* rtt_init()
Init ==
    /\ rpc = "idle"
    /\ rtt_srtt = 0 /\ rtt_rttvar = (3 * Sec) \div 4
    /\ rtt_rto = rtt_minmax(RTT_RTOCALC(rtt_srtt, rtt_rttvar))
    /\ rtt_nrexmt = 0           \* rtt_newpack() is called before it is used
    /\ packets = 0 /\ stops = 0 /\ sends = 0

\* The seconds alarm() is called with, rounded.
rtt_start == (rtt_rto + Sec \div 2) \div Sec

\* Mutant: the count is that of all packets.
rtt_newpack_keeps ==
    /\ rpc = "idle" /\ packets < MaxPackets
    /\ packets' = packets + 1 /\ sends' = 1
    /\ rpc' = "wait"
    /\ UNCHANGED <<rtt_srtt, rtt_rttvar, rtt_rto, rtt_nrexmt, stops>>

rtt_newpack ==
    /\ rpc = "idle" /\ packets < MaxPackets
    /\ rtt_nrexmt' = 0
    /\ packets' = packets + 1 /\ sends' = 1
    /\ rpc' = "wait"
    /\ UNCHANGED <<rtt_srtt, rtt_rttvar, rtt_rto, stops>>

Abs(x) == IF x < 0 THEN -x ELSE x

\* The answer came; the estimators follow the measured time.
rtt_stop(rtt) ==
    /\ rpc = "wait" /\ stops < MaxStops
    /\ LET delta == rtt * Sec - rtt_srtt
       IN  /\ rtt_srtt' = rtt_srtt + delta \div 8
           /\ rtt_rttvar' = rtt_rttvar + (Abs(delta) - rtt_rttvar) \div 4
    /\ rtt_rto' = rtt_minmax(RTT_RTOCALC(rtt_srtt', rtt_rttvar'))
    /\ stops' = stops + 1
    /\ rpc' = "idle"
    /\ UNCHANGED <<rtt_nrexmt, packets, sends>>

\* The alarm came: the next timeout is twice as long; send again or give up.
rtt_timeout ==
    /\ rpc = "wait"
    /\ rtt_rto' = 2 * rtt_rto
    /\ rtt_nrexmt' = rtt_nrexmt + 1
    /\ IF rtt_nrexmt' > RTT_MAXNREXMT THEN rpc' = "gaveup" /\ UNCHANGED sends
       ELSE rpc' = "wait" /\ sends' = sends + 1
    /\ UNCHANGED <<rtt_srtt, rtt_rttvar, packets, stops>>

\* The caller goes on with the next packet.
go_on ==
    /\ rpc = "gaveup"
    /\ rpc' = "idle"
    /\ UNCHANGED <<rtt_srtt, rtt_rttvar, rtt_rto, rtt_nrexmt, packets, stops, sends>>

Next == rtt_newpack \/ rtt_timeout \/ go_on \/ \E rtt \in Samples : rtt_stop(rtt)
-----------------------------------------------------------------------------
(* Properties *)

\* Every variable stays in its domain.
TypeOK ==
    /\ rpc \in {"idle", "wait", "gaveup"}
    /\ {rtt_srtt, rtt_rttvar, rtt_rto} \subseteq Nat
    /\ rtt_nrexmt \in 0..(RTT_MAXNREXMT + 1)

\* Whatever is measured, a transmission is always guarded by an alarm of at least
\* RTT_RXTMIN (alarm(0) would wait for ever); and a packet is given up exactly after
\* its last allowed transmission, however many packets came before it.
RetransmitsRight ==
    /\ rtt_start >= RTT_RXTMIN \div Sec
    /\ sends <= RTT_MAXNREXMT + 1
    /\ rpc = "gaveup" => sends = RTT_MAXNREXMT + 1

\* unprtt.h calls RTT_RXTMAX the "max retransmit timeout value".  rtt_timeout()
\* doubles past it, and over again with every packet that is given up.
TimeoutIsBounded == rtt_rto <= RTT_RXTMAX
=============================================================================
