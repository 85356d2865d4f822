------------------------------ MODULE Endpoint ------------------------------
(***************************************************************************)
(* The functions of basic_lib that open a connection or an end of one:     *)
(* tcp_connect(), tcp_listen(), udp_connect(), udp_server() and            *)
(* udp_client() walk the list getaddrinfo() returned; connect_nonb() and   *)
(* connect_timeo() put a time limit on connect() of a socket they are      *)
(* given.  Only connect_alarm() and the network interrupt them.            *)
(***************************************************************************)
EXTENDS Integers

CONSTANTS
    Opens,      \* the functions to look at
    Addresses   \* how many addresses getaddrinfo() returns at most

VARIABLES
    fn,                 \* the function
    epc,                \* where it is; "ok", "error" (-1) and "quit" (err_sys()) end it
    res, last,          \* the address it tries; how many there are
    fds,                \* the open sockets: each is known by the address it is for
    usable,             \* the socket that was connected, bound or just created
    tcp,                \* the connection of the timed functions, as the kernel sees it
    nonblock,           \* O_NONBLOCK
    handler,            \* connect_alarm() is installed
    alarm,              \* whose alarm is set: its "own", the "caller"'s, or it is "off"
    errno               \* why it failed

vars == <<fn, epc, res, last, fds, usable, tcp, nonblock, handler, alarm, errno>>
timedvars == <<tcp, nonblock, handler, alarm, errno>>

Timed == {"connect_nonb", "connect_timeo"}

\* The timed functions are given a socket; the caller of connect_timeo() may have an
\* alarm of its own pending.
Init ==
    /\ fn \in Opens
    /\ last \in 1..Addresses /\ (fn \in Timed => last = 1)
    /\ epc = "socket" /\ res = 1
    /\ fds = IF fn \in Timed THEN {1} ELSE {}
    /\ usable = 0 /\ tcp = "closed"
    /\ nonblock = FALSE /\ handler = FALSE /\ errno = "none"
    /\ alarm \in IF fn = "connect_timeo" THEN {"off", "caller"} ELSE {"off"}

-----------------------------------------------------------------------------
(* The loops over the addresses *)

\* res = res->ai_next, and err_sys() after the last one.
NextAddress ==
    /\ res' = IF res < last THEN res + 1 ELSE 0
    /\ epc' = IF res' = 0 THEN "quit" ELSE "socket"

Listed(f) == fn = f /\ UNCHANGED <<fn, last, timedvars>>

socket ==
    /\ epc = "socket"
    /\ fds' = fds \cup {res} /\ epc' = "try"
    /\ UNCHANGED <<res, usable>>

\* "ignore this one"
socket_fails ==
    /\ epc = "socket"
    /\ NextAddress
    /\ UNCHANGED <<fds, usable>>

\* connect() or bind(): "success"
works(pc) ==
    /\ epc = "try"
    /\ usable' = res /\ epc' = pc
    /\ UNCHANGED <<res, fds>>

\* Mutant: the socket is left open.
fails_leaks ==
    /\ epc = "try"
    /\ NextAddress
    /\ UNCHANGED <<fds, usable>>

\* "ignore this one": the socket is closed.
fails ==
    /\ epc = "try"
    /\ fds' = fds \ {res}
    /\ NextAddress
    /\ UNCHANGED usable

tcp_connect == Listed("tcp_connect") /\ (socket \/ socket_fails \/ works("ok") \/ fails)
udp_connect == Listed("udp_connect") /\ (socket \/ socket_fails \/ works("ok") \/ fails)
udp_server == Listed("udp_server") /\ (socket \/ socket_fails \/ works("ok") \/ fails)

\* Setsockopt() and Listen() quit when they fail.
tcp_listen ==
    /\ Listed("tcp_listen")
    /\ \/ socket \/ socket_fails \/ works("listen") \/ fails
       \/ epc = "listen" /\ epc' = "ok" /\ UNCHANGED <<res, fds, usable>>
       \/ epc \in {"try", "listen"} /\ epc' = "quit" /\ UNCHANGED <<res, fds, usable>>

\* A socket is all that is needed.
udp_client ==
    /\ Listed("udp_client")
    /\ \/ /\ epc = "socket"
          /\ fds' = fds \cup {res} /\ usable' = res
          /\ epc' = "ok" /\ UNCHANGED res
       \/ socket_fails

-----------------------------------------------------------------------------
(* The network, for the functions with a time limit *)

syn_answered ==
    /\ tcp = "connecting"
    /\ tcp' \in {"connected", "refused"}
    /\ UNCHANGED <<fn, epc, res, last, fds, usable, nonblock, handler, alarm, errno>>

Leave(pc, shut) ==
    /\ epc' = pc
    /\ fds' = IF shut THEN {} ELSE fds
    /\ usable' = IF pc = "ok" THEN 1 ELSE 0

-----------------------------------------------------------------------------
(* connect_nonb() *)

\* O_NONBLOCK and connect(): in progress, done at once, or failed at once, which
\* leaves the socket open and non-blocking.
nonb_connect ==
    /\ fn = "connect_nonb" /\ epc = "socket"
    /\ nonblock' = TRUE
    /\ \/ tcp' = "connecting" /\ epc' = "select" /\ UNCHANGED <<fds, usable, errno>>
       \/ tcp' = "connected" /\ epc' = "done" /\ UNCHANGED <<fds, usable, errno>>
       \/ tcp' = "refused" /\ errno' = "connect" /\ Leave("error", FALSE)
    /\ UNCHANGED <<fn, res, last, handler, alarm>>

\* Select() returns 0 in nsec seconds.
nonb_timeout ==
    /\ fn = "connect_nonb" /\ epc = "select"
    /\ tcp = "connecting"
    /\ tcp' = "closed" /\ errno' = "ETIMEDOUT" /\ Leave("error", TRUE)
    /\ UNCHANGED <<fn, res, last, nonblock, handler, alarm>>

\* Mutant: a writable socket is a connected one.
nonb_select_writable ==
    /\ fn = "connect_nonb" /\ epc = "select" /\ tcp # "connecting"
    /\ epc' = "done"
    /\ UNCHANGED <<fn, res, last, fds, usable, tcp, nonblock, handler, alarm, errno>>

\* The socket is readable or writable: SO_ERROR says which of the two it is.  When
\* getsockopt() fails the socket is left open and non-blocking.
nonb_select ==
    /\ fn = "connect_nonb" /\ epc = "select" /\ tcp # "connecting"
    /\ \/ /\ epc' = "done" /\ UNCHANGED <<fds, usable>>
          /\ errno' = IF tcp = "refused" THEN "SO_ERROR" ELSE errno
       \/ errno' = "getsockopt" /\ Leave("error", FALSE)
    /\ UNCHANGED <<fn, res, last, tcp, nonblock, handler, alarm>>

\* The flags are restored; after an error the socket is closed.
nonb_done ==
    /\ fn = "connect_nonb" /\ epc = "done"
    /\ nonblock' = FALSE
    /\ IF errno = "none" THEN Leave("ok", FALSE) ELSE Leave("error", TRUE)
    /\ UNCHANGED <<fn, res, last, tcp, handler, alarm, errno>>

-----------------------------------------------------------------------------
(* connect_timeo() *)

\* Signal() and alarm(), which replaces the caller's alarm: "alarm was already set" is
\* printed and nothing else.
timeo_alarm ==
    /\ fn = "connect_timeo" /\ epc = "socket"
    /\ handler' = TRUE /\ alarm' = "own"
    /\ epc' = "connect"
    /\ UNCHANGED <<fn, res, last, fds, usable, tcp, nonblock, errno>>

timeo_connect ==
    /\ fn = "connect_timeo" /\ epc = "connect"
    /\ tcp' = "connecting" /\ epc' = "blocked"
    /\ UNCHANGED <<fn, res, last, fds, usable, nonblock, handler, alarm, errno>>

\* SIGALRM: connect_alarm() interrupts connect() if it has begun; before and after
\* that it has no effect.
connect_alarm ==
    /\ alarm = "own"
    /\ alarm' = "off"
    /\ IF epc = "blocked" THEN errno' = "EINTR" /\ epc' = "return"
       ELSE UNCHANGED <<errno, epc>>
    /\ UNCHANGED <<fn, res, last, fds, usable, tcp, nonblock, handler>>

timeo_returns ==
    /\ epc = "blocked" /\ tcp # "connecting"
    /\ errno' = IF tcp = "refused" THEN "connect" ELSE errno
    /\ epc' = "return"
    /\ UNCHANGED <<fn, res, last, fds, usable, tcp, nonblock, handler, alarm>>

\* Mutant: the alarm stays set.
timeo_return_armed ==
    /\ fn = "connect_timeo" /\ epc = "return"
    /\ errno' = IF errno = "EINTR" THEN "ETIMEDOUT" ELSE errno
    /\ handler' = FALSE
    /\ IF errno = "none" THEN Leave("ok", FALSE) /\ UNCHANGED tcp
       ELSE Leave("error", TRUE) /\ tcp' = "closed"
    /\ UNCHANGED <<fn, res, last, nonblock, alarm>>

\* After an error the socket is closed; the alarm is turned off, the handler restored.
timeo_return ==
    /\ fn = "connect_timeo" /\ epc = "return"
    /\ errno' = IF errno = "EINTR" THEN "ETIMEDOUT" ELSE errno
    /\ alarm' = "off" /\ handler' = FALSE
    /\ IF errno = "none" THEN Leave("ok", FALSE) /\ UNCHANGED tcp
       ELSE Leave("error", TRUE) /\ tcp' = "closed"
    /\ UNCHANGED <<fn, res, last, nonblock>>

connect_nonb == nonb_connect \/ nonb_timeout \/ nonb_select \/ nonb_done
connect_timeo == timeo_alarm \/ timeo_connect \/ timeo_returns \/ timeo_return

Function ==
    \/ tcp_connect \/ tcp_listen \/ udp_connect \/ udp_server \/ udp_client
    \/ connect_nonb \/ connect_timeo

Next == Function \/ syn_answered \/ connect_alarm
-----------------------------------------------------------------------------
(* Properties *)

\* Every variable stays in its domain.
TypeOK ==
    /\ fn \in Opens /\ last \in 1..Addresses /\ res \in 0..last
    /\ fds \subseteq 1..last /\ usable \in 0..last
    /\ epc \in {"socket", "try", "listen", "select", "done", "connect", "blocked", "return",
                "ok", "error", "quit"}
    /\ tcp \in {"closed", "connecting", "connected", "refused"}
    /\ nonblock \in BOOLEAN /\ handler \in BOOLEAN /\ alarm \in {"off", "own", "caller"}

\* The functions that make the socket, however many addresses fail: success leaves one
\* socket open, the connected, bound or created one, and err_sys() after the last address
\* none.  (tcp_listen() may quit with one open, when Setsockopt() or Listen() fails.)
MakesOne ==
    /\ epc = "ok" => fds = {usable} /\ usable # 0
    /\ epc = "quit" /\ fn # "tcp_listen" => fds = {}

\* The functions that are given the socket, whatever races with the time limit: success
\* leaves it open, connected and blocking.  connect_timeo() closes it when it fails;
\* connect_nonb() closes it after a timeout or a refusal that came later, but leaves it
\* open and non-blocking when connect() fails at once or getsockopt() fails.
ConnectsGiven ==
    /\ epc = "ok" => fds = {1} /\ tcp = "connected" /\ ~nonblock
    /\ epc = "error" /\ fn = "connect_timeo" => fds = {}
    /\ epc = "error" /\ fn = "connect_nonb" =>
          IF errno \in {"connect", "getsockopt"} THEN fds = {1} /\ nonblock ELSE fds = {}

\* After connect_timeo() no alarm is pending, neither its own nor one its caller had set
\* before, which is lost; and connect_alarm() is not installed any more.
NoAlarmLeft == epc \in {"ok", "error"} => alarm = "off" /\ ~handler

OpensRight ==
    /\ fn \notin Timed => MakesOne
    /\ fn \in Timed => ConnectsGiven
    /\ NoAlarmLeft

=============================================================================
