----------------------------- MODULE EchoClient -----------------------------
(***************************************************************************)
(* The echo clients, str_cli() of network/echo/d1, d3, d4 and d5 and the   *)
(* callbacks of libev/demo1_echo_client.cpp, joined by two socket buffers  *)
(* of limited size to a server that runs str_echo() of basic_lib.          *)
(*                                                                         *)
(* client is the client; input what its standard input is.  The streams   *)
(* are unchanged by both sides, so they are counted, in units of which a   *)
(* line, or one read(), takes up to Chunk; a write blocks while the buffer *)
(* is full.  The server may be killed; a write to it is then answered by a *)
(* reset, and the next one raises SIGPIPE.                                 *)
(***************************************************************************)
EXTENDS Integers

CONSTANTS
    Programs,       \* the clients to look at
    Inputs,         \* the kinds of standard input to look at
    Chunk,          \* BUFFER_LENGTH
    Cap,            \* how much a socket buffer holds
    MaxTyped        \* bound: how much is typed

EchoClientAssumption ==
    /\ Programs \subseteq {"line", "select", "poll", "epoll", "libev"}
    /\ Inputs \subseteq {"tty", "pipe", "file"}
    /\ Chunk \in Nat \ {0} /\ MaxTyped \in Nat
    /\ Cap \in Nat /\ Cap >= 3 * Chunk - 1     \* 1024 bytes, of tens of thousands

VARIABLES
    client, input,
    typed,          \* what was typed so far
    ended,          \* standard input has ended
    newline,        \* and its last line with a '\n'
    taken,          \* what the client read of it
    chunk,          \* what Writen() has yet to write
    stdineof,       \* stdineof
    ready,          \* what select(), poll() or epoll_wait() reported
    pc,            \* where the client is
    out,            \* what the client printed
    c2s, s2c,       \* the socket buffers
    closed,         \* the client has shut down its direction
    sbuf,           \* what the server read and has yet to write
    spc,            \* where the server is
    killed,         \* the server was killed
    rst             \* the client's connection was reset

uservars == <<typed, ended, newline>>
clientvars == <<taken, chunk, stdineof, ready, pc, out, closed>>
servervars == <<sbuf, spc, killed>>
vars == <<client, input, uservars, clientvars, c2s, s2c, servervars, rst>>

\* Socket() and Connect(): the server has accepted and nothing is on its way.
Connected ==
    /\ c2s = 0 /\ s2c = 0 /\ closed = FALSE /\ rst = FALSE
    /\ sbuf = 0 /\ spc = "read" /\ killed = FALSE

\* str_cli() before its first turn, the two watchers started: nothing was read.
Fresh ==
    /\ taken = 0 /\ chunk = 0 /\ stdineof = FALSE /\ ready = {} /\ out = 0
    /\ pc = "wait"

Init ==
    /\ client \in Programs /\ input \in Inputs
    /\ typed = 0 /\ ended = FALSE /\ newline = TRUE
    /\ Connected /\ Fresh

-----------------------------------------------------------------------------
(* The user *)

type ==
    /\ ~ended /\ typed < MaxTyped
    /\ typed' = typed + 1
    /\ UNCHANGED <<client, input, ended, newline, clientvars, c2s, s2c, servervars, rst>>

\* What was typed last and not read yet need not be a whole line; only the line
\* client, which is waiting for one, can tell.
end_of_input ==
    /\ ~ended
    /\ ended' = TRUE
    /\ newline' \in IF client = "line" /\ taken < typed THEN BOOLEAN ELSE {TRUE}
    /\ UNCHANGED <<client, input, typed, clientvars, c2s, s2c, servervars, rst>>

-----------------------------------------------------------------------------
(* The server: str_echo(), and what may happen to it *)

\* read() of a socket returns what there is, up to Chunk.
Read(n) == IF n < Chunk THEN n ELSE Chunk

sread ==
    /\ spc = "read" /\ c2s > 0
    /\ sbuf' = Read(c2s) /\ c2s' = c2s - Read(c2s)
    /\ spc' = "write"
    /\ UNCHANGED <<client, input, uservars, clientvars, s2c, killed, rst>>

swrite ==
    /\ spc = "write" /\ pc \notin {"done", "quit"} /\ s2c < Cap
    /\ s2c' = s2c + 1
    /\ sbuf' = sbuf - 1
    /\ spc' = IF sbuf' = 0 THEN "read" ELSE "write"
    /\ UNCHANGED <<client, input, uservars, clientvars, c2s, killed, rst>>

\* read() returns 0 and the server ends; or the client is gone and Writen() fails.
sexit ==
    /\ \/ spc = "read" /\ c2s = 0 /\ closed
       \/ spc = "write" /\ pc \in {"done", "quit"}
    /\ spc' = "gone"
    /\ UNCHANGED <<client, input, uservars, clientvars, c2s, s2c, sbuf, killed, rst>>

\* The server is killed; what it had not read turns the end into a reset.
skill ==
    /\ spc # "gone"
    /\ spc' = "gone" /\ killed' = TRUE
    /\ rst' = (c2s > 0)
    /\ c2s' = 0
    /\ UNCHANGED <<client, input, uservars, clientvars, s2c, sbuf>>

-----------------------------------------------------------------------------
(* The client *)

\* poll() and epoll report the end of a pipe as a hang-up, which the clients do
\* not test for, and epoll does not take regular files.
SeesInput ==
    /\ ~stdineof
    /\ ~(client = "epoll" /\ input = "file")
    /\ \/ taken < typed
       \/ ended /\ ~(client \in {"poll", "epoll"} /\ input = "pipe")

SeesSocket == s2c > 0 \/ spc = "gone"

\* The wait of the event loops reports what is ready.
wait ==
    /\ client # "line" /\ pc = "wait"
    /\ ready' = {x \in {"sock"} : SeesSocket} \cup {x \in {"stdin"} : SeesInput}
    /\ ready' # {}
    /\ pc' = "handle"
    /\ UNCHANGED <<client, input, uservars, taken, chunk, stdineof, out, closed>>
    /\ UNCHANGED <<c2s, s2c, servervars, rst>>

\* select and poll test the socket first; epoll and libev report in any order.
MayHandle(x) ==
    /\ pc = "handle" /\ x \in ready
    /\ client \in {"select", "poll"} /\ x = "stdin" => "sock" \notin ready

\* Mutant: one event is handled in a turn.
HandledOne(x, then) ==
    /\ ready' = {}
    /\ pc' = IF then = "handle" THEN "wait" ELSE then

\* x is done with; the loop goes on with then, or waits when nothing is left.
Handled(x, then) ==
    /\ ready' = ready \ {x}
    /\ pc' = IF then = "handle" /\ ready' = {} THEN "wait" ELSE then

\* The socket has data: print it.
sock_data ==
    /\ MayHandle("sock")
    /\ s2c > 0
    /\ s2c' = s2c - Read(s2c) /\ out' = out + Read(s2c)
    /\ Handled("sock", "handle")
    /\ UNCHANGED <<client, input, uservars, taken, chunk, stdineof, closed, c2s, servervars, rst>>

\* Mutant: the end of the server is taken for a normal end.
sock_end_normal ==
    /\ MayHandle("sock")
    /\ spc = "gone" /\ (s2c = 0 \/ rst)
    /\ Handled("sock", "done")
    /\ closed' = TRUE
    /\ UNCHANGED <<client, input, uservars, taken, chunk, stdineof, out, c2s, s2c, servervars, rst>>

\* read() returns 0 or -1: return, or "server terminated prematurely".
sock_end ==
    /\ client # "libev" /\ MayHandle("sock")
    /\ spc = "gone" /\ (s2c = 0 \/ rst)
    /\ Handled("sock", IF stdineof THEN "done" ELSE "quit")
    /\ closed' = TRUE
    /\ UNCHANGED <<client, input, uservars, taken, chunk, stdineof, out, c2s, s2c, servervars, rst>>

\* conn_cb(): the descriptor is closed, the loop goes on without it.
conn_cb_end ==
    /\ client = "libev" /\ MayHandle("sock")
    /\ spc = "gone" /\ (s2c = 0 \/ rst)
    /\ Handled("sock", "deaf")
    /\ closed' = TRUE
    /\ UNCHANGED <<client, input, uservars, taken, chunk, stdineof, out, c2s, s2c, servervars, rst>>

\* Input has come: write all of it to the server.
stdin_data ==
    /\ client # "line" /\ MayHandle("stdin")
    /\ \E n \in 1..Chunk : taken + n <= typed /\ taken' = taken + n /\ chunk' = n
    /\ Handled("stdin", "write")
    /\ UNCHANGED <<client, input, uservars, stdineof, out, closed, c2s, s2c, servervars, rst>>

\* Mutant: the client ends with its input.
stdin_end_exits ==
    /\ MayHandle("stdin")
    /\ ended /\ taken = typed
    /\ stdineof' = TRUE
    /\ closed' = TRUE
    /\ Handled("stdin", "done")
    /\ UNCHANGED <<client, input, uservars, taken, chunk, out, c2s, s2c, servervars, rst>>

\* Mutant: the connection is not shut down.
stdin_end_open ==
    /\ client # "libev" /\ MayHandle("stdin")
    /\ ended /\ taken = typed
    /\ stdineof' = TRUE
    /\ Handled("stdin", "handle")
    /\ UNCHANGED <<client, input, uservars, taken, chunk, out, closed, c2s, s2c, servervars, rst>>

\* Standard input has ended: shut down, and go on until the server ends, too.
stdin_end ==
    /\ client # "libev" /\ MayHandle("stdin")
    /\ ended /\ taken = typed
    /\ stdineof' = TRUE
    /\ closed' = TRUE
    /\ Handled("stdin", "handle")
    /\ UNCHANGED <<client, input, uservars, taken, chunk, out, c2s, s2c, servervars, rst>>

\* stdin_cb() writes nothing at the end of its input, and is called again.
stdin_cb_end ==
    /\ client = "libev" /\ MayHandle("stdin")
    /\ ended /\ taken = typed
    /\ Handled("stdin", "handle")
    /\ UNCHANGED <<client, input, uservars, taken, chunk, stdineof, out, closed>>
    /\ UNCHANGED <<c2s, s2c, servervars, rst>>

\* stdin_cb() goes on reading after conn_cb() closed the descriptor; write() fails.
stdin_cb_deaf ==
    /\ pc = "deaf" /\ taken < typed
    /\ taken' = taken + 1
    /\ UNCHANGED <<client, input, uservars, chunk, stdineof, ready, pc, out, closed>>
    /\ UNCHANGED <<c2s, s2c, servervars, rst>>

\* Writen(): one unit goes into the buffer, or to a server that is gone.
AfterWrite == IF client = "line" THEN "answer" ELSE IF ready = {} THEN "wait" ELSE "handle"

write ==
    /\ pc = "write" /\ ~rst
    /\ IF spc = "gone" THEN rst' = TRUE /\ UNCHANGED c2s
       ELSE c2s < Cap /\ c2s' = c2s + 1 /\ UNCHANGED rst
    /\ chunk' = chunk - 1
    /\ pc' = IF chunk' = 0 THEN AfterWrite ELSE "write"
    /\ UNCHANGED <<client, input, uservars, taken, stdineof, ready, out, closed, s2c, servervars>>

\* Writing to a connection that was reset raises SIGPIPE.
sigpipe ==
    /\ pc = "write" /\ rst
    /\ pc' = "quit" /\ closed' = TRUE
    /\ UNCHANGED <<client, input, uservars, taken, chunk, stdineof, ready, out>>
    /\ UNCHANGED <<c2s, s2c, servervars, rst>>

\* Fgets() of the line client; a line is one unit, the last one with or without its '\n'.
Fgets ==
    /\ client = "line" /\ pc = "wait"
    /\ \/ taken < typed /\ taken' = taken + 1 /\ chunk' = 1 /\ pc' = "write" /\ UNCHANGED closed
       \/ /\ ended /\ taken = typed /\ pc' = "done" /\ closed' = TRUE
          /\ UNCHANGED <<taken, chunk>>
    /\ UNCHANGED <<client, input, uservars, stdineof, ready, out, c2s, s2c, servervars, rst>>

\* The line that was sent last, and is to come back, has its '\n'.
Whole == newline \/ taken < typed

\* Readline() of the answer, and Fputs().  It returns at a '\n', or with what it has when
\* the connection ends: an echo that is no whole line is held until then.
Readline ==
    /\ pc = "answer"
    /\ \/ /\ s2c > 0 /\ (Whole \/ (spc = "gone" /\ ~rst))
          /\ s2c' = s2c - 1 /\ out' = out + 1 /\ pc' = "wait" /\ UNCHANGED closed
       \/ /\ spc = "gone" /\ (s2c = 0 \/ rst)
          /\ pc' = "quit" /\ closed' = TRUE /\ UNCHANGED <<s2c, out>>
    /\ UNCHANGED <<client, input, uservars, taken, chunk, stdineof, ready, c2s, servervars, rst>>

Client ==
    \/ wait \/ sock_data \/ sock_end \/ conn_cb_end
    \/ stdin_data \/ stdin_end \/ stdin_cb_end \/ stdin_cb_deaf
    \/ write \/ sigpipe \/ Fgets \/ Readline

Server == sread \/ swrite \/ sexit

User == type \/ end_of_input

Next == User \/ Client \/ Server \/ skill
-----------------------------------------------------------------------------
(* Properties *)

\* Every variable stays in its domain; no buffer holds more than it can.
TypeOK ==
    /\ client \in Programs /\ input \in Inputs
    /\ typed \in 0..MaxTyped /\ taken \in 0..typed /\ out \in 0..taken
    /\ {ended, newline, stdineof, closed, killed, rst} \subseteq BOOLEAN
    /\ chunk \in 0..Chunk /\ sbuf \in 0..Chunk
    /\ c2s \in 0..Cap /\ s2c \in 0..Cap
    /\ ready \subseteq {"sock", "stdin"}
    /\ pc \in {"wait", "handle", "write", "answer", "done", "quit", "deaf"}
    /\ spc \in {"read", "write", "gone"}

\* What the client read is accounted for at every moment until the server is killed
\* or a write is refused: it waits in Writen(), is in a buffer or in the server, or
\* was printed.  So a client that returns normally has printed all of it, although
\* the end of its input overtakes the echoes; and it reports that the server
\* terminated prematurely only of a server that was killed.
EndsRight ==
    /\ ~killed /\ pc \notin {"quit"} => taken = chunk + c2s + sbuf + s2c + out
    /\ pc = "done" /\ ~killed => out = typed
    /\ pc = "quit" => killed

\* Client and server are never both stuck in a write, each waiting for the other to
\* empty a full buffer.
NoMutualBlock ==
    ~(pc = "write" /\ c2s = Cap /\ spc = "write" /\ s2c = Cap)

\* The client learns of the end of its input.
Hears ==
    /\ client # "libev"
    /\ input = "pipe" => client \notin {"poll", "epoll"}
    /\ input = "file" => client # "epoll"

\* The line client holds all that the server echoed, which is not a whole line, and waits
\* for the rest of it; the server waits for more to echo.
HalfLine ==
    /\ client = "line" /\ pc = "answer" /\ ~Whole
    /\ s2c = 1 /\ spc = "read" /\ c2s = 0 /\ ~closed

=============================================================================
