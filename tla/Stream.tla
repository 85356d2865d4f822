------------------------------- MODULE Stream -------------------------------
(***************************************************************************)
(* readn(), writen() and readline() of basic_lib, on descriptors whose     *)
(* read() and write() transfer any part of what is asked for, are          *)
(* interrupted, and fail.  A byte is a pair: its descriptor and its place  *)
(* in that descriptor's stream.                                            *)
(*                                                                         *)
(* my_read() reads ahead into one static buffer for all descriptors; the   *)
(* caller turns to another one when readlinebuf() says that it is empty.   *)
(***************************************************************************)
EXTENDS Integers, Sequences

CONSTANTS
    Fds,            \* the descriptors
    Calls,          \* the functions to look at
    N,              \* n of readn() and writen(), maxlen of readline()
    ReadBuf,        \* sizeof(read_buf)
    Newlines,       \* where the newlines are in a stream
    StreamLength    \* bound: how long a stream gets

VARIABLES
    func, sfd,      \* the function that is called, and on which descriptor
    iopc,           \* "in" a call, "idle" or, after err_sys(), "dead"
    arrived, over,  \* per descriptor, what its peer has sent; whether that was all
    pos,            \* per descriptor, how much read() has taken
    nleft,          \* nleft of readn() and writen()
    read_buf,       \* what my_read() has ahead: read_cnt bytes at read_ptr
    got,            \* what the call has read or written so far
    returned,       \* what it returned
    had             \* per descriptor, how much earlier calls read or wrote

vars == <<func, sfd, iopc, arrived, over, pos, nleft, read_buf, got, returned, had>>

Init ==
    /\ func \in Calls /\ sfd \in Fds /\ iopc = "idle"
    /\ arrived = [f \in Fds |-> 0] /\ over = [f \in Fds |-> FALSE]
    /\ pos = [f \in Fds |-> 0] /\ had = [f \in Fds |-> 0]
    /\ nleft = 0 /\ read_buf = <<>> /\ got = <<>> /\ returned = 0

\* The peer of a descriptor sends a byte, or ends the stream.
peer(f) ==
    /\ ~over[f]
    /\ \/ arrived[f] < StreamLength /\ arrived' = [arrived EXCEPT ![f] = @ + 1] /\ UNCHANGED over
       \/ over' = [over EXCEPT ![f] = TRUE] /\ UNCHANGED arrived
    /\ UNCHANGED <<func, sfd, iopc, pos, nleft, read_buf, got, returned, had>>

\* Mutant: nothing is left in the buffer.
readlinebuf_zero == 0

readlinebuf == Len(read_buf)

call(f) ==
    /\ iopc = "idle" /\ (f = sfd \/ readlinebuf = 0)
    /\ sfd' = f /\ iopc' = "in"
    /\ had' = [had EXCEPT ![sfd] = @ + Len(got)]
    /\ func = "writen" => had'[f] + N <= StreamLength
    /\ nleft' = N /\ got' = <<>> /\ returned' = 0
    /\ UNCHANGED <<func, arrived, over, pos, read_buf>>

Available == arrived[sfd] - pos[sfd]
AtEnd == over[sfd] /\ Available = 0
Bytes(from, n) == [k \in 1..n |-> <<sfd, from + k>>]

Return(r) == iopc' = "idle" /\ returned' = r

\* The tail of both loops: nleft and ptr move by what was transferred.
Advance(n) ==
    /\ nleft' = nleft - n
    /\ IF nleft' = 0 THEN Return(N) ELSE UNCHANGED <<iopc, returned>>

\* Mutant: the -1 of an interrupted call is counted.
Interrupted_counted == -1

\* nread and nwritten after EINTR.
Interrupted == 0

readn ==
    /\ func = "readn" /\ iopc = "in"
    /\ \/ \E n \in 1..nleft :
             /\ n <= Available
             /\ got' = SubSeq(got, 1, N - nleft) \o Bytes(pos[sfd], n)
             /\ pos' = [pos EXCEPT ![sfd] = @ + n]
             /\ Advance(n)
       \/ Advance(Interrupted) /\ UNCHANGED <<got, pos>>
       \/ AtEnd /\ Return(N - nleft) /\ UNCHANGED <<got, pos, nleft>>
    /\ UNCHANGED <<func, sfd, arrived, over, read_buf, had>>

writen ==
    /\ func = "writen" /\ iopc = "in"
    /\ \/ \E n \in 1..nleft : got' = got \o Bytes(had[sfd] + N - nleft, n) /\ Advance(n)
       \/ Advance(Interrupted) /\ UNCHANGED got
    /\ UNCHANGED <<func, sfd, arrived, over, pos, read_buf, had>>

\* read() fails, or write() fails or returns 0: -1, and the wrapper exits.
fails ==
    /\ iopc = "in"
    /\ func = "readline" => read_buf = <<>>
    /\ iopc' = "dead" /\ returned' = -1
    /\ UNCHANGED <<func, sfd, arrived, over, pos, nleft, read_buf, got, had>>

\* The buffer is empty: read() fills it.
my_read_fill ==
    /\ func = "readline" /\ iopc = "in" /\ read_buf = <<>>
    /\ \E n \in 1..ReadBuf :
          /\ n <= Available
          /\ read_buf' = Bytes(pos[sfd], n)
          /\ pos' = [pos EXCEPT ![sfd] = @ + n]
    /\ UNCHANGED <<func, sfd, iopc, arrived, over, nleft, got, returned, had>>

\* One turn of readline()'s loop; when it ends without a newline, n is maxlen.
readline ==
    /\ func = "readline" /\ iopc = "in" /\ read_buf # <<>>
    /\ LET c == Head(read_buf)
           n == Len(got) + 1
       IN  /\ got' = Append(got, c)
           /\ IF c[2] \in Newlines THEN Return(n)
              ELSE IF n + 1 = N THEN Return(N) ELSE UNCHANGED <<iopc, returned>>
    /\ read_buf' = Tail(read_buf)
    /\ UNCHANGED <<func, sfd, arrived, over, pos, nleft, had>>

readline_eof ==
    /\ func = "readline" /\ iopc = "in" /\ read_buf = <<>> /\ AtEnd
    /\ Return(Len(got))
    /\ UNCHANGED <<func, sfd, arrived, over, pos, nleft, read_buf, got, had>>

Next ==
    \/ \E f \in Fds : peer(f) \/ call(f)
    \/ readn \/ writen \/ fails \/ my_read_fill \/ readline \/ readline_eof
-----------------------------------------------------------------------------
(* Properties *)

\* Every variable stays in its domain.
TypeOK ==
    /\ func \in Calls /\ sfd \in Fds /\ iopc \in {"idle", "in", "dead"}
    /\ \A f \in Fds : pos[f] \in 0..arrived[f] /\ arrived[f] <= StreamLength
    /\ nleft \in 0..N /\ Len(read_buf) <= ReadBuf /\ returned \in -1..N

\* A call reads or writes the bytes that follow those of the calls before it on the
\* same descriptor, none twice, none left out and none of another descriptor's,
\* however the transfers are cut up and interrupted and whatever was read ahead.
InPlace == \A k \in DOMAIN got : got[k] = <<sfd, had[sfd] + k>>

\* A call that returns has done its work: all N bytes unless the stream has ended; a
\* line up to its newline.  The result counts the bytes, except that readline()
\* returns one more for a line that does not fit.
ReturnsRight ==
    iopc = "idle" /\ returned # 0 =>
        /\ func = "writen" => Len(got) = N
        /\ func = "readn" => Len(got) = returned /\ (returned = N \/ AtEnd)
        /\ func = "readline" =>
              LET line == got[Len(got)][2] \in Newlines
              IN  /\ \A k \in 1..(Len(got) - 1) : got[k][2] \notin Newlines
                  /\ line \/ AtEnd \/ Len(got) = N - 1
                  /\ returned \in {Len(got), Len(got) + 1}
                  /\ line \/ Len(got) < N - 1 => returned = Len(got)
=============================================================================
