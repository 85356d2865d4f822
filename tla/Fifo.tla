-------------------------------- MODULE Fifo --------------------------------
(***************************************************************************)
(* What a queue between threads promises, without locks or wake-ups: the   *)
(* values come out in the order in which they went in, none lost, none     *)
(* twice, and at most Capacity of them are inside at any time.             *)
(***************************************************************************)
EXTENDS Naturals, Sequences

CONSTANTS
    Values,     \* what may be sent
    Capacity    \* how many values fit

VARIABLES
    sent,       \* everything that went in, in order
    received    \* everything that came out, in order

fvars == <<sent, received>>

FifoInit == sent = <<>> /\ received = <<>>

Send(x) ==
    /\ Len(sent) - Len(received) < Capacity
    /\ sent' = Append(sent, x)
    /\ UNCHANGED received

Receive ==
    /\ Len(received) < Len(sent)
    /\ received' = Append(received, sent[Len(received) + 1])
    /\ UNCHANGED sent

FifoNext == Receive \/ \E x \in Values : Send(x)

FifoSpec == FifoInit /\ [][FifoNext]_fvars
=============================================================================
