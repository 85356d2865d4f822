------------------------------ MODULE SyncQueue ------------------------------
(***************************************************************************)
(* The bounded queue SyncQueue<T> of condition_variable/                   *)
(* sync_queue_by_lock_guard.h, used by the threads of demo1_sync_queue.cpp.*)
(* The demo has one thread of each kind; the class allows any number, and  *)
(* that is what is modelled: every producer runs PutDatas(), every consumer*)
(* runs TakeDatas(), and main() joins them.                                *)
(*                                                                         *)
(* _mutex is held from the first line of Put() and Take() to the last,     *)
(* except inside wait(), so a step is what happens between two points at   *)
(* which the mutex is free.                                                *)
(***************************************************************************)
EXTENDS Naturals, Sequences, FiniteSets

CONSTANTS
    Producers,  \* threads running PutDatas()
    Consumers,  \* threads running TakeDatas()
    MaxSize,    \* _maxSize
    Items       \* how often each of the two loops turns

ASSUME SyncQueueAssumption ==
    /\ IsFiniteSet(Producers) /\ IsFiniteSet(Consumers)
    /\ Producers \cap Consumers = {}
    /\ Cardinality(Producers) = Cardinality(Consumers)
    /\ MaxSize \in Nat \ {0}
    /\ Items \in Nat

VARIABLES
    queue,      \* _queue
    pc,         \* where each thread is
    loop,       \* the loop variable i of each thread
    main,       \* what main() is doing
    sent,       \* history: the values put, in order
    taken       \* history: the values taken, in order

vars == <<queue, pc, loop, main, sent, taken>>

Threads == Producers \cup Consumers

\* A value is told apart by who put it and in which turn of the loop.
Values == Producers \X (0..Items)

(* ready, about to lock _mutex at the start of Put() or Take(); asleep, in   *)
(* wait(); woken, notified and about to lock again; done, the thread's       *)
(* function returned.                                                        *)
PC == {"ready", "asleep", "woken", "done"}

\* Mutant: the loop turns once too often.
LoopTopOneMore(n) == IF n <= Items THEN "ready" ELSE "done"

LoopTop(n) == IF n < Items THEN "ready" ELSE "done"

Init ==
    /\ queue = <<>>
    /\ pc = [t \in Threads |-> LoopTop(0)]
    /\ loop = [t \in Threads |-> 0]
    /\ main = "join"
    /\ sent = <<>>
    /\ taken = <<>>

IsFull == Len(queue) = MaxSize

IsEmpty == queue = <<>>

Sleepers(S) == {t \in S : pc[t] = "asleep"}

\* Mutant: the notification is forgotten.
NextTurnSilent(t, S) ==
    /\ loop' = [loop EXCEPT ![t] = @ + 1]
    /\ pc' = [pc EXCEPT ![t] = LoopTop(loop[t] + 1)]

\* t goes on with the next turn of its loop, and one of the threads of S asleep
\* in the condition variable that t notifies, if there is any, wakes up.
NextTurnNotifying(t, S) ==
    /\ loop' = [loop EXCEPT ![t] = @ + 1]
    /\ \/ /\ Sleepers(S) = {}
          /\ pc' = [pc EXCEPT ![t] = LoopTop(loop[t] + 1)]
       \/ \E u \in Sleepers(S) :
             pc' = [pc EXCEPT ![t] = LoopTop(loop[t] + 1), ![u] = "woken"]

-----------------------------------------------------------------------------
\* Put() finds the queue full, on entry or after a wake-up: _notFull.wait().
Put_wait(p) ==
    /\ pc[p] \in {"ready", "woken"}
    /\ IsFull
    /\ pc' = [pc EXCEPT ![p] = "asleep"]
    /\ UNCHANGED <<queue, loop, main, sent, taken>>

\* Mutant: `if' for `while', a woken producer does not look again.
Put_if(p) ==
    /\ pc[p] \in {"ready", "woken"}
    /\ pc[p] = "ready" => ~IsFull
    /\ queue' = Append(queue, <<p, loop[p]>>)
    /\ sent' = Append(sent, <<p, loop[p]>>)
    /\ NextTurnNotifying(p, Consumers)
    /\ UNCHANGED <<main, taken>>

\* Put() appends the value and notifies _notEmpty.
Put(p) ==
    /\ pc[p] \in {"ready", "woken"}
    /\ ~IsFull
    /\ queue' = Append(queue, <<p, loop[p]>>)
    /\ sent' = Append(sent, <<p, loop[p]>>)
    /\ NextTurnNotifying(p, Consumers)
    /\ UNCHANGED <<main, taken>>

\* Take() finds the queue empty: _notEmpty.wait().
Take_wait(c) ==
    /\ pc[c] \in {"ready", "woken"}
    /\ IsEmpty
    /\ pc' = [pc EXCEPT ![c] = "asleep"]
    /\ UNCHANGED <<queue, loop, main, sent, taken>>

\* Mutant: pop_back() for pop_front().
Take_back(c) ==
    /\ pc[c] \in {"ready", "woken"}
    /\ ~IsEmpty
    /\ taken' = Append(taken, Head(queue))
    /\ queue' = SubSeq(queue, 1, Len(queue) - 1)
    /\ NextTurnNotifying(c, Producers)
    /\ UNCHANGED <<main, sent>>

\* Mutant: Take() notifies _notEmpty, the condition variable of its own kind.
Take_wrong_cond(c) ==
    /\ pc[c] \in {"ready", "woken"}
    /\ ~IsEmpty
    /\ taken' = Append(taken, Head(queue))
    /\ queue' = Tail(queue)
    /\ NextTurnNotifying(c, Consumers)
    /\ UNCHANGED <<main, sent>>

\* Take() removes the first value and notifies _notFull.
Take(c) ==
    /\ pc[c] \in {"ready", "woken"}
    /\ ~IsEmpty
    /\ taken' = Append(taken, Head(queue))
    /\ queue' = Tail(queue)
    /\ NextTurnNotifying(c, Producers)
    /\ UNCHANGED <<main, sent>>

\* A thread may leave wait() without a notification.
spurious(t) ==
    /\ pc[t] = "asleep"
    /\ pc' = [pc EXCEPT ![t] = "woken"]
    /\ UNCHANGED <<queue, loop, main, sent, taken>>

\* main() has joined every thread and returns.
main_finish ==
    /\ main = "join"
    /\ \A t \in Threads : pc[t] = "done"
    /\ main' = "done"
    /\ UNCHANGED <<queue, pc, loop, sent, taken>>

\* The program has ended.
Ended == main = "done" /\ UNCHANGED vars

PutDatas(p) == Put_wait(p) \/ Put(p)
TakeDatas(c) == Take_wait(c) \/ Take(c)

Next ==
    \/ \E p \in Producers : PutDatas(p)
    \/ \E c \in Consumers : TakeDatas(c)
    \/ \E t \in Threads : spurious(t)
    \/ main_finish
    \/ Ended

Spec == Init /\ [][Next]_vars

\* Every thread that can lock _mutex gets it in the end; join() returns.
Fairness ==
    /\ \A p \in Producers : WF_vars(PutDatas(p))
    /\ \A c \in Consumers : WF_vars(TakeDatas(c))
    /\ WF_vars(main_finish)

FairSpec == Spec /\ Fairness

-----------------------------------------------------------------------------
(* Properties *)

\* Every variable stays in its domain; no loop turns more than Items times.
TypeOK ==
    /\ queue \in Seq(Values)
    /\ pc \in [Threads -> PC]
    /\ loop \in [Threads -> 0..Items]
    /\ main \in {"join", "done"}
    /\ sent \in Seq(Values)
    /\ taken \in Seq(Values)

\* IsFull() compares with ==, so that one value too many would switch the bound
\* off: the queue never holds more than MaxSize values.
Bounded == Len(queue) <= MaxSize

\* What consumers took, followed by what is queued, is what producers put: no
\* value is lost, duplicated or reordered.
InOrder == sent = taken \o queue

Woken(S) == {t \in S : pc[t] = "woken"}

\* notify_one() is enough: while a consumer sleeps, every queued value has a
\* woken consumer that will come for it, and while a producer sleeps, every free
\* place has a woken producer.
EnoughWakeups ==
    /\ Sleepers(Consumers) # {} => Len(queue) <= Cardinality(Woken(Consumers))
    /\ Sleepers(Producers) # {} =>
          MaxSize - Len(queue) <= Cardinality(Woken(Producers))

\* Producers and consumers never wait for each other: when both kinds sleep,
\* somebody has been notified.
NoMutualWait ==
    Sleepers(Producers) # {} /\ Sleepers(Consumers) # {} => Woken(Threads) # {}

\* The queue keeps the promise stated in Fifo.
Channel == INSTANCE Fifo WITH Capacity <- MaxSize, received <- taken

RefinesFifo == Channel!FifoSpec

\* main() gets to its end.
Finishes == <>(main = "done")
=============================================================================
