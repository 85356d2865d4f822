--------------------------- MODULE SyncQueueProofs ---------------------------
(***************************************************************************)
(* Proofs that SyncQueue is bounded, first-in first-out and loses no       *)
(* wake-up, for any number of producers, consumers, places and items.      *)
(***************************************************************************)
EXTENDS SyncQueue, Integers, FiniteSetTheorems, SequenceTheorems, TLAPS

\* A thread's loop variable tells whether it has returned.
LoopInv == \A t \in Threads : pc[t] = "done" <=> loop[t] = Items

IInv == TypeOK /\ LoopInv /\ Bounded /\ InOrder /\ EnoughWakeups

-----------------------------------------------------------------------------
(* Sequences *)

\* Appending to the right operand of a concatenation appends to the whole.
LEMMA ConcatAppend ==
    ASSUME NEW S, NEW s \in Seq(S), NEW q \in Seq(S), NEW x \in S
    PROVE  s \o Append(q, x) = Append(s \o q, x)
  OBVIOUS

\* Moving the head of q to the end of s does not change their concatenation.
LEMMA ConcatMove ==
    ASSUME NEW S, NEW s \in Seq(S), NEW q \in Seq(S), q # <<>>
    PROVE  Append(s, Head(q)) \o Tail(q) = s \o q
<1> DEFINE a == Append(s, Head(q)) \o Tail(q)
           b == s \o q
<1>1. Head(q) \in S /\ Tail(q) \in Seq(S) /\ Len(Tail(q)) = Len(q) - 1 /\ Len(q) > 0
  OBVIOUS
<1>2. Append(s, Head(q)) \in Seq(S) /\ Len(Append(s, Head(q))) = Len(s) + 1
  BY <1>1
<1>3. a \in Seq(S) /\ b \in Seq(S) /\ Len(a) = Len(b)
  BY <1>1, <1>2
<1>4. \A i \in 1..Len(b) : a[i] = b[i]
  BY <1>1, <1>2
<1>5. QED
  BY <1>3, <1>4, SeqEqual

-----------------------------------------------------------------------------
(* Wake-ups *)

\* One element more or less changes a cardinality by at most one.
LEMMA CardinalityChange ==
    ASSUME NEW S, IsFiniteSet(S), NEW x
    PROVE  /\ Cardinality(S) <= Cardinality(S \cup {x})
           /\ Cardinality(S \cup {x}) \in Nat
           /\ Cardinality(S) - 1 <= Cardinality(S \ {x})
           /\ Cardinality(S \ {x}) \in Nat
<1>1. Cardinality(S) \in Nat /\ IsFiniteSet(S \cup {x}) /\ IsFiniteSet(S \ {x})
  BY FS_CardinalityType, FS_AddElement, FS_RemoveElement
<1>2. Cardinality(S \cup {x}) \in Nat /\ Cardinality(S \ {x}) \in Nat
  BY <1>1, FS_CardinalityType
<1>3. Cardinality(S) <= Cardinality(S \cup {x})
  BY <1>1, FS_AddElement
<1>4. Cardinality(S) - 1 <= Cardinality(S \ {x})
  BY <1>1, FS_RemoveElement
<1>5. QED
  BY <1>2, <1>3, <1>4

\* The notified threads of either kind are finitely many.
LEMMA WokenFinite ==
    /\ IsFiniteSet(Woken(Producers)) /\ Cardinality(Woken(Producers)) \in Nat
    /\ IsFiniteSet(Woken(Consumers)) /\ Cardinality(Woken(Consumers)) \in Nat
<1>1. Woken(Producers) \in SUBSET Producers /\ Woken(Consumers) \in SUBSET Consumers
  BY DEF Woken
<1>2. QED
  BY <1>1, SyncQueueAssumption, FS_Subset, FS_CardinalityType

(* What NextTurnNotifying(t, S) does to the two kinds: t's own kind loses at *)
(* most t from its notified threads and no sleeper; a sleeper of S, if there *)
(* is one, is notified.                                                      *)
LEMMA NotifyingCounts ==
    ASSUME TypeOK, LoopInv, NEW T, NEW S, NEW t \in T,
           \/ T = Producers /\ S = Consumers
           \/ T = Consumers /\ S = Producers,
           pc[t] \in {"ready", "woken"},
           NextTurnNotifying(t, S)
    PROVE  /\ pc' \in [Threads -> PC]
           /\ loop' \in [Threads -> 0..Items]
           /\ LoopInv'
           /\ Sleepers(T)' = Sleepers(T)
           /\ Woken(T)' = Woken(T) \ {t}
           /\ \/ Sleepers(S) = {} /\ Sleepers(S)' = {}
              \/ /\ Sleepers(S) # {}
                 /\ \E u \in S : u \notin Woken(S) /\ Woken(S)' = Woken(S) \cup {u}
<1>1. t \in Threads /\ t \notin S /\ T \subseteq Threads /\ S \subseteq Threads
      /\ S \cap T = {}
  BY SyncQueueAssumption DEF Threads
<1>2. loop[t] \in 0..Items /\ loop[t] # Items
  BY <1>1 DEF TypeOK, LoopInv
<1>3. /\ LoopTop(loop[t] + 1) \in {"ready", "done"}
      /\ LoopTop(loop[t] + 1) = "done" <=> loop[t] + 1 = Items
  BY <1>2, SyncQueueAssumption DEF LoopTop
<1>4. loop' = [loop EXCEPT ![t] = @ + 1] /\ loop[t] + 1 \in 0..Items
  BY <1>2, SyncQueueAssumption DEF NextTurnNotifying
<1>5. CASE /\ Sleepers(S) = {}
           /\ pc' = [pc EXCEPT ![t] = LoopTop(loop[t] + 1)]
  <2>1. pc' \in [Threads -> PC] /\ loop' \in [Threads -> 0..Items]
    BY <1>1, <1>3, <1>4, <1>5 DEF TypeOK, PC
  <2>2. LoopInv'
    BY <1>1, <1>3, <1>4, <1>5 DEF TypeOK, LoopInv
  <2>3. Sleepers(T)' = Sleepers(T) /\ Woken(T)' = Woken(T) \ {t}
    BY <1>1, <1>3, <1>5 DEF TypeOK, Sleepers, Woken
  <2>4. Sleepers(S)' = {}
    BY <1>1, <1>3, <1>5 DEF TypeOK, Sleepers
  <2>5. QED
    BY <1>5, <2>1, <2>2, <2>3, <2>4
<1>6. ASSUME NEW u \in Sleepers(S),
             pc' = [pc EXCEPT ![t] = LoopTop(loop[t] + 1), ![u] = "woken"]
      PROVE  /\ pc' \in [Threads -> PC] /\ loop' \in [Threads -> 0..Items]
             /\ LoopInv'
             /\ Sleepers(T)' = Sleepers(T) /\ Woken(T)' = Woken(T) \ {t}
             /\ u \in S /\ u \notin Woken(S) /\ Woken(S)' = Woken(S) \cup {u}
  <2>1. u \in S /\ u # t /\ u \in Threads /\ pc[u] = "asleep" /\ u \notin T
    BY <1>1, <1>6 DEF Sleepers
  <2>2. pc' \in [Threads -> PC] /\ loop' \in [Threads -> 0..Items]
    BY <1>1, <1>3, <1>4, <1>6, <2>1 DEF TypeOK, PC
  <2>3. LoopInv'
    BY <1>1, <1>3, <1>4, <1>6, <2>1 DEF TypeOK, LoopInv
  <2>4. Sleepers(T)' = Sleepers(T) /\ Woken(T)' = Woken(T) \ {t}
    BY <1>1, <1>3, <1>6, <2>1 DEF TypeOK, Sleepers, Woken
  <2>5. u \notin Woken(S) /\ Woken(S)' = Woken(S) \cup {u}
    BY <1>1, <1>3, <1>6, <2>1 DEF TypeOK, Woken
  <2>6. QED
    BY <2>1, <2>2, <2>3, <2>4, <2>5
<1>7. QED
  BY <1>5, <1>6 DEF NextTurnNotifying

-----------------------------------------------------------------------------
(* The actions *)

\* Put() keeps the invariant: it takes one free place and covers one value.
LEMMA PutStep ==
    ASSUME IInv, NEW p \in Producers, Put(p)
    PROVE  IInv'
<1>1. pc[p] \in {"ready", "woken"} /\ NextTurnNotifying(p, Consumers)
  BY DEF Put
<1>2. /\ pc' \in [Threads -> PC]
      /\ loop' \in [Threads -> 0..Items]
      /\ LoopInv'
      /\ Sleepers(Producers)' = Sleepers(Producers)
      /\ Woken(Producers)' = Woken(Producers) \ {p}
      /\ \/ Sleepers(Consumers)' = {}
         \/ /\ Sleepers(Consumers) # {}
            /\ \E u \in Consumers : /\ u \notin Woken(Consumers)
                                    /\ Woken(Consumers)' = Woken(Consumers) \cup {u}
  BY <1>1, NotifyingCounts DEF IInv
<1>3. PICK x \in Values : x = <<p, loop[p]>>
  BY DEF IInv, TypeOK, Values, Threads
<1>4. /\ queue' = Append(queue, x) /\ sent' = Append(sent, x)
      /\ UNCHANGED <<main, taken>> /\ Len(queue) # MaxSize
  BY <1>3 DEF Put, IsFull
<1>5. TypeOK'
  BY <1>2, <1>3, <1>4 DEF IInv, TypeOK
<1>6. InOrder'
  <2>1. taken \o Append(queue, x) = Append(taken \o queue, x)
    BY ConcatAppend DEF IInv, TypeOK
  <2>2. QED
    BY <1>4, <2>1 DEF IInv, InOrder
<1>7. Len(queue') = Len(queue) + 1 /\ Len(queue) \in Nat
  BY <1>3, <1>4 DEF IInv, TypeOK
<1>8. Bounded'
  BY <1>4, <1>7, SyncQueueAssumption DEF IInv, Bounded
<1>9. ASSUME Sleepers(Consumers)' # {}
      PROVE  Len(queue') <= Cardinality(Woken(Consumers)')
  <2>1. PICK u \in Consumers : /\ u \notin Woken(Consumers)
                               /\ Woken(Consumers)' = Woken(Consumers) \cup {u}
    BY <1>2, <1>9
  <2>2. Cardinality(Woken(Consumers) \cup {u}) = Cardinality(Woken(Consumers)) + 1
    BY <2>1, WokenFinite, FS_AddElement
  <2>3. Len(queue) <= Cardinality(Woken(Consumers))
    BY <1>2, <1>9 DEF IInv, EnoughWakeups
  <2>4. QED
    BY <1>7, <2>1, <2>2, <2>3, WokenFinite
<1>10. ASSUME Sleepers(Producers)' # {}
       PROVE  MaxSize - Len(queue') <= Cardinality(Woken(Producers)')
  <2>1. Cardinality(Woken(Producers)) - 1 <= Cardinality(Woken(Producers) \ {p})
    BY WokenFinite, CardinalityChange
  <2>2. MaxSize - Len(queue) <= Cardinality(Woken(Producers))
    BY <1>2, <1>10 DEF IInv, EnoughWakeups
  <2>3. Cardinality(Woken(Producers) \ {p}) \in Nat
    BY WokenFinite, CardinalityChange
  <2>4. QED
    BY <1>2, <1>7, <2>1, <2>2, <2>3, WokenFinite, SyncQueueAssumption
<1>11. QED
  BY <1>2, <1>5, <1>6, <1>8, <1>9, <1>10 DEF IInv, EnoughWakeups

\* Take() keeps the invariant: it takes one value and covers one free place.
LEMMA TakeStep ==
    ASSUME IInv, NEW c \in Consumers, Take(c)
    PROVE  IInv'
<1>1. pc[c] \in {"ready", "woken"} /\ NextTurnNotifying(c, Producers)
  BY DEF Take
<1>2. /\ pc' \in [Threads -> PC]
      /\ loop' \in [Threads -> 0..Items]
      /\ LoopInv'
      /\ Sleepers(Consumers)' = Sleepers(Consumers)
      /\ Woken(Consumers)' = Woken(Consumers) \ {c}
      /\ \/ Sleepers(Producers)' = {}
         \/ /\ Sleepers(Producers) # {}
            /\ \E u \in Producers : /\ u \notin Woken(Producers)
                                    /\ Woken(Producers)' = Woken(Producers) \cup {u}
  BY <1>1, NotifyingCounts DEF IInv
<1>3. /\ queue # <<>> /\ queue' = Tail(queue) /\ taken' = Append(taken, Head(queue))
      /\ UNCHANGED <<main, sent>>
  BY DEF Take, IsEmpty
<1>4. Head(queue) \in Values /\ Tail(queue) \in Seq(Values)
  BY <1>3 DEF IInv, TypeOK
<1>5. TypeOK'
  BY <1>2, <1>3, <1>4 DEF IInv, TypeOK
<1>6. InOrder'
  BY <1>3, ConcatMove DEF IInv, TypeOK, InOrder
<1>7. Len(queue') = Len(queue) - 1 /\ Len(queue) \in Nat
  BY <1>3 DEF IInv, TypeOK
<1>8. Bounded'
  BY <1>7, SyncQueueAssumption DEF IInv, Bounded
<1>9. ASSUME Sleepers(Producers)' # {}
      PROVE  MaxSize - Len(queue') <= Cardinality(Woken(Producers)')
  <2>1. PICK u \in Producers : /\ u \notin Woken(Producers)
                               /\ Woken(Producers)' = Woken(Producers) \cup {u}
    BY <1>2, <1>9
  <2>2. Cardinality(Woken(Producers) \cup {u}) = Cardinality(Woken(Producers)) + 1
    BY <2>1, WokenFinite, FS_AddElement
  <2>3. MaxSize - Len(queue) <= Cardinality(Woken(Producers))
    BY <1>2, <1>9 DEF IInv, EnoughWakeups
  <2>4. QED
    BY <1>7, <2>1, <2>2, <2>3, WokenFinite, SyncQueueAssumption
<1>10. ASSUME Sleepers(Consumers)' # {}
       PROVE  Len(queue') <= Cardinality(Woken(Consumers)')
  <2>1. Cardinality(Woken(Consumers)) - 1 <= Cardinality(Woken(Consumers) \ {c})
    BY WokenFinite, CardinalityChange
  <2>2. Len(queue) <= Cardinality(Woken(Consumers))
    BY <1>2, <1>10 DEF IInv, EnoughWakeups
  <2>3. Cardinality(Woken(Consumers) \ {c}) \in Nat
    BY WokenFinite, CardinalityChange
  <2>4. QED
    BY <1>2, <1>7, <2>1, <2>2, <2>3, WokenFinite
<1>11. QED
  BY <1>2, <1>5, <1>6, <1>8, <1>9, <1>10 DEF IInv, EnoughWakeups

(* Going to sleep keeps the invariant: there is nothing that the thread, or  *)
(* one that sleeps already, could come for.                                  *)
LEMMA WaitStep ==
    ASSUME IInv, NEW t \in Threads,
           (t \in Producers /\ Put_wait(t)) \/ (t \in Consumers /\ Take_wait(t))
    PROVE  IInv'
<1>1. /\ pc[t] \in {"ready", "woken"} /\ pc' = [pc EXCEPT ![t] = "asleep"]
      /\ UNCHANGED <<queue, loop, main, sent, taken>>
  BY DEF Put_wait, Take_wait
<1>2. TypeOK' /\ LoopInv' /\ Bounded' /\ InOrder'
  BY <1>1 DEF IInv, TypeOK, LoopInv, Bounded, InOrder, PC
<1>3. Len(queue) \in Nat /\ MaxSize \in Nat
  BY SyncQueueAssumption DEF IInv, TypeOK
<1>4. /\ Cardinality(Woken(Producers)') \in Nat
      /\ Cardinality(Woken(Consumers)') \in Nat
  <2>1. Woken(Producers)' \in SUBSET Producers /\ Woken(Consumers)' \in SUBSET Consumers
    BY DEF Woken
  <2>2. QED
    BY <2>1, SyncQueueAssumption, FS_Subset, FS_CardinalityType
<1>5. CASE t \in Producers /\ Put_wait(t)
  <2>1. Len(queue) = MaxSize
    BY <1>5 DEF Put_wait, IsFull
  <2>2. Sleepers(Consumers)' = Sleepers(Consumers) /\ Woken(Consumers)' = Woken(Consumers)
    BY <1>1, <1>5, SyncQueueAssumption DEF Sleepers, Woken, IInv, TypeOK, Threads
  <2>3. EnoughWakeups'
    BY <1>1, <1>3, <1>4, <2>1, <2>2 DEF IInv, EnoughWakeups
  <2>4. QED
    BY <1>2, <2>3 DEF IInv
<1>6. CASE t \in Consumers /\ Take_wait(t)
  <2>1. Len(queue) = 0
    BY <1>6 DEF Take_wait, IsEmpty
  <2>2. Sleepers(Producers)' = Sleepers(Producers) /\ Woken(Producers)' = Woken(Producers)
    BY <1>1, <1>6, SyncQueueAssumption DEF Sleepers, Woken, IInv, TypeOK, Threads
  <2>3. EnoughWakeups'
    BY <1>1, <1>3, <1>4, <2>1, <2>2 DEF IInv, EnoughWakeups
  <2>4. QED
    BY <1>2, <2>3 DEF IInv
<1>7. QED
  BY <1>5, <1>6

\* A spurious wake-up keeps the invariant: one more thread will look.
LEMMA SpuriousStep ==
    ASSUME IInv, NEW t \in Threads, spurious(t)
    PROVE  IInv'
<1>1. /\ pc[t] = "asleep" /\ pc' = [pc EXCEPT ![t] = "woken"]
      /\ UNCHANGED <<queue, loop, main, sent, taken>>
  BY DEF spurious
<1>2. TypeOK' /\ LoopInv' /\ Bounded' /\ InOrder'
  BY <1>1 DEF IInv, TypeOK, LoopInv, Bounded, InOrder, PC
<1>3. Len(queue) \in Nat /\ MaxSize \in Nat
  BY SyncQueueAssumption DEF IInv, TypeOK
<1>4. ASSUME NEW S, S = Producers \/ S = Consumers
      PROVE  /\ Sleepers(S)' \subseteq Sleepers(S)
             /\ Woken(S)' = Woken(S) \/ (t \in S /\ Woken(S)' = Woken(S) \cup {t})
  BY <1>1, <1>4 DEF Sleepers, Woken, IInv, TypeOK, Threads
<1>5. /\ Cardinality(Woken(Producers)) <= Cardinality(Woken(Producers)')
      /\ Cardinality(Woken(Consumers)) <= Cardinality(Woken(Consumers)')
      /\ Cardinality(Woken(Producers)') \in Nat
      /\ Cardinality(Woken(Consumers)') \in Nat
  <2>1. /\ Woken(Producers)' = Woken(Producers) \/ Woken(Producers)' = Woken(Producers) \cup {t}
        /\ Woken(Consumers)' = Woken(Consumers) \/ Woken(Consumers)' = Woken(Consumers) \cup {t}
    BY <1>4
  <2>2. /\ Cardinality(Woken(Producers)) <= Cardinality(Woken(Producers) \cup {t})
        /\ Cardinality(Woken(Producers) \cup {t}) \in Nat
    BY WokenFinite, CardinalityChange
  <2>3. /\ Cardinality(Woken(Consumers)) <= Cardinality(Woken(Consumers) \cup {t})
        /\ Cardinality(Woken(Consumers) \cup {t}) \in Nat
    BY WokenFinite, CardinalityChange
  <2>4. QED
    BY <2>1, <2>2, <2>3, WokenFinite
<1>6. EnoughWakeups'
  <2>1. Sleepers(Producers)' \subseteq Sleepers(Producers)
    BY <1>4
  <2>2. Sleepers(Consumers)' \subseteq Sleepers(Consumers)
    BY <1>4
  <2>3. QED
    BY <1>1, <1>3, <1>5, <2>1, <2>2, WokenFinite DEF IInv, EnoughWakeups
<1>7. QED
  BY <1>2, <1>6 DEF IInv

-----------------------------------------------------------------------------
(* The theorems *)

\* The invariant holds in every reachable state.
THEOREM Inductive == Spec => []IInv
<1>1. ASSUME Init PROVE IInv
  <2>1. TypeOK /\ LoopInv
    BY <1>1, SyncQueueAssumption DEF Init, TypeOK, LoopInv, LoopTop, PC
  <2>2. Bounded /\ InOrder
    BY <1>1, SyncQueueAssumption DEF Init, Bounded, InOrder
  <2>3. Sleepers(Producers) = {} /\ Sleepers(Consumers) = {}
    BY <1>1 DEF Init, Sleepers, LoopTop, Threads
  <2>4. QED
    BY <2>1, <2>2, <2>3 DEF IInv, EnoughWakeups
<1>2. ASSUME IInv, [Next]_vars PROVE IInv'
  <2>1. ASSUME NEW p \in Producers, PutDatas(p) PROVE IInv'
    BY <1>2, <2>1, PutStep, WaitStep DEF PutDatas, Threads
  <2>2. ASSUME NEW c \in Consumers, TakeDatas(c) PROVE IInv'
    BY <1>2, <2>2, TakeStep, WaitStep DEF TakeDatas, Threads
  <2>3. ASSUME NEW t \in Threads, spurious(t) PROVE IInv'
    BY <1>2, <2>3, SpuriousStep
  <2>4. ASSUME UNCHANGED <<queue, pc, loop, sent, taken>>, main' \in {"join", "done"}
        PROVE  IInv'
    BY <1>2, <2>4
    DEF IInv, TypeOK, LoopInv, Bounded, InOrder, EnoughWakeups, Sleepers, Woken
  <2>5. CASE main_finish
    BY <2>4, <2>5 DEF main_finish
  <2>6. CASE Ended \/ UNCHANGED vars
    BY <1>2, <2>4, <2>6 DEF Ended, vars, IInv, TypeOK
  <2>7. QED
    BY <1>2, <2>1, <2>2, <2>3, <2>5, <2>6 DEF Next
<1>3. QED
  BY <1>1, <1>2, PTL DEF Spec

\* Every variable stays in its domain.
THEOREM TypeCorrect == Spec => []TypeOK
<1>1. IInv => TypeOK
  BY DEF IInv
<1>2. QED
  BY <1>1, Inductive, PTL

\* The queue never holds more than MaxSize values.
THEOREM BoundedHolds == Spec => []Bounded
<1>1. IInv => Bounded
  BY DEF IInv
<1>2. QED
  BY <1>1, Inductive, PTL

\* Put() and Take() lose, duplicate and reorder nothing.
THEOREM InOrderHolds == Spec => []InOrder
<1>1. IInv => InOrder
  BY DEF IInv
<1>2. QED
  BY <1>1, Inductive, PTL

\* notify_one() on each condition variable is enough.
THEOREM EnoughWakeupsHolds == Spec => []EnoughWakeups
<1>1. IInv => EnoughWakeups
  BY DEF IInv
<1>2. QED
  BY <1>1, Inductive, PTL

\* Producers and consumers never all wait for each other.
THEOREM NoMutualWaitHolds == Spec => []NoMutualWait
<1>1. ASSUME IInv, Sleepers(Producers) # {}, Sleepers(Consumers) # {},
             Woken(Threads) = {}
      PROVE  FALSE
  <2>1. Woken(Producers) = {} /\ Woken(Consumers) = {}
    BY <1>1 DEF Woken, Threads
  <2>2. Len(queue) <= 0 /\ MaxSize - Len(queue) <= 0
    BY <1>1, <2>1, FS_EmptySet DEF IInv, EnoughWakeups
  <2>3. QED
    BY <1>1, <2>2, SyncQueueAssumption DEF IInv, TypeOK
<1>2. IInv => NoMutualWait
  BY <1>1 DEF NoMutualWait
<1>3. QED
  BY <1>2, Inductive, PTL

\* SyncQueue implements Fifo.
THEOREM Refinement == Spec => RefinesFifo
<1>1. Init => Channel!FifoInit
  BY DEF Init, Channel!FifoInit
<1>2. ASSUME IInv, [Next]_vars
      PROVE  [Channel!FifoNext]_(Channel!fvars)
  <2>1. /\ queue \in Seq(Values) /\ sent \in Seq(Values) /\ taken \in Seq(Values)
        /\ sent = taken \o queue /\ Len(queue) <= MaxSize
    BY <1>2 DEF IInv, TypeOK, InOrder, Bounded
  <2>2. Len(sent) = Len(taken) + Len(queue)
    BY <2>1
  <2>3. ASSUME NEW p \in Producers, Put(p)
        PROVE  Channel!FifoNext
    <3>1. PICK x \in Values : x = <<p, loop[p]>>
      BY <1>2 DEF IInv, TypeOK, Values, Threads
    <3>2. Len(queue) < MaxSize
      BY <2>1, <2>3, SyncQueueAssumption DEF Put, IsFull
    <3>3. Channel!Send(x)
      BY <2>1, <2>2, <2>3, <3>1, <3>2, SyncQueueAssumption DEF Put, Channel!Send
    <3>4. QED
      BY <3>3 DEF Channel!FifoNext
  <2>4. ASSUME NEW c \in Consumers, Take(c)
        PROVE  Channel!FifoNext
    <3>1. queue # <<>> /\ taken' = Append(taken, Head(queue)) /\ UNCHANGED sent
      BY <2>4 DEF Take, IsEmpty
    <3>2. Len(taken) < Len(sent) /\ sent[Len(taken) + 1] = Head(queue)
      BY <2>1, <2>2, <3>1
    <3>3. Channel!Receive
      BY <3>1, <3>2 DEF Channel!Receive
    <3>4. QED
      BY <3>3 DEF Channel!FifoNext
  <2>5. ASSUME UNCHANGED <<sent, taken>>
        PROVE  UNCHANGED Channel!fvars
    BY <2>5 DEF Channel!fvars
  <2>6. CASE \/ \E p \in Producers : Put_wait(p)
             \/ \E c \in Consumers : Take_wait(c)
             \/ \E t \in Threads : spurious(t)
             \/ main_finish \/ Ended \/ UNCHANGED vars
    BY <2>5, <2>6 DEF Put_wait, Take_wait, spurious, main_finish, Ended, vars
  <2>7. QED
    BY <1>2, <2>3, <2>4, <2>6 DEF Next, PutDatas, TakeDatas
<1>3. QED
  BY <1>1, <1>2, Inductive, PTL DEF Spec, RefinesFifo, Channel!FifoSpec
=============================================================================
