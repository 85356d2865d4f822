---------------------------- MODULE TaskService ----------------------------
(***************************************************************************)
(* What the thread pool of thread_pool/ promises to the code that uses it, *)
(* without threads, locks or condition variables: submitted tasks are      *)
(* dispatched in submission order, each at most once, never more than      *)
(* MaxPool at a time, none after the service was closed, and the future of *)
(* a task is resolved exactly once, by its dispatch or when the service is *)
(* destroyed.                                                              *)
(***************************************************************************)
EXTENDS Naturals, Sequences, FiniteSets

CONSTANTS
    Tasks,      \* the tasks that may ever be submitted
    MaxPool     \* the largest number of worker threads

VARIABLES
    queue,      \* submitted and not yet dispatched, in order
    active,     \* dispatched, not yet given back
    future,     \* state of each task's future
    closed      \* stop() was called

svars == <<queue, active, future, closed>>

FutureState == {"none", "pending", "ready", "broken"}

ServiceInit ==
    /\ queue = <<>>
    /\ active = {}
    /\ future = [t \in Tasks |-> "none"]
    /\ closed = FALSE

Submit(t) ==
    /\ future[t] = "none"
    /\ future' = [future EXCEPT ![t] = "pending"]
    /\ queue' = Append(queue, t)
    /\ UNCHANGED <<active, closed>>

Dispatch ==
    /\ ~closed
    /\ queue # <<>>
    /\ Cardinality(active) < MaxPool
    /\ active' = active \cup {Head(queue)}
    /\ queue' = Tail(queue)
    /\ UNCHANGED <<future, closed>>

Complete(t) ==
    /\ t \in active
    /\ future[t] = "pending"
    /\ future' = [future EXCEPT ![t] = "ready"]
    /\ UNCHANGED <<queue, active, closed>>

\* The worker lets go of the task; a task that was not run breaks its promise.
Release(t) ==
    /\ t \in active
    /\ active' = active \ {t}
    /\ future' = [future EXCEPT ![t] = IF @ = "pending" THEN "broken" ELSE @]
    /\ UNCHANGED <<queue, closed>>

Close ==
    /\ closed' = TRUE
    /\ UNCHANGED <<queue, active, future>>

Destroy ==
    /\ closed
    /\ active = {}
    /\ queue' = <<>>
    /\ future' = [t \in Tasks |-> IF \E i \in DOMAIN queue : queue[i] = t
                                  THEN "broken" ELSE future[t]]
    /\ UNCHANGED <<active, closed>>

ServiceNext ==
    \/ \E t \in Tasks : Submit(t) \/ Complete(t) \/ Release(t)
    \/ Dispatch
    \/ Close
    \/ Destroy

ServiceSpec == ServiceInit /\ [][ServiceNext]_svars
=============================================================================
