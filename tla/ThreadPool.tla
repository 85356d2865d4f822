----------------------------- MODULE ThreadPool -----------------------------
(***************************************************************************)
(* The thread pool of thread_pool/demo_threadpool.{h,cpp}: worker threads, *)
(* any number of threads that submit tasks with exec() or block in         *)
(* wait_for_all_done(), and the owner that calls initial(), start(),       *)
(* stop() and the destructor.                                              *)
(*                                                                         *)
(* A critical section of _pool_mutex is one step: everything it touches is *)
(* accessed under that mutex only, except the atomic running_count, whose  *)
(* increments and decrements are steps of their own, and _terminate, which *)
(* run() reads without the lock.  That read is a data race: it may return  *)
(* the value the worker last saw under the mutex (seen) instead of the     *)
(* current one.  A thread asleep in _pool_cond has given the mutex back; a *)
(* woken one has to take it again before it re-tests its predicate.        *)
(***************************************************************************)
EXTENDS Naturals, Sequences, FiniteSets

CONSTANTS
    Tasks,      \* the tasks that may be submitted, each at most once
    NoTask,     \* the empty task_func_ptr
    Clients,    \* the threads that may call wait_for_all_done()
    MaxPool,    \* bound: the largest pool size handed to initial()
    Timeouts,   \* the timeout_ms values handed to exec(); 0 is "no timeout"
    MaxNow      \* bound: the last value of the millisecond clock

ASSUME ThreadPoolAssumption ==
    /\ NoTask \notin Tasks
    /\ MaxPool \in Nat \ {0}
    /\ MaxNow \in Nat
    /\ Timeouts \subseteq Nat

VARIABLES
    tasks,          \* _tasks
    workers,        \* _workers.size(); the threads are 1..workers
    pool_size,      \* _pool_size
    terminate,      \* _terminate
    running_count,  \* running_count
    wpc,            \* where each worker thread is in run()
    held,           \* the local task_func_ptr of run()
    seen,           \* _terminate as the worker last saw it under the mutex
    cpc,            \* where each client is in wait_for_all_done()
    owner,          \* what the owner of the pool is doing
    joined,         \* how many threads stop() has joined and deleted
    future,         \* the shared state of each task's packaged_task
    expire,         \* _expire_time of each task
    now             \* the clock read by getNowMs()

wvars == <<wpc, held, seen>>
lifecycle == <<workers, pool_size, terminate, owner, joined>>
vars == <<tasks, workers, pool_size, terminate, running_count, wpc, held, seen,
          cpc, owner, joined, future, expire, now>>

Threads == 1..MaxPool

(* Labels of run() and get(): none, no such thread; loop, at the while test; *)
(* get, about to lock in get(); wait, asleep in _pool_cond; woken, notified  *)
(* and about to lock again; got, get() returned a task; test, counted and    *)
(* about to test the expiry; exec, inside _func(); dec, before the           *)
(* decrement; tail, about to lock for the completion test; drop, before the  *)
(* task_func_ptr goes out of scope; exit, run() returned.                    *)
WorkerPC == {"none", "loop", "get", "wait", "woken", "got", "test", "exec",
             "dec", "tail", "drop", "exit"}

(* A client is out of the pool, asleep in wait() or in wait_for(), woken     *)
(* from either, or back with the value wait_for_all_done() returned.         *)
ClientPC == {"out", "wait", "twait", "woken", "twoken", "true", "false"}

OwnerState == {"idle", "stopping", "destroying", "dead"}

\* The constructor.
Init ==
    /\ tasks = <<>>
    /\ workers = 0
    /\ pool_size = 1
    /\ terminate = FALSE
    /\ running_count = 0
    /\ wpc = [w \in Threads |-> "none"]
    /\ held = [w \in Threads |-> NoTask]
    /\ seen = [w \in Threads |-> FALSE]
    /\ cpc = [c \in Clients |-> "out"]
    /\ owner = "idle"
    /\ joined = 0
    /\ future = [t \in Tasks |-> "none"]
    /\ expire = [t \in Tasks |-> 0]
    /\ now = 0

-----------------------------------------------------------------------------
(* The condition variable *)

Wake(p) == CASE p = "wait"  -> "woken"
             [] p = "twait" -> "twoken"
             [] OTHER       -> p

Asleep(p) == p \in {"wait", "twait"}

\* Mutant: the notification is forgotten.
NotifyNobody == UNCHANGED <<wpc, cpc>>

NotifyAll ==
    /\ wpc' = [w \in Threads |-> Wake(wpc[w])]
    /\ cpc' = [c \in Clients |-> Wake(cpc[c])]

\* Wakes one thread asleep in _pool_cond, whichever call it sleeps in.
NotifyOne ==
    \/ /\ \E w \in Threads :
             /\ Asleep(wpc[w])
             /\ wpc' = [wpc EXCEPT ![w] = Wake(@)]
       /\ UNCHANGED cpc
    \/ /\ \E c \in Clients :
             /\ Asleep(cpc[c])
             /\ cpc' = [cpc EXCEPT ![c] = Wake(@)]
       /\ UNCHANGED wpc
    \/ /\ \A w \in Threads : ~Asleep(wpc[w])
       /\ \A c \in Clients : ~Asleep(cpc[c])
       /\ UNCHANGED <<wpc, cpc>>

-----------------------------------------------------------------------------
(* The owner: initial(), start(), stop(), ~demo_threadpool() *)

initial(num) ==
    /\ owner = "idle"
    /\ workers = 0
    /\ pool_size' = num
    /\ UNCHANGED <<tasks, workers, terminate, running_count, wvars, cpc, owner,
                   joined, future, expire, now>>

start ==
    /\ owner = "idle"
    /\ workers = 0
    /\ workers' = pool_size
    /\ wpc' = [w \in Threads |-> IF w <= pool_size THEN "loop" ELSE wpc[w]]
    /\ seen' = [w \in Threads |-> terminate]
    /\ UNCHANGED <<tasks, pool_size, terminate, running_count, held, cpc, owner,
                   joined, future, expire, now>>

\* The first critical section of stop(), called directly or by the destructor.
stop_signal(who) ==
    /\ owner = "idle"
    /\ who = "destroying" => \A c \in Clients : cpc[c] \in {"out", "true", "false"}
    /\ terminate' = TRUE
    /\ NotifyAll
    /\ owner' = who
    /\ joined' = 0
    /\ UNCHANGED <<tasks, workers, pool_size, running_count, held, seen, future,
                   expire, now>>

\* Mutant: stop() detaches the threads instead of joining them.
stop_detach ==
    /\ owner \in {"stopping", "destroying"}
    /\ joined < workers
    /\ joined' = joined + 1
    /\ UNCHANGED <<tasks, workers, pool_size, terminate, running_count, wvars,
                   cpc, owner, future, expire, now>>

\* The loop over _workers: join the next thread, then delete it.
stop_join ==
    /\ owner \in {"stopping", "destroying"}
    /\ joined < workers
    /\ wpc[joined + 1] = "exit"
    /\ wpc' = [wpc EXCEPT ![joined + 1] = "none"]
    /\ joined' = joined + 1
    /\ UNCHANGED <<tasks, workers, pool_size, terminate, running_count, held,
                   seen, cpc, owner, future, expire, now>>

\* Mutant: the tasks left in the queue are leaked.
LeakPromises == future

\* Destroying _tasks destroys the packaged_tasks that were never called.
BreakPromises ==
    [t \in Tasks |-> IF \E i \in DOMAIN tasks : tasks[i] = t
                     THEN "broken" ELSE future[t]]

stop_clear ==
    /\ owner \in {"stopping", "destroying"}
    /\ joined = workers
    /\ workers' = 0
    /\ IF owner = "stopping"
       THEN owner' = "idle" /\ UNCHANGED <<tasks, future>>
       ELSE owner' = "dead" /\ tasks' = <<>> /\ future' = BreakPromises
    /\ UNCHANGED <<pool_size, terminate, running_count, wvars, cpc, joined,
                   expire, now>>

-----------------------------------------------------------------------------
(* The users: exec() and wait_for_all_done() *)

Alive == owner \notin {"destroying", "dead"}

ExpireTime(timeout_ms) == IF timeout_ms = 0 THEN 0 ELSE now + timeout_ms

exec(t, timeout_ms) ==
    /\ Alive
    /\ future[t] = "none"
    /\ future' = [future EXCEPT ![t] = "pending"]
    /\ expire' = [expire EXCEPT ![t] = ExpireTime(timeout_ms)]
    /\ tasks' = Append(tasks, t)
    /\ NotifyOne
    /\ UNCHANGED <<lifecycle, running_count, held, seen, now>>

\* The predicate of both waits in wait_for_all_done().
DonePredicate == tasks = <<>>

wait_for_all_done(c, timed) ==
    /\ Alive
    /\ cpc[c] \in {"out", "true", "false"}
    /\ cpc' = [cpc EXCEPT ![c] = IF tasks = <<>> THEN "true"
                                 ELSE IF timed THEN "twait" ELSE "wait"]
    /\ UNCHANGED <<tasks, lifecycle, running_count, wvars, future, expire, now>>

\* A woken client re-tests the predicate under the mutex.
wait_recheck(c) ==
    /\ cpc[c] \in {"woken", "twoken"}
    /\ cpc' = [cpc EXCEPT ![c] = IF DonePredicate THEN "true"
                                 ELSE IF @ = "woken" THEN "wait" ELSE "twait"]
    /\ UNCHANGED <<tasks, lifecycle, running_count, wvars, future, expire, now>>

wait_timeout(c) ==
    /\ cpc[c] = "twait"
    /\ cpc' = [cpc EXCEPT ![c] = IF DonePredicate THEN "true" ELSE "false"]
    /\ UNCHANGED <<tasks, lifecycle, running_count, wvars, future, expire, now>>

-----------------------------------------------------------------------------
(* A worker: run() and get() *)

\* is_terminate() without the lock.
run_test(w) ==
    /\ wpc[w] = "loop"
    /\ \E v \in {seen[w], terminate} :
          wpc' = [wpc EXCEPT ![w] = IF v THEN "exit" ELSE "get"]
    /\ UNCHANGED <<tasks, lifecycle, running_count, held, seen, cpc, future,
                   expire, now>>

\* get() finds nothing to do, on entry or after a wake-up, and sleeps.
get_wait(w) ==
    /\ wpc[w] \in {"get", "woken"}
    /\ tasks = <<>> /\ ~terminate
    /\ wpc' = [wpc EXCEPT ![w] = "wait"]
    /\ seen' = [seen EXCEPT ![w] = terminate]
    /\ UNCHANGED <<tasks, lifecycle, running_count, held, cpc, future, expire, now>>

\* get() returns false: the pool is stopping, whether or not tasks are left.
get_false(w) ==
    /\ wpc[w] \in {"get", "woken"}
    /\ terminate
    /\ wpc' = [wpc EXCEPT ![w] = "loop"]
    /\ seen' = [seen EXCEPT ![w] = terminate]
    /\ UNCHANGED <<tasks, lifecycle, running_count, held, cpc, future, expire, now>>

\* Mutant: the task is read with front() and never popped.
get_task_no_pop(w) ==
    /\ wpc[w] \in {"get", "woken"}
    /\ ~terminate /\ tasks # <<>>
    /\ held' = [held EXCEPT ![w] = Head(tasks)]
    /\ wpc' = [wpc EXCEPT ![w] = "got"]
    /\ seen' = [seen EXCEPT ![w] = terminate]
    /\ UNCHANGED <<tasks, lifecycle, running_count, cpc, future, expire, now>>

\* Mutant: get() tests the queue before _terminate.
get_task_draining(w) ==
    /\ wpc[w] \in {"get", "woken"}
    /\ tasks # <<>>
    /\ held' = [held EXCEPT ![w] = Head(tasks)]
    /\ tasks' = Tail(tasks)
    /\ wpc' = [wpc EXCEPT ![w] = "got"]
    /\ seen' = [seen EXCEPT ![w] = terminate]
    /\ UNCHANGED <<lifecycle, running_count, cpc, future, expire, now>>

\* get() returns the oldest task.
get_task(w) ==
    /\ wpc[w] \in {"get", "woken"}
    /\ ~terminate /\ tasks # <<>>
    /\ held' = [held EXCEPT ![w] = Head(tasks)]
    /\ tasks' = Tail(tasks)
    /\ wpc' = [wpc EXCEPT ![w] = "got"]
    /\ seen' = [seen EXCEPT ![w] = terminate]
    /\ UNCHANGED <<lifecycle, running_count, cpc, future, expire, now>>

\* Mutant: the increment is missing.
run_count_missing(w) ==
    /\ wpc[w] = "got"
    /\ wpc' = [wpc EXCEPT ![w] = "test"]
    /\ UNCHANGED <<tasks, lifecycle, running_count, held, seen, cpc, future,
                   expire, now>>

run_count(w) ==
    /\ wpc[w] = "got"
    /\ running_count' = running_count + 1
    /\ wpc' = [wpc EXCEPT ![w] = "test"]
    /\ UNCHANGED <<tasks, lifecycle, held, seen, cpc, future, expire, now>>

Expired(t) == expire[t] # 0 /\ expire[t] < now

\* Mutant: an expired task jumps over the decrement with `continue'.
run_expiry_continue(w) ==
    /\ wpc[w] = "test"
    /\ wpc' = [wpc EXCEPT ![w] = IF Expired(held[w]) THEN "drop" ELSE "exec"]
    /\ UNCHANGED <<tasks, lifecycle, running_count, held, seen, cpc, future,
                   expire, now>>

\* The expiry test: an expired task is skipped.
run_expiry(w) ==
    /\ wpc[w] = "test"
    /\ wpc' = [wpc EXCEPT ![w] = IF Expired(held[w]) THEN "dec" ELSE "exec"]
    /\ UNCHANGED <<tasks, lifecycle, running_count, held, seen, cpc, future,
                   expire, now>>

\* _func() returns; the packaged_task stored its value or its exception.
run_func(w) ==
    /\ wpc[w] = "exec"
    /\ future' = [future EXCEPT ![held[w]] = "ready"]
    /\ wpc' = [wpc EXCEPT ![w] = "dec"]
    /\ UNCHANGED <<tasks, lifecycle, running_count, held, seen, cpc, expire, now>>

run_uncount(w) ==
    /\ wpc[w] = "dec"
    /\ running_count' = running_count - 1
    /\ wpc' = [wpc EXCEPT ![w] = "tail"]
    /\ UNCHANGED <<tasks, lifecycle, held, seen, cpc, future, expire, now>>

\* Mutant: the test counts the worker that makes it as still running.
AllIdleButMe == running_count = 1 /\ tasks = <<>>

AllIdle == running_count = 0 /\ tasks = <<>>

\* The completion test, and notify_all() for wait_for_all_done().
run_tail(w) ==
    /\ wpc[w] = "tail"
    /\ wpc' = [v \in Threads |-> IF v = w THEN "drop"
                                 ELSE IF AllIdle THEN Wake(wpc[v]) ELSE wpc[v]]
    /\ cpc' = [c \in Clients |-> IF AllIdle THEN Wake(cpc[c]) ELSE cpc[c]]
    /\ seen' = [seen EXCEPT ![w] = terminate]
    /\ UNCHANGED <<tasks, lifecycle, running_count, held, future, expire, now>>

\* Mutant: an exception leaves run(), the thread ends with its first task.
run_drop_exit(w) ==
    /\ wpc[w] = "drop"
    /\ future' = [future EXCEPT ![held[w]] = IF @ = "pending" THEN "broken" ELSE @]
    /\ held' = [held EXCEPT ![w] = NoTask]
    /\ wpc' = [wpc EXCEPT ![w] = "exit"]
    /\ UNCHANGED <<tasks, lifecycle, running_count, seen, cpc, expire, now>>

\* The task_func_ptr goes out of scope; a task that was skipped breaks its promise.
run_drop(w) ==
    /\ wpc[w] = "drop"
    /\ future' = [future EXCEPT ![held[w]] = IF @ = "pending" THEN "broken" ELSE @]
    /\ held' = [held EXCEPT ![w] = NoTask]
    /\ wpc' = [wpc EXCEPT ![w] = "loop"]
    /\ UNCHANGED <<tasks, lifecycle, running_count, seen, cpc, expire, now>>

-----------------------------------------------------------------------------
(* The environment: spurious wake-ups, which std::condition_variable allows, *)
(* and the clock.                                                            *)

spurious_worker(w) ==
    /\ wpc[w] = "wait"
    /\ wpc' = [wpc EXCEPT ![w] = "woken"]
    /\ UNCHANGED <<tasks, lifecycle, running_count, held, seen, cpc, future,
                   expire, now>>

spurious_client(c) ==
    /\ Asleep(cpc[c])
    /\ cpc' = [cpc EXCEPT ![c] = Wake(@)]
    /\ UNCHANGED <<tasks, lifecycle, running_count, wvars, future, expire, now>>

tick ==
    /\ now < MaxNow
    /\ now' = now + 1
    /\ UNCHANGED <<tasks, lifecycle, running_count, wvars, cpc, future, expire>>

-----------------------------------------------------------------------------
get(w) == get_wait(w) \/ get_false(w) \/ get_task(w)

run(w) ==
    \/ run_test(w) \/ get(w) \/ run_count(w) \/ run_expiry(w) \/ run_func(w)
    \/ run_uncount(w) \/ run_tail(w) \/ run_drop(w)

Owner ==
    \/ \E num \in 0..MaxPool : initial(num)
    \/ start
    \/ \E who \in {"stopping", "destroying"} : stop_signal(who)
    \/ stop_join
    \/ stop_clear

Client(c) ==
    \/ \E timed \in BOOLEAN : wait_for_all_done(c, timed)
    \/ wait_recheck(c)
    \/ wait_timeout(c)

Environment ==
    \/ \E w \in Threads : spurious_worker(w)
    \/ \E c \in Clients : spurious_client(c)
    \/ tick

Next ==
    \/ \E w \in Threads : run(w)
    \/ Owner
    \/ \E t \in Tasks, timeout_ms \in Timeouts : exec(t, timeout_ms)
    \/ \E c \in Clients : Client(c)
    \/ Environment

Spec == Init /\ [][Next]_vars

(* Threads that can take a step eventually take it, tasks return, timeouts   *)
(* fire, and a stop() that has begun goes on.  Nobody has to submit, start,  *)
(* stop or wake up spuriously.                                               *)
Fairness ==
    /\ \A w \in Threads : WF_vars(run(w))
    /\ \A c \in Clients : WF_vars(wait_recheck(c)) /\ WF_vars(wait_timeout(c))
    /\ WF_vars(stop_join \/ stop_clear)

FairSpec == Spec /\ Fairness
-----------------------------------------------------------------------------
(* Properties *)

Counted == {"test", "exec", "dec"}
Holding == Counted \cup {"got", "tail", "drop"}
Queued(t) == \E i \in DOMAIN tasks : tasks[i] = t

\* Every variable stays in its domain; running_count, decremented outside the
\* lock, never goes negative.
TypeOK ==
    /\ tasks \in Seq(Tasks)
    /\ workers \in 0..MaxPool /\ pool_size \in 0..MaxPool /\ joined \in 0..MaxPool
    /\ terminate \in BOOLEAN
    /\ running_count \in Nat
    /\ wpc \in [Threads -> WorkerPC]
    /\ held \in [Threads -> Tasks \cup {NoTask}]
    /\ seen \in [Threads -> BOOLEAN]
    /\ cpc \in [Clients -> ClientPC]
    /\ owner \in OwnerState
    /\ future \in [Tasks -> {"none", "pending", "ready", "broken"}]
    /\ expire \in [Tasks -> Nat]
    /\ now \in 0..MaxNow

\* No task is lost or duplicated between _tasks and the workers: a future that is
\* still pending belongs to a task that is either queued once or in the hands of
\* exactly one worker, and a queued task was neither run nor dropped.
OneOwner ==
    /\ \A i, j \in DOMAIN tasks : tasks[i] = tasks[j] => i = j
    /\ \A i \in DOMAIN tasks : future[tasks[i]] = "pending"
    /\ \A v, w \in Threads : held[v] = held[w] /\ held[v] # NoTask => v = w
    /\ \A w \in Threads : held[w] # NoTask => ~Queued(held[w])
    /\ \A t \in Tasks : future[t] = "pending" =>
          Queued(t) \/ \E w \in Threads : held[w] = t

\* running_count, changed by every worker without the lock, is the number of
\* workers between the two changes.
CountIsExact ==
    running_count = Cardinality({w \in Threads : wpc[w] \in Counted})

\* While the pool runs, a queued task never meets a pool whose workers all sleep
\* un-notified: the notify_one() of exec() may go to a wait_for_all_done() caller
\* only when some worker is awake to come back for the task.
NoLostWakeup ==
    tasks # <<>> /\ ~terminate /\ workers > 0 =>
        \E w \in Threads : wpc[w] \notin {"none", "wait", "exit"}

\* A client asleep in wait_for_all_done() of a running pool always has someone to
\* wake it: a queued task, or a worker that has yet to reach the completion test.
SleeperHasWaker ==
    ~terminate /\ (\E c \in Clients : Asleep(cpc[c])) =>
        tasks # <<>> \/ \E w \in Threads : wpc[w] \in Holding \ {"drop"}

\* Once stop() has returned, no worker thread exists, no task is being run and
\* the count is back at zero, whatever was interrupted; start() on the stopped
\* pool creates threads that never get as far as taking a task.
StopIsQuiescent ==
    terminate /\ owner = "idle" =>
        /\ running_count = 0
        /\ \A w \in Threads : wpc[w] \in {"none", "loop", "get", "exit"} /\ held[w] = NoTask
        /\ workers = 0 => \A w \in Threads : wpc[w] = "none"

\* Destroying the pool leaves no future pending: each is ready or broken.
DestroyedResolvesAll ==
    owner = "dead" => \A t \in Tasks : future[t] # "pending"

\* The pool keeps the promise stated in TaskService.
Service == INSTANCE TaskService WITH
    queue <- tasks,
    active <- {held[w] : w \in Threads} \ {NoTask},
    closed <- terminate

RefinesTaskService == Service!ServiceSpec

\* While the pool is not stopped, a task submitted to a started pool is run or
\* dropped as expired.
TaskResolved ==
    \A t \in Tasks :
        future[t] = "pending" /\ workers > 0 ~> future[t] # "pending" \/ terminate

\* stop() and the destructor return, with tasks still queued or running.
StopReturns ==
    owner \in {"stopping", "destroying"} ~> owner \in {"idle", "dead"}

\* Once no more tasks are submitted, an untimed wait_for_all_done() on a started
\* pool returns unless the pool is stopped.
WaiterReturns ==
    \A c \in Clients :
        cpc[c] = "wait" /\ workers > 0 ~> cpc[c] = "true" \/ terminate

\* demo_threadpool.h, on wait_for_all_done(): "@return true, all tasks have been
\* executed".
WaitTrueMeansAllDone ==
    [][\A c \in Clients : cpc[c] # "true" /\ cpc'[c] = "true" =>
          \A t \in Tasks : future[t] # "pending"]_vars
=============================================================================
