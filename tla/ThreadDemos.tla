----------------------------- MODULE ThreadDemos -----------------------------
(***************************************************************************)
(* The demos of mutex/, condition_variable/demo2, concurrent_tools/demo1,  *)
(* future/, atomic/ and thread/, and the class SimpleSyncQueue.  Each is a *)
(* few threads with a few shared objects: here its threads' code is a list *)
(* of instructions, a loop with a fixed number of turns written out, and   *)
(* the actions are what the instructions do, as the standard library says. *)
(* Thread 0 runs main(); the process ends with it.                         *)
(***************************************************************************)
EXTENDS Integers, Sequences, SequencesExt

CONSTANTS
    Demos,      \* the demos to look at
    Workers,    \* how many threads main() starts at most
    Turns       \* how often a loop turns

Threads == 0..Workers
Main == 0
Free == Workers + 1     \* the owner of a mutex that nobody holds

-----------------------------------------------------------------------------
(* The code *)

Op(op) == [op |-> op, arg |-> 0]
On(op, arg) == [op |-> op, arg |-> arg]
Repeat(n, code) == [k \in 1..(n * Len(code)) |-> code[1 + ((k - 1) % Len(code))]]
SpawnAll(ts) == [k \in 1..ts |-> On("spawn", k)] \o [k \in 1..ts |-> On("join", k)]
Program(main, worker(_)) == [t \in Threads |-> IF t = Main THEN main ELSE worker(t)]

\* mutex/demo1_mutex.cpp: ++counter is a load and a store.  The mutants lose the lock.
increases_unlocked == Repeat(Turns, <<Op("load"), On("store", 1)>>)
increases_10k == Repeat(Turns, <<Op("lock"), Op("load"), On("store", 1), Op("unlock")>>)
demo1_mutex == Program(SpawnAll(Workers), LAMBDA t : increases_10k)

\* mutex/demo2_recursive_mutex.cpp
mul == <<Op("lock"), On("mul", 32), Op("unlock")>>
div == <<Op("lock"), On("div", 23), Op("unlock")>>
both == <<Op("lock")>> \o mul \o div \o <<Op("unlock")>>
demo2_recursive == Program(both, LAMBDA t : <<>>)

\* mutex/demo3_timed_mutex.cpp: try_lock_for() goes to 5 when the time is up.  The mutant
\* takes that for having the mutex.
work_unlocked == <<On("try_lock_for", 2), Op("nop"), Op("unlock"), On("goto", 1)>>
work == <<On("try_lock_for", 5), Op("nop"), Op("unlock"), On("goto", 1),
          Op("nop"), On("goto", 1)>>
demo3_timed == Program(SpawnAll(2), LAMBDA t : work)

\* mutex/demo4_lock_guard.cpp: an odd number throws, which unlocks before the catch.
print_thread_id(t) ==
    IF t % 2 = 0 THEN <<Op("lock"), Op("print"), Op("unlock")>>
    ELSE <<Op("lock"), Op("unlock"), Op("print")>>
demo4_guard == Program(SpawnAll(Workers), print_thread_id)

\* mutex/demo5_unique_lock.cpp; fun1() goes on for ever, here for some turns.
fun1 == Repeat(Turns, <<Op("lock"), Op("push_front"), Op("notify_one"), Op("unlock")>>)
fun2 == <<Op("lock"), Op("wait"), Op("pop_back"), Op("unlock"), On("goto", 1)>>
demo5_unique_lock == Program(SpawnAll(2), LAMBDA t : IF t = 1 THEN fun1 ELSE fun2)

\* SimpleSyncQueue, and condition_variable/demo2_sync_queue.cpp.  The mutant takes what
\* may not be there.
Put == <<Op("lock"), Op("push_back"), Op("notify_one"), Op("unlock")>>
Take_newest == <<Op("lock"), Op("wait"), Op("pop_back"), Op("unlock")>>
Take == <<Op("lock"), Op("wait"), Op("pop_front"), Op("unlock")>>
PutDatas == Repeat(Turns, Put)
TakeDatas == Repeat(Turns, Take)
demo2_sync_queue ==
    Program(SpawnAll(Workers), LAMBDA t : IF t % 2 = 1 THEN PutDatas ELSE TakeDatas)

\* concurrent_tools/demo1_call_once.cpp: the last thread's function throws.
do_once(t) == <<Op("call_once"), On(IF t = Workers THEN "throw" ELSE "return", t)>>
demo1_call_once == Program(SpawnAll(Workers), do_once)

\* future/demo3_promise.cpp
print1 == <<Op("set_value")>>
demo3_promise ==
    Program(<<On("spawn", 1), On("get", 1), On("join", 1),
              On("spawn", 2), On("get", 2), On("join", 2)>>, LAMBDA t : print1)

\* future/demo1_future.cpp: async() starts a thread, or leaves the work to get().
demo1_future ==
    Program(<<On("async", 1), On("get", 1), On("async", 2), On("get", 2)>>,
            LAMBDA t : <<Op("set_value")>>)

\* future/demo2_package_task.cpp: main() runs the task itself.  The mutant forgets.
demo2_package_task_unrun == Program(<<On("get", 0)>>, LAMBDA t : <<>>)
demo2_package_task == Program(<<Op("set_value"), On("get", 0)>>, LAMBDA t : <<>>)

\* atomic/demo1_atomic_quickstart.cpp
print_count == <<Op("load_until_set"), Op("print")>>
set_count == <<On("store_atomic", 10)>>
demo1_atomic == Program(SpawnAll(2), LAMBDA t : IF t = 1 THEN print_count ELSE set_count)

\* thread/: a reference to a local variable of main(), which reads it after join().
thread_fun1 == <<Op("load"), On("store", 10)>>
test1 == <<On("spawn", 1), On("join", 1), Op("load")>>
demo1_thread == Program(test1, LAMBDA t : thread_fun1)

\* thread/demo2_thread_basic.cpp: func1(), func2() and func6() run as thread 1, func3(),
\* which has the reference, as 2, func4() as 3, and func5(), which is detached, as 4.
func(t) ==
    CASE t = 1 -> <<Op("print")>>
      [] t = 2 -> thread_fun1
      [] t = 3 -> <<Op("nop"), Op("print")>>
      [] OTHER -> <<Op("print"), Op("nop"), Op("print")>>
Call(t) == <<On("spawn", t), On("join", t)>>
demo2_thread ==
    Program(Call(1) \o Call(1) \o Call(2) \o <<Op("load")>> \o Call(3)
              \o <<On("spawn", 4), Op("nop")>> \o Call(1), func)

AllDemos == {"mutex", "recursive", "timed", "guard", "unique_lock", "sync_queue", "once",
             "promise", "future", "task", "atomic", "thread1", "thread2"}

Code(d) ==
    CASE d = "mutex" -> demo1_mutex
      [] d = "recursive" -> demo2_recursive
      [] d = "timed" -> demo3_timed
      [] d = "guard" -> demo4_guard
      [] d = "unique_lock" -> demo5_unique_lock
      [] d = "sync_queue" -> demo2_sync_queue
      [] d = "once" -> demo1_call_once
      [] d = "promise" -> demo3_promise
      [] d = "future" -> demo1_future
      [] d = "task" -> demo2_package_task
      [] d = "atomic" -> demo1_atomic
      [] d = "thread1" -> demo1_thread
      [] d = "thread2" -> demo2_thread

-----------------------------------------------------------------------------
(* The machine *)

VARIABLES
    demo, code,     \* which demo runs, and its threads' code
    tpc,            \* per thread, the instruction it is at, 0 when it has not started
    mem, reg,       \* the shared variable, and what every thread last read of it
    owner, depth,   \* the mutex
    asleep,         \* who waits for the condition variable
    sent, received, \* what was put into the queue and taken out of it
    queue,
    once, ran,      \* the once_flag, and how many calls returned from its function
    ready,          \* the promises that have their value
    out             \* how many lines were printed

vars == <<demo, code, tpc, mem, reg, owner, depth, asleep, sent, received, queue, once, ran, ready, out>>

Init ==
    /\ demo \in Demos /\ code = Code(demo)
    /\ tpc = [t \in Threads |-> IF t = Main THEN 1 ELSE 0]
    /\ mem = IF demo \in {"thread1", "thread2"} THEN 10 ELSE 0
    /\ reg = [t \in Threads |-> 0]
    /\ owner = Free /\ depth = 0
    /\ asleep = {} /\ sent = <<>> /\ received = <<>> /\ queue = <<>>
    /\ once = "unset" /\ ran = 0 /\ ready = {} /\ out = 0

Started(t) == tpc[t] # 0
Ended(t) == tpc[t] > Len(code[t])
At(t, op) ==
    /\ Started(t) /\ ~Ended(t) /\ ~Ended(Main) /\ t \notin asleep
    /\ code[t][tpc[t]].op = op
Arg(t) == code[t][tpc[t]].arg
Step(t) == tpc' = [tpc EXCEPT ![t] = @ + 1]

mutexvars == <<owner, depth>>
queuevars == <<asleep, sent, received, queue>>
syncvars == <<once, ran, ready>>

\* The mutex of demo2 is recursive.
lock(t) ==
    /\ At(t, "lock")
    /\ owner = Free \/ (owner = t /\ demo = "recursive")
    /\ owner' = t /\ depth' = depth + 1
    /\ Step(t)
    /\ UNCHANGED <<demo, code, mem, reg, queuevars, syncvars, out>>

unlock(t) ==
    /\ At(t, "unlock")
    /\ depth' = depth - 1
    /\ owner' = IF depth' = 0 THEN Free ELSE owner
    /\ Step(t)
    /\ UNCHANGED <<demo, code, mem, reg, queuevars, syncvars, out>>

try_lock_for(t) ==
    /\ At(t, "try_lock_for")
    /\ IF owner = Free THEN owner' = t /\ depth' = 1 /\ Step(t)
       ELSE tpc' = [tpc EXCEPT ![t] = Arg(t)] /\ UNCHANGED mutexvars
    /\ UNCHANGED <<demo, code, mem, reg, queuevars, syncvars, out>>

\* The other instructions that change at most the thread's place.
jump(t) ==
    /\ \/ At(t, "goto") /\ tpc' = [tpc EXCEPT ![t] = Arg(t)]
       \/ At(t, "nop") /\ Step(t)
    /\ UNCHANGED <<demo, code, mem, reg, mutexvars, queuevars, syncvars, out>>

load(t) ==
    /\ At(t, "load") \/ (At(t, "load_until_set") /\ mem # 0)
    /\ reg' = [reg EXCEPT ![t] = mem]
    /\ Step(t)
    /\ UNCHANGED <<demo, code, mem, mutexvars, queuevars, syncvars, out>>

store(t) ==
    /\ \/ At(t, "store") /\ mem' = reg[t] + Arg(t)
       \/ At(t, "store_atomic") /\ mem' = Arg(t)
       \/ At(t, "mul") /\ mem' = mem * Arg(t)
       \/ At(t, "div") /\ mem' = mem \div Arg(t)
    /\ Step(t)
    /\ UNCHANGED <<demo, code, reg, mutexvars, queuevars, syncvars, out>>

print(t) ==
    /\ At(t, "print")
    /\ out' = out + 1
    /\ Step(t)
    /\ UNCHANGED <<demo, code, mem, reg, mutexvars, queuevars, syncvars>>

\* queue holds the oldest value first or last, as it is filled.
push(t) ==
    /\ At(t, "push_back") \/ At(t, "push_front")
    /\ LET x == <<t, tpc[t]>>
       IN  /\ sent' = Append(sent, x)
           /\ queue' = IF At(t, "push_back") THEN Append(queue, x) ELSE <<x>> \o queue
    /\ Step(t)
    /\ UNCHANGED <<demo, code, mem, reg, mutexvars, asleep, received, syncvars, out>>

pop(t) ==
    /\ \/ /\ At(t, "pop_front")
          /\ received' = Append(received, Head(queue)) /\ queue' = Tail(queue)
       \/ /\ At(t, "pop_back")
          /\ received' = Append(received, Last(queue)) /\ queue' = Front(queue)
    /\ Step(t)
    /\ UNCHANGED <<demo, code, mem, reg, mutexvars, asleep, sent, syncvars, out>>

\* wait() with the predicate !empty(): go on, or sleep without the mutex; a thread that
\* is woken takes the mutex again first.
wait(t) ==
    /\ At(t, "wait")
    /\ \/ owner = t /\ queue # <<>> /\ Step(t) /\ UNCHANGED <<owner, depth, asleep>>
       \/ /\ owner = t /\ queue = <<>>
          /\ owner' = Free /\ depth' = 0 /\ asleep' = asleep \cup {t} /\ UNCHANGED tpc
       \/ owner = Free /\ owner' = t /\ depth' = 1 /\ UNCHANGED <<asleep, tpc>>
    /\ UNCHANGED <<demo, code, mem, reg, sent, received, queue, syncvars, out>>

notify_one(t) ==
    /\ At(t, "notify_one")
    /\ IF asleep = {} THEN UNCHANGED asleep ELSE \E u \in asleep : asleep' = asleep \ {u}
    /\ Step(t)
    /\ UNCHANGED <<demo, code, mem, reg, mutexvars, sent, received, queue, syncvars, out>>

spurious(t) ==
    /\ t \in asleep /\ ~Ended(Main)
    /\ asleep' = asleep \ {t}
    /\ UNCHANGED <<demo, code, tpc, mem, reg, mutexvars, sent, received, queue, syncvars, out>>

\* One thread at a time runs the function; after it returned the others skip it.
call_once(t) ==
    /\ At(t, "call_once")
    /\ \/ once = "unset" /\ once' = "running" /\ Step(t)
       \/ once = "done" /\ tpc' = [tpc EXCEPT ![t] = @ + 2] /\ UNCHANGED once
    /\ UNCHANGED <<demo, code, mem, reg, mutexvars, queuevars, ran, ready, out>>

\* An exception leaves the flag as it was; do_once() catches it.
once_ends(t) ==
    /\ \/ At(t, "return") /\ once' = "done" /\ ran' = ran + 1
       \/ At(t, "throw") /\ once' = "unset" /\ UNCHANGED ran
    /\ Step(t)
    /\ UNCHANGED <<demo, code, mem, reg, mutexvars, queuevars, ready, out>>

set_value(t) ==
    /\ At(t, "set_value")
    /\ ready' = ready \cup {t}
    /\ Step(t)
    /\ UNCHANGED <<demo, code, mem, reg, mutexvars, queuevars, once, ran, out>>

\* get() waits for the value; of a deferred call, it makes it.
get(t) ==
    /\ At(t, "get")
    /\ \/ Arg(t) \in ready /\ UNCHANGED ready
       \/ demo = "future" /\ ~Started(Arg(t)) /\ ready' = ready \cup {Arg(t)}
    /\ Step(t)
    /\ UNCHANGED <<demo, code, mem, reg, mutexvars, queuevars, once, ran, out>>

spawn(t) ==
    /\ \/ At(t, "spawn") \/ At(t, "async")
    /\ \/ tpc' = [tpc EXCEPT ![t] = @ + 1, ![Arg(t)] = 1]
       \/ At(t, "async") /\ Step(t)
    /\ UNCHANGED <<demo, code, mem, reg, mutexvars, queuevars, syncvars, out>>

join(t) ==
    /\ At(t, "join") /\ Ended(Arg(t))
    /\ Step(t)
    /\ UNCHANGED <<demo, code, mem, reg, mutexvars, queuevars, syncvars, out>>

Thread(t) ==
    \/ lock(t) \/ unlock(t) \/ try_lock_for(t) \/ jump(t) \/ load(t) \/ store(t) \/ print(t)
    \/ push(t) \/ pop(t) \/ wait(t) \/ notify_one(t) \/ call_once(t) \/ once_ends(t)
    \/ set_value(t) \/ get(t) \/ spawn(t) \/ join(t)

Next == \E t \in Threads : Thread(t) \/ spurious(t)
-----------------------------------------------------------------------------
(* Properties *)

\* Every variable stays in its domain; the mutex is released by who holds it.
TypeOK ==
    /\ demo \in Demos /\ owner \in 0..Free /\ depth \in 0..3
    /\ \A t \in Threads : tpc[t] \in 0..(Len(code[t]) + 1)
    /\ asleep \subseteq Threads /\ ready \subseteq Threads
    /\ once \in {"unset", "running", "done"}
    /\ \A t \in Threads : At(t, "unlock") => owner = t

\* When main() ends it has what the demo is about: every increment counted, the result
\* of the calculation, all threads' lines, one call that returned, the promised
\* values, the value another thread stored; and the threads it joins have ended.
RightResult ==
    Ended(Main) =>
        /\ demo = "mutex" => mem = Workers * Turns
        /\ demo = "recursive" => mem = 0 /\ owner = Free
        /\ demo = "guard" => out = Workers /\ owner = Free
        /\ demo = "sync_queue" => queue = <<>> /\ Len(received) = Turns * (Workers \div 2)
        /\ demo = "once" => ran = 1
        /\ demo \in {"promise", "future"} => ready = {1, 2}
        /\ demo = "atomic" => reg[1] = 10
        /\ demo \in {"thread1", "thread2"} => reg[Main] = 20

\* No two threads are about to use the shared variable, or the queue, of which one is
\* about to write it, unless it is an atomic.
NoDataRace ==
    LET Writes(t) == \E op \in {"store", "mul", "div", "push_back", "push_front",
                                "pop_front", "pop_back"} : At(t, op)
    IN  \A t, u \in Threads : t # u => ~(Writes(t) /\ (Writes(u) \/ At(u, "load")))

\* What goes through the queue.
Values == Threads \X (1..(5 * Turns))
=============================================================================
