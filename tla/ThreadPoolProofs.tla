--------------------------- MODULE ThreadPoolProofs ---------------------------
(***************************************************************************)
(* Proofs that the safety properties of ThreadPool hold for any number of  *)
(* tasks, clients and worker threads, and that every step of the pool is a *)
(* step of TaskService or leaves it unchanged.                             *)
(***************************************************************************)
EXTENDS ThreadPool, Integers, FiniteSetTheorems, TLAPS

(* TypeOK without the claim that running_count is never negative, which      *)
(* needs CountIsExact.                                                       *)
TypeInt ==
    /\ tasks \in Seq(Tasks)
    /\ workers \in 0..MaxPool /\ pool_size \in 0..MaxPool /\ joined \in 0..MaxPool
    /\ terminate \in BOOLEAN
    /\ running_count \in Int
    /\ wpc \in [Threads -> WorkerPC]
    /\ held \in [Threads -> Tasks \cup {NoTask}]
    /\ seen \in [Threads -> BOOLEAN]
    /\ cpc \in [Clients -> ClientPC]
    /\ owner \in OwnerState
    /\ future \in [Tasks -> {"none", "pending", "ready", "broken"}]
    /\ expire \in [Tasks -> Nat]
    /\ now \in 0..MaxNow

Stopping == owner \in {"stopping", "destroying"}

(* Which threads exist: those up to workers that stop() has not joined; and  *)
(* a worker leaves run() only when the pool stops.                           *)
LifeInv ==
    /\ owner # "idle" => terminate
    /\ Stopping => joined <= workers
    /\ owner = "dead" => workers = 0 /\ tasks = <<>>
    /\ \A w \in Threads :
          wpc[w] # "none" <=> w <= workers /\ (Stopping => joined < w)
    /\ \A w \in Threads : seen[w] \/ wpc[w] = "exit" => terminate

(* Where a worker is in run() tells whether it holds a task and what became  *)
(* of the task's future.                                                     *)
HoldInv ==
    /\ \A w \in Threads : held[w] # NoTask <=> wpc[w] \in Holding
    /\ \A w \in Threads : held[w] # NoTask => future[held[w]] # "none"
    /\ \A w \in Threads :
          wpc[w] \in {"got", "test", "exec"} => future[held[w]] = "pending"

-----------------------------------------------------------------------------
(* Notifications *)

\* What a notification does to a worker: it wakes it or does nothing to it.
LEMMA WakeWorker ==
    ASSUME NEW p \in WorkerPC
    PROVE  /\ Wake(p) \in WorkerPC
           /\ p = "wait" => Wake(p) = "woken"
           /\ p # "wait" => Wake(p) = p
  BY DEF Wake, WorkerPC

\* What a notification does to a client: it is no longer asleep.
LEMMA WakeClient ==
    ASSUME NEW p \in ClientPC
    PROVE  /\ Wake(p) \in ClientPC
           /\ ~Asleep(Wake(p))
           /\ ~Asleep(p) => Wake(p) = p
  BY DEF Wake, Asleep, ClientPC

(* NotifyOne moves at most one thread, and moves none only when all are awake *)
LEMMA NotifyOneFacts ==
    ASSUME TypeInt, NotifyOne
    PROVE  /\ wpc' \in [Threads -> WorkerPC]
           /\ cpc' \in [Clients -> ClientPC]
           /\ \A w \in Threads :
                 wpc'[w] = wpc[w] \/ (wpc[w] = "wait" /\ wpc'[w] = "woken")
           /\ \A c \in Clients : Asleep(cpc'[c]) => Asleep(cpc[c])
           /\ \/ \E w \in Threads : wpc'[w] = "woken"
              \/ \E c \in Clients : Asleep(cpc[c])
              \/ \A w \in Threads : wpc'[w] # "wait"
<1>1. CASE \E w \in Threads :
              /\ Asleep(wpc[w])
              /\ wpc' = [wpc EXCEPT ![w] = Wake(@)]
              /\ UNCHANGED cpc
  BY <1>1 DEF TypeInt, Wake, Asleep, WorkerPC
<1>2. CASE \E c \in Clients :
              /\ Asleep(cpc[c])
              /\ cpc' = [cpc EXCEPT ![c] = Wake(@)]
              /\ UNCHANGED wpc
  BY <1>2 DEF TypeInt, Wake, Asleep, ClientPC
<1>3. CASE /\ \A w \in Threads : ~Asleep(wpc[w])
           /\ \A c \in Clients : ~Asleep(cpc[c])
           /\ UNCHANGED <<wpc, cpc>>
  BY <1>3 DEF TypeInt, Asleep
<1>4. QED
  BY <1>1, <1>2, <1>3 DEF NotifyOne

\* NotifyAll leaves nobody asleep.
LEMMA NotifyAllFacts ==
    ASSUME TypeInt, NotifyAll
    PROVE  /\ wpc' \in [Threads -> WorkerPC]
           /\ cpc' \in [Clients -> ClientPC]
           /\ \A w \in Threads :
                 wpc'[w] = wpc[w] \/ (wpc[w] = "wait" /\ wpc'[w] = "woken")
           /\ \A w \in Threads : wpc'[w] # "wait"
           /\ \A c \in Clients : ~Asleep(cpc'[c])
<1>1. \A w \in Threads : wpc[w] \in WorkerPC
  BY DEF TypeInt
<1>2. \A c \in Clients : cpc[c] \in ClientPC
  BY DEF TypeInt
<1>3. \A w \in Threads : wpc'[w] = Wake(wpc[w])
  BY DEF NotifyAll
<1>4. \A c \in Clients : cpc'[c] = Wake(cpc[c])
  BY DEF NotifyAll
<1>5. wpc' \in [Threads -> WorkerPC] /\ cpc' \in [Clients -> ClientPC]
  BY <1>1, <1>2, WakeWorker, WakeClient DEF NotifyAll
<1>6. QED
  BY <1>1, <1>2, <1>3, <1>4, <1>5, WakeWorker, WakeClient

-----------------------------------------------------------------------------
(* Types *)

\* Every action keeps the variables in their domains.
LEMMA TypeStep ==
    ASSUME TypeInt, [Next]_vars
    PROVE  TypeInt'
<1> USE ThreadPoolAssumption
    DEF TypeInt, Threads, WorkerPC, ClientPC, OwnerState, lifecycle, wvars
<1>1. ASSUME NEW num \in 0..MaxPool, initial(num) PROVE TypeInt'
  BY <1>1 DEF initial
<1>2. CASE start
  BY <1>2 DEF start
<1>3. ASSUME NEW who \in {"stopping", "destroying"}, stop_signal(who) PROVE TypeInt'
  BY <1>3, NotifyAllFacts DEF stop_signal
<1>4. CASE stop_join
  BY <1>4 DEF stop_join
<1>5. CASE stop_clear
  <2>1. CASE owner = "stopping"
    BY <1>5, <2>1 DEF stop_clear
  <2>2. CASE owner = "destroying"
    <3>1. BreakPromises \in [Tasks -> {"none", "pending", "ready", "broken"}]
      BY DEF BreakPromises
    <3>2. tasks' = <<>> /\ future' = BreakPromises
      BY <1>5, <2>2 DEF stop_clear
    <3>3. QED
      BY <1>5, <2>2, <3>1, <3>2 DEF stop_clear
  <2>3. QED
    BY <1>5, <2>1, <2>2 DEF stop_clear
<1>6. ASSUME NEW t \in Tasks, NEW timeout_ms \in Timeouts, exec(t, timeout_ms) PROVE TypeInt'
  BY <1>6, NotifyOneFacts DEF exec, ExpireTime
<1>7. ASSUME NEW c \in Clients, NEW timed \in BOOLEAN, wait_for_all_done(c, timed) PROVE TypeInt'
  BY <1>7 DEF wait_for_all_done
<1>8. ASSUME NEW c \in Clients, wait_recheck(c) PROVE TypeInt'
  BY <1>8 DEF wait_recheck
<1>9. ASSUME NEW c \in Clients, wait_timeout(c) PROVE TypeInt'
  BY <1>9 DEF wait_timeout
<1>10. ASSUME NEW w \in Threads, run_test(w) PROVE TypeInt'
  BY <1>10 DEF run_test
<1>11. ASSUME NEW w \in Threads, get_wait(w) PROVE TypeInt'
  BY <1>11 DEF get_wait
<1>12. ASSUME NEW w \in Threads, get_false(w) PROVE TypeInt'
  BY <1>12 DEF get_false
<1>13. ASSUME NEW w \in Threads, get_task(w) PROVE TypeInt'
  BY <1>13 DEF get_task
<1>14. ASSUME NEW w \in Threads, run_count(w) PROVE TypeInt'
  BY <1>14 DEF run_count
<1>15. ASSUME NEW w \in Threads, run_expiry(w) PROVE TypeInt'
  BY <1>15 DEF run_expiry
<1>16. ASSUME NEW w \in Threads, run_func(w) PROVE TypeInt'
  BY <1>16 DEF run_func
<1>17. ASSUME NEW w \in Threads, run_uncount(w) PROVE TypeInt'
  BY <1>17 DEF run_uncount
<1>18. ASSUME NEW w \in Threads, run_tail(w) PROVE TypeInt'
  BY <1>18, WakeWorker, WakeClient DEF run_tail
<1>19. ASSUME NEW w \in Threads, run_drop(w) PROVE TypeInt'
  BY <1>19 DEF run_drop
<1>20. ASSUME NEW w \in Threads, spurious_worker(w) PROVE TypeInt'
  BY <1>20 DEF spurious_worker
<1>21. ASSUME NEW c \in Clients, spurious_client(c) PROVE TypeInt'
  BY <1>21, WakeClient DEF spurious_client
<1>22. CASE tick
  BY <1>22 DEF tick
<1>23. CASE UNCHANGED vars
  BY <1>23 DEF vars
<1>24. QED
  BY <1>1, <1>2, <1>3, <1>4, <1>5, <1>6, <1>7, <1>8, <1>9, <1>10, <1>11, <1>12, <1>13, <1>14, <1>15, <1>16, <1>17, <1>18, <1>19, <1>20, <1>21, <1>22, <1>23
  DEF Next, run, get, Owner, Client, Environment

\* The constructor's values are in the domains.
LEMMA TypeInit ==
    ASSUME Init
    PROVE  TypeInt
<1>1. 1 \in 0..MaxPool /\ 0 \in 0..MaxPool /\ 0 \in 0..MaxNow
  BY ThreadPoolAssumption
<1>2. tasks \in Seq(Tasks)
  BY DEF Init
<1>3. terminate \in BOOLEAN /\ seen \in [Threads -> BOOLEAN]
  BY Zenon DEF Init
<1>4. wpc \in [Threads -> WorkerPC] /\ cpc \in [Clients -> ClientPC]
  BY DEF Init, WorkerPC, ClientPC
<1>5. held \in [Threads -> Tasks \cup {NoTask}]
  BY DEF Init
<1>6. /\ future \in [Tasks -> {"none", "pending", "ready", "broken"}]
      /\ expire \in [Tasks -> Nat]
  BY DEF Init
<1>7. QED
  BY <1>1, <1>2, <1>3, <1>4, <1>5, <1>6 DEF Init, TypeInt, OwnerState

-----------------------------------------------------------------------------
(* The life of the threads *)

\* Every action keeps LifeInv.
LEMMA LifeStep ==
    ASSUME TypeInt, LifeInv, [Next]_vars
    PROVE  LifeInv'
<1> USE ThreadPoolAssumption
    DEF TypeInt, LifeInv, Stopping, Threads, OwnerState, lifecycle, wvars
<1>1. ASSUME NEW num \in 0..MaxPool, initial(num) PROVE LifeInv'
  BY <1>1 DEF initial
<1>2. CASE start
  BY <1>2 DEF start
<1>3. ASSUME NEW who \in {"stopping", "destroying"}, stop_signal(who) PROVE LifeInv'
  BY <1>3, NotifyAllFacts DEF stop_signal
<1>4. CASE stop_join
  BY <1>4 DEF stop_join
<1>5. CASE stop_clear
  BY <1>5 DEF stop_clear
<1>6. ASSUME NEW t \in Tasks, NEW timeout_ms \in Timeouts, exec(t, timeout_ms) PROVE LifeInv'
  BY <1>6, NotifyOneFacts DEF exec, Alive
<1>7. ASSUME NEW c \in Clients, NEW timed \in BOOLEAN, wait_for_all_done(c, timed) PROVE LifeInv'
  BY <1>7 DEF wait_for_all_done
<1>8. ASSUME NEW c \in Clients, wait_recheck(c) PROVE LifeInv'
  BY <1>8 DEF wait_recheck
<1>9. ASSUME NEW c \in Clients, wait_timeout(c) PROVE LifeInv'
  BY <1>9 DEF wait_timeout
<1>10. ASSUME NEW w \in Threads, run_test(w) PROVE LifeInv'
  BY <1>10 DEF run_test
<1>11. ASSUME NEW w \in Threads, get_wait(w) PROVE LifeInv'
  BY <1>11 DEF get_wait
<1>12. ASSUME NEW w \in Threads, get_false(w) PROVE LifeInv'
  BY <1>12 DEF get_false
<1>13. ASSUME NEW w \in Threads, get_task(w) PROVE LifeInv'
  BY <1>13 DEF get_task
<1>14. ASSUME NEW w \in Threads, run_count(w) PROVE LifeInv'
  BY <1>14 DEF run_count
<1>15. ASSUME NEW w \in Threads, run_expiry(w) PROVE LifeInv'
  BY <1>15 DEF run_expiry
<1>16. ASSUME NEW w \in Threads, run_func(w) PROVE LifeInv'
  BY <1>16 DEF run_func
<1>17. ASSUME NEW w \in Threads, run_uncount(w) PROVE LifeInv'
  BY <1>17 DEF run_uncount
<1>18. ASSUME NEW w \in Threads, run_tail(w) PROVE LifeInv'
  BY <1>18, WakeWorker DEF run_tail
<1>19. ASSUME NEW w \in Threads, run_drop(w) PROVE LifeInv'
  BY <1>19 DEF run_drop
<1>20. ASSUME NEW w \in Threads, spurious_worker(w) PROVE LifeInv'
  BY <1>20 DEF spurious_worker
<1>21. ASSUME NEW c \in Clients, spurious_client(c) PROVE LifeInv'
  BY <1>21 DEF spurious_client
<1>22. CASE tick
  BY <1>22 DEF tick
<1>23. CASE UNCHANGED vars
  BY <1>23 DEF vars
<1>24. QED
  BY <1>1, <1>2, <1>3, <1>4, <1>5, <1>6, <1>7, <1>8, <1>9, <1>10, <1>11, <1>12, <1>13, <1>14, <1>15, <1>16, <1>17, <1>18, <1>19, <1>20, <1>21, <1>22, <1>23
  DEF Next, run, get, Owner, Client, Environment

-----------------------------------------------------------------------------
(* The life of a task *)

\* Every action keeps HoldInv.
LEMMA HoldStep ==
    ASSUME TypeInt, LifeInv, HoldInv, OneOwner, [Next]_vars
    PROVE  HoldInv'
<1> USE ThreadPoolAssumption
    DEF TypeInt, HoldInv, Holding, Counted, Threads, WorkerPC, lifecycle, wvars
<1>1. ASSUME NEW num \in 0..MaxPool, initial(num) PROVE HoldInv'
  BY <1>1 DEF initial
<1>2. CASE start
  BY <1>2 DEF start, LifeInv, Stopping
<1>3. ASSUME NEW who \in {"stopping", "destroying"}, stop_signal(who) PROVE HoldInv'
  BY <1>3, NotifyAllFacts DEF stop_signal
<1>4. CASE stop_join
  BY <1>4 DEF stop_join
<1>5. CASE stop_clear
  <2>1. \A w \in Threads : held[w] = NoTask
    BY <1>5 DEF stop_clear, LifeInv, Stopping
  <2>2. QED
    BY <1>5, <2>1 DEF stop_clear
<1>6. ASSUME NEW t \in Tasks, NEW timeout_ms \in Timeouts, exec(t, timeout_ms) PROVE HoldInv'
  <2>1. /\ future[t] = "none" /\ future' = [future EXCEPT ![t] = "pending"] /\ held' = held
        /\ \A w \in Threads : wpc'[w] = wpc[w] \/ (wpc[w] = "wait" /\ wpc'[w] = "woken")
    BY <1>6, NotifyOneFacts DEF exec
  <2>2. \A w \in Threads : wpc'[w] \in Holding <=> wpc[w] \in Holding
    BY <2>1
  <2>3. \A w \in Threads : held[w] # NoTask => future'[held[w]] = future[held[w]]
    BY <2>1
  <2>4. \A w \in Threads :
           wpc'[w] \in {"got", "test", "exec"} => wpc'[w] = wpc[w] /\ held[w] # NoTask
    BY <2>1
  <2>5. QED
    BY <2>1, <2>2, <2>3, <2>4
<1>7. ASSUME NEW c \in Clients, NEW timed \in BOOLEAN, wait_for_all_done(c, timed) PROVE HoldInv'
  BY <1>7 DEF wait_for_all_done
<1>8. ASSUME NEW c \in Clients, wait_recheck(c) PROVE HoldInv'
  BY <1>8 DEF wait_recheck
<1>9. ASSUME NEW c \in Clients, wait_timeout(c) PROVE HoldInv'
  BY <1>9 DEF wait_timeout
<1>10. ASSUME NEW w \in Threads, run_test(w) PROVE HoldInv'
  BY <1>10 DEF run_test
<1>11. ASSUME NEW w \in Threads, get_wait(w) PROVE HoldInv'
  BY <1>11 DEF get_wait
<1>12. ASSUME NEW w \in Threads, get_false(w) PROVE HoldInv'
  BY <1>12 DEF get_false
<1>13. ASSUME NEW w \in Threads, get_task(w) PROVE HoldInv'
  <2>1. Head(tasks) \in Tasks /\ future[Head(tasks)] = "pending"
    BY <1>13 DEF get_task, OneOwner
  <2>2. held' = [held EXCEPT ![w] = Head(tasks)] /\ UNCHANGED future
    BY <1>13 DEF get_task
  <2>3. wpc' = [wpc EXCEPT ![w] = "got"]
    BY <1>13 DEF get_task
  <2>4. QED
    BY <2>1, <2>2, <2>3
<1>14. ASSUME NEW w \in Threads, run_count(w) PROVE HoldInv'
  BY <1>14 DEF run_count
<1>15. ASSUME NEW w \in Threads, run_expiry(w) PROVE HoldInv'
  BY <1>15 DEF run_expiry
<1>16. ASSUME NEW w \in Threads, run_func(w) PROVE HoldInv'
  <2>1. \A v \in Threads \ {w} : held[v] # NoTask => held[v] # held[w]
    BY DEF OneOwner
  <2>2. held[w] \in Tasks
    BY <1>16 DEF run_func
  <2>3. QED
    BY <1>16, <2>1, <2>2 DEF run_func
<1>17. ASSUME NEW w \in Threads, run_uncount(w) PROVE HoldInv'
  BY <1>17 DEF run_uncount
<1>18. ASSUME NEW w \in Threads, run_tail(w) PROVE HoldInv'
  <2>1. \A v \in Threads : wpc'[v] = wpc[v] \/ (wpc[v] = "wait" /\ wpc'[v] = "woken")
                             \/ (v = w /\ wpc'[v] = "drop")
    BY <1>18, WakeWorker DEF run_tail
  <2>2. QED
    BY <1>18, <2>1 DEF run_tail
<1>19. ASSUME NEW w \in Threads, run_drop(w) PROVE HoldInv'
  <2>1. \A v \in Threads \ {w} : held[v] # NoTask => held[v] # held[w]
    BY DEF OneOwner
  <2>2. held[w] \in Tasks
    BY <1>19 DEF run_drop
  <2>3. QED
    BY <1>19, <2>1, <2>2 DEF run_drop
<1>20. ASSUME NEW w \in Threads, spurious_worker(w) PROVE HoldInv'
  BY <1>20 DEF spurious_worker
<1>21. ASSUME NEW c \in Clients, spurious_client(c) PROVE HoldInv'
  BY <1>21 DEF spurious_client
<1>22. CASE tick
  BY <1>22 DEF tick
<1>23. CASE UNCHANGED vars
  BY <1>23 DEF vars
<1>24. QED
  BY <1>1, <1>2, <1>3, <1>4, <1>5, <1>6, <1>7, <1>8, <1>9, <1>10, <1>11, <1>12, <1>13, <1>14, <1>15, <1>16, <1>17, <1>18, <1>19, <1>20, <1>21, <1>22, <1>23
  DEF Next, run, get, Owner, Client, Environment

\* Every action keeps OneOwner.
LEMMA OneOwnerStep ==
    ASSUME TypeInt, LifeInv, HoldInv, OneOwner, [Next]_vars
    PROVE  OneOwner'
<1> USE DEF TypeInt, OneOwner, Queued, lifecycle, wvars
<1>1. ASSUME NEW num \in 0..MaxPool, initial(num) PROVE OneOwner'
  BY <1>1 DEF initial
<1>2. CASE start
  BY <1>2 DEF start
<1>3. ASSUME NEW who \in {"stopping", "destroying"}, stop_signal(who) PROVE OneOwner'
  BY <1>3 DEF stop_signal
<1>4. CASE stop_join
  BY <1>4 DEF stop_join
<1>5. CASE stop_clear
  <2>1. CASE owner = "stopping"
    BY <1>5, <2>1 DEF stop_clear
  <2>2. CASE owner = "destroying"
    <3>1. \A w \in Threads : held[w] = NoTask
      <4>1. \A w \in Threads : wpc[w] = "none"
        BY <1>5, ThreadPoolAssumption DEF stop_clear, LifeInv, Stopping, Threads
      <4>2. QED
        BY <4>1 DEF HoldInv, Holding, Counted
    <3>2. tasks' = <<>> /\ UNCHANGED held
      BY <1>5, <2>2 DEF stop_clear
    <3>3. \A u \in Tasks : future'[u] # "pending"
      <4>1. future' = BreakPromises
        BY <1>5, <2>2 DEF stop_clear
      <4>2. QED
        BY <3>1, <4>1, ThreadPoolAssumption DEF BreakPromises
    <3>4. QED
      BY <3>1, <3>2, <3>3
  <2>3. QED
    BY <1>5, <2>1, <2>2 DEF stop_clear
<1>6. ASSUME NEW t \in Tasks, NEW timeout_ms \in Timeouts, exec(t, timeout_ms) PROVE OneOwner'
  <2>1. /\ future[t] = "none" /\ tasks' = Append(tasks, t) /\ UNCHANGED held
        /\ future' = [future EXCEPT ![t] = "pending"]
    BY <1>6 DEF exec
  <2>2. /\ DOMAIN tasks' = DOMAIN tasks \cup {Len(tasks) + 1}
        /\ \A i \in DOMAIN tasks : tasks'[i] = tasks[i]
        /\ tasks'[Len(tasks) + 1] = t
        /\ Len(tasks) + 1 \notin DOMAIN tasks
    BY <2>1
  <2>3. /\ ~Queued(t)
        /\ \A w \in Threads : held[w] # t
    BY <2>1, ThreadPoolAssumption DEF HoldInv
  <2>4. \A u \in Tasks : (\E i \in DOMAIN tasks' : tasks'[i] = u) <=> Queued(u) \/ u = t
    BY <2>2
  <2>5. \A u \in Tasks : future'[u] = IF u = t THEN "pending" ELSE future[u]
    BY <2>1
  <2>6. \A i, j \in DOMAIN tasks' : tasks'[i] = tasks'[j] => i = j
    BY <2>2, <2>3
  <2>7. \A i \in DOMAIN tasks' : future'[tasks'[i]] = "pending"
    BY <2>2, <2>5
  <2>8. \A w \in Threads : held'[w] # NoTask =>
            ~\E i \in DOMAIN tasks' : tasks'[i] = held'[w]
    BY <2>1, <2>3, <2>4
  <2>9. \A v, w \in Threads : held'[v] = held'[w] /\ held'[v] # NoTask => v = w
    BY <2>1
  <2>10. \A u \in Tasks : future'[u] = "pending" =>
            \/ \E i \in DOMAIN tasks' : tasks'[i] = u
            \/ \E w \in Threads : held'[w] = u
    BY <2>1, <2>4, <2>5
  <2>11. QED
    BY <2>6, <2>7, <2>8, <2>9, <2>10
<1>7. ASSUME NEW c \in Clients, NEW timed \in BOOLEAN, wait_for_all_done(c, timed) PROVE OneOwner'
  BY <1>7 DEF wait_for_all_done
<1>8. ASSUME NEW c \in Clients, wait_recheck(c) PROVE OneOwner'
  BY <1>8 DEF wait_recheck
<1>9. ASSUME NEW c \in Clients, wait_timeout(c) PROVE OneOwner'
  BY <1>9 DEF wait_timeout
<1>10. ASSUME NEW w \in Threads, run_test(w) PROVE OneOwner'
  BY <1>10 DEF run_test
<1>11. ASSUME NEW w \in Threads, get_wait(w) PROVE OneOwner'
  BY <1>11 DEF get_wait
<1>12. ASSUME NEW w \in Threads, get_false(w) PROVE OneOwner'
  BY <1>12 DEF get_false
<1>13. ASSUME NEW w \in Threads, get_task(w) PROVE OneOwner'
  <2>1. /\ tasks' = Tail(tasks) /\ UNCHANGED future /\ tasks # <<>>
        /\ held' = [held EXCEPT ![w] = Head(tasks)]
    BY <1>13 DEF get_task
  <2>2. held[w] = NoTask
    BY <1>13 DEF get_task, HoldInv, Holding, Counted
  <2>3. /\ DOMAIN tasks' = 1..(Len(tasks) - 1)
        /\ \A i \in DOMAIN tasks' : tasks'[i] = tasks[i + 1] /\ i + 1 \in DOMAIN tasks
    BY <2>1
  <2>4. Head(tasks) = tasks[1] /\ 1 \in DOMAIN tasks /\ tasks[1] \in Tasks
    BY <2>1
  <2>5. \A i \in DOMAIN tasks : i = 1 \/ (i - 1 \in DOMAIN tasks' /\ tasks'[i - 1] = tasks[i])
    BY <2>1, <2>3
  <2>6. \A u \in Tasks : (\E i \in DOMAIN tasks' : tasks'[i] = u) <=> Queued(u) /\ u # tasks[1]
    <3>1. \A i \in DOMAIN tasks' : i + 1 # 1 /\ tasks'[i] # tasks[1]
      BY <2>3, <2>4
    <3>2. \A u \in Tasks : (\E i \in DOMAIN tasks' : tasks'[i] = u) => Queued(u) /\ u # tasks[1]
      BY <2>3, <3>1
    <3>3. \A u \in Tasks : Queued(u) /\ u # tasks[1] => \E i \in DOMAIN tasks' : tasks'[i] = u
      BY <2>5
    <3>4. QED
      BY <3>2, <3>3
  <2>7. \A v \in Threads : held'[v] = IF v = w THEN tasks[1] ELSE held[v]
    BY <2>1, <2>4
  <2>8. \A i, j \in DOMAIN tasks' : tasks'[i] = tasks'[j] => i = j
    BY <2>3
  <2>9. \A i \in DOMAIN tasks' : future'[tasks'[i]] = "pending"
    BY <2>1, <2>3
  <2>10. \A v \in Threads : held[v] # tasks[1]
    BY <2>4, ThreadPoolAssumption
  <2>11. \A u, v \in Threads : held'[u] = held'[v] /\ held'[u] # NoTask => u = v
    <3>1. SUFFICES ASSUME NEW u \in Threads, NEW v \in Threads, held'[u] = held'[v], held'[u] # NoTask
                   PROVE  u = v
      OBVIOUS
    <3>2. CASE u # w /\ v # w
      BY <2>7, <3>1, <3>2
    <3>3. CASE u = w \/ v = w
      BY <2>7, <2>10, <3>1, <3>3
    <3>4. QED
      BY <3>2, <3>3
  <2>12. \A v \in Threads : held'[v] # NoTask =>
            ~\E i \in DOMAIN tasks' : tasks'[i] = held'[v]
    <3>1. \A v \in Threads : held[v] # NoTask => held[v] \in Tasks /\ ~Queued(held[v])
      OBVIOUS
    <3>2. QED
      BY <2>4, <2>6, <2>7, <3>1
  <2>13. \A u \in Tasks : future'[u] = "pending" =>
            \/ \E i \in DOMAIN tasks' : tasks'[i] = u
            \/ \E v \in Threads : held'[v] = u
    <3> SUFFICES ASSUME NEW u \in Tasks, future[u] = "pending"
                 PROVE  \/ \E i \in DOMAIN tasks' : tasks'[i] = u
                        \/ \E v \in Threads : held'[v] = u
      BY <2>1
    <3>1. CASE u = tasks[1]
      BY <3>1, <2>7
    <3>2. CASE u # tasks[1] /\ Queued(u)
      BY <3>2, <2>6
    <3>3. CASE \E v \in Threads : held[v] = u
      BY <3>3, <2>2, <2>7, ThreadPoolAssumption
    <3>4. QED
      BY <3>1, <3>2, <3>3
  <2>14. QED
    BY <2>8, <2>9, <2>11, <2>12, <2>13
<1>14. ASSUME NEW w \in Threads, run_count(w) PROVE OneOwner'
  BY <1>14 DEF run_count
<1>15. ASSUME NEW w \in Threads, run_expiry(w) PROVE OneOwner'
  BY <1>15 DEF run_expiry
<1>16. ASSUME NEW w \in Threads, run_func(w) PROVE OneOwner'
  <2>1. held[w] \in Tasks /\ ~Queued(held[w])
    BY <1>16 DEF run_func, HoldInv, Holding, Counted
  <2>2. QED
    BY <1>16, <2>1 DEF run_func
<1>17. ASSUME NEW w \in Threads, run_uncount(w) PROVE OneOwner'
  BY <1>17 DEF run_uncount
<1>18. ASSUME NEW w \in Threads, run_tail(w) PROVE OneOwner'
  BY <1>18 DEF run_tail
<1>19. ASSUME NEW w \in Threads, run_drop(w) PROVE OneOwner'
  <2>1. held[w] \in Tasks /\ ~Queued(held[w])
    BY <1>19 DEF run_drop, HoldInv, Holding, Counted
  <2>2. /\ UNCHANGED tasks
        /\ held' = [held EXCEPT ![w] = NoTask]
        /\ \A u \in Tasks : u # held[w] => future'[u] = future[u]
        /\ future'[held[w]] # "pending"
    BY <1>19, <2>1 DEF run_drop
  <2>3. QED
    BY <2>1, <2>2
<1>20. ASSUME NEW w \in Threads, spurious_worker(w) PROVE OneOwner'
  BY <1>20 DEF spurious_worker
<1>21. ASSUME NEW c \in Clients, spurious_client(c) PROVE OneOwner'
  BY <1>21 DEF spurious_client
<1>22. CASE tick
  BY <1>22 DEF tick
<1>23. CASE UNCHANGED vars
  BY <1>23 DEF vars
<1>24. QED
  BY <1>1, <1>2, <1>3, <1>4, <1>5, <1>6, <1>7, <1>8, <1>9, <1>10, <1>11, <1>12, <1>13, <1>14, <1>15, <1>16, <1>17, <1>18, <1>19, <1>20, <1>21, <1>22, <1>23
  DEF Next, run, get, Owner, Client, Environment

-----------------------------------------------------------------------------
(* The counter *)

CountedWorkers == {w \in Threads : wpc[w] \in Counted}

\* The counted workers are a finite set.
LEMMA CountedFinite ==
    /\ IsFiniteSet(CountedWorkers)
    /\ Cardinality(CountedWorkers) \in Nat
<1>1. IsFiniteSet(Threads)
  BY ThreadPoolAssumption, FS_Interval DEF Threads
<1>2. CountedWorkers \in SUBSET Threads
  BY DEF CountedWorkers
<1>3. QED
  BY <1>1, <1>2, FS_Subset, FS_CardinalityType

\* Every action keeps CountIsExact.
LEMMA CountStep ==
    ASSUME TypeInt, LifeInv, HoldInv, CountIsExact, [Next]_vars
    PROVE  CountIsExact'
<1> USE DEF TypeInt, lifecycle, wvars
<1>1. ASSUME NEW num \in 0..MaxPool, initial(num) PROVE CountIsExact'
  <2>1. running_count' = running_count
    BY <1>1 DEF initial
  <2>2. CountedWorkers' = CountedWorkers
    BY <1>1 DEF initial, CountedWorkers, Counted
  <2>3. QED
    BY <2>1, <2>2 DEF CountIsExact, CountedWorkers
<1>2. CASE start
  <2>1. running_count' = running_count
    BY <1>2 DEF start
  <2>2. CountedWorkers' = CountedWorkers
    BY <1>2, ThreadPoolAssumption DEF start, CountedWorkers, Counted, LifeInv, Stopping, Threads
  <2>3. QED
    BY <2>1, <2>2 DEF CountIsExact, CountedWorkers
<1>3. ASSUME NEW who \in {"stopping", "destroying"}, stop_signal(who) PROVE CountIsExact'
  <2>1. running_count' = running_count
    BY <1>3 DEF stop_signal
  <2>2. CountedWorkers' = CountedWorkers
    BY <1>3, NotifyAllFacts DEF stop_signal, CountedWorkers, Counted
  <2>3. QED
    BY <2>1, <2>2 DEF CountIsExact, CountedWorkers
<1>4. CASE stop_join
  <2>1. running_count' = running_count
    BY <1>4 DEF stop_join
  <2>2. CountedWorkers' = CountedWorkers
    BY <1>4 DEF stop_join, CountedWorkers, Counted
  <2>3. QED
    BY <2>1, <2>2 DEF CountIsExact, CountedWorkers
<1>5. CASE stop_clear
  <2>1. running_count' = running_count
    BY <1>5 DEF stop_clear
  <2>2. CountedWorkers' = CountedWorkers
    BY <1>5 DEF stop_clear, CountedWorkers, Counted
  <2>3. QED
    BY <2>1, <2>2 DEF CountIsExact, CountedWorkers
<1>6. ASSUME NEW t \in Tasks, NEW timeout_ms \in Timeouts, exec(t, timeout_ms) PROVE CountIsExact'
  <2>1. running_count' = running_count
    BY <1>6 DEF exec
  <2>2. CountedWorkers' = CountedWorkers
    BY <1>6, NotifyOneFacts DEF exec, CountedWorkers, Counted
  <2>3. QED
    BY <2>1, <2>2 DEF CountIsExact, CountedWorkers
<1>7. ASSUME NEW c \in Clients, NEW timed \in BOOLEAN, wait_for_all_done(c, timed) PROVE CountIsExact'
  <2>1. running_count' = running_count
    BY <1>7 DEF wait_for_all_done
  <2>2. CountedWorkers' = CountedWorkers
    BY <1>7 DEF wait_for_all_done, CountedWorkers, Counted
  <2>3. QED
    BY <2>1, <2>2 DEF CountIsExact, CountedWorkers
<1>8. ASSUME NEW c \in Clients, wait_recheck(c) PROVE CountIsExact'
  <2>1. running_count' = running_count
    BY <1>8 DEF wait_recheck
  <2>2. CountedWorkers' = CountedWorkers
    BY <1>8 DEF wait_recheck, CountedWorkers, Counted
  <2>3. QED
    BY <2>1, <2>2 DEF CountIsExact, CountedWorkers
<1>9. ASSUME NEW c \in Clients, wait_timeout(c) PROVE CountIsExact'
  <2>1. running_count' = running_count
    BY <1>9 DEF wait_timeout
  <2>2. CountedWorkers' = CountedWorkers
    BY <1>9 DEF wait_timeout, CountedWorkers, Counted
  <2>3. QED
    BY <2>1, <2>2 DEF CountIsExact, CountedWorkers
<1>10. ASSUME NEW w \in Threads, run_test(w) PROVE CountIsExact'
  <2>1. running_count' = running_count
    BY <1>10 DEF run_test
  <2>2. CountedWorkers' = CountedWorkers
    BY <1>10 DEF run_test, CountedWorkers, Counted
  <2>3. QED
    BY <2>1, <2>2 DEF CountIsExact, CountedWorkers
<1>11. ASSUME NEW w \in Threads, get_wait(w) PROVE CountIsExact'
  <2>1. running_count' = running_count
    BY <1>11 DEF get_wait
  <2>2. CountedWorkers' = CountedWorkers
    BY <1>11 DEF get_wait, CountedWorkers, Counted
  <2>3. QED
    BY <2>1, <2>2 DEF CountIsExact, CountedWorkers
<1>12. ASSUME NEW w \in Threads, get_false(w) PROVE CountIsExact'
  <2>1. running_count' = running_count
    BY <1>12 DEF get_false
  <2>2. CountedWorkers' = CountedWorkers
    BY <1>12 DEF get_false, CountedWorkers, Counted
  <2>3. QED
    BY <2>1, <2>2 DEF CountIsExact, CountedWorkers
<1>13. ASSUME NEW w \in Threads, get_task(w) PROVE CountIsExact'
  <2>1. running_count' = running_count
    BY <1>13 DEF get_task
  <2>2. CountedWorkers' = CountedWorkers
    BY <1>13 DEF get_task, CountedWorkers, Counted
  <2>3. QED
    BY <2>1, <2>2 DEF CountIsExact, CountedWorkers
<1>14. ASSUME NEW w \in Threads, run_count(w) PROVE CountIsExact'
  <2>1. running_count' = running_count + 1
    BY <1>14 DEF run_count
  <2>2. CountedWorkers' = CountedWorkers \cup {w} /\ w \notin CountedWorkers
    BY <1>14 DEF run_count, CountedWorkers, Counted
  <2>3. Cardinality(CountedWorkers') = Cardinality(CountedWorkers) + 1
    BY <2>2, CountedFinite, FS_AddElement
  <2>4. QED
    BY <2>1, <2>3 DEF CountIsExact, CountedWorkers
<1>15. ASSUME NEW w \in Threads, run_expiry(w) PROVE CountIsExact'
  <2>1. running_count' = running_count
    BY <1>15 DEF run_expiry
  <2>2. CountedWorkers' = CountedWorkers
    BY <1>15 DEF run_expiry, CountedWorkers, Counted
  <2>3. QED
    BY <2>1, <2>2 DEF CountIsExact, CountedWorkers
<1>16. ASSUME NEW w \in Threads, run_func(w) PROVE CountIsExact'
  <2>1. running_count' = running_count
    BY <1>16 DEF run_func
  <2>2. CountedWorkers' = CountedWorkers
    BY <1>16 DEF run_func, CountedWorkers, Counted
  <2>3. QED
    BY <2>1, <2>2 DEF CountIsExact, CountedWorkers
<1>17. ASSUME NEW w \in Threads, run_uncount(w) PROVE CountIsExact'
  <2>1. running_count' = running_count - 1
    BY <1>17 DEF run_uncount
  <2>2. CountedWorkers' = CountedWorkers \ {w} /\ w \in CountedWorkers
    BY <1>17 DEF run_uncount, CountedWorkers, Counted
  <2>3. Cardinality(CountedWorkers') = Cardinality(CountedWorkers) - 1
    BY <2>2, CountedFinite, FS_RemoveElement
  <2>4. QED
    BY <2>1, <2>3 DEF CountIsExact, CountedWorkers
<1>18. ASSUME NEW w \in Threads, run_tail(w) PROVE CountIsExact'
  <2>1. running_count' = running_count
    BY <1>18 DEF run_tail
  <2>2. CountedWorkers' = CountedWorkers
    BY <1>18, WakeWorker DEF run_tail, CountedWorkers, Counted
  <2>3. QED
    BY <2>1, <2>2 DEF CountIsExact, CountedWorkers
<1>19. ASSUME NEW w \in Threads, run_drop(w) PROVE CountIsExact'
  <2>1. running_count' = running_count
    BY <1>19 DEF run_drop
  <2>2. CountedWorkers' = CountedWorkers
    BY <1>19 DEF run_drop, CountedWorkers, Counted
  <2>3. QED
    BY <2>1, <2>2 DEF CountIsExact, CountedWorkers
<1>20. ASSUME NEW w \in Threads, spurious_worker(w) PROVE CountIsExact'
  <2>1. running_count' = running_count
    BY <1>20 DEF spurious_worker
  <2>2. CountedWorkers' = CountedWorkers
    BY <1>20 DEF spurious_worker, CountedWorkers, Counted
  <2>3. QED
    BY <2>1, <2>2 DEF CountIsExact, CountedWorkers
<1>21. ASSUME NEW c \in Clients, spurious_client(c) PROVE CountIsExact'
  <2>1. running_count' = running_count
    BY <1>21 DEF spurious_client
  <2>2. CountedWorkers' = CountedWorkers
    BY <1>21 DEF spurious_client, CountedWorkers, Counted
  <2>3. QED
    BY <2>1, <2>2 DEF CountIsExact, CountedWorkers
<1>22. CASE tick
  <2>1. running_count' = running_count
    BY <1>22 DEF tick
  <2>2. CountedWorkers' = CountedWorkers
    BY <1>22 DEF tick, CountedWorkers, Counted
  <2>3. QED
    BY <2>1, <2>2 DEF CountIsExact, CountedWorkers
<1>23. CASE UNCHANGED vars
  BY <1>23 DEF vars, CountIsExact
<1>24. QED
  BY <1>1, <1>2, <1>3, <1>4, <1>5, <1>6, <1>7, <1>8, <1>9, <1>10, <1>11, <1>12, <1>13, <1>14, <1>15, <1>16, <1>17, <1>18, <1>19, <1>20, <1>21, <1>22, <1>23
  DEF Next, run, get, Owner, Client, Environment

-----------------------------------------------------------------------------
(* Wake-ups *)

WakeInv == NoLostWakeup /\ SleeperHasWaker

\* Every action keeps NoLostWakeup and SleeperHasWaker.
LEMMA WakeStep ==
    ASSUME TypeInt, LifeInv, HoldInv, CountIsExact, WakeInv, [Next]_vars
    PROVE  WakeInv'
<1> USE DEF TypeInt, WakeInv, NoLostWakeup, SleeperHasWaker, Asleep, Holding, Counted,
        lifecycle, wvars
<1>1. ASSUME NEW num \in 0..MaxPool, initial(num) PROVE WakeInv'
  BY <1>1 DEF initial
<1>2. CASE start
  <2>1. UNCHANGED <<tasks, terminate, cpc>>
    BY <1>2 DEF start
  <2>2. workers' > 0 => 1 \in Threads /\ wpc'[1] = "loop"
    BY <1>2, ThreadPoolAssumption DEF start, Threads
  <2>3. \A w \in Threads : wpc[w] = "none"
    BY <1>2, ThreadPoolAssumption DEF start, LifeInv, Stopping, Threads
  <2>4. QED
    BY <2>1, <2>2, <2>3
<1>3. ASSUME NEW who \in {"stopping", "destroying"}, stop_signal(who) PROVE WakeInv'
  <2>1. terminate' = TRUE
    BY <1>3 DEF stop_signal
  <2>2. QED
    BY <2>1
<1>4. CASE stop_join
  BY <1>4 DEF stop_join
<1>5. CASE stop_clear
  BY <1>5 DEF stop_clear, LifeInv
<1>6. ASSUME NEW t \in Tasks, NEW timeout_ms \in Timeouts, exec(t, timeout_ms) PROVE WakeInv'
  <2>1. \A w \in Threads : wpc'[w] = wpc[w] \/ (wpc[w] = "wait" /\ wpc'[w] = "woken")
    BY <1>6, NotifyOneFacts DEF exec
  <2>2. tasks' # <<>> /\ UNCHANGED <<terminate, workers, owner>>
    BY <1>6 DEF exec
  <2>3. SleeperHasWaker'
    BY <2>2
  <2>4. ASSUME ~terminate, workers > 0
        PROVE  \E w \in Threads : wpc'[w] \notin {"none", "wait", "exit"}
    <3>1. CASE \E w \in Threads : wpc'[w] = "woken"
      BY <3>1
    <3>2. CASE \E c \in Clients : Asleep(cpc[c])
      <4>1. \E w \in Threads : wpc[w] \notin {"none", "wait", "exit"}
        BY <2>4, <3>2
      <4>2. QED
        BY <2>1, <4>1
    <3>3. CASE \A w \in Threads : wpc'[w] # "wait"
      <4>1. 1 \in Threads /\ wpc[1] # "none" /\ wpc[1] # "exit"
        BY <2>4, ThreadPoolAssumption DEF LifeInv, Stopping, Threads
      <4>2. QED
        BY <2>1, <3>3, <4>1
    <3>4. QED
      BY <1>6, <3>1, <3>2, <3>3, NotifyOneFacts DEF exec
  <2>5. QED
    BY <2>2, <2>3, <2>4
<1>7. ASSUME NEW c \in Clients, NEW timed \in BOOLEAN, wait_for_all_done(c, timed) PROVE WakeInv'
  BY <1>7 DEF wait_for_all_done
<1>8. ASSUME NEW c \in Clients, wait_recheck(c) PROVE WakeInv'
  BY <1>8 DEF wait_recheck, DonePredicate
<1>9. ASSUME NEW c \in Clients, wait_timeout(c) PROVE WakeInv'
  BY <1>9 DEF wait_timeout, DonePredicate
<1>10. ASSUME NEW w \in Threads, run_test(w) PROVE WakeInv'
  <2>1. ~terminate => wpc' = [wpc EXCEPT ![w] = "get"]
    <3>1. PICK v \in {seen[w], terminate} :
             wpc' = [wpc EXCEPT ![w] = IF v THEN "exit" ELSE "get"]
      BY <1>10 DEF run_test
    <3>2. ~terminate => ~v
      BY <3>1, Zenon DEF LifeInv
    <3>3. QED
      BY <3>1, <3>2
  <2>2. wpc[w] = "loop" /\ UNCHANGED <<tasks, terminate, workers, cpc>>
    BY <1>10 DEF run_test
  <2>3. NoLostWakeup'
    BY <2>1, <2>2
  <2>4. SleeperHasWaker'
    BY <2>1, <2>2
  <2>5. QED
    BY <2>3, <2>4
<1>11. ASSUME NEW w \in Threads, get_wait(w) PROVE WakeInv'
  BY <1>11 DEF get_wait
<1>12. ASSUME NEW w \in Threads, get_false(w) PROVE WakeInv'
  BY <1>12 DEF get_false
<1>13. ASSUME NEW w \in Threads, get_task(w) PROVE WakeInv'
  <2>1. wpc'[w] = "got"
    BY <1>13 DEF get_task
  <2>2. QED
    BY <2>1
<1>14. ASSUME NEW w \in Threads, run_count(w) PROVE WakeInv'
  BY <1>14 DEF run_count
<1>15. ASSUME NEW w \in Threads, run_expiry(w) PROVE WakeInv'
  BY <1>15 DEF run_expiry
<1>16. ASSUME NEW w \in Threads, run_func(w) PROVE WakeInv'
  BY <1>16 DEF run_func
<1>17. ASSUME NEW w \in Threads, run_uncount(w) PROVE WakeInv'
  BY <1>17 DEF run_uncount
<1>18. ASSUME NEW w \in Threads, run_tail(w) PROVE WakeInv'
  <2>1. /\ \A v \in Threads \ {w} :
             wpc'[v] = wpc[v] \/ (wpc[v] = "wait" /\ wpc'[v] = "woken")
        /\ wpc'[w] = "drop"
    BY <1>18, WakeWorker DEF run_tail
  <2>2. UNCHANGED <<tasks, terminate, workers>>
    BY <1>18 DEF run_tail
  <2>3. NoLostWakeup'
    BY <2>1, <2>2
  <2>4. ASSUME AllIdle PROVE SleeperHasWaker'
    BY <1>18, <2>4, WakeClient DEF run_tail
  <2>5. ASSUME ~AllIdle, tasks = <<>> PROVE SleeperHasWaker'
    <3>1. running_count # 0
      BY <2>5 DEF AllIdle
    <3>2. PICK v \in CountedWorkers : TRUE
      BY <3>1, FS_EmptySet, CountedFinite DEF CountIsExact, CountedWorkers
    <3>3. v \in Threads /\ wpc[v] \in Counted /\ v # w
      BY <1>18, <3>2 DEF run_tail, CountedWorkers
    <3>4. wpc'[v] \in Holding \ {"drop"}
      BY <2>1, <3>3
    <3>5. QED
      BY <3>3, <3>4
  <2>6. QED
    BY <2>2, <2>3, <2>4, <2>5
<1>19. ASSUME NEW w \in Threads, run_drop(w) PROVE WakeInv'
  BY <1>19 DEF run_drop
<1>20. ASSUME NEW w \in Threads, spurious_worker(w) PROVE WakeInv'
  BY <1>20 DEF spurious_worker
<1>21. ASSUME NEW c \in Clients, spurious_client(c) PROVE WakeInv'
  BY <1>21, WakeClient DEF spurious_client
<1>22. CASE tick
  BY <1>22 DEF tick
<1>23. CASE UNCHANGED vars
  BY <1>23 DEF vars
<1>24. QED
  BY <1>1, <1>2, <1>3, <1>4, <1>5, <1>6, <1>7, <1>8, <1>9, <1>10, <1>11, <1>12, <1>13, <1>14, <1>15, <1>16, <1>17, <1>18, <1>19, <1>20, <1>21, <1>22, <1>23
  DEF Next, run, get, Owner, Client, Environment

-----------------------------------------------------------------------------
(* After stop() *)

QuietInv ==
    terminate /\ owner = "idle" =>
        \A w \in Threads : wpc[w] \in {"none", "loop", "get", "exit"}

\* Every action keeps QuietInv.
LEMMA QuietStep ==
    ASSUME TypeInt, LifeInv, QuietInv, [Next]_vars
    PROVE  QuietInv'
<1> USE DEF TypeInt, QuietInv, lifecycle, wvars
<1>1. ASSUME NEW num \in 0..MaxPool, initial(num) PROVE QuietInv'
  BY <1>1 DEF initial
<1>2. CASE start
  BY <1>2 DEF start, LifeInv, Stopping, Threads
<1>3. ASSUME NEW who \in {"stopping", "destroying"}, stop_signal(who) PROVE QuietInv'
  <2>1. owner' # "idle"
    BY <1>3 DEF stop_signal
  <2>2. QED
    BY <2>1
<1>4. CASE stop_join
  BY <1>4 DEF stop_join
<1>5. CASE stop_clear
  <2>1. \A w \in Threads : wpc[w] = "none"
    BY <1>5, ThreadPoolAssumption DEF stop_clear, LifeInv, Stopping, Threads
  <2>2. QED
    BY <1>5, <2>1 DEF stop_clear
<1>6. ASSUME NEW t \in Tasks, NEW timeout_ms \in Timeouts, exec(t, timeout_ms) PROVE QuietInv'
  <2>1. \A w \in Threads : wpc'[w] = wpc[w] \/ (wpc[w] = "wait" /\ wpc'[w] = "woken")
    BY <1>6, NotifyOneFacts DEF exec
  <2>2. QED
    BY <1>6, <2>1 DEF exec
<1>7. ASSUME NEW c \in Clients, NEW timed \in BOOLEAN, wait_for_all_done(c, timed) PROVE QuietInv'
  BY <1>7 DEF wait_for_all_done
<1>8. ASSUME NEW c \in Clients, wait_recheck(c) PROVE QuietInv'
  BY <1>8 DEF wait_recheck
<1>9. ASSUME NEW c \in Clients, wait_timeout(c) PROVE QuietInv'
  BY <1>9 DEF wait_timeout
<1>10. ASSUME NEW w \in Threads, run_test(w) PROVE QuietInv'
  BY <1>10 DEF run_test
<1>11. ASSUME NEW w \in Threads, get_wait(w) PROVE QuietInv'
  BY <1>11 DEF get_wait
<1>12. ASSUME NEW w \in Threads, get_false(w) PROVE QuietInv'
  BY <1>12 DEF get_false
<1>13. ASSUME NEW w \in Threads, get_task(w) PROVE QuietInv'
  BY <1>13 DEF get_task
<1>14. ASSUME NEW w \in Threads, run_count(w) PROVE QuietInv'
  BY <1>14 DEF run_count
<1>15. ASSUME NEW w \in Threads, run_expiry(w) PROVE QuietInv'
  BY <1>15 DEF run_expiry
<1>16. ASSUME NEW w \in Threads, run_func(w) PROVE QuietInv'
  BY <1>16 DEF run_func
<1>17. ASSUME NEW w \in Threads, run_uncount(w) PROVE QuietInv'
  BY <1>17 DEF run_uncount
<1>18. ASSUME NEW w \in Threads, run_tail(w) PROVE QuietInv'
  BY <1>18 DEF run_tail
<1>19. ASSUME NEW w \in Threads, run_drop(w) PROVE QuietInv'
  BY <1>19 DEF run_drop
<1>20. ASSUME NEW w \in Threads, spurious_worker(w) PROVE QuietInv'
  BY <1>20 DEF spurious_worker
<1>21. ASSUME NEW c \in Clients, spurious_client(c) PROVE QuietInv'
  BY <1>21 DEF spurious_client
<1>22. CASE tick
  BY <1>22 DEF tick
<1>23. CASE UNCHANGED vars
  BY <1>23 DEF vars
<1>24. QED
  BY <1>1, <1>2, <1>3, <1>4, <1>5, <1>6, <1>7, <1>8, <1>9, <1>10, <1>11, <1>12, <1>13, <1>14, <1>15, <1>16, <1>17, <1>18, <1>19, <1>20, <1>21, <1>22, <1>23
  DEF Next, run, get, Owner, Client, Environment

-----------------------------------------------------------------------------
(* The theorems *)

IInv == TypeInt /\ LifeInv /\ HoldInv /\ OneOwner /\ CountIsExact /\ WakeInv /\ QuietInv

\* The conjunction of the lemmas above is inductive.
THEOREM Inductive == Spec => []IInv
<1>1. ASSUME Init PROVE IInv
  <2>1. TypeInt
    BY <1>1, TypeInit
  <2>2. LifeInv
    BY <1>1, ThreadPoolAssumption DEF Init, LifeInv, Stopping, Threads
  <2>3. HoldInv
    BY <1>1 DEF Init, HoldInv, Holding, Counted
  <2>4. OneOwner
    BY <1>1 DEF Init, OneOwner, Queued
  <2>5. CountIsExact
    <3>1. CountedWorkers = {}
      BY <1>1 DEF Init, CountedWorkers, Counted
    <3>2. QED
      BY <1>1, <3>1, FS_EmptySet DEF Init, CountIsExact, CountedWorkers
  <2>6. WakeInv /\ QuietInv
    BY <1>1 DEF Init, WakeInv, NoLostWakeup, SleeperHasWaker, QuietInv, Asleep
  <2>7. QED
    BY <2>1, <2>2, <2>3, <2>4, <2>5, <2>6 DEF IInv
<1>2. IInv /\ [Next]_vars => IInv'
  BY TypeStep, LifeStep, HoldStep, OneOwnerStep, CountStep, WakeStep, QuietStep DEF IInv
<1>3. QED
  BY <1>1, <1>2, PTL DEF Spec

\* Every variable stays in its domain; the counter, changed without the lock,
\* never goes below zero.
THEOREM TypeCorrect == Spec => []TypeOK
<1>1. IInv => TypeOK
  BY CountedFinite DEF IInv, TypeInt, TypeOK, CountIsExact, CountedWorkers
<1>2. QED
  BY <1>1, Inductive, PTL

\* No task is lost, duplicated or run by two workers.
THEOREM OneOwnerHolds == Spec => []OneOwner
<1>1. IInv => OneOwner
  BY DEF IInv
<1>2. QED
  BY <1>1, Inductive, PTL

\* The counter is the number of workers inside a task.
THEOREM CountHolds == Spec => []CountIsExact
<1>1. IInv => CountIsExact
  BY DEF IInv
<1>2. QED
  BY <1>1, Inductive, PTL

\* One condition variable shared by workers and clients loses no task.
THEOREM NoLostWakeupHolds == Spec => []NoLostWakeup
<1>1. IInv => NoLostWakeup
  BY DEF IInv, WakeInv
<1>2. QED
  BY <1>1, Inductive, PTL

\* A client asleep in wait_for_all_done() has someone to wake it.
THEOREM SleeperHasWakerHolds == Spec => []SleeperHasWaker
<1>1. IInv => SleeperHasWaker
  BY DEF IInv, WakeInv
<1>2. QED
  BY <1>1, Inductive, PTL

\* After stop() nothing runs and nothing is counted, restarted or not.
THEOREM StopIsQuiescentHolds == Spec => []StopIsQuiescent
<1>1. ASSUME IInv, terminate, owner = "idle"
      PROVE  /\ running_count = 0
             /\ \A w \in Threads : /\ wpc[w] \in {"none", "loop", "get", "exit"}
                                   /\ held[w] = NoTask
             /\ workers = 0 => \A w \in Threads : wpc[w] = "none"
  <2>1. \A w \in Threads : wpc[w] \in {"none", "loop", "get", "exit"}
    BY <1>1 DEF IInv, QuietInv
  <2>2. \A w \in Threads : held[w] = NoTask
    BY <1>1, <2>1 DEF IInv, HoldInv, Holding, Counted
  <2>3. CountedWorkers = {}
    BY <2>1 DEF CountedWorkers, Counted
  <2>4. running_count = 0
    BY <1>1, <2>3, FS_EmptySet DEF IInv, CountIsExact, CountedWorkers
  <2>5. workers = 0 => \A w \in Threads : wpc[w] = "none"
    BY <1>1, ThreadPoolAssumption DEF IInv, LifeInv, Stopping, Threads
  <2>6. QED
    BY <2>1, <2>2, <2>4, <2>5
<1>2. IInv => StopIsQuiescent
  BY <1>1 DEF StopIsQuiescent
<1>3. QED
  BY <1>2, Inductive, PTL

\* The destructor resolves every future.
THEOREM DestroyedResolvesAllHolds == Spec => []DestroyedResolvesAll
<1>1. ASSUME IInv, owner = "dead", NEW t \in Tasks
      PROVE  future[t] # "pending"
  <2>1. tasks = <<>> /\ workers = 0
    BY <1>1 DEF IInv, LifeInv
  <2>2. \A w \in Threads : wpc[w] = "none"
    BY <1>1, <2>1, ThreadPoolAssumption DEF IInv, LifeInv, Stopping, Threads
  <2>3. \A w \in Threads : held[w] = NoTask
    BY <1>1, <2>2 DEF IInv, HoldInv, Holding, Counted
  <2>4. QED
    BY <1>1, <2>1, <2>3, ThreadPoolAssumption DEF IInv, OneOwner, Queued
<1>2. IInv => DestroyedResolvesAll
  BY <1>1 DEF DestroyedResolvesAll
<1>3. QED
  BY <1>2, Inductive, PTL

-----------------------------------------------------------------------------
(* Refinement *)

Active == {held[w] : w \in Threads} \ {NoTask}

\* A worker without a task leaves room in the pool for one more.
LEMMA ActiveBelowPool ==
    ASSUME TypeInt, NEW w \in Threads, held[w] = NoTask
    PROVE  Cardinality(Active) < MaxPool
<1> DEFINE Busy == {v \in Threads : held[v] # NoTask}
           f == [v \in Busy |-> held[v]]
<1>1. IsFiniteSet(Threads) /\ Cardinality(Threads) = MaxPool
  BY ThreadPoolAssumption, FS_Interval DEF Threads
<1>2. IsFiniteSet(Threads \ {w}) /\ Cardinality(Threads \ {w}) = MaxPool - 1
  BY <1>1, FS_RemoveElement
<1>3. Busy \in SUBSET (Threads \ {w})
  OBVIOUS
<1>4. IsFiniteSet(Busy) /\ Cardinality(Busy) <= MaxPool - 1
  BY <1>2, <1>3, FS_Subset
<1>5. f \in Surjection(Busy, Active)
  BY DEF Surjection, Active
<1>6. IsFiniteSet(Active) /\ Cardinality(Active) <= Cardinality(Busy)
  BY <1>4, <1>5, FS_Surjection
<1>7. Cardinality(Active) \in Nat /\ Cardinality(Busy) \in Nat
  BY <1>4, <1>6, FS_CardinalityType
<1>8. QED
  BY <1>4, <1>6, <1>7, ThreadPoolAssumption

\* Every step of the pool is a step of TaskService or leaves it unchanged.
LEMMA RefinementStep ==
    ASSUME IInv, [Next]_vars
    PROVE  [Service!ServiceNext]_(Service!svars)
<1> USE DEF Service!svars, lifecycle, wvars
<1>1. ASSUME NEW num \in 0..MaxPool, initial(num) PROVE [Service!ServiceNext]_(Service!svars)
  BY <1>1 DEF initial
<1>2. CASE start
  BY <1>2 DEF start
<1>3. ASSUME NEW who \in {"stopping", "destroying"}, stop_signal(who) PROVE [Service!ServiceNext]_(Service!svars)
  <2>1. Service!Close
    BY <1>3 DEF stop_signal, Service!Close
  <2>2. QED
    BY <2>1 DEF Service!ServiceNext
<1>4. CASE stop_join
  BY <1>4 DEF stop_join
<1>5. CASE stop_clear
  <2>1. CASE owner = "stopping"
    BY <1>5, <2>1 DEF stop_clear
  <2>2. CASE owner = "destroying"
    <3>1. \A w \in Threads : wpc[w] = "none"
      BY <1>5, ThreadPoolAssumption DEF stop_clear, IInv, TypeInt, LifeInv, Stopping, Threads
    <3>2. \A w \in Threads : held[w] = NoTask
      BY <3>1 DEF IInv, HoldInv, Holding, Counted
    <3>3. terminate
      BY <2>2 DEF IInv, LifeInv
    <3>4. /\ tasks' = <<>> /\ UNCHANGED <<held, terminate>>
          /\ future' = BreakPromises
      BY <1>5, <2>2 DEF stop_clear
    <3>5. Service!Destroy
      BY <3>2, <3>3, <3>4 DEF Service!Destroy, BreakPromises
    <3>6. QED
      BY <3>5 DEF Service!ServiceNext
  <2>3. QED
    BY <1>5, <2>1, <2>2 DEF stop_clear
<1>6. ASSUME NEW t \in Tasks, NEW timeout_ms \in Timeouts, exec(t, timeout_ms) PROVE [Service!ServiceNext]_(Service!svars)
  <2>1. Service!Submit(t)
    BY <1>6 DEF exec, Service!Submit
  <2>2. QED
    BY <1>6, <2>1 DEF Service!ServiceNext
<1>7. ASSUME NEW c \in Clients, NEW timed \in BOOLEAN, wait_for_all_done(c, timed) PROVE [Service!ServiceNext]_(Service!svars)
  BY <1>7 DEF wait_for_all_done
<1>8. ASSUME NEW c \in Clients, wait_recheck(c) PROVE [Service!ServiceNext]_(Service!svars)
  BY <1>8 DEF wait_recheck
<1>9. ASSUME NEW c \in Clients, wait_timeout(c) PROVE [Service!ServiceNext]_(Service!svars)
  BY <1>9 DEF wait_timeout
<1>10. ASSUME NEW w \in Threads, run_test(w) PROVE [Service!ServiceNext]_(Service!svars)
  BY <1>10 DEF run_test
<1>11. ASSUME NEW w \in Threads, get_wait(w) PROVE [Service!ServiceNext]_(Service!svars)
  BY <1>11 DEF get_wait
<1>12. ASSUME NEW w \in Threads, get_false(w) PROVE [Service!ServiceNext]_(Service!svars)
  BY <1>12 DEF get_false
<1>13. ASSUME NEW w \in Threads, get_task(w) PROVE [Service!ServiceNext]_(Service!svars)
  <2>1. held[w] = NoTask
    BY <1>13 DEF get_task, IInv, HoldInv, Holding, Counted
  <2>2. Cardinality(Active) < MaxPool
    BY <2>1, ActiveBelowPool DEF IInv
  <2>3. Head(tasks) \in Tasks
    BY <1>13 DEF get_task, IInv, TypeInt
  <2>4. Active' = Active \cup {Head(tasks)}
    BY <1>13, <2>1, <2>3, ThreadPoolAssumption DEF get_task, Active, IInv, TypeInt
  <2>5. Service!Dispatch
    <3>1. /\ ~terminate /\ tasks # <<>> /\ tasks' = Tail(tasks)
          /\ UNCHANGED <<future, terminate>>
      BY <1>13 DEF get_task
    <3>2. Service!Cardinality(Active) = Cardinality(Active)
      BY DEF Service!Cardinality, Cardinality
    <3>3. QED
      BY <3>1, <3>2, <2>2, <2>4 DEF Service!Dispatch, Active
  <2>6. QED
    BY <2>5 DEF Service!ServiceNext
<1>14. ASSUME NEW w \in Threads, run_count(w) PROVE [Service!ServiceNext]_(Service!svars)
  BY <1>14 DEF run_count
<1>15. ASSUME NEW w \in Threads, run_expiry(w) PROVE [Service!ServiceNext]_(Service!svars)
  BY <1>15 DEF run_expiry
<1>16. ASSUME NEW w \in Threads, run_func(w) PROVE [Service!ServiceNext]_(Service!svars)
  <2>1. held[w] \in Tasks /\ future[held[w]] = "pending"
    BY <1>16 DEF run_func, IInv, TypeInt, HoldInv, Holding, Counted
  <2>2. Service!Complete(held[w])
    BY <1>16, <2>1, ThreadPoolAssumption DEF run_func, Service!Complete
  <2>3. QED
    BY <2>1, <2>2 DEF Service!ServiceNext
<1>17. ASSUME NEW w \in Threads, run_uncount(w) PROVE [Service!ServiceNext]_(Service!svars)
  BY <1>17 DEF run_uncount
<1>18. ASSUME NEW w \in Threads, run_tail(w) PROVE [Service!ServiceNext]_(Service!svars)
  BY <1>18 DEF run_tail
<1>19. ASSUME NEW w \in Threads, run_drop(w) PROVE [Service!ServiceNext]_(Service!svars)
  <2>1. PICK u \in Tasks : u = held[w]
    BY <1>19 DEF run_drop, IInv, TypeInt, HoldInv, Holding, Counted
  <2>2. Active' = Active \ {u}
    BY <1>19, <2>1, ThreadPoolAssumption DEF run_drop, Active, IInv, TypeInt, OneOwner
  <2>3. Service!Release(u)
    BY <1>19, <2>1, <2>2, ThreadPoolAssumption DEF run_drop, Service!Release, Active
  <2>4. QED
    BY <2>3 DEF Service!ServiceNext
<1>20. ASSUME NEW w \in Threads, spurious_worker(w) PROVE [Service!ServiceNext]_(Service!svars)
  BY <1>20 DEF spurious_worker
<1>21. ASSUME NEW c \in Clients, spurious_client(c) PROVE [Service!ServiceNext]_(Service!svars)
  BY <1>21 DEF spurious_client
<1>22. CASE tick
  BY <1>22 DEF tick
<1>23. CASE UNCHANGED vars
  BY <1>23 DEF vars
<1>24. QED
  BY <1>1, <1>2, <1>3, <1>4, <1>5, <1>6, <1>7, <1>8, <1>9, <1>10, <1>11, <1>12, <1>13, <1>14, <1>15, <1>16, <1>17, <1>18, <1>19, <1>20, <1>21, <1>22, <1>23
  DEF Next, run, get, Owner, Client, Environment

\* The pool implements TaskService.
THEOREM Refinement == Spec => RefinesTaskService
<1>1. Init => Service!ServiceInit
  BY DEF Init, Service!ServiceInit
<1>2. IInv /\ [Next]_vars => [Service!ServiceNext]_(Service!svars)
  BY RefinementStep
<1>3. QED
  BY <1>1, <1>2, Inductive, PTL DEF Spec, RefinesTaskService, Service!ServiceSpec
=============================================================================
