# A TLA+ verification project for cpp_example

The repository is a collection of C++ and C programs: a thread pool and two
synchronised queues, a family of TCP and UDP servers and clients, two DNS
clients, the helper library of *UNIX Network Programming* (`basic_lib/`), and
many short language demos. There is no documentation besides comments in the
source. This project models the parts that carry state and run concurrently
with something else: threads, the kernel, peers.

Paths below are relative to the repository's root.

## 1. Inventory

| Part | State | Operations | Interacts with | What is hard |
|---|---|---|---|---|
| thread pool `thread_pool/` | task queue, worker vector, `_terminate`, `running_count`, one mutex, one condition variable | `initial`, `start`, `stop`, `exec`, `wait_for_all_done`, `get`, `run`, destructor | submitting threads, waiting threads, futures | one condition variable for two kinds of sleepers; a counter changed outside the lock; `_terminate` read without it; stop, restart and destruction with work queued or running; expiry |
| bounded queue `condition_variable/sync_queue_by_lock_guard.h` | list, bound, one mutex, two condition variables | `Put`, `Take` | producer and consumer threads, `main` | `notify_one` against barging threads and spurious wake-ups |
| unbounded queues `sync_queue_by_unique_lock.h`, `mutex/demo5_unique_lock.cpp` | list, mutex, condition variable | put, take | threads | as above |
| echo servers `network/echo/d3, d4, d5` | descriptor tables, readiness results, loop indices | one loop each: wait, accept, scan or handle, close | kernel, peers | tables and descriptors that are reused; readiness that is stale when acted upon; countdowns; resets |
| reactor server `network/demo4_c1000k_server.cpp` | list of blocks of contexts, two buffers per connection, epoll registrations | wait, accept, receive, send, lookup, resize | kernel, peers | buffers owned per descriptor and reused; two-phase echo; unhandled errors |
| select and epoll demos `network/demo2, demo3`, libev server `libev/` | the same with one buffer for all, or watchers | the same | kernel, libev, peers | shared buffers, ends of streams handled in part |
| thread and process servers `network/demo1, echo/d1, d2` | one `clientfd`, threads or children | accept, start a thread or child, echo, reap | kernel, threads, signals | the address of a loop variable given to a thread; SIGCHLD |
| echo clients `network/echo/d1, d3, d4, d5`, libev client | standard input, socket, `stdineof` | copy in both directions, half-close | kernel, servers, user | the end of input while echoes are under way; both sides writing into full buffers; a server that is killed |
| c1000k client `network/demo4_c1000k_client.cpp` | `connections`, `sockfd`, registrations | open, wait, send, receive, close | kernel, server | two descriptors mixed up, a counter that not all paths keep |
| UDP echo `network/udp/` | socket | send, receive | network | lost, duplicated and reordered datagrams |
| DNS clients `network/dns/` | request and response buffers; epoll thread and per-query contexts | encode, parse, send, receive | network, callback | compressed names, out-of-order and missing answers |
| `basic_lib/` | `readline` buffer, `rtt_info`; otherwise none | buffered and complete I/O, retransmission timer, address loops, wrappers | kernel | partial transfers, interruption, shared static buffer, bounds of the timer |
| small demos (mutex, atomic, call_once, future, ownership, language) | a counter, a flag, a promise | straight-line `main`s | a few threads | little |

`PROJECT.json` lists every part, with the files it is made of and whether it is
modelled, and every hazard with the line where it bites.

## 2. Modules

    TaskService  <-refines-  ThreadPool   <- ThreadPoolProofs, MCThreadPool
    Fifo         <-refines-  SyncQueue    <- SyncQueueProofs,  MCSyncQueue
                 <-refines-  ThreadDemos (the demos with a queue)

    Sockets <- SelectServer, PollServer, EpollServer, Reactor, SelectDemo,
               EpollDemo, LibevServer, ThreadServer, ProcessServer
            <- EchoServers (an instance of each) <- MCEchoServers
    SocketsProofs <- ScanProofs <- EventProofs <- EchoServersProofs

    DnsMessage <- DnsClient
    EchoClient, DnsClient, UdpEcho, LoadClient <- Clients <- MCClients, ClientsProofs
    Stream, Rtt, Endpoint, ThreadDemos         <- Library <- MCLibrary, LibraryProofs

`EchoServers`, `Clients` and `Library` each run one of several independent
programs, chosen once by `kind` or `part`, and state the questions asked of all of
them; the variables of the programs that do not run stay as they are.

### ThreadPool and TaskService

`ThreadPool` is `demo_threadpool`. Variables keep the members' names without
the underscore; `wpc` and `held` are the program counter and the local variable
of each thread in `run()`, `cpc` the program counter of each caller of
`wait_for_all_done()`, `owner` and `joined` what the one thread that starts,
stops and destroys the pool is doing.

- A critical section of `_pool_mutex` is one action. What happens outside of it
  is an action of its own: the test of `_terminate` (`run_test`), the increment
  (`run_count`), the expiry test, the task itself (`run_func`), the decrement
  (`run_uncount`), the release of the task (`run_drop`).
- `_terminate` is a plain `bool` that `run()` reads without the mutex while
  `stop()` writes it: the model lets the read return the current value or the
  one the worker last saw under the mutex (`seen`).
- A sleeping thread may wake spuriously. A notified one has to lock again before
  it tests its predicate, and others may come first.
- `notify_one()` picks any sleeper, worker or client: they share `_pool_cond`.
- A task's `future` is `none`, `pending`, `ready` or `broken` (its
  `packaged_task` was destroyed before it ran).

`TaskService` is what a caller of `exec()` relies on: tasks are dispatched in the
order of submission, each at most once, none after the service is closed, and a
future is resolved at most once.

The owner's calls are those of one thread, as in `test_threadpool.cpp`: two
threads in `stop()` at once would both join the same workers. No client is
inside the pool when it is destroyed.

### SyncQueue and Fifo

`SyncQueue` is the class of the same name with the two loops of
`demo1_sync_queue.cpp`. The demo has one producer and one consumer; the model
has any number of each, because the class is written for that and one of each
cannot show a misdirected notification. A step is what happens between two
points where `_mutex` is free. `Fifo` is a bounded first-in first-out buffer.

### Sockets and the servers

`Sockets` is the environment, not code of the repository: connections in the
listen queue, a descriptor table from which `accept()` takes the lowest free
number, and per peer how much it sent, how much the server read and wrote back,
and how its stream ended. A reset connection reports its error once
(`ECONNRESET`, or `EPIPE` when the stream had ended before); a write after that
raises SIGPIPE, and since no server handles it, the process ends. Data that
arrived before a reset may still be read.

`SelectServer`, `PollServer`, `EpollServer` and `Reactor` are the loops of
`d3`, `d4`, `d5` and `demo4`; `SelectDemo`, `EpollDemo` and `LibevServer` those of
`demo2`, `demo3` and `libev/`. An action is what the server does between two points
at which peers can make a difference: one wait, one accept with all its bookkeeping,
one descriptor read and answered or closed. The tables are the programs' own:

- `SelectServer`: `client[]`, `allset`, `rset`, `maxfd`, `maxidx`, `nready`, `i`.
  `memset(client, -1, FD_SETSIZE)` sets a quarter of the array; the slots from
  `InitSlots` on start with any value of `Garbage`.
- `PollServer`: the `fd` and `revents` of `client[]`, `maxidx`, `nready`, `i`. Only
  the `fd` fields are initialised, so `revents` starts with any value.
- `EpollServer`: the interest list, `connfd`, and the events still to be handled,
  as a set: the order in which the kernel reports is not the server's to choose.
- `Reactor`: registrations, `block_count`, and per item the descriptor, whether its
  buffers are allocated, and whose bytes they hold. One listening port stands for
  the hundred. `recv()` returning -1 is ignored, as in the code.

- `SelectDemo`: the four descriptor sets, `lastfd`, `cur_fd`, and whose bytes the one
  `buffer` holds. A `select()` that fails with `EBADF` leaves the output sets as they
  were and is not looked at, so everything registered counts as ready.
- `EpollDemo`: a connection is edge triggered until its first answer and level
  triggered afterwards; an edge is what changed since the descriptor was last
  reported. Nothing is ever closed. `send()` always sends the whole of `wbuffer`, and
  `memcpy()` fills all of it from `rbuffer`, so the model keeps of each unit of the buffer
  whose it is, the leftovers of longer messages included.
- `LibevServer`: the watchers, what each is started for, and the two blocks of memory
  behind it. libev collects what is pending and calls one callback after the other.
- `ThreadServer`: `d1` and `demo1` in one module (`Checks` tells them apart). The thread
  reads `clientfd` through the pointer it was given, when it first runs.
- `ProcessServer`: `d2` and, with `Selects`, the UDP and TCP server `d7`. Parent and child
  hold a descriptor each; `SIGCHLD` is one pending bit; the handler's loop runs step by
  step between the parent's steps, and may overwrite `errno`. A child ends with the
  connection, or at once when it has read from one that was reset (`Writen()` fails).

`clash` and `reply` are history variables: whether the shared variable or buffer was
needed by two connections at once, and whose bytes a peer was sent. `OwnBytes` says
that the second is as it should be as long as the first did not happen: the peer's own
bytes, and from `demo3` after them only units that a longer message of another peer left.

### The clients

`EchoClient` is `str_cli()` of `d1` (a line at a time), `d3`, `d4`, `d5` and the libev client, and
`str_echo()` on the other side, with the two socket buffers in between. Since neither
side changes the stream, what is on its way is counted. `Writen()` is a step per unit,
so it blocks in the middle when the buffer is full. The server may be killed at any
time: what it had not read turns the end of the stream into a reset. Standard input is
a terminal, a pipe or a file: `poll()` and `epoll_wait()` report the end of a pipe with a
hang-up bit only, which `d4` and `d5` do not test, and `epoll_ctl()` refuses a file. The
input may end within a line (`newline`): `fgets()` of `d1` returns what there is, and
`Readline()` holds its echo until a newline or the end of the connection comes.

`DnsMessage` is the code both DNS clients share, on sequences of bytes: the header and
question they send, and `dns_parse_name()` and `dns_parse_response()`. The server's side
is written from RFC 1035 (marked external): it answers with compressed names, so every
pointer and alias is followed. `DnsClient` is the rest: in the synchronous client a
socket per query, in the asynchronous one the contexts, the epoll instance and the
thread. Datagrams are lost, duplicated, delayed and reordered; a port is free again when
its socket is closed, so a late answer can reach another query.

`UdpEcho` is `dg_cli()`, with and without `connect()`, against `dg_echo()`; a stranger may send
to the socket that is not connected. `LoadClient` is the c1000k client; what the
connections carry is left out.

### The library and the small demos

`Stream` has bytes that know their descriptor and place, so that a byte lost, repeated
or delivered to the wrong descriptor is visible; `read()` and `write()` transfer any part,
are interrupted, or fail. The caller of `readline()` turns to another descriptor only when
`readlinebuf()` says that nothing was read ahead, which is what that function is for.
`Rtt` computes in 1/512 of a second, which is exact for three measurements. `Endpoint` is
the functions that open sockets, each call of which may fail, with the alarm clock and
the three-way handshake running beside the two that have a time limit and are given
their socket; the caller of `connect_timeo()` may have set an alarm before.
`ThreadDemos` writes the threads of thirteen short programs as lists of instructions and
gives the instructions the meaning the C++ standard does: mutexes, a condition variable
with spurious wake-ups, `call_once`, futures. `++counter` is a load and a store.

## 3. Runs

| Run | Instance | Shows |
|---|---|---|
| `pool_safety` | 2 workers, 2 tasks, 2 waiting clients, clock 0..2 | no task lost or run twice (`OneOwner`), the counter exact (`CountIsExact`), no wake-up lost for workers (`NoLostWakeup`) or clients (`SleeperHasWaker`), nothing running after `stop()` (`StopIsQuiescent`), no future pending after destruction (`DestroyedResolvesAll`) |
| `pool_live` | 2 workers, 2 tasks, 1 client | the pool implements `TaskService`; tasks are resolved, `stop()` returns, untimed waits return unless the pool is stopped |
| `pool_wait_result` | the same | **violated**: `wait_for_all_done()` returns true while a task is still running |
| `queue` | 3 producers, 3 consumers, 2 places, 2 items each | `Bounded`, `InOrder`, `EnoughWakeups`, `NoMutualWait`, implements `Fifo`, `main` ends |
| `servers_safety` | each of 11 servers, 3 peers, 2 descriptors; 2 units sent to `demo3` and the reactor, 1 to the others | the tables, watchers, threads and children agree with the open connections (`TablesAgree`), nothing stale is acted upon (`NeverBlocks`), the countdown of `nready` is exact, a peer is sent its own bytes, by `demo3` with leftovers behind them (`OwnBytes`) |
| `servers_live` | 8 of the servers, 2 peers sending up to 2 units (1 to `demo3`) | what is sent is echoed (`EchoesAll`); all but `demo3` and the libev server close what has ended (`ClosesAll`) |
| `clients` | 5 echo clients with 3 kinds of input, buffers of 2 units, 6 units typed; 2 DNS clients, 3 names, 2 ports; UDP client, 3 lines; load generator, 3 connections | nothing read is lost and "terminated prematurely" is said only of a killed server (`EndsRight`), no mutual block (`NoMutualBlock`), what a DNS client prints is what the zone says of the name it asked for, of it or an earlier one once a datagram was duplicated (`Truthful`), queries are answered once and with their own answer and UDP echoes are printed in turn (`OnceEach`), clients end, `d1` unless its input ends within a line (`Ends`), answers that came are read (`Answered`), sockets are counted (in `TypeOK`) |
| `library` | 2 descriptors, streams of 6 bytes; 4 packets; 3 addresses; 4 threads, loops of 2 turns | transfers are complete and in order (`TransfersRight`), an alarm guards each transmission and packets are given up in time (`RetransmitsRight`), which sockets are open afterwards, and that no alarm stays (`OpensRight`), the demos end (`AllEnd`) with the right result (`RightResult`), without data race (`NoDataRace`), queues implement `Fifo` |
| `select_full` | select server, 4 slots of which the first is initialised | **violated**: the slot search fails while slots are unused |
| `epoll_unregister` | epoll server, 3 peers | **violated**: an open connection is unregistered when another one ends |
| `thread_race` | thread server, 3 peers | **violated**: two threads serve one connection and none the other |
| `rtt_bound` | retransmission timer | **violated**: the timeout exceeds `RTT_RXTMAX` |

Bounds. Two workers and two clients are the fewest for which a notification can
go to the wrong sleeper while another worker is between two of its steps; a
second task is needed for order and for one task queued while another runs. A
clock of three values lets a task expire before, at and after its dispatch. Three
threads on either side of the queue let a woken thread lose the race to a newcomer
while a third sleeps. Three peers and two descriptors make every server close,
reuse and run out of descriptors; `MaxEvents` below the number of descriptors makes
a batch incomplete; `ItemLength` 2 puts descriptor 2 at the start of a second
block. In `servers_safety` the select server has as many initialised slots as
descriptors, that is, it stays within the first quarter of `client[]`; beyond it
`TablesAgree` does not hold (a slot with a leftover number may duplicate an open
descriptor), and `select_full` shows the first consequence. In `servers_live` every
peer has a descriptor: when `accept()` fails for want of one, the reactor's `break`
gives up the rest of the batch, and with the listening socket first in every batch
the others starve. `demo2` is left out of `servers_live` because it loses
data, `demo1` and `d7` because they differ from `d1` and `d2` only in errors and
datagrams. `demo3` and the libev server close nothing at the end of a stream, so
`ClosesAll` is not asked of them.

`Brief` names the servers to which a peer sends one unit only. In `servers_safety` that
is all but `demo3`, where a second unit is what another peer's shorter message leaves
behind, and the reactor, where a second unit tells an answer apart from what the buffer
held before; the tables of the others do not depend on the amount. In `servers_live`
it is `demo3`, for the size of the state space alone: with two units from each peer both
properties hold of it, too (206 thousand states for this one server).

Six units typed are what two buffers of two, one chunk in the client and one in the
server hold together, the least that could block both sides (with chunks of two, buffers
of four and thirteen units typed the safety properties hold, too, in 310 thousand states). Three DNS names and two
ports and descriptors make ports be reused and descriptors run out; the names have an
alias of an alias, two addresses, one, and none (too short a message for an offset that
needs more than the one byte the parser uses of it). Three lines and two duplicates put UDP
echoes out of step. `maxlen` 3 and a newline as first and as fourth byte give readline() an
empty, a fitting and an over-long line. Round-trip times of 0, 1, 4 and 90 seconds reach
both bounds of the timer.

Deadlock is checked where the program has an end that the model knows (`queue`);
the pool and the servers may stop because nobody calls them any more.

Fairness. Weak fairness of each worker and of a `stop()` in progress says that the
scheduler runs threads, that tasks return and that a mutex is not withheld for
ever; timed waits time out. Nobody has to submit, start, stop, or wake spuriously.
In the queue each thread is weakly fair. In `EchoServers` the process is weakly
fair, and `accept()` is strongly fair because a signal may interrupt it any number
of times but not always. Peers owe nothing: they may never send or end. In `Clients`
processes and threads are weakly fair; the user, whoever kills the server, and the
network of the DNS clients owe nothing, a UDP datagram that is not lost arrives. In
`Library` each demo thread is strongly fair: a mutex that is free again and again is had in
the end, which `std::mutex` does not promise but every implementation under a fair
scheduler does.

## 4. What is proved

`ThreadPoolProofs` proves, for any tasks, clients, pool size, timeouts and clock
bound (only `ThreadPoolAssumption` is used), that the invariants of `pool_safety`
hold and that `ThreadPool` implements `TaskService` (`Refinement`, safety part).
The inductive invariant `IInv` is the conjunction of

- `TypeInt`, the types with `running_count` an integer: that it is not negative
  follows only from `CountIsExact`;
- `LifeInv`, which threads exist during start, stop and join, and that a thread
  leaves `run()` only after `_terminate`;
- `HoldInv`, that a worker's place in `run()` tells whether it holds a task and
  whether the task's future is still pending;
- `OneOwner`, `CountIsExact`, `NoLostWakeup` and `SleeperHasWaker` themselves, and
  `QuietInv` for the stopped pool.

The argument for `NoLostWakeup`: a worker falls asleep only with the queue empty, and
a task enters the queue together with a notification. If that wakes a worker, the
worker is awake. If it goes to a client, a client was asleep, and `SleeperHasWaker`
then names a worker that holds a task and is awake, or a queued task, for which
`NoLostWakeup` held before. If nobody slept, no worker sleeps. The two invariants
therefore have to be proved together.

`SyncQueueProofs` proves `TypeOK`, `Bounded`, `InOrder`, `EnoughWakeups` and
`NoMutualWait` for any number of threads, places and items, and that `SyncQueue`
implements `Fifo`. `EnoughWakeups` is the strengthening: while a consumer sleeps
there are at least as many notified consumers as values. `NoMutualWait` follows
because the queue cannot be both full and empty when `_maxSize` is positive.

### The servers

`EchoServersProofs` states five theorems about all servers at once: `TypeOK`, `TablesAgree`,
`NeverBlocks` and `OwnBytes`, and `ScanProofs` `CountdownIsExact`. They hold for any set of
peers, any number of descriptors, slots, events, threads, children and datagrams, and any
amount sent (`SocketsAssumption`, `EchoServersAssumption`). There is an inductive invariant
for each server; `OneServer` says that the server that runs is the only one that moves.

`SocketsProofs` holds what the servers share. `KernelInv` says that a descriptor stands for an
accepted connection, no two for the same one, and that who waits in the listen queue waits
once. There is a lemma for each call (`AcceptsKeeps`, `ClosesKeeps`, `ReceivesKeeps`, ...) and one for
a peer's step, `PeerKeeps`: what is readable stays readable whatever a peer does. That is why
a report can still be acted upon later in the turn.

- `SelectInv`: `SelectTables` (the property, and that the slots beyond `maxidx` which the
  `memset()` reached hold -1) and `SelectTurn` (`nready` is the number of slots still due, each
  readable; plus one before the accept). Without the first part the countdown cannot be
  counted, without `PeerKeeps` it would not stay true.
- `PollInv`: the same, except that `accept()` adds an entry whose `revents` may be old. `nready`
  then counts what is due or what is due without the last entry, and `PollNext` shows that
  the scan, which stops when `nready` is zero, never gets to act upon the difference.
- `EpollInv`: what is registered is open, and the events left are readable, although the
  server unregisters the wrong descriptor.
- `ReactInv`: item, buffers, registration and block of a descriptor exist exactly while it is
  open (`ReactItems`); a buffer holds bytes of its own connection (`ReactBytes`). The product
  `block_count * ItemLength` is kept behind `Covers`.
- `LibevInv`: a watcher is allocated as long as it is started, and `total_clients` counts them.
- `Demo3Inv`: what was seen of a connection is its past, so a connection that has something
  to read has news unless its event is still to come (`Demo3Edges`). Until `clash` one
  connection at most has an answer due, and `wbuffer` begins with what was read from it
  (`Front`); a unit further back is of a peer that has sent that many (`Written`), so a
  unit of another peer is a leftover of a message of two or more (`Leftovers`).
- `Demo2Inv`, `ThreadInv`: until `clash`, the shared buffer belongs to the one connection that
  waits to write; descriptors and threads correspond one to one (`Owner`), and what a thread
  holds came from the descriptor it is going to write to.
- `ProcInv` and `ProcSignals`: a connection is open exactly while the parent or a child holds it;
  what `select()` reported is still there; a zombie has its SIGCHLD pending or the handler is
  running.

The two instances of `ThreadServer` and of `ProcessServer` are first shown to take only the
steps of one common list (`ThreadMove`, `ProcMove`), about which the rest is proved once.

`TablesAgree`, `NeverBlocks` and `CountdownIsExact` have a hypothesis, `Memset`: there are no more
descriptors than slots that the `memset()` of the select server initialises, or it
initialises all. The code initialises 256 of 1024; beyond that the three are false of that
server, as the run `select_full` and the note on bounds above say. `TypeOK` and `OwnBytes` need no
such hypothesis.

### The clients

`ClientsProofs` proves `EndsRight`, `NoMutualBlock`, `OnceEach` and `TypeOK` for any sizes. For the echo
clients `Balance` accounts for each unit that was read: printed, in a buffer of one of the
two programs, or in one of the two socket buffers.
`NoMutualBlock` assumes that a socket buffer holds three chunks less one unit
(`EchoClientAssumption`); a chunk is `BUFFER_LENGTH`, 1024 bytes, and the kernel's buffers are some
tens of kilobytes. For the DNS clients the invariant says where the
query of each socket, context and event is; for UDP that the k-th datagram on its way back
is one of the first k lines. There is at least one name to look up.

Whose answer a DNS query gets has an invariant of its own, `DeliveryInv`. `NoneFromLater`:
sockets are opened in the order of the queries, no two open ones have the same port, and a
closed one holds nothing; so whatever is duplicated and delayed, no datagram reaches the
socket of an earlier query than its own. `OneUnderWay`: as long as nothing was duplicated,
each query has at most one datagram, which is on the network or in its socket, and the
socket is not closed before it was read; so the port cannot pass to another query while
something is on its way to it. The code compares no ids: this is why the answers are right
all the same, and why a client that gave up waiting would get them wrong (a mutant).

### The library

`LibraryProofs` proves `RetransmitsRight`, `OpensRight`, `TransfersRight`, `TypeOK`, and of the thread
demos `NoDataRace`, `RightResult` and `RefinesFifo`. The timer's invariant bounds `rtt_rto` from below
by `RTT_RXTMIN` for all measured times; that of the sockets follows which of the sockets tried
so far is open, which failures close the one that was given, and who resets the alarm; that of the streams relates the place of the
next byte, the bytes read ahead and the bytes stored.

The demos' invariant, `DemoInv`, says where the threads are and who has the mutex, and adds one
part per demo:

- `Placed` and `StartInv`: every thread is at an instruction of its code (or before or after
  all of it), runs once `main()` is past its start, and has ended when `main()` is past its join.
- `MutexInv`: a thread has the mutex exactly where its code says so (`Inside`), except in a
  `wait()`. This is inductive because the code is `Disciplined`: it locks, unlocks, jumps and waits
  only where that agrees with `Inside`, and uses nothing shared outside. `NoDataRace` follows for
  the demos with a mutex; in the others the thread that writes runs alone.
- `CountInv`, `QueueInv`: the count, and the lengths of what was sent and received, are the number
  of turns that are past their store, push or pop. `Past` is this set of turns; a step adds one
  to it or none, and when the threads have ended it is all of them. `Holds` relates the queue to
  what was sent and not yet received, which is the step of the refinement of `Fifo`.
- `GuardInv`, `OnceInv`, `AtomicInv`, `RecursiveInv`, `PromiseInv`, `LentInv`: the same for what the other
  demos print, call, store, lock, promise and lend.

`RightResult` alone has a hypothesis, an even number of threads: `demo2_sync_queue.cpp` starts a
consumer for every producer, and with one producer more than consumers the queue would not
be empty at the end.
All of them assume at least four threads (`LibraryAssumption`), the number that
the demos with separately written threads need.

### Only model-checked

- Liveness (`TaskResolved`, `StopReturns`, `WaiterReturns`, `Finishes`, `EchoesAll`, `ClosesAll`, `Ends`,
  `Answered`, `AllEnd`): the proof system does not treat fairness or ENABLED.
- `Truthful`, that is, the codec of the DNS clients: that a name which was encoded,
  compressed and parsed comes out as it was is an induction over the bytes of the message,
  and `DnsMessage` is written with recursive functions. The run asks for three short names.
  That the answer is to the right query is part of `OnceEach` and proved.

## 5. What the checks found

1. `wait_for_all_done()` tests the queue only, not `running_count`; its comment
   (`demo_threadpool.h:153`, `:155`) promises that all tasks have been executed.
2. `d3_select_echo_server.cpp:34` initialises a quarter of `client[]`.
3. `d5_epoll_echo_server.cpp:95` unregisters the connection accepted last instead of
   the one that ended.
4. `d1_multi_thread_echo_server.cpp:58` gives every thread the address of the same
   `clientfd`. `demo1_socket.cpp:45` does the same.
5. `rtt_timeout()` doubles the timeout past `RTT_RXTMAX` (`rtt.c:114`).

Seen on the way, without a run of their own:

- thread pool: the notification of `exec()` may wake a waiting client instead of a worker
  (`NoLostWakeup` shows that the task is still run); tasks queued when `stop()` is called are
  abandoned, and an untimed waiter then sleeps for ever; `start()` after `stop()` creates
  threads that end at once, because `_terminate` is never reset; `start()` returns false in
  every case;
- the poll server reads a `revents` that was never written only if the countdown of `nready`
  is wrong; `demo2` does not take a closed descriptor out of `wfds_in` and ignores the
  `EBADF` that follows, after which it may block in `accept()`; `demo3` sends all 8192
  bytes of its buffer to everyone, with what longer messages of other peers left in it
  (`demo3_epoll.cpp:67-80`); the libev server says "Successfully close client"
  (`libev/demo1_echo_server.cpp:150`) and closes nothing; in `d7` the handler of `SIGCHLD` may change `errno` between the return of
  `select()` and the test for `EINTR`;
- the poll and epoll clients do not hear of the end of a pipe, the libev client of no end
  at all, and after the server's end it goes on reading its input; `d1` waits for ever
  when the last line of its input has no newline, since `Readline()` waits for one
  (`d1_echo_client.cpp:56-60`), and the server for the client (`HalfLine` in `Ends`);
- the c1000k client receives and sends on `sockfd` whatever connection the event is of,
  and closes that of the event;
- after a duplication a DNS client may print the answer to an earlier query: the clients look neither at the id nor at the sender of an answer and use one byte
  of a pointer's offset; a UDP client without `connect()` prints a stranger's datagram;
- `readline()` returns `maxlen` for a line of which it stored `maxlen - 1` bytes;
- `connect_nonb()` leaves the socket open and non-blocking when `connect()` fails at once or
  `getsockopt()` fails, and closes it in every other failure; `connect_timeo()` cancels an
  alarm its caller had set and does not set it again (`connect_timeo.c:13-14`).

## 6. Not modelled, and what is left

Left out of what is modelled: the failure of `malloc` (but for the DNS context),
`epoll_ctl`, `bind` and `listen` in the servers; `write()` of the servers in `EchoServers` that
blocks or is partial (their peers read their echoes; `EchoClient` has the case); the text
of log lines; data apart from its amount and, where buffers are shared, its origin.

Not modelled at all, because there is no state to follow:

- the wrappers of `basic_lib` (`wrapsock.c`, `wrapunix.c`, ...), each one system call and
  `err_sys()`; `unp.h` and `config.h`, which declare;
- its functions that format, compare and fill in addresses, list interfaces and set
  multicast options: one system call, or text;
- `daemon_init()` and `daemon_inetd()`, a fixed sequence of system calls that no program here
  makes; `readable_timeo()` and the like, one `select()`;
- the demos of the language (ownership, rvalue references, lambdas, exceptions, longjmp,
  variable parameters): straight-line programs whose point is what the compiler does.

Theorem worth proving next: an action property for the reactor, that `reply` only grows while a
connection is open.
