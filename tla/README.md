# SO-2021v-LI41D: models, checks and proofs

The repository holds the programs of an operating systems course: a library of
user threads with its synchronizers, a thread pool, latches, a barrier, bounded
queues, a message channel in shared memory, and a family of echo servers. Most
directories (`aula-MM-DD`) are one lecture; a program that grew over several
lectures appears in several of them, often as identical files. Where only the last
version is modelled, the components list in `PROJECT.json` says which copies it
stands for; versions that differ in what they do have models of their own.

Run `tlc -config X.cfg M` for a model and `tlapm M_proofs.tla` for a proof.

## 1. Inventory

| component | state | operations | what makes it correct |
|---|---|---|---|
| user-thread scheduler, `uthreads/uthread/uthread.c` | `number_of_threads`, `ready_queue`, `running_thread`, `main_thread`, the descriptors | `ut_create`, `ut_run`, `ut_yield`, `ut_activate`, `ut_deactivate`, `ut_exit` | a descriptor is in one place, is not used after it is freed, and threads run in the order they became ready |
| first user threads, `aula-05-12/uthreads0`: `uthread.c` over `ctxswitch.s`, `uthread0.c` over `ctxswitch0.s` | the same, and under it the links of `list.h`, the stacks and the registers | the same calls, `context_switch`, `internal_start`, `internal_exit` | it implements the scheduler; a thread resumes with the registers it left |
| intrusive list, `list.h` of `aula-04-29` and of `uthreads` | two links in every entry | insert, remove, at both ends and in the middle | after any legal sequence of calls the links are those of the sequence |
| user threads with join, `aula-05-14/uthreads1` | `alive_queue`; joiners on an event or on a list in the descriptor | `ut_join`, `ut_exit`, `ut_alive` | a joiner waits for a living thread and no longer |
| event, auto-reset event, semaphore, `event.c`, `auto_event.c`, `semaphore.c`, `waitblock.h` | a flag or units, a list of wait blocks that live on the waiters' stacks | wait, set, `sem_wait`, `sem_post` | no wake-up lost, no waiter overtaken, nobody in two lists |
| bounded queue over those semaphores, `aula-05-19/.../queue_test.c` | list, two semaphores | `queue_put`, `queue_get` | bounded FIFO; balanced programs end |
| thread pool, `aula-06-02/tpool.c` | list of work items, counters, flags, a mutex and two condition variables | `tp_init`, `tp_submit`, `worker_func`, `tp_shutdown` | an accepted item is executed once and before the shutdown returns; nobody uses the pool afterwards |
| earlier pools, `aula-05-27/tp/tpool.c` over the monitor `queue.c`, and `aula-05-28/tpool.c` | a list, a mutex, a condition variable | `tp_init`, `tp_submit`, `worker_func` | an accepted item is executed once |
| count-down latch, `cdl.c`; the first version, `aula-05-27/tp/cdl.c` | counter, mutex, condition variable | `cdl_signal`, `cdl_wait` | a wait ends when the counter is zero, and then does end |
| parallel adder, `aula-06-02/tp_adder.c` | contexts and latch on the caller's stack | `par_adder` | the whole sum, and no item left behind when the frame goes |
| cyclic barrier, `aula-06-04/barriers/barrier.c` | `arrived`, `round` | `barrier_await` | nobody passes early, nobody stays behind, one serial thread |
| queue over POSIX semaphores, `aula-06-04/queues/queue.c` | list, mutex, two semaphores | `queue_put`, `queue_get` | bounded FIFO |
| memory channel, `aula-06-04/ipc/memchannel/memchan.c` | ring, indices, size, process-shared mutex and condition variables | `mc_create`, `mc_open`, `mc_put`, `mc_get`, `mc_destroy` | bounded FIFO between processes |
| echo service over memory channels | one request channel, one response channel per client | the server's loop, the client's | a reply goes to its sender; the server outlives its clients |
| echo servers over a Unix socket, and over TCP with a pool, `aula-06-09/echo_service` | the connection served, the pool's queue | accept, read, write, close | a client that goes away does not stop the others |
| echo servers over poll, select, epoll, an epoll loop with callbacks, `aula-06-17/echo_service` | tables of clients, what is ready, `nclients` | add and remove a client, dispatch | no client forgotten, none served from a stale table, no read that blocks |
| echo servers over libuv, without and with its pool, `aula-06-18`, `aula-06-23` | handles, requests in the pool | the callbacks | a response goes to its sender |
| echo service over FIFOs, `aula-06-09/echo_service/echo_fifo_channel` | one FIFO for requests, one per client | create, open, read, write, close, unlink | a reply goes to its sender |
| regions and files shared by name, `lib/memutils.c`, `smem_writer` and `smem_reader` (`aula-04-23`), `genints` and `maptest` (`aula-04-22`) | names, regions, mappings | create, open, truncate, map, unlink | nobody leaves its mapping; only a file that another program cuts ends inside one; who maps a region that is written sums all of it |
| small programs of `aula-03-18` to `aula-05-27`: processes, pipes, memory, races, first threads | processes with their memory, buffered output and descriptors | `fork`, `exec`, `wait`, `pipe`, `dup2`, `read`, `write`, `pthread_create`, `pthread_join` | the result each was written to show, whatever the order |
| clocks, readers of `/proc`, other small programs | | | see section 7 |

How they interact. The synchronizers call the scheduler (`ut_deactivate`,
`ut_activate`); the queue of user threads calls the semaphores. The pool's workers
call the functions of work items, and those call the latch (the adder) or the pool
itself. The scheduler stands on the lists and on the context switch. The echo server and its clients are processes that share nothing but
channels, which they find by name.

What is hard. User threads are cooperative: the hazards are in what a call leaves in
the lists when it gives up the processor. Everything else runs preemptively: the
hazards are between an unlock and the signal that follows it, between a wake-up
and the test that follows it, in objects that live on a stack or are destroyed while
another thread is about to use them, in indices and counters at their limits, and
in processes that die. `PROJECT.json` lists them under `hazards`, each at its line,
with the properties that would catch it.

## 2. Modules

    BoundedFifo      what a bounded queue promises            (abstract)
    WorkPool         what a pool of workers promises          (abstract)
    UThread          the scheduler                            <- uthreads/uthread/uthread.c
      USynch         events and semaphores over it            <- event.c, auto_event.c, semaphore.c
        UQueue       the queue and its program over those     <- queue_test.c
      UJoin          the scheduler with ut_join               <- aula-05-14/uthreads1/uthread.c
    ListLinks        the operations on links                  <- list.h, two versions
      IntrusiveList  a list under any legal calls             <- the same
      UMachine       links, stacks and registers              <- aula-05-12: uthread.c, uthread0.c, ctxswitch*.s
    UPrograms        UQueue, UJoin, UMachine and IntrusiveList together
    ThreadPool       the pool                                 <- aula-06-02/tpool.c
    EarlierPools     the two before it                        <- aula-05-27/tp, aula-05-28/tpool.c
    Pools            the three of them, each a WorkPool
    CountDownLatch   the latch                                <- aula-06-02/cdl.c
      ParAdder       the adder over the latch and WorkPool's promise <- tp_adder.c
    Adders           ParAdder and the first version of the latch together <- aula-05-27/tp/cdl.c
    CyclicBarrier    the barrier                              <- barrier.c
    SemQueue         the queue over POSIX semaphores          <- aula-06-04/queues/queue.c
    MemChannel       channels                                 <- memchan.c, memutils.c
      MemEcho        the server and its clients               <- echo_memchannel: echo_srv.c, echo_cli.c
    FifoEcho         the same over named pipes                <- echo_fifo_channel: echo_srv.c, echo_cli.c
    SharedRegions    regions and files shared by name         <- lib/memutils.c, smem_*.c, genints.c, maptest.c
    Processes        processes, pipes, output                 (external: the kernel, the C library)
      SmallPrograms  each program as its sequence of calls    <- aula-03-18 to aula-05-27
    Ipc              MemEcho, FifoEcho, SharedRegions and SmallPrograms together
    Sockets          connections and the client program       <- echo_cli.c
      UdsServer      one connection at a time                 <- echo_udschannel/echo_srv.c
      TcpServer      a worker per connection                  <- echo_ipchannel/echo_srv.c
      PollServer, SelectServer, EpollServer                   <- echo_ip_{poll,sel,epoll}channel/echo_srv.c
      LoopServer     callbacks over epoll                     <- echo_ip_epoll_cb/loop.c, echo_srv.c
      UvServer       callbacks over libuv                     <- aula-06-18/echo_libuv/echo_uv_srv.c
        UvPoolServer   answers from libuv's pool              <- aula-06-23/echo_libuv/echo_uv_srv.c
      EchoServers    the same clients against each of them
    *_proofs         theorems: USynch (UThread's too), UPrograms, SemQueue, Pools, Adders,
                     CyclicBarrier, Ipc, EchoServers
    MC*.tla          definitions of constants for TLC
    MC*.cfg          the instances TLC checks

Variables and actions keep the names of the source's fields and functions. The
modules that put systems together (`UPrograms`, `Pools`, `Adders`, `Ipc`,
`EchoServers`) have a variable `kind`, chosen at the start, that says which one runs;
their properties are stated once for all that share them. A configuration whose values
are only model values names the specification itself (`USynch`, `SemQueue`,
`CyclicBarrier`, `Pools`, `Adders`); the others have a module `MC*` with definitions.

**UThread.** A user thread gives up the processor only inside a library call, so a
call up to its context switch is one atomic action. `extract_next_thread`,
`AfterExtract` and `schedule` are the dispatch; `ut_exit` includes the free of
descriptor and stack that `internal_exit` does after the switch; a failed
assertion of `ut_run` is a state without a successor. The program that uses the
library is arbitrary: `Next` lets the running thread make any call, restricted to the
library's one rule, that only a thread neither running nor ready is activated.
That makes `Spec` an abstract specification for whoever calls `ut_activate`.

**USynch.** The wait block of thread `t` is `t` in `waiters[o]`; its `units`
field is `request[t]`. The release loop of `sem_post` is the predicate
`LoopReleases(s, k, left)`: `k` waiters are released and `left` is the sequence of
what remains, so the loop is defined without recursion. `ImplementsUThread` is
the rule above as a refinement: seen without its waiting lists a program that uses
synchronizers is a behaviour of `UThread!Spec`.

**UQueue.** `queue_put` and `queue_get` give up the processor only in `sem_wait`,
so each is a wait and the rest. Message `<<t, n>>` is call `n` of thread `t`. The
constant `Program` gives each thread's calls.

**UJoin.** `uthread.c` of `aula-05-14` has two implementations of `ut_join`, and
`build` says which was compiled: joiners wait on an event in the descriptor, or are
linked in it. A handle is an address that `malloc` may give to another thread after
`cleanup_thread`, so a thread that kept a handle too long joins whoever lives there
now. Each thread leaves `alive_queue` by its own node (`remove_alive`), wherever it
stands. `JoinsAreSound` says that who waits is blocked, in one list, on a living thread,
and that `alive_queue` holds the living; and that when joiners are left at the end,
some of them join each other in a circle.

**ListLinks, IntrusiveList.** Each operation yields the links of all entries.
`IntrusiveList` calls the operations of both versions of `list.h` in any legal order,
next to the sequence that should result; `LinksAgree` compares a walk in both
directions with it, and the `BOOL` a removal returns. All other modules use the
sequence.

**UMachine.** A stack is a sequence of words, `regs` the registers a callee saves,
`rsp` the words of the running stack in use, `rip` where execution goes on.
`context_switch` pushes, stores, loads and pops what the assembly does; `ut_create`
builds the first frame of a thread; `internal_exit` frees the stack of the thread that
ended from the stack of the next. Before each call the program leaves values of its own
in all registers, and `ResumesAsItLeft` says that it finds them again.
`MachineImplementsUThread` maps the links to `ready_queue`: with the other refinements
the chain goes from links and registers up to the bounded queue.

**UPrograms.** The program of the queue, three joiners, two threads on the machine
in both versions, and lists of four entries.

**ThreadPool.** A critical section is a step that ends at the unlock or in a wait;
the signal after the unlock in `tp_submit`, the call of the item's function and the
destruction of the pool are steps of their own; a wait may return spuriously.
Clients submit and shut down in any order; items submit items.

**EarlierPools, Pools.** In `aula-05-27` a submission signals with the lock of the
monitor held; in `aula-05-28` the queue is in the pool and the signal comes after the
unlock, a step of its own. Neither pool ends. `Pools` runs any of the three;
`ImplementsWorkPool` is the refinement of `WorkPool`, finished when `tp_shutdown` is
past its wait, and `AcceptedIsExecuted` the liveness that goes with it.

**CountDownLatch, ParAdder.** The broadcast comes after the unlock: a separate
step. In `ParAdder` the frame of `par_adder` is at the same address in each
call, so the late broadcast of one call reaches the latch of the next; the work item
of context `i` in call `n` is `<<n, i>>`.

**Adders.** The first latch broadcasts with the lock held and its wait
tests the counter once, so a spurious wake-up is taken for the last signal.
`LatchesOpenInTime` says that who sleeps on a latch at zero has its wake-up still to come,
and allows an early pass of the first latch only to who woke spuriously. No program
that compiles uses that latch; any threads call it.

**CyclicBarrier.** `barrier_await` up to its wait is a step, each return of the
wait another; `round` wraps at `RoundMod`.

**SemQueue.** Each `sem_wait`, critical section and `sem_post` is a step. Both
semaphores start at `max_size`, as the call of the POSIX `sem_init` makes them.

**MemChannel, MemEcho.** `op[p]` is the call process `p` is in. The ring is an array
with indices, `Contents(c)` what it holds. `linked` are the channels that have their
name, their mutex and their condition variables, which `mc_destroy` takes away together;
`ServerSurvives` includes that nobody locks or waits on a channel without them. The
server's signal after the unlock of `mc_put` may still come then: the server has the
region mapped, no waiter is there, and the call does nothing. A client may be killed
anywhere outside a critical section: `killed` between two calls, `cut` inside one.

**FifoEcho.** The server and each client have their own FIFO open for reading and
writing, so nobody sees an end of file; opening the other side's FIFO to write waits
until somebody can read it, and a write that nobody can read kills. A client killed at
any moment leaves its FIFO's name behind.

**SharedRegions.** A region lives while it is mapped, a name leads to one region at
most, and a system call or an access to one element is a step. The programs over shared
memory have one size, a constant of their sources; each program over a file has the size
of its own command line (`newsize`), and the file may exist beforehand, with any of these
sizes. `map_file` truncates it to the caller's size, so it may be cut under the mapping of
another program, which is killed by SIGBUS at its next access beyond the new end
(`BusError`). `RegionsHold`: no access outside a mapping; none outside the region, unless
another program has truncated the file to fewer elements; no name left over in shared
memory; and who maps a region written in full, that is not cut, adds up all of it.

**Processes, SmallPrograms.** `Processes` is the kernel and the C library as the
programs see them: tasks with their own memory or that of their process, copies of
the buffer of `stdout` at `fork`, descriptors, one pipe, and calls the system may
refuse. A small program is the sequence of its calls (`SmallPrograms`), with the rest
it goes to when a call is refused. `ResultsAreRight` states for each program the result
it was written to show when neither the system refuses a call nor the user interrupts
(no increment is lost, a change stays in the process that made it, the whole pipe is
read), `LinesComeOutOnce` that on a terminal `fork` duplicates no output; into a file it
does, since the buffer is then written only at the end (the line of `tfork.c:12` comes out
twice), and the property leaves that case out. `tpipe` prints each byte, and flushes, before
it reads the next. A line carries
the number of the task that printed it and how many that number had printed before
(`said`, a history variable), so that two lines are equal only if one call printed both.

**Ipc.** One of the four, with a client that may be killed where the services allow it.

**Sockets.** A connection is identified with its client. It is in the `backlog`
until the server accepts it, and `owner[f]` is the connection of descriptor `f` from
then on; the lowest free descriptor is taken. `Readable` is what `poll` and its
relatives report. Clients connect, send one request at a time, and may be killed at any
moment; `Ends` and `Killed` leave what they had sent to be read.

**The servers.** A step ends at a system call that depends on others: the wait,
the accept, each read with the write that answers it. The servers over poll and select
have their tables, with a removed client's place taken by the last one, and the slot
`i` at which `process` is; what poll leaves in `revents` stays there. The epoll servers
have the kernel's set, and a batch of events in no particular order. A read with nothing
to return is no step: the server is blocked. `UvServer` has the handles with their
addresses, which `on_close` frees and a later connection may be given; in free
memory `send_resp` does one of the things the program can do, and to a client that
was killed it may write into a closed connection. A request in the pool is known by its
handle, its client and the client's call, so that two of one client are two. `TcpServer` has its
pool in it: the workers in their wait, and the signal of `tp_submit` after the unlock
as a step of its own; a wait may return spuriously, which no fairness asks for. Its
`NobodySleepsOverWork` says that no wake-up is lost: while a worker sleeps, each
connection in the queue has a worker that is awake and free, or about to be woken.

**EchoServers.** One specification per server, put together by `INSTANCE`: `kind`
says which one runs. The properties are those of any echo server and are stated
once, over what each server calls `Watched`. `NobodyBlocksTheServer` is about
the servers over select, epoll and the loop, and about the workers of the one over TCP. It
says nothing of the server over a Unix socket, which serves one client at a time by
design, nor of the one over poll, which may block (section 6). `TypeOK` includes
`OneUnderWay`: a client
has at most one request in its connection, at the server or on its way back. Of the
server over libuv's pool this is not so (section 6).

## 3. Runs

| run | instance | shows |
|---|---|---|
| MCUSynch (`USynch`) | 3 threads, one event, auto event and semaphore, limit 2, requests of 1 and 2 | every program of three threads: lists, counter, order, no lost wake-up, no barging, the rule of `ut_activate`, ready threads run |
| MCUSynchRun (`USynch`) | the same | **violation**: `ut_run` resumes with blocked threads left |
| MCUQueue | 4 threads, 6 puts, 6 gets, 2 places; 3 joiners, 2 builds; 2 threads on the machine, 2 versions; lists of 4 entries | units and messages add up across hand-off, FIFO, the program ends in every creation order; joiners wait for the living; links agree with the sequence; registers survive a switch; the machine implements `UThread` |
| MCThreadPool (`Pools`) | 3 pools; 3 workers, 2 clients, 2 items | items executed once and before the end of the shutdown, pills, nobody left to lock, each pool a `WorkPool`, liveness |
| MCSemQueue (`SemQueue`) | 3 threads, 3 messages, 2 places | capacity and order up to the first empty get |
| MCSemQueueEmpty (`SemQueue`) | the same | **violation**: an empty get finds no node |
| MCCyclicBarrier (`CyclicBarrier`) | 3 threads, 5 phases, rounds modulo 2 | nobody passes early, one serial thread, all phases done |
| MCParAdder (`Adders`) | 3 ranges, 3 calls, sizes 0 to 8; the first latch from 3 with 4 signallers and 3 waiters | the sum, nothing outlives the frame, latches open in time, every call returns |
| MCMemEcho (`Ipc`) | 3 clients, request channel of 2, one request each; 3 casts of 3 processes, over a region of 2 integers, or over a file with sizes of 2 and 4, there before or not; 3 tasks, 2 rounds, 2 threads, 4 numbers | FIFO ring, replies, the server survives, regions hold, results are right, no line twice, everybody ends |
| MCEchoServers | 8 servers; 3 clients (2 for epoll, the loop and libuv), one request each, tables with 2 places, 2 workers | every connection watched once, nobody blocks the server, every request answered, a server told to terminate ends |
| MCPollServer | the server over poll | **violation**: a client is read from that poll did not report |
| MCUvPoolServer | the server over libuv with a pool | **violation**: a response reaches another client |

MCUQueue and MCMemEcho take one to two minutes, the others seconds.

Why the bounds are enough. Three threads are the least with two that wait and
one that decides between them, and with a third that arrives in between; a limit of
two with requests of one and two makes requests that fit, do not fit, and fit one
after the other. Two places and six messages fill and empty a queue and wrap a ring
several times. Three workers leave a second worker between the one that is signalled
and the one that takes the item; two clients race to shut down. Two values of `round`
are the hardest case for the barrier: a thread that oversleeps a whole cycle of the
counter would be lost. Three calls of the adder give a broadcast that is late by one
call and a call that follows it. Three clients and two places in a table: one is refused,
or takes the place of one that left while the second is moved or waits; the servers
whose table is the kernel's treat each descriptor by itself, so two clients, one of which
takes the descriptor or the address of the other, meet every case (`Population`). One
request per client makes a read that returns a request, and one that returns the end,
for each of them in every order.

Two threads on the machine, with the main thread a third stack, switch from a thread to
itself, to another, to one that never ran and to one whose stack is about to be freed; a
list of four entries has a first, a last and two neighbours in the middle. Three joiners
give one that is joined by the other two, a circle, and an address used again. Four
signals for a latch of three take the counter below zero. The small programs have at
most three tasks alive except those that create several threads, of which two are
enough to race; a region of two integers has one element read before the other is
written. A file of two or four integers is cut, kept or grown by a program with the
other or the same size; four is the least that maptest reads in more than one round. The
request channel of two (1024 in the code) fills up with three clients. With one request per
client the run cannot meet a stale or a repeated reply, nor a response channel that is
full; that these do not happen either, for any number of requests, is proved
(EveryReplyIsOnesOwn, DeathsDoNotStopTheService).

## 4. Fairness

* User threads: weak fairness of the steps that change the running thread
  (`SyncLiveSpec`). Scheduling is cooperative, a thread that never calls the library
  stops everything, and the library promises nothing against it.
* `UPrograms!Spec`, for `ProgramEnds`: one operating-system thread executes all; weak
  fairness of the queue's steps.
* Threads and processes of the operating system: weak fairness for each one's
  own steps, as its scheduler gives every thread that is not blocked. A mutex
  held for a critical section is part of the step. Nothing is assumed about *which* waiter
  a signal wakes, and no fairness makes a client submit, shut down, start or
  die, somebody type a line, or a wait return spuriously.
* `Ipc!Spec`: weak fairness of the server, each client and each task. `EverybodyEnds`
  has its premises inside. Over memory no client is killed inside a call: killed
  between its unlock and its signal it takes another's wake-up with it. Over FIFOs no
  client is killed at all, since the server may be opening or writing its FIFO. And
  the user of a small program answers each prompt, as a fairness premise of the property.
* Echo servers: weak fairness of the server as a whole and of each client that has
  started. For the server with several threads this is less than its scheduler
  gives.

## 5. Proofs

The theorems of `USynch_proofs` hold for every set of threads,
finite or not, any number of objects, every limit and every set of positive units;
the others for every finite set of threads, workers, items or ranges, any set of
clients (a finite one for the servers over sockets) and every capacity. All assume what the modules' `ASSUME`s say and nothing else.
Those say that the constants are what the programs make them (different names for
different things, sizes that are positive numbers); four say more. `FiniteAssumption`
of `UPrograms`: there are finitely many threads, so that units and wake-ups can be
counted. `LenAssumption` of `Ipc`: a region has elements, and a file an even number of
them, since its size is given in megabytes and `maptest` walks from the middle in both
directions. `SocketAssumption` of `Sockets`: descriptors are numbers, and there
is one for every client that can be connected, so that accept does not fail.
`DescriptorAssumption` of `EchoServers`: those of the server over select are 4, 5 and so
on, because it opens nothing but its listen socket and its connections.

* **SchedulerIsSound**: `SchedInv` (types, `ReadyQueueSound`, `CountIsAllocated`,
  `MainIsThere`) is inductive for the bare scheduler. `MainIsThere` is needed
  because `extract_next_thread` yields `main_thread` on an empty queue. Two
  dispatch lemmas, `ActivateIsSound` and `SwitchIsSound`, carry the two ways the
  queue changes, over a few lemmas about injective sequences.
* **SchedulerIsFifo**: `NoOvertaking`, an action property, from the same invariant.
* **NoThreadIsLost**: `SyncTypeOK /\ Placement`. Placement alone is not inductive:
  that an activated waiter is not in the ready queue needs `ReadyQueueSound`, so
  the two are proved together.
* **SynchronizersFollowTheRule**: `SyncSpec => ImplementsUThread`. Every action of
  a synchronizer is a `Wake`, a `ut_deactivate` or a stutter; `Placement` says that
  waiters are blocked and distinct, which is what `Wake` asks for. **ReadyQueueStaysSound**,
  **CounterCountsThreads** and **ThreadsAreServedInOrder** then follow from the
  scheduler's theorems through the refinement.
* **NoWakeUpIsLost**: `NobodyWaitsInVain`, with the fact that recorded requests are
  units (positive), which the release loop's test needs.
* **SemaphoresAreFair**: `NoBarging`.
* **NothingOutlivesTheCall**: `NoItemOutlivesTheCall`, for every number of ranges, of
  calls and of counts of items. Its invariant `AdderInv` says what is not visible in one call:
  the latch's counter is the number of ranges of the present call not yet signalled,
  an item of a former call can only have its broadcast left, one of a later call does
  not exist. Counting is by `Cardinality`, with one lemma for a signal that takes one
  item out of the set.
* **BarrierHolds** and **OneThreadIsSerial**: `NobodyPassesEarly` and `OneSerialThread`,
  for every finite set of threads, number of phases and width of the round counter. The
  counter wraps (two values are enough), so it does not say how far a thread is.
  `BarrierInv` says that some `g`, the rounds completed, exists: a thread that is late,
  still inside the barrier with a round that is over, has `g - 1` calls behind it, every
  other has `g`; `arrived` is the number of threads waiting in the present round; and
  exactly one of the calls of round `g` was the serial one.
  **BarrierIsTyped** is a consequence.

* **LatchesOpen**: `LatchesOpenInTime`, for both latches. `LatchesInv` joins `AdderInv`
  with two facts: who still waits on a latch at zero will be woken, because the
  broadcast is still to come (`SleeperWillBeWoken`); and the first latch counts
  what its signallers have done, so who is past it without a spurious wake-up is past
  zero (`FirstInv`).
* **TheSumIsComplete**: `SumIsComplete`, for every size, number of ranges and calls. `SumInv`
  says what `Submit` cut each range of the present call to, and that an item that has run
  left the length of its range as result. When `par_adder` is past its wait `AdderInv` says
  that all have; their sum is a fold (`SumFunction`), computed by induction over the
  sets it takes elements from (`SumOfEquals`).
* **NoPlaceIsLost** and **QueueIsFifo**: `PlacesAddUp` and `StepIsFifo`, for any number
  of threads and any size. `QueueInv` says who holds a node at each step and that free,
  reserved, occupied and returned places add up to `max_size`; each step takes one
  thread from one of these sets to the next, and the lemmas about `Moves` follow what
  that does to the four cardinalities. The sum, not a guard, is what keeps the list within its
  capacity. `EmptinessIsRemembered` carries the condition "up to the first getter that
  found no node" from a state to the earlier ones.
* **NoItemIsLost**, **PillsAreEnough**, **NobodyIsInADestroyedPool** and
  **PoolsKeepThePromise**: the safety of all three pools, and that each refines
  `WorkPool`. `PoolInv` has the types; `ItemsConserved`: an accepted item is once in the
  queue, with one worker, or executed; `PillsConserved`: from the shutdown on, pills
  in the queue and in hands are as many as the workers that have not ended, and the last
  element of the queue is a pill; `OneShutsDown`: one client at most is inside. Each
  step of any pool is classified as one of six effects on queue, hands and counts (takes,
  executes, ends, accepts, closes, rests), and the invariant is proved per effect,
  not per action: a step's place in the program matters only for the classification. The
  refinement needs that `shutdown_done` means that everything accepted has been executed
  (`DoneMeansExecuted`), which is the end of a chain: no workers left, so no pills left,
  so by the order of the queue no items left.

* **QueueConservesUnits** and **QueueIsFifo**: `UnitsAddUp` and `ImplementsFifo`, for
  any program. `QueueInv` is the invariant behind `NobodyWaitsInVain` with `UnitsAddUp`
  itself and `WaitersCalled`: who waits on a semaphore of the queue is in the call that
  waits there, for one unit. The first is what makes the sum inductive: a semaphore with
  waiters has no units, so a unit posted goes to exactly one of them, whose promise
  takes the unit's place in the sum. (The lemmas are in `USynch_proofs`, which extends
  `UQueue` for them.)
* **JoiningIsSound**: `JoinsAreSound`, for both builds. `JoinInv` is the scheduler's
  invariant, the types of the join lists, `LivingJoiners`, and `MainRunsLast`: the main
  thread runs only when nobody is ready. What is left at the end follows from that:
  everybody left is blocked, so if all are joiners, each of them waits for one of them.
* **LinksAreCircles**: `LinksAgree`, for any set of entries. `Circle(l, h, q)`: the
  links of the entries of `q` and of the head `h` read `q` forwards and backwards. Each
  of the operations of both versions of `list.h` is an insertion or a removal at one
  place of a circle (`LinkedIn`, `LinkedOut`). The walks in `LinksAgree` are recursive
  functions, and that a walk along a circle yields the sequence is by induction.
* **ContextsAreRestored** and **MachineIsAScheduler**: `ResumesAsItLeft` and
  `MachineImplementsUThread`, for both versions of the first user threads. `MachineInv`
  says of every living thread whose stack is not in use that the top of the stack holds
  the frame `context_switch` will pop, either the one it pushed, with the registers
  the thread left, or the first one, which `ut_create` built (`SavedIn`); of the thread in control that
  the registers are its own (`InControl`, `AsItLeft`); of the links that they are a
  circle of allocated descriptors (`ReadyIs`); and of the mapped variables that they
  satisfy `SchedInv`. So the scheduler's theorems hold of stacks and links, through
  the refinement.
* **NobodyLeavesItsRegion**: `RegionsHold`, for any sizes, each program's its own, and any
  file found at the start. `RegionInv` has for each program that what it works on is inside
  its mapping, and over shared memory, which has one size only, inside the region too
  (`StaysInside`); that a file is as long as one of those who truncated it asked for, so that
  whoever is killed was preceded by one that asked for less (`IsCutBy`); that a region that was
  whole when it was mapped stays so, unless it is cut (`StaysWhole`); what the program has
  summed at each round of its loop (`Progress`); and that a name over shared memory leads to
  a writer that has yet to unlink it (`WillBeUnlinked`).
* **EveryReplyIsOnesOwn** and **DeathsDoNotStopTheService**: `RepliesMatch` and
  `ServerSurvives`, over shared memory and over FIFOs, with clients killed where the models let
  them be. Both services have the same invariant at their centre, `Outstanding`: the request
  a client waits for is in one place at most, the request channel, the server or the
  client's own channel, and each of these holds only such requests. It is proved once,
  for the four ways a message moves, and used by both. `MemInv` adds the rings as
  arrays with indices, which call of a channel each process is in (`ServerCalls`,
  `ClientCalls`), and that a region keeps its name until its client has ended
  (`NamesKept`), which is why the server never finds a channel gone, and nobody uses one
  that was destroyed; that the server never finds one full follows from `Outstanding`.
  `PipeInv` adds `FifosKept` and `ServerWorks`.
* **RequestsReachTheServerInOrder**: `RequestsAreFifo`, for any capacity. The ring of the
  request channel reads as a sequence from `iget` on, modulo the capacity; a put or a
  get at one index is a step of `BoundedFifo` on that sequence (`HeldPut`, `HeldGet`), and
  every other step of the service, a kill between unlock and signal included, leaves it alone.
* **NoLineComesOutTwice**: `LinesComeOutOnce` of every small program, with any number of
  tasks, rounds, threads and numbers to add, whatever the system refuses and whoever is
  interrupted or killed. First, what the programs look like, call by call (`ProgramsForkEarly`): only the
  first task starts others, and no fork comes after a call that leaves something in the
  buffer of `stdout`, nor after the start of a thread, which would share it; what follows a
  refusal or an interrupt, or a child's end, prints whole lines. `padder` and its like,
  which are repetitions of parts, need what `FlattenSeq` returns (`FlattenHolds`, by
  induction). Then the invariant, `ProgramInv`: what is left of each task's program is of
  this kind (`Followed`); as long as the first task has a fork to come, its buffer is
  empty and nobody shares a memory (`BeforeForks`); and over the terminal and all the
  buffers together no two lines are the same call's (`AllOnce`), which a print, a flush
  and a lost buffer keep (`OnceWritten`, `OnceFlushed`, `OnceDropped`).
* **ServersKeepTheirBounds**, **ServersWatchEveryConnection** and **ServersNeverBlock**:
  `TypeOK`, `EveryConnectionIsWatched` and `NobodyBlocksTheServer` of all eight echo
  servers, with any number of clients, requests, workers and places in the tables. `Inv`
  has `SockInv`, what the sockets guarantee whoever uses them (no client twice in the
  backlog, none there and accepted, no descriptor given twice), and one conjunct for the
  server that runs. What accept, a refusal, an echo, a close, a kill and the end of the
  server do to the sockets is proved once (the lemmas `...Effect`); each server's step is
  then one of these and a change of its own table, and each client's step leaves every
  table alone (`ReadyStays`: what was readable stays so, because only the server reads).
  What each conjunct adds to the property:
  - poll and select, which walk a table while they change it: the entries up to
    `nclients` are distinct and are the open connections, also after the last has been
    moved into the place of the one removed. For select, that what `rset` still holds for
    the entries not yet passed is readable: `rem_client` moves an entry from
    behind the walk's position to it, and that entry has not been served. And that an
    accepted descriptor fits into the set: the lowest free one is
    taken, there are fewer than `FD_SETSIZE - 4` in use, so it is below `FD_SETSIZE`
    (`FreeFdFits`, a count).
  - epoll: `nclients` is the number of descriptors in the kernel's set, so the loop ends
    when nobody is left in it (`NobodyIsLeft`).
  - the loop: every open descriptor has a handle or is at its end, which is what
    `ah_close` leaves open.
  - TCP: `NobodySleepsOverWork`, which is inductive with the types: the worker that takes
    a connection is one less awake and leaves one less in the queue.
  - libuv: a handle is one connection's (`handle` is injective on what is not freed). With its
    pool a request may be answered to another client, so nothing bounds one client's
    requests or replies; all of them together are bounded by the clients that wait
    (`FewRequests`), because each step moves one request from one place to the next.

So every safety property of MCUSynch, MCUQueue, MCThreadPool, MCSemQueue,
MCParAdder, MCCyclicBarrier and MCEchoServers holds for every instance, and those of
MCMemEcho but for one, `ResultsAreRight`. Four theorems state no property of a run, because a stronger or a
higher one is checked there: `SchedulerIsSound`, `ReadyQueueStaysSound`,
`CounterCountsThreads`, `BarrierIsTyped`.

Only model-checked: liveness (`ReadyRuns`, `EveryRequestIsAnswered`, `ToldServerEnds` and
the rest), which needs fairness and ENABLED; and `ResultsAreRight` of the small programs:
each of them is right for a reason of its own and, but for the sizes of the adders and of
the race, has no constant to vary, so TLC sees nearly all there is.

On induction. The library's induction theorems take the hypothesis as an operator, which
the provers cannot instantiate. Where a proof needs induction (over the length of a
walk, over the sizes of a set), it is stated with a set instead of a predicate: a set of
numbers that has 0, and with each number the next, has them all. That follows from the
well-foundedness of `<` on the naturals and is the lemma `SetInduction` of
`UPrograms_proofs`, `Adders_proofs` and `Ipc_proofs`. The same fact gives the lowest free
descriptor of the echo servers and the next number of a task (`Smallest`).

## 6. What the checks found

* `ut_run` promises to resume "only when all user threads have exited" and asserts it;
  when the remaining threads are blocked it resumes and the assertion fails
  (MCUSynchRun).
* `queue_init` of `aula-06-04/queues/queue.c` calls the POSIX `sem_init` with the
  arguments of the library's: a get on an empty queue removes and frees the list's
  sentinel (MCSemQueueEmpty).
* The server over poll does not clear the `revents` of a slot it gives to a new client,
  and reads from that client before it has sent anything, which blocks everybody until
  it does (MCPollServer). Every request is still answered while clients keep
  sending: `EveryRequestIsAnswered` holds.
* The server over libuv with a pool keeps the address of a handle in each request;
  when the client leaves the handle is freed, and the response goes to free memory
  or to the client that got the address (MCUvPoolServer). That client takes it for the
  answer to its own request and goes on: with two requests or more per client it has a
  second one under way while the first is in the pool. That is why `OneUnderWay`
  leaves this server out.
* `map_file` "Maps an existent or new file" and documents its size as that "of shared memory
  if we are creating a file", but truncates an existing file to it: with `maptest f 2` at
  its phase "read", `genints 1 f` cuts the file in half under the mapping, and `maptest`
  dies by SIGBUS. `RegionsHold` states who may be killed so; that it happens is the
  action `BusError`, which the run takes.
* Observed and not against any statement of the repository: with its output in a file
  `tfork` prints its first line twice; a client of the Unix-socket server killed between
  request and response kills the server by SIGPIPE
  (`ProcessDies`); `ah_close` never closes the descriptor, so each client of the loop
  server leaves one open (`EveryConnectionIsWatched` says exactly which).

## 7. Not modelled

* In every part: `malloc` that fails, the wording of output, clocks, and the readers of
  `/proc`. The clean-up of a program that ends is modelled where others can see it.
* User threads: `ctxswitch_test.c` of the lectures, which switches between two stacks by
  hand. `UMachine` has no preemption and no signals, like the library.
* Small programs: `sleeper.c`, `usewrite.c`, `usemem.c` and `showmem.c`, one process each
  that sleeps, writes, or touches memory and shows how much of it the system gave;
  the system call in assembly, the examples of git, make, linking and of a libuv loop
  that reads lines. `aula-05-27/tp/tp_adder.c` does not compile: it calls functions
  with arguments that neither the pool nor the latch of its directory takes.
* Channels: a process that opens a channel before its creator has initialised it, and a
  server that is started again over a channel in use (the hazard at `memchan.c:25` is
  the one that no property covers); a process killed inside a critical section, which
  leaves the mutex locked.
* Sockets: descriptors that run out (of `LoopServer`, which never closes them, only
  which descriptors stay open is modelled), a backlog that is full, messages read
  in parts, libuv's buffers.

## 8. Plan

What is left, in this order.

1. `MemChannel` with its creation in steps: `mc_open` between `ftruncate` and the
   initialisation of the mutex, and a server that is started again.
2. Descriptors that run out, for the loop server first: accept fails, and the listen
   socket stays ready.
