# Models of linux_network

TLA+ models of the servers and timers of this repository, checked with TLC on small
instances, and proofs of their central guarantees for every instance, checked with TLAPS.
The code is the reference: a definition says what the lines that `PROJECT.json` ("map")
names for it do.

## The system

| Component | State | Operations | Interacts with |
|---|---|---|---|
| `ThreadPool` (thread_pool_server.h/.cpp) | `tasks_`, `tasks_mutex_`, `condition_`, `stop_`, the workers' position | constructor, worker loop, `enqueue`, destructor | its callers and its tasks |
| `ThreadPoolTcpServer`, `TcpConnection` (same files, thread_pool_main.cpp) | phase of `main`, listening socket, `running_`, `s_terminate`, a socket per connection | `run`, `acceptConnection`, `stop`, signal handlers, `processRequest` | the pool (calls), clients such as linux_client (sockets) |
| `time_wheel` (linux_server/time_wheel.h) | `slots`, `cur_slot`, `rotation` and `time_slot` of each timer | `add_timer`, `del_timer`, `tick`, destructor | callbacks, which call back into it |
| `Sort_timer_list` (cpt_11_2_1.h) | `_head`, `_tail`, `_next`, `_prev`, `_expire` | `add_timer`, `adjust_timer`, `del_timer`, `tick`, destructor | callbacks |
| timer server (cpt_11_2_2.h) | `users`, `timer_list`, `timeout`, `stop_server`, the events of one `epoll_wait` | event loop, `sig_handler`, `timer_handler`, `cb_func` | the timer list, epoll, alarm, clients |
| `processpool`: constructor, parent (cpt_15_3.h) | pipes and children, `m_stop`, signal pipe | constructor, `run`, `run_parent`, `setup_sig_pipe` | children (fork, pipes, signals) |
| `processpool`: child, `cgi_conn` (cpt_15_3.h) | `users`, `m_stop`, epoll, signal pipe, `m_read_idx` | `run_child`, `init`, `process` | parent (notices), siblings (one listening socket), CGI programs, clients |
| echo loops `lt`, `et` (io_epoll.h), demonstrations of epoll (demo.h) | the sources registered with epoll, the buffer of stdout | the loop and its events | epoll, clients, the user and the terminal |
| second wheel (cpt_11_4_1.h), `CEpollReactor`, stress.cpp, io_pipe.h, io_shared_memory.h, sock_timer.h | see "Not modelled" | | |

What is hard in it: threads racing with a destructor; callbacks that change the list a loop
is walking; edge-triggered readiness, where what was not read is not reported again;
descriptors that are closed and reused inside one batch of events; signals that merge;
pipes whose ends fork copies into every later child; the arithmetic of the wheel. The list,
line by line, is "hazards" in `PROJECT.json`.

## The modules

**ThreadPool** has an action for each interval between two operations on shared state. A
worker goes through `start`, `test` (holding the mutex, about to evaluate the predicate),
`block` (predicate false, not yet waiting), `waiting`, `take`, `running`, `exited`; a
caller of `enqueue` through `testing`, `emplacing`, `notifying`; the destructor through
`notifying` and `joining`. `DestructorStop` does not take the mutex, since the code does
not. Condition variables may wake for no reason (`SpuriousWakeup`). `offered`, `accepted`
and `started` are histories.

**ThreadPoolServer** instantiates ThreadPool with connections as tasks and the main thread
as the only caller. `fd` is the life of each descriptor, `hand` the `SocketHandle` the main
thread holds between `accept` and the queue. Each system call that may fail has an action
for it (`ListenFails`, `AcceptThrows`, `ConstructThrows`, `SendFails`, `SendBrokenPipe`). `OneShot`
clients are linux_client: one request, one answer, close. The others send up to `MaxSend`
units and close or reset when they like. A `send` to a reset connection fails with ECONNRESET the first
time, and then raises SIGPIPE; the model leaves open which of the two it is.

**TimeWheel** describes the wheel with a slot and a rotation per timer and the set of timers
that `tick` has still to visit; `age` and `due` are histories against which the arithmetic
is judged. **TimeWheelList** has the same operations on `slots`, `next` and `prev`, and
implements it: `live` is the set of allocated timers, `pending` the timers from `tmp` on.
A timer added for *k* ticks fires in the call of `tick` after *k* calls have ended.

**SortedTimers** is the timer list as a sequence sorted by expiry, with `now` for `time()`.
**SortTimerList** has its pointers and implements it. In both, `tick` is a step per
callback, between which callbacks add, adjust and delete timers other than the one that
fires. The clock may be set back (`SetBack`), as that of `time()` may: a timer adjusted to an earlier
expiry then stays where it is, and the list is out of order. No timer is lost by it and no pointer
left dangling, so the refinement holds on any clock; `Ordered`, `InOrderOfCalls`, `TickIsExact` and `DueTimerFires`
are stated for a clock that was not set back (`~stepped`). A callback that adds a timer to expire
before the one it is called for makes `tick` lose it; the guard of `Add` excludes this, and
`cb_func`, the only callback of the repository, adds nothing.

**TimerServer** is the loop of cpt_11_2_2.h. A source (listening socket, signal pipe,
descriptor) is in `ready` from an arrival until the `epoll_wait` that reports it; `batch` is
what this call reported and is still to handle, in any order. The timer list is used through the
operators of SortedTimers (`List!Insert`, `List!Adjusted`, `List!Without`). Time is relative: `left` is the time to
each expiry, `alarm` the time to the next SIGALRM. Clients are numbered and connect in that order,
which loses nothing, for they are alike. A client may send, close, or reset its connection.

**ProcessPool** has the processes: `near` and `far` are the holders of the two ends of each
pipe (`m_pipefd[0]` and `m_pipefd[1]`), copied by `Fork` and closed by `ParentCloses`,
`ChildCloses` and `Exit`. **ProcessPoolChild** is one child in detail. It is modelled against the
notices that the code at cpt_15_3.h:249-270 sends, although the parent as built does not
reach that code (finding of `process_dispatch`).

**EpollLoops** has the ten loops around `epoll_wait` of io_epoll.h and demo.h in one next-state relation.
A loop is a record of what it watches (sockets, standard input, standard output) and of what it does with an event (`Loop`,
`Does`): whether its sources are edge-triggered, whether it reads all there is, registers the source
again, or ends its output with a newline. `ready` and `batch` are as in TimerServer; a level-triggered
source stays in `ready` when it is reported. `et` goes on with a descriptor that it has closed (`RecvOnClosed`).

`MC*.tla` hold timeouts and symmetry sets for TLC and nothing else.

## Runs

| Run | Instance | Question |
|---|---|---|
| `pool` | 2 workers, 2 callers, 3 tasks | hand-off, lost wake-ups and destruction in all interleavings; accepted tasks run, and the destructor returns unless it raced with a worker about to wait |
| `server` | 2 workers, a free client and a linux_client | ownership of descriptors; what was echoed when a worker closes a socket; the linux_client is answered and ends; the server implements the pool |
| `wheel` | 3 slots, SI = 2, 2 timers, timeouts up to 2 turns and a slot | every timer fires at its tick, none is passed over, and ticks come to their end |
| `wheel_list` | 2 slots, 4 timers | pointers of the wheel; implements TimeWheel |
| `list_sorted` | 3 timers, 2 delays, time to 4 | order (also among timers of one expiry), exactness and liveness of the sorted list, with a clock that may be set back |
| `list_pointers` | 4 timers, 2 delays, time to 4 | pointers of the list, with a clock that may be set back; implements SortedTimers |
| `timer` | 2 clients, 2 descriptors, TIMESLOT = 2, at most 2 unread units | no stale event, timers match descriptors, alarms never stop, a tick closes the silent clients and no others, an accepted one that falls silent is closed at last; SIGTERM ends the loop |
| `process` | 4 children | who holds which end of which pipe, what the end of a pipe says, SIGTERM ends a waiting child |
| `child` | 2 clients, 1 descriptor, a buffer of 2 units and requests of up to 3 | stale events, reused users, merged SIGCHLD; unless a client holds `process` for ever, prompt clients are served and SIGTERM is obeyed |
| `epoll` | ten loops, 3 clients, 2 descriptors, a buffer of stdout of 3 units | no input is left that nobody reads or reports, all clients are served, and each demonstration goes on or falls silent as its comment says |

No run has a type invariant among its properties: `TypeOK` is proved of every module that has one (below).

Why these bounds: two workers are enough for a wake-up that goes to the wrong one, and three
tasks for a queue that refills while both are busy. Two clients and two descriptors of the timer server
let one event of a batch close a descriptor and another accept it again, and give `tick` a second timer to leave alone;
a TIMESLOT of 2 separates an expiry from the alarm that finds it. In EpollLoops the third client finds
no descriptor left, so `accept` fails. In the child an event concerns its own descriptor only, so one
descriptor, which its clients have after each other, shows what reuse can do; a buffer of two units lets a request come in two parts, and its third
unit does not fit. Two programs are the least whose SIGCHLDs can merge. On the lists, four timers give a
head, a tail and two neighbours in between. Three slots and timeouts of up to two turns give rotations of
0, 1 and 2 and a wrap-around; an SI of 2 gives timeouts that are no multiple of it. Four children have
older and younger siblings on both sides.
Bounds in the models: `MaxSend` (input of a client; of all together in EpollLoops), `MaxUnread` (input
of all clients that the timer server has not read; they may send for ever), `MaxTime`
(clock), `MaxConns` (arrivals at the process pool), the finite sets of tasks and clients, in TimerServer one SIGTERM, and there `Connect`, which lets no more
clients be connected or queued at a time than there are descriptors.

Deadlock is checked wherever the system should go on. The runs of the pool and of the servers switch
it off, since the program may end; a lost wake-up (below) stops the pool for good as well.

### Disagreements between the code and its text

Two are runs that TLC ends with a counterexample:

| Run | What happens | What the text says |
|---|---|---|
| `server_shutdown` | `stop_` and `notify_all` without the mutex miss a worker about to wait; `join` never returns | "graceful shutdown", thread_pool_server.cpp:146 |
| `process_dispatch` | the loop of the parent ends before the code that handles its events | cpt_15_3.h:252 |

Others can be read off the models, at the action named, without a run of their own:

| Model | What happens | What the text says |
|---|---|---|
| ThreadPoolServer `RecvWouldBlock` | on EAGAIN the worker spins and keeps the connection | thread_pool_server.cpp:73-74 |
| ThreadPoolServer `Send` | a short or failing `send` drops the rest of the reply | README.md:31-32 |
| TimeWheel `late` | a timer added by a callback for a whole number of turns is a turn late | time_wheel.h:59 |
| TimerServer `Accept` | one `accept` per edge leaves a connection waiting | main.cpp:75 |
| TimerServer `Receive` | one `recv` per edge leaves input unread | main.cpp:69 |
| ProcessPool `ParentWaits` | SIGTERM ends neither parent nor children, for the reason of `process_dispatch` | cpt_15_3.h:315 |
| ProcessPoolChild `RecvWouldBlock` | `process` spins on EAGAIN, and its child handles nothing else | cpt_15_3.h:190 |
| ProcessPoolChild `Accept` | one notice is read per edge | main.cpp:69 |
| ProcessPoolChild `RecvZero` | `recv` into a full buffer returns 0, taken for the client's close | cpt_15_3.h:367 |

The passing runs state what remains true beside them. `QuietJoinReturns`, for instance, says
when the destructor does return. `QueuedClientAnswered` and `ClientTerminates` need fewer clients that
may keep silent than there are workers (`FewSilent`), since a silent one spins a worker for ever. `EveryClientClosed`
is about clients that fall silent: one that sends within every three slots keeps its descriptor, as
`adjust_timer` means it to. `EveryClientServed` and `TermStops` of a child hold unless `process` spins
for ever (`SpinsForEver`), which a client with an unfinished line makes it do; the former of clients that send their
request (`Prompt`). Without its condition each
is violated, as TLC shows: `FewSilent` with one worker, `SpinsForEver` in `EveryClientServed` with a second
descriptor, whose client is made to wait by the one that spins, the others in the instances of the runs. With the
condition `EveryClientServed` holds with two descriptors too (a buffer of one unit, 900 000 states).

### Fairness

- ThreadPool, ThreadPoolServer: weak fairness of each thread's steps, strong fairness where it
  takes the mutex (a thread that asks again and again is not passed over for ever). The main
  thread's step is strongly fair as a whole, because `enqueue` takes the mutex. Tasks return in ThreadPool;
  in ThreadPoolServer that is not assumed but follows from what clients do. No fairness for
  signals, spurious wake-ups, failing calls, or clients other than linux_client.
- EpollLoops: the loop runs, and the terminal shows what is written to it. Nobody is forced to type or send.
- TimeWheel, SortedTimers: `tick` is called again and again and callbacks return. Nobody is
  forced to add or delete.
- TimerServer: the loop runs, time passes. ProcessPool: each process runs when it can.
- ProcessPoolChild: the child runs. Clients need not do anything; what a property asks of them is its
  premise (`Prompt`, `SpinsForEver`), and so in TimerServer and ThreadPoolServer.

## Proofs

All are for any value of the constants that satisfies the module's assumption.

**ThreadPoolProofs** (`PoolAssumption`). One inductive invariant, `PoolInv`: the mutex is held
by exactly the threads in a critical section (`LockInv`); a worker in `block` saw an empty queue
(`BlockInv`); a worker leaves a stopped, empty pool into which no caller can still emplace
(`ExitInv`). The properties alone are not inductive: that no notification is lost needs `BlockInv`,
which needs `LockInv`; that the destructor drains the pool needs `ExitInv`, since `stop_` is set
without the mutex. From it follow `TypeTheorem`, `FifoTheorem`, `FrontTheorem`,
`StrandedTheorem`, `DrainTheorem`, `ExitTheorem`. `OnceInv`, on top of it, follows single tasks: one is with its
caller until it is accepted, and accepted once. From that `OnceTheorem`: no two workers hold the same task,
and none is started twice.
`QuietTheorem` is the safety part of `QuietJoinReturns`: once `join` has no sleeper it never gets one
again, and some thread has a step to do until all workers have exited. What is left for TLC is that these steps come to an end.

**ThreadPoolServerProofs**. `ServerImplementsPool` shows that each step of the server is a step
of the pool or leaves it alone; it needs `HandInv`, which ties `hand` and the phase of `main` to
the pool's caller. So the theorems of the pool hold in the server, which `PoolTheorem` states. With `PoolInv` and an
invariant on who holds which descriptor, `OneOwnerTheorem` and `ExitTheorem` follow. They count
the entries of the queue that are a given connection, with the facts on finite sets of the library.
`EchoTheorem` (`EchoedBeforeClose`) says what the unchecked `send` of the code keeps in spite of itself. `send` empties the
buffer of what it drops too, so an empty buffer at the close shows nothing; the invariant compares what was
received with what `send` accepted (`EchoInv`): they differ by the buffer, unless a full window was echoed or the
client reset the connection. That linux_client does not reset one that is served needs the other half of the invariant: it
leaves with its answer read, or after the server has (`GoneStays`: the server does not come back). `LossTheorem` states both at
every moment. `DataInv` bounds the buffers by what clients send, for `TypeTheorem`, which takes the types of the pool
from ThreadPoolProofs through the refinement.

**TimeWheelProofs** (`WheelAssumption`). `CountdownInv`: what a timer has waited and what its slot
and its rotation still make it wait add up to the ticks it was added for; a timer of the current slot that `tick` has
passed waits a whole turn. `FiresTheorem` reads both halves of `FiresWhenDue` off it: what fires is due, and what is due fires.

For the lists (`ListsAssumption`: finitely many timers) the invariant is `ListsInv`: there is a place for each timer in
the list of its slot, such that `next` leads from one place to the following and `prev` back (`Linked`). From a
timer the pointers lead to those of its slot at the same place or behind (`FromMeans`). This is the
one fact about a recursive function, and it needs no induction rule: were the function wrong at some
length, there would be a least such length (`LeastNumber`), and it is right at the length before. `Inserted` and `Removed` give the places after `add_timer` and after a timer was taken out; then one lemma per action shows that it keeps
`ListsInv` and is a step of the sets. `LinkedTheorem`, `ListsImplementWheel`. The theorems of the wheel hold for its lists with that.

**SortedTimersProofs** (`TimersAssumption`). Lemmas first, on any sequence without repetition: what `Insert`, `Without`
and `Adjusted` keep of its elements, of their order, and of each being there once. The places that these
operators CHOOSE exist because a set of numbers that is not empty has a least element (`LeastNumber`). The
invariant is `SortedInv`: `Ordered` needs `TimeInv`, by which `cur` is never ahead of the clock and the
timer of a running callback is due, unless the clock was set back; without the former, `TickIsExact` fails.
`OrderTheorem`, `TickTheorem`, `TypeTheorem`. `InsertDivides` and `AdjustedDivides` say where `add_timer` and `adjust_timer`
put a timer: behind the last of those that do not expire later. There is one such place in an ordered list
(`DividesOnce`), hence `CallsTheorem` (`InOrderOfCalls`: timers of one expiry are in the order of the calls), and
`AdjustedIsReinserted`: the search of `adjust_timer` from the middle of the list ends where one from the head would.

For the pointers (`ListAssumption` too: finitely many timers, none of them nullptr) the invariant is `ListsInv`: there is
a sequence without repetition whose timers `next` and `prev` link, in its order, from `head` to `tail` (`IsList`),
and `tmp` is at the head while a callback runs. `tail` is claimed of a list that is not empty only, since `tick` leaves it
dangling in an empty one. The model follows the pointers by two functions that are recursive in a number, `Chain` and
`Place`; `ChainExists` and `PlaceExists` show that their equations have a solution, `ChainMeans` and `PlaceMeans` what
it is on linked timers, by the least number at which it would be wrong. `LinksSpliced` and `LinksCut` say
what an insertion and an unlinking do to the pointers, `BehindStep` that the walk stops where `InsertBehind` has the
timer. Then one lemma per action, one case per branch of the code: the new pointers link the sequence that SortedTimers computes.
`LinkedTheorem`, `ListsImplementSorted`; with the latter the theorems of the sorted list hold of its pointers.

**TimerServerProofs** (`TimerServerAssumption`) takes the lemmas on the list from SortedTimersProofs, and proves the parts of
`ServerInv` together, since the properties are not inductive alone. `NeverBlocks` needs that no client is at two
descriptors, or accepted and in the backlog too (`ConnInv`): else the event of one would take the input of another.
`TickClosesIdle` needs that the time left to a client's timer and the time it was silent add up to the limit
(`IdleInv`), so that none is closed that spoke in time; and that the list is sorted by the time left (`OrderInv`), since `tick`
stops at the first timer that is not due: else a silent client could be behind it. `TickScheduled` needs that the alarm is set, or its
signal sent, or seen, and only one of these (`AlarmInv`). `SignalTheorem`: what is in the signal pipe is reported or
being handled, so that neither SIGALRM nor SIGTERM is forgotten. `BlockTheorem`, `OneTimerTheorem`,
`TickTheorem`, `IdleTheorem`, `TypeTheorem`.

**ProcessPoolProofs** (`PoolAssumption`). `ForkInv` says how far the constructor has come.
`NearInv` says that the holders of child *c*'s near end are the parent and the children after *c* that
exist, and *c* until it closes its copy. `OrphanTheorem` follows. `PrivateTheorem` uses `ForkInv` alone.
`AnnouncedTheorem` (`TermInv`): a SIGTERM that a child has not read is reported by its epoll. With it `TermTheorem` proves a
liveness property, `TermStopsChild`. ENABLED is beyond the prover, so its hypothesis is the weak
fairness of `ChildStops` with the guard of that action in place of ENABLED. They are the same: the
guard is all the action asks for, and it always changes the child's state. Since `TermInv` holds, the guard does from the
signal until the child ends, which takes one step of that child.

**ProcessPoolChildProofs** (`ChildAssumption`). `ChildInv` has `NoStaleEvent`, `BufferIsOwn` and `ZombiesAnnounced` as
parts, with `ConnInv` (no client is at two descriptors, or at one and in the backlog), `PhaseInv` (the
descriptor that is read has left the batch) and `OutsideInv` (a client that was not accepted yet has
read nothing: all it sent is unread). `BufferIsOwn` of a reused descriptor is the meeting of
the last with `m_read_idx` set back by `init`. `EventTheorem`, `BufferTheorem`, `ZombieTheorem`, `TypeTheorem`.

**EpollLoopsProofs** (`LoopsAssumption`). `LoopsInv` adds to `InputIsAnnounced` that a level-triggered descriptor with input
is ready also while it is in a batch (`LevelInv`), and that the loops on standard input and output have no sockets (`SocketInv`). The
assumption that descriptors and clients are not named like one of the other sources comes from
the proof, which failed at the initial state without it. `InputTheorem`, `TypeTheorem`.

Only model-checked are the other liveness properties, among them `LoopsAsDescribed`. They take more than one step, and
their proofs would go by induction over what is left to do (the queue, the timers before this one, the input of a client), with
ENABLED of actions that other threads disable in between: both are beyond the prover. Every safety invariant, action property and refinement that a run checks and that holds is a theorem. The theorems
on pointers are stated through an instance (`Lists!WellLinked`), in the module of the abstract component, whose lemmas they use.

## Not modelled

What is left has no behaviour of its own that a model could add:

- cpt_11_4_1.h: time_wheel.h once more, with `add_timer` lacking its `return`, in no include.
- epoll_reactor.h/.cc: in no target. A handler cannot be linked, since the constructor of `CEventHandler` and its
  two handlers are declared and not defined; `GetIds` is not virtual and sets nothing, so that `RegisterIO`
  registers nothing; `DispatchIOs` is private and nobody calls it. No behaviour of it exists to be translated.
- stress_test: does not compile.
- io_pipe.h, io_shared_memory.h, sock_timer.h: straight-line sequences of system calls, without state between them.
- main.cpp, common headers and build files: they choose which of the parts runs.

In the modelled parts: `epoll_wait` failing other than by EINTR, `accept` failing in the timer server (it then
writes `users[-1]`, which is undefined), a full signal pipe, and what the peers see of connections that a program
has inherited. They are listed under "hazards" with the reason.

## Plan

The modelling is done, in this order: ThreadPool; ThreadPoolServer composed on it; the two timers,
abstract and with pointers; TimerServer composed on the sorted list; the process pool and its child; the loops on epoll.

So is the proving, of all that is not liveness, and of the liveness that takes one step. Where a module changes, its invariant above is the place to start: a
new action needs one more lemma, and a new field one more part.
