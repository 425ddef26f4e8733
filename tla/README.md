# Verification of qing

qing is a C++11 library for game servers: sockets over IOCP, epoll or kqueue
(`include/qing/net`, `src/net`), and utilities, of which a timer engine and a
lock-free queue carry state between threads (`include/qing/util`, `src/util`).
This directory holds TLA+ models of its core, the TLC configurations that check
them and proofs that TLAPS checks.

    tlc -workers 2 -config MCTimerApp.cfg MCTimer      # a run
    tlapm TimerEngineProofs.tla                        # a proof

`PROJECT.json` lists the components, runs, mutants, findings, hazards and
theorems, and maps every definition to the source lines it models.

## 1. The system

| component | state | operations | used by |
|---|---|---|---|
| `TimerThread`, timers | two maps of timers, a recursive mutex for each, `_cur_timer_id` | `Register`, `RegisterByMilSec`, `UnRegister`, `Update` | any thread; `Update` only by `TcpClient::run` |
| `TimerThread`, local time | `time_zone_sec_` | `Init`, `IfTriggerLocalTimer` | an application that polls |
| `ReaderWriterQueue` | a ring of blocks, `frontBlock`, `tailBlock`, `largestBlockSize` | `enqueue`, `try_enqueue`, `try_dequeue`, `pop`, `peek`, `size_approx` | one producer, one consumer |
| `atomicops` | the memory that two threads share | relaxed loads and stores, `fence`, `compiler_fence` | `ReaderWriterQueue` |
| `TcpClient` | `_bIsRun`, a socket and its status for each connect | `connect`, `run`, `stop` | application threads, timer callbacks |
| `Poller` | the pool of sockets, the array of events, the kernel's registrations | `poll`, `add`, `modify`, `remove` | the polling thread and the handlers it runs |
| `TcpListener`, `TcpSocket` | the descriptor, the handlers, overlapped I/O | `listen`, `accept`, `onRead`, `write`, `read`, `close` | `Poller`, the application |
| `Base64` | none | `encode64`, `decode64` | applications |
| `Buffer`, `Util`, `Address`, `Logger`, `QTimer` | none, or none that is shared | conversions, system calls, output | all |

How they interact: `TcpClient::run` alternates `Update` and `RunPoll`, so timer
callbacks and socket handlers run in one thread, *inside* those calls, and may
call back into everything; other threads register and cancel timers and connect.
`TcpListener::accept` makes a `TcpSocket` and adds it to the `Poller`, which
calls it when its descriptor has an event. `CSockDataMgr`, `TCPConnection`,
`MessageWorker` and the acceptor are used but not in the repository; the
network part is in the middle of a refactoring and refers to some members that
are not declared.

What is hard in it, and what correctness means there:

* the timer engine: a registration takes whichever map is free while `Update`
  walks the other; callbacks register and cancel, themselves included; two
  mutexes. A timer is in one map, is not lost, does not run early, late for
  ever, or after its cancellation, and nobody waits in a circle;
* the queue: no locks at all; elements leave in order, once, from slots that
  are theirs, whatever the interleaving, the failure of `malloc` included, and
  whatever a weakly ordered machine makes of the loads between two fences;
* the run loop: callbacks run under a lock of the timer engine, and there they
  register, cancel, connect and stop; the loop must come back to its flag;
* local time: integers of different widths and signs; once a day, on time;
* connect: three copies of one status, retries, a poller that closes the
  socket meanwhile; what is returned, told and stored agree, and it ends;
* the reactor: events fetched together and handled one by one while handlers
  close sockets and descriptors are given out again; one owner for each
  descriptor, one call of each close handler;
* Base64: an index that moves four times in a turn and is tested three times;
  the text is the one of RFC 3548, and decoding gives the input back.

`PROJECT.json` lists these hazards at their lines.

## 2. Modules

| module | what it is |
|---|---|
| `TimerEngine` | `TimerThread`: Register, UnRegister and Update, one step per access to shared state |
| `TimerService` | the abstract timer service: register, cancel, fire |
| `TimerRefinement` | the mapping of `TimerEngine` to `TimerService` |
| `TimerEngineProofs` | theorems about `TimerEngine` |
| `TimerServiceProofs` | the theorem that `TimerEngine` implements `TimerService`, and `NeverEarly` |
| `ReaderWriterQueue` | the queue, one step per access to a variable the other thread shares |
| `FifoQueue` | the abstract queue: a sequence |
| `QueueProofs` | theorems about `ReaderWriterQueue`: the ring, the slots, the asserts, the destructor |
| `QueueFifoProofs` | the theorem that `ReaderWriterQueue` implements `FifoQueue`, and what "empty", "full" and `size_approx` mean |
| `WeakMemory` | `atomicops.h`: what relaxed accesses and fences guarantee, as operators on a memory |
| `WeakQueue` | the queue on `WeakMemory`, with every fence where the code has it |
| `LocalTimer` | `Init` and `IfTriggerLocalTimer` with their integer widths |
| `LocalTimerProofs` | theorems about `LocalTimer` |
| `TcpClient` | connect, the run loop, stop and the destructor |
| `TcpClientProofs` | theorems about `TcpClient` |
| `RunLoop` | `TcpClient` and `TimerEngine` composed: the loop with the real `Update` |
| `Reactor` | `Poller`, `TcpListener` and the life of `TcpSocket` on epoll and kqueue |
| `ReactorProofs` | theorems about `Reactor` |
| `Base64` | `encode64` and `decode64`, one step per turn of their loops |
| `Base64Proofs` | theorems about `Base64` |
| `MC*` | the instances that TLC checks |

Operators named like a definition with a suffix (`StoreIdPostIncrement` before
`StoreId`) are mutants: the definition with a plausible mistake, under which TLC
finds the property violated that `PROJECT.json` pairs it with.

**TimerEngine.** `timers[1]`, `timers[2]` and `lock[1]`, `lock[2]` are the maps
and mutexes, `call[t]` is the call a thread is in, `upd` where `Update` is. A
mutex records its owner and depth, so a callback re-locks the map it runs in.
`Register` is `LoadId`, `StoreId` (the two halves of `++_cur_timer_id`),
`TryLock` of map 2 or 1, `Insert` and `ReturnId`, which reads `_cur_timer_id`
again as the code does. `UnRegister` locks map 2, then 1, and marks. `Update` is
two passes; in each the Runner holds the lock and visits the keys in order:
`EraseMarked`, `SkipTimer`, `RunCallback` ... `CallbackReturns`. While a
callback runs the Runner may start calls. Times are in clock ticks and converted
to microseconds as the code does.

**ReaderWriterQueue.** A block is a record with `front`, `tail`, `next`, `size`
and its data; `live` is the set of slots that hold a constructed element. The
stores of a thread become visible in program order, as on x86. `CeilToPow2` is
given by its result, because the library's bit operations are recursive
operators, which a module with theorems may not reach; `MCQueue` has
`ceilToPow2` as the code computes it, and TLC checks that the two agree. The
destructor's walk (`RingLength`) ends when it is back at `frontBlock_`.
`FifoQueue` is used until it is destroyed (`gone`) and keeps every element until
then.

**WeakMemory, WeakQueue.** The same queue where that is not so. Each location
keeps all messages ever stored to it; a thread has a *view*, the index of the
oldest message of each location that it may still read. A relaxed load picks any
readable message and collects the view that its writer had released; an acquire
fence makes the collected view the thread's own; a release fence attaches the
thread's view to its later stores. This is the C++11 meaning of
`atomic_thread_fence` with relaxed accesses, without load buffering (a load that
returns a store still to come). Accesses to elements and to what a block's
constructor writes are not atomic: one that does not know the other thread's last
write is put into `races`. A step takes the loads up to the next store together.
That loses no behaviour, since a message that was readable at the first load stays
readable. `compiler_fence` does nothing here. The Visual C++ branches of
`atomicops.h` use stronger barriers, so what holds here holds there. On such a
machine "empty" and "full" may be old news, so `EmptyIsReal`, `FullIsReal` and
`SizeIsBetween` are not claimed.

**RunLoop.** `Engine == INSTANCE TimerEngine` and `Client == INSTANCE TcpClient`
share the thread that runs the loop: its step into `Update` is `TestRun` of the
one and `BeginUpdate` of the other, and it makes calls only where it runs user
code, in a timer's callback and in a handler of RunPoll. A connect from a
callback keeps the lock of the callback's map while it tries, and while
`onConnect` runs. The `onConnect` of another thread does not call the timers: an
`UnRegister` there could be overtaken like any other one, and the connect with it.

**LocalTimer.** `W` stands for 2^32; `time_zone_sec_` and the sum with the
`int last_trigger_time` wrap modulo `W`, `local_sec` and `diff_count` modulo
`W * W`. The clock starts at `Since`, at least twelve hours after the epoch, as
every real one: before that the sum of a western zone would not wrap around.

**TcpClient.** Both forms of `connect` have the same body and are one set of
actions. A thread's calls may be nested, because `onConnect` is user code and may
connect and stop: it begins with `OnConnect` and ends with `OnConnectReturns`.
RunPoll is external: it may close any registered socket, the one that a connect
is still trying included, and it returns. From then on `socket_ptr->socket()` is
-1: `::connect` fails, and `sock_connect` marks whatever object
`GetSocketInstance(-1)` finds (`Instances`): any closed socket, the caller's own
among them, or one that no connect made. A socket that RunPoll has closed may
therefore be marked "unconnected" by a call that has nothing to do with it, and
`ConnectTells` claims the status only of sockets that are open. The plain `bool _bIsRun` is
read once in each iteration: `Update` and `RunPoll` lock mutexes and call
functions the compiler cannot see, so the load is not hoisted.

**Reactor.** `reg` is what the kernel watches for a descriptor and the pointer it
hands back; closing a descriptor ends its registration. epoll's masks are
one-shot. `backend` is chosen at the start and stays. `accept` takes descriptor 0
for a failure and leaves it open; `lost` keeps such descriptors. `listen` may be
called at any time, also again, after a failure or a success: it overwrites
`_socket` and the old descriptor is lost, though the kernel may still watch it
and report it to the listener. A wait writes only as many entries of the array as
it reports, the ones of earlier waits stay behind them. A handler that runs may
close, modify and remove any socket before it returns; `_closeHandler` runs
nested inside `close`. `RegistAcceptor` is external and taken to add the listener.

**Base64.** Bytes and characters are numbers, shifts products and quotients,
masks remainders; `alphabet64`, `table64vals` and `np` are the code's. `decode64`
is given what `encode64` returned, cut off anywhere, also where the padding
begins. Texts that no encoder made are left out: `decode64` takes any character
for one of the alphabet and no document says what it should return.

## 3. Runs

| run | shows | bounds |
|---|---|---|
| `timer_app` | one application thread registers, both threads cancel: `OneHome`, `NoTimerLost`, `SynchronousCancel`, `NeverEarly`, `ImplementsService` | 2 timers, 3 intervals (0, 1 and 1.5 s), 3 clock values, 2 cancellations |
| `timer_callback` | callbacks register and cancel, two other threads cancel: `NoWaitCycle`, `IteratorStaysValid`, `NoRunAfterUnRegister`, `ImplementsService` | 3 threads, 2 timers, 2 cancellations |
| `run_loop` | under fairness: `ImplementsClient` (the loop with the real `Update` is the one of `TcpClient`, liveness included), `DueTimerRuns`, `CallbackCallsReturn`, `StopFreesCallers` | 2 threads, 2 timers, 2 cancellations, 1 connect of the Runner with 1 attempt |
| `queue_fifo` | linearizability (`ImplementsFifo`), the code's own assertions (`AssertsHold`), `SlotsAreOwned`, `EmptyIsReal`, `FullIsReal`, `SizeIsBetween`, `NoLeak` | blocks of 2, 4 and 8 slots, 7 elements, 1 size_approx |
| `queue_weak` | `NoDataRace`, `AssertsHold`, `ImplementsFifo` on a weakly ordered machine | blocks of 2 and 4 slots, 5 elements, 1 size_approx by the producer |
| `queue_weak_size` | violation of `NoDataRace` when the consumer calls size_approx | the same |
| `local_timer_east` | `OncePerPeriod`, `OnSchedule`, `DueIsReported` | 3 days of 48 ticks, 6 zones |
| `local_timer_west` | violation of `OncePerPeriod` | 3 zones |
| `client` | `ConnectTells`, `ConnectReturns`, `StopEndsRun` | 2 threads, 2 connects, also nested, the code's 10 attempts |
| `reactor` | `DescriptorsOwned`, `RegisteredIsOwner`, `CloseOnce`, `QuietOnError` for epoll and kqueue | 3 descriptors, 0 among them, 3 objects, 2 events in a wait, `listen` until 1 descriptor is lost |
| `reactor_signal` | violation of `QuietOnError` with epoll | 3 descriptors, 4 objects |
| `base64` | `EncodesReference`, `RoundTrip` | every input of up to 4 of 7 edge bytes, every byte, every cut of the text |

Why the bounds are enough for the interesting cases: two timers suffice for one
that runs and one that is registered, cancelled or erased around it, and for the
two maps to differ; three values of the clock for a periodic timer to run twice.
Two cancellations let another thread hold a mutex while a callback waits for it.
Two connects are enough for one to mark the other's socket and for one inside the
other's `onConnect`.
Blocks of 2, 4 and 8 slots let the producer fill the first block, move on to a
free one, find none, allocate twice and wrap around in the first two; on the weak
machine two blocks are enough to fill, link, move to and reuse a block, and the
histories of messages would make more of them costly. `size_approx` changes
nothing, so that one call of it, at any time, meets every case. The number of
attempts to connect matters to `client`, not to whether `Update` returns, so that
`run_loop` has one; nor does a connect of another thread, which shares nothing with
the timers, so that in `run_loop` only the Runner connects (`Dialers`). Four bytes are one group and the beginning of the next; the
seven edge bytes have each bit that a shift moves set and clear. Three days cover
the same day, the next one and a missed one. Three descriptors let one be closed
and given out again while another one is in use, or one be lost by `listen` and
still be reported; three objects are the listener and two sockets; two events in a wait let the
first one's handler affect the second. `PROJECT.json` has a mutant for every
property, so none holds for want of cases.

Deadlock is checked in the timer runs of one engine. It is not where the program may stop: a
destroyed queue or client, the end of `LocalTimer`'s clock, a server whose
descriptors are all unregistered.

**Fairness.** All *weak*. `client`: a connect that has started goes on, because
`::connect` returns; the loop goes on, because `Update` and `RunPoll` return. For
`Update` this is shown by `run_loop`, whose `ImplementsClient` is the fair
specification of `TcpClient`; for RunPoll it is an assumption about code outside
the repository. `run_loop`: each thread is scheduled while it can take a step of
its call or of the loop, and time passes. Nobody has to call anything, the
number of calls is bounded, and no mutex is promised to be given in turn:
`std::recursive_mutex` is not fair. An `UnRegister` of another thread can
therefore be overtaken by `Update` for as long as the loop runs, and
`StopFreesCallers` promises its return only once the client is stopped.

**Findings.** *West of Greenwich the daily job runs on every poll.* `Init`
accepts zones from -12 on and stores their seconds in a `uint32_t`; `local_sec`
is 64 bits wide and keeps the extra 2^32, `last_trigger_time + time_zone_sec()`
wraps around, so `diff_count` is about 2^32 / `timer_period`. In the run's trace
the second sum wraps to 0 one tick after the first job, and the job is due again.
*An interrupted `epoll_wait` runs old handlers.* `poll` keeps its result in a
`uint32_t` and tests it with `< 0`: the branch for EINTR and for errors is never
taken, and the loop runs over the events of an earlier wait and beyond the
array. kqueue's version compares with -1 and is right.
*`size_approx` is not safe for the consumer on a weakly ordered machine*, though
its comment says so (`readerwriterqueue.h:330`). The link to a new block (line 420)
is stored before the fence that releases the block (line 428). The dequeuing
functions follow it only after they have seen the new `tailBlock`; `size_approx`
follows it at once, into a block whose `size`, `front` and `tail` it may not see
yet. A release fence before line 420 would do. On x86 there is nothing to see.

Observed without a promise that it breaks: `_cur_timer_id` is not protected, so
two threads that register at once may get one number and lose a timer; a failed
`connect` leaves its socket registered; `onConnect` may be told -1 when RunPoll
has closed the socket meanwhile; `TcpListener::listen` on IOCP returns true when
`AcceptEx` fails (-1 is true); the comments on `frontBlock` and `tailBlock` in
`readerwriterqueue.h` (lines 547, 550) are swapped; epoll's one-shot masks let a
socket have one event unless the application calls `modify`.

## 4. Proofs

TLAPS proves the following for every value of the constants: any set of threads,
timers, intervals, sizes, descriptors, and whatever bound. The assumptions on
the constants are the named ones of the modules, which TLC evaluates on every run;
a theorem that needs more says so as a hypothesis. None of the invariants is
inductive as it stands, and what has to be added is most of what each proof says
about the code; TLC checked these additions on small instances before they were
proved.

**Timers.** `TimerEngineProofs`: `TypeCorrect` (`[]TypeOK`) and `DeadlockFree`
(`[]NoWaitCycle`) and `WalkIsSafe` (`[]IteratorStaysValid`), for any number of
registering threads. `IInv` adds `ItInv`
(while `Update` is in a pass, its iterator stands on a timer or at the end) and
`LockInv`, which says for each mutex who holds it and how deeply, counted from
where the Runner and the calls are. From `LockInv`, a thread that waits for a
mutex holds nothing, unless it is the Runner in a callback (`UnRegister` gives
map 2 back before it locks map 1), so whatever the Runner waits for is given up
by a thread that does not wait, and no two wait for each other.

The others have the hypothesis `SingleRegistrar`: one thread registers, as an
unprotected `++` requires; cancelling stays free:
`InOneMap` (`OneHome`), `TimersAreKept`
(`NoTimerLost`), `CancelIsFinal` (`NoRunAfterUnRegister`) and
`CancelIsSynchronous` (`SynchronousCancel`). `OwnInv` adds that a number not yet
inserted is in no map (`FreshInv`), that a cancelled number is marked wherever it
is (`MarkInv`), that an `UnRegister` past map 2 has a number that was returned and
is not in map 2 (`FindInv`), and that a run-once timer whose callback runs is
recorded as having run (`SpentInv`). `FreshInv` is what needs the single
registrar; `MarkInv` together with the order of erasing and re-arming
after a callback is why a cancelled timer never runs. Lemmas about `Following`,
the next key of a map, rest on the well-ordering of the naturals.

`TimerServiceProofs`: `EngineImplementsService` (`ImplementsService`, the
refinement of `TimerService`): the initial states map to initial states, and each
action is a step of the service or leaves its four variables alone. `Insert`
is the service's registration, `MarkFound` its cancellation, `RunCallback` and
`CallbackReturns` the firing; that a cancelled timer is not fired and that
a fired run-once timer does not come back is `OwnInv` before and after the step.
`CallbacksAreNotEarly` (`NeverEarly`): `EarlyInv` says that a timer in a map still
counts its whole interval, from a start that is not before the moment it is
counted from, except while its own callback runs; the conversion of ticks to
microseconds rounds down, for any clock frequency.

**The queue.** `QueueProofs`: `TypeCorrect` (`[]TypeOK`), `SlotsHaveOneOwner`
(`[]SlotsAreOwned`), `AssertsNeverFail` (`[]AssertsHold`) and `DestructorFreesAll`
(`[]NoLeak`), for every `maxSize` and any number of blocks and elements. `IInv`
says:

* `\E pos : RingAt(pos)`: the linked blocks are one ring; `pos` counts them from
  the front block on. The blocks behind the front one up to the tail block hold
  elements and those further on are empty (`Filled`); the producer is in the tail
  block or in the one behind it, and where it constructs there is room
  (`ProducerAt`). `pos` is quantified, since a step that moves the front block
  (`MoveFront`) counts all blocks anew and one that links a block (`Link`) makes
  room for it: lemmas `RingRotates` and `RingGrows`;
* `ConsumerAt`: a consumer that leaves the front block does so because the tail
  block is ahead, so that the block which it found empty stays empty. This is
  the argument of the comment at `readerwriterqueue.h:169-173`, that tailBlock is
  loaded before the front block's tail;
* `LiveInv`: an element lives in exactly the slots between front and tail, but for
  the one the producer has constructed and not published and the one the
  consumer has destroyed and not released.

The destructor's walk is a recursive function, `Ring`. Its values are given by
an explicit formula in `pos` (`RingDefined`), and a least number at which the
two differed would have a predecessor at which they do not (`RingVisitsAll`); so
the walk is back at the front block after all blocks and not before (`RoundIsWhole`).
`PowerAssumption` says of `2^k` the two facts about `ceilToPow2` that the
provers cannot find, exponentiation being unknown to them; it is a fact of
arithmetic and TLC evaluates it for the runs' sizes.

`QueueFifoProofs`: `QueueIsFifo` (`ImplementsFifo`, the refinement of `FifoQueue`),
`FalseMeansEmpty` (`EmptyIsReal`), `FalseMeansFull` (`FullIsReal`) and `SizeIsApprox`
(`SizeIsBetween`). The abstract queue is `Contents`, the concatenation of what the
blocks hold from the front block to the tail block, so each action has to be followed
through that concatenation:

* *concatenation.* `FlattenSeq` is a fold. `Cat(it, n)` names its value, and
  `CatSteps` lets it be computed one sequence at a time: a function that lists the
  partial sums exists (`SumsExist`) and the fold's value is the last of them
  (`CatIsSum`), both by induction up to a number with a *set* of numbers in the
  place of a property (`UpTo`), which the provers can instantiate. From it: an
  element appended to the last sequence is appended to the whole (`CatLast`), the
  head of the first is the head of the whole (`CatHead`), an empty first sequence
  may be dropped (`CatDrop`);
* *circular buffers.* What a store of the tail, of the front or of a slot does to the
  elements between front and tail, wrapped around or not (`ElemsAppend`, `ElemsTail`,
  `ElemsWrite`);
* *the path.* `Path(r, n)` says that `r` follows the links from the front block to the
  tail block; there is one (`PathExists`, from `pos`), and `Contents` reads along it
  (`ContentsOfPath`);
* *`DataInv`*, the strengthening that TLC checked first: what was constructed and is
  not yet published is element `sent + 1`; a block that is about to become the tail
  block holds that element and no other; what the consumer has moved out is still
  what its slot says; a peek that went on to the next block left none behind.

Then the linearization points are where one expects them: the enqueue is the store
of `tail` in the tail block, or of `tailBlock` when the element is in another one;
`try_dequeue` and `pop` are the store of `front`; `peek` is the read of the element;
every other step leaves `Contents` alone, the one that moves the front block (`CatDrop`)
and the one that links a block (it is behind the path) included. `SeenInv` carries
`EmptyIsReal` and `FullIsReal`: a consumer that saw elements at its call, with the
front block as the tail block, still finds them when it looks, since only it
removes any; a full tail block holds `size - 1` elements, and no block is smaller
than the first one, which has more than `maxSize` slots.

`size_approx` takes many steps, and the other thread moves between them, so
`SizeInv` speaks of a call that is half done: its sum so far plus what is still to
come lies between the two numbers of elements (`Between`). What is to come (`ToCome`)
is read off a function `v` on the blocks, with `v[b]` what block `b` holds plus `v`
of the next block, and nothing behind the last one (`Adds`); a step of the other
thread is followed by giving the changed `v`:

* *the producer walks* (`ProducerWalks`) while the consumer takes elements. `v`
  falls by one at the block that an element was taken from and at every block before
  it (`BetweenTaken`), which needs an order of the ring from the first block of the
  walk on (`WalkOrder`); no block is linked meanwhile, and the consumer's move of the
  front block does not move the walk's end;
* *the consumer walks* (`ConsumerWalks`) while blocks gain elements (`BetweenAdded`)
  or one is linked behind the tail block, before or behind the walk (`BetweenLinked`).
  The upper bound is the count plus `Pending`, the element of a new block that is
  published before `tailBlock` is;
* `WholeRing`: once around the ring there are `Count + Pending` elements, so a call
  that begins is between the bounds; a walk that is back at its first block has
  nothing to come, and its sum is what it returns.

**Local time.** `LocalTimerProofs`: `TypeCorrect` in every zone and however the
clock is set; `RunsOncePerPeriod` (`OncePerPeriod`), `RunsOnSchedule` (`OnSchedule`)
and `DueJobIsReported` (`[]DueIsReported`) with the hypotheses `AtOrEast` (all
zones are at Greenwich or east of it; west of it the first of them is false) and
`Forward` (the clock is not set back). `EastInv`: the unsigned seconds of the zone are the
true ones and the last trigger is not in the future. `diff_count`, computed in two
widths, is then the difference of two period numbers (`DiffIsPeriods`).

**The client.** `TcpClientProofs`: `TypeCorrect` and `ConnectIsTruthful`
(`[]ConnectTells`), for any number of threads and of connects, nested in any way,
and whatever object the look-up of -1 finds. `ClientInv` adds: the socket of a
connect that has not returned has the connection, and as long as it is open the
status, that the call's own status stands for (`PendingOf`; a call that has failed
at least once has left its open socket "unconnected", which is what `GiveUp`
returns on); `onConnect` was called once for each connect that came that far, and
for no other (`ToldInv`). An attempt that marks another object finds only closed
ones, of whose status nothing is claimed but that "connected" means a connection.

**The reactor.** `ReactorProofs`: `TypeCorrect`, `DescriptorsHaveOneOwner`
(`[]DescriptorsOwned`), `EventsReachTheOwner` (`[]RegisteredIsOwner`) and
`ClosedOnce` (`[]CloseOnce`), for any descriptors, both kernels and any nesting of
handlers, and however often `listen` is called. They are inductive together, with
the shapes of events, handlers and registrations (`Shape`): a registration that
waits for something names an object, and a lost descriptor is still open, so the
kernel gives it to nobody else. Entries of the pool for closed sockets may be
stale, which is harmless because a descriptor that is not open is not registered
(`FreshUnregistered`) and `add` overwrites the entry. `QuietAfterError`
(`[]QuietOnError`) has the hypothesis that no signal interrupts `epoll_wait`, without
which it is false.

**Base64.** `Base64Proofs`: `EncodeFollowsRFC` (`[]EncodesReference`) and
`DecodeInverts` (`[]RoundTrip`), for inputs of every length and every cut of the text.
The induction over the input is the one over the turns of the loops, so it is a
matter of an invariant, `CodecInv`: after `g` turns `encode64` has read `3 * g` bytes
and written the first `4 * g` characters of the reference; after `h` turns `decode64`
has written the first `3 * h` bytes of the input, or the text is used up and what is
written is what it holds. A turn of `encode64` writes the next four characters because
the shifts and masks cut the string of bits where the reference does (`ByteBits`,
`SextetsOf`, `GroupIsRef`); a turn of `decode64` puts the pieces together again
(`PiecesJoin`) after `table64` has undone `alphabet64` (`TableInverts`), and the pad
stops it behind the last byte of the input, not before (`TurnDecodes`).

**Only model-checked.** Liveness is outside the prover's reach, and with it
`DueTimerRuns`, `CallbackCallsReturn`, `StopFreesCallers`, `ConnectReturns`,
`StopEndsRun` and the composition `ImplementsClient`, which has fairness.
The queue on the weak memory (`NoDataRace`, its `AssertsHold` and `ImplementsFifo`),
whose views and messages would need an invariant of their own.

## 5. What is not modelled

* The IOCP version of `Poller`, `TcpListener` and of the completions of
  `TcpSocket`. It does not compile: `TcpSocket` uses `_ioData` and `_handle`, which
  it does not declare, `write` returns nothing from a `bool` function, `accept`
  clears `sizeof(IO_DATA)` bytes of a descriptor on the stack. There is no
  behaviour that a model could be faithful to.
* `Buffer`: a `std::string` with append and fetch, one library call each, which
  nothing in the repository uses. `Timer::createTask` and `QTimer`: a sleep and a
  call, without state.
* Function timing, `Logger`, `Address`, `Util`: output, system calls and the layout of
  addresses. `TcpServer` is a header; `CSockDataMgr`, `TCPConnection`,
  `MessageWorker` and the acceptor are not in the repository.
* Load buffering in `WeakMemory`; `Update` called by two threads or from a
  callback, which no caller in the repository does; the destruction of a client
  whose `run` is still going on.
* `GetSocketInstance` returning a null pointer, which `connect` and `sock_connect` do not
  test: the function is not in the repository, and it is taken to return an object.
  `sock_connect` is one step, so that a descriptor closed and given out again between
  `socket()` and `::connect` is not modelled.
* `Poller::modify` of a listener whose `listen` failed: the application modifies what
  was added to the poller.
* Zones of half an hour, which `Init` cuts down to the hour, and a wall clock that
  is set back: `LocalTimer` takes the zone that Init worked out and time that
  moves forward.

## 6. Plan

1. done: timers, their abstract service, invariants and first theorems; the
   queue, its refinement and its fences; local time; the client; the client
   composed with the timer engine; the reactor; Base64.
2. done, theorems: the refinement of the timer service and `NeverEarly`; the
   invariants of the reactor, of local time and of the client; the queue's slots,
   asserts and destructor; the refinement of `FifoQueue`, `EmptyIsReal`,
   `FullIsReal` and `SizeIsBetween`; the two properties of Base64.
3. next, theorems: `NoDataRace` and `AssertsHold` on the weak memory, from an
   invariant of its views and messages.
