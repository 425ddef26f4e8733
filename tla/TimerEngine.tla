---------------------------- MODULE TimerEngine ----------------------------
(***************************************************************************)
(* qing::TimerThread (include/qing/util/time_engine.h and                  *)
(* src/util/time_engine.cpp).  Two maps of timers, each with its own       *)
(* recursive mutex.  The run loop of TcpClient calls Update, which walks   *)
(* the first map and then the second one and runs the due callbacks while  *)
(* it holds the lock of the map it walks; any thread, and any callback,    *)
(* may Register or UnRegister meanwhile.                                   *)
(*                                                                         *)
(* One step is one access to state that two threads share: a lock or a     *)
(* try_lock, the work done under a lock together with its release, a load  *)
(* or a store of the unsynchronised _cur_timer_id.                         *)
(***************************************************************************)
EXTENDS Integers, FiniteSets

CONSTANTS
  Threads,     \* the threads that use one TimerThread
  Runner,      \* the one that runs TcpClient::run, the only caller of Update
  Registrars,  \* the threads that call Register or RegisterByMilSec
  Secs,        \* the intervals passed to Register, in seconds
  MilSecs,     \* the intervals passed to RegisterByMilSec, in milliseconds
  ClkTck,      \* sysconf(_SC_CLK_TCK), clock ticks in a second
  MaxId,       \* bound: how many timers are registered
  MaxClock,    \* bound: how far the clock runs, in ticks
  MaxUnReg,    \* bound: how many UnRegister calls are made
  NoThread,    \* owner of a free mutex
  Absent       \* a key that a map does not hold

(* ETimer: need_delete is del, _startclock is start, _leftsecs is left.    *)
Timer == [interval : Nat, left : Nat, start : Nat, once : BOOLEAN, del : BOOLEAN]

ASSUME ConstantsAssumption ==
  /\ Runner \in Threads
  /\ Registrars \subseteq Threads
  /\ Secs \subseteq Nat
  /\ MilSecs \subseteq Nat
  /\ ClkTck \in Nat \ {0}
  /\ MaxId \in Nat
  /\ MaxClock \in Nat
  /\ MaxUnReg \in Nat
  /\ Absent \notin Timer
  /\ NoThread \notin Threads

VARIABLES
  curId,      \* _cur_timer_id
  timers,     \* timers[1] is _timers1, timers[2] is _timers2
  lock,       \* lock[m] is the recursive mutex of timers[m]
  clock,      \* what get_clock() returns
  call,       \* call[t]: the Register or UnRegister call thread t is in
  upd,        \* the Runner's position in Update
  handles,    \* the ids that Register has returned
  cancelled,  \* history: the ids that an UnRegister has marked
  ranOnce,    \* history: run_once timers whose callback has started
  unregs,     \* how many UnRegister calls have been made, for the bound
  base        \* history: when a timer was registered or last started to run

vars == <<curId, timers, lock, clock, call, upd, handles, cancelled, ranOnce, unregs, base>>

Maps == 1..2
Ids == 1..MaxId

(* The keys of a map, in the order in which std::map iterates; past the    *)
(* last one the iterator is end().                                         *)
Keys(m) == {i \in Ids : timers[m][i] # Absent}
EndIt == MaxId + 1
Following(m, i) ==
  IF \E k \in Keys(m) : k > i
  THEN CHOOSE k \in Keys(m) : k > i /\ \A j \in Keys(m) : j > i => k <= j
  ELSE EndIt

(* Times are in microseconds, but for the clock, which counts ticks.       *)
UsInSec == 1000000
UsInMilSec == 1000

(* get_interval_macro_secs: clock ticks to microseconds.                   *)
Elapsed(end, start) == ((end - start) * UsInSec) \div ClkTck

-----------------------------------------------------------------------------
(* std::recursive_mutex.                                                   *)

Free == [owner |-> NoThread, depth |-> 0]
CanLockNotRecursive(t, m) == lock[m].owner = NoThread
CanLock(t, m) == lock[m].owner \in {NoThread, t}
Acquire(t, m) == lock' = [lock EXCEPT ![m] = [owner |-> t, depth |-> @.depth + 1]]
Release(m) ==
  lock' = [lock EXCEPT ![m] = IF @.depth = 1 THEN Free
                              ELSE [owner |-> @.owner, depth |-> @.depth - 1]]

-----------------------------------------------------------------------------
(* A thread is in at most one call, working on the map call[t].map; the    *)
(* Runner calls from a callback, or between two Updates.                   *)

InCall(pc, id, once, us) ==
  [pc |-> pc, map |-> 2, id |-> id, once |-> once, interval |-> us, start |-> 0]
Idle == InCall("idle", 0, FALSE, 0)

MayCall(t) ==
  /\ call[t].pc = "idle"
  /\ t = Runner => upd.at \in {"out", "callback"}

(* `++_cur_timer_id` is a load and a store with nothing to order them      *)
(* against another thread's.  MaxId bounds the number of registrations.    *)
LoadId(t, once, us) ==
  /\ MayCall(t)
  /\ t \in Registrars
  /\ curId < MaxId
  /\ call' = [call EXCEPT ![t] = InCall("store", curId, once, us)]
  /\ UNCHANGED <<curId, timers, lock, clock, upd, handles, cancelled, ranOnce, unregs, base>>

Register(t, once, secs) == LoadId(t, once, secs * UsInSec)
RegisterByMilSec(t, once, milsecs) == LoadId(t, once, milsecs * UsInMilSec)

(* The store, then get_clock() and open_sec or open_milsec.                *)
StoreIdPostIncrement(t) ==
  /\ call[t].pc = "store"
  /\ curId' = call[t].id + 1
  /\ call' = [call EXCEPT ![t].pc = "try", ![t].start = clock]
  /\ UNCHANGED <<timers, lock, clock, upd, handles, cancelled, ranOnce, unregs, base>>
StoreId(t) ==
  /\ call[t].pc = "store"
  /\ LET id == call[t].id + 1 IN
     /\ curId' = id
     /\ call' = [call EXCEPT ![t].pc = "try", ![t].id = id, ![t].start = clock]
     /\ base' = [base EXCEPT ![id] = clock]
  /\ UNCHANGED <<timers, lock, clock, upd, handles, cancelled, ranOnce, unregs>>

(* try_lock of the second map, then of the first, then over again.         *)
TryLock(t) ==
  LET m == call[t].map IN
  /\ call[t].pc = "try"
  /\ IF CanLock(t, m)
     THEN /\ Acquire(t, m)
          /\ call' = [call EXCEPT ![t].pc = "insert"]
     ELSE /\ UNCHANGED lock
          /\ call' = [call EXCEPT ![t].map = 3 - m]
  /\ UNCHANGED <<curId, timers, clock, upd, handles, cancelled, ranOnce, unregs, base>>

NewTimer(c) == [interval |-> c.interval, left |-> c.interval, start |-> c.start,
                once |-> c.once, del |-> FALSE]

(* std::map::insert leaves a key alone that the map already holds.         *)
InsertNoBreak(t) ==
  LET m == call[t].map IN
  /\ call[t].pc = "insert"
  /\ timers' = [timers EXCEPT ![m][call[t].id] =
                  IF @ = Absent THEN NewTimer(call[t]) ELSE @]
  /\ Release(m)
  /\ call' = [call EXCEPT ![t].pc = IF m = 2 THEN "try" ELSE "return", ![t].map = 1]
  /\ UNCHANGED <<curId, clock, upd, handles, cancelled, ranOnce, unregs, base>>
Insert(t) ==
  LET m == call[t].map IN
  /\ call[t].pc = "insert"
  /\ timers' = [timers EXCEPT ![m][call[t].id] =
                  IF @ = Absent THEN NewTimer(call[t]) ELSE @]
  /\ Release(m)
  /\ call' = [call EXCEPT ![t].pc = "return"]
  /\ UNCHANGED <<curId, clock, upd, handles, cancelled, ranOnce, unregs, base>>

(* `return _cur_timer_id` reads the counter again.                         *)
ReturnId(t) ==
  /\ call[t].pc = "return"
  /\ handles' = handles \cup {curId}
  /\ call' = [call EXCEPT ![t] = Idle]
  /\ UNCHANGED <<curId, timers, lock, clock, upd, cancelled, ranOnce, unregs, base>>

-----------------------------------------------------------------------------
(* Callers pass what Register returned, to them or to another thread.      *)
UnRegister(t, id) ==
  /\ MayCall(t)
  /\ id \in handles
  /\ unregs < MaxUnReg
  /\ unregs' = unregs + 1
  /\ call' = [call EXCEPT ![t] = InCall("lock", id, FALSE, 0)]
  /\ UNCHANGED <<curId, timers, lock, clock, upd, handles, cancelled, ranOnce, base>>

LockToFind(t) ==
  LET m == call[t].map IN
  /\ call[t].pc = "lock"
  /\ CanLock(t, m)
  /\ Acquire(t, m)
  /\ call' = [call EXCEPT ![t].pc = "find"]
  /\ UNCHANGED <<curId, timers, clock, upd, handles, cancelled, ranOnce, unregs, base>>

MarkFoundErases(t) ==
  LET m == call[t].map IN
  /\ call[t].pc = "find"
  /\ call[t].id \in Keys(m)
  /\ timers' = [timers EXCEPT ![m][call[t].id] = Absent]
  /\ cancelled' = cancelled \cup {call[t].id}
  /\ Release(m)
  /\ call' = [call EXCEPT ![t] = Idle]
  /\ UNCHANGED <<curId, clock, upd, handles, ranOnce, unregs, base>>
MarkFoundKeepsLock(t) ==
  LET m == call[t].map IN
  /\ call[t].pc = "find"
  /\ call[t].id \in Keys(m)
  /\ timers' = [timers EXCEPT ![m][call[t].id].del = TRUE]
  /\ cancelled' = cancelled \cup {call[t].id}
  /\ call' = [call EXCEPT ![t] = Idle]
  /\ UNCHANGED <<curId, lock, clock, upd, handles, ranOnce, unregs, base>>
MarkFound(t) ==
  LET m == call[t].map IN
  /\ call[t].pc = "find"
  /\ call[t].id \in Keys(m)
  /\ timers' = [timers EXCEPT ![m][call[t].id].del = TRUE]
  /\ cancelled' = cancelled \cup {call[t].id}
  /\ Release(m)
  /\ call' = [call EXCEPT ![t] = Idle]
  /\ UNCHANGED <<curId, clock, upd, handles, ranOnce, unregs, base>>

(* Not in the second map: on to the first one.  In neither: return.        *)
NotFoundKeepsLock(t) ==
  /\ call[t].pc = "find"
  /\ call[t].id \notin Keys(call[t].map)
  /\ IF call[t].map = 2
     THEN /\ UNCHANGED lock
          /\ call' = [call EXCEPT ![t].pc = "lock", ![t].map = 1]
     ELSE /\ lock' = [m \in Maps |-> Free]
          /\ call' = [call EXCEPT ![t] = Idle]
  /\ UNCHANGED <<curId, timers, clock, upd, handles, cancelled, ranOnce, unregs, base>>
NotFound(t) ==
  LET m == call[t].map IN
  /\ call[t].pc = "find"
  /\ call[t].id \notin Keys(m)
  /\ Release(m)
  /\ call' = IF m = 2 THEN [call EXCEPT ![t].pc = "lock", ![t].map = 1]
             ELSE [call EXCEPT ![t] = Idle]
  /\ UNCHANGED <<curId, timers, clock, upd, handles, cancelled, ranOnce, unregs, base>>

-----------------------------------------------------------------------------
(* Update.  A pass holds the lock of its map from its first timer to its   *)
(* last, callbacks included.                                               *)

BeginUpdate ==
  /\ upd.at = "out"
  /\ call[Runner].pc = "idle"
  /\ upd' = [at |-> "lock", pass |-> 1, it |-> 0]
  /\ UNCHANGED <<curId, timers, lock, clock, call, handles, cancelled, ranOnce, unregs, base>>

BeginPass ==
  /\ upd.at = "lock"
  /\ CanLock(Runner, upd.pass)
  /\ Acquire(Runner, upd.pass)
  /\ upd' = [upd EXCEPT !.at = "loop", !.it = Following(upd.pass, 0)]
  /\ UNCHANGED <<curId, timers, clock, call, handles, cancelled, ranOnce, unregs, base>>

Current == timers[upd.pass][upd.it]
Due(timer) == timer.left <= Elapsed(clock, timer.start)

InLoop == upd.at = "loop" /\ upd.it # EndIt

EraseMarked ==
  /\ InLoop
  /\ Current.del
  /\ timers' = [timers EXCEPT ![upd.pass][upd.it] = Absent]
  /\ upd' = [upd EXCEPT !.it = Following(upd.pass, upd.it)]
  /\ UNCHANGED <<curId, lock, clock, call, handles, cancelled, ranOnce, unregs, base>>

SkipTimer ==
  /\ InLoop
  /\ ~Current.del
  /\ ~Due(Current)
  /\ upd' = [upd EXCEPT !.it = Following(upd.pass, upd.it)]
  /\ UNCHANGED <<curId, timers, lock, clock, call, handles, cancelled, ranOnce, unregs, base>>

(* timer._fp() starts.  What it does with the timers is a StartCall of the *)
(* Runner.                                                                 *)
RunCallbackUnlocked ==
  /\ InLoop
  /\ ~Current.del
  /\ Due(Current)
  /\ upd' = [upd EXCEPT !.at = "callback"]
  /\ ranOnce' = IF Current.once THEN ranOnce \cup {upd.it} ELSE ranOnce
  /\ base' = [base EXCEPT ![upd.it] = clock]
  /\ lock' = [lock EXCEPT ![upd.pass] = Free]
  /\ UNCHANGED <<curId, timers, clock, call, handles, cancelled, unregs>>
RunCallback ==
  /\ InLoop
  /\ ~Current.del
  /\ Due(Current)
  /\ upd' = [upd EXCEPT !.at = "callback"]
  /\ ranOnce' = IF Current.once THEN ranOnce \cup {upd.it} ELSE ranOnce
  /\ base' = [base EXCEPT ![upd.it] = clock]
  /\ UNCHANGED <<curId, timers, lock, clock, call, handles, cancelled, unregs>>

(* The callback is over: rearm the timer, erase it if it runs once, go on  *)
(* to the next key the map holds by now.                                   *)
Rearmed(timer) == [timer EXCEPT !.left = timer.interval, !.start = clock]
AfterCallbackNotErased(timer) == Rearmed(timer)
AfterCallbackErased(timer) == Absent
AfterCallbackUnmarked(timer) ==
  IF timer.once THEN Absent ELSE [Rearmed(timer) EXCEPT !.del = FALSE]
AfterCallbackSameStart(timer) ==
  IF timer.once THEN Absent ELSE [timer EXCEPT !.left = timer.interval]
AfterCallback(timer) == IF timer.once THEN Absent ELSE Rearmed(timer)

CallbackReturns ==
  /\ upd.at = "callback"
  /\ call[Runner].pc = "idle"
  /\ timers' = [timers EXCEPT ![upd.pass][upd.it] = AfterCallback(Current)]
  /\ upd' = [upd EXCEPT !.at = "loop", !.it = Following(upd.pass, upd.it)]
  /\ UNCHANGED <<curId, lock, clock, call, handles, cancelled, ranOnce, unregs, base>>

EndPassSkipsSecond ==
  /\ upd.at = "loop"
  /\ upd.it = EndIt
  /\ Release(upd.pass)
  /\ upd' = [at |-> "out", pass |-> 1, it |-> 0]
  /\ UNCHANGED <<curId, timers, clock, call, handles, cancelled, ranOnce, unregs, base>>
EndPass ==
  /\ upd.at = "loop"
  /\ upd.it = EndIt
  /\ Release(upd.pass)
  /\ upd' = IF upd.pass = 1 THEN [at |-> "lock", pass |-> 2, it |-> 0]
            ELSE [at |-> "out", pass |-> 1, it |-> 0]
  /\ UNCHANGED <<curId, timers, clock, call, handles, cancelled, ranOnce, unregs, base>>

(* Time passes whatever the threads do, up to the bound MaxClock.          *)
Tick ==
  /\ clock < MaxClock
  /\ clock' = clock + 1
  /\ UNCHANGED <<curId, timers, lock, call, upd, handles, cancelled, ranOnce, unregs, base>>

-----------------------------------------------------------------------------
Init ==
  /\ curId = 0
  /\ timers = [m \in Maps |-> [i \in Ids |-> Absent]]
  /\ lock = [m \in Maps |-> Free]
  /\ clock = 0
  /\ call = [t \in Threads |-> Idle]
  /\ upd = [at |-> "out", pass |-> 1, it |-> 0]
  /\ handles = {}
  /\ cancelled = {}
  /\ ranOnce = {}
  /\ unregs = 0
  /\ base = [i \in Ids |-> 0]

StartCall(t) ==
  \/ \E once \in BOOLEAN, n \in Secs : Register(t, once, n)
  \/ \E once \in BOOLEAN, n \in MilSecs : RegisterByMilSec(t, once, n)
  \/ \E id \in Ids : UnRegister(t, id)

(* The rest of a call, once it has started.                                *)
CallStep(t) ==
  \/ StoreId(t)
  \/ TryLock(t)
  \/ Insert(t)
  \/ ReturnId(t)
  \/ LockToFind(t)
  \/ MarkFound(t)
  \/ NotFound(t)

Update ==
  \/ BeginUpdate
  \/ BeginPass
  \/ EraseMarked
  \/ SkipTimer
  \/ RunCallback
  \/ CallbackReturns
  \/ EndPass

Next ==
  \/ \E t \in Threads : StartCall(t) \/ CallStep(t)
  \/ Update
  \/ Tick

Spec == Init /\ [][Next]_vars

-----------------------------------------------------------------------------
(* Type correctness.  A call past `++_cur_timer_id` carries a positive id, *)
(* which is what Register(ETimer&) uses as its key.                        *)
TypeOK ==
  /\ curId \in 0..MaxId
  /\ timers \in [Maps -> [Ids -> Timer \cup {Absent}]]
  /\ lock \in [Maps -> [owner : Threads \cup {NoThread}, depth : Nat]]
  /\ clock \in Nat
  /\ call \in [Threads -> [pc : {"idle", "store", "try", "insert", "return", "lock", "find"},
                           map : Maps, id : 0..MaxId, once : BOOLEAN,
                           interval : Nat, start : Nat]]
  /\ upd \in [at : {"out", "lock", "loop", "callback"}, pass : Maps, it : 0..EndIt]
  /\ handles \subseteq Ids
  /\ cancelled \subseteq Ids
  /\ ranOnce \subseteq Ids
  /\ unregs \in Nat
  /\ base \in [Ids -> Nat]
  /\ \A t \in Threads :
       /\ call[t].pc = "store" => call[t].id < MaxId
       /\ call[t].pc \in {"try", "insert", "return", "lock", "find"} => call[t].id \in Ids
       /\ call[t].pc \in {"try", "insert", "return"} => curId \in Ids

(* The mutex that thread t is blocked on in UnRegister or Update.          *)
BlockedOn(t) ==
  {m \in Maps : /\ \/ call[t].pc = "lock" /\ call[t].map = m
                   \/ t = Runner /\ upd.at = "lock" /\ upd.pass = m
                /\ ~CanLock(t, m)}

(* Update, the callbacks it runs under its lock and UnRegister never wait  *)
(* for one another in a circle: whoever owns the mutex that a thread is    *)
(* blocked on is not itself blocked on a mutex that the thread owns.  This *)
(* is why Register must not block, and why UnRegister lets the second      *)
(* mutex go before it asks for the first.                                  *)
NoWaitCycle ==
  \A s, t \in Threads : \A m \in BlockedOn(s), n \in BlockedOn(t) :
    ~(lock[m].owner = t /\ lock[n].owner = s)

(* Register puts a timer into one of the two maps, never into both, though *)
(* the two try_locks may each fail and succeed while Update walks on: in   *)
(* both it would run twice an interval and UnRegister would miss one copy. *)
OneHome == Keys(1) \cap Keys(2) = {}

(* A timer that Register has returned is never lost: it stays in a map     *)
(* until an UnRegister has marked it or, if run_once, it has run.          *)
NoTimerLost == handles \subseteq Keys(1) \cup Keys(2) \cup cancelled \cup ranOnce

(* Update holds an iterator, and while a callback runs a reference to its  *)
(* timer, which it re-arms or erases afterwards.  Whatever the callback    *)
(* and other threads register and unregister meanwhile, that timer's own   *)
(* number included, the node is still there and the map is still locked.   *)
IteratorStaysValid ==
  upd.at = "callback" \/ (upd.at = "loop" /\ upd.it # EndIt) =>
    upd.it \in Keys(upd.pass) /\ lock[upd.pass].owner = Runner

CallbackStarts == upd.at # "callback" /\ upd'.at = "callback"

(* Once UnRegister has marked a timer, whether from another thread or from *)
(* a callback, that timer's own included, its callback never starts again. *)
NoRunAfterUnRegister == [][CallbackStarts => upd.it \notin cancelled]_vars

(* UnRegister of another thread never returns while the timer's callback   *)
(* is running: after it, what the callback uses may be destroyed.          *)
SynchronousCancel ==
  [][\A t \in Threads \ {Runner} :
       call[t].pc = "find" /\ call'[t].pc = "idle" =>
         ~(upd.at = "callback" /\ upd.it = call[t].id)]_vars

(* A callback starts no sooner than its interval after the registration,   *)
(* and no sooner than its interval after its previous start.               *)
NeverEarly ==
  [][CallbackStarts => Current.interval <= Elapsed(clock, base[upd.it])]_vars
=============================================================================
