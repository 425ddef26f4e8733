------------------------- MODULE TimerEngineProofs -------------------------
(***************************************************************************)
(* Proofs about TimerEngine, for any threads, intervals and bounds.        *)
(***************************************************************************)
EXTENDS TimerEngine, TLAPS, WellFoundedInduction

-----------------------------------------------------------------------------
(* The iterator.                                                           *)

(* The order in which std::map iterates finds a next key if there is one.  *)
LEMMA LeastNatural ==
  ASSUME NEW S, S \subseteq Nat, S # {}
  PROVE  \E x \in S : \A y \in S : x <= y
<1>1. PICK x \in S : \A y \in S : ~(<<y, x>> \in OpToRel(<, Nat))
  BY NatLessThanWellFounded, WFMin, Zenon
<1>2. \A y \in S : ~(y < x)
  BY <1>1 DEF OpToRel
<1>3. \A y \in S : x <= y
  BY <1>2
<1> QED
  BY <1>3

(* `it++` reaches end() or a key the map holds.                            *)
LEMMA FollowingType ==
  ASSUME NEW m \in Maps, NEW i \in 0..EndIt
  PROVE  Following(m, i) \in Keys(m) \cup {EndIt}
<1> DEFINE S == {k \in Keys(m) : k > i}
<1>1. Keys(m) \subseteq Nat
  BY DEF Keys, Ids
<1>2. CASE S = {}
  BY <1>2 DEF Following
<1>3. CASE S # {}
  <2>1. PICK k \in S : \A j \in S : k <= j
    BY <1>1, <1>3, LeastNatural, Zenon
  <2>2. \E n \in Keys(m) : n > i /\ \A j \in Keys(m) : j > i => n <= j
    BY <2>1
  <2> QED
    BY <2>2, Zenon DEF Following
<1> QED
  BY <1>2, <1>3

(* It moves on.                                                            *)
LEMMA FollowingGreater ==
  ASSUME NEW m \in Maps, NEW i \in Ids
  PROVE  Following(m, i) # i
<1> DEFINE S == {k \in Keys(m) : k > i}
<1>1. Keys(m) \subseteq Nat /\ i \in Nat /\ i # EndIt
  BY ConstantsAssumption DEF Keys, Ids, EndIt
<1>2. CASE S = {}
  BY <1>1, <1>2 DEF Following
<1>3. CASE S # {}
  <2>1. PICK k \in S : \A j \in S : k <= j
    BY <1>1, <1>3, LeastNatural, Zenon
  <2>2. \E n \in Keys(m) : n > i /\ \A j \in Keys(m) : j > i => n <= j
    BY <2>1
  <2>3. Following(m, i) > i /\ Following(m, i) \in Nat
    BY <2>2, <1>1, Zenon DEF Following
  <2> QED
    BY <2>3, <1>1
<1> QED
  BY <1>2, <1>3

(* The loop iterator moves to a later key or to end(). *)
LEMMA FollowingRange ==
  ASSUME NEW m \in Maps, NEW i \in 0..EndIt
  PROVE  Following(m, i) \in 0..EndIt
<1>1. Following(m, i) \in Ids \cup {EndIt}
  BY FollowingType DEF Keys
<1> QED
  BY <1>1, ConstantsAssumption DEF Ids, EndIt

(* The keys of a map are timer numbers. *)
LEMMA KeysType == \A m \in Maps : Keys(m) \subseteq Ids
  BY DEF Keys

-----------------------------------------------------------------------------
(* The inductive invariant behind type correctness and the locks.          *)

(* While Update is at a timer, the map still holds it: nobody but Update   *)
(* erases.                                                                 *)
ItInv ==
  upd.at = "callback" \/ (upd.at = "loop" /\ upd.it # EndIt)
    => upd.it \in Keys(upd.pass)

(* How often thread t holds the lock of map m, told by where it stands.    *)
HoldCount(t, m) ==
  (IF call[t].pc \in {"insert", "find"} /\ call[t].map = m THEN 1 ELSE 0)
  + (IF t = Runner /\ upd.at \in {"loop", "callback"} /\ upd.pass = m THEN 1 ELSE 0)

LockInv ==
  /\ \A m \in Maps : (lock[m].owner = NoThread) = (lock[m].depth = 0)
  /\ \A m \in Maps, t \in Threads :
       HoldCount(t, m) = IF lock[m].owner = t THEN lock[m].depth ELSE 0
  /\ call[Runner].pc # "idle" => upd.at \in {"out", "callback"}

IInv == TypeOK /\ ItInv /\ LockInv

(* The inductive invariant holds at first. *)
LEMMA InitIInv == Init => IInv
<1> SUFFICES ASSUME Init PROVE IInv
  OBVIOUS
<1> USE ConstantsAssumption
<1>1. TypeOK
  BY DEF Init, TypeOK, Idle, InCall, Free, Maps, Ids, EndIt
<1>2. ItInv
  BY DEF Init, ItInv
<1>3. LockInv
  BY DEF Init, LockInv, HoldCount, Idle, InCall, Free, Maps
<1> QED
  BY <1>1, <1>2, <1>3 DEF IInv

(* Unlocking a mutex that is held.                                         *)
LEMMA ReleaseType ==
  ASSUME lock \in [Maps -> [owner : Threads \cup {NoThread}, depth : Nat]],
         NEW m \in Maps, lock[m].depth # 0, Release(m)
  PROVE  lock' \in [Maps -> [owner : Threads \cup {NoThread}, depth : Nat]]
<1>1. lock[m].depth \in Nat /\ lock[m].owner \in Threads \cup {NoThread}
  OBVIOUS
<1>2. [owner |-> lock[m].owner, depth |-> lock[m].depth - 1]
        \in [owner : Threads \cup {NoThread}, depth : Nat]
  BY <1>1
<1>3. Free \in [owner : Threads \cup {NoThread}, depth : Nat]
  BY DEF Free
<1> QED
  BY <1>2, <1>3 DEF Release

(* Facts about the iterator that the steps of Update share.                *)
LEMMA CurrentIsTimer ==
  ASSUME TypeOK, upd.it \in Keys(upd.pass)
  PROVE  Current \in Timer /\ upd.it \in Ids
  BY DEF TypeOK, Current, Keys, Maps

(* Every step keeps LockInv. *)
LEMMA LockStep ==
  ASSUME IInv, [Next]_vars
  PROVE  LockInv'
<1> USE ConstantsAssumption DEF IInv
<1>t. /\ call \in [Threads -> [pc : {"idle", "store", "try", "insert", "return", "lock", "find"},
                               map : Maps, id : 0..MaxId, once : BOOLEAN,
                               interval : Nat, start : Nat]]
      /\ lock \in [Maps -> [owner : Threads \cup {NoThread}, depth : Nat]]
      /\ upd \in [at : {"out", "lock", "loop", "callback"}, pass : Maps, it : 0..EndIt]
  BY DEF TypeOK
<1> HIDE DEF IInv
<1>l. LockInv
  BY DEF IInv
<1> USE <1>t, <1>l DEF Maps
<1>1. ASSUME NEW t \in Threads, StartCall(t) PROVE LockInv'
  <2>1. /\ MayCall(t)
        /\ \E pc \in {"store", "lock"} : \E id, once, us :
             call' = [call EXCEPT ![t] = InCall(pc, id, once, us)]
        /\ lock' = lock /\ upd' = upd
    BY <1>1, Zenon DEF StartCall, Register, RegisterByMilSec, LoadId, UnRegister
  <2> QED
    BY <2>1 DEF MayCall, LockInv, HoldCount, InCall
<1>2. ASSUME NEW t \in Threads, StoreId(t) PROVE LockInv'
  BY <1>2 DEF StoreId, LockInv, HoldCount
<1>3. ASSUME NEW t \in Threads, TryLock(t) PROVE LockInv'
  BY <1>3 DEF TryLock, CanLock, Acquire, LockInv, HoldCount
<1>4. ASSUME NEW t \in Threads, Insert(t) PROVE LockInv'
  BY <1>4 DEF Insert, Release, Free, LockInv, HoldCount
<1>5. ASSUME NEW t \in Threads, ReturnId(t) PROVE LockInv'
  BY <1>5 DEF ReturnId, Idle, InCall, LockInv, HoldCount
<1>6. ASSUME NEW t \in Threads, LockToFind(t) PROVE LockInv'
  BY <1>6 DEF LockToFind, CanLock, Acquire, LockInv, HoldCount
<1>7. ASSUME NEW t \in Threads, MarkFound(t) PROVE LockInv'
  <2>1. /\ call[t].pc = "find" /\ Release(call[t].map)
        /\ call' = [call EXCEPT ![t] = Idle] /\ upd' = upd
    BY <1>7 DEF MarkFound
  <2> QED
    BY <2>1, SMTT(30) DEF Release, Free, Idle, InCall, LockInv, HoldCount
<1>8. ASSUME NEW t \in Threads, NotFound(t) PROVE LockInv'
  BY <1>8 DEF NotFound, Release, Free, Idle, InCall, LockInv, HoldCount
<1>9. CASE BeginUpdate
  BY <1>9 DEF BeginUpdate, LockInv, HoldCount
<1>10. CASE BeginPass
  BY <1>10 DEF BeginPass, CanLock, Acquire, LockInv, HoldCount
<1>11. CASE EraseMarked \/ SkipTimer \/ RunCallback
  BY <1>11 DEF EraseMarked, SkipTimer, RunCallback, InLoop, LockInv, HoldCount
<1>12. CASE CallbackReturns
  BY <1>12 DEF CallbackReturns, LockInv, HoldCount
<1>13. CASE EndPass
  BY <1>13 DEF EndPass, Release, Free, LockInv, HoldCount
<1>14. CASE Tick
  BY <1>14 DEF Tick, LockInv, HoldCount
<1>15. CASE UNCHANGED vars
  BY <1>15 DEF vars, LockInv, HoldCount
<1> QED
  BY <1>1, <1>2, <1>3, <1>4, <1>5, <1>6, <1>7, <1>8, <1>9, <1>10, <1>11, <1>12,
     <1>13, <1>14, <1>15 DEF Next, CallStep, Update

(* Only Update erases, and only the timer it is at.                        *)
LEMMA ItStep ==
  ASSUME IInv, [Next]_vars
  PROVE  ItInv'
<1> USE ConstantsAssumption
<1>t. /\ timers \in [Maps -> [Ids -> Timer \cup {Absent}]]
      /\ upd \in [at : {"out", "lock", "loop", "callback"}, pass : Maps, it : 0..EndIt]
      /\ call \in [Threads -> [pc : {"idle", "store", "try", "insert", "return", "lock", "find"},
                               map : Maps, id : 0..MaxId, once : BOOLEAN,
                               interval : Nat, start : Nat]]
      /\ \A t \in Threads : call[t].pc \in {"insert", "find"} => call[t].id \in Ids
      /\ \A t \in Threads : call[t].pc = "insert" => NewTimer(call[t]) \in Timer
  BY DEF IInv, TypeOK, NewTimer, Timer
<1>i. ItInv
  BY DEF IInv
<1>f. \A i \in 0..EndIt : Following(upd.pass, i) \in Keys(upd.pass) \cup {EndIt}
  BY <1>t, FollowingType
<1>1. CASE UNCHANGED <<timers, upd>>
  BY <1>1, <1>i DEF ItInv, Keys
<1>2. ASSUME NEW t \in Threads, Insert(t) PROVE ItInv'
  <2>1. \A m \in Maps : Keys(m) \subseteq Keys(m)'
    BY <1>2, <1>t DEF Insert, Keys
  <2> QED
    BY <1>2, <1>i, <1>t, <2>1 DEF Insert, ItInv
<1>3. ASSUME NEW t \in Threads, MarkFound(t) PROVE ItInv'
  <2>1. \A m \in Maps : Keys(m) \subseteq Keys(m)'
    <3>1. timers[call[t].map][call[t].id] \in Timer
      BY <1>3, <1>t DEF MarkFound, Keys
    <3>2. [timers[call[t].map][call[t].id] EXCEPT !.del = TRUE] \in Timer
      BY <3>1 DEF Timer
    <3> QED
      BY <1>3, <1>t, <3>2 DEF MarkFound, Keys
  <2> QED
    BY <1>3, <1>i, <1>t, <2>1 DEF MarkFound, ItInv
<1>4. CASE BeginUpdate
  BY <1>4 DEF BeginUpdate, ItInv
<1>5. CASE BeginPass
  BY <1>5, <1>f, <1>t DEF BeginPass, ItInv, Keys, EndIt
<1>6. CASE EraseMarked
  <2>1. upd.it \in Keys(upd.pass)
    BY <1>6, <1>i DEF EraseMarked, InLoop, ItInv
  <2>2. \A i \in Keys(upd.pass) : i # upd.it => i \in Keys(upd.pass)'
    BY <1>6, <1>t DEF EraseMarked, Keys
  <2>3. Following(upd.pass, upd.it) # upd.it
    BY <2>1, FollowingGreater, KeysType, <1>t
  <2>4. upd'.pass = upd.pass /\ upd'.it = Following(upd.pass, upd.it)
    BY <1>6, <1>t DEF EraseMarked
  <2>5. Following(upd.pass, upd.it) \in Keys(upd.pass) \cup {EndIt}
    BY <2>1, <1>f, KeysType, <1>t
  <2>6. upd'.it # EndIt => upd'.it \in Keys(upd.pass)'
    BY <2>2, <2>3, <2>4, <2>5
  <2>7. upd'.at = "loop"
    BY <1>6, <1>t DEF EraseMarked, InLoop
  <2> QED
    BY <2>4, <2>6, <2>7 DEF ItInv, Keys
<1>7. CASE SkipTimer
  <2>1. upd.it \in 0..EndIt /\ upd'.pass = upd.pass /\ upd'.at = "loop"
        /\ upd'.it = Following(upd.pass, upd.it) /\ timers' = timers
    BY <1>7, <1>t DEF SkipTimer, InLoop
  <2>2. upd'.it \in Keys(upd.pass) \cup {EndIt}
    BY <2>1, <1>f
  <2> QED
    BY <2>1, <2>2 DEF ItInv, Keys
<1>8. CASE RunCallback
  BY <1>8, <1>i, <1>t DEF RunCallback, InLoop, ItInv, Keys
<1>9. CASE CallbackReturns
  <2>1. upd.it \in Keys(upd.pass)
    BY <1>9, <1>i DEF CallbackReturns, ItInv
  <2>2. \A i \in Keys(upd.pass) : i # upd.it => i \in Keys(upd.pass)'
    BY <1>9, <1>t DEF CallbackReturns, Keys
  <2>3. Following(upd.pass, upd.it) # upd.it
    BY <2>1, FollowingGreater, KeysType, <1>t
  <2>4. upd'.pass = upd.pass /\ upd'.it = Following(upd.pass, upd.it)
    BY <1>9, <1>t DEF CallbackReturns
  <2>5. Following(upd.pass, upd.it) \in Keys(upd.pass) \cup {EndIt}
    BY <2>1, <1>f, KeysType, <1>t
  <2>6. upd'.it # EndIt => upd'.it \in Keys(upd.pass)'
    BY <2>2, <2>3, <2>4, <2>5
  <2>7. upd'.at = "loop"
    BY <1>9, <1>t DEF CallbackReturns
  <2> QED
    BY <2>4, <2>6, <2>7 DEF ItInv, Keys
<1>10. CASE EndPass
  BY <1>10, <1>t DEF EndPass, ItInv
<1>11. ASSUME NEW t \in Threads, StartCall(t) PROVE UNCHANGED <<timers, upd>>
  BY <1>11, Zenon DEF StartCall, Register, RegisterByMilSec, LoadId, UnRegister
<1>12. ASSUME NEW t \in Threads,
              StoreId(t) \/ TryLock(t) \/ ReturnId(t) \/ LockToFind(t) \/ NotFound(t)
       PROVE  UNCHANGED <<timers, upd>>
  BY <1>12, Zenon DEF StoreId, TryLock, ReturnId, LockToFind, NotFound
<1>13. CASE Tick
  BY <1>1, <1>13 DEF Tick
<1>14. CASE UNCHANGED vars
  BY <1>1, <1>14 DEF vars
<1> QED
  BY <1>1, <1>2, <1>3, <1>4, <1>5, <1>6, <1>7, <1>8, <1>9, <1>10, <1>11, <1>12,
     <1>13, <1>14 DEF Next, CallStep, Update

(* The two unit conversions are natural numbers (their values stay hidden). *)
LEMMA Microseconds == UsInSec \in Nat /\ UsInMilSec \in Nat
  BY SMT DEF UsInSec, UsInMilSec

(* Every step keeps TypeOK. *)
LEMMA TypeStep ==
  ASSUME IInv, [Next]_vars
  PROVE  TypeOK'
<1> USE ConstantsAssumption DEF Maps
<1>t. TypeOK /\ ItInv /\ LockInv
  BY DEF IInv
<1>f. ASSUME upd.it \in 0..EndIt
      PROVE  Following(upd.pass, upd.it) \in 0..EndIt
  BY <1>f, <1>t, FollowingRange DEF TypeOK
<1>r. \A m \in Maps, t \in Threads :
        HoldCount(t, m) > 0 => lock[m].depth \in Nat \ {0}
  BY <1>t DEF TypeOK, LockInv, HoldCount
<1>1. ASSUME NEW t \in Threads, StartCall(t) PROVE TypeOK'
  <2>1. CASE \E once \in BOOLEAN, n \in Secs : Register(t, once, n)
    <3>1. PICK once \in BOOLEAN, n \in Nat : LoadId(t, once, n)
      BY <2>1, Microseconds DEF Register
    <3> QED
      BY <3>1, <1>t DEF LoadId, InCall, TypeOK
  <2>2. CASE \E once \in BOOLEAN, n \in MilSecs : RegisterByMilSec(t, once, n)
    <3>1. PICK once \in BOOLEAN, n \in Nat : LoadId(t, once, n)
      BY <2>2, Microseconds DEF RegisterByMilSec
    <3> QED
      BY <3>1, <1>t DEF LoadId, InCall, TypeOK
  <2>3. CASE \E id \in Ids : UnRegister(t, id)
    <3>1. PICK id \in Ids : UnRegister(t, id)
      BY <2>3
    <3>2. id \in 0..MaxId
      BY DEF Ids
    <3> QED
      BY <3>1, <3>2, <1>t DEF UnRegister, InCall, TypeOK
  <2> QED
    BY <1>1, <2>1, <2>2, <2>3 DEF StartCall
<1>2. ASSUME NEW t \in Threads, StoreId(t) PROVE TypeOK'
  <2>1. call[t].id + 1 \in Ids /\ call[t].id + 1 \in 0..MaxId
    <3>1. call[t].id \in 0..MaxId /\ call[t].id < MaxId
      BY <1>2, <1>t DEF StoreId, TypeOK
    <3> QED
      BY <3>1 DEF Ids
  <2> QED
    <3>1. /\ call' = [call EXCEPT ![t].pc = "try", ![t].id = call[t].id + 1, ![t].start = clock]
          /\ curId' = call[t].id + 1
          /\ base' = [base EXCEPT ![call[t].id + 1] = clock]
      BY <1>2 DEF StoreId
    <3>2. curId' \in Ids /\ curId' \in 0..MaxId /\ base' \in [Ids -> Nat]
      BY <3>1, <2>1, <1>t DEF TypeOK
    <3>3. call' \in [Threads -> [pc : {"idle", "store", "try", "insert", "return", "lock", "find"},
                                 map : Maps, id : 0..MaxId, once : BOOLEAN,
                                 interval : Nat, start : Nat]]
      BY <3>1, <2>1, <1>t DEF TypeOK
    <3> QED
      BY <3>1, <3>2, <3>3, <1>2, <2>1, <1>t DEF StoreId, TypeOK
<1>3. ASSUME NEW t \in Threads, TryLock(t) PROVE TypeOK'
  BY <1>3, <1>t, SMTT(30) DEF TryLock, Acquire, TypeOK
<1>4. ASSUME NEW t \in Threads, Insert(t) PROVE TypeOK'
  <2>1. HoldCount(t, call[t].map) > 0 /\ call[t].id \in Ids /\ NewTimer(call[t]) \in Timer
    BY <1>4, <1>t DEF Insert, TypeOK, HoldCount, NewTimer, Timer
  <2>2. lock' \in [Maps -> [owner : Threads \cup {NoThread}, depth : Nat]]
    <3>1. call[t].map \in Maps /\ lock[call[t].map].depth # 0 /\ Release(call[t].map)
      BY <1>4, <2>1, <1>r, <1>t DEF Insert, TypeOK
    <3> QED
      BY <3>1, <1>t, ReleaseType DEF TypeOK
  <2>3. timers' \in [Maps -> [Ids -> Timer \cup {Absent}]]
    BY <1>4, <2>1, <1>t DEF Insert, TypeOK
  <2> QED
    BY <1>4, <2>2, <2>3, <1>t DEF Insert, TypeOK
<1>5. ASSUME NEW t \in Threads, ReturnId(t) PROVE TypeOK'
  BY <1>5, <1>t DEF ReturnId, Idle, InCall, TypeOK
<1>6. ASSUME NEW t \in Threads, LockToFind(t) PROVE TypeOK'
  BY <1>6, <1>t, SMTT(30) DEF LockToFind, Acquire, TypeOK
<1>7. ASSUME NEW t \in Threads, MarkFound(t) PROVE TypeOK'
  <2>1. HoldCount(t, call[t].map) > 0 /\ call[t].id \in Ids
    BY <1>7, <1>t DEF MarkFound, TypeOK, HoldCount
  <2>2. lock' \in [Maps -> [owner : Threads \cup {NoThread}, depth : Nat]]
    <3>1. call[t].map \in Maps /\ lock[call[t].map].depth # 0 /\ Release(call[t].map)
      BY <1>7, <2>1, <1>r, <1>t DEF MarkFound, TypeOK
    <3> QED
      BY <3>1, <1>t, ReleaseType DEF TypeOK
  <2>3. timers[call[t].map][call[t].id] \in Timer
    BY <1>7, <2>1, <1>t DEF MarkFound, Keys, TypeOK
  <2>4. [timers[call[t].map][call[t].id] EXCEPT !.del = TRUE] \in Timer
    BY <2>3 DEF Timer
  <2>5. timers' \in [Maps -> [Ids -> Timer \cup {Absent}]]
    BY <1>7, <2>1, <2>4, <1>t DEF MarkFound, TypeOK
  <2> QED
    BY <1>7, <2>1, <2>2, <2>5, <1>t DEF MarkFound, Idle, InCall, TypeOK
<1>8. ASSUME NEW t \in Threads, NotFound(t) PROVE TypeOK'
  <2>1. HoldCount(t, call[t].map) > 0
    BY <1>8, <1>t DEF NotFound, TypeOK, HoldCount
  <2>2. lock' \in [Maps -> [owner : Threads \cup {NoThread}, depth : Nat]]
    <3>1. call[t].map \in Maps /\ lock[call[t].map].depth # 0 /\ Release(call[t].map)
      BY <1>8, <2>1, <1>r, <1>t DEF NotFound, TypeOK
    <3> QED
      BY <3>1, <1>t, ReleaseType DEF TypeOK
  <2> QED
    <3>1. CASE call[t].map = 2
      BY <3>1, <1>8, <2>2, <1>t DEF NotFound, TypeOK
    <3>2. CASE call[t].map # 2
      BY <3>2, <1>8, <2>2, <1>t DEF NotFound, Idle, InCall, TypeOK
    <3> QED
      BY <3>1, <3>2
<1>9. CASE BeginUpdate
  BY <1>9, <1>t DEF BeginUpdate, TypeOK, EndIt
<1>10. CASE BeginPass
  <2>1. Following(upd.pass, 0) \in 0..EndIt
    <3>1. upd.pass \in Maps /\ 0 \in 0..EndIt
      BY <1>t DEF TypeOK, EndIt
    <3> QED
      BY <3>1, FollowingRange
  <2> QED
    <3>1. lock' \in [Maps -> [owner : Threads \cup {NoThread}, depth : Nat]]
      BY <1>10, <1>t DEF BeginPass, Acquire, TypeOK
    <3>2. upd' \in [at : {"out", "lock", "loop", "callback"}, pass : Maps, it : 0..EndIt]
      BY <1>10, <1>t, <2>1 DEF BeginPass, TypeOK
    <3> QED
      BY <1>10, <1>t, <3>1, <3>2 DEF BeginPass, TypeOK
<1>11. CASE EraseMarked
  <2>1. upd.it \in Ids /\ upd.pass \in Maps
    BY <1>11, <1>t, CurrentIsTimer DEF EraseMarked, InLoop, ItInv, TypeOK
  <2>2. timers' \in [Maps -> [Ids -> Timer \cup {Absent}]]
    BY <1>11, <1>t, <2>1 DEF EraseMarked, TypeOK
  <2> QED
    BY <1>11, <1>t, <1>f, <2>2 DEF EraseMarked, TypeOK
<1>12. CASE SkipTimer
  BY <1>12, <1>t, <1>f DEF SkipTimer, TypeOK
<1>13. CASE RunCallback
  <2>1. upd.it \in Ids
    BY <1>13, <1>t, CurrentIsTimer DEF RunCallback, InLoop, ItInv
  <2> QED
    BY <1>13, <1>t, <2>1 DEF RunCallback, TypeOK
<1>14. CASE CallbackReturns
  <2>1. upd.it \in Ids /\ upd.pass \in Maps /\ Current \in Timer
    BY <1>14, <1>t, CurrentIsTimer DEF CallbackReturns, ItInv, TypeOK
  <2>2. AfterCallback(Current) \in Timer \cup {Absent}
    BY <2>1, <1>t DEF AfterCallback, Rearmed, Timer, TypeOK
  <2>3. timers' \in [Maps -> [Ids -> Timer \cup {Absent}]]
    BY <1>14, <1>t, <2>1, <2>2 DEF CallbackReturns, TypeOK
  <2> QED
    BY <1>14, <1>t, <1>f, <2>3 DEF CallbackReturns, TypeOK
<1>15. CASE EndPass
  <2>1. HoldCount(Runner, upd.pass) > 0
    BY <1>15, <1>t DEF EndPass, TypeOK, HoldCount
  <2>2. lock' \in [Maps -> [owner : Threads \cup {NoThread}, depth : Nat]]
    <3>1. upd.pass \in Maps /\ lock[upd.pass].depth # 0 /\ Release(upd.pass)
      BY <1>15, <2>1, <1>r, <1>t DEF EndPass, TypeOK
    <3> QED
      BY <3>1, <1>t, ReleaseType DEF TypeOK
  <2> QED
    BY <1>15, <2>2, <1>t DEF EndPass, TypeOK, EndIt
<1>16. CASE Tick
  BY <1>16, <1>t DEF Tick, TypeOK
<1>17. CASE UNCHANGED vars
  BY <1>17, <1>t DEF vars, TypeOK
<1> QED
  BY <1>1, <1>2, <1>3, <1>4, <1>5, <1>6, <1>7, <1>8, <1>9, <1>10, <1>11, <1>12,
     <1>13, <1>14, <1>15, <1>16, <1>17 DEF Next, CallStep, Update

(* The inductive invariant holds in every reachable state. *)
LEMMA Invariance == Spec => []IInv
<1>1. IInv /\ [Next]_vars => IInv'
  BY LockStep, ItStep, TypeStep DEF IInv
<1> QED
  BY InitIInv, <1>1, PTL DEF Spec

(* Register, UnRegister and Update keep every variable in its type, with   *)
(* any number of threads that register at once.                            *)
THEOREM TypeCorrect == Spec => []TypeOK
  BY Invariance, PTL DEF IInv

(* Update, callbacks and UnRegister never deadlock on the two mutexes: a   *)
(* thread that waits for one holds none, unless it is the Runner in a      *)
(* callback, and the Runner is one thread.                                 *)
THEOREM DeadlockFree == Spec => []NoWaitCycle
<1>1. ASSUME IInv PROVE NoWaitCycle
  <2> SUFFICES ASSUME NEW s \in Threads, NEW t \in Threads,
                      NEW m \in BlockedOn(s), NEW n \in BlockedOn(t),
                      lock[m].owner = t, lock[n].owner = s
               PROVE  FALSE
    BY DEF NoWaitCycle
  <2>1. /\ TypeOK /\ LockInv
        /\ m \in Maps /\ n \in Maps
        /\ NoThread \notin Threads
        /\ s # t
    BY <1>1, ConstantsAssumption DEF IInv, BlockedOn, CanLock
  <2>2. HoldCount(s, n) # 0 /\ HoldCount(t, m) # 0
    <3>1. lock[n].depth # 0 /\ lock[m].depth # 0
      BY <2>1 DEF LockInv
    <3> QED
      BY <2>1, <3>1 DEF LockInv
  <2>3. \A r \in Threads : BlockedOn(r) # {} => call[r].pc \notin {"insert", "find"}
    BY <2>1 DEF BlockedOn, LockInv
  <2>4. s = Runner /\ t = Runner
    BY <2>2, <2>3 DEF HoldCount
  <2> QED
    BY <2>1, <2>4
<1> QED
  BY <1>1, Invariance, PTL

(* The timer that Update stands at is never erased under it, by any number *)
(* of threads that register and unregister, or by its own callback.        *)
THEOREM WalkIsSafe == Spec => []IteratorStaysValid
<1>1. ASSUME IInv PROVE IteratorStaysValid
  <2> SUFFICES ASSUME upd.at = "callback" \/ (upd.at = "loop" /\ upd.it # EndIt)
               PROVE  upd.it \in Keys(upd.pass) /\ lock[upd.pass].owner = Runner
    BY DEF IteratorStaysValid
  <2>1. upd.it \in Keys(upd.pass)
    BY <1>1 DEF IInv, ItInv
  <2>2. upd.pass \in Maps /\ Runner \in Threads
    BY <1>1, ConstantsAssumption DEF IInv, TypeOK
  <2>3. HoldCount(Runner, upd.pass) # 0
    BY DEF HoldCount
  <2> QED
    BY <1>1, <2>1, <2>2, <2>3 DEF IInv, LockInv
<1> QED
  BY <1>1, Invariance, PTL

-----------------------------------------------------------------------------
(* What holds when one thread at a time registers timers: which map owns   *)
(* a timer, what its number means, and when its callback may run.  Nothing *)
(* is assumed of the threads that call UnRegister, nor of the callbacks.   *)

SingleRegistrar == \A s, t \in Registrars : s = t

(* Every number that a timer has had.                                      *)
Known == Keys(1) \cup Keys(2) \cup cancelled \cup ranOnce

(* A call to Register works on the newest number, which is unknown until   *)
(* its timer is inserted.                                                  *)
FreshInv ==
  /\ Known \cup handles \subseteq 1..curId
  /\ \A t \in Threads :
       /\ call[t].pc \in {"store", "try", "insert", "return"} =>
            t \in Registrars /\ call[t].id = curId
       /\ call[t].pc \in {"try", "insert"} => curId \notin Known \cup handles
       /\ call[t].pc = "return" => curId \in Known

(* The mark is in the map from UnRegister until Update erases the timer.   *)
MarkInv == \A m \in Maps : \A i \in Keys(m) : timers[m][i].del = (i \in cancelled)

(* An UnRegister call past the second map will not find its timer there.   *)
FindInv ==
  \A t \in Threads : call[t].pc \in {"lock", "find"} =>
    /\ call[t].id \in handles
    /\ call[t].map = 1 => call[t].id \notin Keys(2)

SpentInv == upd.at = "callback" /\ Current.once => upd.it \in ranOnce

OwnInv == OneHome /\ FreshInv /\ MarkInv /\ FindInv /\ SpentInv /\ NoTimerLost

-----------------------------------------------------------------------------
(* The ownership invariant holds at first. *)
LEMMA InitOwnInv == Init => OwnInv
<1> SUFFICES ASSUME Init PROVE OwnInv
  OBVIOUS
<1>1. Keys(1) = {} /\ Keys(2) = {} /\ Known = {}
  BY DEF Init, Keys, Maps, Known
<1> QED
  BY <1>1 DEF Init, OwnInv, OneHome, FreshInv, MarkInv, FindInv, SpentInv, NoTimerLost,
              Idle, InCall, Maps

(* A step that leaves the maps and the histories alone.                    *)
LEMMA CallOnlyStep ==
  ASSUME IInv, OwnInv, [Next]_vars,
         UNCHANGED <<timers, cancelled, ranOnce, handles>>,
         UNCHANGED upd \/ ~(upd'.at = "callback"),
         FreshInv', FindInv'
  PROVE  OwnInv'
<1>1. \A m : Keys(m)' = Keys(m)
  BY DEF Keys
<1> QED
  BY <1>1 DEF OwnInv, OneHome, MarkInv, SpentInv, NoTimerLost, Current, Known

(* The first step of Register, RegisterByMilSec and UnRegister keeps it. *)
LEMMA StartCallOwn ==
  ASSUME IInv, OwnInv, [Next]_vars, NEW t \in Threads, StartCall(t)
  PROVE  OwnInv'
<1>c. call \in [Threads -> [pc : {"idle", "store", "try", "insert", "return", "lock", "find"},
                            map : Maps, id : 0..MaxId, once : BOOLEAN,
                            interval : Nat, start : Nat]]
  BY DEF IInv, TypeOK
<1>1. ASSUME NEW once, NEW us, LoadId(t, once, us) PROVE OwnInv'
  <2>1. /\ UNCHANGED <<curId, timers, cancelled, ranOnce, handles, upd>>
        /\ t \in Registrars
        /\ call' = [call EXCEPT ![t] = InCall("store", curId, once, us)]
    BY <1>1 DEF LoadId
  <2>2. Known' = Known /\ Keys(2)' = Keys(2)
    BY <2>1 DEF Known, Keys
  <2>3. FreshInv'
    BY <2>1, <2>2, <1>c DEF OwnInv, FreshInv, InCall
  <2>4. FindInv'
    BY <2>1, <2>2, <1>c DEF OwnInv, FindInv, InCall
  <2> QED
    BY <2>1, <2>3, <2>4, CallOnlyStep
<1>2. ASSUME NEW id \in Ids, UnRegister(t, id) PROVE OwnInv'
  <2>1. /\ UNCHANGED <<curId, timers, cancelled, ranOnce, handles, upd>>
        /\ id \in handles
        /\ call' = [call EXCEPT ![t] = InCall("lock", id, FALSE, 0)]
    BY <1>2 DEF UnRegister
  <2>2. Known' = Known /\ Keys(2)' = Keys(2)
    BY <2>1 DEF Known, Keys
  <2>3. FreshInv'
    BY <2>1, <2>2, <1>c DEF OwnInv, FreshInv, InCall
  <2>4. FindInv'
    BY <2>1, <2>2, <1>c DEF OwnInv, FindInv, InCall
  <2> QED
    BY <2>1, <2>3, <2>4, CallOnlyStep
<1> QED
  BY <1>1, <1>2, Zenon DEF StartCall, Register, RegisterByMilSec

(* The store of ++_cur_timer_id keeps it. *)
LEMMA StoreIdOwn ==
  ASSUME SingleRegistrar, IInv, OwnInv, [Next]_vars, NEW t \in Threads, StoreId(t)
  PROVE  OwnInv'
<1>c. /\ call \in [Threads -> [pc : {"idle", "store", "try", "insert", "return", "lock", "find"},
                               map : Maps, id : 0..MaxId, once : BOOLEAN,
                               interval : Nat, start : Nat]]
      /\ curId \in Nat
  BY ConstantsAssumption DEF IInv, TypeOK
<1>1. /\ UNCHANGED <<timers, cancelled, ranOnce, handles, upd>>
      /\ t \in Registrars
      /\ curId' = curId + 1
      /\ call' = [call EXCEPT ![t].pc = "try", ![t].id = curId + 1, ![t].start = clock]
  BY <1>c DEF StoreId, OwnInv, FreshInv
<1>2. Known' = Known /\ Keys(2)' = Keys(2)
  BY <1>1 DEF Known, Keys
<1>3. FreshInv'
  <2>1. (Known \cup handles \subseteq 1..curId)'
    BY <1>1, <1>2, <1>c DEF OwnInv, FreshInv
  <2>2. curId' \notin (Known \cup handles)'
    BY <1>1, <1>2, <1>c DEF OwnInv, FreshInv
  <2>3. \A s \in Threads : s # t => call'[s].pc \notin {"store", "try", "insert", "return"}
    BY <1>1, <1>c DEF OwnInv, FreshInv, SingleRegistrar
  <2> QED
    BY <1>1, <1>c, <2>1, <2>2, <2>3 DEF FreshInv
<1>4. FindInv'
  BY <1>1, <1>2, <1>c DEF OwnInv, FindInv
<1> QED
  BY <1>1, <1>3, <1>4, CallOnlyStep

(* The steps that only take or give up a mutex keep it. *)
LEMMA LockingOwn ==
  ASSUME IInv, OwnInv, [Next]_vars, NEW t \in Threads,
         TryLock(t) \/ LockToFind(t) \/ NotFound(t)
  PROVE  OwnInv'
<1>c. call \in [Threads -> [pc : {"idle", "store", "try", "insert", "return", "lock", "find"},
                            map : Maps, id : 0..MaxId, once : BOOLEAN,
                            interval : Nat, start : Nat]]
  BY DEF IInv, TypeOK
<1>1. UNCHANGED <<curId, timers, cancelled, ranOnce, handles, upd>>
  BY DEF TryLock, LockToFind, NotFound
<1>2. Known' = Known /\ Keys(1)' = Keys(1) /\ Keys(2)' = Keys(2)
  BY <1>1 DEF Known, Keys
<1>3. CASE TryLock(t)
  <2>1. FreshInv'
    BY <1>1, <1>2, <1>3, <1>c DEF TryLock, OwnInv, FreshInv
  <2>2. FindInv'
    BY <1>1, <1>2, <1>3, <1>c DEF TryLock, OwnInv, FindInv
  <2> QED
    BY <1>1, <2>1, <2>2, CallOnlyStep
<1>4. CASE LockToFind(t)
  <2>1. FreshInv'
    BY <1>1, <1>2, <1>4, <1>c DEF LockToFind, OwnInv, FreshInv
  <2>2. FindInv'
    BY <1>1, <1>2, <1>4, <1>c DEF LockToFind, OwnInv, FindInv
  <2> QED
    BY <1>1, <2>1, <2>2, CallOnlyStep
<1>5. CASE NotFound(t)
  <2>1. FreshInv'
    BY <1>1, <1>2, <1>5, <1>c DEF NotFound, Idle, InCall, OwnInv, FreshInv
  <2>2. FindInv'
    BY <1>1, <1>2, <1>5, <1>c DEF NotFound, Idle, InCall, OwnInv, FindInv
  <2> QED
    BY <1>1, <2>1, <2>2, CallOnlyStep
<1> QED
  BY <1>3, <1>4, <1>5

(* The number goes to the caller only when its timer is in a map.          *)
LEMMA ReturnIdOwn ==
  ASSUME IInv, OwnInv, NEW t \in Threads, ReturnId(t)
  PROVE  OwnInv'
<1>c. call \in [Threads -> [pc : {"idle", "store", "try", "insert", "return", "lock", "find"},
                            map : Maps, id : 0..MaxId, once : BOOLEAN,
                            interval : Nat, start : Nat]]
  BY DEF IInv, TypeOK
<1>1. /\ UNCHANGED <<curId, timers, cancelled, ranOnce, upd>>
      /\ call[t].pc = "return"
      /\ handles' = handles \cup {curId}
      /\ call' = [call EXCEPT ![t] = Idle]
      /\ curId \in Known
  BY DEF ReturnId, OwnInv, FreshInv
<1>2. Known' = Known /\ \A m : Keys(m)' = Keys(m)
  BY <1>1 DEF Known, Keys
<1>3. FreshInv'
  BY <1>1, <1>2, <1>c DEF OwnInv, FreshInv, Idle, InCall
<1>4. FindInv'
  BY <1>1, <1>2, <1>c DEF OwnInv, FindInv, Idle, InCall
<1>5. NoTimerLost'
  BY <1>1, <1>2 DEF OwnInv, NoTimerLost, Known
<1> QED
  BY <1>1, <1>2, <1>3, <1>4, <1>5 DEF OwnInv, OneHome, MarkInv, SpentInv, Current

(* Inserting the new timer and returning its number keep it. *)
LEMMA InsertOwn ==
  ASSUME SingleRegistrar, IInv, OwnInv, NEW t \in Threads, Insert(t)
  PROVE  OwnInv'
<1>m. PICK m \in Maps : m = call[t].map
  BY DEF IInv, TypeOK
<1>c. /\ call \in [Threads -> [pc : {"idle", "store", "try", "insert", "return", "lock", "find"},
                               map : Maps, id : 0..MaxId, once : BOOLEAN,
                               interval : Nat, start : Nat]]
      /\ timers \in [Maps -> [Ids -> Timer \cup {Absent}]]
      /\ upd.pass \in Maps
      /\ call[t].pc = "insert" /\ call[t].id = curId /\ curId \in Ids
      /\ t \in Registrars
  BY DEF IInv, TypeOK, Insert, OwnInv, FreshInv
<1>1. /\ UNCHANGED <<curId, upd, handles, cancelled, ranOnce>>
      /\ call' = [call EXCEPT ![t].pc = "return"]
      /\ curId \notin Known \cup handles
  BY DEF Insert, OwnInv, FreshInv
<1>2. curId \notin Keys(m) /\ timers[m][curId] = Absent
  BY <1>1, <1>c DEF Known, Keys, Maps
<1>3. timers' = [timers EXCEPT ![m][curId] = NewTimer(call[t])]
  BY <1>2, <1>c, <1>m DEF Insert
<1>4. NewTimer(call[t]) # Absent /\ NewTimer(call[t]).del = FALSE
  <2>1. NewTimer(call[t]) \in Timer /\ NewTimer(call[t]).del = FALSE
    BY <1>c DEF NewTimer, Timer
  <2> QED
    BY <2>1, ConstantsAssumption
<1>5. /\ Keys(m)' = Keys(m) \cup {curId}
      /\ \A n \in Maps : n # m => Keys(n)' = Keys(n)
      /\ \A n \in Maps : \A i \in Keys(n) : timers'[n][i] = timers[n][i]
  BY <1>2, <1>3, <1>4, <1>c DEF Keys
<1>6. Known' = Known \cup {curId}
  BY <1>1, <1>5, <1>c DEF Known, Maps
<1>7. OneHome'
  BY <1>1, <1>5, <1>c DEF OwnInv, OneHome, Known, Maps
<1>8. FreshInv'
  <2>1. \A s \in Threads : s # t => call[s].pc \notin {"store", "try", "insert", "return"}
    BY <1>c DEF OwnInv, FreshInv, SingleRegistrar
  <2> QED
    BY <1>1, <1>6, <1>c, <2>1 DEF OwnInv, FreshInv, Ids
<1>9. MarkInv'
  <2> SUFFICES ASSUME NEW n \in Maps, NEW i \in Keys(n)'
               PROVE  timers'[n][i].del = (i \in cancelled)
    BY <1>1 DEF MarkInv
  <2>1. CASE i \in Keys(n)
    BY <2>1, <1>5 DEF OwnInv, MarkInv
  <2>2. CASE i \notin Keys(n)
    <3>1. n = m /\ i = curId
      BY <2>2, <1>5
    <3>2. timers'[n][i] = NewTimer(call[t]) /\ i \notin cancelled
      BY <3>1, <1>1, <1>3, <1>c DEF Known
    <3>3. timers'[n][i].del = FALSE
      BY <3>2, <1>4
    <3>4. (i \in cancelled) = FALSE
      BY <3>2
    <3> QED
      BY <3>3, <3>4, Zenon
  <2> QED
    BY <2>1, <2>2
<1>10. FindInv'
  <2> SUFFICES ASSUME NEW s \in Threads, call[s].pc \in {"lock", "find"}, s # t
               PROVE  call[s].id \in handles /\ (call[s].map = 1 => call[s].id \notin Keys(2)')
    <3>1. \A s \in Threads : call'[s].pc \in {"lock", "find"} =>
            s # t /\ call'[s] = call[s]
      BY <1>1, <1>c
    <3> QED
      BY <1>1, <3>1 DEF FindInv
  <2>1. call[s].id # curId /\ call[s].id \in handles
    BY <1>1 DEF OwnInv, FindInv
  <2> QED
    BY <2>1, <1>5, <1>c DEF OwnInv, FindInv, Maps
<1>11. SpentInv'
  <2>1. upd.at = "callback" => upd.it \in Keys(upd.pass)
    BY DEF IInv, ItInv
  <2> QED
    BY <2>1, <1>1, <1>5, <1>c DEF OwnInv, SpentInv, Current
<1>12. NoTimerLost'
  BY <1>1, <1>6 DEF OwnInv, NoTimerLost, Known
<1> QED
  BY <1>7, <1>8, <1>9, <1>10, <1>11, <1>12 DEF OwnInv

(* The marking of a timer by UnRegister keeps it. *)
LEMMA MarkFoundOwn ==
  ASSUME IInv, OwnInv, NEW t \in Threads, MarkFound(t)
  PROVE  OwnInv'
<1> DEFINE m == call[t].map
<1> DEFINE id == call[t].id
<1>c. /\ call \in [Threads -> [pc : {"idle", "store", "try", "insert", "return", "lock", "find"},
                               map : Maps, id : 0..MaxId, once : BOOLEAN,
                               interval : Nat, start : Nat]]
      /\ timers \in [Maps -> [Ids -> Timer \cup {Absent}]]
      /\ upd.pass \in Maps
      /\ m \in Maps /\ id \in Keys(m) /\ id \in Ids
  BY DEF IInv, TypeOK, MarkFound, Keys
<1>1. /\ UNCHANGED <<curId, upd, handles, ranOnce>>
      /\ call' = [call EXCEPT ![t] = Idle]
      /\ cancelled' = cancelled \cup {id}
      /\ timers' = [timers EXCEPT ![m][id].del = TRUE]
  BY DEF MarkFound
<1>2. timers[m][id] \in Timer
  BY <1>c DEF Keys
<1>3. /\ timers'[m][id] \in Timer
      /\ timers'[m][id].del = TRUE
      /\ timers'[m][id].once = timers[m][id].once
  BY <1>1, <1>2, <1>c DEF Timer
<1>4. \A n \in Maps, i \in Ids : n # m \/ i # id => timers'[n][i] = timers[n][i]
  BY <1>1, <1>c
<1>5. \A n \in Maps : Keys(n)' = Keys(n)
  BY <1>2, <1>3, <1>4, <1>c, ConstantsAssumption DEF Keys
<1>6. Known' = Known
  BY <1>1, <1>5, <1>c DEF Known, Maps
<1>7. OneHome'
  BY <1>5 DEF OwnInv, OneHome, Maps
<1>8. FreshInv'
  BY <1>1, <1>6, <1>c DEF OwnInv, FreshInv, Idle, InCall
<1>9. MarkInv'
  <2> SUFFICES ASSUME NEW n \in Maps, NEW i \in Keys(n)
               PROVE  timers'[n][i].del = (i \in cancelled')
    BY <1>5 DEF MarkInv
  <2>1. CASE i = id
    <3>1. n = m
      BY <2>1, <1>c DEF OwnInv, OneHome, Maps
    <3> QED
      BY <2>1, <3>1, <1>1, <1>3
  <2>2. CASE i # id
    BY <2>2, <1>1, <1>4 DEF OwnInv, MarkInv, Keys
  <2> QED
    BY <2>1, <2>2
<1>10. FindInv'
  BY <1>1, <1>5, <1>c DEF OwnInv, FindInv, Idle, InCall, Maps
<1>11. SpentInv'
  <2>1. upd.at = "callback" => upd.it \in Ids
    BY DEF IInv, ItInv, Keys
  <2> QED
    BY <2>1, <1>1, <1>3, <1>4, <1>c DEF OwnInv, SpentInv, Current
<1>12. NoTimerLost'
  BY <1>1, <1>6 DEF OwnInv, NoTimerLost, Known
<1> QED
  BY <1>7, <1>8, <1>9, <1>10, <1>11, <1>12 DEF OwnInv

(* The erase of the timer that Update is at: it is marked, or it has run.  *)
LEMMA EraseOwn ==
  ASSUME IInv, OwnInv, UNCHANGED <<curId, call, handles, cancelled, ranOnce>>,
         upd.it \in Keys(upd.pass), upd.it \in cancelled \cup ranOnce,
         timers' = [timers EXCEPT ![upd.pass][upd.it] = Absent],
         upd'.at = "loop"
  PROVE  OwnInv'
<1>m. PICK m \in Maps, id \in Ids : m = upd.pass /\ id = upd.it
  BY DEF IInv, TypeOK, Keys
<1>1. /\ Keys(m)' = Keys(m) \ {id}
      /\ \A n \in Maps : n # m => Keys(n)' = Keys(n)
      /\ \A n \in Maps : \A i \in Keys(n)' : timers'[n][i] = timers[n][i]
  BY <1>m DEF IInv, TypeOK, Keys
<1>2. \A n \in Maps : Keys(n)' \subseteq Keys(n)
  BY <1>1
<1>3. Known' = Known
  BY <1>m, <1>1 DEF Known, Maps
<1>4. OneHome'
  BY <1>2 DEF OwnInv, OneHome, Maps
<1>5. FreshInv'
  BY <1>3 DEF OwnInv, FreshInv
<1>6. MarkInv'
  BY <1>1, <1>2 DEF OwnInv, MarkInv
<1>7. FindInv'
  BY <1>2 DEF OwnInv, FindInv, Maps
<1>8. NoTimerLost'
  BY <1>3 DEF OwnInv, NoTimerLost, Known
<1> QED
  BY <1>4, <1>5, <1>6, <1>7, <1>8 DEF OwnInv, SpentInv

(* Every step of Update keeps it. *)
LEMMA UpdateOwn ==
  ASSUME IInv, OwnInv, [Next]_vars, Update
  PROVE  OwnInv'
<1>c. upd \in [at : {"out", "lock", "loop", "callback"}, pass : Maps, it : 0..EndIt]
  BY DEF IInv, TypeOK
<1>i. upd.at = "callback" \/ InLoop => Current \in Timer /\ upd.it \in Keys(upd.pass)
  BY CurrentIsTimer DEF IInv, ItInv, InLoop
<1>1. CASE BeginUpdate \/ BeginPass \/ SkipTimer \/ EndPass
  <2>1. /\ UNCHANGED <<curId, timers, call, handles, cancelled, ranOnce>>
        /\ upd'.at # "callback"
    <3>1. CASE BeginUpdate
      BY <3>1 DEF BeginUpdate
    <3>2. CASE BeginPass
      BY <3>2, <1>c DEF BeginPass
    <3>3. CASE SkipTimer
      BY <3>3, <1>c DEF SkipTimer, InLoop
    <3>4. CASE EndPass
      BY <3>4 DEF EndPass
    <3> QED
      BY <1>1, <3>1, <3>2, <3>3, <3>4
  <2>2. Known' = Known /\ Keys(2)' = Keys(2)
    BY <2>1 DEF Known, Keys
  <2>3. FreshInv' /\ FindInv'
    BY <2>1, <2>2 DEF OwnInv, FreshInv, FindInv
  <2> QED
    BY <2>1, <2>3, CallOnlyStep
<1>2. CASE EraseMarked
  <2>1. upd.it \in Keys(upd.pass) /\ upd.it \in cancelled
    BY <1>2, <1>i, <1>c DEF EraseMarked, Current, OwnInv, MarkInv
  <2> QED
    BY <1>2, <1>c, <2>1, EraseOwn DEF EraseMarked, InLoop
<1>3. CASE RunCallback
  <2>1. /\ UNCHANGED <<curId, timers, call, handles, cancelled>>
        /\ upd'.pass = upd.pass /\ upd'.it = upd.it
        /\ upd.it \in Keys(upd.pass)
        /\ ranOnce' = IF Current.once THEN ranOnce \cup {upd.it} ELSE ranOnce
    BY <1>3, <1>i, <1>c DEF RunCallback
  <2>2. Known' = Known /\ \A m : Keys(m)' = Keys(m)
    BY <2>1, <1>c DEF Known, Keys, Maps
  <2>3. SpentInv'
    BY <2>1, <1>i DEF SpentInv, Current
  <2>4. FreshInv' /\ FindInv'
    BY <2>1, <2>2 DEF OwnInv, FreshInv, FindInv
  <2>5. NoTimerLost'
    BY <2>1, <2>2 DEF OwnInv, NoTimerLost, Known
  <2> QED
    BY <2>1, <2>2, <2>3, <2>4, <2>5 DEF OwnInv, OneHome, MarkInv
<1>4. CASE CallbackReturns
  <2>0. /\ UNCHANGED <<curId, call, handles, cancelled, ranOnce>>
        /\ upd'.at = "loop"
        /\ timers' = [timers EXCEPT ![upd.pass][upd.it] = AfterCallback(Current)]
        /\ Current \in Timer /\ upd.it \in Keys(upd.pass)
    BY <1>4, <1>i, <1>c DEF CallbackReturns
  <2>1. CASE Current.once
    <3>1. AfterCallback(Current) = Absent /\ upd.it \in ranOnce
      BY <2>1, <1>4 DEF AfterCallback, OwnInv, SpentInv, CallbackReturns
    <3> QED
      BY <2>0, <3>1, EraseOwn
  <2>2. CASE ~Current.once
    <3>m. PICK m \in Maps, id \in Ids : m = upd.pass /\ id = upd.it
      BY <2>0 DEF IInv, TypeOK, Keys
    <3>1. AfterCallback(Current) \in Timer /\ AfterCallback(Current).del = Current.del
      BY <2>0, <2>2 DEF AfterCallback, Rearmed, Timer, IInv, TypeOK
    <3>2. /\ timers'[m][id].del = timers[m][id].del
          /\ timers'[m][id] # Absent
          /\ \A n \in Maps, i \in Ids : n # m \/ i # id => timers'[n][i] = timers[n][i]
      BY <2>0, <3>m, <3>1, ConstantsAssumption DEF IInv, TypeOK, Current
    <3>3. \A n \in Maps : Keys(n)' = Keys(n)
      BY <2>0, <3>m, <3>2 DEF Keys
    <3>4. Known' = Known
      BY <2>0, <3>3 DEF Known, Maps
    <3>5. OneHome'
      BY <3>3 DEF OwnInv, OneHome, Maps
    <3>6. FreshInv' /\ FindInv'
      BY <2>0, <3>3, <3>4 DEF OwnInv, FreshInv, FindInv, Maps
    <3>7. MarkInv'
      <4> SUFFICES ASSUME NEW n \in Maps, NEW i \in Keys(n)
                   PROVE  timers'[n][i].del = (i \in cancelled)
        BY <2>0, <3>3 DEF MarkInv
      <4>1. timers'[n][i].del = timers[n][i].del
        BY <3>2 DEF Keys
      <4> QED
        BY <4>1, Zenon DEF OwnInv, MarkInv
    <3>8. NoTimerLost'
      BY <2>0, <3>4 DEF OwnInv, NoTimerLost, Known
    <3> QED
      BY <2>0, <3>5, <3>6, <3>7, <3>8 DEF OwnInv, SpentInv
  <2> QED
    BY <2>1, <2>2
<1> QED
  BY <1>1, <1>2, <1>3, <1>4 DEF Update

-----------------------------------------------------------------------------
(* Every step keeps it. *)
LEMMA OwnStep ==
  ASSUME SingleRegistrar, IInv, OwnInv, [Next]_vars
  PROVE  OwnInv'
<1>1. CASE Tick \/ UNCHANGED vars
  <2>1. UNCHANGED <<curId, timers, call, upd, handles, cancelled, ranOnce>>
    BY <1>1 DEF Tick, vars
  <2> QED
    BY <2>1 DEF OwnInv, OneHome, FreshInv, MarkInv, FindInv, SpentInv, NoTimerLost,
                Known, Keys, Current
<1> QED
  BY <1>1, StartCallOwn, StoreIdOwn, LockingOwn, InsertOwn, ReturnIdOwn, MarkFoundOwn,
     UpdateOwn DEF Next, CallStep

(* With one registering thread it holds in every reachable state. *)
LEMMA OwnInvariance ==
  ASSUME SingleRegistrar
  PROVE  Spec => [](IInv /\ OwnInv)
<1>1. IInv /\ OwnInv /\ [Next]_vars => OwnInv'
  BY OwnStep
<1> QED
  BY InitOwnInv, Invariance, <1>1, PTL DEF Spec

(* A timer number is a key of one of the two maps at most: Register       *)
(* inserts it once, whichever map it finds free.                          *)
THEOREM InOneMap ==
  ASSUME SingleRegistrar
  PROVE  Spec => []OneHome
<1>1. OwnInv => OneHome
  BY DEF OwnInv
<1> QED
  BY <1>1, OwnInvariance, PTL

(* No registered timer vanishes unless it was unregistered or has run.     *)
THEOREM TimersAreKept ==
  ASSUME SingleRegistrar
  PROVE  Spec => []NoTimerLost
<1>1. OwnInv => NoTimerLost
  BY DEF OwnInv
<1> QED
  BY <1>1, OwnInvariance, PTL

(* No step but RunCallback starts a callback.                              *)
LEMMA OnlyUpdateRuns ==
  ASSUME IInv, [Next]_vars, CallbackStarts
  PROVE  RunCallback
<1>t. upd \in [at : {"out", "lock", "loop", "callback"}, pass : Maps, it : 0..EndIt]
  BY DEF IInv, TypeOK
<1>1. UNCHANGED upd => ~CallbackStarts
  BY DEF CallbackStarts
<1>2. ASSUME NEW t \in Threads, StartCall(t) \/ CallStep(t) PROVE UNCHANGED upd
  BY <1>2, Zenon DEF StartCall, Register, RegisterByMilSec, LoadId, UnRegister, CallStep,
     StoreId, TryLock, Insert, ReturnId, LockToFind, MarkFound, NotFound
<1>3. Tick \/ UNCHANGED vars => UNCHANGED upd
  BY DEF Tick, vars
<1>4. BeginUpdate => upd'.at # "callback"
  BY DEF BeginUpdate
<1>5. BeginPass => upd'.at # "callback"
  BY <1>t DEF BeginPass
<1>6. EraseMarked \/ SkipTimer => upd'.at # "callback"
  BY <1>t DEF EraseMarked, SkipTimer, InLoop
<1>7. CallbackReturns => upd'.at # "callback"
  BY <1>t DEF CallbackReturns
<1>8. EndPass => upd'.at # "callback"
  BY DEF EndPass
<1> QED
  BY <1>1, <1>2, <1>3, <1>4, <1>5, <1>6, <1>7, <1>8 DEF Next, Update, CallbackStarts

(* The callback of an unregistered timer never starts.                     *)
THEOREM CancelIsFinal ==
  ASSUME SingleRegistrar
  PROVE  Spec => NoRunAfterUnRegister
<1>1. ASSUME IInv, OwnInv, [Next]_vars, CallbackStarts
      PROVE  upd.it \notin cancelled
  <2>t. upd \in [at : {"out", "lock", "loop", "callback"}, pass : Maps, it : 0..EndIt]
    BY <1>1 DEF IInv, TypeOK
  <2>1. RunCallback
    BY <1>1, OnlyUpdateRuns
  <2>2. ~Current.del /\ upd.it \in Keys(upd.pass)
    BY <1>1, <2>1 DEF RunCallback, InLoop, IInv, ItInv
  <2> QED
    BY <1>1, <2>2, <2>t DEF OwnInv, MarkInv, Current
<1>2. IInv /\ OwnInv /\ [Next]_vars => [CallbackStarts => upd.it \notin cancelled]_vars
  BY <1>1
<1> QED
  BY <1>2, OwnInvariance, PTL DEF Spec, NoRunAfterUnRegister

(* When UnRegister returns to another thread, the callback is not running: *)
(* the lock of the map that owns the timer keeps the two apart.            *)
THEOREM CancelIsSynchronous ==
  ASSUME SingleRegistrar
  PROVE  Spec => SynchronousCancel
<1>1. ASSUME IInv, OwnInv, [Next]_vars, NEW t \in Threads \ {Runner},
             call[t].pc = "find", call'[t].pc = "idle",
             upd.at = "callback", upd.it = call[t].id
      PROVE  FALSE
  <2>t. /\ call \in [Threads -> [pc : {"idle", "store", "try", "insert", "return", "lock", "find"},
                                 map : Maps, id : 0..MaxId, once : BOOLEAN,
                                 interval : Nat, start : Nat]]
        /\ upd.pass \in Maps
        /\ Runner \in Threads
    BY <1>1, ConstantsAssumption DEF IInv, TypeOK
  <2>1. call[t].map # upd.pass
    <3>1. HoldCount(t, call[t].map) # 0
      BY <1>1, <2>t DEF HoldCount
    <3>2. HoldCount(Runner, upd.pass) # 0
      BY <1>1, <2>t DEF HoldCount
    <3>3. lock[call[t].map].owner = t
      BY <1>1, <2>t, <3>1 DEF IInv, LockInv
    <3>4. lock[upd.pass].owner = Runner
      BY <1>1, <2>t, <3>2 DEF IInv, LockInv
    <3> QED
      BY <1>1, <3>3, <3>4
  <2>2. call[t].id \in Keys(upd.pass)
    BY <1>1 DEF IInv, ItInv
  <2>3. call[t].id \notin Keys(call[t].map)
    BY <1>1, <2>t, <2>1, <2>2 DEF OwnInv, OneHome, Maps
  <2>4. call[t].map = 2
    BY <1>1, <2>t, <2>1, <2>2 DEF OwnInv, FindInv, Maps
  <2>5. NotFound(t)
    <3>1. ASSUME NEW s \in Threads, StartCall(s) PROVE call'[t].pc # "idle"
      <4>1. \E pc \in {"store", "lock"} : \E id, once, us :
              call' = [call EXCEPT ![s] = InCall(pc, id, once, us)]
        BY <3>1, Zenon DEF StartCall, Register, RegisterByMilSec, LoadId, UnRegister
      <4> QED
        BY <1>1, <4>1, <2>t DEF InCall
    <3>2. ASSUME NEW s \in Threads, s # t, CallStep(s) PROVE call'[t].pc # "idle"
      BY <1>1, <3>2, <2>t DEF CallStep, StoreId, TryLock, Insert, ReturnId, LockToFind,
         MarkFound, NotFound
    <3>3. CallStep(t) => NotFound(t)
      BY <1>1, <2>3 DEF CallStep, StoreId, TryLock, Insert, ReturnId, LockToFind, MarkFound
    <3>4. Update \/ Tick \/ UNCHANGED vars => UNCHANGED call
      BY DEF Update, BeginUpdate, BeginPass, EraseMarked, SkipTimer, RunCallback,
         CallbackReturns, EndPass, Tick, vars
    <3> QED
      BY <1>1, <3>1, <3>2, <3>3, <3>4 DEF Next
  <2>6. call'[t].pc = "lock"
    BY <2>4, <2>5, <2>t DEF NotFound
  <2> QED
    BY <1>1, <2>6
<1>2. IInv /\ OwnInv /\ [Next]_vars =>
        [\A t \in Threads \ {Runner} :
           call[t].pc = "find" /\ call'[t].pc = "idle" =>
             ~(upd.at = "callback" /\ upd.it = call[t].id)]_vars
  BY <1>1
<1> QED
  BY <1>2, OwnInvariance, PTL DEF Spec, SynchronousCancel
=============================================================================
