------------------------- MODULE TimerServiceProofs -------------------------
(***************************************************************************)
(* What a user of TimerThread may rely on, proved for any threads,         *)
(* intervals and bounds as long as one thread at a time registers: it is   *)
(* the timer service of TimerService, and no callback comes early.         *)
(***************************************************************************)
EXTENDS TimerRefinement, TimerEngineProofs

-----------------------------------------------------------------------------
(* The refinement: what the four variables of the service depend on.       *)

(* Timer i of map m is one that will still run.                            *)
Live(m, i, once) == i \in Keys(m) /\ timers[m][i].once = once /\ ~timers[m][i].del

LEMMA UnmarkedIsLive ==
  \A once : Unmarked(once) = {i \in Ids : \E m \in Maps : Live(m, i, once)}
  BY Zenon DEF Unmarked, Live

(* Steps that the service does not see.                                    *)
LEMMA Invisible ==
  ASSUME UNCHANGED <<curId, timers>>, Running' = Running, Registering' = Registering
  PROVE  UNCHANGED Service!svars
<1>1. \A once : Unmarked(once)' = Unmarked(once)
  BY DEF Unmarked, Keys
<1> QED
  BY <1>1 DEF Service!svars

(* At most the one thread that registers is between the store and the      *)
(* insert, and its number is the newest one.                               *)
LEMMA OneRegistering ==
  ASSUME SingleRegistrar, OwnInv, NEW t \in Threads,
         call[t].pc \in {"store", "try", "insert", "return"}
  PROVE  Registering = IF call[t].pc \in {"try", "insert"} THEN {curId} ELSE {}
<1>1. \A s \in Threads : call[s].pc \in {"try", "insert"} => s = t /\ call[s].id = curId
  BY DEF OwnInv, FreshInv, SingleRegistrar
<1> QED
  BY <1>1 DEF Registering

-----------------------------------------------------------------------------
LEMMA ServiceInit == Init => Service!Init
<1> SUFFICES ASSUME Init PROVE Service!Init
  OBVIOUS
<1>1. Registering = {} /\ 1..curId = {}
  BY DEF Init, Registering, Idle, InCall
<1>2. Keys(1) = {} /\ Keys(2) = {}
  BY DEF Init, Keys, Maps
<1>3. \A once : Unmarked(once) = {}
  BY <1>2 DEF Unmarked, Maps
<1>4. Running = 0
  BY DEF Init, Running
<1> QED
  BY <1>1, <1>3, <1>4 DEF Service!Init

(* A call begins, takes or gives up a mutex, or returns: invisible.        *)
LEMMA CallInvisible ==
  ASSUME IInv, NEW t \in Threads,
         StartCall(t) \/ TryLock(t) \/ ReturnId(t) \/ LockToFind(t) \/ NotFound(t)
  PROVE  UNCHANGED Service!svars
<1>t. call \in [Threads -> [pc : {"idle", "store", "try", "insert", "return", "lock", "find"},
                            map : Maps, id : 0..MaxId, once : BOOLEAN,
                            interval : Nat, start : Nat]]
  BY DEF IInv, TypeOK
<1> DEFINE Kept(s) == /\ call'[s].pc \in {"try", "insert"} <=> call[s].pc \in {"try", "insert"}
                      /\ call[s].pc \in {"try", "insert"} => call'[s].id = call[s].id
<1>1. UNCHANGED <<curId, timers, upd>>
  BY Zenon DEF StartCall, Register, RegisterByMilSec, LoadId, UnRegister,
               TryLock, ReturnId, LockToFind, NotFound
<1>2. \A s \in Threads : Kept(s)
  <2>1. CASE \E once, us : LoadId(t, once, us)
    BY <1>t, <2>1 DEF LoadId, MayCall, InCall
  <2>2. CASE \E id \in Ids : UnRegister(t, id)
    BY <1>t, <2>2 DEF UnRegister, MayCall, InCall
  <2>3. CASE TryLock(t)
    BY <1>t, <2>3 DEF TryLock
  <2>4. CASE ReturnId(t)
    BY <1>t, <2>4 DEF ReturnId, Idle, InCall
  <2>5. CASE LockToFind(t)
    BY <1>t, <2>5 DEF LockToFind
  <2>6. CASE NotFound(t)
    BY <1>t, <2>6 DEF NotFound, Idle, InCall
  <2>7. StartCall(t) => (\E once, us : LoadId(t, once, us)) \/ \E id \in Ids : UnRegister(t, id)
    BY Zenon DEF StartCall, Register, RegisterByMilSec
  <2> QED
    BY <2>1, <2>2, <2>3, <2>4, <2>5, <2>6, <2>7
<1>3. Registering' = Registering
  BY <1>2 DEF Registering
<1> QED
  BY <1>1, <1>3, Invisible DEF Running

(* The store makes the number known to Registering and to curId at once.   *)
LEMMA StoreInvisible ==
  ASSUME SingleRegistrar, IInv, OwnInv, OwnInv', NEW t \in Threads, StoreId(t)
  PROVE  UNCHANGED Service!svars
<1>t. /\ call \in [Threads -> [pc : {"idle", "store", "try", "insert", "return", "lock", "find"},
                               map : Maps, id : 0..MaxId, once : BOOLEAN,
                               interval : Nat, start : Nat]]
      /\ curId \in Nat
  BY ConstantsAssumption DEF IInv, TypeOK
<1>1. call[t].pc = "store" /\ call[t].id = curId /\ curId' = curId + 1
  BY <1>t DEF StoreId, OwnInv, FreshInv
<1>2. call'[t].pc = "try" /\ call'[t].id = curId'
  BY <1>t, <1>1 DEF StoreId
<1>3. Registering = {}
  BY <1>1, OneRegistering
<1>4. Registering' = {curId'}
  <2>1. \A s \in Threads : call'[s].pc \in {"try", "insert"} => s = t /\ call'[s].id = curId'
    BY <1>2 DEF OwnInv, FreshInv, SingleRegistrar
  <2> QED
    BY <1>2, <2>1 DEF Registering
<1>5. ((1..curId) \ Registering)' = (1..curId) \ Registering
  BY <1>t, <1>1, <1>3, <1>4
<1>6. Running' = Running /\ \A once : Unmarked(once)' = Unmarked(once)
  BY DEF StoreId, Running, Unmarked, Keys
<1> QED
  BY <1>5, <1>6 DEF Service!svars

(* insert is where the timer comes to life.                                *)
LEMMA InsertAdds ==
  ASSUME SingleRegistrar, IInv, OwnInv, OwnInv', NEW t \in Threads, Insert(t)
  PROVE  Service!Add(curId)
<1>t. /\ call \in [Threads -> [pc : {"idle", "store", "try", "insert", "return", "lock", "find"},
                               map : Maps, id : 0..MaxId, once : BOOLEAN,
                               interval : Nat, start : Nat]]
      /\ timers \in [Maps -> [Ids -> Timer \cup {Absent}]]
      /\ call[t].pc = "insert" /\ call[t].id = curId /\ curId \in Ids
      /\ curId \notin Known /\ curId \in Nat /\ curId # 0
  <2>1. /\ call[t].pc = "insert" /\ call[t].id = curId /\ curId \in Ids
        /\ curId \notin Known
    BY DEF IInv, TypeOK, Insert, OwnInv, FreshInv
  <2>2. curId \in Nat /\ curId # 0
    BY <2>1, ConstantsAssumption DEF Ids
  <2> QED
    BY <2>1, <2>2 DEF IInv, TypeOK
<1>m. PICK m \in Maps : m = call[t].map
  BY DEF IInv, TypeOK
<1>1. UNCHANGED <<curId, upd>> /\ call' = [call EXCEPT ![t].pc = "return"]
  BY DEF Insert
<1>2. \A n \in Maps : curId \notin Keys(n) /\ timers[n][curId] = Absent
  BY <1>t DEF Known, Keys, Maps
<1>3. timers' = [timers EXCEPT ![m][curId] = NewTimer(call[t])]
  BY <1>t, <1>m, <1>2 DEF Insert
<1>4. /\ NewTimer(call[t]) \in Timer /\ NewTimer(call[t]) # Absent
      /\ NewTimer(call[t]).once = call[t].once /\ ~NewTimer(call[t]).del
  <2>1. NewTimer(call[t]) \in Timer
    BY <1>t DEF NewTimer, Timer
  <2> QED
    BY <2>1, ConstantsAssumption DEF NewTimer
<1>5. \A n \in Maps, i \in Ids : ~(n = m /\ i = curId) => timers'[n][i] = timers[n][i]
  BY <1>t, <1>3
<1>6. timers'[m][curId] = NewTimer(call[t])
  BY <1>t, <1>3
<1>7. \A n \in Maps, i \in Ids, once \in BOOLEAN :
        Live(n, i, once)' <=> Live(n, i, once) \/ (n = m /\ i = curId /\ once = call[t].once)
  <2> TAKE n \in Maps, i \in Ids, once \in BOOLEAN
  <2>1. CASE n = m /\ i = curId
    BY <1>2, <1>4, <1>6, <2>1, Zenon DEF Live, Keys
  <2>2. CASE ~(n = m /\ i = curId)
    <3>1. timers'[n][i] = timers[n][i]
      BY <1>5, <2>2
    <3> QED
      BY <2>2, <3>1, Zenon DEF Live, Keys
  <2> QED
    BY <2>1, <2>2
<1>8. \A once \in BOOLEAN :
        Unmarked(once)' = Unmarked(once) \cup (IF once = call[t].once THEN {curId} ELSE {})
  <2> TAKE once \in BOOLEAN
  <2>1. Unmarked(once)' = {i \in Ids : \E n \in Maps : Live(n, i, once)'}
    BY Zenon DEF Unmarked, Live
  <2>2. Unmarked(once) = {i \in Ids : \E n \in Maps : Live(n, i, once)}
    BY UnmarkedIsLive
  <2>3. \A i \in Ids : (\E n \in Maps : Live(n, i, once)')
          <=> (\E n \in Maps : Live(n, i, once)) \/ (i = curId /\ once = call[t].once)
    BY <1>7, Zenon
  <2> QED
    BY <1>t, <2>1, <2>2, <2>3
<1>9. Running' = Running /\ Running # curId
  <2>1. upd.at = "callback" => upd.it \in Keys(upd.pass) /\ upd.pass \in Maps
    BY DEF IInv, ItInv, TypeOK
  <2> QED
    BY <1>t, <1>1, <1>2, <2>1 DEF Running
<1>10. Registering = {curId} /\ Registering' = {}
  <2>1. call'[t].pc = "return"
    BY <1>t, <1>1
  <2>2. \A s \in Threads : call'[s].pc \notin {"try", "insert"}
    BY <2>1 DEF OwnInv, FreshInv, SingleRegistrar
  <2> QED
    BY <1>t, <2>2, OneRegistering DEF Registering
<1>11. /\ curId \notin (1..curId) \ Registering
       /\ ((1..curId) \ Registering)' = ((1..curId) \ Registering) \cup {curId}
  BY <1>t, <1>1, <1>10 DEF Ids
<1>12. CASE call[t].once = FALSE
  BY <1>8, <1>9, <1>11, <1>12 DEF Service!Add
<1>13. CASE call[t].once = TRUE
  <2>1. Unmarked(TRUE)' = Unmarked(TRUE) \cup {curId} /\ Unmarked(FALSE)' = Unmarked(FALSE)
    BY <1>8, <1>13
  <2>2. (Unmarked(TRUE) \ {Running})' = (Unmarked(TRUE) \ {Running}) \cup {curId}
    BY <1>9, <2>1
  <2> QED
    BY <1>9, <1>11, <2>1, <2>2 DEF Service!Add
<1> QED
  BY <1>12, <1>13, <1>t

(* A change of timer j of map m: what it does to the timers that will run. *)
LEMMA OneTimerChanges ==
  ASSUME IInv, OwnInv, NEW m \in Maps, NEW j \in Keys(m), NEW once \in BOOLEAN,
         \A n \in Maps, i \in Ids : ~(n = m /\ i = j) => timers'[n][i] = timers[n][i]
  PROVE  Unmarked(once)' = (Unmarked(once) \ {j}) \cup {i \in {j} : Live(m, j, once)'}
<1>1. j \in Ids /\ \A n \in Maps : n # m => j \notin Keys(n)
  BY DEF Keys, OwnInv, OneHome, Maps
<1>2. \A n \in Maps : n # m => ~Live(n, j, once) /\ ~Live(n, j, once)'
  <2>1. \A n \in Maps : n # m => timers'[n][j] = timers[n][j]
    BY <1>1
  <2> QED
    BY <1>1, <2>1, Zenon DEF Live, Keys
<1>3. \A n \in Maps, i \in Ids : i # j => (Live(n, i, once)' <=> Live(n, i, once))
  BY Zenon DEF Live, Keys
<1>4. Unmarked(once)' = {i \in Ids : \E n \in Maps : Live(n, i, once)'}
  BY Zenon DEF Unmarked, Live
<1>5. Unmarked(once) = {i \in Ids : \E n \in Maps : Live(n, i, once)}
  BY UnmarkedIsLive
<1>6. \A i \in Ids : (\E n \in Maps : Live(n, i, once)')
        <=> (i # j /\ \E n \in Maps : Live(n, i, once)) \/ (i = j /\ Live(m, j, once)')
  BY <1>2, <1>3, Zenon
<1> QED
  BY <1>1, <1>4, <1>5, <1>6

(* Whether timer j of map m will run says whether the service has it.      *)
LEMMA LiveIsUnmarked ==
  ASSUME IInv, OwnInv, NEW m \in Maps, NEW j \in Keys(m), NEW once \in BOOLEAN
  PROVE  j \in Unmarked(once) <=> Live(m, j, once)
<1>1. j \in Ids /\ \A n \in Maps : n # m => j \notin Keys(n)
  BY DEF Keys, OwnInv, OneHome, Maps
<1>2. j \in Unmarked(once) <=> \E n \in Maps : Live(n, j, once)
  BY <1>1, UnmarkedIsLive
<1> QED
  BY <1>1, <1>2, Zenon DEF Live

(* UnRegister's mark is the cancellation.                                  *)
LEMMA MarkCancels ==
  ASSUME IInv, OwnInv, NEW t \in Threads, MarkFound(t)
  PROVE  call[t].id \in Ids /\ Service!Cancel(call[t].id)
<1>t. /\ call \in [Threads -> [pc : {"idle", "store", "try", "insert", "return", "lock", "find"},
                               map : Maps, id : 0..MaxId, once : BOOLEAN,
                               interval : Nat, start : Nat]]
      /\ timers \in [Maps -> [Ids -> Timer \cup {Absent}]]
  BY DEF IInv, TypeOK
<1>n. PICK m \in Maps : m = call[t].map
  BY <1>t
<1>m. PICK j \in Keys(m) : j = call[t].id
  BY <1>n DEF MarkFound
<1>1. timers' = [timers EXCEPT ![m][j].del = TRUE] /\ UNCHANGED <<curId, upd>>
  BY <1>n, <1>m DEF MarkFound
<1>2. j \in Ids /\ timers[m][j] \in Timer
  BY <1>t, <1>m DEF Keys
<1>3. \A n \in Maps, i \in Ids : ~(n = m /\ i = j) => timers'[n][i] = timers[n][i]
  BY <1>t, <1>1, <1>2
<1>4. timers'[m][j].del
  BY <1>t, <1>1, <1>2 DEF Timer
<1>5. \A once \in BOOLEAN : Unmarked(once)' = Unmarked(once) \ {j}
  <2> TAKE once \in BOOLEAN
  <2>1. ~Live(m, j, once)'
    BY <1>4, Zenon DEF Live
  <2>2. Unmarked(once)' = (Unmarked(once) \ {j}) \cup {i \in {j} : Live(m, j, once)'}
    BY <1>3, <1>m, OneTimerChanges
  <2> QED
    BY <2>1, <2>2
<1>6. Registering' = Registering
  <2>1. call[t].pc = "find" /\ call' = [call EXCEPT ![t] = Idle]
    BY DEF MarkFound
  <2>2. \A s \in Threads : /\ call'[s].pc \in {"try", "insert"} <=> call[s].pc \in {"try", "insert"}
                           /\ call[s].pc \in {"try", "insert"} => call'[s].id = call[s].id
    BY <1>t, <2>1 DEF Idle, InCall
  <2> QED
    BY <2>2 DEF Registering
<1>7. Running' = Running
  BY <1>1 DEF Running
<1>8. Unmarked(FALSE)' = Unmarked(FALSE) \ {j} /\ Unmarked(TRUE)' = Unmarked(TRUE) \ {j}
  BY <1>5
<1>9. /\ (Unmarked(TRUE) \ {Running})' = (Unmarked(TRUE) \ {Running}) \ {j}
      /\ ((1..curId) \ Registering)' = (1..curId) \ Registering
  BY <1>1, <1>6, <1>7, <1>8
<1> QED
  BY <1>m, <1>2, <1>7, <1>8, <1>9 DEF Service!Cancel

(* Update locks, walks on, skips and unlocks: invisible.                   *)
LEMMA WalkInvisible ==
  ASSUME IInv, BeginUpdate \/ BeginPass \/ SkipTimer \/ EndPass
  PROVE  UNCHANGED Service!svars
<1>t. upd \in [at : {"out", "lock", "loop", "callback"}, pass : Maps, it : 0..EndIt]
  BY DEF IInv, TypeOK
<1>1. UNCHANGED <<curId, timers, call>>
  BY DEF BeginUpdate, BeginPass, SkipTimer, EndPass
<1>2. upd.at # "callback"
  BY DEF BeginUpdate, BeginPass, SkipTimer, EndPass, InLoop
<1>3. upd'.at # "callback"
  <2>1. BeginUpdate => upd'.at # "callback"
    BY DEF BeginUpdate
  <2>2. BeginPass => upd'.at # "callback"
    BY <1>t DEF BeginPass
  <2>3. SkipTimer => upd'.at # "callback"
    BY <1>t DEF SkipTimer, InLoop
  <2>4. EndPass => upd'.at # "callback"
    BY DEF EndPass
  <2> QED
    BY <2>1, <2>2, <2>3, <2>4
<1>4. Running' = Running /\ Registering' = Registering
  BY <1>1, <1>2, <1>3 DEF Running, Registering
<1> QED
  BY <1>1, <1>4, Invisible

(* The erase of a marked timer comes after its cancellation: invisible.    *)
LEMMA EraseInvisible ==
  ASSUME IInv, OwnInv, EraseMarked
  PROVE  UNCHANGED Service!svars
<1>t. /\ upd \in [at : {"out", "lock", "loop", "callback"}, pass : Maps, it : 0..EndIt]
      /\ timers \in [Maps -> [Ids -> Timer \cup {Absent}]]
      /\ upd.it \in Keys(upd.pass)
  BY DEF IInv, TypeOK, ItInv, EraseMarked, InLoop
<1>n. PICK m \in Maps : m = upd.pass
  BY <1>t
<1>m. PICK j \in Keys(m) : j = upd.it
  BY <1>t, <1>n
<1>1. /\ timers' = [timers EXCEPT ![m][j] = Absent] /\ timers[m][j].del
      /\ UNCHANGED <<curId, call>>
      /\ upd.at = "loop" /\ upd'.at = "loop"
  BY <1>t, <1>n, <1>m DEF EraseMarked, Current, InLoop
<1>2. j \in Ids
  BY DEF Keys
<1>3. \A n \in Maps, i \in Ids : ~(n = m /\ i = j) => timers'[n][i] = timers[n][i]
  BY <1>t, <1>1
<1>4. timers'[m][j] = Absent
  BY <1>t, <1>1, <1>2
<1>5. \A once \in BOOLEAN : Unmarked(once)' = Unmarked(once)
  <2> TAKE once \in BOOLEAN
  <2>1. ~Live(m, j, once)' /\ ~Live(m, j, once)
    BY <1>1, <1>4, Zenon DEF Live, Keys
  <2>2. Unmarked(once)' = (Unmarked(once) \ {j}) \cup {i \in {j} : Live(m, j, once)'}
    BY <1>3, OneTimerChanges
  <2>3. j \notin Unmarked(once)
    BY <2>1, LiveIsUnmarked
  <2> QED
    BY <2>1, <2>2, <2>3
<1>6. Running' = Running /\ Registering' = Registering
  BY <1>1 DEF Running, Registering
<1>7. Unmarked(FALSE)' = Unmarked(FALSE) /\ Unmarked(TRUE)' = Unmarked(TRUE)
  BY <1>5
<1> QED
  BY <1>1, <1>6, <1>7 DEF Service!svars

(* A callback starts: one timer that the service has, and no other runs.   *)
LEMMA CallbackRuns ==
  ASSUME IInv, OwnInv, RunCallback
  PROVE  upd.it \in Ids /\ Service!Run(upd.it)
<1>t. /\ upd \in [at : {"out", "lock", "loop", "callback"}, pass : Maps, it : 0..EndIt]
      /\ timers \in [Maps -> [Ids -> Timer \cup {Absent}]]
      /\ upd.it \in Keys(upd.pass)
  BY DEF IInv, TypeOK, ItInv, RunCallback, InLoop
<1>n. PICK m \in Maps : m = upd.pass
  BY <1>t
<1>m. PICK j \in Keys(m) : j = upd.it
  BY <1>t, <1>n
<1>1. /\ UNCHANGED <<curId, timers, call>> /\ ~timers[m][j].del
      /\ upd.at = "loop" /\ upd'.at = "callback" /\ upd'.it = j
  BY <1>t, <1>n, <1>m DEF RunCallback, Current, InLoop
<1>2. j \in Ids /\ j # 0 /\ timers[m][j] \in Timer
  <2>1. j \in Ids /\ timers[m][j] \in Timer
    BY <1>t DEF Keys
  <2> QED
    BY <2>1 DEF Ids
<1>3. Running = 0 /\ Running' = j /\ Registering' = Registering
  BY <1>1 DEF Running, Registering
<1>4. \A once : Unmarked(once)' = Unmarked(once)
  BY <1>1 DEF Unmarked, Keys
<1>5. PICK once \in BOOLEAN : j \in Unmarked(once)
  <2>1. PICK once \in BOOLEAN : timers[m][j].once = once
    BY <1>2 DEF Timer
  <2>2. Live(m, j, once)
    BY <1>1, <2>1, Zenon DEF Live
  <2> QED
    BY <2>2, LiveIsUnmarked
<1>6. 0 \notin Unmarked(TRUE)
  BY DEF Unmarked, Ids
<1>7. j \in Unmarked(FALSE) \cup (Unmarked(TRUE) \ {Running})
  BY <1>2, <1>3, <1>5
<1>8. /\ (Unmarked(TRUE) \ {Running})' = (Unmarked(TRUE) \ {Running}) \ {j}
      /\ ((1..curId) \ Registering)' = (1..curId) \ Registering
      /\ Unmarked(FALSE)' = Unmarked(FALSE)
  BY <1>1, <1>3, <1>4, <1>6
<1> QED
  BY <1>m, <1>2, <1>3, <1>7, <1>8 DEF Service!Run

(* A callback is over.  A run_once timer is erased now, and the service    *)
(* has not had it since it started.                                        *)
LEMMA CallbackFinishes ==
  ASSUME IInv, OwnInv, CallbackReturns
  PROVE  Service!Finish
<1>t. /\ upd \in [at : {"out", "lock", "loop", "callback"}, pass : Maps, it : 0..EndIt]
      /\ timers \in [Maps -> [Ids -> Timer \cup {Absent}]]
      /\ upd.it \in Keys(upd.pass)
      /\ Current \in Timer /\ clock \in Nat
  BY CurrentIsTimer DEF IInv, TypeOK, ItInv, CallbackReturns
<1>n. PICK m \in Maps : m = upd.pass
  BY <1>t
<1>m. PICK j \in Keys(m) : j = upd.it
  BY <1>t, <1>n
<1>1. /\ timers' = [timers EXCEPT ![m][j] = AfterCallback(timers[m][j])]
      /\ UNCHANGED <<curId, call>>
      /\ upd.at = "callback" /\ upd'.at = "loop"
  BY <1>t, <1>n, <1>m DEF CallbackReturns, Current
<1>2. j \in Ids /\ j # 0 /\ timers[m][j] \in Timer
  BY <1>t, <1>n, <1>m DEF Keys, Ids, Current
<1>3. \A n \in Maps, i \in Ids : ~(n = m /\ i = j) => timers'[n][i] = timers[n][i]
  BY <1>t, <1>1
<1>4. timers'[m][j] = AfterCallback(timers[m][j])
  BY <1>t, <1>1, <1>2
<1>5. Running = j /\ Running' = 0 /\ Registering' = Registering
  BY <1>1, <1>m DEF Running, Registering
<1>6. ~Live(m, j, TRUE)'
  <2>1. CASE timers[m][j].once
    BY <1>4, <2>1 DEF AfterCallback, Live, Keys
  <2>2. CASE ~timers[m][j].once
    <3>1. AfterCallback(timers[m][j]).once = timers[m][j].once
      BY <1>2, <2>2 DEF AfterCallback, Rearmed, Timer
    <3> QED
      BY <1>4, <2>2, <3>1, Zenon DEF Live
  <2> QED
    BY <2>1, <2>2
<1>7. Live(m, j, FALSE)' <=> Live(m, j, FALSE)
  <2>1. CASE timers[m][j].once
    <3>1. timers'[m][j] = Absent
      BY <1>4, <2>1 DEF AfterCallback
    <3>2. timers[m][j].once # FALSE
      BY <2>1
    <3> QED
      BY <3>1, <3>2, Zenon DEF Live, Keys
  <2>2. CASE ~timers[m][j].once
    <3>1. /\ AfterCallback(timers[m][j]).once = timers[m][j].once
          /\ AfterCallback(timers[m][j]).del = timers[m][j].del
          /\ AfterCallback(timers[m][j]) \in Timer
      BY <1>t, <1>2, <2>2 DEF AfterCallback, Rearmed, Timer
    <3>2. timers'[m][j] # Absent /\ timers[m][j] # Absent
      BY <1>2, <1>4, <3>1, ConstantsAssumption
    <3> QED
      BY <1>2, <1>4, <3>1, <3>2, Zenon DEF Live, Keys
  <2> QED
    BY <2>1, <2>2
<1>8. Unmarked(TRUE)' = Unmarked(TRUE) \ {j}
  <2>1. Unmarked(TRUE)' = (Unmarked(TRUE) \ {j}) \cup {i \in {j} : Live(m, j, TRUE)'}
    BY <1>3, OneTimerChanges
  <2> QED
    BY <1>6, <2>1
<1>9. Unmarked(FALSE)' = Unmarked(FALSE)
  <2>1. Unmarked(FALSE)' = (Unmarked(FALSE) \ {j}) \cup {i \in {j} : Live(m, j, FALSE)'}
    BY <1>3, OneTimerChanges
  <2>2. j \in Unmarked(FALSE) <=> Live(m, j, FALSE)
    BY LiveIsUnmarked
  <2> QED
    BY <1>7, <2>1, <2>2
<1>10. 0 \notin Unmarked(TRUE)
  BY DEF Unmarked, Ids
<1>11. /\ (Unmarked(TRUE) \ {Running})' = Unmarked(TRUE) \ {Running}
       /\ ((1..curId) \ Registering)' = (1..curId) \ Registering
  BY <1>1, <1>5, <1>8, <1>10
<1> QED
  BY <1>2, <1>5, <1>9, <1>11 DEF Service!Finish

-----------------------------------------------------------------------------
LEMMA ServiceStep ==
  ASSUME SingleRegistrar, IInv, OwnInv, OwnInv', [Next]_vars
  PROVE  [Service!Next]_(Service!svars)
<1>1. CASE Tick \/ UNCHANGED vars
  <2>1. UNCHANGED <<curId, timers, call, upd>>
    BY <1>1 DEF Tick, vars
  <2>2. Running' = Running /\ Registering' = Registering
    BY <2>1 DEF Running, Registering
  <2> QED
    BY <2>1, <2>2, Invisible
<1>2. ASSUME NEW t \in Threads, StartCall(t) \/ CallStep(t)
      PROVE  [Service!Next]_(Service!svars)
  <2>1. CASE Insert(t)
    <3>1. curId \in Ids
      BY <2>1 DEF Insert, IInv, TypeOK
    <3> QED
      BY <2>1, <3>1, InsertAdds DEF Service!Next
  <2>2. CASE MarkFound(t)
    BY <2>2, MarkCancels DEF Service!Next
  <2> QED
    BY <1>2, <2>1, <2>2, StoreInvisible, CallInvisible DEF CallStep
<1>3. CASE Update
  <2>1. CASE RunCallback
    BY <2>1, CallbackRuns DEF Service!Next
  <2>2. CASE CallbackReturns
    BY <2>2, CallbackFinishes DEF Service!Next
  <2> QED
    BY <1>3, <2>1, <2>2, WalkInvisible, EraseInvisible DEF Update
<1> QED
  BY <1>1, <1>2, <1>3 DEF Next

(* Two maps, two locks, a clock and the calls between their steps are the  *)
(* timer service of TimerService, for whatever threads cancel and whatever *)
(* the callbacks do.                                                       *)
THEOREM EngineImplementsService ==
  ASSUME SingleRegistrar
  PROVE  Spec => ImplementsService
<1>1. IInv /\ OwnInv /\ OwnInv' /\ [Next]_vars => [Service!Next]_(Service!svars)
  BY ServiceStep
<1> QED
  BY <1>1, ServiceInit, OwnInvariance, PTL DEF Spec, ImplementsService, Service!Spec

-----------------------------------------------------------------------------
(* Callbacks are not early.                                                *)

LEMMA DivMod ==
  ASSUME NEW d \in Nat \ {0}, NEW a \in Int
  PROVE  a \div d \in Int /\ a % d \in 0..(d - 1) /\ a = d * (a \div d) + (a % d)
  OBVIOUS

LEMMA TimesMonotone ==
  ASSUME NEW d \in Nat, NEW a \in Int, NEW b \in Int, a <= b
  PROVE  d * a <= d * b
  OBVIOUS

LEMMA DivMonotone ==
  ASSUME NEW d \in Nat \ {0}, NEW a \in Int, NEW b \in Int, a <= b
  PROVE  a \div d <= b \div d
<1> DEFINE p == a \div d
           q == b \div d
<1>1. p \in Int /\ q \in Int /\ d * p <= a /\ b < d * (q + 1)
  BY DivMod
<1> HIDE DEF p, q
<1>2. CASE q + 1 <= p
  <2>1. d * (q + 1) <= d * p
    BY <1>1, <1>2, TimesMonotone
  <2>2. d * (q + 1) \in Int /\ d * p \in Int
    BY <1>1
  <2> QED
    BY <1>1, <2>1, <2>2
<1> QED
  BY <1>1, <1>2 DEF p, q

(* The later the start, the shorter the time that has passed since.        *)
LEMMA ElapsedMonotone ==
  ASSUME NEW now \in Nat, NEW s \in Nat, NEW b \in Nat, b <= s
  PROVE  /\ Elapsed(now, s) \in Int /\ Elapsed(now, b) \in Int
         /\ Elapsed(now, s) <= Elapsed(now, b)
<1> DEFINE x == (now - s) * UsInSec
           y == (now - b) * UsInSec
<1>1. x \in Int /\ y \in Int /\ x <= y
  BY DEF UsInSec
<1> HIDE DEF x, y
<1>2. ClkTck \in Nat \ {0}
  BY ConstantsAssumption
<1>3. x \div ClkTck <= y \div ClkTck /\ x \div ClkTck \in Int /\ y \div ClkTck \in Int
  BY <1>1, <1>2, DivMonotone, DivMod
<1> QED
  BY <1>3 DEF Elapsed, x, y

(* A timer counts its whole interval, from no earlier than when it was     *)
(* registered or last began to run; only while its callback runs is its    *)
(* start older than that.                                                  *)
EarlyInv ==
  /\ \A i \in Ids : base[i] <= clock
  /\ \A t \in Threads : call[t].pc \in {"try", "insert"} => base[call[t].id] <= call[t].start
  /\ \A m \in Maps : \A i \in Keys(m) :
       /\ timers[m][i].left = timers[m][i].interval
       /\ \/ base[i] <= timers[m][i].start
          \/ upd.at = "callback" /\ upd.pass = m /\ upd.it = i

LEMMA InitEarly == Init => EarlyInv
<1> SUFFICES ASSUME Init PROVE EarlyInv
  OBVIOUS
<1>1. Keys(1) = {} /\ Keys(2) = {}
  BY DEF Init, Keys, Maps
<1> QED
  BY <1>1 DEF Init, EarlyInv, Idle, InCall, Maps

LEMMA EarlyStep ==
  ASSUME SingleRegistrar, IInv, OwnInv, EarlyInv, [Next]_vars
  PROVE  EarlyInv'
<1>t. /\ call \in [Threads -> [pc : {"idle", "store", "try", "insert", "return", "lock", "find"},
                               map : Maps, id : 0..MaxId, once : BOOLEAN,
                               interval : Nat, start : Nat]]
      /\ timers \in [Maps -> [Ids -> Timer \cup {Absent}]]
      /\ upd \in [at : {"out", "lock", "loop", "callback"}, pass : Maps, it : 0..EndIt]
      /\ clock \in Nat /\ base \in [Ids -> Nat]
      /\ \A t \in Threads : call[t].pc \in {"try", "insert"} => call[t].id \in Ids
  BY DEF IInv, TypeOK
<1>k. UNCHANGED timers => \A m : Keys(m)' = Keys(m)
  BY DEF Keys
<1>1. CASE Tick \/ UNCHANGED vars
  <2>1. UNCHANGED <<timers, call, upd, base>> /\ clock' >= clock /\ clock' \in Nat
    BY <1>1, <1>t DEF Tick, vars
  <2> QED
    BY <1>t, <1>k, <2>1 DEF EarlyInv
<1>2. ASSUME NEW t \in Threads,
             StartCall(t) \/ TryLock(t) \/ ReturnId(t) \/ LockToFind(t) \/ NotFound(t)
      PROVE  EarlyInv'
  <2>1. UNCHANGED <<timers, upd, clock, base>>
    BY <1>2, Zenon DEF StartCall, Register, RegisterByMilSec, LoadId, UnRegister,
                       TryLock, ReturnId, LockToFind, NotFound
  <2> DEFINE Kept(s) == call'[s].pc \in {"try", "insert"} =>
                          /\ call[s].pc \in {"try", "insert"}
                          /\ call'[s].id = call[s].id /\ call'[s].start = call[s].start
  <2>2. \A s \in Threads : Kept(s)
    <3>1. CASE \E once, us : LoadId(t, once, us)
      BY <1>t, <3>1 DEF LoadId, InCall
    <3>2. CASE \E id \in Ids : UnRegister(t, id)
      BY <1>t, <3>2 DEF UnRegister, InCall
    <3>3. CASE TryLock(t)
      BY <1>t, <3>3 DEF TryLock
    <3>4. CASE ReturnId(t)
      BY <1>t, <3>4 DEF ReturnId, Idle, InCall
    <3>5. CASE LockToFind(t)
      BY <1>t, <3>5 DEF LockToFind
    <3>6. CASE NotFound(t)
      BY <1>t, <3>6 DEF NotFound, Idle, InCall
    <3>7. StartCall(t) => (\E once, us : LoadId(t, once, us)) \/ \E id \in Ids : UnRegister(t, id)
      BY Zenon DEF StartCall, Register, RegisterByMilSec
    <3> QED
      BY <1>2, <3>1, <3>2, <3>3, <3>4, <3>5, <3>6, <3>7
  <2> QED
    BY <1>k, <2>1, <2>2 DEF EarlyInv
<1>3. ASSUME NEW t \in Threads, StoreId(t)
      PROVE  EarlyInv'
  <2>1. /\ call[t].pc = "store" /\ call[t].id = curId /\ curId \in Nat /\ curId + 1 \in Ids
        /\ t \in Registrars
    <3>1. /\ call[t].pc = "store" /\ call[t].id = curId /\ t \in Registrars
      BY <1>3 DEF StoreId, OwnInv, FreshInv
    <3>2. curId \in 0..MaxId /\ curId < MaxId
      BY <3>1 DEF IInv, TypeOK
    <3> QED
      BY <3>1, <3>2, ConstantsAssumption DEF Ids
  <2>2. /\ call' = [call EXCEPT ![t].pc = "try", ![t].id = curId + 1, ![t].start = clock]
        /\ base' = [base EXCEPT ![curId + 1] = clock]
        /\ UNCHANGED <<timers, upd, clock>>
    BY <1>3, <2>1 DEF StoreId
  <2>3. \A m \in Maps : curId + 1 \notin Keys(m)
    BY <2>1 DEF OwnInv, FreshInv, Known, Maps
  <2>4. \A s \in Threads : s # t => call[s].pc \notin {"try", "insert"}
    BY <2>1 DEF OwnInv, FreshInv, SingleRegistrar
  <2>5. \A i \in Ids : base'[i] = IF i = curId + 1 THEN clock ELSE base[i]
    BY <1>t, <2>2
  <2>6. \A i \in Ids : base'[i] <= clock'
    BY <1>t, <2>2, <2>5 DEF EarlyInv
  <2>7. \A s \in Threads : call'[s].pc \in {"try", "insert"} =>
          s = t /\ call'[s].id = curId + 1 /\ call'[s].start = clock
    BY <1>t, <2>2, <2>4
  <2>8. \A s \in Threads : call'[s].pc \in {"try", "insert"} => base'[call'[s].id] <= call'[s].start
    BY <1>t, <2>1, <2>5, <2>7
  <2>9. \A m \in Maps : \A i \in Keys(m) : i \in Ids /\ base'[i] = base[i]
    BY <2>3, <2>5 DEF Keys
  <2>10. \A m \in Maps : \A i \in Keys(m)' :
           /\ timers'[m][i].left = timers'[m][i].interval
           /\ \/ base'[i] <= timers'[m][i].start
              \/ upd'.at = "callback" /\ upd'.pass = m /\ upd'.it = i
    BY <1>k, <2>2, <2>9 DEF EarlyInv
  <2> QED
    BY <2>6, <2>8, <2>10 DEF EarlyInv
<1>4. ASSUME NEW t \in Threads, Insert(t)
      PROVE  EarlyInv'
  <2>m. PICK m \in Maps : m = call[t].map
    BY <1>t
  <2>1. /\ call[t].pc = "insert" /\ call[t].id = curId /\ curId \in Ids /\ curId \notin Known
    BY <1>4 DEF Insert, IInv, TypeOK, OwnInv, FreshInv
  <2>2. timers[m][curId] = Absent
    BY <1>t, <2>1 DEF Known, Keys, Maps
  <2>3. /\ timers' = [timers EXCEPT ![m][curId] = NewTimer(call[t])]
        /\ call' = [call EXCEPT ![t].pc = "return"]
        /\ UNCHANGED <<upd, clock, base>>
    BY <1>4, <1>t, <2>m, <2>1, <2>2 DEF Insert
  <2>4. \A s \in Threads : call'[s].pc \in {"try", "insert"} => call'[s] = call[s]
    BY <1>t, <2>3
  <2>5. /\ timers'[m][curId] = NewTimer(call[t])
        /\ \A n \in Maps, i \in Ids : ~(n = m /\ i = curId) => timers'[n][i] = timers[n][i]
    BY <1>t, <2>1, <2>3
  <2>6. /\ NewTimer(call[t]).left = NewTimer(call[t]).interval
        /\ base[curId] <= NewTimer(call[t]).start
    BY <2>1 DEF NewTimer, EarlyInv
  <2>7. \A n \in Maps : \A i \in Keys(n)' :
          /\ timers'[n][i].left = timers'[n][i].interval
          /\ base[i] <= timers'[n][i].start \/ (upd.at = "callback" /\ upd.pass = n /\ upd.it = i)
    <3> TAKE n \in Maps
    <3> TAKE i \in Keys(n)'
    <3>0. i \in Ids
      BY DEF Keys
    <3>1. CASE n = m /\ i = curId
      BY <2>5, <2>6, <3>1
    <3>2. CASE ~(n = m /\ i = curId)
      <4>1. timers'[n][i] = timers[n][i] /\ i \in Keys(n)
        BY <2>5, <3>0, <3>2 DEF Keys
      <4> QED
        BY <4>1 DEF EarlyInv
    <3> QED
      BY <3>1, <3>2
  <2> QED
    BY <2>3, <2>4, <2>7 DEF EarlyInv
<1>5. ASSUME NEW t \in Threads, MarkFound(t)
      PROVE  EarlyInv'
  <2>m. PICK m \in Maps : m = call[t].map
    BY <1>t
  <2>j. PICK j \in Keys(m) : j = call[t].id
    BY <1>5, <2>m DEF MarkFound
  <2>1. /\ timers' = [timers EXCEPT ![m][j].del = TRUE]
        /\ call' = [call EXCEPT ![t] = Idle]
        /\ UNCHANGED <<upd, clock, base>>
    BY <1>5, <2>m, <2>j DEF MarkFound
  <2>2. j \in Ids /\ timers[m][j] \in Timer
    BY <1>t DEF Keys
  <2>3. \A n \in Maps, i \in Ids : ~(n = m /\ i = j) => timers'[n][i] = timers[n][i]
    BY <1>t, <2>1
  <2>4. /\ timers'[m][j].left = timers[m][j].left /\ timers'[m][j].start = timers[m][j].start
        /\ timers'[m][j].interval = timers[m][j].interval
    BY <1>t, <2>1, <2>2 DEF Timer
  <2>5. \A s \in Threads : call'[s].pc \in {"try", "insert"} => call'[s] = call[s]
    BY <1>t, <2>1 DEF Idle, InCall
  <2>6. \A n \in Maps : \A i \in Keys(n)' :
          /\ i \in Keys(n)
          /\ timers'[n][i].left = timers[n][i].left /\ timers'[n][i].start = timers[n][i].start
          /\ timers'[n][i].interval = timers[n][i].interval
    BY <2>2, <2>3, <2>4 DEF Keys
  <2> QED
    BY <2>1, <2>5, <2>6 DEF EarlyInv
<1>6. CASE BeginUpdate \/ BeginPass \/ SkipTimer \/ EndPass
  <2>1. UNCHANGED <<timers, call, clock, base>> /\ upd.at # "callback"
    BY <1>6 DEF BeginUpdate, BeginPass, SkipTimer, EndPass, InLoop
  <2> QED
    BY <1>k, <2>1 DEF EarlyInv
<1>7. CASE EraseMarked
  <2>1. UNCHANGED <<call, clock, base>> /\ upd.at # "callback"
    BY <1>7 DEF EraseMarked, InLoop
  <2>2. \A n \in Maps : \A i \in Keys(n)' : i \in Keys(n) /\ timers'[n][i] = timers[n][i]
    BY <1>7, <1>t DEF EraseMarked, Keys
  <2> QED
    BY <2>1, <2>2 DEF EarlyInv
<1>8. CASE RunCallback
  <2>1. /\ UNCHANGED <<timers, call, clock>> /\ base' = [base EXCEPT ![upd.it] = clock]
        /\ upd.at = "loop" /\ upd'.at = "callback" /\ upd'.it = upd.it /\ upd'.pass = upd.pass
    BY <1>8, <1>t DEF RunCallback, InLoop
  <2>2. upd.it \in Keys(upd.pass) /\ upd.it \in Ids /\ upd.pass \in Maps
    BY <1>8, <1>t DEF RunCallback, InLoop, IInv, ItInv, Keys
  <2>3. \A i \in Ids : base'[i] = IF i = upd.it THEN clock ELSE base[i]
    BY <1>t, <2>1
  <2>4. \A i \in Ids : base'[i] <= clock'
    BY <1>t, <2>1, <2>3 DEF EarlyInv
  <2>5. \A s \in Threads : call[s].pc \in {"try", "insert"} => call[s].id # upd.it
    BY <2>2 DEF OwnInv, FreshInv, Known, Maps
  <2>6. \A s \in Threads : call'[s].pc \in {"try", "insert"} => base'[call'[s].id] <= call'[s].start
    BY <1>t, <2>1, <2>3, <2>5 DEF EarlyInv
  <2>7. \A n \in Maps : \A i \in Keys(n) : i = upd.it => n = upd.pass
    BY <2>2 DEF OwnInv, OneHome, Maps
  <2>8. \A n \in Maps : \A i \in Keys(n) : i \in Ids
    BY DEF Keys
  <2> QED
    BY <1>k, <2>1, <2>3, <2>4, <2>6, <2>7, <2>8 DEF EarlyInv
<1>9. CASE CallbackReturns
  <2>1. /\ UNCHANGED <<call, clock, base>>
        /\ timers' = [timers EXCEPT ![upd.pass][upd.it] = AfterCallback(Current)]
        /\ upd.it \in Keys(upd.pass)
    BY <1>9 DEF CallbackReturns, IInv, ItInv
  <2>m. PICK m \in Maps, j \in Ids : m = upd.pass /\ j = upd.it
    BY <1>t, <2>1 DEF Keys
  <2>2. Current \in Timer /\ Current = timers[m][j]
    BY <2>1, <2>m, CurrentIsTimer DEF IInv, Current
  <2>3. /\ timers'[m][j] = AfterCallback(Current)
        /\ \A n \in Maps, i \in Ids : ~(n = m /\ i = j) => timers'[n][i] = timers[n][i]
    BY <1>t, <2>1, <2>m
  <2>4. AfterCallback(Current) # Absent =>
          /\ AfterCallback(Current).left = AfterCallback(Current).interval
          /\ AfterCallback(Current).start = clock
    BY <2>2 DEF AfterCallback, Rearmed, Timer
  <2>5. \A n \in Maps : \A i \in Keys(n)' :
          timers'[n][i].left = timers'[n][i].interval /\ base[i] <= timers'[n][i].start
    <3> TAKE n \in Maps
    <3> TAKE i \in Keys(n)'
    <3>0. i \in Ids /\ timers'[n][i] # Absent
      BY DEF Keys
    <3>1. CASE n = m /\ i = j
      BY <2>3, <2>4, <3>0, <3>1 DEF EarlyInv
    <3>2. CASE ~(n = m /\ i = j)
      <4>1. timers'[n][i] = timers[n][i] /\ i \in Keys(n)
        BY <2>3, <3>0, <3>2 DEF Keys
      <4> QED
        BY <2>m, <3>2, <4>1 DEF EarlyInv
    <3> QED
      BY <3>1, <3>2
  <2> QED
    BY <2>1, <2>5 DEF EarlyInv
<1> QED
  BY <1>1, <1>2, <1>3, <1>4, <1>5, <1>6, <1>7, <1>8, <1>9 DEF Next, CallStep, Update

(* No callback starts before its interval has passed since the timer was   *)
(* registered, or since its callback last started: get_interval_macro_secs *)
(* never overstates, for any clock frequency.                              *)
THEOREM CallbacksAreNotEarly ==
  ASSUME SingleRegistrar
  PROVE  Spec => NeverEarly
<1>1. IInv /\ OwnInv /\ EarlyInv /\ [Next]_vars => EarlyInv'
  BY EarlyStep
<1>2. ASSUME IInv, OwnInv, EarlyInv, [Next]_vars, CallbackStarts
      PROVE  Current.interval <= Elapsed(clock, base[upd.it])
  <2>1. RunCallback
    BY <1>2, OnlyUpdateRuns
  <2>2. upd.it \in Keys(upd.pass) /\ upd.pass \in Maps /\ Due(Current) /\ upd.at = "loop"
    BY <1>2, <2>1 DEF RunCallback, InLoop, IInv, ItInv, TypeOK
  <2>3. Current \in Timer /\ upd.it \in Ids /\ clock \in Nat /\ base[upd.it] \in Nat
    BY <1>2, <2>2, CurrentIsTimer DEF IInv, TypeOK
  <2>4. /\ Current.left = Current.interval /\ base[upd.it] <= Current.start
        /\ Current.start \in Nat /\ Current.interval \in Nat
    BY <1>2, <2>2, <2>3 DEF EarlyInv, Current, Timer
  <2>5. Current.interval <= Elapsed(clock, Current.start)
    BY <2>2, <2>4 DEF Due
  <2> QED
    BY <2>3, <2>4, <2>5, ElapsedMonotone
<1>3. IInv /\ OwnInv /\ EarlyInv /\ [Next]_vars =>
        [CallbackStarts => Current.interval <= Elapsed(clock, base[upd.it])]_vars
  BY <1>2
<1> QED
  BY <1>1, <1>3, InitEarly, OwnInvariance, PTL DEF Spec, NeverEarly
=============================================================================
