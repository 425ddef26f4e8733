-------------------------- MODULE LocalTimerProofs --------------------------
(***************************************************************************)
(* Proofs about LocalTimer, for every period, trigger time, width W of the *)
(* unsigned integers and length of an hour.  What IfTriggerLocalTimer      *)
(* promises holds at Greenwich and east of it; west of it time_zone_sec_   *)
(* wraps around, and the promise is broken.                                *)
(***************************************************************************)
EXTENDS LocalTimer, TLAPS

(* The zones for which time_zone_sec_ does not wrap around.                *)
AtOrEast == \A offset \in Offsets : offset >= 0

(* The wall clock is not set back.                                         *)
Forward == Steps \subseteq Nat

-----------------------------------------------------------------------------
(* Quotients and remainders.                                               *)

LEMMA DivMod ==
  ASSUME NEW d \in Nat \ {0}, NEW a \in Int
  PROVE  a \div d \in Int /\ a % d \in 0..(d - 1) /\ a = d * (a \div d) + (a % d)
  OBVIOUS

LEMMA TimesMonotone ==
  ASSUME NEW d \in Nat, NEW a \in Int, NEW b \in Int, a <= b
  PROVE  d * a <= d * b /\ d * a \in Int /\ d * b \in Int
  OBVIOUS

LEMMA DivMonotone ==
  ASSUME NEW d \in Nat \ {0}, NEW a \in Int, NEW b \in Int, a <= b
  PROVE  a \div d <= b \div d
<1> DEFINE p == a \div d
           q == b \div d
<1>1. p \in Int /\ q \in Int /\ d * p <= a /\ b < d * (q + 1)
  BY DivMod
<1> HIDE DEF p, q
<1>2. CASE q + 1 <= p
  <2>1. d * (q + 1) <= d * p /\ d * (q + 1) \in Int /\ d * p \in Int
    BY <1>1, <1>2, TimesMonotone
  <2> QED
    BY <1>1, <2>1
<1> QED
  BY <1>1, <1>2 DEF p, q

(* What fits into the integer is not changed by its width.                 *)
LEMMA ModSmall ==
  ASSUME NEW d \in Nat \ {0}, NEW a \in 0..(d - 1)
  PROVE  a % d = a
<1> DEFINE q == a \div d
           r == a % d
<1>1. q \in Int /\ r \in 0..(d - 1) /\ a = d * q + r
  BY DivMod
<1> HIDE DEF q, r
<1>2. CASE q >= 1
  <2>1. d * 1 <= d * q /\ d * q \in Int
    BY <1>1, <1>2, TimesMonotone
  <2> QED
    BY <1>1, <2>1
<1>3. CASE q <= -1
  <2>1. d * q <= d * (-1) /\ d * q \in Int
    BY <1>1, <1>3, TimesMonotone
  <2> QED
    BY <1>1, <2>1
<1>4. CASE q = 0
  BY <1>1, <1>4 DEF r
<1> QED
  BY <1>1, <1>2, <1>3, <1>4

(* A quotient of a natural number is between 0 and the number.             *)
LEMMA DivBounds ==
  ASSUME NEW d \in Nat \ {0}, NEW a \in Nat
  PROVE  a \div d \in 0..a
<1> DEFINE q == a \div d
<1>1. q \in Int /\ d * q <= a /\ a < d * q + d /\ d * q \in Int
  BY DivMod
<1> HIDE DEF q
<1>2. CASE q <= -1
  <2>1. d * q <= d * (-1)
    BY <1>1, <1>2, TimesMonotone
  <2> QED
    BY <1>1, <2>1
<1>3. CASE q >= 0
  <2>1. q * 1 <= q * d
    BY <1>1, <1>3, TimesMonotone
  <2> QED
    BY <1>1, <1>3, <2>1 DEF q
<1> QED
  BY <1>1, <1>2, <1>3

-----------------------------------------------------------------------------
(* Type correctness, with no hypothesis about zone or clock.               *)

LEMMA WidthPositive == W \in Nat \ {0} /\ W * W \in Nat \ {0} /\ W <= W * W
<1>1. W \in Nat \ {0}
  BY LocalTimerAssumption
<1>2. W * 1 <= W * W /\ W * W \in Int
  BY <1>1, TimesMonotone
<1> QED
  BY <1>1, <1>2

LEMMA ZoneRange == \A offset \in Int : ZoneOf(offset) \in -12..15
<1> SUFFICES ASSUME NEW offset \in Int PROVE ZoneOf(offset) \in -12..15
  OBVIOUS
<1>1. Quotient(offset, Hour) \in Int
  BY DivMod, LocalTimerAssumption DEF Quotient
<1> QED
  BY <1>1 DEF ZoneOf

LEMMA ZoneSecondsRange == \A h \in -12..15 : ZoneSeconds(h) \in 0..(W - 1)
<1> SUFFICES ASSUME NEW h \in -12..15 PROVE ZoneSeconds(h) \in 0..(W - 1)
  OBVIOUS
<1>1. h * Hour \in Int
  BY LocalTimerAssumption
<1> QED
  BY <1>1, WidthPositive, DivMod DEF ZoneSeconds

(* Whatever the zone and however the clock is set, the zone is one that    *)
(* exists and its seconds fit into the uint32_t.                           *)
THEOREM TypeCorrect == Spec => []TypeOK
<1>1. Init => TypeOK
  BY ZoneRange, ZoneSecondsRange, LocalTimerAssumption DEF Init, TypeOK
<1>2. TypeOK /\ [Next]_vars => TypeOK'
  BY DEF TypeOK, Next, Poll, Advance, vars
<1> QED
  BY <1>1, <1>2, PTL DEF Spec

-----------------------------------------------------------------------------
(* East of Greenwich nothing wraps around.                                 *)

(* The uint32_t holds the zone's true seconds, and the last trigger is not *)
(* ahead of the clock.                                                     *)
EastInv ==
  /\ TypeOK
  /\ zone >= 0
  /\ tzSec = zone * Hour
  /\ last <= now

LEMMA EastZoneSeconds ==
  ASSUME NEW h \in 0..15
  PROVE  ZoneSeconds(h) = h * Hour /\ h * Hour \in 0..(15 * Hour)
<1>1. Hour * 0 <= Hour * h /\ Hour * h <= Hour * 15 /\ Hour * h \in Int
  BY TimesMonotone, LocalTimerAssumption
<1>2. h * Hour \in 0..(W - 1) /\ h * Hour \in 0..(15 * Hour)
  BY <1>1, LocalTimerAssumption
<1> QED
  BY <1>2, ModSmall, WidthPositive DEF ZoneSeconds

LEMMA InitEast ==
  ASSUME AtOrEast
  PROVE  Init => EastInv
<1> SUFFICES ASSUME Init PROVE EastInv
  OBVIOUS
<1>1. TypeOK
  BY ZoneRange, ZoneSecondsRange, LocalTimerAssumption DEF Init, TypeOK
<1>2. zone >= 0
  <2>1. PICK offset \in Offsets : zone = ZoneOf(offset)
    BY DEF Init
  <2>2. offset \in Nat
    BY LocalTimerAssumption DEF AtOrEast
  <2>3. Quotient(offset, Hour) >= 0
    BY <2>2, DivBounds, LocalTimerAssumption DEF Quotient
  <2> QED
    BY <2>1, <2>3 DEF ZoneOf
<1>3. zone \in 0..15
  BY <1>1, <1>2 DEF TypeOK
<1>4. tzSec = zone * Hour
  BY <1>3, EastZoneSeconds DEF Init
<1>5. last <= now
  BY DEF Init
<1> QED
  BY <1>1, <1>2, <1>4, <1>5 DEF EastInv

LEMMA StepEast ==
  ASSUME Forward
  PROVE  EastInv /\ [Next]_vars => EastInv'
<1> SUFFICES ASSUME EastInv, [Next]_vars PROVE EastInv'
  OBVIOUS
<1>1. TypeOK'
  BY DEF EastInv, TypeOK, Next, Poll, Advance, vars
<1>2. UNCHANGED <<zone, tzSec>>
  BY DEF Next, Poll, Advance, vars
<1>3. last' <= now'
  <2>1. CASE Poll
    BY <2>1 DEF EastInv, TypeOK, Poll
  <2>2. CASE Advance
    BY <2>2 DEF EastInv, TypeOK, Advance, Forward
  <2>3. CASE UNCHANGED vars
    BY <2>3 DEF EastInv, vars
  <2> QED
    BY <2>1, <2>2, <2>3 DEF Next
<1> QED
  BY <1>1, <1>2, <1>3 DEF EastInv

(* What the code computes is the number of periods of local time between   *)
(* the last trigger and now, and the time of the current one.              *)
LEMMA DiffIsPeriods ==
  ASSUME EastInv
  PROVE  /\ PeriodOf(now) \in Int /\ PeriodOf(last) \in Int
         /\ PeriodOf(last) <= PeriodOf(now)
         /\ DiffCount = PeriodOf(now) - PeriodOf(last)
         /\ LocalSec % Period = TimeInPeriod(now)
<1> USE LocalTimerAssumption
<1> DEFINE z == zone * Hour
           n == now + z
           l == last + z
<1>1. z = tzSec /\ z \in 0..(15 * Hour) /\ now \in 0..MaxTime /\ last \in 0..now
  <2>1. zone \in 0..15
    BY DEF EastInv, TypeOK
  <2> QED
    BY <2>1, EastZoneSeconds DEF EastInv, TypeOK
<1> HIDE DEF z
<1>2. n \in 0..(W - 1) /\ l \in 0..(W - 1) /\ l <= n
  BY <1>1
<1>3. LocalSec = n
  <2>1. n \in 0..(W * W - 1)
    BY <1>2, WidthPositive
  <2>2. n % (W * W) = n
    BY <2>1, WidthPositive, ModSmall
  <2> QED
    BY <1>1, <2>2 DEF LocalSec
<1>4. (last + tzSec) % W = l
  <2>1. l % W = l
    BY <1>2, WidthPositive, ModSmall
  <2> QED
    BY <1>1, <2>1
<1>5. /\ PeriodOf(now) = n \div Period /\ PeriodOf(last) = l \div Period
      /\ TimeInPeriod(now) = n % Period
  BY DEF PeriodOf, TimeInPeriod, z
<1> HIDE DEF n, l
<1> DEFINE a == n \div Period
           b == l \div Period
<1>6. a \in 0..n /\ b \in 0..l /\ b <= a
  BY <1>2, DivBounds, DivMonotone
<1> HIDE DEF a, b
<1>7. a - b \in 0..(W * W - 1)
  BY <1>2, <1>6, WidthPositive
<1>8. (a - b) % (W * W) = a - b
  BY <1>7, WidthPositive, ModSmall
<1>9. DiffCount = a - b
  BY <1>3, <1>4, <1>8 DEF DiffCount, a, b
<1> QED
  BY <1>2, <1>3, <1>5, <1>6, <1>9 DEF a, b

LEMMA EastHolds ==
  ASSUME AtOrEast, Forward
  PROVE  Spec => []EastInv
  BY InitEast, StepEast, PTL DEF Spec

(* Only a poll that is answered with yes moves the last trigger.           *)
LEMMA OnlyPollTriggers ==
  ASSUME [Next]_vars, last' # last
  PROVE  IfTriggerLocalTimer /\ last' = now /\ zone' = zone
  BY DEF Next, Poll, Advance, vars

(* The job runs at most once in a period of local time.                    *)
THEOREM RunsOncePerPeriod ==
  ASSUME AtOrEast, Forward
  PROVE  Spec => OncePerPeriod
<1>1. ASSUME EastInv, [Next]_vars, last' # last
      PROVE  PeriodOf(last') > PeriodOf(last)
  <2>1. IfTriggerLocalTimer /\ last' = now
    BY <1>1, OnlyPollTriggers
  <2>2. PeriodOf(last') = PeriodOf(now)
    BY <2>1 DEF PeriodOf
  <2> QED
    BY <1>1, <2>1, <2>2, DiffIsPeriods DEF IfTriggerLocalTimer
<1>2. EastInv /\ [Next]_vars => [last' # last => PeriodOf(last') > PeriodOf(last)]_vars
  BY <1>1
<1> QED
  BY <1>2, EastHolds, PTL DEF Spec, OncePerPeriod

(* In the period after the last one the job waits for its time.            *)
THEOREM RunsOnSchedule ==
  ASSUME AtOrEast, Forward
  PROVE  Spec => OnSchedule
<1>1. ASSUME EastInv, [Next]_vars, last' # last, PeriodOf(last') = PeriodOf(last) + 1
      PROVE  TimeInPeriod(last') >= TriggerAt
  <2>1. IfTriggerLocalTimer /\ last' = now
    BY <1>1, OnlyPollTriggers
  <2>2. PeriodOf(last') = PeriodOf(now) /\ TimeInPeriod(last') = TimeInPeriod(now)
    BY <2>1 DEF PeriodOf, TimeInPeriod
  <2>3. DiffCount = 1
    BY <1>1, <2>2, DiffIsPeriods
  <2>4. TriggerAt <= LocalSec % Period
    BY <2>1, <2>3 DEF IfTriggerLocalTimer
  <2> QED
    BY <1>1, <2>2, <2>4, DiffIsPeriods
<1>2. EastInv /\ [Next]_vars =>
        [last' # last /\ PeriodOf(last') = PeriodOf(last) + 1
           => TimeInPeriod(last') >= TriggerAt]_vars
  BY <1>1
<1> QED
  BY <1>2, EastHolds, PTL DEF Spec, OnSchedule

(* A job that is due is reported by the next poll.                         *)
THEOREM DueJobIsReported ==
  ASSUME AtOrEast, Forward
  PROVE  Spec => []DueIsReported
<1>1. EastInv => DueIsReported
  BY DiffIsPeriods DEF DueIsReported, IfTriggerLocalTimer
<1> QED
  BY <1>1, EastHolds, PTL
=============================================================================
