----------------------------- MODULE LocalTimer -----------------------------
(***************************************************************************)
(* The local-time side of qing::TimerThread (src/util/time_engine.cpp):    *)
(* Init works out the time zone, IfTriggerLocalTimer tells a caller that   *)
(* polls it whether a job that is due once in a period of local time, from *)
(* a given time of the period on, has to run now.                          *)
(*                                                                         *)
(* W stands for 2^32: what the code keeps in a uint32_t is taken modulo W, *)
(* what it keeps in a uint64_t modulo W * W.                               *)
(***************************************************************************)
EXTENDS Integers

CONSTANTS
  Offsets,    \* seconds east of Greenwich that the host's zone may have
  Hour,       \* seconds in an hour
  Period,     \* timer_period
  TriggerAt,  \* timer_trigger_at
  W,          \* 2^32
  Since,      \* the earliest time of the wall clock, past the first hours of 1970
  Steps,      \* bound: by how much the wall clock moves between two steps
  MaxTime     \* bound: how far the wall clock runs

ASSUME LocalTimerAssumption ==
  /\ Offsets \subseteq Int
  /\ Hour \in Nat \ {0}
  /\ Period \in Nat \ {0}
  /\ TriggerAt \in 0..(Period - 1)
  /\ Steps \subseteq Int
  /\ Since \in Nat /\ 12 * Hour <= Since
  /\ MaxTime \in Nat /\ Since + Period <= MaxTime
  /\ W \in Nat /\ MaxTime + 15 * Hour < W

VARIABLES
  zone,   \* history: the hours that Init took for the time zone
  tzSec,  \* time_zone_sec_, a uint32_t
  now,    \* time_sec()
  last    \* when the caller's job was triggered last

vars == <<zone, tzSec, now, last>>

(* C++ division rounds towards zero.                                       *)
Quotient(a, b) == IF a < 0 THEN -((-a) \div b) ELSE a \div b

(* TimerThread::Init.  A zone that is out of range counts as +8.           *)
ZoneOfUnchecked(offset) == Quotient(offset, Hour)
ZoneOf(offset) ==
  LET h == Quotient(offset, Hour) IN IF h > 15 \/ h < -12 THEN 8 ELSE h

ZoneSeconds(h) == (h * Hour) % W

(* IfTriggerLocalTimer.                                                    *)
LocalSec == (now + tzSec) % (W * W)
DiffCountOfLocal == (LocalSec \div Period - last \div Period) % (W * W)
DiffCount == (LocalSec \div Period - ((last + tzSec) % W) \div Period) % (W * W)
IfTriggerAnyTime == DiffCount # 0
IfTriggerOnlyNext == DiffCount = 1 /\ TriggerAt <= LocalSec % Period
IfTriggerLocalTimer ==
  /\ DiffCount # 0
  /\ DiffCount = 1 => TriggerAt <= LocalSec % Period

-----------------------------------------------------------------------------
Init ==
  /\ \E offset \in Offsets : zone = ZoneOf(offset)
  /\ tzSec = ZoneSeconds(zone)
  /\ now \in Since..(Since + Period)
  /\ last \in Since..now

(* The caller asks; when the answer is yes it runs the job and remembers   *)
(* the time.  A no changes nothing.                                        *)
Poll ==
  /\ IfTriggerLocalTimer
  /\ last' = now
  /\ UNCHANGED <<zone, tzSec, now>>

(* The wall clock moves.                                                   *)
Advance ==
  /\ \E d \in Steps : now' = now + d
  /\ now' \in Since..MaxTime
  /\ UNCHANGED <<zone, tzSec, last>>

Next == Poll \/ Advance
Spec == Init /\ [][Next]_vars

-----------------------------------------------------------------------------
(* Local time as a resident of the zone reads it.                          *)
PeriodOf(t) == (t + zone * Hour) \div Period
TimeInPeriod(t) == (t + zone * Hour) % Period

(* Type correctness.                                                       *)
TypeOK ==
  /\ zone \in -12..15
  /\ tzSec \in 0..(W - 1)
  /\ now \in Since..MaxTime
  /\ last \in Since..MaxTime

(* The job runs at most once in a period of local time, however often the  *)
(* caller polls and however the periods lie against those of Greenwich.    *)
OncePerPeriod == [][last' # last => PeriodOf(last') > PeriodOf(last)]_vars

(* In the period after the one it ran in, the job does not run before its  *)
(* time of the period has come.                                            *)
OnSchedule ==
  [][last' # last /\ PeriodOf(last') = PeriodOf(last) + 1
       => TimeInPeriod(last') >= TriggerAt]_vars

(* A job whose time has come, or that has missed a whole period, is        *)
(* reported to the next poll.                                              *)
DueIsReported ==
  (\/ PeriodOf(now) = PeriodOf(last) + 1 /\ TimeInPeriod(now) >= TriggerAt
   \/ PeriodOf(now) > PeriodOf(last) + 1)
    => IfTriggerLocalTimer
=============================================================================
