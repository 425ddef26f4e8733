---------------------------- MODULE TimerService ----------------------------
(***************************************************************************)
(* What qing::TimerThread promises its users, with no maps, no locks and   *)
(* no clock: a timer comes to life once, runs while nobody has cancelled   *)
(* it, one callback at a time, and a run_once timer runs at most once.     *)
(***************************************************************************)
CONSTANTS Ids, NoTimer

VARIABLES
  used,      \* every timer that was ever added
  periodic,  \* timers that will run again and again
  oneShot,   \* run_once timers that have not run yet
  running    \* the timer whose callback is running, or NoTimer

svars == <<used, periodic, oneShot, running>>

Add(i) ==
  /\ i \notin used
  /\ used' = used \cup {i}
  /\ \/ periodic' = periodic \cup {i} /\ UNCHANGED oneShot
     \/ oneShot' = oneShot \cup {i} /\ UNCHANGED periodic
  /\ UNCHANGED running

Cancel(i) ==
  /\ periodic' = periodic \ {i}
  /\ oneShot' = oneShot \ {i}
  /\ UNCHANGED <<used, running>>

Run(i) ==
  /\ running = NoTimer
  /\ i \in periodic \cup oneShot
  /\ running' = i
  /\ oneShot' = oneShot \ {i}
  /\ UNCHANGED <<used, periodic>>

Finish ==
  /\ running # NoTimer
  /\ running' = NoTimer
  /\ UNCHANGED <<used, periodic, oneShot>>

Init == used = {} /\ periodic = {} /\ oneShot = {} /\ running = NoTimer
Next == Finish \/ \E i \in Ids : Add(i) \/ Cancel(i) \/ Run(i)
Spec == Init /\ [][Next]_svars
=============================================================================
