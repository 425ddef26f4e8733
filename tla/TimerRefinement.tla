-------------------------- MODULE TimerRefinement --------------------------
(***************************************************************************)
(* TimerEngine implements TimerService.  A timer is added when insert puts *)
(* it into a map and cancelled when UnRegister marks it; the later erase   *)
(* of a marked timer is invisible.  A run_once timer is spent when its     *)
(* callback starts, though its entry is erased only after the callback.    *)
(***************************************************************************)
EXTENDS TimerEngine

Running == IF upd.at = "callback" THEN upd.it ELSE 0

Unmarked(once) ==
  {i \in Ids : \E m \in Maps : /\ i \in Keys(m)
                               /\ timers[m][i].once = once
                               /\ ~timers[m][i].del}

Registering ==
  {call[t].id : t \in {s \in Threads : call[s].pc \in {"try", "insert"}}}

Service ==
  INSTANCE TimerService WITH
    NoTimer <- 0,
    used <- (1..curId) \ Registering,
    periodic <- Unmarked(FALSE),
    oneShot <- Unmarked(TRUE) \ {Running},
    running <- Running

(* Update, Register and UnRegister, with the callbacks and the other       *)
(* threads between their steps, do nothing that the two-line description   *)
(* of a timer service does not allow.                                      *)
ImplementsService == Service!Spec
=============================================================================
