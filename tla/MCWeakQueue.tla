---------------------------- MODULE MCWeakQueue ----------------------------
(* The instances of WeakQueue that TLC checks.                             *)
EXTENDS WeakQueue
=============================================================================
