----------------------------- MODULE MCReactor -----------------------------
(* The instances of Reactor that TLC checks.                               *)
EXTENDS Reactor
=============================================================================
