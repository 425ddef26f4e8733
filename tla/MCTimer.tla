------------------------------ MODULE MCTimer ------------------------------
(***************************************************************************)
(* The instance of TimerEngine that TLC checks, and the mapping under      *)
(* which it implements TimerService.                                       *)
(***************************************************************************)
EXTENDS TimerRefinement
=============================================================================
