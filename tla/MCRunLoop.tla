----------------------------- MODULE MCRunLoop -----------------------------
(* The instance of RunLoop that TLC checks.                                *)
EXTENDS RunLoop
=============================================================================
