---------------------------- MODULE MCLocalTimer ----------------------------
(* The instances of LocalTimer that TLC checks: an hour is two ticks, a    *)
(* day is 48, and 2^32 is 256.                                             *)
EXTENDS LocalTimer

EasternOffsets == {0, 2, 11, 24, 30, 34}
WesternOffsets == {-2, -7, -24}
=============================================================================
