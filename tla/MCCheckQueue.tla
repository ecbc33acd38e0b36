---------------------------- MODULE MCCheckQueue ----------------------------
(***************************************************************************)
(* Instances of CheckQueue for TLC.                                        *)
(***************************************************************************)
EXTENDS CheckQueue

CONSTANTS w1, w2
=============================================================================
