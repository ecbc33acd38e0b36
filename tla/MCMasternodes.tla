---------------------------- MODULE MCMasternodes ---------------------------
(* Instances of Masternodes for TLC. *)
EXTENDS Masternodes
=============================================================================
