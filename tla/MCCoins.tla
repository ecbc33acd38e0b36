------------------------------ MODULE MCCoins -------------------------------
(***************************************************************************)
(* Instances of Coins for TLC.                                             *)
(***************************************************************************)
EXTENDS Coins, TLC

CONSTANTS t1, t2, g, b1, b2, c1, c2

Symmetry == Permutations(TxId) \cup Permutations({c1, c2})
=============================================================================
