----------------------------- MODULE MCSwiftTX -----------------------------
(* Instances of SwiftTX for TLC: two transactions that spend the same output. *)
EXTENDS SwiftTX, TLC

CONSTANTS t1, t2, i1, i2, m1, m2, m3

\* t2 has an input of its own besides the one it shares with t1.
SpendsShared == (t1 :> {i1}) @@ (t2 :> {i1, i2})
SpendsOne == [t \in Tx |-> {i1}]

HeightOne == [t \in Tx |-> 1]

\* Every masternode is ranked for every height, or m3 only for height 0.
AllRanked == [h \in Height |-> MN]
NotM3 == [h \in Height |-> IF h = 0 THEN MN ELSE MN \ {m3}]

MNSymmetry == Permutations(MN)
=============================================================================
