----------------------- MODULE MCMasternodePayments -----------------------
(* Instances of MasternodePayments for TLC. *)
EXTENDS MasternodePayments

CONSTANTS Voters, \* the masternodes ranked first for the heights voted on
          Voted   \* those heights; the others have no rank there

Ranked == [h \in Height |-> IF h \in Voted THEN Voters ELSE {}]
RankedLow == [h \in Height |-> IF h \in Voted THEN {} ELSE MN]

\* The reward before and after its reduction at height 2.
ConstantReward == [h \in Height |-> 120]
HalvedReward == [h \in Height |-> IF h < 2 THEN 120 ELSE 60]
=============================================================================
