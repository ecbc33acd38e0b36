---------------------------- MODULE MCChainState ----------------------------
(***************************************************************************)
(* Instances of ChainState for TLC:                                        *)
(*                                                                         *)
(*   TwoBranches   g - a1      two branches, one of which overtakes the    *)
(*                  - b1 - b2  other;                                      *)
(*   Fork          g - a1 - a2                                             *)
(*                        - c2 two blocks of the same work on one parent.  *)
(***************************************************************************)
EXTENDS ChainState

TwoBranches == {"g", "a1", "b1", "b2"}
Fork == {"g", "a1", "a2", "c2"}

MCParent == [b \in Block \ {"g"} |->
    CASE b \in {"a1", "b1"} -> "g"
      [] b \in {"a2", "c2"} -> "a1"
      [] b = "b2" -> "b1"]

MCWork == [b \in Block |->
    CASE b = "g" -> 0 [] b \in {"a1", "b1"} -> 1 [] b \in {"a2", "b2", "c2"} -> 2]

MCAddress == [b \in Block |->
    CASE b = "g" -> 0 [] b = "b1" -> 1 [] b = "a1" -> 2 [] b = "c2" -> 3 [] b = "a2" -> 4
      [] b = "b2" -> 5]
=============================================================================
