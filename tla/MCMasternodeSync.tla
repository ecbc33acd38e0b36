-------------------------- MODULE MCMasternodeSync --------------------------
(* Instances of MasternodeSync for TLC. *)
EXTENDS MasternodeSync, TLC

\* Peers of the same version are alike; sound for the runs of invariants.
PeerSymmetry == Permutations(Peer)
=============================================================================
