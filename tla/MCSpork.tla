------------------------------ MODULE MCSpork ------------------------------
(* Instances of Spork for TLC. *)
EXTENDS Spork

CONSTANTS n1, n2, s1, off, on

DefaultOff == [s \in SporkId |-> off]

\* All clocks agree.
NoSkew == [n \in Node |-> 0]

\* n1, a signer, runs ahead of the others by more than MaxFuture.
FastSigner == [n \in Node |-> IF n = n1 THEN 1 ELSE 0]

=============================================================================
