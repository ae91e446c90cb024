----------------------------- MODULE MCArchival -----------------------------
(* Instances of Archival for TLC. *)
EXTENDS Archival, TLC

\* Providers that behave alike are interchangeable.
HonestSymmetry == Permutations(Honest)
=============================================================================
