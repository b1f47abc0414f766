------------------------------ MODULE MCCafeF -------------------------------
(* Instances of CafeF for TLC. *)
EXTENDS CafeF, TLC

Alike == Permutations(Articles)
=============================================================================
