---------------------------- MODULE MCMeasurement ----------------------------
(* Measurement on small instances. *)
EXTENDS Measurement, TLC

CONSTANTS u1, u2, u3

Symmetry == Permutations(Users)
=============================================================================
