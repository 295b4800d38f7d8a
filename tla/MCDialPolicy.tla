---------------------------- MODULE MCDialPolicy ----------------------------
(* The instance of DialPolicy that TLC checks. *)
EXTENDS DialPolicy, TLC

Symmetry == Permutations(RoundTrip)
=============================================================================
