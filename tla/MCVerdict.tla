----------------------------- MODULE MCVerdict -----------------------------
(* The instance of VerdictCache that TLC checks. *)
EXTENDS VerdictCache, TLC

Symmetry == Permutations(Host) \cup Permutations(Caller)
=============================================================================
