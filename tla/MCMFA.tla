------------------------------ MODULE MCMFA -------------------------------
(* The instances of MFA that TLC checks.                                   *)
EXTENDS MFA, TLC

Symmetry == Permutations(Requests)
=============================================================================
