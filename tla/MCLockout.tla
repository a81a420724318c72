------------------------------ MODULE MCLockout ------------------------------
(* The instance of Lockout that TLC checks.                                *)
EXTENDS Lockout, TLC

Symmetry == Permutations(Requests)
=============================================================================
