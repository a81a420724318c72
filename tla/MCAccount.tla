----------------------------- MODULE MCAccount ------------------------------
(* A small instance of Account for TLC.                                    *)
EXTENDS Account, TLC

Symmetry == Permutations(Requests)
=============================================================================
