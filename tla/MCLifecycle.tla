----------------------------- MODULE MCLifecycle -----------------------------
EXTENDS Lifecycle, TLC

CONSTANTS p1, p2

\* An old process and its successor.
MCRelease == (p1 :> 1) @@ (p2 :> 2)
=============================================================================
