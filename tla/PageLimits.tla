----------------------------- MODULE PageLimits ------------------------------
(* The limit of a list request: a uint32 on the wire, converted to int32   *)
(* and then clamped (internal/api/entries/service.go, api/audit).          *)
EXTENDS Integers

CONSTANT Width   \* bits of a limit (32 in the code)

\* The powers are natural because Width is; the provers do not compute them.
ASSUME WidthAssumption ==
    /\ Width \in Nat \ {0}
    /\ 2^(Width - 1) \in Nat
    /\ 2^Width \in Nat

\* int32(limit)
Signed(n) == IF n >= 2^(Width - 1) THEN n - 2^Width ELSE n

Clamped(n, default, max) ==
    LET limit == IF Signed(n) <= 0 THEN default ELSE Signed(n)
    IN  IF limit > max THEN max ELSE limit
=============================================================================
