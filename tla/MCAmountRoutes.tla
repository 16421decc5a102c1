--------------------------- MODULE MCAmountRoutes ---------------------------
(***************************************************************************)
(* Instances of AmountRoutes for TLC: tokens with fewer, as many and more  *)
(* decimals than trimmed amounts have.                                     *)
(***************************************************************************)
EXTENDS AmountRoutes

\* Round amounts, amounts with dust at every position, the boundary of 64 bits
\* and amounts that fit on the wire but not in the decimals of the rate limit.
MCHeld == {0, 1, 5, 9, 10, 11, 50, 99, 100, 101, 120, 999, 1000, 1200, 1201,
           12300, 20000, U64_MAX, U64_MAX + 1,
           100000, 654321}
=============================================================================
