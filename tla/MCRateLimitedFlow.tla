------------------------- MODULE MCRateLimitedFlow -------------------------
(***************************************************************************)
(* An instance of RateLimitedFlow for TLC.  The limits do not divide the   *)
(* duration, so every refill rounds; one of them is the largest 64-bit     *)
(* amount.                                                                 *)
(***************************************************************************)
EXTENDS RateLimitedFlow

MCAmount == {1, 3, 4}

MCLimit == {0, 2, 5, U64_MAX}
=============================================================================
