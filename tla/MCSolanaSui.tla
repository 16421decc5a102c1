---------------------------- MODULE MCSolanaSui ----------------------------
(***************************************************************************)
(* An instance of SolanaSui for TLC: a mint of two decimals locked on      *)
(* Solana, a coin of two decimals minted on Sui, amounts trimmed to one.   *)
(***************************************************************************)
EXTENDS SolanaSui, TLC

CONSTANTS t1, t2, t3

\* The premise under which nothing is stranded.
ASSUME MCDeployment == InitiallyBacked

MCSymmetry == Permutations(Transceiver)
=============================================================================
