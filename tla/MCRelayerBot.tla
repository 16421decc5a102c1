---------------------------- MODULE MCRelayerBot ----------------------------
(***************************************************************************)
(* Instances of RelayerBot for TLC.                                        *)
(***************************************************************************)
EXTENDS RelayerBot, TLC

\* Events and workers are only compared, so they may be permuted.
MCSymmetry == Permutations(Event) \cup Permutations(Worker)
=============================================================================
