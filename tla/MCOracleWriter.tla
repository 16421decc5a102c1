--------------------------- MODULE MCOracleWriter ---------------------------
(***************************************************************************)
(* An instance of OracleWriter for TLC: a sample, its batch and one more   *)
(* transaction, with room for a replacement above the highest market fee.  *)
(***************************************************************************)
EXTENDS OracleWriter
=============================================================================
