------------------------- MODULE MCSpecialDelivery -------------------------
(***************************************************************************)
(* Instances of SpecialDelivery for TLC.  As with the defaults of the      *)
(* services a quote lives shorter than a transfer is queued.               *)
(***************************************************************************)
EXTENDS SpecialDelivery
=============================================================================
