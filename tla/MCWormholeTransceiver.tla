----------------------- MODULE MCWormholeTransceiver -----------------------
(***************************************************************************)
(* An instance of WormholeTransceiver for TLC: one transceiver more than   *)
(* the bitmap has bits; two messages, the first in a raw VAA and in a      *)
(* delivery, the second in a VAA of another emitter and in one that names  *)
(* another recipient.                                                      *)
(***************************************************************************)
EXTENDS WormholeTransceiver, TLC

CONSTANTS d1, d2, mA, v1, v2, v3, v4, eA, eB

MCOrigin == (d1 :> mA) @@ (d2 :> mA)

MCEmitterOf == (v1 :> eA) @@ (v2 :> eA) @@ (v3 :> eB) @@ (v4 :> eA)

MCCarries == (v1 :> d1) @@ (v2 :> d1) @@ (v3 :> d2) @@ (v4 :> d2)

\* Transceivers are only compared, so they may be permuted.
MCSymmetry == Permutations(Transceiver)
=============================================================================
