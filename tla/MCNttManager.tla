---------------------------- MODULE MCNttManager ----------------------------
(***************************************************************************)
(* An instance of NttManager for TLC: a hub that locks and a spoke that    *)
(* burns.  Their tokens have three decimals and one, and amounts are       *)
(* trimmed to at most two, so a transfer is scaled by 100 in the message   *)
(* and by 10 for the hub's limits.  The hub's token keeps a fee.           *)
(***************************************************************************)
EXTENDS NttManager, TLC

CONSTANTS hub, spoke, alice

MCDecimals == (hub :> 3) @@ (spoke :> 1)

MCFee == (hub :> 1) @@ (spoke :> 0)

MCInitialBalance ==
    (hub :> [u \in User |-> IF u = alice THEN 302 ELSE 0]) @@
    (spoke :> [u \in User |-> 0])

\* One unit, with its fee, and the same with dust; on the spoke also two units.
MCAmount == (hub :> {101, 151}) @@ (spoke :> {1, 2})

MCInboundLimit == (hub :> 10) @@ (spoke :> 1)

MCLimit == (hub :> {10}) @@ (spoke :> {1})

MCMaxSequence == (hub :> 2) @@ (spoke :> 1)

ASSUME MCDeployment == HubAndSpokes
=============================================================================
