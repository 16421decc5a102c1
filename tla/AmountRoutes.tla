---------------------------- MODULE AmountRoutes ----------------------------
(***************************************************************************)
(* What the trimming of amounts (TrimmedAmount) does to an amount that is  *)
(* sent on and on between chains whose tokens have any numbers of          *)
(* decimals: the arithmetic of _transferEntryPoint at the source and of    *)
(* _handleTransfer at the destination (evm/src/NttManager/NttManager.sol). *)
(***************************************************************************)
EXTENDS TrimmedAmount, FiniteSetsExt

CONSTANTS
    Decimals,   \* the decimals of the tokens on the chains
    Held        \* the amounts held at the start

\* InvalidPeerDecimals: a peer has decimals.
ASSUME RoutesAssumption ==
    /\ Decimals \subseteq Nat \ {0} /\ IsFiniteSet(Decimals)
    /\ Held \subseteq Nat

VARIABLES
    decimals,   \* the decimals of the token the amount is held in
    amount,     \* the amount held, in that token's units
    message,    \* the transfer on its way, as a set of at most one
    origin      \* the value at the start, in the common unit

routesVars == <<decimals, amount, message, origin>>

UnitDecimals == Max(Decimals \cup {TRIMMED_DECIMALS})

RoutesInit ==
    /\ decimals \in Decimals
    /\ amount \in Held
    /\ message = {}
    /\ origin = scale(amount, decimals, UnitDecimals)

\* Mutant of sendable: dust is not refused.
sendable_KeepsDust(amt, from, to) ==
    /\ Fits(trim(amt, from, to))
    /\ Fits(shift(trim(amt, from, to), from))

\* The source accepts the transfer: no cast overflows and there is no dust.
sendable(amt, from, to) ==
    /\ Fits(trim(amt, from, to))
    /\ untrim(trim(amt, from, to), from) = amt
    /\ Fits(shift(trim(amt, from, to), from))

\* The whole amount is sent.
send(to) ==
    /\ message = {}
    /\ sendable(amount, decimals, to)
    /\ message' = {[trimmed |-> trim(amount, decimals, to), to |-> to]}
    /\ amount' = 0
    /\ UNCHANGED <<decimals, origin>>

\* The destination's amount, in the decimals of its rate limits.
nativeTransferAmount(m) == trim(untrim(m.trimmed, m.to), m.to, m.to)

receive(m) ==
    /\ Fits(nativeTransferAmount(m))
    /\ decimals' = m.to
    /\ amount' = untrim(nativeTransferAmount(m), m.to)
    /\ message' = {}
    /\ UNCHANGED origin

RoutesNext ==
    \/ \E to \in Decimals : send(to)
    \/ \E m \in message : receive(m)

RoutesSpec == RoutesInit /\ [][RoutesNext]_routesVars

-----------------------------------------------------------------------------
\* INV-018, INV-021: along any route the value is what it was at the start,
\* whether held or on its way: no conversion gains or loses a unit.
ValuePreserved ==
    origin = scale(amount, decimals, UnitDecimals)
               + SumSet({untrim(m.trimmed, UnitDecimals) : m \in message})

\* An amount that is refused for dust, and not because it overflows 64 bits on
\* the wire or in the rate limit's decimals, could be sent after leaving aside
\* less than one unit of the coarsest of the three decimals: the refusal is
\* never wider than the conversion needs.
DustIsMinimal ==
    \A to \in Decimals :
        LET coarse == minDecimals(minDecimals(TRIMMED_DECIMALS, decimals), to)
            clean == untrim(trim(amount, decimals, to), decimals)
        IN  /\ clean <= amount
            /\ amount - clean < powerOfTen[decimals - coarse]
            /\ /\ Fits(trim(amount, decimals, to))
               /\ Fits(shift(trim(amount, decimals, to), decimals))
               => sendable(clean, decimals, to)

=============================================================================
