----------------------------- MODULE SolanaSui -----------------------------
(***************************************************************************)
(* A token with an NTT program on Solana and an NTT package on Sui, each   *)
(* the peer of the other: what the transceivers of one post, the           *)
(* transceivers of the other deliver, in any order, any number of times or *)
(* never.  Wormhole's guardians are external.  Both chains are shown to    *)
(* implement the abstract Bridge together.                                 *)
(***************************************************************************)
EXTENDS TrimmedAmount, Sequences, FiniteSets, FiniteSetsExt

CONSTANTS
    Transceiver,            \* the pairs of transceivers, one on each chain
    SolanaMode, SuiMode,    \* who locks and who burns
    solana_decimals, sui_decimals,
    RATE_LIMIT_DURATION,
    BITS,
    SolanaBalance, SuiBalance,      \* tokens in the hands of users at the start
    SolanaCustody,                  \* tokens that back what is on Sui at the start
    SolanaLimit, SuiLimit,          \* the limits at the start
    SolanaAmount, SuiAmount,        \* amounts users ask to transfer
    SolanaLimits, SuiLimits,        \* limits that are set later
    SolanaItems, SuiItems,          \* bounds on the transfers started
    MaxOwnerTime,                   \* limits are set and chains paused up to this time
    MaxTime                         \* bound on the clock

ASSUME SolanaSuiAssumption ==
    /\ IsFiniteSet(Transceiver)
    /\ solana_decimals \in Nat /\ sui_decimals \in Nat
    /\ RATE_LIMIT_DURATION \in Nat \ {0}
    /\ BITS \in Nat
    /\ SolanaBalance \in Nat /\ SuiBalance \in Nat /\ SolanaCustody \in Nat
    /\ SolanaLimit \in 0 .. U64_MAX /\ SuiLimit \in 0 .. U64_MAX
    /\ SolanaAmount \subseteq Nat /\ SuiAmount \subseteq Nat
    /\ SolanaLimits \subseteq 0 .. U64_MAX /\ SuiLimits \subseteq 0 .. U64_MAX
    /\ SolanaItems \in Nat /\ SuiItems \in Nat

VARIABLES
    sol_config, sol_transceiver_id, sol_outbox, sol_inbox, sol_validated,
    sol_outbox_rate_limit, sol_inbox_rate_limit, sol_custody, sol_balance, sol_posted,
    sui_state, sui_registry, sui_transceiver_id, sui_outbox, sui_inbox,
    sui_outbox_rate_limit, sui_inbound_rate_limit, sui_locked, sui_coins, sui_posted,
    now         \* the time on both chains

solVars ==
    <<sol_config, sol_transceiver_id, sol_outbox, sol_inbox, sol_validated,
      sol_outbox_rate_limit, sol_inbox_rate_limit, sol_custody, sol_balance, sol_posted>>

suiVars ==
    <<sui_state, sui_registry, sui_transceiver_id, sui_outbox, sui_inbox,
      sui_outbox_rate_limit, sui_inbound_rate_limit, sui_locked, sui_coins, sui_posted>>

vars == <<solVars, suiVars, now>>

Solana == INSTANCE SolanaNtt WITH
    Mode <- SolanaMode, mint_decimals <- solana_decimals, peer_decimals <- sui_decimals,
    InitialBalance <- SolanaBalance, InitialCustody <- SolanaCustody,
    InitialLimit <- SolanaLimit, Amount <- SolanaAmount,
    Limit <- SolanaLimits, MaxItems <- SolanaItems,
    config <- sol_config, transceiver_id <- sol_transceiver_id,
    outbox <- sol_outbox, inbox <- sol_inbox, validated <- sol_validated,
    outbox_rate_limit <- sol_outbox_rate_limit, inbox_rate_limit <- sol_inbox_rate_limit,
    custody <- sol_custody, balance <- sol_balance,
    posted <- sol_posted, arrived <- sui_posted

Sui == INSTANCE SuiNtt WITH
    Mode <- SuiMode, coin_decimals <- sui_decimals, peer_decimals <- solana_decimals,
    InitialBalance <- SuiBalance, InitialLimit <- SuiLimit, Amount <- SuiAmount,
    Limit <- SuiLimits, MaxItems <- SuiItems,
    state <- sui_state, registry <- sui_registry, transceiver_id <- sui_transceiver_id,
    outbox <- sui_outbox, inbox <- sui_inbox,
    outbox_rate_limit <- sui_outbox_rate_limit,
    inbound_rate_limit <- sui_inbound_rate_limit,
    locked <- sui_locked, coins <- sui_coins,
    posted <- sui_posted, arrived <- sol_posted

Init ==
    /\ now = 1
    /\ Solana!Init
    /\ Sui!Init

tick ==
    /\ now < MaxTime
    /\ now' = now + 1
    /\ UNCHANGED <<solVars, suiVars>>

Next ==
    \/ Solana!Next /\ UNCHANGED suiVars
    \/ Sui!Next /\ UNCHANGED solVars
    \/ tick

Spec == Init /\ [][Next]_vars

-----------------------------------------------------------------------------
(* What each chain does, as properties of the composition.                 *)

\* INV-012 on Solana: see SolanaNtt!ApprovedWithQuorum.
SolanaQuorum == [][Solana!ApprovedWithQuorum]_vars

\* INV-012 on Sui, for the threshold it has: see SuiNtt!ApprovedWithQuorum.
SuiQuorum == [][Sui!ApprovedWithQuorum]_vars

\* INV-012 on Sui, in full: see SuiNtt!ApprovedByEnabled.
SuiApprovedByEnabled == [][Sui!ApprovedByEnabled]_vars

\* INV-011 on Solana: see SolanaNtt!RefillsByTheAmount.
SolanaRefills == [][Solana!RefillsByTheAmount]_vars

\* INV-011 on Sui: see SuiNtt!RefillsByTheAmount.
SuiRefills == [][Sui!RefillsByTheAmount]_vars

\* Neither chain keeps a message that it can no longer approve or pay, when the
\* deployment is InitiallyBacked: see NothingStranded of SolanaNtt and of SuiNtt.
NothingStranded == Solana!NothingStranded /\ Sui!NothingStranded

-----------------------------------------------------------------------------
(* Refinement of the abstract bridge.                                      *)

UnitDecimals == Max({solana_decimals, sui_decimals, TRIMMED_DECIMALS})

\* A transfer is a chain with the position of an outbox item.
Transfer == ({"solana"} \X (1 .. SolanaItems)) \cup ({"sui"} \X (1 .. SuiItems))

outboxOf(x) == IF x[1] = "solana" THEN sol_outbox ELSE sui_outbox

\* The inbox item of a transfer: none, or the one of its message.
arrivals(x) ==
    LET box == IF x[1] = "solana" THEN sui_inbox ELSE sol_inbox
    IN  {box[m] : m \in {m \in DOMAIN box : m.id = x[2]}}

phaseOf(x) ==
    LET status == {i.release_status.status : i \in arrivals(x)}
    IN  IF "Released" \in status THEN "paid"
        ELSE IF "ReleaseAfter" \in status THEN "due"
        ELSE IF x[2] \notin DOMAIN outboxOf(x) THEN "none"
        ELSE IF outboxOf(x)[x[2]].released # {} THEN "sent" ELSE "queued"

inFlightOf(x) ==
    IF phaseOf(x) \in {"none", "paid"} THEN 0
    ELSE untrim(outboxOf(x)[x[2]].amount, UnitDecimals)

Held == scale(sol_balance, solana_decimals, UnitDecimals)
          + scale(sui_coins, sui_decimals, UnitDecimals)

\* The deployment: what circulates on one chain at the start is in the custody
\* of the other, when that one locks; Sui's manager starts without any.
InitiallyBacked ==
    /\ SolanaMode = "Locking" => scale(SuiBalance, sui_decimals, UnitDecimals)
                                  <= scale(SolanaCustody, solana_decimals, UnitDecimals)
    /\ SuiMode = "Locking" => SolanaBalance = 0

Abstract == INSTANCE Bridge WITH
    phase <- [x \in Transfer |-> phaseOf(x)],
    inFlight <- [x \in Transfer |-> inFlightOf(x)],
    holdings <- Held

\* INV-001, INV-002, INV-005: between a Solana program and a Sui package, each
\* transfer takes its value from its sender once and pays it once and whole,
\* through two roundings, both outboxes, both inboxes, votes and replays.
ImplementsBridge == Abstract!Spec

=============================================================================
