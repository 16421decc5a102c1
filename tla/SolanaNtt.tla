----------------------------- MODULE SolanaNtt -----------------------------
(***************************************************************************)
(* The NTT program of Solana                                               *)
(* (solana/programs/example-native-token-transfers) and the Wormhole       *)
(* transceiver program beside it (solana/programs/ntt-transceiver), with   *)
(* one peer chain: transfers through the outbox, attested transfers        *)
(* through the inbox, both rate limits, the owner's instructions.          *)
(*                                                                         *)
(* An instruction that returns an error changes nothing, so an error is a  *)
(* guard.  One that succeeds without effect (a release that is not due,    *)
(* with revert_when_not_ready unset) is a stuttering step.  A bitmap is    *)
(* the set of its ones.  Outbox items are accounts with fresh keys: here   *)
(* the positions of a sequence.  The peer keeps its address and decimals.  *)
(***************************************************************************)
EXTENDS TrimmedAmount, Sequences, FiniteSets

CONSTANTS
    Transceiver,            \* the transceiver programs
    Mode,                   \* "Locking" or "Burning"
    mint_decimals,          \* decimals of the mint
    peer_decimals,          \* decimals of the token on the peer chain
    RATE_LIMIT_DURATION,    \* 24 hours in the program
    BITS,                   \* ones a bitmap has room for; 128 in the program
    InitialBalance,         \* tokens in the hands of users at the start
    InitialCustody,         \* tokens in custody that back what the peer issued before
    InitialLimit,           \* the limits of initialize and of the first set_peer
    Amount,                 \* amounts users ask to transfer
    Limit,                  \* limits the owner sets later
    MaxItems,               \* bound on the transfers started here
    MaxOwnerTime            \* the owner changes limits and pauses up to this time

VARIABLES
    config,             \* paused, threshold, enabled_transceivers, next_transceiver_id
    transceiver_id,     \* transceiver -> the id of its RegisteredTransceiver, or NoId
    outbox,             \* the outbox items
    inbox,              \* message -> its inbox item, for the messages that have one
    validated,          \* the ValidatedTransceiverMessage accounts: <<transceiver, message>>
    outbox_rate_limit,
    inbox_rate_limit,   \* of the peer chain
    custody,            \* tokens in the custody account
    balance,            \* tokens in the hands of users
    posted,             \* what the transceivers posted: <<transceiver, message>>
    arrived,            \* what the peer's transceivers posted for this chain
    now                 \* the clock

tokenVars == <<custody, balance>>
limitVars == <<outbox_rate_limit, inbox_rate_limit>>
registryVars == <<config, transceiver_id>>
vars == <<config, transceiver_id, outbox, inbox, validated, outbox_rate_limit,
          inbox_rate_limit, custody, balance, posted, arrived, now>>

NoId == -1

-----------------------------------------------------------------------------
(* RateLimitState.                                                         *)

least(a, b) == IF a < b THEN a ELSE b

new_rate_limit(limit) ==
    [limit |-> limit, capacity_at_last_tx |-> limit, last_tx_timestamp |-> 0]

capacity_at(rl, t) ==
    least(rl.capacity_at_last_tx
            + ((t - rl.last_tx_timestamp) * rl.limit) \div RATE_LIMIT_DURATION,
          rl.limit)

\* consume_or_delay: the amount fits into the capacity.
consumable(rl, amount) == capacity_at(rl, now) >= amount

\* consume_or_delay: the state after an amount that fits.
consume(rl, amount) ==
    [rl EXCEPT !.capacity_at_last_tx = capacity_at(rl, now) - amount,
               !.last_tx_timestamp = now]

\* Mutant of refill: the time since the last use is credited again later.
refill_KeepsTimestamp(rl, amount) ==
    [rl EXCEPT !.capacity_at_last_tx =
                    least(least(capacity_at(rl, now) + amount, U64_MAX), rl.limit)]

refill(rl, amount) ==
    [rl EXCEPT !.capacity_at_last_tx =
                    least(least(capacity_at(rl, now) + amount, U64_MAX), rl.limit),
               !.last_tx_timestamp = now]

set_limit(rl, limit) ==
    LET capacity == capacity_at(rl, now)
        moved == IF rl.limit > limit
                 THEN IF capacity > rl.limit - limit
                      THEN capacity - (rl.limit - limit) ELSE 0
                 ELSE least(capacity + (limit - rl.limit), U64_MAX)
    IN  [limit |-> limit, capacity_at_last_tx |-> least(moved, limit),
         last_tx_timestamp |-> now]

-----------------------------------------------------------------------------
(* The initial state: after initialize and set_peer, before any            *)
(* transceiver is registered.                                              *)

Init ==
    /\ config = [paused |-> FALSE, threshold |-> 1,
                 enabled_transceivers |-> {}, next_transceiver_id |-> 0]
    /\ transceiver_id = [t \in Transceiver |-> NoId]
    /\ outbox = << >>
    /\ inbox = << >>
    /\ validated = {}
    /\ outbox_rate_limit = new_rate_limit(InitialLimit)
    /\ inbox_rate_limit = new_rate_limit(InitialLimit)
    /\ custody = InitialCustody
    /\ balance = InitialBalance
    /\ posted = {}

enabled(t) == transceiver_id[t] \in config.enabled_transceivers

-----------------------------------------------------------------------------
(* Outbound.                                                               *)

\* What is taken for an amount: the part the peer can represent.
remove_dust(amount) ==
    untrim(trim(amount, mint_decimals, peer_decimals), mint_decimals)

\* transfer_lock or transfer_burn, by the mode; both with insert_into_outbox.
\* A transfer that does not fit is delayed, or refused without should_queue.
transfer(requested, should_queue) ==
    LET amount == remove_dust(requested)
        consumed == consumable(outbox_rate_limit, amount)
    IN  /\ Len(outbox) < MaxItems
        /\ ~config.paused
        /\ config.enabled_transceivers # {}
        /\ amount <= balance
        /\ balance' = balance - amount
        /\ custody' = IF Mode = "Locking" THEN custody + amount ELSE custody
        /\ consumed \/ should_queue
        /\ IF consumed
           THEN /\ outbox_rate_limit' = consume(outbox_rate_limit, amount)
                /\ inbox_rate_limit' = refill(inbox_rate_limit, amount)
           ELSE UNCHANGED limitVars
        /\ outbox' = Append(outbox,
              [amount |-> trim(requested, mint_decimals, peer_decimals),
               release_timestamp |-> IF consumed THEN now ELSE now + RATE_LIMIT_DURATION,
               released |-> {}])
        /\ UNCHANGED <<config, transceiver_id, inbox, validated, posted, arrived, now>>

\* The message of an outbox item.
message(k) == [id |-> k, amount |-> outbox[k].amount]

\* release_outbound of a transceiver, which has the manager mark the item
\* (mark_outbox_item_as_released, try_release) and posts its message.
release_outbound(t, k) ==
    /\ ~config.paused
    /\ enabled(t)
    /\ outbox[k].release_timestamp <= now
    /\ transceiver_id[t] \notin outbox[k].released
    /\ outbox' = [outbox EXCEPT ![k].released = @ \cup {transceiver_id[t]}]
    /\ posted' = posted \cup {<<t, message(k)>>}
    /\ UNCHANGED <<registryVars, inbox, validated, limitVars, tokenVars, arrived, now>>

-----------------------------------------------------------------------------
(* Inbound.                                                                *)

\* receive_message of a transceiver: init makes the account once.
receive_message(t, m) ==
    /\ ~config.paused
    /\ <<t, m>> \in arrived \ validated
    /\ validated' = validated \cup {<<t, m>>}
    /\ UNCHANGED <<registryVars, outbox, inbox, limitVars, tokenVars, posted, arrived, now>>

NotApproved == [status |-> "NotApproved", at |-> 0]
ReleaseAfter(t) == [status |-> "ReleaseAfter", at |-> t]
Released == [status |-> "Released", at |-> 0]

\* The inbox item of a message, made at its first redeem.
inbox_item(m) ==
    IF m \in DOMAIN inbox THEN inbox[m]
    ELSE [amount |-> untrim(m.amount, mint_decimals), votes |-> {},
          release_status |-> NotApproved]

\* Mutant of count_enabled_votes: votes of disabled transceivers count.
count_enabled_votes_CountsAll(votes) == Cardinality(votes)

count_enabled_votes(votes) == Cardinality(votes \cap config.enabled_transceivers)

\* Mutant of release_after_allowed: a released item may be approved again.
release_after_allowed_Always(item) == TRUE

release_after_allowed(item) == item.release_status = NotApproved

\* The votes for a message with that of a transceiver; voting is idempotent.
voted(t, m) == inbox_item(m).votes \cup {transceiver_id[t]}

\* redeem: with the vote of the transceiver there are enough.
approves(t, m) == count_enabled_votes(voted(t, m)) >= config.threshold

\* What redeem needs to succeed; it works while the program is paused.
redeemable(t, m) ==
    /\ config.threshold > 0
    /\ <<t, m>> \in validated
    /\ enabled(t)
    /\ untrim(m.amount, mint_decimals) <= U64_MAX
    /\ approves(t, m) => release_after_allowed(inbox_item(m))

\* redeem: the vote of a transceiver, and, with enough of them, the approval.
redeem(t, m) ==
    LET item == inbox_item(m)
        consumed == consumable(inbox_rate_limit, item.amount)
        updated(status) ==
            [x \in DOMAIN inbox \cup {m} |->
                IF x = m THEN [item EXCEPT !.votes = voted(t, m), !.release_status = status]
                ELSE inbox[x]]
    IN  /\ redeemable(t, m)
        /\ inbox' = updated(IF ~approves(t, m) THEN item.release_status
                            ELSE ReleaseAfter(
                                   IF consumed THEN now ELSE now + RATE_LIMIT_DURATION))
        /\ IF approves(t, m) /\ consumed
           THEN /\ inbox_rate_limit' = consume(inbox_rate_limit, item.amount)
                /\ outbox_rate_limit' = refill(outbox_rate_limit, item.amount)
           ELSE UNCHANGED limitVars
        /\ UNCHANGED <<registryVars, outbox, validated, tokenVars, posted, arrived, now>>

\* try_release: an approved item is due.
due(m) ==
    inbox[m].release_status.status = "ReleaseAfter" /\ inbox[m].release_status.at <= now

\* What a release needs to succeed.
releasable(m) ==
    /\ ~config.paused
    /\ due(m)
    /\ Mode = "Locking" => inbox[m].amount <= custody

\* release_inbound_unlock or release_inbound_mint, by the mode.
release_inbound(m) ==
    LET item == inbox[m]
    IN  /\ releasable(m)
        /\ inbox' = [inbox EXCEPT ![m].release_status = Released]
        /\ custody' = IF Mode = "Locking" THEN custody - item.amount ELSE custody
        /\ balance' = balance + item.amount
        /\ UNCHANGED <<registryVars, outbox, validated, limitVars, posted, arrived, now>>

-----------------------------------------------------------------------------
(* The owner's instructions.                                               *)

\* A transceiver gets an id the first time and keeps it.
register_transceiver(t) ==
    LET id == IF transceiver_id[t] = NoId THEN config.next_transceiver_id
              ELSE transceiver_id[t]
    IN  /\ id < BITS
        /\ transceiver_id' = [transceiver_id EXCEPT ![t] = id]
        /\ config' = [config EXCEPT
              !.next_transceiver_id = IF transceiver_id[t] = NoId THEN @ + 1 ELSE @,
              !.enabled_transceivers = @ \cup {id}]
        /\ UNCHANGED <<outbox, inbox, validated, limitVars, tokenVars, posted, arrived, now>>

deregister_transceiver(t) ==
    LET left == config.enabled_transceivers \ {transceiver_id[t]}
    IN  /\ enabled(t)
        /\ left # {}
        /\ config' = [config EXCEPT !.enabled_transceivers = left,
                                    !.threshold = least(@, Cardinality(left))]
        /\ UNCHANGED <<transceiver_id, outbox, inbox, validated, limitVars, tokenVars,
                       posted, arrived, now>>

set_threshold(n) ==
    /\ n > 0
    /\ n <= Cardinality(config.enabled_transceivers)
    /\ config' = [config EXCEPT !.threshold = n]
    /\ UNCHANGED <<transceiver_id, outbox, inbox, validated, limitVars, tokenVars,
                   posted, arrived, now>>

set_paused(paused) ==
    /\ paused => now <= MaxOwnerTime
    /\ config' = [config EXCEPT !.paused = paused]
    /\ UNCHANGED <<transceiver_id, outbox, inbox, validated, limitVars, tokenVars,
                   posted, arrived, now>>

set_outbound_limit(l) ==
    /\ now <= MaxOwnerTime
    /\ outbox_rate_limit' = set_limit(outbox_rate_limit, l)
    /\ UNCHANGED <<registryVars, outbox, inbox, validated, inbox_rate_limit, tokenVars,
                   posted, arrived, now>>

set_inbound_limit(l) ==
    /\ now <= MaxOwnerTime
    /\ inbox_rate_limit' = set_limit(inbox_rate_limit, l)
    /\ UNCHANGED <<registryVars, outbox, inbox, validated, outbox_rate_limit, tokenVars,
                   posted, arrived, now>>

\* set_peer of the peer there is: an unused limit is made anew.
set_peer(l) ==
    /\ now <= MaxOwnerTime
    /\ inbox_rate_limit' = IF inbox_rate_limit.last_tx_timestamp = 0
                           THEN new_rate_limit(l) ELSE set_limit(inbox_rate_limit, l)
    /\ UNCHANGED <<registryVars, outbox, inbox, validated, outbox_rate_limit, tokenVars,
                   posted, arrived, now>>

-----------------------------------------------------------------------------

Next ==
    \/ \E a \in Amount, should_queue \in BOOLEAN : transfer(a, should_queue)
    \/ \E m \in DOMAIN inbox : release_inbound(m)
    \/ \E t \in Transceiver :
          \/ \E k \in DOMAIN outbox : release_outbound(t, k)
          \/ \E x \in arrived : receive_message(t, x[2]) \/ redeem(t, x[2])
          \/ register_transceiver(t)
          \/ deregister_transceiver(t)
    \/ \E n \in 1 .. Cardinality(Transceiver) : set_threshold(n)
    \/ \E paused \in BOOLEAN : set_paused(paused)
    \/ \E l \in Limit : set_outbound_limit(l) \/ set_inbound_limit(l) \/ set_peer(l)

-----------------------------------------------------------------------------
(* Properties of a step of the program.                                    *)

Approved(box) == {m \in DOMAIN box : box[m].release_status # NotApproved}

\* INV-012: redeem approves a message only when at least threshold of the
\* transceivers enabled at that moment have delivered it, whatever was
\* registered, disabled and registered again since the first vote.
ApprovedWithQuorum ==
    \A m \in Approved(inbox') \ Approved(inbox) :
        Cardinality({t \in Transceiver : enabled(t) /\ <<t, m>> \in arrived})
            >= config.threshold

\* INV-011: a transfer that is not delayed gives exactly its amount back to
\* the limit of the other direction, at most up to that limit: the time that
\* has passed is not credited twice, and both sides count in the same unit.
RefillsByTheAmount ==
    LET refilled(old, new, amount) ==
            capacity_at(new, now) = least(capacity_at(old, now) + amount, old.limit)
        last == Len(outbox')
    IN  /\ (last > Len(outbox) /\ outbox'[last].release_timestamp = now)
              => refilled(inbox_rate_limit, inbox_rate_limit', balance - balance')
        /\ \A m \in Approved(inbox') \ Approved(inbox) :
              inbox'[m].release_status = ReleaseAfter(now)
                => refilled(outbox_rate_limit, outbox_rate_limit', inbox'[m].amount)

\* A message that has the votes it needs, because the threshold was lowered or
\* a transceiver enabled after they were cast, is approved by another redeem of
\* some transceiver; an approved one can be paid when it is due, unless the
\* program is paused: custody has the tokens.
NothingStranded ==
    /\ \A m \in DOMAIN inbox \ Approved(inbox) :
          count_enabled_votes(inbox[m].votes) >= config.threshold
            => \E t \in Transceiver : redeemable(t, m) /\ approves(t, m)
    /\ \A m \in DOMAIN inbox : (due(m) /\ ~config.paused) => releasable(m)
=============================================================================
