------------------------------- MODULE SuiNtt -------------------------------
(***************************************************************************)
(* The NTT packages of Sui (sui/packages/ntt, ntt_common and               *)
(* wormhole_transceiver), with one peer chain: the manager's shared State  *)
(* with its outbox, inbox, rate limits and registry, and what the          *)
(* transceivers do with the messages it hands out and takes in.            *)
(*                                                                         *)
(* A call that aborts changes nothing, so an abort is a guard.  Values     *)
(* without drop (TransferTicket, OutboundMessage,                          *)
(* ValidatedTransceiverMessage) are consumed in the transaction that makes *)
(* them: prepare_transfer with transfer, create_transceiver_message with   *)
(* release_outbound, validate_message with redeem are one action each.  A  *)
(* bitmap is the set of its ones.  The package has one version, and the    *)
(* treasury cap stays in the State; the peer keeps its address.            *)
(***************************************************************************)
EXTENDS TrimmedAmount, Sequences, FiniteSets

CONSTANTS
    Transceiver,            \* the transceiver types
    Mode,                   \* "Locking" or "Burning"
    coin_decimals,          \* decimals of the coin
    peer_decimals,          \* decimals of the token on the peer chain
    RATE_LIMIT_DURATION,    \* 24 hours in the package
    BITS,                   \* ones a bitmap has room for; 128 in the package
    InitialBalance,         \* coins in the hands of users at the start
    InitialLimit,           \* the inbound limit of the first set_peer
    Amount,                 \* amounts users ask to transfer
    Limit,                  \* limits the admin sets later
    MaxItems,               \* bound on the transfers started here
    MaxOwnerTime            \* the admin changes limits and pauses up to this time

VARIABLES
    state,                  \* threshold and paused
    registry,               \* enabled_bitmap and next_id
    transceiver_id,         \* transceiver -> its id, or NoId
    outbox,                 \* the outbox items; next_sequence is one past its length
    inbox,                  \* message -> its inbox item, for the messages that have one
    outbox_rate_limit,
    inbound_rate_limit,     \* of the peer
    locked,                 \* the balance of the State
    coins,                  \* coins in the hands of users
    posted,                 \* what the transceivers published: <<transceiver, message>>
    arrived,                \* what the peer's transceivers published for this chain
    now                     \* the clock

tokenVars == <<locked, coins>>
limitVars == <<outbox_rate_limit, inbound_rate_limit>>
registryVars == <<state, registry, transceiver_id>>
vars == <<state, registry, transceiver_id, outbox, inbox, outbox_rate_limit,
          inbound_rate_limit, locked, coins, posted, arrived, now>>

NoId == -1

-----------------------------------------------------------------------------
(* RateLimitState.                                                         *)

least(a, b) == IF a < b THEN a ELSE b

new_rate_limit(limit) ==
    [limit |-> limit, capacity_at_last_tx |-> limit, last_tx_timestamp |-> 0]

capacity_at(rl, t) ==
    least(rl.capacity_at_last_tx
            + ((t - rl.last_tx_timestamp) * rl.limit) \div RATE_LIMIT_DURATION,
          rl.limit)

\* consume_or_delay: the amount fits into the capacity.
consumable(rl, amount) == capacity_at(rl, now) >= amount

\* consume_or_delay: the state after an amount that fits.
consume(rl, amount) ==
    [rl EXCEPT !.capacity_at_last_tx = capacity_at(rl, now) - amount,
               !.last_tx_timestamp = now]

\* The time of the last transaction stays as it is.
refill(rl, amount) ==
    [rl EXCEPT !.capacity_at_last_tx =
                    least(least(capacity_at(rl, now) + amount, U64_MAX), rl.limit)]

set_limit(rl, limit) ==
    LET capacity == capacity_at(rl, now)
        moved == IF rl.limit > limit
                 THEN IF rl.limit - limit > capacity THEN 0
                      ELSE capacity - (rl.limit - limit)
                 ELSE least(capacity + (limit - rl.limit), U64_MAX)
    IN  [limit |-> limit, capacity_at_last_tx |-> least(moved, limit),
         last_tx_timestamp |-> now]

-----------------------------------------------------------------------------
(* The initial state: after complete and set_peer, before any transceiver  *)
(* is registered.                                                          *)

Init ==
    /\ state = [threshold |-> 0, paused |-> FALSE]
    /\ registry = [enabled_bitmap |-> {}, next_id |-> 0]
    /\ transceiver_id = [t \in Transceiver |-> NoId]
    /\ outbox = << >>
    /\ inbox = << >>
    /\ outbox_rate_limit = new_rate_limit(U64_MAX)
    /\ inbound_rate_limit = new_rate_limit(InitialLimit)
    /\ locked = 0
    /\ coins = InitialBalance
    /\ posted = {}

registered(t) == transceiver_id[t] # NoId

-----------------------------------------------------------------------------
(* Outbound.                                                               *)

\* prepare_transfer and transfer_tx_sender or transfer_with_auth.  The dust
\* goes back to the sender.
transfer(requested, should_queue) ==
    LET trimmed == trim(requested, coin_decimals, peer_decimals)
        amount == untrim(trimmed, coin_decimals)
        consumed == consumable(outbox_rate_limit, amount)
    IN  /\ Len(outbox) < MaxItems
        /\ ~state.paused
        /\ amount <= coins
        /\ coins' = coins - amount
        /\ locked' = IF Mode = "Locking" THEN locked + amount ELSE locked
        /\ consumed \/ should_queue
        /\ IF consumed
           THEN /\ outbox_rate_limit' = consume(outbox_rate_limit, amount)
                /\ inbound_rate_limit' = refill(inbound_rate_limit, trimmed.amount)
           ELSE UNCHANGED limitVars
        /\ outbox' = Append(outbox,
              [amount |-> trimmed,
               release_timestamp |-> IF consumed THEN now ELSE now + RATE_LIMIT_DURATION,
               released |-> {}])
        /\ UNCHANGED <<registryVars, inbox, posted, arrived, now>>

\* The message of an outbox item.
message(k) == [id |-> k, amount |-> outbox[k].amount]

try_release_allowed(k, id) ==
    outbox[k].release_timestamp <= now /\ id \notin outbox[k].released

\* create_transceiver_message, and release_outbound of a transceiver.  It has
\* to be registered; it need not be enabled.
release_outbound(t, k) ==
    /\ ~state.paused
    /\ registered(t)
    /\ try_release_allowed(k, transceiver_id[t])
    /\ outbox' = [outbox EXCEPT ![k].released = @ \cup {transceiver_id[t]}]
    /\ posted' = posted \cup {<<t, message(k)>>}
    /\ UNCHANGED <<registryVars, inbox, limitVars, tokenVars, arrived, now>>

-----------------------------------------------------------------------------
(* Inbound.                                                                *)

NotApproved == [status |-> "NotApproved", at |-> 0]
ReleaseAfter(t) == [status |-> "ReleaseAfter", at |-> t]
Released == [status |-> "Released", at |-> 0]

\* The inbox item of a message, made by its first vote.
inbox_item(m) ==
    IF m \in DOMAIN inbox THEN inbox[m]
    ELSE [votes |-> {}, release_status |-> NotApproved]

\* Mutant of count_enabled_votes: votes of disabled transceivers count.
count_enabled_votes_CountsAll(votes) == Cardinality(votes)

count_enabled_votes(votes) == Cardinality(votes \cap registry.enabled_bitmap)

\* Mutant of release_after_allowed: a released item may be approved again.
release_after_allowed_Always(item) == TRUE

release_after_allowed(item) == item.release_status = NotApproved

\* The votes for a message with that of a transceiver.
voted(t, m) == inbox_item(m).votes \cup {transceiver_id[t]}

\* redeem: with the vote of the transceiver there are enough.
approves(t, m) == count_enabled_votes(voted(t, m)) >= state.threshold

\* What redeem needs to succeed.  The transceiver has to be registered; it need
\* not be enabled.
redeemable(t, m) ==
    /\ ~state.paused
    /\ <<t, m>> \in arrived
    /\ registered(t)
    /\ untrim(m.amount, coin_decimals) <= U64_MAX
    /\ approves(t, m) => release_after_allowed(inbox_item(m))

\* validate_message of a transceiver and redeem: its vote, and, with enough
\* votes, the approval.
redeem(t, m) ==
    LET item == inbox_item(m)
        amount == untrim(m.amount, coin_decimals)
        consumed == consumable(inbound_rate_limit, amount)
        updated(status) ==
            [x \in DOMAIN inbox \cup {m} |->
                IF x = m THEN [votes |-> voted(t, m), release_status |-> status]
                ELSE inbox[x]]
    IN  /\ redeemable(t, m)
        /\ inbox' = updated(IF ~approves(t, m) THEN item.release_status
                            ELSE ReleaseAfter(
                                   IF consumed THEN now ELSE now + RATE_LIMIT_DURATION))
        /\ IF approves(t, m) /\ consumed
           THEN /\ inbound_rate_limit' = consume(inbound_rate_limit, amount)
                /\ outbox_rate_limit' = refill(outbox_rate_limit, amount)
           ELSE UNCHANGED limitVars
        /\ UNCHANGED <<registryVars, outbox, tokenVars, posted, arrived, now>>

\* try_release: an approved item is due.
due(m) ==
    inbox[m].release_status.status = "ReleaseAfter" /\ inbox[m].release_status.at <= now

\* What a release needs to succeed.
releasable(m) ==
    /\ ~state.paused
    /\ due(m)
    /\ Mode = "Locking" => untrim(m.amount, coin_decimals) <= locked

\* release, with try_release_in and mint_or_unlock.
release(m) ==
    LET amount == untrim(m.amount, coin_decimals)
    IN  /\ releasable(m)
        /\ inbox' = [inbox EXCEPT ![m].release_status = Released]
        /\ locked' = IF Mode = "Locking" THEN locked - amount ELSE locked
        /\ coins' = coins + amount
        /\ UNCHANGED <<registryVars, outbox, limitVars, posted, arrived, now>>

-----------------------------------------------------------------------------
(* The admin's calls.                                                      *)

\* check_threshold_invariants of a threshold and a set of enabled ids.
threshold_ok(threshold, enabled) ==
    /\ threshold <= Cardinality(enabled)
    /\ enabled # {} => threshold > 0

register_transceiver(t) ==
    LET enabled == registry.enabled_bitmap \cup {registry.next_id}
        threshold == IF state.threshold = 0 THEN 1 ELSE state.threshold
    IN  /\ ~registered(t)
        /\ registry.next_id < BITS
        /\ threshold_ok(threshold, enabled)
        /\ transceiver_id' = [transceiver_id EXCEPT ![t] = registry.next_id]
        /\ registry' = [enabled_bitmap |-> enabled, next_id |-> registry.next_id + 1]
        /\ state' = [state EXCEPT !.threshold = threshold]
        /\ UNCHANGED <<outbox, inbox, limitVars, tokenVars, posted, arrived, now>>

\* Any id can be enabled, whether or not a transceiver has it.
enable_transceiver(id) ==
    LET enabled == registry.enabled_bitmap \cup {id}
    IN  /\ threshold_ok(state.threshold, enabled)
        /\ registry' = [registry EXCEPT !.enabled_bitmap = enabled]
        /\ UNCHANGED <<state, transceiver_id, outbox, inbox, limitVars, tokenVars,
                       posted, arrived, now>>

\* The threshold follows the number of enabled transceivers down, to zero.
threshold_after_disable(enabled) == least(state.threshold, Cardinality(enabled))

disable_transceiver(id) ==
    LET enabled == registry.enabled_bitmap \ {id}
        threshold == threshold_after_disable(enabled)
    IN  /\ threshold_ok(threshold, enabled)
        /\ registry' = [registry EXCEPT !.enabled_bitmap = enabled]
        /\ state' = [state EXCEPT !.threshold = threshold]
        /\ UNCHANGED <<transceiver_id, outbox, inbox, limitVars, tokenVars, posted,
                       arrived, now>>

set_threshold(n) ==
    /\ n > 0
    /\ threshold_ok(n, registry.enabled_bitmap)
    /\ state' = [state EXCEPT !.threshold = n]
    /\ UNCHANGED <<registry, transceiver_id, outbox, inbox, limitVars, tokenVars,
                   posted, arrived, now>>

\* pause and unpause.
set_paused(paused) ==
    /\ paused => now <= MaxOwnerTime
    /\ state' = [state EXCEPT !.paused = paused]
    /\ UNCHANGED <<registry, transceiver_id, outbox, inbox, limitVars, tokenVars,
                   posted, arrived, now>>

set_outbound_rate_limit(l) ==
    /\ now <= MaxOwnerTime
    /\ outbox_rate_limit' = set_limit(outbox_rate_limit, l)
    /\ UNCHANGED <<registryVars, outbox, inbox, inbound_rate_limit, tokenVars,
                   posted, arrived, now>>

\* set_peer of the peer there is.
set_peer(l) ==
    /\ now <= MaxOwnerTime
    /\ inbound_rate_limit' = set_limit(inbound_rate_limit, l)
    /\ UNCHANGED <<registryVars, outbox, inbox, outbox_rate_limit, tokenVars,
                   posted, arrived, now>>

-----------------------------------------------------------------------------

Next ==
    \/ \E a \in Amount, should_queue \in BOOLEAN : transfer(a, should_queue)
    \/ \E m \in DOMAIN inbox : release(m)
    \/ \E t \in Transceiver :
          \/ \E k \in DOMAIN outbox : release_outbound(t, k)
          \/ \E x \in arrived : redeem(t, x[2])
          \/ register_transceiver(t)
    \/ \E id \in 0 .. BITS - 1 : enable_transceiver(id) \/ disable_transceiver(id)
    \/ \E n \in 1 .. BITS : set_threshold(n)
    \/ \E paused \in BOOLEAN : set_paused(paused)
    \/ \E l \in Limit : set_outbound_rate_limit(l) \/ set_peer(l)

-----------------------------------------------------------------------------
(* Properties of a step of the packages.                                   *)

Approved(box) == {m \in DOMAIN box : box[m].release_status # NotApproved}

\* The transceivers enabled now that have delivered a message.
Attesters(m) ==
    {t \in Transceiver :
        transceiver_id[t] \in registry.enabled_bitmap /\ <<t, m>> \in arrived}

\* INV-012, as far as it holds: redeem approves a message only when at least
\* threshold of the transceivers enabled at that moment have delivered it.
ApprovedWithQuorum ==
    \A m \in Approved(inbox') \ Approved(inbox) :
        Cardinality(Attesters(m)) >= state.threshold

\* INV-012, in full: what redeem approves has been delivered by a transceiver
\* that is enabled ("disabled votes don't count").
ApprovedByEnabled ==
    \A m \in Approved(inbox') \ Approved(inbox) : Attesters(m) # {}

\* INV-011: a transfer that is not delayed gives exactly its amount back to
\* the limit of the other direction, at most up to that limit.
RefillsByTheAmount ==
    LET refilled(old, new, amount) ==
            capacity_at(new, now) = least(capacity_at(old, now) + amount, old.limit)
        last == Len(outbox')
    IN  /\ (last > Len(outbox) /\ outbox'[last].release_timestamp = now)
              => refilled(inbound_rate_limit, inbound_rate_limit', coins - coins')
        /\ \A m \in Approved(inbox') \ Approved(inbox) :
              inbox'[m].release_status = ReleaseAfter(now)
                => refilled(outbox_rate_limit, outbox_rate_limit',
                            untrim(m.amount, coin_decimals))

\* A message that has the votes it needs is approved by another redeem of some
\* transceiver, and an approved one can be paid when it is due, unless the
\* manager is paused: what is locked covers it.
NothingStranded ==
    ~state.paused =>
        /\ \A m \in DOMAIN inbox \ Approved(inbox) :
              count_enabled_votes(inbox[m].votes) >= state.threshold
                => \E t \in Transceiver : redeemable(t, m) /\ approves(t, m)
        /\ \A m \in DOMAIN inbox : due(m) => releasable(m)
=============================================================================
