-------------------------- MODULE SpecialDelivery --------------------------
(***************************************************************************)
(* Sending a message to another chain and paying for its delivery: the     *)
(* sending half of the Wormhole transceiver                                *)
(* (evm/src/Transceiver/WormholeTransceiver/), the SpecialRelayer and its  *)
(* execution quoter (evm/src/SpecialRelayer/), the quoter service that     *)
(* signs quotes (quoter-service/src/server.ts) and the manager's outbound  *)
(* queue, which keeps a transfer's instructions until it is completed.     *)
(*                                                                         *)
(* One manager with one transceiver sends to one chain.  Whether a         *)
(* transfer is rate limited is a free choice here (RateLimitedFlow); its   *)
(* tokens are the subject of NttManager.  The price of an execution is     *)
(* what PenguinBridgeExecutionQuoter computes for the chain and the        *)
(* transceiver's gas limit from what the oracle pushed last.  Anybody may  *)
(* also ask the relayer for an execution, without a transceiver.           *)
(***************************************************************************)
EXTENDS Integers, FiniteSets, FiniteSetsExt

CONSTANTS
    Price,              \* execution prices, in the source chain's coin
    messageFee,         \* the fee of Wormhole's core bridge
    standardCost,       \* what the standard relayer charges
    validity,           \* how long the service's quotes are valid
    rateLimitDuration,  \* how long a rate limited transfer is queued
    MaxTransfers,       \* bound on the transfers and the requests by others
    MaxQuotes,          \* bound on the quotes that are signed
    MaxTime             \* bound on the clock

ASSUME DeliveryAssumption ==
    /\ Price \subseteq Nat \ {0}
    /\ messageFee \in Nat
    /\ standardCost \in Nat
    /\ validity \in Nat \ {0}
    /\ rateLimitDuration \in Nat
    /\ MaxTransfers \in Nat /\ MaxQuotes \in Nat /\ MaxTime \in Nat

Transfer == 1 .. MaxTransfers

VARIABLES
    relaying,   \* the transceiver's flags for the chain: standard, special, evm
    relayer,    \* the relayer's setup: the quoter and source chain are set, the
                \* service's key is authorized
    price,      \* the execution price; 0 before the first update
    now,        \* block.timestamp
    quotes,     \* the quotes the service has signed: payment and expiry
    queue,      \* transfer -> its entry in the outbound queue, at most one
    started,    \* the number of transfers so far
    direct,     \* the number of requests so far that passed no transceiver
    coins,      \* account -> the coins it has got, less those it has spent
    \* History, read by no action:
    published,  \* the transfers whose message the transceiver published
    requests    \* the accepted execution requests, each with its caller, the
                \* caller's number for it, and the time and the price then

configVars == <<relaying, relayer, price>>
sendVars == <<direct, coins, published, requests>>
vars == <<relaying, relayer, price, now, quotes, queue, started, direct, coins,
          published, requests>>

\* The instructions of a transfer: not to relay, a signed quote, or nothing a
\* relayer accepts (no quote, or one for another chain or gas limit).
Skip == [skip |-> TRUE, quote |-> {}]
Plain == [skip |-> FALSE, quote |-> {}]
Quoted(q) == [skip |-> FALSE, quote |-> {q}]

\* The users together, the three contracts the coins pass through, and those
\* who are paid.
Account == {"users", "transceiver", "relayer", "bridge", "payee"}

Init ==
    /\ relaying = [standard |-> FALSE, special |-> FALSE, evm |-> FALSE]
    /\ relayer = [quoter |-> FALSE, chain |-> FALSE, signer |-> FALSE]
    /\ price = 0
    /\ now = 1
    /\ quotes = {}
    /\ queue = [n \in Transfer |-> {}]
    /\ started = 0
    /\ direct = 0
    /\ coins = [a \in Account |-> 0]
    /\ published = {}
    /\ requests = {}

-----------------------------------------------------------------------------
(* Configuration, prices and quotes.                                       *)

\* The three setters of the transceiver, by its owner.
setRelaying(flag, value) ==
    /\ relaying' = [relaying EXCEPT ![flag] = value]
    /\ relaying' # relaying
    /\ UNCHANGED <<relayer, price, now, quotes, queue, started, sendVars>>

\* setExecutionQuoter, setSourceChainId, addQuoter and removeQuoter.
setRelayer(part, value) ==
    /\ relayer' = [relayer EXCEPT ![part] = value]
    /\ relayer' # relayer
    /\ UNCHANGED <<relaying, price, now, quotes, queue, started, sendVars>>

\* The oracle pushes new prices.
priceUpdate(p) ==
    /\ price' = p
    /\ price' # price
    /\ UNCHANGED <<relaying, relayer, now, quotes, queue, started, sendVars>>

\* The service signs the price the chain quotes.
handleQuote ==
    /\ Cardinality(quotes) < MaxQuotes
    /\ price # 0
    /\ quotes' = quotes \cup {[payment |-> price, expiry |-> now + validity]}
    /\ UNCHANGED <<configVars, now, queue, started, sendVars>>

tick ==
    /\ now < MaxTime
    /\ now' = now + 1
    /\ UNCHANGED <<configVars, quotes, queue, started, sendVars>>

-----------------------------------------------------------------------------
(* Sending.                                                                *)

shouldRelayViaStandardRelaying == relaying.standard /\ relaying.evm

checkInvalidRelayingConfig == relaying.standard /\ ~relaying.evm

\* Mutant of quotable: the configuration is checked for every instruction.
quotable_ChecksConfigFirst(i) ==
    /\ ~checkInvalidRelayingConfig
    /\ i.skip \/ shouldRelayViaStandardRelaying \/ ~relaying.special
         \/ (relayer.quoter /\ price # 0)

\* The price of a delivery can be quoted.
quotable(i) ==
    i.skip \/ /\ ~checkInvalidRelayingConfig
              /\ \/ shouldRelayViaStandardRelaying
                 \/ ~relaying.special
                 \/ relayer.quoter /\ price # 0

route(i) ==
    IF ~i.skip /\ shouldRelayViaStandardRelaying THEN "standard"
    ELSE IF ~i.skip /\ relaying.special THEN "special" ELSE "manual"

\* What the caller pays and the manager passes on to the transceiver.
quoteDeliveryPrice(i) ==
    CASE route(i) = "standard" -> standardCost
      [] route(i) = "special"  -> price + messageFee
      [] route(i) = "manual"   -> messageFee

pays(from, to, amount, c) ==
    [c EXCEPT ![from] = @ - amount, ![to] = @ + amount]

\* Mutant of refundAccepted: the transceiver takes coins back.
refundAccepted_Always(caller, excess) == TRUE

\* The transceiver has no function that receives coins: to it only a refund of
\* nothing does not revert (RefundFailed).
refundAccepted(caller, excess) == caller = "transceiver" => excess = 0

\* Mutant of quoteAccepted: the expiry is not checked.
quoteAccepted_NoExpiry(q, paid) ==
    /\ relayer.quoter /\ relayer.chain /\ relayer.signer
    /\ paid >= q.payment

\* The quote is in force, signed by an authorized quoter, and paid for.
quoteAccepted(q, paid) ==
    /\ relayer.quoter /\ relayer.chain /\ relayer.signer
    /\ now <= q.expiry
    /\ paid >= q.payment

\* The payee gets what the quote says, the caller the rest; n is the caller's
\* number for the request, c the coins at the call.
requestExecution(caller, n, q, paid, c) ==
    /\ quoteAccepted(q, paid)
    /\ refundAccepted(caller, paid - q.payment)
    /\ coins' = pays("relayer", caller, paid - q.payment,
                  pays("relayer", "payee", q.payment,
                    pays(caller, "relayer", paid, c)))
    /\ requests' = requests \cup {[caller |-> caller, number |-> n, quote |-> q,
                                   at |-> now, price |-> price]}

\* Somebody who can be refunded calls requestExecution, with a quote and any
\* payment; what is to be executed is the caller's own business.
requestDirectly(q, paid) ==
    /\ started + direct < MaxTransfers
    /\ direct' = direct + 1
    /\ requestExecution("users", direct', q, paid, coins)
    /\ UNCHANGED <<configVars, now, quotes, queue, started, published>>

\* _prepareForTransfer and the transceiver's sendMessage, for transfer n: the
\* relayer is asked with the coins beyond the message fee.
sendMessage(n, i) ==
    LET payment == quoteDeliveryPrice(i)
        c == pays("users", "transceiver", payment, coins)
    IN  /\ quotable(i)
        /\ published' = published \cup {n}
        /\ IF route(i) = "special"
           THEN \E q \in i.quote :
                   requestExecution("transceiver", n, q, payment - messageFee,
                                    pays("transceiver", "bridge", messageFee, c))
           ELSE /\ coins' = pays("transceiver", "bridge", payment, c)
                /\ UNCHANGED requests
        /\ UNCHANGED direct

\* A transfer within the rate limit.
transfer(i) ==
    /\ started + direct < MaxTransfers
    /\ started' = started + 1
    /\ sendMessage(started', i)
    /\ UNCHANGED <<configVars, now, quotes, queue>>

\* A transfer above it is queued with its instructions, which nobody looks at
\* yet; the caller's coins are given back.
transferQueued(i) ==
    /\ started + direct < MaxTransfers
    /\ started' = started + 1
    /\ queue' = [queue EXCEPT ![started'] = {[instruction |-> i, txTimestamp |-> now]}]
    /\ UNCHANGED <<configVars, now, quotes, sendVars>>

completeOutboundQueuedTransfer(n, e) ==
    /\ now - e.txTimestamp >= rateLimitDuration
    /\ queue' = [queue EXCEPT ![n] = {}]
    /\ sendMessage(n, e.instruction)
    /\ UNCHANGED <<configVars, now, quotes, started>>

\* The sender takes the tokens back.
cancelOutboundQueuedTransfer(n) ==
    /\ queue[n] # {}
    /\ queue' = [queue EXCEPT ![n] = {}]
    /\ UNCHANGED <<configVars, now, quotes, started, sendVars>>

Next ==
    \/ \E flag \in {"standard", "special", "evm"}, value \in BOOLEAN : setRelaying(flag, value)
    \/ \E part \in {"quoter", "chain", "signer"}, value \in BOOLEAN : setRelayer(part, value)
    \/ \E p \in Price : priceUpdate(p)
    \/ handleQuote
    \/ tick
    \/ \E i \in {Skip, Plain} \cup {Quoted(q) : q \in quotes} : transfer(i) \/ transferQueued(i)
    \/ \E n \in Transfer :
          \/ \E e \in queue[n] : completeOutboundQueuedTransfer(n, e)
          \/ cancelOutboundQueuedTransfer(n)
    \/ \E q \in quotes, paid \in Price : requestDirectly(q, paid)

Spec == Init /\ [][Next]_vars

-----------------------------------------------------------------------------
\* No coin of a delivery stays in the transceiver or in the relayer, which
\* have no way to pay it out to the user it belongs to, whichever way the
\* message went and however the price moved since it was quoted; the users have
\* paid what the bridge got and what the accepted quotes say, which the payee
\* has.
NothingStaysBehind ==
    LET payment(r) == r.quote.payment IN
    /\ coins["transceiver"] = 0
    /\ coins["relayer"] = 0
    /\ coins["payee"] = MapThenSumSet(payment, requests)
    /\ coins["users"] = -(coins["bridge"] + coins["payee"])

\* Every execution the relayer is asked for was paid for with a quote that the
\* service signed and that was in force; one that a transceiver asked for is
\* that of a published transfer, and its quote's price was still the one on
\* chain.  Who asks without a transceiver may use a quote of an earlier price
\* as long as it is in force.
RequestsAreCurrent ==
    \A r \in requests :
        /\ r.quote \in quotes
        /\ r.at <= r.quote.expiry
        /\ r.caller = "transceiver" =>
              r.number \in published /\ r.quote.payment = r.price

Releasable(n, e) ==
    now - e.txTimestamp >= rateLimitDuration =>
        ENABLED completeOutboundQueuedTransfer(n, e)

\* Whatever the owner does to the relaying flags while it is queued, a
\* transfer that asked for no relaying can be released.
SkippedCanBeReleased ==
    \A n \in Transfer : \A e \in queue[n] : e.instruction.skip => Releasable(n, e)

=============================================================================
