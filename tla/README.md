# Native Token Transfers: TLA+ models, checks and proofs

This directory models the parts of this repository that move value between
chains, and the services that keep them going: the EVM managers and transceivers
(`evm/src`), the Solana programs (`solana/programs`), the Sui packages
(`sui/packages`), the relayer bot that delivers messages (`relayer-bot/src`), the
special relayer with the quoter service, and the oracle service that pushes
prices. TLC checks the models on small instances, and TLAPS proves the central
safety properties for every instance. `PROJECT.json` is the index: components,
runs, mutants, the map from definitions to source lines, findings, hazards and
theorems.

Commands, from this directory:

    tlc -config MCNttManager.cfg MCNttManager       # a run
    tlapm NttManagerProofs.tla                      # the proofs of a module

## 1. Inventory

### EVM contracts

**Transceiver registry** (`NttManager/TransceiverRegistry.sol`). Keeps the
transceivers in five forms: info records with an index, the list of registered
ones, the list of enabled ones, a 64-bit bitmap of enabled indices, and two
counters. Operations: `_setTransceiver` (register or re-enable) and
`_removeTransceiver` (disable; an index is never given away). Correct when the
five forms agree, which is what its `_checkTransceiversInvariants` asserts.

**Attestation and execution** (`NttManager/ManagerBase.sol`, and the entry
points of `NttManager.sol`). Keeps, per message digest, a bitmap of attesting
transceivers and the executed flag; the threshold; the pause flag; peers.
Transceivers call `attestationReceived`; anybody calls `executeMsg`; the owner
calls `setTransceiver`, `removeTransceiver`, `setThreshold`, `setPeer`, `pause`,
`unpause`. The hard part is that the owner's calls interleave with messages
whose bits are set already. Correct when each message is handled at most once,
and only with enough deliveries by transceivers enabled at that time.

**Transfers** (`NttManager/NttManager.sol`). Keeps the message sequence, an
outbound and an inbound queue, and the custody of a locking manager. Operations:
`transfer`, `completeOutboundQueuedTransfer`, `cancelOutboundQueuedTransfer`,
`executeMsg` (through `_handleTransfer`), `completeInboundQueuedTransfer`, and
the setters of limits. Correct when value is conserved and backed between
chains, each transfer has one fate and each payment is made once.

**Rate limiter** (`libraries/RateLimiter.sol`). One record per direction and
chain: limit, capacity, time of the last change. Capacity refills over
`rateLimitDuration`, and a transfer in the opposite direction gives capacity
back. Correct when capacity stays in bounds, the flow of a window is limited and
the owner can always change a limit.

**Amounts** (`libraries/TrimmedAmount.sol`). Amounts travel as 64-bit numbers
with at most eight decimals and no more than either token has.

**Transceivers** (`Transceiver/`). Send and receive through Wormhole. Keep a
peer per chain (set once), the hashes of the VAAs they have consumed, and three
relaying flags per chain. Operations: `receiveMessage` (anybody, with a VAA),
`receiveWormholeMessages` (the standard relayer), `sendMessage` (the manager), the
setters. A VAA is marked before the manager is called, and the same message may
come under two hashes. Correct when no VAA is spent without an attestation and no
message attested twice by one transceiver.

**Special relayer and quoter** (`SpecialRelayer/`). Payment for a delivery
against a quote signed off chain, which expires; a price that the oracle moves.
The transceiver pays the price of now, the relayer takes the price of the quote.
Correct when no coin stays on the way and no delivery is bought at an old price.

**Ownership, pause, upgrades, governance; manager variants.** Configuration
around the above.

### Relayer bot (`relayer-bot/src`)

**Transactions table** (`db/transactions.ts`). One row per source transaction:
status, nonce, relay transaction hash, retries. Every update is one guarded SQL
statement.

**Listener** (`roles/listener.ts`). Writes a row and the block cursor in one
database transaction, then publishes a message.

**Worker** (`roles/worker.ts`, `relay/delivery.ts`). Takes a message under an
advisory lock, prepares the delivery, reserves a nonce (`wallet/walletPool.ts`)
in the same transaction that marks the row `submitting`, broadcasts, records the
hash, acknowledges.

**Cron** (`roles/cron.ts`). Finds rows that nobody has touched for a while,
publishes them again, or reads the receipt of what they sent and confirms,
retries, resubmits or gives up. It takes no lock that a worker takes.

**Queue** (`queue/redisStreams.ts`). At least once: messages are reclaimed from
dead consumers, delayed, duplicated, and lost with Redis.

Everything here is hard in the usual way: a crash between two awaits, a decision
on a row that has changed since it was read, duplicated messages, a resubmission
racing the transaction it replaces.

### Oracle service (`oracle-service/src`)

A loop (`runner.ts`) that pushes a sample to the TWAP reader, when the quoter
uses it, and then the batch of prices; a writer (`oracle.ts`) that sends both
from one account. Keeps in memory the last transaction whose outcome is open and
the last mined nonce. A transaction that is stuck is replaced at its nonce with
higher fees; nodes may lag, the process may restart, operators may use the same
key. Correct when no nonce blocks the account and the batch never overtakes the
sample it is multiplied with.

### Quoter service (`quoter-service/src`)

Signs the price that the chain quotes, with an expiry. Keeps nothing.

### Solana programs (`solana/programs`)

The manager program keeps a config (pause, threshold, enabled bitmap, next id),
a registration per transceiver, outbox items (released bitmap), inbox items (votes
and release status), and a rate limit per direction. Operations: the two
transfers, `redeem`, the two releases, the owner's instructions; in the
transceiver program `receive_message` and `release_wormhole_outbound`. A
message is accepted by an account per transceiver, a transfer by a key per outbox
item. Correct when value is neither lost nor doubled, and an item is approved by
enabled transceivers only.

### Sui packages (`sui/packages`)

The same design on one shared `State` object, with values that must be consumed
in the transaction that makes them. It differs in who may vote (every registered
transceiver), in how the threshold follows the registry, and in the refill of a
rate limit; the properties are the same.

### Clients

`cli/` and `sdk/` with the `ts/` directories build transactions, deploy, and read
state; they keep no protocol state.

### How the parts interact

    user --transfer--> NttManager(source) --send--> transceivers --VAA--> Wormhole
                            |  queue when rate limited                        |
    relayer bot: listener -> table/queue -> worker --receiveMessage--> transceiver(dest)
                                 ^ cron                                       |
                                                  NttManager(dest) <--attestationReceived
                                                     |  quorum, executed once
                                                     +--> unlock/mint, or queue when rate limited

## 2. Modules

| Module | Models | Composition |
|---|---|---|
| `TransceiverRegistry` | `TransceiverRegistry.sol` | |
| `ManagerBase` | `ManagerBase.sol`, entry points of `NttManager.sol` | extends `TransceiverRegistry` |
| `WormholeTransceiver` | receiving half of the Wormhole transceivers of one manager | extends `ManagerBase` |
| `TrimmedAmount` | `TrimmedAmount.sol`, and the same arithmetic of Solana and Sui | |
| `RateLimiter` | `RateLimiter.sol`, as operators on one limit | extends `TrimmedAmount` |
| `RateLimitedFlow` | one limit under any calls | extends `RateLimiter` |
| `Bridge` | what a set of managers promises: abstract | |
| `NttManager` | `NttManager.sol` on several chains | extends `RateLimiter`, implements `Bridge` |
| `AmountRoutes` | a whole amount moved along a route of tokens | extends `TrimmedAmount` |
| `SpecialDelivery` | sending half of the transceiver, `SpecialRelayer.sol` and its quoter, the quoter service, queued instructions | |
| `SolanaNtt`, `SuiNtt` | the Solana programs, the Sui packages, one chain each | |
| `SolanaSui` | a Solana and a Sui manager that are peers | instances of both, implements `Bridge` |
| `Transactions` | `db/transactions.ts`, as operators on one row | |
| `RelayerBot` | listener, worker, cron, queue, wallet pool, destination chain | extends `Transactions` |
| `OracleWriter` | the oracle's push loop and writer, the account on chain | |
| `AmountTheorems` | lemmas on sums, powers of ten and scaling | extends `TrimmedAmount` |
| `WormholeTransceiverProofs` | theorems about `ManagerBase` and `WormholeTransceiver` | extends both |
| `AmountFlowProofs` | theorems about `RateLimitedFlow` and `AmountRoutes` | extends both and `AmountTheorems` |
| `NttManagerProofs`, `SpecialDeliveryProofs`, `SolanaSuiProofs` | theorems | extend the modules they are about and `AmountTheorems` |
| `RelayerBotProofs`, `OracleWriterProofs` | theorems | extend the modules they are about |
| `MC*` | instances for TLC | |

Definitions have the names of the functions they model. An operator whose name
has a suffix after an underscore (`scale_RoundsUp`) and whose comment
calls it a mutant is a wrong version of the definition that follows it,
used only to see that a property notices. A Solidity call, a Solana instruction
and a Sui transaction are one action each: they do everything or nothing. A
revert, an error or an abort is a disabled action.

### ManagerBase

`attested` is a set of bit positions as in the contract; `deliveredBy`, `everPeer`
and `handled` are history variables that let properties speak about transceivers
and managers where the code has bits. A digest stands for a message and its source
chain; `Origin` gives the manager that emitted it, so a message of a manager that
is not the peer is refused. `prepareForTransfer` says for which lists of
transceiver instructions a transfer is accepted. The bitmap has `MAX_TRANSCEIVERS`
bits; the owner may try to register more.

### WormholeTransceiver

Every transceiver of the manager is a `WormholeTransceiver`: it reports what is
in a VAA, or in a delivery of the standard relayer, that comes from its peer, that
it has not consumed and whose payload names this manager. VAAs are given by
constants (emitter, message carried, recipient, kind), so two VAAs may carry the
same message. A manager's refusal reverts the mark too: both are one action. The
manager's own actions are those of `ManagerBase`, and a transceiver's are its
`attestationReceived` with more or leave its variables alone, so that every
behaviour of the composition is one of `ManagerBase`, by construction.

### Bridge and the refinements

`Bridge` knows transfers, each with a phase (`none`, `queued`, `sent`, `due`,
`paid`, `refunded`) and a value in flight, and the sum of what is held by users
and custody. A transfer takes its value once, and gives it back or pays it, once
and whole. `NttManager` maps a (chain, sequence) to the phase found in the two
queues and in the executed messages; `SolanaSui` maps a (chain, outbox
position) to the phase found in the outbox of one chain and the inbox of the
other. Amounts are compared in a common number of decimals.

### NttManager

A message that was sent can be executed by its destination once, at any time, in
any order; why that is so is the subject of `ManagerBase`. Peers are fixed, with
their true decimals. Tokens may keep a fee of each transfer (`TransferFee`), since
the contract computes what it got from its balance. Each chain has its own clock.
What `_prepareForTransfer` checks beyond this is left out: every manager is taken
to have an enabled transceiver, and the price of a delivery and the expiry of a
quote belong to `SpecialDelivery`. A call that sends, `transfer` or
`completeOutboundQueuedTransfer`, may therefore fail in the code where it is
enabled here. For safety that only adds behaviours. For liveness it matters, so a
queue entry says whether it skips relaying (`skip`), and only such an entry is
assumed to be released (section 4).
`tick` is enabled only while time matters, that is, while some queued transfer
waits for its delay or a limit was changed less than a duration ago: after that
every limit is full and every delay over, and a later time behaves like the
present one, so the clock is finite without a behaviour being cut. `MaxLimitTime`
bounds when the owner changes limits, `MaxSequence` how many transfers start.

### SpecialDelivery

One transfer's message goes to Wormhole only, to the standard relayer, or to the
special relayer, by its instructions and the flags at that time. `coins` is a
ledger of the native coin, relative to the start. Whether a transfer is rate
limited is free. The amount of a price is a constant set: how the quoter computes
it is left out. `requestExecution` is open to anybody, and a refund goes to its
caller. The transceiver has no `receive` function, so its request reverts whenever
there is something to refund, and it can use a quote only while the price on chain
is the one the quote was signed for (`refundAccepted`). Other callers
(`requestDirectly`) are users, who take refunds and may pay more than the quote,
and may use a quote of an earlier price while it is in force. `direct` counts
their requests, and `MaxTransfers` bounds them and the transfers together.

### SolanaNtt, SuiNtt and SolanaSui

Each chain is a module with its peer's posted messages (`arrived`) as an input.
A message can be delivered by a transceiver any number of times, in any order, or
never. The initial state is after `initialize`/`complete` and the first `set_peer`,
with a limit that is a constant, with tokens of earlier traffic in custody on
Solana and in circulation on Sui; registration of transceivers is part of the
behaviour. `revert_when_not_ready` and the release that does nothing are a
stuttering step. On Solana a pause does not stop `redeem`, as in the program. On
Sui the values without `drop` make `prepare_transfer` with `transfer`,
`create_transceiver_message` with `release_outbound`, and `validate_message` with
`redeem` one action each. Both chains share a clock. That `scale` on
both chains also fails for decimals more than 18 apart is left out.

### OracleWriter

A step is what happens between two awaits: the read of the latest nonce, the read
of the pending count, the send, the end of the wait. Fees are counted in bumps.
Gas is `Cold` for the first write of a slot and `Warm` afterwards; an estimate on
the pending state sees what is in the pool as run. The age of a value is the
number of the account's transactions mined when its tick began. Any call to the
node may fail: a read (`readFails`), or a send whose transaction the node has
accepted all the same (`sendUnanswered`), which leaves `lastSent` as it was. The
history variable `firstLost` says that such a lost answer was to the first
transaction at its nonce. `MaxFaults` is one budget for restarts, failed reads,
lost answers, reads of a node that lags a block, evictions of the
writer's transaction, transactions by an operator and changes of the pricing
mode. A fee that has reached `MaxFee`, above every market fee, is not bumped
further, and the wait for such a transaction ends only when it is mined or gone:
`waitFails` is disabled, since a node mines what pays the market fee. The
bound on nonces ends the behaviour after `MaxNonce + 1` transactions.

### RelayerBot

A step is what happens between two awaits whose results matter: one SQL
statement or transaction, one call to a node, one queue operation. There is one
wallet and one destination. The following are deliberate:

- Timeouts may expire at any time. The heartbeat (`touch`) is not a step, since
  it changes only what the cron considers old; its effect is that fairness is
  assumed only for the cron finding rows with no message and no worker.
- Everything that goes wrong (a crash of a worker, of the cron or of the
  listener, a failed or timed out call, a lost message, an evicted, reverted or
  foreign transaction) takes one of `MaxFaults`, so the model is finite and
  nothing bad is ever assumed to happen.
- Reading a receipt and updating the row are one step; the rows of a cron batch
  are processed as if selected one at a time.
- The mempool is one view; a transaction that was replaced is not mined; there
  are no reorganisations. The copies of a transaction sent again with the same
  nonce differ in their hash.
- A message that is put back stays in `queue`; `MaxCopies` caps duplicates. A
  retry count is capped at the maximum, which is all the code compares it with.
- A transaction that reverts because somebody else has delivered the VAA makes
  its row a dead letter although the delivery happened. That is what `cron.ts`
  does, and no property says otherwise.
- A wallet removed from the configuration is left out, and so are the cron's
  loss of its leader lock, by which two crons could run, and the branch of
  `resubmit` for a row without a nonce, since a row that was submitted has one.

## 3. Runs

| Run | Instance | Shows |
|---|---|---|
| `wormhole_transceiver` | 4 transceivers, 3 bits, 2 messages, 4 VAAs of 2 emitters, one of them a delivery | The registry's forms agree; threshold bounds; bits are deliveries; executed at most once and with a quorum; a VAA is consumed exactly when it is attested; one emitter per transceiver; indices are stable; additions never disapprove; a removal approves only what all that remain have delivered; accepted instructions stay accepted |
| `rate_limited_flow` | limits 0, 2, 5 and the largest; duration 3; time to 6; 3 flows | Capacity in bounds, window bound, backflow is free, `setLimit` never reverts |
| `ntt_manager` | hub locking a token with 3 decimals and a fee, spoke burning one with 1 decimal, amounts trimmed to 2; 2 + 1 transfers | Implements `Bridge`; conservation, backing, nothing stuck; what is sent is paid; what is queued without relaying is sent or cancelled |
| `amount_routes` | decimals 1 to 4 around a trim of 2; a 16-bit range for the 64-bit one | Value preserved along every route; dust refused no wider than needed |
| `special_delivery` | 2 transfers or requests by users, 2 quotes, 2 prices; a quote valid for 1, a queue of 2, time to 3 | No coin stays behind; requests are paid with a quote in force, a transceiver's for a published transfer and at the price on chain; a transfer that skips relaying can be released |
| `solana_sui` | one transceiver, one transfer from each side, a second limit, pauses | Implements `Bridge`; Solana's refill is exact; Sui approves with its threshold; nothing stranded |
| `solana_sui_quorum` | three transceivers, one transfer from Sui | Solana approves only with a quorum of enabled transceivers |
| `sui_backflow` | as `solana_sui` | *violation*: Sui's refill is not the amount transferred |
| `sui_quorum` | as `solana_sui`, with two transceivers | *violation*: the vote of a disabled transceiver approves |
| `relayer_bot` | 2 events, 2 workers, the cron, 2 nonces, 2 faults, locks may be lost | Confirmed means delivered, live nonces differ, the mempool is tracked, terminal rows are final |
| `relayer_bot_live` | 1 event, 1 worker, 3 faults, retries to 2 | Every row settles unless a transaction of it reverts |
| `oracle_writer` | 3 nonces, 2 market fees, 2 faults | The anchor never overtakes the sample; enough gas, unless the answer to a first transaction was lost; a transaction is mined at every nonce |

Each property of a passing run has a mutant in `PROJECT.json`: a plausible wrong
version of a definition under which the same run fails.

Why the bounds suffice. *WormholeTransceiver*: one transceiver more than there are
bits reaches the limit and a removal in the middle of the list; three enabled ones
give thresholds below, at and above a quorum; one message comes as a VAA and as a
delivery, the other from a foreign emitter and for a foreign manager.
*RateLimitedFlow*: no limit divides the duration, so each refill rounds; a limit
of zero and of the largest value are both reached; two durations pass.
*NttManager*: two transfers out and one back are enough for both queues to hold
something, for flow in the opposite direction, and for a cancellation racing a
completion; the chosen amounts include dust, and limits are at and below them.
*AmountRoutes*: decimals lie on both sides of the trim and amounts on both sides
of the largest number, some of them fitting on the wire but not in the decimals of
the rate limit. *SpecialDelivery*: a quote lives shorter than a transfer is
queued, as with the services' defaults, and the price can move away and back
between the two; a transfer may meet a request by a user, or a second transfer.
*SolanaSui*: both decimals exceed the trim, so amounts are rounded on both sides;
the amounts are within the first limit and above the second, so both outboxes and
both inboxes delay; time passes the delay. The quorum needs more transceivers and
fewer transfers, hence a run of its own. *RelayerBot*: two events compete for
nonces and two workers for an event; a retry is exhausted, and two faults combine
a crash or a lost lock with a loss, an eviction, a revert or a foreign delivery.
One retry is allowed in `relayer_bot`, which is too few for a row to be
resubmitted by message, so that only `relayer_bot_live` and the theorems have
`replace_nonce` messages. *OracleWriter*: a sample, its batch and the next tick's
first transaction; a restart and an operator's transaction, two lagging reads, or
a lost answer and a change of the mode, in one behaviour.

Deadlock is checked where the system never stops by itself. It is not checked for
`RelayerBot`, which is idle when all rows are terminal, nor for `AmountRoutes`,
where an amount may not be sendable anywhere.

Symmetry is used for transceivers, events and workers, which are only compared,
and only in runs without liveness properties.

## 4. Fairness

*NttManager*. Time passes. `executeMsg` and the two `complete*` calls are open to
everybody, so somebody keeps calling them; a call on a paused manager reverts and
is made again, hence strong fairness. The liveness properties are conditional on
no manager being paused for ever. A release of a transfer that is to be relayed
may find its quote expired or its price changed, so fairness of
`completeOutboundQueuedTransfer` is assumed only for entries that skip relaying,
which need the message fee only, and `QueuedIsSentOrCancelled` speaks of those.

*OracleWriter*. The loop schedules a tick after every tick, and each wait in it is
bounded, so the tick proceeds (weak fairness of all its steps together). A node
mines a transaction that pays the market fee. A pending transaction that the
writer does not remember is mined or dropped eventually, be it somebody else's or
its own: after a restart the writer stands back for it, and after a lost answer
to a replacement `lastSent` keeps the fees of the replaced transaction, so that
the next bump may be refused as underpriced and bumps stop growing. Nothing in the
code could move such a transaction. The market may move against the writer at
every step.

*RelayerBot*. A worker or cron that is running proceeds (weak fairness). A
message that is again and again available is taken again and again, because a
stream is read in order (strong fairness). The cron takes the oldest rows first,
so it finds a row that stays without message and worker. A valid transaction is
mined eventually. Faults are never assumed to occur or to stop otherwise than by
their budget.

## 5. Proofs

All are checked by TLAPS from the assumptions in the modules, which TLC evaluates
on each run, and from the library's theorems on finite sets, functions, sequences
and well-founded orders. Each inductive invariant was checked by TLC before it was
proved. The assumptions are that sets of chains, users, transceivers and decimals
are finite, that amounts, fees, balances and bounds are natural numbers, that
limits fit 64 bits and that durations are not zero where the code divides by them.

**`AmountTheorems`** holds what the other proofs share. Totals are sums by the
folds of the community modules, and `powerOfTen` is a recursive function. Both are
reasoned about by induction over *sets* (`NatInd`, `SubsetInd`): the prover cannot
instantiate an induction rule that takes a predicate, but it can one that takes a
set. A fold is shown to be the unique function that adds one element at a time
(`Adds`, `Iterates`), from which follows how a sum changes when one summand does.
`ScaleTwice` and `ScaleBack` say when scaling between decimals is exact.

**`WormholeTransceiverProofs`**, first about `ManagerBase`, for any set of
transceivers and messages and any width of the bitmap (assumed a positive number).
Theorems: `TypeCorrect`, `RegistryCorrect`, `ThresholdCorrect`,
`AttestationsCorrect`, `NoDoubleExecution`, `QuorumCorrect`. The inductive invariant
`IInv` conjoins the type invariant, the agreement of the registry, the threshold
in terms of the *counters* (which is what the contract compares), that the peer
is among those that have been, that attestation bits are deliveries, and the two
properties of handling. None of the safety properties is inductive by itself.
That a quorum of bits is a quorum of transceivers needs that bits are deliveries
and that an index belongs to one transceiver, which is a part of the registry's
agreement: the enabled transceivers that have delivered a message are mapped
one to one to the masked bits, so both sets have the same cardinality. The
threshold in terms of transceivers needs that the counter is the cardinality of
the enabled set, which comes from the enabled list having no duplicates.
Preservation is proved per action, with the two registry updates as lemmas on the
registry alone (`SwapRemove` of the enabled list being the delicate one).

Action properties, from the same invariant before and after the step:
`IndexCorrect`; `AdditionsCorrect` (an addition raises the threshold only from
zero, where nothing was approved, and only adds bits to the mask);
`RemovalsCorrect` (a removal that approves a message must have lowered the
threshold to the number of bits left, so the masked attestations are all of
them); `InstructionsCorrect` (slots are never lost, and no removal leaves nobody
enabled).

Then about the composition, for any VAAs, emitters and transceivers:
`ConsumedCorrect`, `OneEmitterCorrect`, `NoDoubleExecutionThroughVaas` and
`QuorumThroughVaas`. The last two carry the two main theorems of `ManagerBase` to
messages that arrive in VAAs, by the lemma `WormholeRefines`, which restates how
the composition is built. The inductive invariant relates the consumed VAAs
to the transceivers that have delivered. One direction needs that a transceiver
attests a message at most once, that is, that its bit is set exactly when it has
delivered: this is `AttestationsAreDeliveries` of `ManagerBase`, used here.

**`AmountFlowProofs`**, first about `RateLimitedFlow`, for any amounts, limits,
duration and any length of time: `CapacityCorrect`, `OwnerNeverRefused`,
`BackflowCorrect` and `WindowCorrect`. The first three need that the timestamp is
not in the future, without which the refill could be negative and the next
capacity above the limit. The window bound is not inductive: it says nothing of
the capacity that is left. The invariant `Ledger` is a balance per transfer: what
was consumed since it, plus the capacity that is left now, is at most the limit,
plus the refill of the time since, plus what came back. It is kept because refills
that are rounded down one by one add up to at most the refill of the whole time.

Then about `AmountRoutes`, for any finite set of decimals and any amounts:
`ValueCorrect` and `DustCorrect`. The invariant adds that at most one transfer is
on its way, that nothing is held then, and that its decimals exceed neither the
destination's nor those of a trimmed amount.

The attempt to prove `DustIsMinimal` showed an earlier form of it to be false: an
amount may fit 64 bits on the wire, in the destination's few decimals, and not in
the source's own decimals, in which the rate limit counts (100000 with 2 decimals
sent to a token with 1, with 65535 for the largest number). Such a transfer is
refused whatever is left aside. The property now speaks of refusals for dust only,
and the run has such amounts.

**`NttManagerProofs`**, for any chains, users, decimals, fees, balances, amounts
and limits: `SupplyCorrect`, `BackingCorrect`, and `BridgeRefined`, the refinement
of `Bridge`. Every step is shown to have one of eight forms (`SomeStep`: a transfer
starts queued or sent, is released, refunded, arrives in the inbound queue, is
paid at once or later, or nothing of this happens). The invariant says for each
transfer at most one of: queued, on its way, arrived; that sequences in use are
below the next one; that a message's amount has no dust at either end, so that no
conversion changes its value; and that everything is finite, so that the totals
are sums. Each form changes the totals by one summand and is one step of `Bridge`.

`NeverStuck` shows that nothing gets stuck, where the deployment is
`HubAndSpokes`. The property says of each call that its guard holds (`executable`,
`completable`, `canMintOrUnlock`), and each action is its guard with assignments,
so a guard that holds is a call that succeeds. Each conjunct of the premise is
needed. With two chains that lock, tokens may leave one of them that came through
the other, and `FullyBacked` speaks of their sum. Tokens that a minting chain has
at the start are not backed. A supply beyond 64 bits in the decimals of a chain is
the exception to INV-001 of section 6. A hub whose token keeps more of a payment
than the message brings cannot pay it, since the token's transfer then reverts;
this is carried by `FeeInv`, for a transfer that is queued or sent. Then
everything on its way, being a part of the supply, fits the cast to 64 bits, and
`FullyBacked` says that the one hub has what a single message asks for. The run's
instance is such a deployment, which an `ASSUME` of `MCNttManager` states.

**`SpecialDeliveryProofs`**, for any prices, fees, durations and numbers of
transfers and quotes, and any requests by users: `RequestsCorrect` and
`CoinsCorrect`. The coins of the payee
are the sum over the *set* of accepted requests, so the invariant needs that a
transfer is sent at most once (`SentOnce`) and that users' requests have different
numbers (`DirectOnce`): otherwise an equal request could be
paid twice and counted once. That a transceiver's request is at the price on chain
comes from the transceiver refusing refunds, together with the relayer refusing
what does not cover the quote; that its quote is one the service has signed needs
the quotes of the outbound queue in the invariant (`QueuedQuotes`). No coin stays
with the relayer, since a user's refund is paid out and a transceiver's is zero.

**`SolanaSuiProofs`**, for any finite set of transceivers, any decimals, balances,
amounts, limits and any clock: `BridgeRefined` (the pair implements `Bridge`),
`SolanaQuorumHolds`, `SuiQuorumHolds`, `SolanaRefillsHold`. The two directions are
alike, so the argument is made for one direction and five forms of steps (a
transfer starts, an item is released, a vote is recorded, a message is paid,
nothing moves). The invariant: amounts in an outbox are whole in the decimals of
both sides; what is posted is the message of an item that was released; votes are
the ids of transceivers for which that message was posted, an id that was given
never changing; the amount in Solana's inbox is the untrimmed amount of its
message; limits fit 64 bits. That a message is paid once rests on the inbox item,
which is kept for ever, and not on the transceivers' own records.

`NeverStranded` shows that nothing is stranded, where the tokens that circulate on
one side at the start are in the custody of the other (`InitiallyBacked`, which
`MCSolanaSui` assumes). Again the property speaks of guards (`redeemable`,
`releasable`), which are what the actions check. For the approval (`ReadyInv`): a
vote on Solana is of a transceiver that has validated the message, and its
threshold is never zero, so that enough votes of *enabled* transceivers include one
that can redeem again; on Sui an item has at least one vote, which is that of a
registered transceiver, and that is enough even where its threshold is zero. For
the payment: a step of `Bridge` moves value between the holders and one transfer,
so by the refinement what is held and what is on its way add up to what there was
(`ValueInv`); a chain that locks has in custody what its users do not hold
(`CustodyInv`); so custody covers everything on its way to it, and a due item is
a part of that.

**`RelayerBotProofs`**, for any events, workers, nonces, retries and faults:
`TerminalFinal`, `ConfirmedCorrect`, `NoncesCorrect`, `IntentLogCorrect`. The
invariant says what a worker between two awaits may still rely on although the
cron changes its row without the worker's lock: the row is final, or live with the
nonce that the worker is about to broadcast with, or failed and then that nonce is
mined already; and between broadcast and record the transaction is in no hash that
the row or the cron has read. It also needs that nonces are mined in order, that a
failed row's nonce is mined, and that transactions are numbered, so that a new one
differs from all before. The last two theorems have the premise that no event lock
was lost, as their properties have.

**`OracleWriterProofs`**, for any number of nonces, market fees and faults:
`ReaderCorrect` and `GasCorrect`. Both speak of what is on chain, and the writer
decides by what it remembers. `ReaderCorrect` needs nothing of that memory. Its
invariant `IInv` says that a push of the writer waits only at the next nonce to be
mined (`PoolInv`); that a sample that waits is not older than the one on
chain, an anchor that was paired with a sample is not newer than it, and nothing is
younger than the current tick (`AgeInv`); and that the nonce a tick has read is not
beyond the account's, and the batch follows a sample of its own tick that is on
chain (`TickInv`). It holds whatever answers are lost. `GasCorrect` adds a second
invariant, `GasInv`, under its premise that no answer to a first transaction was
lost: a push that waits has gas enough for the chain as it is; the process
remembers a push at its nonce, unless it was restarted and has seen nothing mined
since; and a send at that nonce is a replacement. The premise is needed (section 6).

Only model-checked: liveness (`SentIsPaid`, `QueuedIsSentOrCancelled`,
`SettlesUnlessReverted`, `PushesGoOn`), which is beyond the prover, and
`SkippedCanBeReleased` of `SpecialDelivery`. That one is stated with `ENABLED`,
which the prover does not handle either; a guard in its place would leave nothing
to prove, since a call that skips relaying has no condition but its delay. What
the property is about is whether some branch of the call reverts nevertheless.

## 6. Findings

Two runs show a disagreement between the code and what the repository says of
it. `PROJECT.json` quotes the lines.

1. `sui_backflow`: a transfer from Sui refills the inbound limit by the *trimmed*
   amount, while the limit counts in the coin's decimals, and `refill` leaves
   `last_tx_timestamp`, so the time before it is credited twice. Solana's
   program refills by the amount and moves the time, and passes the same property.
2. `sui_quorum`: disabling the last Sui transceiver makes the threshold zero, and
   a disabled transceiver may vote: its vote then approves the transfer. EVM
   refuses the removal of the last transceiver, and Solana refuses the vote.

Further observations, made while modelling, have no run:

- *Sui, all transceivers disabled.* `enable_transceiver` and `set_threshold` then
  abort in `check_threshold_invariants`; only registering a new transceiver type
  recovers. A disabled but registered transceiver may release outbound messages,
  and `enable_transceiver` accepts an id that was never registered.
- *Amounts (EVM).* A source with few decimals accepts an amount that no longer
  fits 64 bits in the decimals of the destination (`NttManager.sol:246`), whose
  execution then always reverts; INV-001 (`docs/INVARIANTS.md`) has no such
  exception. The supplies of `MCNttManager` fit every chain.
- *Quotes.* A transfer queued with a signed quote outlives the quote
  (`quoter-service/src/config.ts:63` against the rate limit duration), after which
  it can be cancelled but not completed, where `evm/README.md:44` says that
  it can be released after the duration. The price must also be the one of the
  quote, since the refund goes to a contract without a `receive` function. Who calls
  `requestExecution` without a transceiver is refunded, and may use an earlier price
  while the quote is in force, as `SpecialRelayer.t.sol:68` and `:218` do.
- *Instructions.* A transceiver that was enabled after a transfer was queued has no
  instruction in it. The default does not skip relaying, so the release may ask for
  a price, and a quote, that the queued transfer does not have.
- *Price of several transceivers.* `quoteDeliveryPrice` makes a slot per *enabled*
  transceiver (`ManagerBase.sol:109`) and the instructions are read by
  *registered* index: after a removal it can revert for instructions that a
  transfer accepts.
- *Digests.* The digest of a message does not cover the source manager
  (`TransceiverStructs.sol:65`), and on Solana an inbox item is keyed by chain and
  message: a new peer that starts its sequence over would meet its predecessor's
  messages.
- *Delays.* A queued transfer is released when exactly `rateLimitDuration` has
  passed, where comments in `NttManager.sol` (lines 314 and 336) say more than it.
- *Relayer bot.* `markConfirmed` recognises a nonce that was never sent by an
  absent hash, but a retried row keeps the hash of its reverted transaction
  (`transactions.ts:148`), so a row can be confirmed with a nonce nobody used. A
  row whose transaction reverts out of gas while its resubmission is queued is
  deferred for ever, each defer hiding it from the cron (`delivery.ts:196`,
  `worker.ts:310`). A row whose own transaction reverts because somebody else has
  delivered the VAA is dead-lettered (`cron.ts:236`). The comment at
  `walletPool.ts:93` overstates why a stale chain nonce is safe: rows it relies on
  can go back, and a nonce that was mined meanwhile can be reserved; the broadcast
  is then refused and deferred.
- *Oracle.* `oracle-service/README.md:89` says that a fresh instance never replaces
  an unknown pending transaction. Its guard reads before it sends, so an operator's
  transaction that enters the pool between the two can be replaced when the market
  fee has risen; and a `lastSent` whose transaction was mined after the timeout
  lets the next send pass the guard. In that second case a transaction may be mined
  out of gas, against the intent of the comment before the gas limit
  (`oracle.ts:362`). A sample times out and is mined afterwards; the pricing mode
  changes; the batch, first at its nonce, is accepted but the answer to it is lost.
  The next tick passes the guard, since `lastSent` is set, and sends at the batch's
  nonce, which is not that of `lastSent`, with an estimate on the pending state.
  When the market fee has risen the node takes it for a replacement. This is why
  `EnoughGas` has a premise: without it TLC finds this behaviour.

## 7. What a passing run does not say

Wormhole, its guardians and the tokens are environment: messages are neither
forged nor altered. The prices of `SpecialDelivery` are given, not computed. The
relayer bot's destination and the oracle's chain have no reorganisations. In
`NttManager` and `SolanaSui` the peers are fixed.

### Not modelled

- *Generated code and clients.* The ethers bindings and factories, the Anchor
  IDLs in several versions, the SDK (`sdk/`, `*/ts`) and the CLI are most of the
  repository's lines. They build transactions and read accounts, and keep no
  protocol state: there is nothing a state machine could say of them, so the
  mapped lines are a small share of all.
- *EVM.* Upgrades (a new implementation may do anything), ownership and
  governance, the manager variants (one is `NttManager` with a duration of zero,
  the other unwraps on unlock), the arithmetic of the execution quoter, byte
  layouts.
- *Solana.* Transfer of ownership and of the mint authority, the look-up table,
  the quoter program, governance, account plumbing.
- *Sui.* The loan of the treasury capability, the version gate, upgrades, capabilities.
- *Relayer bot.* The choice among wallets, balances, keys, health and alerts; the
  listener's block cursor and the correlation of several requests of one
  source transaction.
- *Oracle and quoter services.* Fetching and averaging of prices, HTTP.

## 8. Plan

Done: all modules of section 2, with the two refinements of `Bridge`, and proofs
of all safety properties of the passing runs but those listed as only
model-checked in section 5.

Next, in this order:

1. The listener's cursor and the correlation of several requests in one
   transaction.
2. A change of the peer between transfers, with sequences that start over.
