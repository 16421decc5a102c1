---------------------------- MODULE OracleWriter ----------------------------
(***************************************************************************)
(* The oracle service's push loop (oracle-service/src/runner.ts) and its   *)
(* writer (RpcOracleWriter.send in oracle.ts), which sends the two         *)
(* transactions of a tick from one account: the sample of the TWAP reader, *)
(* when the quoter uses it, then the batch with the price anchor.  A       *)
(* transaction that is stuck is replaced at its own nonce with higher      *)
(* fees.                                                                   *)
(*                                                                         *)
(* The node, its pool, the fee market, and the operators who use the same  *)
(* key are the environment.  A fee is counted in bumps: one bump of        *)
(* bumpFee (12.5%) is what a node asks of a replacement (10%).  The age of *)
(* a pushed price is the number of transactions of the account that had    *)
(* been mined when its tick began.                                         *)
(***************************************************************************)
EXTENDS Integers

CONSTANTS
  MaxNonce,    \* bound: the nonces of the run are 0 .. MaxNonce
  MaxMarket,   \* bound on the market fee
  MaxFee,      \* bound on a bumped fee, above every market fee
  MaxFaults    \* bound on restarts, lagging reads, failed calls, evictions,
               \* operators and changes of the pricing mode

ASSUME BoundsAssumption ==
  /\ MaxNonce \in Nat /\ MaxMarket \in Nat \ {0} /\ MaxFaults \in Nat
  /\ MaxFee \in Nat /\ MaxFee > MaxMarket

VARIABLES
  mined,      \* transactions mined: the account's nonce at the latest block
  pool,       \* pool[n]: the transaction pending at nonce n
  block,      \* block[n]: the transaction mined at nonce n, and its status
  market,     \* the market fee
  onchain,    \* onchain[m]: when the value last written by m was made, and
              \* whether its tick pushes a sample
  usesReader, \* the quoter prices with the TWAP reader
  pc,         \* where the tick is
  method,     \* the push the tick is at, "none" between ticks
  samples,    \* usesTwapReader, as the tick has read it
  began,      \* when the tick began
  nonce,      \* the local variable of send
  sent,       \* the transaction send waits for
  lastSent,   \* this.lastSent
  lastMinedNonce, \* this.lastMinedNonce, -1 when undefined
  faults,
  \* History, read by no action:
  firstLost   \* the node's answer to the first transaction at a nonce was lost

chainVars  == <<mined, pool, block, market, onchain, usesReader>>
tickVars   == <<pc, method, samples, began, nonce, sent>>
writerVars == <<lastSent, lastMinedNonce>>
vars == <<chainVars, tickVars, writerVars, faults, firstLost>>

None    == [nonce |-> -1]
Nonces  == 0 .. MaxNonce
Methods == {"update", "batchPriceUpdate"}

Unwritten == [made |-> 0, paired |-> FALSE]

\* Gas: writing a slot that is still zero costs more than rewriting it.
Cold == 2
Warm == 1

Greatest(a, b) == IF a > b THEN a ELSE b
Least(a, b)    == IF a < b THEN a ELSE b

Init ==
  /\ mined = 0
  /\ pool = [n \in Nonces |-> None]
  /\ block = [n \in Nonces |-> None]
  /\ market \in 1 .. MaxMarket
  /\ onchain = [m \in Methods |-> Unwritten]
  /\ usesReader = TRUE
  /\ pc = "idle" /\ method = "none" /\ samples = FALSE /\ began = 0 /\ nonce = 0 /\ sent = None
  /\ lastSent = None /\ lastMinedNonce = -1
  /\ faults = 0 /\ firstLost = FALSE

-----------------------------------------------------------------------------
(* What the node computes. *)

pendingCount == CHOOSE n \in mined .. MaxNonce + 1 :
                  /\ \A k \in mined .. n - 1 : pool[k] # None
                  /\ n \in Nonces => pool[n] = None

\* eth_estimateGas on the latest block, and on the pending state, in which
\* the transactions of the pool have already run.
estimateLatest(m)  == IF onchain[m] = Unwritten THEN Cold ELSE Warm
estimatePending(m) ==
  IF \E n \in Nonces : pool[n] # None /\ pool[n].method = m
  THEN Warm ELSE estimateLatest(m)

\* A used nonce is refused, and so is a replacement without a bump.
accepts(tx) == /\ tx.nonce >= mined
               /\ pool[tx.nonce] # None => tx.fee > pool[tx.nonce].fee

-----------------------------------------------------------------------------
(* The fees and the gas limit of send. *)

\* Bounded by MaxFee; a transaction with that fee can always be mined.
bumpFee(f) == Least(f + 1, MaxFee)

\* Mutants: a replacement at the market fee; the library's own estimate, on
\* the pending state.
replacementFee_NoBump(last) == market
replacementGas_OnPending(m, last) == estimatePending(m)

replacementFee(last)    == Greatest(market, bumpFee(last.fee))
replacementGas(m, last) == Greatest(estimateLatest(m), last.gas)

\* The writer remembers a transaction at this nonce.
replaces(n) == lastSent # None /\ lastSent.nonce = n

overrides(m, n) ==
  [nonce |-> n, method |-> m, made |-> began, paired |-> samples,
   fee |-> IF replaces(n) THEN replacementFee(lastSent) ELSE market,
   gas |-> IF replaces(n) THEN replacementGas(m, lastSent)
                          ELSE estimatePending(m)]

-----------------------------------------------------------------------------
(* The tick: runTick pushes the sample and, when it is mined, the batch;    *)
(* whatever throws ends the tick, and the next one starts over.            *)

\* The push after m.
nextPush(m) == IF m = "update" THEN "batchPriceUpdate" ELSE "none"

\* Mutant: the batch is pushed although the sample has failed.
skipTick_PushesAnyway ==
  pc' = "idle" /\ method' = nextPush(method) /\ sent' = None

skipTick == pc' = "idle" /\ method' = "none" /\ sent' = None

\* A new tick reads the pricing mode and every price before it pushes.
tickBegins ==
  IF method = "none"
  THEN /\ samples' = usesReader
       /\ began' = mined + 1
       /\ method' = IF usesReader THEN "update" ELSE "batchPriceUpdate"
  ELSE UNCHANGED <<samples, began, method>>

\* The nonce of the latest block, from a node that may lag one block.
readLatest ==
  /\ pc = "idle"
  /\ mined \in Nonces
  /\ tickBegins
  /\ \E lag \in {0, 1} :
       /\ lag <= mined /\ faults + lag <= MaxFaults
       /\ nonce' = mined - lag
       /\ faults' = faults + lag
  /\ pc' = "latest"
  /\ UNCHANGED <<chainVars, sent, writerVars, firstLost>>

unknownPending(count) == lastSent = None /\ count > nonce

pastLastMined(n) == IF n <= lastMinedNonce THEN lastMinedNonce + 1 ELSE n

\* The second read; a node that lags may not know the pool either.
readPending ==
  /\ pc = "latest"
  /\ \E count \in {pendingCount} \union (IF nonce < mined THEN {nonce} ELSE {}) :
       IF unknownPending(count)
       THEN skipTick /\ UNCHANGED nonce
       ELSE /\ pastLastMined(nonce) \in Nonces
            /\ nonce' = pastLastMined(nonce)
            /\ pc' = "ready"
            /\ UNCHANGED <<method, sent>>
  /\ UNCHANGED <<chainVars, samples, began, writerVars, faults, firstLost>>

send ==
  /\ pc = "ready"
  /\ LET tx == overrides(method, nonce)
     IN IF accepts(tx)
        THEN /\ pool' = [pool EXCEPT ![nonce] = tx]
             /\ sent' = tx
             /\ lastSent' = tx
             /\ pc' = "wait"
             /\ UNCHANGED method
        ELSE skipTick /\ UNCHANGED <<pool, lastSent>>
  /\ UNCHANGED <<mined, block, market, onchain, usesReader, samples, began,
                 nonce, lastMinedNonce, faults, firstLost>>

\* The node takes the transaction but its answer is lost: the call throws
\* before lastSent is set.
sendUnanswered ==
  /\ pc = "ready"
  /\ faults < MaxFaults /\ faults' = faults + 1
  /\ accepts(overrides(method, nonce))
  /\ pool' = [pool EXCEPT ![nonce] = overrides(method, nonce)]
  /\ skipTick
  /\ firstLost' = (firstLost \/ ~replaces(nonce))
  /\ UNCHANGED <<mined, block, market, onchain, usesReader, samples, began,
                 nonce, writerVars>>

\* A read of a nonce, a fee or an estimate by send fails.
readFails ==
  /\ faults < MaxFaults /\ faults' = faults + 1
  /\ pc \in {"latest", "ready"} \/ (pc = "idle" /\ method # "none")
  /\ skipTick
  /\ UNCHANGED <<chainVars, samples, began, nonce, writerVars, firstLost>>

minedWell(tx) == block[tx.nonce] = [tx |-> tx, ok |-> TRUE]

\* The receipt of the transaction itself; lastSent is cleared.
receipt ==
  /\ pc = "wait" /\ minedWell(sent)
  /\ lastSent' = None
  /\ lastMinedNonce' = nonce
  /\ pc' = "idle" /\ method' = nextPush(method) /\ sent' = None
  /\ UNCHANGED <<chainVars, samples, began, nonce, faults, firstLost>>

\* A timeout, a revert, or a nonce that another transaction has used: the
\* tick is skipped and lastSent stays.
waitFails ==
  /\ pc = "wait" /\ ~ minedWell(sent)
  /\ sent.fee < MaxFee \/ pool[nonce] # sent
  /\ skipTick
  /\ UNCHANGED <<chainVars, samples, began, nonce, writerVars, faults, firstLost>>

\* A new process, or a new serverless instance, with an empty memory.
restart ==
  /\ faults < MaxFaults /\ faults' = faults + 1
  /\ pc # "idle" \/ lastSent # None \/ lastMinedNonce # -1
  /\ skipTick
  /\ lastSent' = None /\ lastMinedNonce' = -1
  /\ UNCHANGED <<chainVars, samples, began, nonce, firstLost>>

-----------------------------------------------------------------------------
(* The environment. *)

\* What runs with too little gas reverts and still uses its nonce.
mine ==
  /\ mined \in Nonces /\ pool[mined] # None /\ pool[mined].fee >= market
  /\ LET tx == pool[mined]
         ok == tx.method \in Methods => tx.gas >= estimateLatest(tx.method)
     IN /\ block' = [block EXCEPT ![mined] = [tx |-> tx, ok |-> ok]]
        /\ onchain' = IF ok /\ tx.method \in Methods
                      THEN [onchain EXCEPT ![tx.method] =
                              [made |-> tx.made, paired |-> tx.paired]]
                      ELSE onchain
  /\ pool' = [pool EXCEPT ![mined] = None]
  /\ mined' = mined + 1
  /\ UNCHANGED <<market, usesReader, tickVars, writerVars, faults, firstLost>>

marketMoves ==
  /\ \E f \in (1 .. MaxMarket) \ {market} : market' = f
  /\ UNCHANGED <<mined, pool, block, onchain, usesReader, tickVars, writerVars,
                 faults, firstLost>>

\* The pricing mode is toggled, or a pool path is configured, on chain.
pricingChanges ==
  /\ faults < MaxFaults /\ faults' = faults + 1
  /\ usesReader' = ~usesReader
  /\ UNCHANGED <<mined, pool, block, market, onchain, tickVars, writerVars, firstLost>>

\* An operator sends from the same key at the next pending nonce.
operatorSends ==
  /\ faults < MaxFaults /\ faults' = faults + 1
  /\ pendingCount \in Nonces
  /\ pool' = [pool EXCEPT ![pendingCount] =
       [nonce |-> pendingCount, method |-> "operator", made |-> 0,
        paired |-> FALSE, fee |-> market, gas |-> Warm]]
  /\ UNCHANGED <<mined, block, market, onchain, usesReader, tickVars, writerVars,
                 firstLost>>

evict(n) ==
  /\ pool[n] # None
  /\ pool' = [pool EXCEPT ![n] = None]
  /\ UNCHANGED <<mined, block, market, onchain, usesReader, tickVars, writerVars,
                 firstLost>>

\* A node drops the writer's stuck transaction.
evictOwn ==
  /\ faults < MaxFaults /\ faults' = faults + 1
  /\ lastSent # None /\ lastSent = pool[lastSent.nonce]
  /\ evict(lastSent.nonce)

\* What the writer waits for: a transaction it does not remember, of somebody
\* else or of its own, is mined or dropped.
evictUnknown ==
  /\ \E n \in Nonces : pool[n] # lastSent /\ evict(n)
  /\ UNCHANGED faults

-----------------------------------------------------------------------------
tick == readLatest \/ readPending \/ send \/ receipt \/ waitFails

Next == tick \/ sendUnanswered \/ readFails \/ restart \/ mine \/ marketMoves \/ pricingChanges
        \/ operatorSends \/ evictOwn \/ evictUnknown

\* The loop schedules a tick after each one and every wait is bounded; a
\* node mines what pays the market fee.
Fairness == WF_vars(tick) /\ WF_vars(mine) /\ WF_vars(evictUnknown)

Spec == Init /\ [][Next]_vars /\ Fairness

-----------------------------------------------------------------------------
\* The price anchor of a tick that uses the TWAP reader is never newer than
\* the reader's sample, with which the quoter multiplies it: runTick pushes
\* the sample first and sends the batch only when the sample is mined, and a
\* batch that is stuck is replaced by the sample of the next tick (runner.ts,
\* "the reverse (fresh anchor, stale reader) is the pairing we'd rather
\* avoid").
ReaderKeepsUp ==
  onchain["batchPriceUpdate"].paired =>
    onchain["batchPriceUpdate"].made <= onchain["update"].made

\* No transaction of the writer is mined out of gas: a replacement is
\* estimated on the latest block, where the transaction it replaces has not
\* run (oracle.ts send, "an estimate off pending state undershoots").  That is
\* so as long as the writer has had an answer to the first transaction it sent
\* at each nonce: one that it does not remember it may replace as if nothing
\* were pending, with an estimate on the pending state.
EnoughGas == ~firstLost => \A n \in Nonces : block[n] # None => block[n].ok

\* No nonce blocks the account for ever: whatever is stuck, dropped, lost in
\* a restart or with the node's answer, or sent by an operator, a transaction
\* is mined at every nonce, although the fee market may move against the writer
\* at every step.
PushesGoOn == \A n \in Nonces : mined = n ~> mined > n

=============================================================================
