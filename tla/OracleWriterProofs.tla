------------------------- MODULE OracleWriterProofs -------------------------
(***************************************************************************)
(* Proofs about the oracle's writer, for any number of transactions, any   *)
(* fees and any number of restarts, lagging or failed reads, lost answers, *)
(* evictions and foreign transactions: the price anchor never overtakes    *)
(* the reader's sample, and, as long as no answer to a first transaction   *)
(* was lost, no transaction is mined out of gas.                           *)
(***************************************************************************)
EXTENDS OracleWriter, WellFoundedInduction, TLAPS

Tx == [nonce : Nonces, method : Methods \cup {"operator"}, made : Nat,
       paired : BOOLEAN, fee : Int, gas : Int]

Value == [made : Nat, paired : BOOLEAN]

\* The pending transaction is one of the writer's pushes.
Own(tx) == tx # None /\ tx.method \in Methods

TypeInv ==
    /\ mined \in 0 .. MaxNonce + 1
    /\ pool \in [Nonces -> {None} \cup Tx]
    /\ block \in [Nonces -> {None} \cup [tx : Tx, ok : BOOLEAN]]
    /\ market \in Int
    /\ onchain \in [Methods -> Value]
    /\ usesReader \in BOOLEAN /\ samples \in BOOLEAN
    /\ pc \in {"idle", "latest", "ready", "wait"}
    /\ method \in Methods \cup {"none"}
    /\ pc # "idle" => method \in Methods
    /\ began \in Nat /\ nonce \in Nonces
    /\ sent \in {None} \cup Tx
    /\ lastSent \in {None} \cup Tx
    /\ lastMinedNonce \in Int

\* The writer's pushes are sent at the next nonce to be mined only.
PoolInv == \A n \in Nonces :
    /\ pool[n] # None => pool[n].nonce = n
    /\ Own(pool[n]) => n = mined

\* The age of a push: at most that of the current tick, a sample not older
\* than the one on chain, and an anchor not newer than it.
AgeInv ==
    /\ began <= mined + 1
    /\ \A m \in Methods : onchain[m].made <= began
    /\ \A n \in Nonces : Own(pool[n]) =>
         /\ pool[n].made \in 1 .. began
         /\ pool[n].method = "update" => pool[n].made >= onchain["update"].made
         /\ pool[n].method = "batchPriceUpdate" /\ pool[n].paired
              => pool[n].made <= onchain["update"].made

\* What is mined is below the account's nonce.
BlockInv == \A n \in Nonces : n >= mined => block[n] = None

\* What the tick relies on between its reads and its send: the nonce it has
\* read is at most the account's, and the batch follows a sample of this tick
\* that is on chain.
TickInv ==
    /\ method # "none" => began >= 1
    /\ lastMinedNonce < mined
    /\ pc \in {"latest", "ready"} => nonce <= mined
    /\ method = "batchPriceUpdate" /\ samples => onchain["update"].made >= began
    /\ pc = "wait" =>
         /\ sent \in Tx /\ sent = lastSent /\ sent.nonce = nonce /\ sent.method = method
         /\ sent.made = began
         /\ minedWell(sent) => nonce < mined
         /\ minedWell(sent) /\ method = "update" => onchain["update"].made >= began

IInv == TypeInv /\ PoolInv /\ AgeInv /\ BlockInv /\ TickInv /\ ReaderKeepsUp

-----------------------------------------------------------------------------
(* Records and the node.                                                   *)

\* No transaction and no entry of a block is None.
LEMMA NotNone ==
  /\ \A tx \in Tx : tx # None
  /\ \A tx, ok : [tx |-> tx, ok |-> ok] # None
  <1>1. \A tx \in Tx : tx # None
    BY BoundsAssumption DEF Tx, None, Nonces
  <1>2. ASSUME NEW tx, NEW ok, [tx |-> tx, ok |-> ok] = None PROVE FALSE
    <2>1. DOMAIN [tx |-> tx, ok |-> ok] = {"tx", "ok"} /\ DOMAIN None = {"nonce"}
      BY DEF None
    <2> QED
      BY <1>2, <2>1
  <1> QED
    BY <1>1, <1>2

\* A set of natural numbers has a least element.
LEMMA NatMinimum ==
  ASSUME NEW S \in SUBSET Nat, S # {}
  PROVE  \E x \in S : \A y \in S : x <= y
  <1> DEFINE R == {ss \in Nat \X Nat : ss[1] < ss[2]}
  <1>1. IsWellFoundedOn(R, Nat)
    BY NatLessThanWellFounded DEF OpToRel
  <1> HIDE DEF R
  <1>2. PICK x \in S : \A y \in S : ~ (<<y, x>> \in R)
    BY <1>1, WFMin
  <1>3. \A y \in S : ~ (y < x)
    BY <1>2 DEF R
  <1> QED
    BY <1>3

\* The node's next nonce is the first free one.
LEMMA PendingCount ==
  ASSUME TypeInv
  PROVE  /\ pendingCount \in mined .. MaxNonce + 1
         /\ pendingCount \in Nonces => pool[pendingCount] = None
         /\ mined \in Nonces /\ pool[mined] # None => pendingCount > mined
  <1> DEFINE First(n) == /\ \A k \in mined .. n - 1 : pool[k] # None
                         /\ n \in Nonces => pool[n] = None
             Free == {n \in mined .. MaxNonce + 1 : n \in Nonces => pool[n] = None}
  <1>1. mined \in Nat /\ mined <= MaxNonce + 1 /\ MaxNonce \in Nat
    BY BoundsAssumption DEF TypeInv
  <1>2. Free \in SUBSET Nat /\ MaxNonce + 1 \in Free
    BY <1>1 DEF Nonces
  <1>3. PICK n \in Free : \A y \in Free : n <= y
    <2> HIDE DEF Free
    <2> QED
      BY <1>2, NatMinimum
  <1>4. n \in mined .. MaxNonce + 1 /\ First(n)
    BY <1>1, <1>3 DEF Nonces
  <1>5. pendingCount = CHOOSE x \in mined .. MaxNonce + 1 : First(x)
    BY DEF pendingCount
  <1> HIDE DEF First
  <1>6. pendingCount \in mined .. MaxNonce + 1 /\ First(pendingCount)
    BY <1>4, <1>5
  <1>7. pendingCount \in Nonces => pool[pendingCount] = None
    BY <1>6 DEF First
  <1> QED
    BY <1>1, <1>6, <1>7

-----------------------------------------------------------------------------
(* The steps.                                                              *)

LEMMA InitIInv == Init => IInv
  <1> SUFFICES ASSUME Init PROVE IInv
    OBVIOUS
  <1>1. MaxNonce \in Nat /\ MaxMarket \in Nat /\ 0 \in Nonces
    BY BoundsAssumption DEF Nonces
  <1>2. TypeInv
    <2>1. onchain \in [Methods -> Value]
      BY DEF Init, Unwritten, Value
    <2>2. /\ pool \in [Nonces -> {None} \cup Tx]
          /\ block \in [Nonces -> {None} \cup [tx : Tx, ok : BOOLEAN]]
      BY DEF Init
    <2>3. usesReader \in BOOLEAN /\ samples \in BOOLEAN
      BY Zenon DEF Init
    <2>4. /\ mined \in 0 .. MaxNonce + 1 /\ market \in Int /\ began \in Nat
          /\ nonce \in Nonces /\ lastMinedNonce \in Int
      BY <1>1 DEF Init
    <2>5. /\ pc \in {"idle", "latest", "ready", "wait"} /\ method \in Methods \cup {"none"}
          /\ pc # "idle" => method \in Methods
          /\ sent \in {None} \cup Tx /\ lastSent \in {None} \cup Tx
      BY DEF Init
    <2> QED
      BY <2>1, <2>2, <2>3, <2>4, <2>5 DEF TypeInv
  <1>3. \A n \in Nonces : pool[n] = None /\ block[n] = None
    BY DEF Init
  <1>4. PoolInv /\ BlockInv
    BY <1>3 DEF PoolInv, BlockInv, Own
  <1>5. AgeInv
    BY <1>3 DEF Init, AgeInv, Own, Unwritten
  <1>6. TickInv
    BY DEF Init, TickInv
  <1>7. ReaderKeepsUp
    BY DEF Init, ReaderKeepsUp, Unwritten, Methods
  <1> QED
    BY <1>2, <1>4, <1>5, <1>6, <1>7 DEF IInv

\* The chain is left alone, and so are the facts about it.
LEMMA ChainSame ==
  ASSUME IInv, UNCHANGED chainVars,
         began' >= began, began' <= mined + 1, began' \in Nat
  PROVE  PoolInv' /\ AgeInv' /\ BlockInv' /\ ReaderKeepsUp'
  <1>1. /\ mined' = mined /\ pool' = pool /\ block' = block /\ onchain' = onchain
    BY DEF chainVars
  <1>2. PoolInv'
    BY <1>1 DEF IInv, PoolInv, Own
  <1>3. AgeInv'
    <2>1. began \in Nat /\ mined \in Nat /\ \A m \in Methods : onchain[m].made \in Nat
      BY BoundsAssumption DEF IInv, TypeInv, Value
    <2>2. \A n \in Nonces : Own(pool[n]) => pool[n].made \in 1 .. began'
      BY <2>1 DEF IInv, AgeInv
    <2>3. \A m \in Methods : onchain[m].made <= began'
      BY <2>1 DEF IInv, AgeInv
    <2> QED
      BY <1>1, <2>2, <2>3 DEF IInv, AgeInv, Own
  <1>4. BlockInv'
    BY <1>1 DEF IInv, BlockInv
  <1>5. ReaderKeepsUp'
    BY <1>1 DEF IInv, ReaderKeepsUp
  <1> QED
    BY <1>2, <1>3, <1>4, <1>5

LEMMA ReadLatestIInv == ASSUME IInv, readLatest PROVE IInv'
  <1>1. /\ UNCHANGED <<chainVars, sent, writerVars>> /\ pc = "idle" /\ pc' = "latest"
        /\ mined \in Nonces /\ tickBegins
    BY DEF readLatest
  <1>2. nonce' \in Nonces /\ nonce' <= mined
    BY <1>1, BoundsAssumption DEF readLatest, Nonces
  <1>3. /\ mined' = mined /\ pool' = pool /\ block' = block /\ onchain' = onchain
        /\ market' = market /\ usesReader' = usesReader
        /\ sent' = sent /\ lastSent' = lastSent /\ lastMinedNonce' = lastMinedNonce
    BY <1>1 DEF chainVars, writerVars
  <1>4. /\ mined \in Nat /\ began \in Nat /\ began <= mined + 1
    BY BoundsAssumption DEF IInv, TypeInv, AgeInv
  <1>5. CASE method = "none"
    <2>1. /\ samples' = usesReader /\ began' = mined + 1
          /\ method' = IF usesReader THEN "update" ELSE "batchPriceUpdate"
      BY <1>1, <1>5 DEF tickBegins
    <2>2. TypeInv'
      BY <1>1, <1>2, <1>3, <1>4, <2>1 DEF IInv, TypeInv, Methods
    <2>3. PoolInv' /\ AgeInv' /\ BlockInv' /\ ReaderKeepsUp'
      BY <1>1, <1>3, <1>4, <2>1, ChainSame
    <2>4. TickInv'
      BY <1>1, <1>2, <1>3, <1>4, <2>1 DEF IInv, TypeInv, TickInv
    <2> QED
      BY <2>2, <2>3, <2>4 DEF IInv
  <1>6. CASE method # "none"
    <2>1. samples' = samples /\ began' = began /\ method' = method
      BY <1>1, <1>6 DEF tickBegins
    <2>2. TypeInv'
      BY <1>1, <1>2, <1>3, <1>6, <2>1 DEF IInv, TypeInv
    <2>3. PoolInv' /\ AgeInv' /\ BlockInv' /\ ReaderKeepsUp'
      BY <1>1, <1>3, <1>4, <2>1, ChainSame
    <2>4. TickInv'
      BY <1>1, <1>2, <1>3, <2>1 DEF IInv, TickInv
    <2> QED
      BY <2>2, <2>3, <2>4 DEF IInv
  <1> QED
    BY <1>5, <1>6

LEMMA ReadPendingIInv == ASSUME IInv, readPending PROVE IInv'
  <1>1. /\ UNCHANGED <<chainVars, samples, began, writerVars>> /\ pc = "latest"
        /\ nonce <= mined
    BY DEF readPending, IInv, TickInv
  <1>2. /\ mined' = mined /\ pool' = pool /\ block' = block /\ onchain' = onchain
        /\ market' = market /\ usesReader' = usesReader /\ samples' = samples /\ began' = began
        /\ lastSent' = lastSent /\ lastMinedNonce' = lastMinedNonce
    BY <1>1 DEF chainVars, writerVars
  <1>3. /\ mined \in Nat /\ began \in Nat /\ began <= mined + 1
        /\ nonce \in Nat /\ lastMinedNonce \in Int /\ lastMinedNonce < mined
    BY BoundsAssumption DEF IInv, TypeInv, AgeInv, TickInv, Nonces
  <1>4. PoolInv' /\ AgeInv' /\ BlockInv' /\ ReaderKeepsUp'
    BY <1>1, <1>2, <1>3, ChainSame DEF writerVars
  <1>5. PICK count \in {pendingCount} \union (IF nonce < mined THEN {nonce} ELSE {}) :
          IF unknownPending(count)
          THEN skipTick /\ UNCHANGED nonce
          ELSE /\ pastLastMined(nonce) \in Nonces
               /\ nonce' = pastLastMined(nonce)
               /\ pc' = "ready"
               /\ UNCHANGED <<method, sent>>
    BY DEF readPending
  <1>6. CASE unknownPending(count)
    <2>1. pc' = "idle" /\ method' = "none" /\ sent' = None /\ nonce' = nonce
      BY <1>5, <1>6 DEF skipTick
    <2>2. TypeInv'
      BY <1>2, <2>1 DEF IInv, TypeInv
    <2>3. TickInv'
      BY <1>2, <2>1 DEF IInv, TickInv
    <2> QED
      BY <1>4, <2>2, <2>3 DEF IInv
  <1>7. CASE ~unknownPending(count)
    <2>1. /\ nonce' \in Nonces /\ nonce' = pastLastMined(nonce) /\ pc' = "ready"
          /\ method' = method /\ sent' = sent
      BY <1>5, <1>7
    <2>2. TypeInv'
      BY <1>1, <1>2, <2>1 DEF IInv, TypeInv
    <2>3. nonce' <= mined
      BY <1>1, <1>3, <2>1 DEF pastLastMined
    <2>4. TickInv'
      BY <1>1, <1>2, <2>1, <2>3 DEF IInv, TickInv
    <2> QED
      BY <1>4, <2>2, <2>4 DEF IInv
  <1> QED
    BY <1>6, <1>7


\* The node accepts a transaction of the writer: only at the account's nonce.
LEMMA SendFacts ==
  ASSUME IInv, pc = "ready", accepts(overrides(method, nonce))
  PROVE  /\ overrides(method, nonce) \in Tx
         /\ nonce = mined
         /\ \A n \in Nonces : n # nonce => ~Own(pool[n])
  <1> DEFINE tx == overrides(method, nonce)
             fee == IF replaces(nonce) THEN replacementFee(lastSent) ELSE market
             gas == IF replaces(nonce) THEN replacementGas(method, lastSent)
                                       ELSE estimatePending(method)
  <1>1. /\ mined \in Nat /\ nonce \in Nat /\ nonce \in Nonces /\ nonce <= mined
        /\ method \in Methods
    BY BoundsAssumption DEF IInv, TypeInv, TickInv, Nonces
  <1>2. tx = [nonce |-> nonce, method |-> method, made |-> began, paired |-> samples,
              fee |-> fee, gas |-> gas]
    BY DEF overrides
  <1>3. nonce = mined
    BY <1>1, <1>2 DEF accepts
  <1>4. \A n \in Nonces : n # nonce => ~Own(pool[n])
    BY <1>3 DEF IInv, PoolInv
  <1>5. estimateLatest(method) \in Int /\ estimatePending(method) \in Int
    BY DEF estimateLatest, estimatePending, Cold, Warm
  <1>6. replaces(nonce) => lastSent \in Tx /\ lastSent.fee \in Int /\ lastSent.gas \in Int
    BY DEF IInv, TypeInv, Tx, replaces
  <1>7. fee \in Int
    BY <1>6, BoundsAssumption DEF IInv, TypeInv, replacementFee, Greatest, Least, bumpFee
  <1>8. gas \in Int
    BY <1>5, <1>6 DEF replacementGas, Greatest
  <1> HIDE DEF fee, gas
  <1>9. tx \in Tx
    BY <1>1, <1>2, <1>7, <1>8 DEF Tx, IInv, TypeInv
  <1> QED
    BY <1>3, <1>4, <1>9

\* What holds of the chain when a transaction of the writer is in the pool.
LEMMA PushIInv ==
  ASSUME IInv, pc = "ready", accepts(overrides(method, nonce)),
         pool' = [pool EXCEPT ![nonce] = overrides(method, nonce)],
         UNCHANGED <<mined, block, onchain, began>>
  PROVE  /\ pool' \in [Nonces -> {None} \cup Tx]
         /\ PoolInv' /\ AgeInv' /\ BlockInv' /\ ReaderKeepsUp'
  <1> DEFINE tx == overrides(method, nonce)
  <1>1. /\ mined \in Nat /\ began \in Nat /\ began >= 1 /\ began <= mined + 1 /\ nonce \in Nonces
        /\ method \in Methods /\ \A m \in Methods : onchain[m].made \in Nat
    BY BoundsAssumption DEF IInv, TypeInv, AgeInv, TickInv, Value, Methods
  <1>2. /\ tx \in Tx /\ tx # None /\ nonce = mined
        /\ \A n \in Nonces : n # nonce => ~Own(pool[n])
    BY SendFacts, NotNone
  <1>3. tx.nonce = nonce /\ tx.method = method /\ tx.made = began /\ tx.paired = samples
    BY DEF overrides
  <1>4. pool' = [pool EXCEPT ![nonce] = tx]
    OBVIOUS
  <1> HIDE DEF tx
  <1>5. /\ pool' \in [Nonces -> {None} \cup Tx] /\ pool'[nonce] = tx
        /\ \A n \in Nonces : n # nonce => pool'[n] = pool[n]
    BY <1>1, <1>2, <1>4 DEF IInv, TypeInv
  <1>6. \A n \in Nonces : Own(pool'[n]) => n = nonce /\ pool'[n] = tx
    BY <1>2, <1>5
  <1>7. PoolInv'
    <2>1. \A n \in Nonces : pool'[n] # None => pool'[n].nonce = n
      BY <1>3, <1>5 DEF IInv, PoolInv
    <2> QED
      BY <1>2, <1>6, <2>1 DEF PoolInv, Own
  <1>8. AgeInv'
    <2> SUFFICES ASSUME NEW n \in Nonces, Own(pool'[n])
                 PROVE  /\ pool'[n].made \in 1 .. began
                        /\ pool'[n].method = "update"
                             => pool'[n].made >= onchain["update"].made
                        /\ pool'[n].method = "batchPriceUpdate" /\ pool'[n].paired
                             => pool'[n].made <= onchain["update"].made
      BY DEF IInv, AgeInv, Own
    <2>1. pool'[n] = tx
      BY <1>6
    <2>2. onchain["update"].made <= began /\ onchain["update"].made \in Nat
      BY <1>1 DEF IInv, AgeInv, Methods
    <2>3. method = "batchPriceUpdate" /\ samples => onchain["update"].made >= began
      BY DEF IInv, TickInv
    <2> QED
      BY <1>1, <1>3, <2>1, <2>2, <2>3
  <1>9. BlockInv' /\ ReaderKeepsUp'
    BY DEF IInv, BlockInv, ReaderKeepsUp
  <1> QED
    BY <1>5, <1>7, <1>8, <1>9

LEMMA SendIInv == ASSUME IInv, send PROVE IInv'
  <1> DEFINE tx == overrides(method, nonce)
  <1>1. /\ mined' = mined /\ block' = block /\ onchain' = onchain /\ market' = market
        /\ usesReader' = usesReader /\ samples' = samples /\ began' = began
        /\ nonce' = nonce /\ lastMinedNonce' = lastMinedNonce /\ pc = "ready"
    BY DEF send
  <1>2. /\ mined \in Nat /\ began \in Nat /\ began <= mined + 1 /\ nonce \in Nonces
        /\ method \in Methods
    BY <1>1, BoundsAssumption DEF IInv, TypeInv, AgeInv
  <1>3. CASE ~accepts(tx)
    <2>1. /\ pc' = "idle" /\ method' = "none" /\ sent' = None
          /\ pool' = pool /\ lastSent' = lastSent
      BY <1>3 DEF send, skipTick
    <2>2. PoolInv' /\ AgeInv' /\ BlockInv' /\ ReaderKeepsUp'
      BY <1>1, <1>2, <2>1, ChainSame DEF chainVars
    <2>3. TypeInv'
      BY <1>1, <2>1 DEF IInv, TypeInv
    <2>4. TickInv'
      BY <1>1, <2>1 DEF IInv, TickInv
    <2> QED
      BY <2>2, <2>3, <2>4 DEF IInv
  <1>4. CASE accepts(tx)
    <2>1. /\ pool' = [pool EXCEPT ![nonce] = tx] /\ sent' = tx /\ lastSent' = tx
          /\ pc' = "wait" /\ method' = method
      BY <1>4 DEF send
    <2>2. tx \in Tx /\ nonce = mined
      BY <1>1, <1>4, SendFacts
    <2>3. tx.nonce = nonce /\ tx.method = method /\ tx.made = began
      BY DEF overrides
    <2>4. /\ pool' \in [Nonces -> {None} \cup Tx]
          /\ PoolInv' /\ AgeInv' /\ BlockInv' /\ ReaderKeepsUp'
      BY <1>1, <1>4, <2>1, PushIInv
    <2> HIDE DEF tx
    <2>5. TypeInv'
      BY <1>1, <2>1, <2>2, <2>4 DEF IInv, TypeInv
    <2>6. ~minedWell(sent)'
      <3>1. block[nonce] = None
        BY <1>2, <2>2 DEF IInv, BlockInv
      <3> QED
        BY <1>1, <2>1, <2>3, <3>1, NotNone DEF minedWell
    <2>7. TickInv'
      BY <1>1, <2>1, <2>2, <2>3, <2>6 DEF IInv, TickInv
    <2> QED
      BY <2>4, <2>5, <2>7 DEF IInv
  <1> QED
    BY <1>3, <1>4

LEMMA SendUnansweredIInv == ASSUME IInv, sendUnanswered PROVE IInv'
  <1>1. /\ mined' = mined /\ block' = block /\ onchain' = onchain /\ market' = market
        /\ usesReader' = usesReader /\ samples' = samples /\ began' = began
        /\ nonce' = nonce /\ lastSent' = lastSent /\ lastMinedNonce' = lastMinedNonce
        /\ pc' = "idle" /\ method' = "none" /\ sent' = None
    BY DEF sendUnanswered, skipTick, writerVars
  <1>2. /\ pool' \in [Nonces -> {None} \cup Tx]
        /\ PoolInv' /\ AgeInv' /\ BlockInv' /\ ReaderKeepsUp'
    BY <1>1, PushIInv DEF sendUnanswered
  <1>3. TypeInv'
    BY <1>1, <1>2 DEF IInv, TypeInv
  <1>4. TickInv'
    BY <1>1 DEF IInv, TickInv
  <1> QED
    BY <1>2, <1>3, <1>4 DEF IInv

LEMMA ReceiptIInv == ASSUME IInv, receipt PROVE IInv'
  <1>1. /\ pc = "wait" /\ minedWell(sent)
        /\ lastSent' = None /\ lastMinedNonce' = nonce
        /\ pc' = "idle" /\ method' = nextPush(method) /\ sent' = None
        /\ UNCHANGED chainVars /\ samples' = samples /\ began' = began /\ nonce' = nonce
    BY DEF receipt
  <1>2. /\ mined' = mined /\ pool' = pool /\ block' = block /\ onchain' = onchain
        /\ market' = market /\ usesReader' = usesReader
    BY <1>1 DEF chainVars
  <1>3. /\ mined \in Nat /\ began \in Nat /\ began <= mined + 1 /\ nonce \in Nat
        /\ method \in Methods /\ nonce < mined /\ sent \in Tx
        /\ method = "update" => onchain["update"].made >= began
        /\ began >= 1
    BY <1>1, BoundsAssumption DEF IInv, TypeInv, AgeInv, TickInv, Nonces, Methods
  <1>4. PoolInv' /\ AgeInv' /\ BlockInv' /\ ReaderKeepsUp'
    BY <1>1, <1>2, <1>3, ChainSame
  <1>5. TypeInv'
    BY <1>1, <1>2, <1>3 DEF IInv, TypeInv, nextPush, Methods, Nonces
  <1>6. TickInv'
    BY <1>1, <1>2, <1>3 DEF IInv, TickInv, nextPush, Methods
  <1> QED
    BY <1>4, <1>5, <1>6 DEF IInv

\* A tick that ends and a restart leave the chain alone and forget what they
\* were about.
LEMMA TickEndsIInv ==
  ASSUME IInv, skipTick, UNCHANGED <<chainVars, samples, began, nonce>>,
         UNCHANGED writerVars \/ (lastSent' = None /\ lastMinedNonce' = -1)
  PROVE  IInv'
  <1>1. pc' = "idle" /\ method' = "none" /\ sent' = None
    BY DEF skipTick
  <1>2. /\ mined' = mined /\ pool' = pool /\ block' = block /\ onchain' = onchain
        /\ market' = market /\ usesReader' = usesReader
        /\ samples' = samples /\ began' = began /\ nonce' = nonce
    BY DEF chainVars
  <1>3. /\ mined \in Nat /\ began \in Nat /\ began <= mined + 1
        /\ lastSent' \in {None} \cup Tx /\ lastMinedNonce' \in Int /\ lastMinedNonce' < mined
    BY BoundsAssumption DEF IInv, TypeInv, AgeInv, TickInv, writerVars
  <1>4. PoolInv' /\ AgeInv' /\ BlockInv' /\ ReaderKeepsUp'
    BY <1>2, <1>3, ChainSame DEF writerVars
  <1>5. TypeInv'
    BY <1>1, <1>2, <1>3 DEF IInv, TypeInv
  <1>6. TickInv'
    BY <1>1, <1>2, <1>3 DEF IInv, TickInv
  <1> QED
    BY <1>4, <1>5, <1>6 DEF IInv

\* The market moves, or the pricing mode changes.
LEMMA ModeIInv ==
  ASSUME IInv, UNCHANGED <<mined, pool, block, onchain, tickVars, writerVars>>,
         market' \in Int, usesReader' \in BOOLEAN
  PROVE  IInv'
  <1>1. /\ mined' = mined /\ pool' = pool /\ block' = block /\ onchain' = onchain
        /\ pc' = pc /\ method' = method /\ samples' = samples /\ began' = began
        /\ nonce' = nonce /\ sent' = sent /\ lastSent' = lastSent
        /\ lastMinedNonce' = lastMinedNonce
    BY DEF tickVars, writerVars
  <1>2. TypeInv'
    BY <1>1 DEF IInv, TypeInv
  <1>3. PoolInv' /\ AgeInv'
    BY <1>1 DEF IInv, PoolInv, AgeInv, Own
  <1>4. BlockInv' /\ ReaderKeepsUp'
    BY <1>1 DEF IInv, BlockInv, ReaderKeepsUp
  <1>5. TickInv'
    BY <1>1 DEF IInv, TickInv, minedWell
  <1> QED
    BY <1>2, <1>3, <1>4, <1>5 DEF IInv

\* A pending transaction disappears, or an operator's appears.
LEMMA PoolIInv ==
  ASSUME IInv, NEW k \in Nonces, NEW x \in {None} \cup Tx, x # None => x.nonce = k, ~Own(x),
         pool' = [pool EXCEPT ![k] = x],
         UNCHANGED <<mined, block, market, onchain, usesReader, tickVars, writerVars>>
  PROVE  IInv'
  <1>1. /\ mined' = mined /\ block' = block /\ onchain' = onchain
        /\ market' = market /\ usesReader' = usesReader
        /\ pc' = pc /\ method' = method /\ samples' = samples /\ began' = began
        /\ nonce' = nonce /\ sent' = sent /\ lastSent' = lastSent
        /\ lastMinedNonce' = lastMinedNonce
    BY DEF tickVars, writerVars
  <1>2. /\ pool' \in [Nonces -> {None} \cup Tx] /\ pool'[k] = x
        /\ \A n \in Nonces : n # k => pool'[n] = pool[n]
    BY DEF IInv, TypeInv
  <1>3. \A n \in Nonces : Own(pool'[n]) => pool'[n] = pool[n]
    BY <1>2
  <1>4. TypeInv'
    BY <1>1, <1>2 DEF IInv, TypeInv
  <1>5. PoolInv'
    <2>1. \A n \in Nonces : pool'[n] # None => pool'[n].nonce = n
      BY <1>2 DEF IInv, PoolInv
    <2>2. ASSUME NEW n \in Nonces, Own(pool'[n]) PROVE n = mined'
      BY <1>1, <1>3, <2>2 DEF IInv, PoolInv
    <2> QED
      BY <2>1, <2>2 DEF PoolInv, Own
  <1>6. AgeInv'
    <2>1. ASSUME NEW n \in Nonces, Own(pool'[n])
          PROVE  /\ pool'[n].made \in 1 .. began
                 /\ pool'[n].method = "update" => pool'[n].made >= onchain["update"].made
                 /\ pool'[n].method = "batchPriceUpdate" /\ pool'[n].paired
                      => pool'[n].made <= onchain["update"].made
      BY <1>3, <2>1 DEF IInv, AgeInv
    <2> QED
      BY <1>1, <2>1 DEF IInv, AgeInv, Own
  <1>7. BlockInv' /\ ReaderKeepsUp'
    BY <1>1 DEF IInv, BlockInv, ReaderKeepsUp
  <1>8. TickInv'
    <2>1. minedWell(sent)' <=> minedWell(sent)
      BY <1>1 DEF minedWell
    <2> QED
      BY <1>1, <2>1 DEF IInv, TickInv
  <1> QED
    BY <1>4, <1>5, <1>6, <1>7, <1>8 DEF IInv

LEMMA OperatorIInv == ASSUME IInv, operatorSends PROVE IInv'
  <1> DEFINE k == pendingCount
             x == [nonce |-> k, method |-> "operator", made |-> 0,
                   paired |-> FALSE, fee |-> market, gas |-> Warm]
  <1>1. k \in Nonces /\ pool' = [pool EXCEPT ![k] = x]
    BY DEF operatorSends
  <1>2. UNCHANGED <<mined, block, market, onchain, usesReader, tickVars, writerVars>>
    BY DEF operatorSends
  <1> HIDE DEF k
  <1>3. x \in Tx /\ x.nonce = k /\ ~Own(x)
    BY <1>1 DEF IInv, TypeInv, Tx, Own, Methods, Warm
  <1> HIDE DEF x
  <1> QED
    BY <1>1, <1>2, <1>3, PoolIInv

LEMMA EvictIInv == ASSUME IInv, NEW n \in Nonces, evict(n) PROVE IInv'
  <1>1. ~Own(None)
    BY DEF Own
  <1> QED
    BY <1>1, PoolIInv DEF evict

\* A transaction is mined: it leaves no other push of the writer behind, and the
\* ages on chain only grow.
LEMMA MineIInv == ASSUME IInv, mine PROVE IInv'
  <1> DEFINE tx == pool[mined]
             ok == tx.method \in Methods => tx.gas >= estimateLatest(tx.method)
             val == [made |-> tx.made, paired |-> tx.paired]
  <1>1. /\ mined \in Nonces /\ tx # None /\ mined' = mined + 1
        /\ pool' = [pool EXCEPT ![mined] = None]
        /\ block' = [block EXCEPT ![mined] = [tx |-> tx, ok |-> ok]]
        /\ onchain' = IF ok /\ tx.method \in Methods
                      THEN [onchain EXCEPT ![tx.method] = val] ELSE onchain
    BY DEF mine
  <1>2. /\ market' = market /\ usesReader' = usesReader
        /\ pc' = pc /\ method' = method /\ samples' = samples /\ began' = began
        /\ nonce' = nonce /\ sent' = sent /\ lastSent' = lastSent
        /\ lastMinedNonce' = lastMinedNonce
    BY DEF mine, tickVars, writerVars
  <1>3. /\ mined \in Nat /\ mined <= MaxNonce /\ MaxNonce \in Nat /\ began \in Nat
        /\ nonce \in Nat /\ began <= mined + 1 /\ lastMinedNonce \in Int
        /\ lastMinedNonce < mined
    BY <1>1, BoundsAssumption DEF IInv, TypeInv, AgeInv, TickInv, Nonces
  <1>4. tx \in Tx /\ tx.nonce = mined /\ tx.made \in Nat /\ tx.paired \in BOOLEAN
    BY <1>1 DEF IInv, TypeInv, PoolInv, Tx
  <1>5. ok \in BOOLEAN
    BY Zenon
  <1>6. \A m \in Methods : onchain[m].made \in Nat /\ onchain[m].made <= began
    BY DEF IInv, TypeInv, AgeInv, Value
  <1>7. tx.method \in Methods =>
          /\ tx.made \in 1 .. began
          /\ tx.method = "update" => tx.made >= onchain["update"].made
          /\ tx.method = "batchPriceUpdate" /\ tx.paired => tx.made <= onchain["update"].made
    BY <1>1 DEF IInv, AgeInv, Own
  <1> HIDE DEF tx, ok
  <1>8. val \in Value /\ val.made = tx.made /\ val.paired = tx.paired
    BY <1>4 DEF Value
  <1> HIDE DEF val
  <1>9. /\ onchain' \in [Methods -> Value]
        /\ \A m \in Methods : onchain'[m] = IF ok /\ tx.method = m THEN val ELSE onchain[m]
    <2>1. CASE ok
      BY <1>1, <1>8, <2>1 DEF IInv, TypeInv
    <2>2. CASE ~ok
      BY <1>1, <2>2 DEF IInv, TypeInv
    <2> QED
      BY <2>1, <2>2
  <1>10. /\ block' \in [Nonces -> {None} \cup [tx : Tx, ok : BOOLEAN]]
         /\ block'[mined] = [tx |-> tx, ok |-> ok]
         /\ \A n \in Nonces : n # mined => block'[n] = block[n]
    <2> DEFINE entry == [tx |-> tx, ok |-> ok]
    <2>1. entry \in [tx : Tx, ok : BOOLEAN]
      BY <1>4, <1>5, Zenon
    <2>2. block' = [block EXCEPT ![mined] = entry]
      BY <1>1
    <2> HIDE DEF entry
    <2>3. /\ block' \in [Nonces -> {None} \cup [tx : Tx, ok : BOOLEAN]]
          /\ block'[mined] = entry
          /\ \A n \in Nonces : n # mined => block'[n] = block[n]
      BY <1>1, <2>1, <2>2, Zenon DEF IInv, TypeInv
    <2> QED
      BY <2>3 DEF entry
  <1>11. /\ pool' \in [Nonces -> {None} \cup Tx] /\ pool'[mined] = None
         /\ \A n \in Nonces : n # mined => pool'[n] = pool[n]
    BY <1>1 DEF IInv, TypeInv
  <1>12. \A n \in Nonces : ~Own(pool'[n])
    BY <1>1, <1>11 DEF IInv, PoolInv, Own
  <1>13. onchain'["update"].made >= onchain["update"].made
    BY <1>6, <1>7, <1>8, <1>9 DEF Methods
  <1>14. TypeInv'
    BY <1>1, <1>2, <1>3, <1>9, <1>10, <1>11 DEF IInv, TypeInv
  <1>15. PoolInv'
    <2>1. \A n \in Nonces : pool'[n] # None => pool'[n].nonce = n
      BY <1>11 DEF IInv, PoolInv
    <2> QED
      BY <1>12, <2>1 DEF PoolInv, Own
  <1>16. AgeInv'
    <2>1. \A m \in Methods : onchain'[m].made <= began
      BY <1>6, <1>7, <1>8, <1>9
    <2> QED
      BY <1>1, <1>2, <1>3, <1>12, <2>1 DEF AgeInv, Own
  <1>17. BlockInv'
    <2>1. ASSUME NEW n \in Nonces, n >= mined + 1 PROVE block'[n] = None
      <3>1. n # mined /\ n >= mined
        BY <1>3, <2>1 DEF Nonces
      <3> QED
        BY <1>10, <3>1 DEF IInv, BlockInv
    <2> QED
      BY <1>1, <2>1 DEF BlockInv
  <1>18. ReaderKeepsUp'
    <2> SUFFICES ASSUME onchain'["batchPriceUpdate"].paired
                 PROVE  onchain'["batchPriceUpdate"].made <= onchain'["update"].made
      BY DEF ReaderKeepsUp
    <2>1. onchain'["update"].made \in Nat
      BY <1>9 DEF Value, Methods
    <2>2. CASE ok /\ tx.method = "batchPriceUpdate"
      BY <1>6, <1>7, <1>8, <1>9, <2>2 DEF Methods
    <2>3. CASE ~(ok /\ tx.method = "batchPriceUpdate")
      <3>1. onchain'["batchPriceUpdate"] = onchain["batchPriceUpdate"]
        BY <1>9, <2>3 DEF Methods
      <3>2. onchain["batchPriceUpdate"].made <= onchain["update"].made
        BY <3>1 DEF IInv, ReaderKeepsUp
      <3> QED
        BY <1>6, <1>13, <2>1, <3>1, <3>2 DEF Methods
    <2> QED
      BY <2>2, <2>3
  <1>19. TickInv'
    <2>1. onchain'["update"].made \in Nat /\ onchain["update"].made \in Nat
      BY <1>6, <1>9 DEF Value, Methods
    <2>2. method = "batchPriceUpdate" /\ samples => onchain'["update"].made >= began
      BY <1>3, <1>13, <2>1 DEF IInv, TickInv
    <2>3. pc \in {"latest", "ready"} => nonce <= mined + 1
      BY <1>3 DEF IInv, TickInv
    <2>4. ASSUME pc = "wait"
          PROVE  /\ sent \in Tx /\ sent = lastSent /\ sent.nonce = nonce
                 /\ sent.method = method /\ sent.made = began
                 /\ minedWell(sent)' => nonce < mined + 1
                 /\ minedWell(sent)' /\ method = "update" => onchain'["update"].made >= began
      <3>1. /\ sent \in Tx /\ sent = lastSent /\ sent.nonce = nonce
            /\ sent.method = method /\ sent.made = began /\ nonce \in Nonces
        BY <2>4 DEF IInv, TickInv, TypeInv
      <3>2. minedWell(sent)' <=> block'[nonce] = [tx |-> sent, ok |-> TRUE]
        BY <1>2, <3>1, Zenon DEF minedWell
      <3>3. CASE nonce = mined
        <4>1. ASSUME block'[nonce] = [tx |-> sent, ok |-> TRUE] PROVE sent = tx /\ ok
          <5>1. [tx |-> sent, ok |-> TRUE] = [tx |-> tx, ok |-> ok]
            BY <1>10, <3>3, <4>1
          <5>2. [tx |-> sent, ok |-> TRUE].tx = sent /\ [tx |-> tx, ok |-> ok].tx = tx
            OBVIOUS
          <5>3. [tx |-> sent, ok |-> TRUE].ok = TRUE /\ [tx |-> tx, ok |-> ok].ok = ok
            BY Zenon
          <5> QED
            BY <5>1, <5>2, <5>3, Zenon
        <4>2. ASSUME sent = tx, ok, method = "update" PROVE onchain'["update"].made >= began
          BY <1>3, <1>8, <1>9, <3>1, <4>2 DEF Methods
        <4> QED
          BY <1>3, <3>1, <3>2, <3>3, <4>1, <4>2
      <3>4. CASE nonce # mined
        <4>1. minedWell(sent)' <=> minedWell(sent)
          BY <1>10, <3>1, <3>2, <3>4 DEF minedWell
        <4> QED
          BY <1>3, <1>13, <2>1, <2>4, <3>1, <4>1 DEF IInv, TickInv
      <3> QED
        BY <3>3, <3>4
    <2>5. lastMinedNonce < mined + 1
      BY <1>3
    <2>6. ~Own(pool'[nonce])
      BY <1>12 DEF IInv, TypeInv
    <2> QED
      BY <1>1, <1>2, <2>2, <2>3, <2>4, <2>5, <2>6 DEF IInv, TickInv, Own
  <1> QED
    BY <1>14, <1>15, <1>16, <1>17, <1>18, <1>19 DEF IInv

LEMMA NextIInv == ASSUME IInv, [Next]_vars PROVE IInv'
  <1>1. CASE readLatest
    BY <1>1, ReadLatestIInv
  <1>2. CASE readPending
    BY <1>2, ReadPendingIInv
  <1>3. CASE send
    BY <1>3, SendIInv
  <1>4. CASE receipt
    BY <1>4, ReceiptIInv
  <1>5. CASE waitFails
    BY <1>5, TickEndsIInv DEF waitFails
  <1>6. CASE restart
    BY <1>6, TickEndsIInv DEF restart
  <1>7. CASE mine
    BY <1>7, MineIInv
  <1>8. CASE marketMoves
    <2>1. market' \in Int /\ usesReader' \in BOOLEAN
      BY <1>8, BoundsAssumption DEF marketMoves, IInv, TypeInv
    <2> QED
      BY <1>8, <2>1, ModeIInv DEF marketMoves
  <1>9. CASE pricingChanges
    <2>1. market' \in Int
      BY <1>9 DEF pricingChanges, IInv, TypeInv
    <2>2. usesReader' \in BOOLEAN
      BY <1>9, Zenon DEF pricingChanges
    <2> QED
      BY <1>9, <2>1, <2>2, ModeIInv DEF pricingChanges
  <1>10. CASE operatorSends
    BY <1>10, OperatorIInv
  <1>11. CASE evictOwn
    <2>1. lastSent.nonce \in Nonces /\ evict(lastSent.nonce)
      BY <1>11 DEF evictOwn, IInv, TypeInv, Tx
    <2> QED
      BY <2>1, EvictIInv
  <1>12. CASE evictUnknown
    BY <1>12, EvictIInv DEF evictUnknown
  <1>13. CASE sendUnanswered
    BY <1>13, SendUnansweredIInv
  <1>14. CASE readFails
    BY <1>14, TickEndsIInv DEF readFails
  <1>15. CASE UNCHANGED vars
    <2>1. /\ UNCHANGED <<mined, pool, block, onchain, tickVars, writerVars>>
          /\ market' = market /\ usesReader' = usesReader
      BY <1>15 DEF vars, chainVars
    <2>2. market' \in Int /\ usesReader' \in BOOLEAN
      BY <2>1 DEF IInv, TypeInv
    <2> QED
      BY <2>1, <2>2, ModeIInv
  <1> QED
    BY <1>1, <1>2, <1>3, <1>4, <1>5, <1>6, <1>7, <1>8, <1>9, <1>10, <1>11, <1>12, <1>13,
       <1>14, <1>15
       DEF Next, tick

-----------------------------------------------------------------------------
(* Gas.                                                                    *)

\* As long as no answer to a first transaction was lost: the writer's pending
\* push has gas enough for the chain as it is; the process that sent it has a
\* push at its nonce in mind, or it has forgotten everything and has seen
\* nothing mined since it started; and a send at that nonce is a replacement.
GasInv == ~firstLost =>
    /\ \A n \in Nonces : Own(pool[n]) =>
         /\ pool[n].gas >= estimateLatest(pool[n].method)
         /\ replaces(n) \/ (lastSent = None /\ lastMinedNonce = -1)
    /\ pc = "ready" /\ nonce = mined /\ Own(pool[nonce]) => replaces(nonce)
    /\ \A n \in Nonces : block[n] # None => block[n].ok

LEMMA InitGas == Init => GasInv
  BY DEF Init, GasInv, Own

\* A step that neither sends a push nor has one mined.
LEMMA GasSame ==
  ASSUME IInv, GasInv, UNCHANGED <<mined, block, onchain, firstLost>>,
         \A n \in Nonces : Own(pool'[n]) => pool'[n] = pool[n],
         UNCHANGED writerVars \/ (lastSent' = None /\ lastMinedNonce' = -1),
         pc' # "ready" \/ UNCHANGED <<pc, nonce, lastSent>>
  PROVE  GasInv'
  <1> SUFFICES ASSUME ~firstLost PROVE GasInv'
    BY DEF GasInv
  <1>1. \A m : estimateLatest(m)' = estimateLatest(m)
    BY DEF estimateLatest
  <1>2. /\ \A n \in Nonces : Own(pool[n]) =>
             /\ pool[n].gas >= estimateLatest(pool[n].method)
             /\ replaces(n) \/ (lastSent = None /\ lastMinedNonce = -1)
        /\ pc = "ready" /\ nonce = mined /\ Own(pool[nonce]) => replaces(nonce)
        /\ \A n \in Nonces : block[n] # None => block[n].ok
    BY DEF GasInv
  <1>3. ASSUME NEW n \in Nonces, Own(pool'[n])
        PROVE  /\ pool'[n].gas >= estimateLatest(pool[n].method)'
               /\ replaces(n)' \/ (lastSent' = None /\ lastMinedNonce' = -1)
    <2>1. pool'[n] = pool[n] /\ Own(pool[n])
      BY <1>3
    <2>2. estimateLatest(pool[n].method)' = estimateLatest(pool[n].method)
      BY <2>1 DEF estimateLatest
    <2> QED
      BY <1>2, <2>1, <2>2 DEF replaces, writerVars
  <1>4. pc' = "ready" /\ nonce' = mined' /\ Own(pool'[nonce']) => replaces(nonce)'
    BY <1>2 DEF replaces, IInv, TypeInv
  <1> QED
    BY <1>2, <1>3, <1>4 DEF GasInv, Own

\* The nonce is chosen: if one of the writer's pushes waits there, the process
\* has a push at it in mind, for else it would have waited.
LEMMA ReadPendingGas == ASSUME IInv, GasInv, readPending PROVE GasInv'
  <1> SUFFICES ASSUME ~firstLost PROVE GasInv'
    BY DEF GasInv, readPending
  <1>1. /\ UNCHANGED <<mined, pool, block, onchain, lastSent, lastMinedNonce, firstLost>>
        /\ pc = "latest" /\ nonce <= mined
    BY DEF readPending, chainVars, writerVars, IInv, TickInv
  <1>2. /\ mined \in Nat /\ nonce \in Nat /\ nonce \in Nonces
        /\ lastMinedNonce \in Int /\ lastMinedNonce < mined
    BY BoundsAssumption DEF IInv, TypeInv, TickInv, Nonces
  <1>3. PICK count \in {pendingCount} \union (IF nonce < mined THEN {nonce} ELSE {}) :
          IF unknownPending(count)
          THEN skipTick /\ UNCHANGED nonce
          ELSE /\ pastLastMined(nonce) \in Nonces
               /\ nonce' = pastLastMined(nonce)
               /\ pc' = "ready"
               /\ UNCHANGED <<method, sent>>
    BY DEF readPending
  <1>4. CASE unknownPending(count)
    <2>1. pc' = "idle"
      BY <1>3, <1>4 DEF skipTick
    <2> QED
      BY <1>1, <2>1, GasSame DEF writerVars
  <1>5. CASE ~unknownPending(count)
    <2>1. nonce' \in Nonces /\ nonce' = pastLastMined(nonce)
      BY <1>3, <1>5
    <2>2. ASSUME nonce' = mined, Own(pool[nonce']) PROVE replaces(nonce')
      <3>1. mined \in Nonces /\ pool[mined] # None
        BY <2>1, <2>2 DEF Own
      <3>2. pendingCount > mined /\ pendingCount \in Int
        BY <3>1, <1>2, BoundsAssumption, PendingCount DEF IInv
      <3>3. SUFFICES ASSUME lastSent = None, lastMinedNonce = -1 PROVE FALSE
        BY <2>1, <2>2 DEF GasInv
      <3>4. nonce' = nonce
        BY <1>2, <2>1, <3>3 DEF pastLastMined
      <3>5. count = pendingCount
        <4>1. ~(nonce < mined)
          BY <1>2, <2>2, <3>4
        <4> QED
          BY <1>3, <4>1
      <3> QED
        BY <1>1, <1>2, <1>5, <2>2, <3>2, <3>3, <3>4, <3>5 DEF unknownPending
    <2>3. \A n : replaces(n)' <=> replaces(n)
      BY <1>1 DEF replaces
    <2>4. \A n \in Nonces : estimateLatest(pool[n].method)' = estimateLatest(pool[n].method)
      BY <1>1 DEF estimateLatest
    <2>5. \A n \in Nonces : Own(pool[n]) =>
            /\ pool[n].gas >= estimateLatest(pool[n].method)
            /\ replaces(n) \/ (lastSent = None /\ lastMinedNonce = -1)
      BY DEF GasInv
    <2>6. \A n \in Nonces : block[n] # None => block[n].ok
      BY DEF GasInv
    <2>7. replaces(nonce)' <=> replaces(nonce')
      BY <1>1 DEF replaces
    <2> QED
      BY <1>1, <2>1, <2>2, <2>3, <2>4, <2>5, <2>6, <2>7 DEF GasInv, Own
  <1> QED
    BY <1>4, <1>5

\* What send asks for: enough for the chain as it is, because a first attempt
\* finds no push of the writer in the pool and a replacement is estimated on
\* the latest block.
LEMMA SendGas ==
  ASSUME IInv, GasInv, ~firstLost, pc = "ready", accepts(overrides(method, nonce))
  PROVE  /\ overrides(method, nonce).gas >= estimateLatest(method)
         /\ overrides(method, nonce).method = method
         /\ overrides(method, nonce).nonce = nonce
  <1> DEFINE gas == IF replaces(nonce) THEN replacementGas(method, lastSent)
                                       ELSE estimatePending(method)
  <1>1. /\ nonce \in Nonces /\ nonce = mined /\ method \in Methods
        /\ \A n \in Nonces : n # nonce => ~Own(pool[n])
    BY SendFacts DEF IInv, TypeInv
  <1>2. estimateLatest(method) \in Int
    BY DEF estimateLatest, Cold, Warm
  <1>3. CASE replaces(nonce)
    <2>1. lastSent.gas \in Int
      BY <1>3 DEF replaces, IInv, TypeInv, Tx
    <2> QED
      BY <1>2, <1>3, <2>1 DEF replacementGas, Greatest, overrides
  <1>4. CASE ~replaces(nonce)
    <2>1. ~Own(pool[nonce])
      BY <1>1, <1>4 DEF GasInv
    <2>2. \A n \in Nonces : ~(pool[n] # None /\ pool[n].method = method)
      BY <1>1, <2>1 DEF Own
    <2>3. estimatePending(method) = estimateLatest(method)
      BY <2>2 DEF estimatePending
    <2> QED
      BY <1>2, <1>4, <2>3 DEF overrides
  <1> QED
    BY <1>3, <1>4

\* The node takes a push, and its answer arrives or is lost.
LEMMA PushGas ==
  ASSUME IInv, GasInv, pc = "ready", accepts(overrides(method, nonce)),
         pool' = [pool EXCEPT ![nonce] = overrides(method, nonce)],
         UNCHANGED <<mined, block, onchain, nonce>>, pc' # "ready", ~firstLost,
         replaces(nonce)'
  PROVE  GasInv'
  <1> DEFINE tx == overrides(method, nonce)
  <1>1. /\ tx.gas >= estimateLatest(method) /\ tx.method = method
        /\ nonce = mined /\ nonce \in Nonces
        /\ \A n \in Nonces : n # nonce => ~Own(pool[n])
    BY SendGas, SendFacts DEF IInv, TypeInv
  <1>2. pool' = [pool EXCEPT ![nonce] = tx]
    OBVIOUS
  <1> HIDE DEF tx
  <1>3. pool'[nonce] = tx /\ \A n \in Nonces : n # nonce => pool'[n] = pool[n]
    BY <1>1, <1>2 DEF IInv, TypeInv
  <1>4. ASSUME NEW n \in Nonces, Own(pool'[n])
        PROVE  pool'[n].gas >= estimateLatest(pool[n].method)' /\ replaces(n)'
    <2>1. n = nonce /\ pool'[n] = tx /\ pool'[n].method = method
      BY <1>1, <1>3, <1>4
    <2>2. estimateLatest(pool[n].method)' = estimateLatest(method)
      BY <2>1 DEF estimateLatest
    <2>3. replaces(n)'
      BY <2>1 DEF replaces
    <2> QED
      BY <1>1, <2>1, <2>2, <2>3
  <1>5. \A n \in Nonces : block[n] # None => block[n].ok
    BY DEF GasInv
  <1> QED
    BY <1>4, <1>5 DEF GasInv, Own

LEMMA SendGasInv == ASSUME IInv, GasInv, send PROVE GasInv'
  <1> SUFFICES ASSUME ~firstLost PROVE GasInv'
    BY DEF GasInv, send
  <1> DEFINE tx == overrides(method, nonce)
  <1>1. /\ UNCHANGED <<mined, block, onchain, nonce, lastMinedNonce, firstLost>>
        /\ pc = "ready"
    BY DEF send
  <1>2. CASE accepts(tx)
    <2>1. pool' = [pool EXCEPT ![nonce] = tx] /\ lastSent' = tx /\ pc' = "wait"
      BY <1>2 DEF send
    <2>2. tx # None /\ tx.nonce = nonce
      BY <1>1, <1>2, SendFacts, NotNone DEF overrides
    <2>3. replaces(nonce)'
      BY <1>1, <2>1, <2>2 DEF replaces
    <2> QED
      BY <1>1, <1>2, <2>1, <2>3, PushGas
  <1>3. CASE ~accepts(tx)
    <2>1. pool' = pool /\ lastSent' = lastSent /\ pc' = "idle"
      BY <1>3 DEF send, skipTick
    <2> QED
      BY <1>1, <2>1, GasSame DEF writerVars
  <1> QED
    BY <1>2, <1>3

LEMMA SendUnansweredGas == ASSUME IInv, GasInv, sendUnanswered PROVE GasInv'
  <1>1. /\ UNCHANGED <<mined, block, onchain, nonce, lastSent>>
        /\ pc = "ready" /\ pc' = "idle" /\ accepts(overrides(method, nonce))
        /\ pool' = [pool EXCEPT ![nonce] = overrides(method, nonce)]
        /\ firstLost' = (firstLost \/ ~replaces(nonce))
    BY DEF sendUnanswered, skipTick, writerVars
  <1>2. CASE firstLost'
    BY <1>2 DEF GasInv
  <1>3. CASE ~firstLost'
    <2>1. ~firstLost /\ replaces(nonce)
      BY <1>1, <1>3
    <2>2. replaces(nonce)'
      BY <1>1, <2>1 DEF replaces
    <2> QED
      BY <1>1, <2>1, <2>2, PushGas
  <1> QED
    BY <1>2, <1>3

\* What is mined is the receipt's transaction, so no push is pending any more.
LEMMA ReceiptGas == ASSUME IInv, GasInv, receipt PROVE GasInv'
  <1> SUFFICES ASSUME ~firstLost PROVE GasInv'
    BY DEF GasInv, receipt
  <1>1. /\ UNCHANGED <<mined, pool, block, onchain, firstLost>>
        /\ lastSent' = None /\ pc' = "idle"
        /\ lastSent # None /\ lastSent.nonce = nonce /\ nonce < mined /\ nonce \in Nat
        /\ mined \in Nat
    BY NotNone, BoundsAssumption DEF receipt, chainVars, IInv, TickInv, TypeInv, Nonces
  <1>2. \A n \in Nonces : ~Own(pool[n])
    BY <1>1 DEF IInv, PoolInv, GasInv, replaces
  <1> QED
    BY <1>1, <1>2 DEF GasInv, Own

\* A push that is mined had gas enough, and no other is pending.
LEMMA MineGas == ASSUME IInv, GasInv, mine PROVE GasInv'
  <1> SUFFICES ASSUME ~firstLost PROVE GasInv'
    BY DEF GasInv, mine
  <1> DEFINE tx == pool[mined]
             ok == tx.method \in Methods => tx.gas >= estimateLatest(tx.method)
  <1>1. /\ mined \in Nonces /\ tx # None
        /\ pool' = [pool EXCEPT ![mined] = None]
        /\ block' = [block EXCEPT ![mined] = [tx |-> tx, ok |-> ok]]
        /\ nonce' = nonce /\ firstLost' = firstLost
    BY DEF mine, tickVars
  <1>2. ok
    BY <1>1 DEF GasInv, Own
  <1>3. block' = [block EXCEPT ![mined] = [tx |-> tx, ok |-> TRUE]]
    <2>1. ok = TRUE
      BY <1>2, Zenon
    <2> QED
      BY <1>1, <2>1, Zenon
  <1> HIDE DEF tx, ok
  <1>4. \A n \in Nonces : ~Own(pool'[n])
    BY <1>1 DEF IInv, TypeInv, PoolInv, Own
  <1>5. \A n \in Nonces : block'[n] # None => block'[n].ok
    BY <1>1, <1>3 DEF IInv, TypeInv, GasInv
  <1>6. ~Own(pool'[nonce'])
    BY <1>1, <1>4 DEF IInv, TypeInv
  <1> QED
    BY <1>4, <1>5, <1>6 DEF GasInv, Own

LEMMA NextGas == ASSUME IInv, GasInv, [Next]_vars PROVE GasInv'
  <1>1. ASSUME readLatest \/ readFails \/ waitFails \/ restart PROVE GasInv'
    <2>1. /\ UNCHANGED <<mined, pool, block, onchain, firstLost>>
          /\ UNCHANGED writerVars \/ (lastSent' = None /\ lastMinedNonce' = -1)
          /\ pc' # "ready"
      BY <1>1 DEF readLatest, readFails, waitFails, restart, skipTick, chainVars
    <2> QED
      BY <2>1, GasSame
  <1>2. ASSUME marketMoves \/ pricingChanges \/ UNCHANGED vars PROVE GasInv'
    <2>1. UNCHANGED <<mined, pool, block, onchain, firstLost, writerVars, pc, nonce, lastSent>>
      BY <1>2 DEF marketMoves, pricingChanges, vars, chainVars, tickVars, writerVars
    <2> QED
      BY <2>1, GasSame
  <1>3. ASSUME operatorSends \/ (\E n \in Nonces : evict(n) /\ UNCHANGED firstLost)
        PROVE  GasInv'
    <2>1. UNCHANGED <<mined, block, onchain, firstLost, writerVars, pc, nonce, lastSent>>
      BY <1>3 DEF operatorSends, evict, tickVars, writerVars
    <2>2. \A n \in Nonces : Own(pool'[n]) => pool'[n] = pool[n]
      <3>1. CASE operatorSends
        <4> DEFINE k == pendingCount
                   x == [nonce |-> k, method |-> "operator", made |-> 0,
                         paired |-> FALSE, fee |-> market, gas |-> Warm]
        <4>1. k \in Nonces /\ pool' = [pool EXCEPT ![k] = x]
          BY <3>1 DEF operatorSends
        <4>2. ~Own(x)
          BY DEF Own, Methods
        <4> HIDE DEF k, x
        <4> QED
          BY <4>1, <4>2 DEF IInv, TypeInv
      <3>2. ASSUME NEW k \in Nonces, evict(k)
            PROVE  \A n \in Nonces : Own(pool'[n]) => pool'[n] = pool[n]
        BY <3>2 DEF evict, Own, IInv, TypeInv
      <3> QED
        BY <1>3, <3>1, <3>2
    <2> QED
      BY <2>1, <2>2, GasSame
  <1>4. CASE evictOwn
    <2>1. lastSent.nonce \in Nonces /\ evict(lastSent.nonce) /\ UNCHANGED firstLost
      BY <1>4 DEF evictOwn, evict, IInv, TypeInv, Tx
    <2> QED
      BY <1>3, <2>1
  <1>5. CASE evictUnknown
    BY <1>3, <1>5 DEF evictUnknown, evict
  <1> QED
    BY <1>1, <1>2, <1>3, <1>4, <1>5, ReadPendingGas, SendGasInv, SendUnansweredGas,
       ReceiptGas, MineGas DEF Next, tick

-----------------------------------------------------------------------------
(* What the writer promises.                                               *)

\* However the two transactions of a tick are delayed, replaced, dropped or
\* forgotten in a restart or with a lost answer, and whoever else uses the key,
\* the anchor on chain is never newer than the sample the quoter multiplies it
\* with (runTick in runner.ts and send in oracle.ts).
THEOREM ReaderCorrect == Spec => []ReaderKeepsUp
  <1>1. IInv => ReaderKeepsUp
    BY DEF IInv
  <1> QED
    BY <1>1, InitIInv, NextIInv, PTL DEF Spec

\* As long as no answer to the first transaction at a nonce was lost, no
\* transaction of the account is mined out of gas, with the pending estimate
\* of a first attempt and the latest estimate of a replacement, however its
\* replacements, restarts and reads fare (send in oracle.ts).
THEOREM GasCorrect == Spec => []EnoughGas
  <1>1. GasInv => EnoughGas
    BY DEF GasInv, EnoughGas
  <1> QED
    BY <1>1, InitIInv, NextIInv, InitGas, NextGas, PTL DEF Spec

=============================================================================
