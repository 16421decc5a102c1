----------------------------- MODULE NttManager -----------------------------
(***************************************************************************)
(* Transfers between the NttManagers of one token on several chains        *)
(* (evm/src/NttManager/NttManager.sol): lock or burn, trim, rate limit or  *)
(* queue, send; receive, rate limit or queue, unlock or mint; complete or  *)
(* cancel what is queued; the owner's limits and pause.                    *)
(*                                                                         *)
(* Attestation is the subject of ManagerBase: here a sent message may be   *)
(* executed by its destination at any time, in any order, at most once.    *)
(* Each manager has the others as peers, with their true decimals, and an  *)
(* enabled transceiver.  The price of a delivery, paid in the native coin, *)
(* is the subject of SpecialDelivery: here a call that sends may find it   *)
(* unpaid, or the transfer's quote expired, and then it does not happen.   *)
(***************************************************************************)
EXTENDS RateLimiter, FiniteSets, FiniteSetsExt

CONSTANTS
    Chain,              \* the chains
    Locking,            \* the chains whose manager locks; the others burn
    tokenDecimals,      \* chain -> decimals of its token
    TransferFee,        \* chain -> what its token keeps of every transfer
    User,               \* accounts; the same names on every chain
    InitialBalance,     \* chain -> account -> tokens at the start
    Amount,             \* chain -> amounts users ask to transfer
    InboundLimit,       \* chain -> the inbound limit its peers are set with
    Limit,              \* chain -> rate limits its owner sets later
    MaxSequence,        \* bound on the transfers started on a chain
    MaxLimitTime        \* the owner changes limits up to this time

ASSUME NttAssumption ==
    /\ IsFiniteSet(Chain) /\ IsFiniteSet(User)
    /\ Locking \subseteq Chain
    /\ tokenDecimals \in [Chain -> Nat]
    /\ TransferFee \in [Chain -> Nat]
    /\ InitialBalance \in [Chain -> [User -> Nat]]
    /\ Amount \in [Chain -> SUBSET Nat]
    /\ MaxSequence \in [Chain -> Nat]
    /\ MaxLimitTime \in Nat

VARIABLES
    balance,        \* chain -> account -> its tokens
    custody,        \* chain -> tokens the manager holds
    messageSequence,\* chain -> the next sequence
    outboundQueue,  \* chain -> queued outbound transfers
    inboundQueue,   \* chain -> queued inbound transfers
    outboundLimit,  \* chain -> its outbound rate limit
    inboundLimit,   \* chain -> source chain -> its inbound rate limit
    sent,           \* the messages handed to the transceivers
    executed,       \* the messages marked executed by their destination
    paused,         \* the chains whose manager is paused
    now,            \* chain -> block.timestamp
    \* History, read by no action:
    cancelled,      \* the transfers <<chain, sequence>> that were cancelled
    paid,           \* the messages whose recipient was paid
    fees            \* what the tokens have kept, in the common unit

tokenVars == <<balance, custody, fees>>
limitVars == <<outboundLimit, inboundLimit>>
vars == <<balance, custody, messageSequence, outboundQueue, inboundQueue,
          outboundLimit, inboundLimit, sent, executed, paused, now,
          cancelled, paid, fees>>

\* A unit fine enough for every chain's amounts.
UnitDecimals == Max({tokenDecimals[c] : c \in Chain} \cup {TRIMMED_DECIMALS})

Value(c, amount) == scale(amount, tokenDecimals[c], UnitDecimals)

Init ==
    /\ balance = InitialBalance
    /\ custody = [c \in Chain |-> 0]
    /\ messageSequence = [c \in Chain |-> 0]
    /\ outboundQueue = [c \in Chain |-> {}]
    /\ inboundQueue = [c \in Chain |-> {}]
    /\ now = [c \in Chain |-> 1]
    \* __NttManager_init leaves no outbound limit; setPeer gives inbound ones.
    /\ outboundLimit = [c \in Chain |-> freshLimit(U64_MAX, 1)]
    /\ inboundLimit = [c \in Chain |-> [s \in Chain |-> freshLimit(InboundLimit[c], 1)]]
    /\ sent = {}
    /\ executed = {}
    /\ paused = {}
    /\ cancelled = {}
    /\ paid = {}
    /\ fees = 0

-----------------------------------------------------------------------------
(* Tokens.                                                                 *)

\* What the manager gets of a transfer (balanceAfter - balanceBefore).
received(c, amount) == amount - TransferFee[c]

\* safeTransferFrom pulls amount from u; what the manager gets it burns,
\* unless it locks.
lockOrBurn(c, u, amount) ==
    /\ amount > 0
    /\ TransferFee[c] <= amount
    /\ amount <= balance[c][u]
    /\ balance' = [balance EXCEPT ![c][u] = @ - amount]
    /\ custody' = [custody EXCEPT ![c] =
                      IF c \in Locking THEN @ + received(c, amount) ELSE @]
    /\ fees' = fees + Value(c, TransferFee[c])

\* The payment does not revert: a mint never does, an unlock needs the tokens.
canMintOrUnlock(c, trimmed) ==
    LET amount == untrim(trimmed, tokenDecimals[c])
    IN  c \in Locking => TransferFee[c] <= amount /\ amount <= custody[c]

mintOrUnlockToRecipient(c, recipient, trimmed) ==
    LET amount == untrim(trimmed, tokenDecimals[c]) IN
    /\ canMintOrUnlock(c, trimmed)
    /\ IF c \in Locking
       THEN /\ custody' = [custody EXCEPT ![c] = @ - amount]
            /\ balance' = [balance EXCEPT ![c][recipient] = @ + amount - TransferFee[c]]
            /\ fees' = fees + Value(c, TransferFee[c])
       ELSE /\ balance' = [balance EXCEPT ![c][recipient] = @ + amount]
            /\ UNCHANGED <<custody, fees>>

-----------------------------------------------------------------------------
(* Outbound transfers.                                                     *)

\* Mutant of trimTransferAmount: dust is not refused.
trimTransferAmount_KeepsDust(c, p, amount) ==
    Fits(trim(amount, tokenDecimals[c], tokenDecimals[p]))

\* The amount can be trimmed and loses nothing by it.
trimTransferAmount(c, p, amount) ==
    LET trimmed == trim(amount, tokenDecimals[c], tokenDecimals[p]) IN
    /\ Fits(trimmed)
    /\ untrim(trimmed, tokenDecimals[c]) = amount

\* _transferEntryPoint: tokens are taken, then the amount is sent, queued or
\* (without shouldQueue) refused.  A queued transfer keeps its instructions:
\* with skip, no transceiver is to have it relayed.
transfer(c, u, p, recipient, amount, shouldQueue, skip) ==
    LET trimmed == trim(received(c, amount), tokenDecimals[c], tokenDecimals[p])
        internal == shift(trimmed, tokenDecimals[c])
    IN  /\ c \notin paused
        /\ messageSequence[c] < MaxSequence[c]
        /\ lockOrBurn(c, u, amount)
        /\ trimTransferAmount(c, p, received(c, amount))
        /\ Fits(internal)
        /\ messageSequence' = [messageSequence EXCEPT ![c] = @ + 1]
        /\ IF isAmountRateLimited(outboundLimit[c], internal.amount, now[c])
           THEN /\ shouldQueue
                /\ outboundQueue' = [outboundQueue EXCEPT ![c] = @ \cup
                      {[sequence |-> messageSequence[c], amount |-> trimmed,
                        recipientChain |-> p, recipient |-> recipient,
                        sender |-> u, skip |-> skip, txTimestamp |-> now[c]]}]
                /\ UNCHANGED <<limitVars, sent>>
           ELSE /\ outboundLimit' = [outboundLimit EXCEPT ![c] =
                                        consumeAmount(@, internal.amount, now[c])]
                /\ inboundLimit' = [inboundLimit EXCEPT ![c][p] =
                                        backfillAmount(@, internal.amount, now[c])]
                /\ sent' = sent \cup
                      {[from |-> c, to |-> p, sequence |-> messageSequence[c],
                        amount |-> trimmed, recipient |-> recipient, sender |-> u]}
                /\ UNCHANGED outboundQueue
        /\ UNCHANGED <<inboundQueue, executed, paused, now, cancelled, paid>>

\* The delay of a queued transfer has passed.
delayElapsed(c, q) == now[c] - q.txTimestamp >= rateLimitDuration

\* Mutants of completeOutboundQueuedTransfer: the rate limit is checked again;
\* the entry stays in the queue.
completeOutboundQueuedTransfer_ChecksLimit(c, q) ==
    /\ c \notin paused
    /\ delayElapsed(c, q)
    /\ ~isAmountRateLimited(outboundLimit[c],
                            shift(q.amount, tokenDecimals[c]).amount, now[c])
    /\ outboundQueue' = [outboundQueue EXCEPT ![c] = @ \ {q}]
    /\ sent' = sent \cup
          {[from |-> c, to |-> q.recipientChain, sequence |-> q.sequence,
            amount |-> q.amount, recipient |-> q.recipient, sender |-> q.sender]}
    /\ UNCHANGED <<tokenVars, messageSequence, inboundQueue, limitVars,
                   executed, paused, now, cancelled, paid>>

completeOutboundQueuedTransfer_KeepsEntry(c, q) ==
    /\ c \notin paused
    /\ delayElapsed(c, q)
    /\ sent' = sent \cup
          {[from |-> c, to |-> q.recipientChain, sequence |-> q.sequence,
            amount |-> q.amount, recipient |-> q.recipient, sender |-> q.sender]}
    /\ UNCHANGED <<tokenVars, messageSequence, outboundQueue, inboundQueue,
                   limitVars, executed, paused, now, cancelled, paid>>

\* Anybody may complete a queued transfer; no limit is consumed.  Unless it
\* skips relaying the call fails when _prepareForTransfer does: its delivery
\* has no price, or its quote has expired or is of another price.
completeOutboundQueuedTransfer(c, q) ==
    /\ c \notin paused
    /\ delayElapsed(c, q)
    /\ outboundQueue' = [outboundQueue EXCEPT ![c] = @ \ {q}]
    /\ sent' = sent \cup
          {[from |-> c, to |-> q.recipientChain, sequence |-> q.sequence,
            amount |-> q.amount, recipient |-> q.recipient, sender |-> q.sender]}
    /\ UNCHANGED <<tokenVars, messageSequence, inboundQueue, limitVars,
                   executed, paused, now, cancelled, paid>>

\* Mutant of cancelOutboundQueuedTransfer: the entry stays in the queue.
cancelOutboundQueuedTransfer_KeepsEntry(c, u, q) ==
    /\ c \notin paused
    /\ q.sender = u
    /\ mintOrUnlockToRecipient(c, u, q.amount)
    /\ cancelled' = cancelled \cup {<<c, q.sequence>>}
    /\ UNCHANGED <<messageSequence, outboundQueue, inboundQueue, limitVars,
                   sent, executed, paused, now, paid>>

\* Its sender may cancel it instead, at any time, and gets the amount back.
cancelOutboundQueuedTransfer(c, u, q) ==
    /\ c \notin paused
    /\ q.sender = u
    /\ outboundQueue' = [outboundQueue EXCEPT ![c] = @ \ {q}]
    /\ mintOrUnlockToRecipient(c, u, q.amount)
    /\ cancelled' = cancelled \cup {<<c, q.sequence>>}
    /\ UNCHANGED <<messageSequence, inboundQueue, limitVars, sent, executed,
                   paused, now, paid>>

-----------------------------------------------------------------------------
(* Inbound transfers.                                                      *)

\* The amount of a message in the decimals of the destination's limits.
nativeTransferAmount(m) ==
    LET d == tokenDecimals[m.to] IN trim(untrim(m.amount, d), d, d)

inboundRateLimited(c, m) ==
    isAmountRateLimited(inboundLimit[c][m.from], nativeTransferAmount(m).amount, now[c])

\* executeMsg does not revert.
executable(c, m) ==
    /\ c \notin paused
    /\ m.to = c
    /\ m \notin executed
    /\ Fits(nativeTransferAmount(m))
    /\ inboundRateLimited(c, m) \/ canMintOrUnlock(c, nativeTransferAmount(m))

\* executeMsg on an approved message: pay the recipient, or queue the payment.
executeMsg(c, m) ==
    LET amount == nativeTransferAmount(m) IN
    /\ executable(c, m)
    /\ executed' = executed \cup {m}
    /\ IF inboundRateLimited(c, m)
       THEN /\ inboundQueue' = [inboundQueue EXCEPT ![c] = @ \cup
                  {[message |-> m, amount |-> amount, recipient |-> m.recipient,
                    txTimestamp |-> now[c]]}]
            /\ UNCHANGED <<limitVars, tokenVars, paid>>
       ELSE /\ inboundLimit' = [inboundLimit EXCEPT ![c][m.from] =
                                    consumeAmount(@, amount.amount, now[c])]
            /\ outboundLimit' = [outboundLimit EXCEPT ![c] =
                                    backfillAmount(@, amount.amount, now[c])]
            /\ mintOrUnlockToRecipient(c, m.recipient, amount)
            /\ paid' = paid \cup {m}
            /\ UNCHANGED inboundQueue
    /\ UNCHANGED <<messageSequence, outboundQueue, sent, paused, now, cancelled>>

\* Mutant of completeInboundQueuedTransfer: the rate limit is checked again.
completeInboundQueuedTransfer_ChecksLimit(c, q) ==
    /\ c \notin paused
    /\ delayElapsed(c, q)
    /\ ~isAmountRateLimited(inboundLimit[c][q.message.from], q.amount.amount, now[c])
    /\ inboundQueue' = [inboundQueue EXCEPT ![c] = @ \ {q}]
    /\ mintOrUnlockToRecipient(c, q.recipient, q.amount)
    /\ paid' = paid \cup {q.message}
    /\ UNCHANGED <<messageSequence, outboundQueue, limitVars, sent, executed,
                   paused, now, cancelled>>

\* completeInboundQueuedTransfer does not revert.
completable(c, q) ==
    c \notin paused /\ delayElapsed(c, q) /\ canMintOrUnlock(c, q.amount)

\* Anybody may complete a queued payment; no limit is consumed.
completeInboundQueuedTransfer(c, q) ==
    /\ completable(c, q)
    /\ inboundQueue' = [inboundQueue EXCEPT ![c] = @ \ {q}]
    /\ mintOrUnlockToRecipient(c, q.recipient, q.amount)
    /\ paid' = paid \cup {q.message}
    /\ UNCHANGED <<messageSequence, outboundQueue, limitVars, sent, executed,
                   paused, now, cancelled>>

-----------------------------------------------------------------------------
(* The owner, and time.                                                    *)

setOutboundLimit(c, l) ==
    /\ now[c] <= MaxLimitTime
    /\ setLimitSucceeds(outboundLimit[c], l, now[c])
    /\ outboundLimit' = [outboundLimit EXCEPT ![c] = newLimitParams(@, l, now[c])]
    /\ UNCHANGED <<tokenVars, messageSequence, outboundQueue, inboundQueue,
                   inboundLimit, sent, executed, paused, now, cancelled, paid>>

\* setInboundLimit, and setPeer for a peer that stays the same.
setInboundLimit(c, s, l) ==
    /\ now[c] <= MaxLimitTime
    /\ setLimitSucceeds(inboundLimit[c][s], l, now[c])
    /\ inboundLimit' = [inboundLimit EXCEPT ![c][s] = newLimitParams(@, l, now[c])]
    /\ UNCHANGED <<tokenVars, messageSequence, outboundQueue, inboundQueue,
                   outboundLimit, sent, executed, paused, now, cancelled, paid>>

pause(c) ==
    /\ c \notin paused
    /\ paused' = paused \cup {c}
    /\ UNCHANGED <<tokenVars, messageSequence, outboundQueue, inboundQueue,
                   limitVars, sent, executed, now, cancelled, paid>>

unpause(c) ==
    /\ c \in paused
    /\ paused' = paused \ {c}
    /\ UNCHANGED <<tokenVars, messageSequence, outboundQueue, inboundQueue,
                   limitVars, sent, executed, now, cancelled, paid>>

\* A delay of the chain has not passed or a capacity is not full.  Once all
\* have, no operation can tell a later time from this one.
TimeMatters(c) ==
    \E t \in {outboundLimit[c].lastTxTimestamp}
              \cup {inboundLimit[c][s].lastTxTimestamp : s \in Chain}
              \cup {q.txTimestamp : q \in outboundQueue[c]}
              \cup {q.txTimestamp : q \in inboundQueue[c]} :
        now[c] < t + rateLimitDuration

\* Time passes on one chain; the clocks of two chains are never compared.
tick(c) ==
    /\ TimeMatters(c)
    /\ now' = [now EXCEPT ![c] = @ + 1]
    /\ UNCHANGED <<tokenVars, messageSequence, outboundQueue, inboundQueue,
                   limitVars, sent, executed, paused, cancelled, paid>>

Next ==
    \E c \in Chain :
        \/ \E u, r \in User, p \in Chain \ {c}, a \in Amount[c], q, skip \in BOOLEAN :
              transfer(c, u, p, r, a, q, skip)
        \/ \E q \in outboundQueue[c] :
              \/ completeOutboundQueuedTransfer(c, q)
              \/ \E u \in User : cancelOutboundQueuedTransfer(c, u, q)
        \/ \E m \in sent : executeMsg(c, m)
        \/ \E q \in inboundQueue[c] : completeInboundQueuedTransfer(c, q)
        \/ \E l \in Limit[c] :
              \/ setOutboundLimit(c, l)
              \/ \E s \in Chain \ {c} : setInboundLimit(c, s, l)
        \/ pause(c)
        \/ unpause(c)
        \/ tick(c)

Spec == Init /\ [][Next]_vars

\* Time passes, and somebody keeps trying to execute what was sent and to
\* complete what is queued: both calls are open to everybody.  A call on a
\* paused manager reverts and is tried again, hence strong fairness.  Nothing
\* is assumed of a queued transfer that is to be relayed, whose completion may
\* fail each time.
Fairness ==
    \A c \in Chain :
        /\ WF_vars(tick(c))
        /\ SF_vars(\E m \in sent : executeMsg(c, m))
        /\ SF_vars(\E q \in inboundQueue[c] : completeInboundQueuedTransfer(c, q))
        /\ SF_vars(\E q \in outboundQueue[c] :
                      q.skip /\ completeOutboundQueuedTransfer(c, q))

FairSpec == Spec /\ Fairness

-----------------------------------------------------------------------------
(* Safety.                                                                 *)

\* The tokens users hold on a chain, in the common unit: now, at the start,
\* and now on all the chains.
Circulating(c) == SumFunction([u \in User |-> Value(c, balance[c][u])])

InitiallyHeld(c) == SumFunction([u \in User |-> Value(c, InitialBalance[c][u])])

Holdings == SumFunction([c \in Chain |-> Circulating(c)])

\* The value of queued transfers or of messages.
ValueOf(S) == SumFunction([e \in S |-> untrim(e.amount, UnitDecimals)])

\* The value on its way: queued at the source, sent, or queued at the
\* destination.
Queued == SumFunction([c \in Chain |-> ValueOf(outboundQueue[c]) + ValueOf(inboundQueue[c])])

Pending == Queued + ValueOf(sent \ executed)

InitialSupply == SumFunction([c \in Chain |-> InitiallyHeld(c)])

\* INV-001: the value in the hands of users and on its way between chains is
\* what there was at the start, less what the tokens kept of transfers:
\* through trimming, queues, cancellations and replays nothing is created and
\* nothing is lost.
SupplyConserved ==
    Holdings + Pending + fees = InitialSupply

\* What the locking managers hold, and what circulates on the other chains
\* beyond what they started with.
Locked == SumFunction([c \in Locking |-> Value(c, custody[c])])

Minted == SumFunction([c \in Chain \ Locking |-> Circulating(c) - InitiallyHeld(c)])

\* What the locking managers hold covers what circulates on the other chains
\* (beyond what they started with) and what is on its way: nothing is minted
\* or promised that was not locked or burnt first.
FullyBacked == Locked >= Minted + Pending

\* A message that was sent can be executed by a destination that is not
\* paused, a queued payment can be made, and a queued transfer can be refunded:
\* none reverts for want of 64 bits or of custody.
NothingGetsStuck ==
    /\ \A m \in sent \ executed : m.to \notin paused => executable(m.to, m)
    /\ \A c \in Chain \ paused : \A q \in inboundQueue[c] :
          delayElapsed(c, q) => completable(c, q)
    /\ \A c \in Chain : \A q \in outboundQueue[c] : canMintOrUnlock(c, q.amount)

\* A deployment for which NothingGetsStuck is claimed.  One chain locks, and
\* the others start empty; the supply fits into 64 bits in the decimals of
\* every chain's limits; what the hub's token keeps of a payment is not more
\* than any transfer brings.
HubAndSpokes ==
    /\ \E hub \in Chain : Locking = {hub}
    /\ \A c \in Chain \ Locking : \A u \in User : InitialBalance[c][u] = 0
    /\ \A c \in Chain :
          InitialSupply <= scale(U64_MAX, minDecimals(TRIMMED_DECIMALS, tokenDecimals[c]),
                                 UnitDecimals)
    /\ \A hub \in Locking, c \in Chain : \A a \in Amount[c] :
          TransferFee[c] <= a => Value(hub, TransferFee[hub]) <= Value(c, received(c, a))

-----------------------------------------------------------------------------
(* Refinement of the abstract bridge.                                      *)

Is(m, c, n) == m.from = c /\ m.sequence = n

\* A transfer is a source chain with a sequence.
Transfer == UNION {{c} \X (0 .. MaxSequence[c] - 1) : c \in Chain}

QueuedOut(x) == {q \in outboundQueue[x[1]] : q.sequence = x[2]}

Sent(x) == {m \in sent : Is(m, x[1], x[2])}

phaseOf(x) ==
    IF QueuedOut(x) # {} THEN "queued"
    ELSE IF x \in cancelled THEN "refunded"
    ELSE IF Sent(x) \cap paid # {} THEN "paid"
    ELSE IF Sent(x) \cap executed # {} THEN "due"
    ELSE IF Sent(x) # {} THEN "sent" ELSE "none"

\* The value of a transfer that is queued, sent or due, in the common unit.
inFlightOf(x) == ValueOf(QueuedOut(x) \cup (Sent(x) \ paid))

Abstract == INSTANCE Bridge WITH
    phase <- [x \in Transfer |-> phaseOf(x)],
    inFlight <- [x \in Transfer |-> inFlightOf(x)],
    holdings <- Holdings + fees

\* INV-001, INV-002, INV-005, INV-029: each transfer takes its value from its
\* sender once, and is then refunded, or sent and paid, once and with exactly
\* the value that was taken, through the scaling of decimals, both queues,
\* cancellation and replays.  (What a token keeps of a transfer counts as
\* held.)
ImplementsBridge == Abstract!Spec

-----------------------------------------------------------------------------
(* Liveness.                                                               *)

NotPausedForever == []<>(paused = {})

\* A transfer that was sent is paid, whether or not its payment is queued, as
\* long as no manager stays paused for ever.
SentIsPaid ==
    NotPausedForever =>
        \A c \in Chain : \A n \in 0 .. MaxSequence[c] - 1 :
            (\E m \in sent : Is(m, c, n)) ~> (\E m \in paid : Is(m, c, n))

\* A queued outbound transfer that skips relaying does not stay queued: it is
\* sent or cancelled.  One that is to be relayed with a signed quote may find
\* its quote expired when its delay is over; then it can only be cancelled.
QueuedIsSentOrCancelled ==
    NotPausedForever =>
        \A c \in Chain : \A n \in 0 .. MaxSequence[c] - 1 :
            (\E q \in outboundQueue[c] : q.sequence = n /\ q.skip)
              ~> (<<c, n>> \in cancelled \/ \E m \in sent : Is(m, c, n))

=============================================================================
