----------------------------- MODULE RelayerBot -----------------------------
(***************************************************************************)
(* The relayer bot (relayer-bot/src): a listener that turns source events  *)
(* into rows and queue messages, workers that deliver them, a cron that    *)
(* re-drives what is stale, the wallet pool's nonces and the destination   *)
(* chain.                                                                  *)
(*                                                                         *)
(* The processes share the transactions table and the queue.  A worker     *)
(* holds a lock per event; the cron does not, and both act on a row they   *)
(* read earlier.  A step is what happens between two awaits whose results  *)
(* matter: one SQL statement or transaction, one call to a node, one queue *)
(* operation.  Each event has a partition of its own, so its partition     *)
(* lock and its message lock are one.  Timeouts may expire at any time.    *)
(***************************************************************************)
EXTENDS Transactions, Sequences, FiniteSets

CONSTANTS
    Worker,     \* worker processes
    MaxCopies,  \* bound on the copies of one message in the queue
    MaxFaults,  \* bound on the faults of a behaviour
    LocksFail   \* whether a lock session may die under its holder

ASSUME RelayerAssumption ==
    MaxCopies \in Nat \ {0} /\ MaxFaults \in Nat /\ LocksFail \in BOOLEAN

VARIABLES
    rows,       \* the transactions table: event -> row
    queue,      \* message -> copies in the stream, its pending list or the delay set
    job,        \* worker -> the delivery it is processing
    unlocked,   \* workers whose lock session died during their job
    cron,       \* the row the cron is processing
    mined,      \* the wallet's mined transactions, in order of nonce, with outcomes
    pool,       \* nonce -> the transaction in the destination's mempool, if any
    consumed,   \* events whose VAA the destination has consumed
    issued,     \* every transaction a node accepted
    faults,     \* faults so far
    lockLost    \* history: a lock session has died

chainVars == <<mined, pool, consumed, issued>>
faultVars == <<faults, lockLost>>
vars == <<rows, queue, job, unlocked, cron, mined, pool, consumed,
          issued, faults, lockLost>>

\* replace is the message's replace_nonce.
Message == [event : Event, replace : Nonce \cup {NoNonce}]

Fresh(e) == [event |-> e, replace |-> NoNonce]

\* A worker's job goes from "prepare" (the lock is held and the row read) through
\* "reserve" (the chain's nonce is read), "broadcast" (a nonce is reserved) and
\* "record" (the node has accepted the transaction) to "settle"; "bury" is a
\* failure whose retries are used up.  The cron's phases are "recover", "check",
\* "publish" and "bury".
Idle == [phase |-> "idle"]

Init ==
    /\ rows = [e \in Event |-> NoRow]
    /\ queue = [m \in Message |-> 0]
    /\ job = [w \in Worker |-> Idle]
    /\ unlocked = {}
    /\ cron = Idle
    /\ mined = << >>
    /\ pool = [n \in Nonce |-> {}]
    /\ consumed = {}
    /\ issued = {}
    /\ faults = 0
    /\ lockLost = FALSE

\* Something goes wrong that the bot has to live with.
Fault == faults < MaxFaults /\ faults' = faults + 1 /\ UNCHANGED lockLost

published(q, m) == [q EXCEPT ![m] = IF @ < MaxCopies THEN @ + 1 ELSE @]

update(e, row) == rows' = [rows EXCEPT ![e] = row]

-----------------------------------------------------------------------------
(* The listener.                                                           *)

\* The row and the cursor are committed in one transaction, and the message is
\* published after it; a listener that dies in between does not publish it.
scanChainOnce(e) ==
    /\ rows[e].status = "none"
    /\ update(e, insertPending(rows[e]))
    /\ \/ queue' = published(queue, Fresh(e)) /\ UNCHANGED faultVars
       \/ Fault /\ UNCHANGED queue
    /\ UNCHANGED <<job, unlocked, cron, chainVars>>

\* A listener that starts publishes every pending row with no relay transaction.
republishPending ==
    /\ Fault
    /\ queue' = [m \in Message |->
          IF /\ m.replace = NoNonce
             /\ rows[m.event].status = "pending"
             /\ rows[m.event].hash = {}
          THEN published(queue, m)[m] ELSE queue[m]]
    /\ UNCHANGED <<rows, job, unlocked, cron, chainVars>>

-----------------------------------------------------------------------------
(* A worker's delivery.                                                    *)

EventOf(w) == job[w].msg.event

Locked(e) == \E w \in Worker \ unlocked : job[w] # Idle /\ EventOf(w) = e

step(w, j) == job' = [job EXCEPT ![w] = j]

settleWith(w, ack) == step(w, [phase |-> "settle", msg |-> job[w].msg, ack |-> ack])

buryNext(w) == step(w, [phase |-> "bury", msg |-> job[w].msg])

skip(rec, m) ==
    \/ rec.status \in Terminal
    \/ rec.status = "submitted" /\ m.replace = NoNonce

\* The message asks to rebroadcast a nonce the row no longer holds.
staleReplace(rec, m) == m.replace # NoNonce /\ rec.nonce # m.replace

\* Mutant of resubmitNonce: a submitting row takes a fresh nonce.
resubmitNonce_FreshAfterCrash(rec, m) == m.replace

\* A row that is submitting, or a message that names a nonce, has a committed
\* nonce that every attempt must reuse.
resubmitNonce(rec, m) ==
    IF m.replace # NoNonce THEN m.replace
    ELSE IF rec.status = "submitting" THEN rec.nonce ELSE NoNonce

\* Take a message and read its event's row.
take(w, m) ==
    LET rec == insertPending(rows[m.event]) IN
    /\ job[w] = Idle
    /\ queue[m] > 0
    /\ update(m.event, rec)
    /\ step(w, IF skip(rec, m) \/ staleReplace(rec, m)
               THEN [phase |-> "settle", msg |-> m, ack |-> TRUE]
               ELSE [phase |-> "prepare", msg |-> m, resubmit |-> resubmitNonce(rec, m)])
    /\ UNCHANGED <<queue, cron, chainVars>>

\* The lock of the message's event is free.
handleDelivery(w, m) ==
    /\ ~Locked(m.event)
    /\ take(w, m)
    /\ UNCHANGED <<unlocked, faultVars>>

\* The session that held the lock has died, which its worker does not notice
\* before it has finished, and w takes the lock.  A session that dies without
\* anybody taking the lock changes nothing.
handleUnlocked(w, m) ==
    /\ LocksFail
    /\ faults < MaxFaults
    /\ Locked(m.event)
    /\ take(w, m)
    /\ unlocked' = unlocked \cup {v \in Worker : job[v] # Idle /\ EventOf(v) = m.event}
    /\ faults' = faults + 1
    /\ lockLost' = TRUE

\* handleSubmittingFailure: keep the nonce, re-drive or give up.
handleSubmittingFailure(w, err) ==
    LET row == rows[EventOf(w)] IN
    \/ err = "permanent" /\ buryNext(w) /\ UNCHANGED rows
    \/ err = "defer" /\ settleWith(w, FALSE) /\ UNCHANGED rows
    \/ /\ err = "retriable"
       /\ update(EventOf(w), incrementRetry(row))
       /\ IF ~canIncrementRetry(row) THEN settleWith(w, TRUE)
          ELSE IF exhausted(incrementRetry(row)) THEN buryNext(w)
          ELSE settleWith(w, FALSE)

\* handleDeliveryFailure: no nonce is committed.  A defer that has lasted for
\* vaaTimeoutMs is a "timeout".
handleDeliveryFailure(w, err) ==
    LET row == rows[EventOf(w)] IN
    \/ err \in {"busy", "defer"} /\ settleWith(w, FALSE) /\ UNCHANGED rows
    \/ /\ err \in {"timeout", "permanent"}
       /\ update(EventOf(w), markFailed(row))
       /\ buryNext(w)
    \/ /\ err = "retriable"
       /\ update(EventOf(w), markFailed(row))
       /\ IF canMarkFailed(row) /\ ~exhausted(markFailed(row))
          THEN settleWith(w, FALSE) ELSE buryNext(w)

routePreCommitFailure(w, err) ==
    IF job[w].phase = "prepare" /\ job[w].resubmit # NoNonce
    THEN handleSubmittingFailure(w, err)
    ELSE handleDeliveryFailure(w, err)

\* The wallet's next nonce as the node reports it, mempool included.
pendingNonce ==
    CHOOSE n \in Len(mined) .. MaxNonce + 1 :
        /\ n <= MaxNonce => pool[n] = {}
        /\ \A k \in Len(mined) .. n - 1 : pool[k] # {}

\* The VAA was consumed: confirmed.
prepareConsumed(w) ==
    /\ job[w].phase = "prepare"
    /\ EventOf(w) \in consumed
    /\ update(EventOf(w), markConfirmed(rows[EventOf(w)]))
    /\ settleWith(w, TRUE)
    /\ UNCHANGED <<queue, unlocked, cron, chainVars, faultVars>>

\* Ready to send.  A fresh send reads the chain's nonce before it opens the
\* transaction that reserves one.
prepareReady(w) ==
    /\ job[w].phase = "prepare"
    /\ EventOf(w) \notin consumed
    /\ step(w, IF job[w].resubmit # NoNonce
               THEN [phase |-> "broadcast", msg |-> job[w].msg, nonce |-> job[w].resubmit]
               ELSE [phase |-> "reserve", msg |-> job[w].msg, chainNonce |-> pendingNonce])
    /\ UNCHANGED <<rows, queue, unlocked, cron, chainVars, faultVars>>

prepareFails(w, err) ==
    /\ Fault
    /\ job[w].phase = "prepare"
    /\ routePreCommitFailure(w, err)
    /\ UNCHANGED <<queue, unlocked, cron, chainVars>>

CountedRows == {e \in Event : /\ rows[e].status \in {"submitting", "submitted", "confirmed"}
                              /\ rows[e].nonce # NoNonce}

dbNext == IF CountedRows = {} THEN 0
          ELSE 1 + (CHOOSE n \in {rows[e].nonce : e \in CountedRows} :
                       \A e \in CountedRows : rows[e].nonce <= n)

\* Mutant of reserveNonce: the gap is filled whoever holds it.
reserveNonce_GapFillAlways(chainNonce) ==
    IF chainNonce < dbNext THEN chainNonce ELSE dbNext

reserveNonce(chainNonce) ==
    IF chainNonce < dbNext /\ \A e \in CountedRows : rows[e].nonce # chainNonce
    THEN chainNonce
    ELSE IF chainNonce < dbNext THEN dbNext ELSE chainNonce

\* Reserve a nonce and commit `submitting` in one transaction.
reserve(w) ==
    /\ job[w].phase = "reserve"
    /\ canMarkSubmitting(rows[EventOf(w)])
    /\ reserveNonce(job[w].chainNonce) \in Nonce
    /\ update(EventOf(w), markSubmitting(rows[EventOf(w)], reserveNonce(job[w].chainNonce)))
    /\ step(w, [phase |-> "broadcast", msg |-> job[w].msg,
                nonce |-> reserveNonce(job[w].chainNonce)])
    /\ UNCHANGED <<queue, unlocked, cron, chainVars, faultVars>>

\* The row was changed meanwhile: markSubmitting throws and reserves nothing.
reserveRefused(w) ==
    /\ job[w].phase = "reserve"
    /\ ~canMarkSubmitting(rows[EventOf(w)])
    /\ routePreCommitFailure(w, "retriable")
    /\ UNCHANGED <<queue, unlocked, cron, chainVars, faultVars>>

\* Every wallet lock is held.
reserveBusy(w) ==
    /\ Fault
    /\ job[w].phase = "reserve"
    /\ routePreCommitFailure(w, "busy")
    /\ UNCHANGED <<queue, unlocked, cron, chainVars>>

nextTx(e, n) ==
    [event |-> e, nonce |-> n,
     copy |-> 1 + Cardinality({tx \in issued : tx.event = e /\ tx.nonce = n})]

\* A node accepts the transaction, in place of one with the same nonce.
accept(w) ==
    LET tx == nextTx(EventOf(w), job[w].nonce) IN
    /\ job[w].nonce >= Len(mined)
    /\ tx.copy <= MaxSends
    /\ pool' = [pool EXCEPT ![job[w].nonce] = {tx}]
    /\ issued' = issued \cup {tx}

broadcast(w) ==
    /\ job[w].phase = "broadcast"
    /\ accept(w)
    /\ step(w, [phase |-> "record", msg |-> job[w].msg,
                tx |-> nextTx(EventOf(w), job[w].nonce)])
    /\ UNCHANGED <<rows, queue, unlocked, cron, mined, consumed, faultVars>>

\* The nonce has been mined: "nonce too low" is a defer.
broadcastTooLow(w) ==
    /\ job[w].phase = "broadcast"
    /\ job[w].nonce < Len(mined)
    /\ handleSubmittingFailure(w, "defer")
    /\ UNCHANGED <<queue, unlocked, cron, chainVars, faultVars>>

\* The call fails without effect, or its answer is lost after the node has
\* accepted the transaction.
broadcastFails(w, err) ==
    /\ Fault
    /\ job[w].phase = "broadcast"
    /\ \/ UNCHANGED <<pool, issued>>
       \/ err = "defer" /\ accept(w)
    /\ handleSubmittingFailure(w, err)
    /\ UNCHANGED <<queue, unlocked, cron, mined, consumed>>

\* Record the transaction; a row that became terminal meanwhile is only
\* reported.
recordSubmitted(w) ==
    /\ job[w].phase = "record"
    /\ update(EventOf(w), markSubmitted(rows[EventOf(w)], job[w].tx))
    /\ settleWith(w, TRUE)
    /\ UNCHANGED <<queue, unlocked, cron, chainVars, faultVars>>

bury(w) ==
    /\ job[w].phase = "bury"
    /\ update(EventOf(w), markDeadLetter(rows[EventOf(w)]))
    /\ settleWith(w, TRUE)
    /\ UNCHANGED <<queue, unlocked, cron, chainVars, faultVars>>

\* Ack (or move to the dead letter queue), or put back after a delay.
settle(w) ==
    /\ job[w].phase = "settle"
    /\ queue' = [queue EXCEPT ![job[w].msg] = IF job[w].ack /\ @ > 0 THEN @ - 1 ELSE @]
    /\ step(w, Idle)
    /\ unlocked' = unlocked \ {w}
    /\ UNCHANGED <<rows, cron, chainVars, faultVars>>

\* A worker dies: its message is reclaimed later, its lock is freed.
crash(w) ==
    /\ Fault
    /\ job[w] # Idle
    /\ step(w, Idle)
    /\ unlocked' = unlocked \ {w}
    /\ UNCHANGED <<rows, queue, cron, chainVars>>

-----------------------------------------------------------------------------
(* The cron.                                                               *)

cronPublishNext(e, nonce) ==
    cron' = [phase |-> "publish", msg |-> [event |-> e, replace |-> nonce]]

cronBuryNext(e) == cron' = [phase |-> "bury", event |-> e]

retryFresh(e) ==
    /\ update(e, markFailed(rows[e]))
    /\ IF canMarkFailed(rows[e]) /\ ~exhausted(markFailed(rows[e]))
       THEN cronPublishNext(e, NoNonce) ELSE cronBuryNext(e)

\* The nonce is the one the cron read; a submitting or submitted row has one.
resubmit(e, nonce) ==
    /\ update(e, incrementRetry(rows[e]))
    /\ IF ~canIncrementRetry(rows[e]) THEN cron' = Idle
       ELSE IF exhausted(incrementRetry(rows[e])) THEN cronBuryNext(e)
       ELSE cronPublishNext(e, nonce)

\* Mutant of selectStale: failed rows are not published again.
selectStale_PendingOnly(e) ==
    LET rec == rows[e] IN
    /\ cron = Idle
    /\ \/ /\ rec.status = "pending"
          /\ rec.hash = {}
          /\ cronPublishNext(e, NoNonce)
       \/ /\ rec.status = "submitting"
          /\ cron' = [phase |-> "recover", event |-> e, nonce |-> rec.nonce]
       \/ /\ rec.status = "submitted"
          /\ cron' = [phase |-> "check", event |-> e, nonce |-> rec.nonce, hash |-> rec.hash]
    /\ UNCHANGED <<rows, queue, job, unlocked, chainVars, faultVars>>

\* Select a row that was not touched for the timeout.  A pending or failed one
\* has lost its message and is published again.
selectStale(e) ==
    LET rec == rows[e] IN
    /\ cron = Idle
    /\ \/ /\ rec.status \in {"pending", "failed"}
          /\ ~(rec.status = "pending" /\ rec.hash # {})
          /\ cronPublishNext(e, NoNonce)
       \/ /\ rec.status = "submitting"
          /\ cron' = [phase |-> "recover", event |-> e, nonce |-> rec.nonce]
       \/ /\ rec.status = "submitted"
          /\ cron' = [phase |-> "check", event |-> e, nonce |-> rec.nonce, hash |-> rec.hash]
    /\ UNCHANGED <<rows, queue, job, unlocked, chainVars, faultVars>>

recoverSubmitting ==
    /\ cron.phase = "recover"
    /\ resubmit(cron.event, cron.nonce)
    /\ UNCHANGED <<queue, job, unlocked, chainVars, faultVars>>

ReceiptsOf(txs) == {i \in DOMAIN mined : mined[i].tx \in txs}

\* No receipt: resubmit if the node does not know the transaction or it has
\* been pending for very long.
checkNoReceipt ==
    LET hash == cron.hash
        known == \E n \in Nonce : pool[n] # {} /\ pool[n] \subseteq hash
    IN  /\ cron.phase = "check"
        /\ ReceiptsOf(hash) = {}
        /\ \/ resubmit(cron.event, cron.nonce)
           \/ known /\ cron' = Idle /\ UNCHANGED rows
        /\ UNCHANGED <<queue, job, unlocked, chainVars, faultVars>>

\* Mutant of checkReceipt: any mined transaction confirms the row.
checkReceipt_IgnoresStatus ==
    /\ cron.phase = "check"
    /\ \E i \in ReceiptsOf(cron.hash) :
          /\ update(cron.event, markConfirmed(rows[cron.event]))
          /\ cron' = Idle
    /\ UNCHANGED <<queue, job, unlocked, chainVars, faultVars>>

checkReceipt ==
    LET e == cron.event IN
    /\ cron.phase = "check"
    /\ \E i \in ReceiptsOf(cron.hash) :
          \/ /\ mined[i].outcome = "success"
             /\ update(e, markConfirmed(rows[e]))
             /\ cron' = Idle
          \/ mined[i].outcome = "outOfGas" /\ retryFresh(e)
          \/ /\ mined[i].outcome = "reverted"
             /\ update(e, markDeadLetter(rows[e]))
             /\ cron' = Idle
    /\ UNCHANGED <<queue, job, unlocked, chainVars, faultVars>>

cronPublish ==
    /\ cron.phase = "publish"
    /\ queue' = published(queue, cron.msg)
    /\ cron' = Idle
    /\ UNCHANGED <<rows, job, unlocked, chainVars, faultVars>>

cronBury ==
    /\ cron.phase = "bury"
    /\ update(cron.event, markDeadLetter(rows[cron.event]))
    /\ cron' = Idle
    /\ UNCHANGED <<queue, job, unlocked, chainVars, faultVars>>

cronCrash ==
    /\ Fault
    /\ cron # Idle
    /\ cron' = Idle
    /\ UNCHANGED <<rows, queue, job, unlocked, chainVars>>

-----------------------------------------------------------------------------
(* The environment: the destination chain and the queue's store.           *)

NextToMine == {tx \in issued : tx.nonce = Len(mined) /\ pool[tx.nonce] = {tx}}

mineWith(tx, outcome) ==
    /\ mined' = Append(mined, [tx |-> tx, outcome |-> outcome])
    /\ pool' = [pool EXCEPT ![tx.nonce] = {}]
    /\ UNCHANGED <<rows, queue, job, unlocked, cron, issued>>

\* The delivery succeeds unless the VAA was consumed before.
mine(tx) ==
    /\ mineWith(tx, IF tx.event \in consumed THEN "reverted" ELSE "success")
    /\ consumed' = consumed \cup {tx.event}
    /\ UNCHANGED faultVars

mineReverts(tx, outcome) ==
    /\ Fault
    /\ tx.event \notin consumed
    /\ mineWith(tx, outcome)
    /\ UNCHANGED consumed

\* The mempool evicts a transaction.
drop(n) ==
    /\ Fault
    /\ pool[n] # {}
    /\ pool' = [pool EXCEPT ![n] = {}]
    /\ UNCHANGED <<rows, queue, job, unlocked, cron, mined, consumed, issued>>

\* Somebody else delivers the VAA: receiveMessage is open to everybody.
deliverElsewhere(e) ==
    /\ Fault
    /\ rows[e].status # "none"
    /\ e \notin consumed
    /\ consumed' = consumed \cup {e}
    /\ UNCHANGED <<rows, queue, job, unlocked, cron, mined, pool, issued>>

\* Redis loses a message.
loseMessage(m) ==
    /\ Fault
    /\ queue[m] > 0
    /\ queue' = [queue EXCEPT ![m] = @ - 1]
    /\ UNCHANGED <<rows, job, unlocked, cron, chainVars>>

-----------------------------------------------------------------------------
WorkerStep(w) ==
    \/ prepareConsumed(w)
    \/ prepareReady(w)
    \/ reserve(w)
    \/ reserveRefused(w)
    \/ broadcast(w)
    \/ broadcastTooLow(w)
    \/ recordSubmitted(w)
    \/ bury(w)
    \/ settle(w)

CronStep ==
    \/ recoverSubmitting
    \/ checkNoReceipt
    \/ checkReceipt
    \/ cronPublish
    \/ cronBury

Faulty ==
    \/ republishPending
    \/ \E w \in Worker :
          \/ \E err \in {"defer", "timeout", "retriable", "permanent"} : prepareFails(w, err)
          \/ reserveBusy(w)
          \/ \E err \in {"defer", "retriable", "permanent"} : broadcastFails(w, err)
          \/ crash(w)
          \/ \E m \in Message : handleUnlocked(w, m)
    \/ cronCrash
    \/ \E tx \in NextToMine : \E o \in {"outOfGas", "reverted"} : mineReverts(tx, o)
    \/ \E n \in Nonce : drop(n)
    \/ \E e \in Event : deliverElsewhere(e)
    \/ \E m \in Message : loseMessage(m)

Next ==
    \/ \E e \in Event : scanChainOnce(e) \/ selectStale(e)
    \/ \E w \in Worker : WorkerStep(w) \/ \E m \in Message : handleDelivery(w, m)
    \/ CronStep
    \/ \E tx \in NextToMine : mine(tx)
    \/ Faulty

Spec == Init /\ [][Next]_vars

\* No message of the event is queued or being handled.  While one is, every
\* defer touches the row, so that the cron may never find it stale.
Abandoned(e) ==
    /\ \A m \in Message : m.event = e => queue[m] = 0
    /\ \A w \in Worker : job[w] # Idle => EventOf(w) # e

\* Processes run, streams are read in order, a valid transaction is mined
\* eventually and the cron, which takes the oldest rows first, finds every row
\* that stays abandoned.  Faults are never assumed.
Fairness ==
    /\ \A w \in Worker : WF_vars(WorkerStep(w))
    /\ \A m \in Message : SF_vars(\E w \in Worker : handleDelivery(w, m))
    /\ WF_vars(CronStep)
    /\ \A e \in Event : SF_vars(Abandoned(e) /\ selectStale(e))
    /\ WF_vars(\E tx \in NextToMine : mine(tx))

FairSpec == Spec /\ Fairness

-----------------------------------------------------------------------------
(* Safety.                                                                 *)

\* The comments of markConfirmed and markDeadLetter: a terminal row is never
\* changed again, although the cron and a worker finish it concurrently on
\* what they read before ("`confirmed` is terminal and must NEVER be
\* clobbered").
TerminalIsFinal ==
    [][\A e \in Event : rows[e].status \in Terminal => rows'[e] = rows[e]]_vars

\* A row is confirmed only when its VAA has been consumed.
ConfirmedIsDelivered ==
    \A e \in Event : rows[e].status = "confirmed" => e \in consumed

\* The comment of reserveNonce: "a reserved-but-not-yet-broadcast nonce is
\* never handed out twice".  Rows whose transaction may still have to be sent
\* hold different nonces, unless a lock session has died under its holder:
\* then two workers may send for one event and the table forgets a nonce.
LiveNoncesDiffer ==
    ~lockLost =>
        \A e, f \in Event :
            /\ e # f
            /\ rows[e].status \in {"submitting", "submitted"}
            /\ rows[f].status \in {"submitting", "submitted"}
            => rows[e].nonce # rows[f].nonce

\* The intent log: a transaction in the mempool belongs to a row that is
\* terminal or that holds its nonce, whichever process crashed when, unless a
\* lock session has died under its holder.
PooledIsTracked ==
    ~lockLost =>
        \A n \in Nonce : \A tx \in pool[n] :
            \/ rows[tx.event].status \in Terminal
            \/ rows[tx.event].nonce = n

-----------------------------------------------------------------------------
(* Liveness.                                                               *)

\* The comment of cronTick: a row whose message was lost is not stranded.
\* Whatever was lost or crashed, a row becomes confirmed or dead lettered,
\* unless one of its transactions reverts on the destination chain.
SettlesUnlessReverted ==
    \A e \in Event :
        rows[e].status = "pending" ~>
            \/ rows[e].status \in Terminal
            \/ \E i \in DOMAIN mined : mined[i].tx.event = e /\ mined[i].outcome # "success"

=============================================================================
