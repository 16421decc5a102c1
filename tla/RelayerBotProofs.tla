-------------------------- MODULE RelayerBotProofs --------------------------
(***************************************************************************)
(* Proofs about the relayer bot for any number of events, workers,         *)
(* retries, nonces and faults: what a row of the transactions table may    *)
(* become, that a confirmed row was delivered, that the wallet's nonces    *)
(* are never handed out twice and that a transaction in the mempool is     *)
(* always tracked by its row.                                              *)
(*                                                                         *)
(* The inductive invariant says what a worker that is between two awaits   *)
(* may still rely on: which row it holds, with which nonce, although the   *)
(* cron changes that row without the worker's lock.                        *)
(***************************************************************************)
EXTENDS RelayerBot, FiniteSetTheorems, WellFoundedInduction, TLAPS

\* Rows whose transaction may still have to be sent.
Live == {"submitting", "submitted"}
Status == {"none", "pending", "failed"} \cup Live \cup Terminal
MaybeNonce == Nonce \cup {NoNonce}

\* A transaction, a row of the table and a receipt, as sets.
Tx == [event : Event, nonce : Nonce, copy : Nat]
Row == [status : Status, nonce : MaybeNonce, hash : SUBSET Tx, retries : Nat]
Receipt == [tx : Tx, outcome : {"success", "outOfGas", "reverted"}]

\* What a worker keeps in each phase of its job.
JobOK(j) ==
    \/ j = Idle
    \/ /\ j.msg \in Message
       /\ \/ j.phase = "prepare" /\ j.resubmit \in MaybeNonce
          \/ j.phase = "reserve" /\ j.chainNonce \in Nat
          \/ j.phase = "broadcast" /\ j.nonce \in Nonce
          \/ j.phase = "record" /\ j.tx \in Tx /\ j.tx.event = j.msg.event
          \/ j.phase \in {"settle", "bury"}

\* What the cron keeps in each phase; the transactions it checks are its
\* event's.
CronOK(c) ==
    \/ c = Idle
    \/ c.phase = "publish" /\ c.msg \in Message
    \/ /\ c.event \in Event
       /\ \/ c.phase = "bury"
          \/ c.phase = "recover" /\ c.nonce \in Nonce
          \/ /\ c.phase = "check"
             /\ c.nonce \in Nonce
             /\ c.hash \in SUBSET Tx
             /\ \A tx \in c.hash : tx.event = c.event

\* The types of the variables.
TypeInv ==
    /\ rows \in [Event -> Row]
    /\ DOMAIN queue = Message
    /\ DOMAIN job = Worker
    /\ \A w \in Worker : JobOK(job[w])
    /\ unlocked \subseteq Worker
    /\ CronOK(cron)
    /\ mined \in Seq(Receipt)
    /\ pool \in [Nonce -> SUBSET Tx]
    /\ consumed \subseteq Event
    /\ issued \subseteq Tx
    /\ lockLost \in BOOLEAN

\* A row names transactions of its own event, a live row has a nonce, and a row
\* that was never submitted has none.
RowInv == \A e \in Event :
    /\ \A tx \in rows[e].hash : tx.event = e
    /\ rows[e].status \in Live => rows[e].nonce # NoNonce
    /\ rows[e].status \in {"none", "pending"} => rows[e].nonce = NoNonce

\* A transaction that succeeded has consumed its VAA, and so has a confirmed
\* row's event.
DeliveryInv ==
    /\ \A i \in DOMAIN mined : mined[i].outcome = "success" => mined[i].tx.event \in consumed
    /\ ConfirmedIsDelivered

\* The chain mines the nonces in order, and what it has mined is no longer in
\* the mempool.
ChainInv ==
    /\ Len(mined) <= MaxNonce + 1
    /\ \A i \in DOMAIN mined : mined[i].tx.nonce = i - 1
    /\ \A i \in DOMAIN mined : mined[i].tx \in issued
    /\ \A n \in Nonce : n < Len(mined) => pool[n] = {}
    /\ \A n \in Nonce : \A tx \in pool[n] : tx.nonce = n /\ tx \in issued

\* The transactions a node accepted for an event with a nonce.
Sent(e, n) == {tx \in issued : tx.event = e /\ tx.nonce = n}

\* Transactions are numbered, so that nextTx is always a new one, and every
\* recorded transaction was issued.
IssuedInv ==
    /\ \A e \in Event, n \in Nonce :
          /\ IsFiniteSet(Sent(e, n))
          /\ \A tx \in Sent(e, n) : tx.copy <= Cardinality(Sent(e, n))
    /\ \A e \in Event : rows[e].hash \subseteq issued
    /\ cron.phase = "check" => cron.hash \subseteq issued
    /\ \A w \in Worker : job[w].phase = "record" => job[w].tx \in issued

\* The nonce has been mined.
Gone(n) == n < Len(mined)

\* The row is final or still holds the nonce.
Holds(e, n) ==
    \/ rows[e].status \in Terminal
    \/ rows[e].status \in Live /\ rows[e].nonce = n

\* A worker that was given a nonce may find that the cron has failed its row,
\* but only after the nonce was mined.
HoldsOrGone(e, n) ==
    \/ Holds(e, n)
    \/ rows[e].status = "failed" /\ Gone(n)

\* A row no worker has sent anything for since its last failure.
Unsent(e) == rows[e].status \in {"pending", "failed"} \cup Terminal

\* The event locks exclude one another.
LockInv ==
    /\ unlocked = {}
    /\ \A v, w \in Worker : v # w /\ job[v] # Idle /\ job[w] # Idle => EventOf(v) # EventOf(w)

\* What a worker's phase says of its row, of the cron and of the chain.
JobFacts(w) ==
    /\ job[w].phase = "prepare" /\ job[w].resubmit = NoNonce => Unsent(EventOf(w))
    /\ job[w].phase = "prepare" /\ job[w].resubmit # NoNonce
          => HoldsOrGone(EventOf(w), job[w].resubmit)
    /\ job[w].phase = "reserve" => Unsent(EventOf(w))
    /\ job[w].phase = "broadcast" => HoldsOrGone(EventOf(w), job[w].nonce)
    /\ job[w].phase = "record" =>
          /\ Holds(EventOf(w), job[w].tx.nonce)
          /\ job[w].tx \notin rows[EventOf(w)].hash
          /\ cron.phase = "check" => job[w].tx \notin cron.hash
          /\ \A tx \in pool[job[w].tx.nonce] : tx.event = EventOf(w) => tx = job[w].tx
          /\ \A i \in DOMAIN mined :
                mined[i].tx.event = EventOf(w) /\ mined[i].tx.nonce = job[w].tx.nonce
                => mined[i].tx = job[w].tx

JobInv == \A w \in Worker : JobFacts(w)

\* A row the cron is checking is final or still submitted with the nonce the
\* cron read.
CronInv ==
    cron.phase = "check" =>
         /\ \A tx \in cron.hash : tx.nonce = cron.nonce
         /\ \/ rows[cron.event].status \in Terminal
            \/ rows[cron.event].status = "submitted" /\ rows[cron.event].nonce = cron.nonce

\* A failed row's nonce was mined; a submitted row names a transaction with its
\* nonce.
RowNonceInv == \A e \in Event :
    /\ rows[e].status = "failed" => rows[e].nonce = NoNonce \/ Gone(rows[e].nonce)
    /\ rows[e].status = "submitted" => \A tx \in rows[e].hash : tx.nonce = rows[e].nonce

\* The facts that need the locks.
NonceInv ==
    ~lockLost =>
        /\ LockInv /\ JobInv /\ CronInv /\ RowNonceInv
        /\ LiveNoncesDiffer /\ PooledIsTracked

\* The inductive invariant.
IInv == TypeInv /\ RowInv /\ DeliveryInv /\ ChainInv /\ IssuedInv /\ NonceInv

\* The updates of the table keep the type of a row.
LEMMA RowTypes ==
  ASSUME NEW row \in Row
  PROVE  /\ insertPending(row) \in Row
         /\ \A n \in Nonce : markSubmitting(row, n) \in Row
         /\ \A tx \in Tx : markSubmitted(row, tx) \in Row
         /\ markConfirmed(row) \in Row
         /\ incrementRetry(row) \in Row
         /\ markFailed(row) \in Row
         /\ markDeadLetter(row) \in Row
  <1>1. bumped(row) \in Nat
    BY TransactionsAssumption DEF bumped, Row
  <1>2. keptNonce(row) \in MaybeNonce
    BY DEF keptNonce, Row, MaybeNonce
  <1> QED
    BY <1>1, <1>2
       DEF insertPending, markSubmitting, markSubmitted, markConfirmed, incrementRetry,
           markFailed, markDeadLetter, NoRow, Row, Status, Live, Terminal, MaybeNonce, Tx

\* The row changes at most its retry counter.
SameRow(r, row) == r.status = row.status /\ r.nonce = row.nonce /\ r.hash = row.hash

\* What each update of the table does to status, nonce and hash.
LEMMA RowFacts ==
  ASSUME NEW row \in Row
  PROVE  /\ \/ insertPending(row) = row
            \/ /\ row.status = "none"
               /\ insertPending(row).status = "pending"
               /\ insertPending(row).nonce = NoNonce
               /\ insertPending(row).hash = {}
         /\ insertPending(row).status # "none"
         /\ SameRow(incrementRetry(row), row)
         /\ markFailed(row).nonce = row.nonce
         /\ markFailed(row).hash = row.hash
         /\ IF canMarkFailed(row) THEN markFailed(row).status = "failed" ELSE markFailed(row) = row
         /\ \A r \in {markDeadLetter(row), markConfirmed(row)} :
               r.hash = row.hash /\ (r = row \/ r.status \in Terminal)
         /\ markDeadLetter(row).status # "confirmed" \/ markDeadLetter(row) = row
         /\ \A n \in Nonce :
               /\ markSubmitting(row, n).status = "submitting"
               /\ markSubmitting(row, n).nonce = n
               /\ markSubmitting(row, n).hash = row.hash
         /\ \A tx \in Tx :
               IF canMarkSubmitted(row)
               THEN /\ markSubmitted(row, tx).status = "submitted"
                    /\ markSubmitted(row, tx).nonce = tx.nonce
                    /\ markSubmitted(row, tx).hash = {tx}
               ELSE markSubmitted(row, tx) = row
  <1>1. /\ \/ insertPending(row) = row
           \/ /\ row.status = "none"
              /\ insertPending(row).status = "pending"
              /\ insertPending(row).nonce = NoNonce
              /\ insertPending(row).hash = {}
        /\ insertPending(row).status # "none"
    BY DEF insertPending, NoRow, Row
  <1>2. SameRow(incrementRetry(row), row)
    BY DEF SameRow, incrementRetry, Row
  <1>3. /\ markFailed(row).nonce = row.nonce
        /\ markFailed(row).hash = row.hash
        /\ IF canMarkFailed(row) THEN markFailed(row).status = "failed" ELSE markFailed(row) = row
    BY DEF markFailed, Row
  <1>4. /\ \A r \in {markDeadLetter(row), markConfirmed(row)} :
               r.hash = row.hash /\ (r = row \/ r.status \in Terminal)
        /\ markDeadLetter(row).status # "confirmed" \/ markDeadLetter(row) = row
    BY DEF markDeadLetter, markConfirmed, Terminal, Row
  <1>5. \A n \in Nonce :
               /\ markSubmitting(row, n).status = "submitting"
               /\ markSubmitting(row, n).nonce = n
               /\ markSubmitting(row, n).hash = row.hash
    BY DEF markSubmitting, Row
  <1>6. \A tx \in Tx :
               IF canMarkSubmitted(row)
               THEN /\ markSubmitted(row, tx).status = "submitted"
                    /\ markSubmitted(row, tx).nonce = tx.nonce
                    /\ markSubmitted(row, tx).hash = {tx}
               ELSE markSubmitted(row, tx) = row
    BY DEF markSubmitted, Row
  <1> QED
    BY <1>1, <1>2, <1>3, <1>4, <1>5, <1>6

\* A set of natural numbers has a least element.
LEMMA NatMinimum ==
  ASSUME NEW S \in SUBSET Nat, S # {}
  PROVE  \E x \in S : \A y \in S : x <= y
  <1> DEFINE R == {ss \in Nat \X Nat : ss[1] < ss[2]}
  <1>1. IsWellFoundedOn(R, Nat)
    BY NatLessThanWellFounded DEF OpToRel
  <1> HIDE DEF R
  <1>2. PICK x \in S : \A y \in S : ~ (<<y, x>> \in R)
    BY <1>1, WFMin
  <1>3. \A y \in S : ~ (y < x)
    BY <1>2 DEF R
  <1> QED
    BY <1>3

\* The node's next nonce exists.
LEMMA PendingNonce ==
  ASSUME TypeInv, ChainInv
  PROVE  pendingNonce \in Nat
  <1> DEFINE L == Len(mined)
             Free == {n \in L .. MaxNonce + 1 : n <= MaxNonce => pool[n] = {}}
  <1>1. L \in Nat /\ MaxNonce \in Nat /\ L <= MaxNonce + 1
    BY TransactionsAssumption DEF TypeInv, ChainInv
  <1>2. Free \in SUBSET Nat /\ MaxNonce + 1 \in Free
    BY <1>1
  <1>3. PICK n \in Free : \A k \in Free : n <= k
    BY <1>2, NatMinimum, Zenon
  <1>4. \A k \in L .. n - 1 : pool[k] # {}
    BY <1>1, <1>3
  <1>5. \E m \in L .. MaxNonce + 1 :
          /\ m <= MaxNonce => pool[m] = {}
          /\ \A k \in L .. m - 1 : pool[k] # {}
    BY <1>3, <1>4
  <1>6. pendingNonce \in L .. MaxNonce + 1
    BY <1>5, Zenon DEF pendingNonce
  <1> QED
    BY <1>1, <1>6

\* dbNext is above every nonce the table counts.
LEMMA NextNonce ==
  ASSUME TypeInv
  PROVE  /\ dbNext \in Nat
         /\ \A e \in CountedRows : rows[e].nonce < dbNext
  <1>1. CASE CountedRows = {}
    BY <1>1 DEF dbNext
  <1>2. CASE CountedRows # {}
    <2> DEFINE N == {rows[e].nonce : e \in CountedRows}
               D == {MaxNonce - n : n \in N}
    <2>1. \A e \in CountedRows : rows[e].nonce \in Nonce
      BY DEF TypeInv, Row, CountedRows, MaybeNonce
    <2>2. N \in SUBSET Nonce /\ N # {} /\ MaxNonce \in Nat
      BY <1>2, <2>1, TransactionsAssumption
    <2> HIDE DEF N
    <2>3. \A n \in N : MaxNonce - n \in Nat
      BY <2>2 DEF Nonce
    <2>4. D \in SUBSET Nat /\ D # {}
      BY <2>2, <2>3
    <2>5. PICK d \in D : \A k \in D : d <= k
      BY <2>4, NatMinimum, Zenon
    <2>6. PICK n \in N : d = MaxNonce - n
      BY <2>5
    <2>7. \A k \in N : k \in Int /\ MaxNonce - n <= MaxNonce - k
      BY <2>2, <2>5, <2>6 DEF Nonce
    <2>8. \A k \in N : k <= n
      BY <2>2, <2>7 DEF Nonce
    <2>9. \A e \in CountedRows : rows[e].nonce \in N
      BY DEF N
    <2>10. \A e \in CountedRows : rows[e].nonce <= n
      BY <2>8, <2>9
    <2> DEFINE top == CHOOSE m \in N : \A e \in CountedRows : rows[e].nonce <= m
    <2>11. top \in N /\ \A e \in CountedRows : rows[e].nonce <= top
      BY <2>10, Zenon
    <2>12. dbNext = 1 + top
      BY <1>2 DEF dbNext, N
    <2> HIDE DEF top
    <2> QED
      BY <2>2, <2>9, <2>11, <2>12 DEF Nonce
  <1> QED
    BY <1>1, <1>2

\* reserveNonce returns a nonce no counted row holds, whenever the chain's
\* nonce was read.
LEMMA ReservedNonce ==
  ASSUME TypeInv, NEW c \in Nat
  PROVE  \A e \in CountedRows : rows[e].nonce # reserveNonce(c)
  <1>1. \A e \in CountedRows : rows[e].nonce \in Int
    BY DEF CountedRows, TypeInv, Row, MaybeNonce, Nonce, NoNonce
  <1> HIDE DEF CountedRows
  <1> QED
  BY <1>1, NextNonce DEF reserveNonce

\* An update changes one row.
LEMMA UpdateRow ==
  ASSUME TypeInv, NEW e \in Event, NEW r \in Row, update(e, r)
  PROVE  /\ rows' \in [Event -> Row]
         /\ rows'[e] = r
         /\ \A f \in Event \ {e} : rows'[f] = rows[f]
  BY DEF TypeInv, update

\* A worker's step changes its own job.
LEMMA StepJob ==
  ASSUME TypeInv, NEW w \in Worker, NEW j, step(w, j)
  PROVE  /\ DOMAIN job' = Worker
         /\ job'[w] = j
         /\ \A v \in Worker \ {w} : job'[v] = job[v]
  BY DEF TypeInv, step

\* The failure handlers keep the types.
LEMMA SubmittingFailureType ==
  ASSUME TypeInv, NEW w \in Worker, job[w] # Idle, NEW err, handleSubmittingFailure(w, err)
  PROVE  /\ rows' \in [Event -> Row]
         /\ DOMAIN job' = Worker
         /\ \A v \in Worker : JobOK(job'[v])
  <1>1. EventOf(w) \in Event /\ rows[EventOf(w)] \in Row /\ job[w].msg \in Message
    BY DEF TypeInv, JobOK, Message, EventOf
  <1>2. rows' \in [Event -> Row]
    BY <1>1, RowTypes, UpdateRow DEF handleSubmittingFailure, TypeInv
  <1>3. PICK j : step(w, j) /\ JobOK(j)
    BY <1>1 DEF handleSubmittingFailure, settleWith, buryNext, JobOK
  <1> QED
    BY <1>2, <1>3, StepJob DEF TypeInv

LEMMA DeliveryFailureType ==
  ASSUME TypeInv, NEW w \in Worker, job[w] # Idle, NEW err, handleDeliveryFailure(w, err)
  PROVE  /\ rows' \in [Event -> Row]
         /\ DOMAIN job' = Worker
         /\ \A v \in Worker : JobOK(job'[v])
  <1>1. EventOf(w) \in Event /\ rows[EventOf(w)] \in Row /\ job[w].msg \in Message
    BY DEF TypeInv, JobOK, Message, EventOf
  <1>2. rows' \in [Event -> Row]
    BY <1>1, RowTypes, UpdateRow DEF handleDeliveryFailure, TypeInv
  <1>3. PICK j : step(w, j) /\ JobOK(j)
    BY <1>1 DEF handleDeliveryFailure, settleWith, buryNext, JobOK
  <1> QED
    BY <1>2, <1>3, StepJob DEF TypeInv

\* Taking a message keeps the types.
LEMMA TakeType ==
  ASSUME TypeInv, NEW w \in Worker, NEW m \in Message, take(w, m)
  PROVE  /\ rows' \in [Event -> Row]
         /\ DOMAIN job' = Worker
         /\ \A v \in Worker : JobOK(job'[v])
  <1> DEFINE rec == insertPending(rows[m.event])
  <1>1. m.event \in Event /\ m.replace \in MaybeNonce
    BY DEF Message, MaybeNonce
  <1>2. rec \in Row
    BY <1>1, RowTypes DEF TypeInv
  <1>3. rows' \in [Event -> Row]
    BY <1>1, <1>2, UpdateRow DEF take
  <1>4. resubmitNonce(rec, m) \in MaybeNonce
    BY <1>1, <1>2 DEF resubmitNonce, Row, MaybeNonce
  <1>5. PICK j : step(w, j) /\ JobOK(j)
    BY <1>4 DEF take, JobOK
  <1> QED
    BY <1>3, <1>5, StepJob DEF TypeInv

\* The steps in which something goes wrong for a worker, all steps of a worker,
\* and all steps of the cron.
WorkerFault(w) ==
    \/ \E err \in {"defer", "timeout", "retriable", "permanent"} : prepareFails(w, err)
    \/ reserveBusy(w)
    \/ \E err \in {"defer", "retriable", "permanent"} : broadcastFails(w, err)
    \/ crash(w)

WorkerAction(w) ==
    \/ WorkerStep(w)
    \/ WorkerFault(w)
    \/ \E m \in Message : handleDelivery(w, m) \/ handleUnlocked(w, m)

CronAction == CronStep \/ cronCrash \/ \E e \in Event : selectStale(e)

\* nextTx is a new transaction of its event and nonce.
LEMMA NextTxType ==
  ASSUME TypeInv, IssuedInv, NEW e \in Event, NEW n \in Nonce
  PROVE  /\ nextTx(e, n) \in Tx
         /\ nextTx(e, n) \notin issued
         /\ nextTx(e, n).event = e
         /\ nextTx(e, n).nonce = n
  <1>1. Sent(e, n) = {tx \in issued : tx.event = e /\ tx.nonce = n}
    BY DEF Sent
  <1>2. Cardinality(Sent(e, n)) \in Nat
    BY FS_CardinalityType DEF IssuedInv
  <1>3. nextTx(e, n) = [event |-> e, nonce |-> n, copy |-> 1 + Cardinality(Sent(e, n))]
    BY DEF nextTx, Sent
  <1> DEFINE c == Cardinality(Sent(e, n))
  <1>4. \A tx \in Sent(e, n) : tx.copy <= c
    BY DEF IssuedInv
  <1> HIDE DEF c
  <1> QED
    BY <1>1, <1>2, <1>3, <1>4 DEF Tx, c

\* A broadcast keeps the types of the mempool.
LEMMA AcceptType ==
  ASSUME TypeInv, IssuedInv, NEW w \in Worker, job[w].phase = "broadcast", accept(w)
  PROVE  pool' \in [Nonce -> SUBSET Tx] /\ issued' \subseteq Tx
  <1>1. job[w].nonce \in Nonce /\ EventOf(w) \in Event
    BY DEF TypeInv, JobOK, Idle, Message, EventOf
  <1> QED
    BY <1>1, NextTxType DEF accept, TypeInv

\* The worker's actions keep the types.
LEMMA WorkerType ==
  ASSUME TypeInv, ChainInv, IssuedInv, NEW w \in Worker, WorkerAction(w)
  PROVE  TypeInv'
  <1>1. job[w] # Idle => EventOf(w) \in Event /\ rows[EventOf(w)] \in Row /\ job[w].msg \in Message
    BY DEF TypeInv, JobOK, Message, EventOf
  <1>2. CASE prepareConsumed(w)
    <2>1. rows' \in [Event -> Row]
      BY <1>1, <1>2, RowTypes, UpdateRow DEF prepareConsumed, Idle
    <2>2. PICK j : step(w, j) /\ JobOK(j)
      BY <1>1, <1>2 DEF prepareConsumed, settleWith, JobOK, Idle
    <2> QED
      BY <1>2, <2>1, <2>2, StepJob DEF prepareConsumed, TypeInv, chainVars, faultVars
  <1>3. CASE prepareReady(w)
    <2>1. job[w].resubmit \in MaybeNonce
      BY <1>3 DEF TypeInv, JobOK, prepareReady, Idle
    <2>2. PICK j : step(w, j) /\ JobOK(j)
      BY <1>1, <1>3, <2>1, PendingNonce DEF prepareReady, JobOK, Idle, MaybeNonce
    <2> QED
      BY <1>3, <2>2, StepJob DEF prepareReady, TypeInv, chainVars, faultVars
  <1>4. CASE reserve(w)
    <2>1. rows' \in [Event -> Row]
      BY <1>1, <1>4, RowTypes, UpdateRow DEF reserve, Idle
    <2>2. PICK j : step(w, j) /\ JobOK(j)
      BY <1>1, <1>4 DEF reserve, JobOK, Idle
    <2> QED
      BY <1>4, <2>1, <2>2, StepJob DEF reserve, TypeInv, chainVars, faultVars
  <1>5. CASE reserveRefused(w) \/ reserveBusy(w)
    <2>1. job[w] # Idle
      BY <1>5 DEF reserveRefused, reserveBusy, Idle
    <2>2. \E err : handleDeliveryFailure(w, err)
      BY <1>5 DEF reserveRefused, reserveBusy, routePreCommitFailure
    <2> QED
      BY <1>5, <2>1, <2>2, DeliveryFailureType
         DEF reserveRefused, reserveBusy, TypeInv, chainVars, faultVars, Fault
  <1>6. CASE broadcast(w)
    <2>1. job[w].nonce \in Nonce /\ EventOf(w) \in Event /\ job[w].msg \in Message
      BY <1>1, <1>6 DEF TypeInv, JobOK, broadcast, Idle
    <2>2. /\ nextTx(EventOf(w), job[w].nonce) \in Tx
          /\ nextTx(EventOf(w), job[w].nonce).event = job[w].msg.event
      BY <2>1, NextTxType DEF EventOf
    <2>3. pool' \in [Nonce -> SUBSET Tx] /\ issued' \subseteq Tx
      BY <1>6, AcceptType DEF broadcast
    <2>4. PICK j : step(w, j) /\ JobOK(j)
      BY <1>6, <2>1, <2>2 DEF broadcast, JobOK
    <2> QED
      BY <1>6, <2>3, <2>4, StepJob DEF broadcast, TypeInv, faultVars
  <1>7. CASE broadcastTooLow(w)
    <2>1. job[w] # Idle
      BY <1>7 DEF broadcastTooLow, Idle
    <2> QED
      BY <1>7, <2>1, SubmittingFailureType
         DEF broadcastTooLow, TypeInv, chainVars, faultVars
  <1>8. CASE recordSubmitted(w)
    <2>1. job[w].tx \in Tx /\ job[w] # Idle
      BY <1>8 DEF recordSubmitted, Idle, TypeInv, JobOK
    <2>2. rows' \in [Event -> Row]
      BY <1>1, <1>8, <2>1, RowTypes, UpdateRow DEF recordSubmitted
    <2>3. PICK j : step(w, j) /\ JobOK(j)
      BY <1>1, <1>8 DEF recordSubmitted, settleWith, JobOK, Idle
    <2> QED
      BY <1>8, <2>2, <2>3, StepJob DEF recordSubmitted, TypeInv, chainVars, faultVars
  <1>9. CASE bury(w)
    <2>1. rows' \in [Event -> Row]
      BY <1>1, <1>9, RowTypes, UpdateRow DEF bury, Idle
    <2>2. PICK j : step(w, j) /\ JobOK(j)
      BY <1>1, <1>9 DEF bury, settleWith, JobOK, Idle
    <2> QED
      BY <1>9, <2>1, <2>2, StepJob DEF bury, TypeInv, chainVars, faultVars
  <1>10. CASE settle(w) \/ crash(w)
    BY <1>10, StepJob DEF settle, crash, TypeInv, JobOK, chainVars, faultVars, Fault
  <1>11. ASSUME NEW err, prepareFails(w, err) PROVE TypeInv'
    <2>1. job[w] # Idle
      BY <1>11 DEF prepareFails, Idle
    <2>2. handleDeliveryFailure(w, err) \/ handleSubmittingFailure(w, err)
      BY <1>11 DEF prepareFails, routePreCommitFailure
    <2> QED
      BY <1>11, <2>1, <2>2, DeliveryFailureType, SubmittingFailureType
         DEF prepareFails, TypeInv, chainVars, Fault
  <1>12. ASSUME NEW err, broadcastFails(w, err) PROVE TypeInv'
    <2>1. job[w] # Idle
      BY <1>12 DEF broadcastFails, Idle
    <2>2. pool' \in [Nonce -> SUBSET Tx] /\ issued' \subseteq Tx
      BY <1>12, AcceptType DEF broadcastFails, TypeInv
    <2> QED
      BY <1>12, <2>1, <2>2, SubmittingFailureType DEF broadcastFails, TypeInv, Fault
  <1>13. ASSUME NEW m \in Message, handleDelivery(w, m) \/ handleUnlocked(w, m) PROVE TypeInv'
    <2>1. take(w, m)
      BY <1>13 DEF handleDelivery, handleUnlocked
    <2>2. unlocked' \subseteq Worker /\ lockLost' \in BOOLEAN
      BY <1>13 DEF handleDelivery, handleUnlocked, TypeInv, faultVars
    <2>3. UNCHANGED <<queue, cron, chainVars>>
      BY <2>1 DEF take
    <2> QED
      BY <2>1, <2>2, <2>3, TakeType DEF TypeInv, chainVars
  <1> QED
    BY <1>2, <1>3, <1>4, <1>5, <1>6, <1>7, <1>8, <1>9, <1>10, <1>11, <1>12, <1>13
       DEF WorkerAction, WorkerStep, WorkerFault

\* The cron's actions keep the types.
LEMMA CronType ==
  ASSUME TypeInv, RowInv, CronAction
  PROVE  TypeInv'
  <1>1. cron.phase \in {"recover", "check", "bury"} =>
          cron.event \in Event /\ rows[cron.event] \in Row
    BY DEF TypeInv, CronOK, Idle
  <1>2. CASE recoverSubmitting \/ checkNoReceipt
    <2>1. cron.event \in Event /\ rows[cron.event] \in Row /\ cron.nonce \in Nonce
      BY <1>1, <1>2 DEF recoverSubmitting, checkNoReceipt, TypeInv, CronOK, Idle
    <2>2. rows' \in [Event -> Row] /\ CronOK(cron')
      BY <1>2, <2>1, RowTypes, UpdateRow
         DEF recoverSubmitting, checkNoReceipt, resubmit, cronBuryNext, cronPublishNext,
             CronOK, Idle, Message, TypeInv
    <2> QED
      BY <1>2, <2>2 DEF recoverSubmitting, checkNoReceipt, TypeInv, chainVars, faultVars
  <1>3. CASE checkReceipt
    <2>1. cron.event \in Event /\ rows[cron.event] \in Row
      BY <1>1, <1>3 DEF checkReceipt
    <2>2. rows' \in [Event -> Row] /\ CronOK(cron')
      BY <1>3, <2>1, RowTypes, UpdateRow
         DEF checkReceipt, retryFresh, cronBuryNext, cronPublishNext, CronOK, Idle, Message
    <2> QED
      BY <1>3, <2>2 DEF checkReceipt, TypeInv, chainVars, faultVars
  <1>4. CASE cronPublish
    BY <1>4 DEF cronPublish, published, TypeInv, CronOK, chainVars, faultVars
  <1>5. CASE cronBury
    <2>1. cron.event \in Event /\ rows[cron.event] \in Row
      BY <1>1, <1>5 DEF cronBury
    <2>2. rows' \in [Event -> Row]
      BY <1>5, <2>1, RowTypes, UpdateRow DEF cronBury
    <2> QED
      BY <1>5, <2>2 DEF cronBury, TypeInv, CronOK, chainVars, faultVars
  <1>6. CASE cronCrash
    BY <1>6 DEF cronCrash, Fault, TypeInv, CronOK, chainVars
  <1>7. ASSUME NEW e \in Event, selectStale(e) PROVE TypeInv'
    <2>1. rows[e] \in Row
      BY DEF TypeInv
    <2>2. /\ rows[e].nonce \in MaybeNonce
          /\ rows[e].hash \in SUBSET Tx
          /\ rows[e].status \in {"submitting", "submitted"} => rows[e].nonce \in Nonce
      BY <2>1 DEF Row, MaybeNonce, RowInv, Live
    <2>3. CronOK(cron')
      BY <1>7, <2>2 DEF selectStale, cronPublishNext, CronOK, Message, RowInv
    <2> QED
      BY <1>7, <2>3 DEF selectStale, TypeInv, chainVars, faultVars
  <1> QED
    BY <1>2, <1>3, <1>4, <1>5, <1>6, <1>7 DEF CronAction, CronStep

\* The listener, the chain and the queue's store.
Environment ==
    \/ \E e \in Event : scanChainOnce(e) \/ deliverElsewhere(e)
    \/ republishPending
    \/ \E tx \in NextToMine : mine(tx) \/ \E o \in {"outOfGas", "reverted"} : mineReverts(tx, o)
    \/ \E n \in Nonce : drop(n)
    \/ \E m \in Message : loseMessage(m)

\* The environment's actions keep the types.
LEMMA EnvironmentType ==
  ASSUME TypeInv, Environment
  PROVE  TypeInv'
  <1>1. ASSUME NEW e \in Event, scanChainOnce(e) PROVE TypeInv'
    <2>1. rows' \in [Event -> Row]
      BY <1>1, RowTypes, UpdateRow DEF scanChainOnce, TypeInv
    <2>2. DOMAIN queue' = Message
      BY <1>1 DEF scanChainOnce, published, TypeInv
    <2> QED
      BY <1>1, <2>1, <2>2 DEF scanChainOnce, TypeInv, chainVars, faultVars, Fault
  <1>2. CASE republishPending
    BY <1>2 DEF republishPending, TypeInv, chainVars, Fault
  <1>3. ASSUME NEW tx \in NextToMine, NEW o \in {"success", "outOfGas", "reverted"}, mineWith(tx, o)
        PROVE  mined' \in Seq(Receipt) /\ pool' \in [Nonce -> SUBSET Tx]
    <2>1. tx \in Tx
      BY DEF NextToMine, TypeInv
    <2>2. [tx |-> tx, outcome |-> o] \in Receipt
      BY <2>1 DEF Receipt
    <2>3. mined' \in Seq(Receipt)
      BY <1>3, <2>2 DEF mineWith, TypeInv
    <2> QED
      BY <1>3, <2>3 DEF mineWith, TypeInv
  <1>4. ASSUME NEW tx \in NextToMine,
               mine(tx) \/ \E o \in {"outOfGas", "reverted"} : mineReverts(tx, o)
        PROVE  TypeInv'
    <2>1. tx.event \in Event
      BY DEF NextToMine, TypeInv, Tx
    <2>2. consumed' \subseteq Event
      BY <1>4, <2>1 DEF mine, mineReverts, TypeInv
    <2>3. PICK o \in {"success", "outOfGas", "reverted"} : mineWith(tx, o)
      BY <1>4 DEF mine, mineReverts
    <2> QED
      BY <1>3, <1>4, <2>2, <2>3 DEF mine, mineReverts, mineWith, TypeInv, faultVars, Fault
  <1>5. ASSUME NEW n \in Nonce, drop(n) PROVE TypeInv'
    BY <1>5 DEF drop, TypeInv, Fault
  <1>6. ASSUME NEW e \in Event, deliverElsewhere(e) PROVE TypeInv'
    BY <1>6 DEF deliverElsewhere, TypeInv, Fault
  <1>7. ASSUME NEW m \in Message, loseMessage(m) PROVE TypeInv'
    BY <1>7 DEF loseMessage, TypeInv, Fault, chainVars
  <1> QED
    BY <1>1, <1>2, <1>4, <1>5, <1>6, <1>7 DEF Environment

\* A step is one of a worker, of the cron or of the environment.
LEMMA NextCases ==
  ASSUME Next
  PROVE  \/ \E w \in Worker : WorkerAction(w)
         \/ CronAction
         \/ Environment
  BY DEF Next, Faulty, WorkerAction, WorkerFault, CronAction, Environment

\* Every step keeps the types.
LEMMA TypeNext ==
  ASSUME TypeInv, RowInv, ChainInv, IssuedInv, [Next]_vars
  PROVE  TypeInv'
  <1>1. CASE UNCHANGED vars
    BY <1>1 DEF vars, TypeInv
  <1>2. CASE Next
    <2>1. CASE \E w \in Worker : WorkerAction(w)
      BY <2>1, WorkerType, Zenon
    <2>2. CASE CronAction
      BY <2>2, CronType, Zenon
    <2>3. CASE Environment
      BY <2>3, EnvironmentType, Zenon
    <2> QED
      BY <1>2, <2>1, <2>2, <2>3, NextCases, Zenon
  <1> QED
    BY <1>1, <1>2

\* The cron holds a receipt of success for the event.
ReceiptFor(e) ==
    /\ cron.phase = "check"
    /\ cron.event = e
    /\ \E i \in ReceiptsOf(cron.hash) : mined[i].outcome = "success"

\* A worker fails the row before it has reserved a nonce.
FailedByWorker(e) == \E w \in Worker :
    /\ EventOf(w) = e
    /\ job[w].phase = "reserve" \/ (job[w].phase = "prepare" /\ job[w].resubmit = NoNonce)
    /\ job'[w].phase \in {"settle", "bury"}

\* The cron fails the row on the receipt of one of its transactions.
FailedByCron(e) ==
    /\ cron.phase = "check"
    /\ cron.event = e
    /\ ReceiptsOf(cron.hash) # {}
    /\ cron'.phase # "check"
    /\ UNCHANGED <<job, chainVars>>

\* Who may change a row, and how.
RowStep(e) ==
    \/ rows'[e] \in {rows[e], insertPending(rows[e]), incrementRetry(rows[e]),
                     markDeadLetter(rows[e])}
    \/ rows'[e] = markFailed(rows[e]) /\ (FailedByWorker(e) \/ FailedByCron(e))
    \/ rows'[e] = markConfirmed(rows[e]) /\ (e \in consumed \/ ReceiptFor(e))
    \/ \E w \in Worker : EventOf(w) = e /\ reserve(w)
    \/ \E w \in Worker : EventOf(w) = e /\ recordSubmitted(w)

\* An update changes one row, whatever its type.
LEMMA RowUpdated ==
  ASSUME TypeInv, NEW e \in Event, NEW r, update(e, r)
  PROVE  rows'[e] = r /\ \A f \in Event \ {e} : rows'[f] = rows[f]
  BY DEF TypeInv, update

\* The effect of a reservation.
LEMMA RowReserved ==
  ASSUME TypeInv, NEW w \in Worker, reserve(w)
  PROVE  /\ EventOf(w) \in Event
         /\ job[w].phase = "reserve"
         /\ job[w].chainNonce \in Nat
         /\ canMarkSubmitting(rows[EventOf(w)])
         /\ reserveNonce(job[w].chainNonce) \in Nonce
         /\ rows'[EventOf(w)] = markSubmitting(rows[EventOf(w)], reserveNonce(job[w].chainNonce))
         /\ \A f \in Event \ {EventOf(w)} : rows'[f] = rows[f]
         /\ job'[w].phase = "broadcast"
         /\ job'[w].nonce = reserveNonce(job[w].chainNonce)
         /\ job'[w].msg = job[w].msg
  <1>1. EventOf(w) \in Event /\ job[w].chainNonce \in Nat
    BY DEF TypeInv, JobOK, Message, EventOf, Idle, reserve
  <1> QED
    BY <1>1, RowUpdated, StepJob DEF reserve

\* The effect of recording a transaction.
LEMMA RowRecorded ==
  ASSUME TypeInv, NEW w \in Worker, recordSubmitted(w)
  PROVE  /\ EventOf(w) \in Event
         /\ job[w].phase = "record"
         /\ job[w].tx \in Tx
         /\ job[w].tx.event = EventOf(w)
         /\ rows'[EventOf(w)] = markSubmitted(rows[EventOf(w)], job[w].tx)
         /\ \A f \in Event \ {EventOf(w)} : rows'[f] = rows[f]
         /\ job'[w].phase = "settle"
  <1>1. EventOf(w) \in Event /\ job[w].tx \in Tx /\ job[w].tx.event = EventOf(w)
    BY DEF TypeInv, JobOK, Message, EventOf, Idle, recordSubmitted
  <1> QED
    BY <1>1, RowUpdated, StepJob DEF recordSubmitted, settleWith

\* Every step changes every row as RowStep says.
LEMMA RowSteps ==
  ASSUME TypeInv, [Next]_vars
  PROVE  \A e \in Event : RowStep(e)
  <1>1. CASE UNCHANGED rows
    BY <1>1 DEF RowStep
  <1>2. ASSUME NEW w \in Worker, WorkerAction(w)
        PROVE  \A e \in Event : RowStep(e)
    <2>1. job[w] # Idle => EventOf(w) \in Event
      BY DEF TypeInv, JobOK, Message, EventOf
    <2>2. CASE prepareConsumed(w)
      BY <2>1, <2>2, RowUpdated DEF prepareConsumed, RowStep, Idle
    <2>3. CASE reserve(w)
      BY <2>3, RowReserved DEF RowStep
    <2>4. CASE recordSubmitted(w)
      BY <2>4, RowRecorded DEF RowStep
    <2>5. CASE bury(w)
      BY <2>1, <2>5, RowUpdated DEF bury, RowStep, Idle
    <2>6. ASSUME NEW err, job[w] # Idle, handleSubmittingFailure(w, err)
          PROVE  \A e \in Event : RowStep(e)
      BY <2>1, <2>6, RowUpdated DEF handleSubmittingFailure, RowStep
    <2>7. ASSUME NEW err, job[w] # Idle, handleDeliveryFailure(w, err),
                 job[w].phase = "reserve" \/ (job[w].phase = "prepare" /\ job[w].resubmit = NoNonce)
          PROVE  \A e \in Event : RowStep(e)
      <3>1. job'[w].phase \in {"settle", "bury"}
        BY <2>7, StepJob DEF handleDeliveryFailure, settleWith, buryNext
      <3>2. FailedByWorker(EventOf(w))
        BY <2>7, <3>1 DEF FailedByWorker
      <3> QED
        BY <2>1, <2>7, <3>2, RowUpdated DEF handleDeliveryFailure, RowStep
    <2>8. CASE reserveRefused(w) \/ reserveBusy(w)
      <3>1. job[w] # Idle /\ job[w].phase = "reserve"
        BY <2>8 DEF reserveRefused, reserveBusy, Idle
      <3>2. PICK err : handleDeliveryFailure(w, err)
        BY <2>8, <3>1 DEF reserveRefused, reserveBusy, routePreCommitFailure
      <3> QED
        BY <2>7, <3>1, <3>2, Zenon
    <2>9. ASSUME NEW err, broadcastTooLow(w) \/ broadcastFails(w, err)
           PROVE  \A e \in Event : RowStep(e)
      BY <2>6, <2>9 DEF broadcastTooLow, broadcastFails, Idle
    <2>10. ASSUME NEW err, prepareFails(w, err)
           PROVE  \A e \in Event : RowStep(e)
      <3>1. job[w] # Idle /\ job[w].phase = "prepare"
        BY <2>10 DEF prepareFails, Idle
      <3>2. CASE job[w].resubmit = NoNonce
        BY <2>7, <2>10, <3>1, <3>2 DEF prepareFails, routePreCommitFailure
      <3>3. CASE job[w].resubmit # NoNonce
        BY <2>6, <2>10, <3>1, <3>3 DEF prepareFails, routePreCommitFailure
      <3> QED
        BY <3>2, <3>3
    <2>11. ASSUME NEW m \in Message, take(w, m) PROVE \A e \in Event : RowStep(e)
      BY <2>11, RowUpdated DEF take, RowStep, Message
    <2>12. CASE prepareReady(w) \/ broadcast(w) \/ settle(w) \/ crash(w)
      BY <1>1, <2>12 DEF prepareReady, broadcast, settle, crash
    <2> QED
      BY <1>2, <2>2, <2>3, <2>4, <2>5, <2>8, <2>11, <2>12, <2>9, <2>10
         DEF WorkerAction, WorkerStep, WorkerFault, handleDelivery, handleUnlocked
  <1>3. CASE CronAction
    <2>1. cron.phase \in {"recover", "check", "bury"} => cron.event \in Event
      BY DEF TypeInv, CronOK, Idle
    <2>2. CASE recoverSubmitting \/ checkNoReceipt
      BY <2>1, <2>2, RowUpdated DEF recoverSubmitting, checkNoReceipt, resubmit, RowStep
    <2>3. CASE checkReceipt
      BY <2>1, <2>3, RowUpdated
         DEF checkReceipt, retryFresh, cronPublishNext, cronBuryNext, RowStep, ReceiptFor,
             FailedByCron
    <2>4. CASE cronBury
      BY <2>1, <2>4, RowUpdated DEF cronBury, RowStep
    <2>5. CASE cronPublish \/ cronCrash \/ \E e \in Event : selectStale(e)
      BY <1>1, <2>5 DEF cronPublish, cronCrash, selectStale
    <2> QED
      BY <1>3, <2>2, <2>3, <2>4, <2>5 DEF CronAction, CronStep
  <1>4. CASE Environment
    <2>1. ASSUME NEW e \in Event, scanChainOnce(e) PROVE \A f \in Event : RowStep(f)
      BY <2>1, RowUpdated DEF scanChainOnce, RowStep
    <2> QED
      BY <1>1, <1>4, <2>1
         DEF Environment, deliverElsewhere, republishPending, mine, mineReverts, mineWith,
             drop, loseMessage
  <1>5. CASE UNCHANGED vars
    BY <1>1, <1>5 DEF vars
  <1> QED
    BY <1>2, <1>3, <1>4, <1>5, NextCases

\* No step changes a terminal row.
LEMMA TerminalStep ==
  ASSUME TypeInv, [Next]_vars
  PROVE  \A e \in Event : rows[e].status \in Terminal => rows'[e] = rows[e]
  BY RowSteps, RowReserved, RowRecorded
     DEF RowStep, Terminal, insertPending, incrementRetry, canIncrementRetry, markFailed,
         canMarkFailed, markDeadLetter, markConfirmed, canMarkSubmitting, markSubmitted,
         canMarkSubmitted

\* RowInv is preserved.
LEMMA RowNext ==
  ASSUME TypeInv, RowInv, [Next]_vars
  PROVE  RowInv'
  <1> SUFFICES ASSUME NEW e \in Event
               PROVE  /\ \A tx \in rows'[e].hash : tx.event = e
                      /\ rows'[e].status \in Live => rows'[e].nonce # NoNonce
                      /\ rows'[e].status \in {"none", "pending"} => rows'[e].nonce = NoNonce
    BY DEF RowInv
  <1>1. rows[e] \in Row /\ RowStep(e)
    BY RowSteps DEF TypeInv
  <1>2. NoNonce \notin Nonce
    BY DEF NoNonce, Nonce
  <1>3. CASE rows'[e] \in {rows[e], incrementRetry(rows[e]), markFailed(rows[e])}
    BY <1>1, <1>3 DEF RowInv, Row, Live, incrementRetry, markFailed
  <1>4. CASE rows'[e] = insertPending(rows[e])
    BY <1>1, <1>4 DEF RowInv, Row, Live, NoRow, insertPending
  <1>5. CASE rows'[e] \in {markDeadLetter(rows[e]), markConfirmed(rows[e])}
    BY <1>1, <1>5 DEF RowInv, Row, Live, markDeadLetter, markConfirmed
  <1>6. CASE \E n \in Nonce : rows'[e] = markSubmitting(rows[e], n)
    BY <1>1, <1>2, <1>6 DEF RowInv, Row, Live, markSubmitting
  <1>7. ASSUME NEW tx \in Tx, tx.event = e, rows'[e] = markSubmitted(rows[e], tx)
        PROVE  /\ \A t \in rows'[e].hash : t.event = e
               /\ rows'[e].status \in Live => rows'[e].nonce # NoNonce
               /\ rows'[e].status \in {"none", "pending"} => rows'[e].nonce = NoNonce
    BY <1>1, <1>2, <1>7 DEF RowInv, Row, Tx, Live, markSubmitted
  <1> QED
    BY <1>1, <1>3, <1>4, <1>5, <1>6, <1>7, RowReserved, RowRecorded DEF RowStep

\* Consumed VAAs stay consumed.
LEMMA ConsumedStep ==
  ASSUME TypeInv, [Next]_vars
  PROVE  consumed \subseteq consumed'
  BY NextCases
     DEF WorkerAction, WorkerStep, WorkerFault, handleDelivery, handleUnlocked, take,
         CronAction, CronStep, Environment, vars, chainVars, prepareConsumed,
         prepareReady, reserve, reserveRefused, broadcast, broadcastTooLow,
         recordSubmitted, bury, settle, prepareFails, reserveBusy, broadcastFails, crash,
         recoverSubmitting, checkNoReceipt, checkReceipt, cronPublish, cronBury,
         cronCrash, selectStale, scanChainOnce, deliverElsewhere, republishPending, mine,
         mineReverts, drop, loseMessage

\* Only the chain mines.
LEMMA MinedStep ==
  ASSUME TypeInv, [Next]_vars
  PROVE  \/ UNCHANGED mined
         \/ \E tx \in NextToMine : 
              \/ mine(tx)
              \/ \E o \in {"outOfGas", "reverted"} : mineReverts(tx, o)
  BY NextCases
     DEF WorkerAction, WorkerStep, WorkerFault, handleDelivery, handleUnlocked, take,
         CronAction, CronStep, Environment, vars, chainVars, prepareConsumed,
         prepareReady, reserve, reserveRefused, broadcast, broadcastTooLow,
         recordSubmitted, bury, settle, prepareFails, reserveBusy, broadcastFails, crash,
         recoverSubmitting, checkNoReceipt, checkReceipt, cronPublish, cronBury,
         cronCrash, selectStale, scanChainOnce, deliverElsewhere, republishPending, drop,
         loseMessage

\* DeliveryInv is preserved.
LEMMA DeliveryNext ==
  ASSUME TypeInv, DeliveryInv, [Next]_vars
  PROVE  DeliveryInv'
  <1>1. consumed \subseteq consumed'
    BY ConsumedStep
  <1>2. ASSUME NEW i \in DOMAIN mined', mined'[i].outcome = "success"
        PROVE  mined'[i].tx.event \in consumed'
    <2>1. CASE UNCHANGED mined
      BY <1>1, <1>2, <2>1 DEF DeliveryInv
    <2>2. ASSUME NEW tx \in NextToMine, mine(tx)
          PROVE  mined'[i].tx.event \in consumed'
      <3>1. tx \in Tx
        BY DEF NextToMine, TypeInv
      <3>2. mined \in Seq(Receipt) /\ DOMAIN mined' = 1 .. Len(mined) + 1
        BY <2>2 DEF TypeInv, mine, mineWith
      <3>3. CASE i = Len(mined) + 1
        BY <2>2, <3>2, <3>3 DEF mine, mineWith
      <3>4. CASE i \in DOMAIN mined
        BY <1>1, <1>2, <2>2, <3>2, <3>4 DEF mine, mineWith, DeliveryInv
      <3> QED
        BY <3>2, <3>3, <3>4
    <2>3. ASSUME NEW tx \in NextToMine, NEW o \in {"outOfGas", "reverted"}, mineReverts(tx, o)
          PROVE  mined'[i].tx.event \in consumed'
      <3>1. mined \in Seq(Receipt) /\ DOMAIN mined' = 1 .. Len(mined) + 1
        BY <2>3 DEF TypeInv, mineReverts, mineWith
      <3>2. i # Len(mined) + 1
        BY <1>2, <2>3, <3>1 DEF mineReverts, mineWith
      <3>3. i \in DOMAIN mined /\ mined'[i] = mined[i]
        BY <2>3, <3>1, <3>2 DEF mineReverts, mineWith
      <3> QED
        BY <1>1, <1>2, <3>3 DEF DeliveryInv
    <2> QED
      BY <2>1, <2>2, <2>3, MinedStep
  <1>3. ASSUME NEW e \in Event, rows'[e].status = "confirmed"
        PROVE  e \in consumed'
    <2>1. rows[e] \in Row /\ RowStep(e)
      BY RowSteps DEF TypeInv
    <2>2. ReceiptFor(e) => e \in consumed
      BY DEF ReceiptFor, ReceiptsOf, DeliveryInv, TypeInv, CronOK, Idle
    <2>3. rows[e].status = "confirmed" \/ e \in consumed
      BY <1>3, <2>1, <2>2, RowReserved, RowRecorded
         DEF RowStep, Row, insertPending, NoRow, incrementRetry, markFailed, markDeadLetter,
             markSubmitting, markSubmitted
    <2> QED
      BY <1>1, <2>3 DEF DeliveryInv, ConfirmedIsDelivered
  <1> QED
    BY <1>2, <1>3 DEF DeliveryInv, ConfirmedIsDelivered

\* A node accepts the worker's transaction; its answer may be lost.
AcceptedBy(w) ==
    /\ job[w].phase = "broadcast"
    /\ accept(w)
    /\ UNCHANGED <<rows, mined>>

\* What a step may do to the destination chain.
ChainStep ==
    \/ UNCHANGED <<mined, pool, issued>>
    \/ \E w \in Worker : AcceptedBy(w)
    \/ \E tx \in NextToMine, o \in {"success", "outOfGas", "reverted"} : mineWith(tx, o)
    \/ \E n \in Nonce : pool' = [pool EXCEPT ![n] = {}] /\ UNCHANGED <<mined, issued>>

\* Every step changes the chain as ChainStep says.
LEMMA ChainSteps ==
  ASSUME [Next]_vars
  PROVE  ChainStep
  <1>1. ASSUME NEW w \in Worker, WorkerStep(w) \/ WorkerFault(w) PROVE ChainStep
    <2>1. CASE broadcast(w) \/ \E err : broadcastFails(w, err)
      BY <2>1 DEF broadcast, broadcastFails, handleSubmittingFailure, AcceptedBy, ChainStep
    <2> QED
      BY <1>1, <2>1
         DEF ChainStep, chainVars, WorkerAction, WorkerStep, WorkerFault, prepareConsumed,
             prepareReady, reserve, reserveRefused, broadcastTooLow, recordSubmitted,
             bury, settle, prepareFails, reserveBusy, crash
  <1>2. ASSUME NEW w \in Worker, NEW m \in Message, handleDelivery(w, m) \/ handleUnlocked(w, m)
        PROVE  ChainStep
    BY <1>2 DEF handleDelivery, handleUnlocked, take, chainVars, ChainStep
  <1>3. CASE CronAction
    BY <1>3
       DEF ChainStep, chainVars, CronAction, CronStep, recoverSubmitting, checkNoReceipt,
           checkReceipt, cronPublish, cronBury, cronCrash, selectStale
  <1>4. CASE Environment
    BY <1>4
       DEF ChainStep, chainVars, Environment, scanChainOnce, deliverElsewhere,
           republishPending, mine, mineReverts, drop, loseMessage
  <1>5. CASE UNCHANGED vars
    BY <1>5 DEF vars, ChainStep
  <1> QED
    BY <1>1, <1>2, <1>3, <1>4, <1>5, NextCases DEF WorkerAction, CronAction

\* ChainInv is preserved.
LEMMA ChainNext ==
  ASSUME TypeInv, IssuedInv, ChainInv, [Next]_vars
  PROVE  ChainInv'
  <1>1. /\ MaxNonce \in Nat
        /\ mined \in Seq(Receipt)
        /\ Len(mined) \in Nat
        /\ DOMAIN mined = 1 .. Len(mined)
    BY TransactionsAssumption DEF TypeInv
  <1>2. CASE UNCHANGED <<mined, pool, issued>>
    BY <1>2 DEF ChainInv
  <1>3. ASSUME NEW w \in Worker, AcceptedBy(w) PROVE ChainInv'
    <2> DEFINE e == EventOf(w)
               n == job[w].nonce
               tx == nextTx(e, n)
    <2>1. n \in Nonce /\ e \in Event
      BY <1>3 DEF TypeInv, JobOK, AcceptedBy, Idle, Message, EventOf
    <2>2. tx.nonce = n
      BY <2>1, NextTxType
    <2>3. /\ n >= Len(mined)
          /\ pool' = [pool EXCEPT ![n] = {tx}]
          /\ issued' = issued \cup {tx}
          /\ mined' = mined
      BY <1>3 DEF AcceptedBy, accept
    <2> HIDE DEF n, tx
    <2> QED
      BY <1>1, <2>1, <2>2, <2>3 DEF ChainInv, TypeInv, Nonce
  <1>4. ASSUME NEW tx \in NextToMine, NEW o, mineWith(tx, o) PROVE ChainInv'
    <2>1. tx \in issued /\ tx.nonce = Len(mined) /\ tx.nonce \in Nonce
      BY DEF NextToMine, TypeInv, Tx
    <2>2. /\ mined' = Append(mined, [tx |-> tx, outcome |-> o])
          /\ pool' = [pool EXCEPT ![tx.nonce] = {}]
          /\ issued' = issued
      BY <1>4 DEF mineWith
    <2>3. /\ Len(mined') = Len(mined) + 1
          /\ DOMAIN mined' = 1 .. Len(mined) + 1
          /\ mined'[Len(mined) + 1].tx = tx
          /\ \A i \in DOMAIN mined : mined'[i] = mined[i]
      BY <1>1, <2>2
    <2>4. /\ Len(mined') <= MaxNonce + 1
          /\ \A i \in DOMAIN mined' : mined'[i].tx.nonce = i - 1 /\ mined'[i].tx \in issued'
      BY <1>1, <2>1, <2>2, <2>3 DEF ChainInv, Nonce
    <2>5. \A n \in Nonce : pool'[n] = IF n = Len(mined) THEN {} ELSE pool[n]
      BY <2>1, <2>2 DEF TypeInv
    <2>6. \A n \in Nonce : n < Len(mined') => pool'[n] = {}
      BY <1>1, <2>3, <2>5 DEF ChainInv, Nonce
    <2> QED
      BY <2>2, <2>4, <2>5, <2>6 DEF ChainInv
  <1>5. ASSUME NEW n \in Nonce, pool' = [pool EXCEPT ![n] = {}], UNCHANGED <<mined, issued>>
        PROVE  ChainInv'
    BY <1>5 DEF ChainInv, TypeInv
  <1> QED
    BY <1>2, <1>3, <1>4, <1>5, ChainSteps DEF ChainStep

\* A step issues at most one transaction, a new one.
LEMMA IssuedSteps ==
  ASSUME TypeInv, [Next]_vars
  PROVE  \/ UNCHANGED issued
         \/ \E e \in Event, n \in Nonce : issued' = issued \cup {nextTx(e, n)}
  <1>1. ASSUME NEW w \in Worker, AcceptedBy(w)
        PROVE  \E e \in Event, n \in Nonce : issued' = issued \cup {nextTx(e, n)}
    <2>1. job[w].nonce \in Nonce /\ EventOf(w) \in Event
      BY <1>1 DEF TypeInv, JobOK, AcceptedBy, Idle, Message, EventOf
    <2> QED
      BY <1>1, <2>1 DEF AcceptedBy, accept
  <1> QED
    BY <1>1, ChainSteps DEF ChainStep, mineWith

\* The cron checks what it read of a submitted row.
LEMMA CronChecks ==
  ASSUME [Next]_vars, cron'.phase = "check"
  PROVE  \/ UNCHANGED cron
         \/ \E e \in Event :
              /\ rows[e].status = "submitted"
              /\ cron'.event = e
              /\ cron'.nonce = rows[e].nonce
              /\ cron'.hash = rows[e].hash
              /\ UNCHANGED <<rows, job, chainVars, faultVars>>
  <1>1. ASSUME NEW w \in Worker, WorkerAction(w)
        PROVE  UNCHANGED cron
    BY <1>1
       DEF WorkerAction, WorkerStep, WorkerFault, prepareConsumed, prepareReady, reserve,
           reserveRefused, broadcast, broadcastTooLow, recordSubmitted, bury, settle,
           prepareFails, reserveBusy, broadcastFails, crash, handleDelivery,
           handleUnlocked, take
  <1>2. CASE CronStep \/ cronCrash
    BY <1>2
       DEF CronAction, CronStep, recoverSubmitting, checkNoReceipt, checkReceipt,
           resubmit, retryFresh, cronPublish, cronBury, cronCrash, cronPublishNext,
           cronBuryNext, Idle
  <1>3. ASSUME NEW e \in Event, selectStale(e)
        PROVE  /\ rows[e].status = "submitted"
               /\ cron'.event = e
               /\ cron'.nonce = rows[e].nonce
               /\ cron'.hash = rows[e].hash
               /\ UNCHANGED <<rows, job, chainVars, faultVars>>
    BY <1>3 DEF selectStale, cronPublishNext
  <1>4. CASE Environment
    BY <1>4 DEF Environment, scanChainOnce, deliverElsewhere, republishPending,
                mine, mineReverts, mineWith, drop, loseMessage
  <1>5. CASE UNCHANGED vars
    BY <1>5 DEF vars
  <1> QED
    BY <1>1, <1>2, <1>3, <1>4, <1>5, NextCases DEF WorkerAction, CronAction

\* A worker comes to record a transaction only by broadcasting it.
LEMMA JobRecords ==
  ASSUME TypeInv, [Next]_vars, NEW w \in Worker, job'[w].phase = "record"
  PROVE  job'[w] = job[w] \/ broadcast(w)
  <1>1. ASSUME NEW v \in Worker, WorkerAction(v)
        PROVE  broadcast(v) \/ \E j : step(v, j) /\ j.phase # "record"
    <2>1. ASSUME NEW err, handleSubmittingFailure(v, err) \/ handleDeliveryFailure(v, err)
          PROVE  \E j : step(v, j) /\ j.phase # "record"
      BY <2>1 DEF handleSubmittingFailure, handleDeliveryFailure, settleWith, buryNext
    <2>2. CASE \E m \in Message : handleDelivery(v, m) \/ handleUnlocked(v, m)
      BY <2>2 DEF handleDelivery, handleUnlocked, take
    <2>3. CASE WorkerStep(v)
      BY <2>1, <2>3
         DEF WorkerAction, WorkerStep, prepareConsumed, prepareReady, reserve,
             reserveRefused, broadcastTooLow, recordSubmitted, bury, settle, Idle,
             settleWith, routePreCommitFailure
    <2>4. CASE WorkerFault(v)
      BY <2>1, <2>4 DEF WorkerFault, prepareFails, reserveBusy, broadcastFails, crash, Idle,
                        routePreCommitFailure
    <2> QED
      BY <1>1, <2>2, <2>3, <2>4 DEF WorkerAction, CronAction
  <1>2. ASSUME NEW v \in Worker, WorkerAction(v)
        PROVE  job'[w] = job[w] \/ broadcast(w)
    BY <1>1, <1>2, StepJob DEF broadcast
  <1>3. CASE CronAction
    BY <1>3 DEF CronAction, CronStep, recoverSubmitting, checkNoReceipt, checkReceipt, 
                cronPublish, cronBury, cronCrash, selectStale
  <1>4. CASE Environment
    BY <1>4 DEF Environment, scanChainOnce, deliverElsewhere, republishPending,
                mine, mineReverts, mineWith, drop, loseMessage
  <1>5. CASE UNCHANGED vars
    BY <1>5 DEF vars
  <1> QED
    BY <1>2, <1>3, <1>4, <1>5, NextCases

\* IssuedInv is preserved.
LEMMA IssuedNext ==
  ASSUME TypeInv, IssuedInv, [Next]_vars
  PROVE  IssuedInv'
  <1>1. issued \subseteq issued'
    BY IssuedSteps
  <1>2. ASSUME NEW f \in Event, NEW k \in Nonce
        PROVE  /\ IsFiniteSet(Sent(f, k)')
               /\ \A tx \in Sent(f, k)' : tx.copy <= Cardinality(Sent(f, k)')
    <2> DEFINE S == Sent(f, k)
    <2>1. IsFiniteSet(S) /\ Cardinality(S) \in Nat /\ \A tx \in S : tx.copy <= Cardinality(S)
      BY FS_CardinalityType DEF IssuedInv
    <2>2. CASE UNCHANGED issued
      BY <2>1, <2>2 DEF Sent
    <2>3. ASSUME NEW e \in Event, NEW n \in Nonce, issued' = issued \cup {nextTx(e, n)}
          PROVE  /\ IsFiniteSet(S')
                 /\ \A tx \in S' : tx.copy <= Cardinality(S')
      <3> DEFINE t == nextTx(e, n)
      <3>1. t \in Tx /\ t \notin issued /\ t.event = e /\ t.nonce = n
        BY NextTxType
      <3>2. CASE e = f /\ n = k
        <4>1. S' = S \cup {t} /\ t \notin S
          BY <2>3, <3>1, <3>2 DEF Sent
        <4>2. t.copy = 1 + Cardinality(S)
          BY <3>2 DEF nextTx, Sent
        <4>3. IsFiniteSet(S') /\ Cardinality(S') = Cardinality(S) + 1
          BY <2>1, <4>1, FS_AddElement
        <4> HIDE DEF S, t
        <4>4. \A tx \in S : tx.copy \in Nat
          BY DEF S, Sent, TypeInv, Tx
        <4> QED
          BY <2>1, <4>1, <4>2, <4>3, <4>4
      <3>3. CASE ~(e = f /\ n = k)
        <4>1. S' = S
          BY <2>3, <3>1, <3>3 DEF Sent
        <4> QED
          BY <2>1, <4>1
      <3> QED
        BY <3>2, <3>3
    <2> QED
      BY <2>2, <2>3, IssuedSteps
  <1>3. ASSUME NEW e \in Event PROVE rows'[e].hash \subseteq issued'
    <2>1. rows[e] \in Row /\ RowStep(e) /\ rows[e].hash \subseteq issued
      BY RowSteps DEF TypeInv, IssuedInv
    <2>2. ASSUME NEW w \in Worker, EventOf(w) = e, recordSubmitted(w)
          PROVE  rows'[e].hash \subseteq issued
      <3>1. job[w].tx \in issued /\ job[w].tx \in Tx
        BY <2>2, RowRecorded DEF IssuedInv
      <3> QED
        BY <2>1, <2>2, <3>1, RowRecorded, RowFacts
    <2>3. ASSUME NEW w \in Worker, EventOf(w) = e, reserve(w)
          PROVE  rows'[e].hash \subseteq issued
      BY <2>1, <2>3, RowReserved, RowFacts
    <2>4. ASSUME rows'[e] \in {rows[e], insertPending(rows[e]), incrementRetry(rows[e]),
                               markFailed(rows[e]), markDeadLetter(rows[e]), markConfirmed(rows[e])}
          PROVE  rows'[e].hash \subseteq issued
      BY <2>1, <2>4, RowFacts DEF SameRow
    <2>5. rows'[e].hash \subseteq issued
      BY <2>1, <2>2, <2>3, <2>4 DEF RowStep
    <2> QED
      BY <1>1, <2>5
  <1>4. cron'.phase = "check" => cron'.hash \subseteq issued'
    BY <1>1, CronChecks DEF IssuedInv
  <1>5. ASSUME NEW w \in Worker, job'[w].phase = "record" PROVE job'[w].tx \in issued'
    <2>1. CASE job'[w] = job[w]
      BY <1>1, <1>5, <2>1 DEF IssuedInv
    <2>2. CASE broadcast(w)
      BY <2>2, StepJob DEF broadcast, accept
    <2> QED
      BY <1>5, <2>1, <2>2, JobRecords
  <1> QED
    BY <1>2, <1>3, <1>4, <1>5 DEF IssuedInv

\* What a step may do to a worker's job while the locks hold.
JobStep(w) ==
    \/ job'[w] = job[w]
    \/ job'[w] = Idle
    \/ \E m \in Message : handleDelivery(w, m)
    \/ prepareReady(w)
    \/ reserve(w)
    \/ broadcast(w)
    \/ /\ job[w] # Idle
       /\ job'[w].msg = job[w].msg
       /\ job'[w].phase \in {"settle", "bury"}

\* Every step changes every job as JobStep says.
LEMMA JobSteps ==
  ASSUME TypeInv, [Next]_vars, ~lockLost'
  PROVE  \A w \in Worker : JobStep(w)
  <1>1. ASSUME NEW v \in Worker, JobStep(v), NEW j, step(v, j)
        PROVE  \A w \in Worker : JobStep(w)
    BY <1>1, StepJob DEF JobStep
  <1>2. ASSUME NEW v \in Worker, NEW err, job[v] # Idle,
               handleSubmittingFailure(v, err) \/ handleDeliveryFailure(v, err)
        PROVE  \A w \in Worker : JobStep(w)
    <2>1. PICK j : step(v, j) /\ j.msg = job[v].msg /\ j.phase \in {"settle", "bury"}
      BY <1>2 DEF handleSubmittingFailure, handleDeliveryFailure, settleWith, buryNext
    <2>2. JobStep(v)
      BY <1>2, <2>1, StepJob DEF JobStep
    <2> QED
      BY <1>1, <2>1, <2>2
  <1>3. ASSUME NEW v \in Worker, WorkerStep(v) PROVE \A w \in Worker : JobStep(w)
    <2>1. CASE prepareConsumed(v) \/ recordSubmitted(v) \/ bury(v)
      <3>1. PICK j : /\ step(v, j)
                     /\ j.msg = job[v].msg
                     /\ j.phase \in {"settle", "bury"}
                     /\ job[v] # Idle
        BY <2>1 DEF prepareConsumed, recordSubmitted, bury, settleWith, Idle
      <3>2. JobStep(v)
        BY <3>1, StepJob DEF JobStep
      <3> QED
        BY <1>1, <3>1, <3>2
    <2>2. CASE prepareReady(v) \/ reserve(v) \/ broadcast(v)
      <3>1. JobStep(v)
        BY <2>2 DEF JobStep
      <3>2. \E j : step(v, j)
        BY <2>2 DEF prepareReady, reserve, broadcast
      <3> QED
        BY <1>1, <3>1, <3>2
    <2>3. CASE settle(v)
      BY <1>1, <2>3, StepJob DEF settle, JobStep
    <2>4. CASE reserveRefused(v) \/ broadcastTooLow(v)
      BY <1>2, <2>4 DEF reserveRefused, broadcastTooLow, routePreCommitFailure, Idle
    <2> QED
      BY <1>3, <2>1, <2>2, <2>3, <2>4 DEF WorkerAction, WorkerStep
  <1>4. ASSUME NEW v \in Worker, WorkerFault(v) PROVE \A w \in Worker : JobStep(w)
    <2>1. CASE crash(v)
      BY <1>1, <2>1, StepJob DEF crash, JobStep
    <2>2. CASE ~crash(v)
      BY <1>2, <1>4, <2>2 DEF WorkerFault, prepareFails, reserveBusy, broadcastFails,
                              routePreCommitFailure, Idle
    <2> QED
      BY <2>1, <2>2
  <1>5. ASSUME NEW v \in Worker, NEW m \in Message, handleDelivery(v, m) \/ handleUnlocked(v, m)
        PROVE  \A w \in Worker : JobStep(w)
    <2>1. handleDelivery(v, m)
      BY <1>5 DEF handleUnlocked
    <2>2. JobStep(v) /\ \E j : step(v, j)
      BY <2>1 DEF JobStep, handleDelivery, take
    <2> QED
      BY <1>1, <2>2
  <1>6. CASE UNCHANGED job
    BY <1>6 DEF JobStep
  <1>7. CASE CronAction
    BY <1>6, <1>7
       DEF CronAction, CronStep, recoverSubmitting, checkNoReceipt, checkReceipt,
           cronPublish, cronBury, cronCrash, selectStale
  <1>8. CASE Environment
    BY <1>6, <1>8 DEF Environment, scanChainOnce, deliverElsewhere, republishPending,
                mine, mineReverts, mineWith, drop, loseMessage
  <1>9. CASE UNCHANGED vars
    BY <1>6, <1>9 DEF vars
  <1> QED
    BY <1>3, <1>4, <1>5, <1>7, <1>8, <1>9, NextCases DEF WorkerAction, CronAction

\* A step that loses no lock unlocks nobody.
LEMMA LockStep ==
  ASSUME TypeInv, [Next]_vars, ~lockLost'
  PROVE  /\ ~lockLost
         /\ unlocked' \subseteq unlocked
  <1>1. ASSUME NEW w \in Worker, WorkerStep(w)
        PROVE  UNCHANGED lockLost /\ unlocked' \subseteq unlocked
    BY <1>1
       DEF WorkerAction, WorkerStep, prepareConsumed, prepareReady, reserve,
           reserveRefused, broadcast, broadcastTooLow, recordSubmitted, bury, settle,
           faultVars
  <1>2. ASSUME NEW w \in Worker, WorkerFault(w)
        PROVE  UNCHANGED lockLost /\ unlocked' \subseteq unlocked
    BY <1>2 DEF WorkerFault, prepareFails, reserveBusy, broadcastFails, crash, Fault
  <1>3. ASSUME NEW w \in Worker, NEW m \in Message, handleDelivery(w, m) \/ handleUnlocked(w, m)
        PROVE  UNCHANGED lockLost /\ unlocked' \subseteq unlocked
    BY <1>3 DEF handleDelivery, handleUnlocked, faultVars
  <1>4. CASE CronAction
    BY <1>4
       DEF CronAction, CronStep, recoverSubmitting, checkNoReceipt, checkReceipt,
           cronPublish, cronBury, cronCrash, selectStale, faultVars, Fault
  <1>5. CASE Environment
    <2>1. ASSUME NEW e \in Event, scanChainOnce(e)
          PROVE  UNCHANGED <<lockLost, unlocked>>
      BY <2>1 DEF scanChainOnce, faultVars, Fault
    <2>2. ASSUME NEW tx, NEW o, mine(tx) \/ mineReverts(tx, o)
          PROVE  UNCHANGED <<lockLost, unlocked>>
      BY <2>2 DEF mine, mineReverts, mineWith, faultVars, Fault
    <2> QED
      BY <1>5, <2>1, <2>2
         DEF Environment, deliverElsewhere, republishPending, drop, loseMessage, Fault
  <1>6. CASE UNCHANGED vars
    BY <1>6 DEF vars
  <1> QED
    BY <1>1, <1>2, <1>3, <1>4, <1>5, <1>6, NextCases DEF WorkerAction, CronAction

\* A worker keeps its event until it is idle.
LEMMA JobKept ==
  ASSUME TypeInv, NEW w \in Worker, JobStep(w), job'[w] # Idle
  PROVE  \/ job[w] # Idle /\ EventOf(w)' = EventOf(w)
         \/ \E m \in Message : handleDelivery(w, m) /\ EventOf(w)' = m.event
  <1>1. ASSUME NEW m \in Message, handleDelivery(w, m) PROVE EventOf(w)' = m.event
    BY <1>1, StepJob DEF handleDelivery, take, EventOf
  <1>2. CASE prepareReady(w) \/ reserve(w) \/ broadcast(w)
    BY <1>2, StepJob DEF prepareReady, reserve, broadcast, EventOf, Idle
  <1> QED
    BY <1>1, <1>2 DEF JobStep, EventOf

\* The locks stay exclusive.
LEMMA LockNext ==
  ASSUME TypeInv, NonceInv, [Next]_vars, ~lockLost'
  PROVE  LockInv'
  <1>1. LockInv /\ unlocked' = {}
    BY LockStep DEF NonceInv, LockInv
  <1>2. ASSUME NEW v \in Worker, NEW m \in Message, handleDelivery(v, m), NEW w \in Worker \ {v}
        PROVE  job'[w] = job[w] /\ (job[w] # Idle => EventOf(w) # m.event)
    BY <1>1, <1>2, StepJob DEF handleDelivery, take, Locked, LockInv
  <1>3. ASSUME NEW v \in Worker, NEW w \in Worker, v # w, job'[v] # Idle, job'[w] # Idle
        PROVE  EventOf(v)' # EventOf(w)'
    <2>1. JobStep(v) /\ JobStep(w)
      BY JobSteps
    <2>2. ASSUME NEW m \in Message, handleDelivery(v, m), EventOf(v)' = m.event
          PROVE  EventOf(v)' # EventOf(w)'
      BY <1>2, <1>3, <2>2 DEF EventOf
    <2>3. ASSUME NEW m \in Message, handleDelivery(w, m), EventOf(w)' = m.event
          PROVE  EventOf(v)' # EventOf(w)'
      BY <1>2, <1>3, <2>3 DEF EventOf
    <2> QED
      BY <1>1, <1>3, <2>1, <2>2, <2>3, JobKept DEF LockInv
  <1> QED
    BY <1>1, <1>3 DEF LockInv

\* The chain only grows.
LEMMA MinedGrows ==
  ASSUME TypeInv, [Next]_vars
  PROVE  /\ Len(mined) \in Nat
         /\ Len(mined') \in Nat
         /\ Len(mined) <= Len(mined')
  <1>1. mined \in Seq(Receipt)
    BY DEF TypeInv
  <1>2. ASSUME NEW x, mined' = Append(mined, x) PROVE Len(mined') = Len(mined) + 1
    BY <1>1, <1>2
  <1>3. UNCHANGED mined \/ \E x : mined' = Append(mined, x)
    BY ChainSteps DEF ChainStep, AcceptedBy, mineWith
  <1> QED
    BY <1>1, <1>2, <1>3

\* A cron that finds a receipt finds it for the row's nonce.
LEMMA ReceiptGone ==
  ASSUME TypeInv, ChainInv, CronInv, cron.phase = "check", ReceiptsOf(cron.hash) # {}
  PROVE  /\ Gone(cron.nonce)
         /\ \E i \in DOMAIN mined : mined[i].tx \in cron.hash /\ mined[i].tx.nonce = cron.nonce
  <1>1. PICK i \in DOMAIN mined : mined[i].tx \in cron.hash
    BY DEF ReceiptsOf
  <1>2. mined[i].tx.nonce = cron.nonce
    BY <1>1 DEF CronInv
  <1>3. mined[i].tx.nonce = i - 1 /\ i \in 1 .. Len(mined) /\ Len(mined) \in Nat
    BY <1>1 DEF ChainInv, TypeInv
  <1> QED
    BY <1>1, <1>2, <1>3 DEF Gone

\* The effects a step may have on a row: none, final, failed, started, reserved
\* or recorded.
RowSame(e) == SameRow(rows'[e], rows[e])

RowEnds(e) == rows'[e].status \in Terminal /\ rows'[e].hash = rows[e].hash

RowFails(e) ==
    /\ rows[e].status \in {"pending", "failed", "submitted"}
    /\ rows'[e].status = "failed"
    /\ rows'[e].nonce = rows[e].nonce
    /\ rows'[e].hash = rows[e].hash

RowStarts(e) ==
    /\ rows[e].status = "none"
    /\ rows'[e].status = "pending"
    /\ rows'[e].nonce = NoNonce
    /\ rows'[e].hash = {}

RowReserves(e) ==
    /\ rows[e].status \in {"pending", "failed", "submitting"}
    /\ rows'[e].status = "submitting"
    /\ rows'[e].hash = rows[e].hash
    /\ \E w \in Worker : EventOf(w) = e /\ reserve(w) 

RowRecords(e) ==
    /\ rows'[e].status = "submitted"
    /\ \E w \in Worker :
          /\ EventOf(w) = e
          /\ recordSubmitted(w)
          /\ rows'[e].nonce = job[w].tx.nonce
          /\ rows'[e].hash = {job[w].tx}
          /\ rows[e].status \notin Terminal

\* RowStep in terms of these effects.
LEMMA RowEffects ==
  ASSUME TypeInv, [Next]_vars, NEW e \in Event
  PROVE  \/ RowSame(e)
         \/ RowEnds(e)
         \/ RowStarts(e)
         \/ RowFails(e) /\ (FailedByWorker(e) \/ FailedByCron(e))
         \/ RowReserves(e)
         \/ RowRecords(e)
  <1>1. rows[e] \in Row /\ RowStep(e)
    BY RowSteps DEF TypeInv
  <1>2. CASE rows'[e] \in {rows[e], incrementRetry(rows[e]),
                            markDeadLetter(rows[e]), markConfirmed(rows[e])}
    BY <1>1, <1>2, RowFacts DEF SameRow, RowSame, RowEnds
  <1>3. CASE rows'[e] = insertPending(rows[e])
    BY <1>1, <1>3, RowFacts DEF RowSame, SameRow, RowStarts
  <1>4. CASE rows'[e] = markFailed(rows[e]) /\ (FailedByWorker(e) \/ FailedByCron(e))
    BY <1>1, <1>4, RowFacts DEF RowSame, SameRow, RowFails, canMarkFailed
  <1>5. ASSUME NEW w \in Worker, EventOf(w) = e, reserve(w)
        PROVE  RowReserves(e)
    BY <1>1, <1>5, RowFacts, RowReserved DEF RowReserves, canMarkSubmitting
  <1>6. ASSUME NEW w \in Worker, EventOf(w) = e, recordSubmitted(w)
        PROVE  RowRecords(e) \/ RowSame(e)
    BY <1>1, <1>6, RowFacts, RowRecorded
    DEF RowRecords, RowSame, SameRow, canMarkSubmitted, Terminal
  <1> QED
    BY <1>1, <1>2, <1>3, <1>4, <1>5, <1>6 DEF RowStep

\* With the locks held, only its own worker and the cron change a row that a
\* worker works on.
LEMMA RowWorked ==
  ASSUME TypeInv, RowInv, ChainInv, LockInv, JobInv, CronInv, [Next]_vars, NEW w \in Worker,
         job[w] # Idle, job'[w] = job[w]
  PROVE  LET e == EventOf(w) IN
         \/ RowSame(e)
         \/ RowEnds(e)
         \/ RowStarts(e)
         \/ RowFails(e) /\ FailedByCron(e)
  <1> DEFINE e == EventOf(w)
  <1>1. e \in Event
    BY DEF TypeInv, JobOK, Message, EventOf
  <1>2. ASSUME NEW v \in Worker, EventOf(v) = e, job[v] # Idle PROVE v = w
    BY <1>2 DEF LockInv
  <1>3. ~FailedByWorker(e)
    BY <1>2 DEF FailedByWorker, Idle
  <1>4. ~RowReserves(e)
    BY <1>2, RowReserved DEF RowReserves, Idle
  <1>5. ~RowRecords(e)
    BY <1>2, RowRecorded DEF RowRecords, Idle
  <1> QED
    BY <1>1, <1>3, <1>4, <1>5, RowEffects

\* RowNonceInv is preserved.
LEMMA RowNonceNext ==
  ASSUME TypeInv, RowInv, ChainInv, LockInv, JobInv, CronInv, RowNonceInv, [Next]_vars
  PROVE  RowNonceInv'
  <1> SUFFICES ASSUME NEW e \in Event
               PROVE  /\ rows'[e].status = "failed" =>
                            rows'[e].nonce = NoNonce \/ rows'[e].nonce < Len(mined')
                      /\ rows'[e].status = "submitted" =>
                            \A tx \in rows'[e].hash : tx.nonce = rows'[e].nonce
    BY DEF RowNonceInv, Gone
  <1>1. rows[e] \in Row /\ rows[e].nonce \in Int
    BY DEF TypeInv, Row, MaybeNonce, Nonce, NoNonce
  <1>2. Gone(rows[e].nonce) => rows[e].nonce < Len(mined')
    BY <1>1, MinedGrows DEF Gone
  <1>3. CASE RowSame(e)
    BY <1>2, <1>3 DEF RowSame, SameRow, RowNonceInv, Gone
  <1>4. CASE RowEnds(e) \/ RowStarts(e) \/ RowReserves(e)
    BY <1>4 DEF RowEnds, RowStarts, RowReserves, Terminal
  <1>5. CASE RowRecords(e)
    BY <1>5 DEF RowRecords
  <1>6. CASE RowFails(e) /\ FailedByWorker(e)
    <2>1. rows[e].status \in {"pending", "failed"}
      BY <1>6 DEF RowFails, FailedByWorker, JobInv, JobFacts, Unsent, Terminal
    <2> QED
      BY <1>2, <1>6, <2>1 DEF RowFails, RowInv, RowNonceInv, Gone
  <1>7. CASE RowFails(e) /\ FailedByCron(e)
    <2>1. rows[e].nonce = cron.nonce
      BY <1>7 DEF RowFails, FailedByCron, CronInv, Terminal
    <2>2. Gone(rows[e].nonce)
      BY <1>7, <2>1, ReceiptGone DEF FailedByCron
    <2> QED
      BY <1>2, <1>7, <2>2 DEF RowFails, Gone
  <1> QED
    BY <1>3, <1>4, <1>5, <1>6, <1>7, RowEffects

\* CronInv is preserved: no worker takes a row from the cron's check except to
\* record the same nonce.
LEMMA CronNext ==
  ASSUME TypeInv, RowInv, ChainInv, LockInv, JobInv, CronInv, RowNonceInv, [Next]_vars
  PROVE  CronInv'
  <1> SUFFICES ASSUME cron'.phase = "check"
               PROVE  /\ \A tx \in cron'.hash : tx.nonce = cron'.nonce
                      /\ \/ rows'[cron'.event].status \in Terminal
                         \/ /\ rows'[cron'.event].status = "submitted"
                            /\ rows'[cron'.event].nonce = cron'.nonce
    BY DEF CronInv
  <1>1. ASSUME NEW e \in Event, rows[e].status = "submitted", cron'.event = e,
               cron'.nonce = rows[e].nonce, cron'.hash = rows[e].hash, UNCHANGED rows
        PROVE  /\ \A tx \in cron'.hash : tx.nonce = cron'.nonce
               /\ rows'[cron'.event].status = "submitted"
               /\ rows'[cron'.event].nonce = cron'.nonce
    BY <1>1 DEF RowNonceInv
  <1>2. CASE UNCHANGED cron
    <2> DEFINE e == cron.event
    <2>1. e \in Event
      BY <1>2 DEF TypeInv, CronOK, Idle
    <2>2. \A tx \in cron.hash : tx.nonce = cron.nonce
      BY <1>2 DEF CronInv
    <2>3. \/ rows[e].status \in Terminal
          \/ rows[e].status = "submitted" /\ rows[e].nonce = cron.nonce
      BY <1>2 DEF CronInv
    <2>4. ASSUME rows[e].status = "submitted", rows[e].nonce = cron.nonce
          PROVE  \/ rows'[e].status \in Terminal
                 \/ rows'[e].status = "submitted" /\ rows'[e].nonce = cron.nonce
      <3>1. ~FailedByWorker(e)
        BY <2>4 DEF FailedByWorker, JobInv, JobFacts, Unsent, Terminal
      <3>2. ~FailedByCron(e)
        BY <1>2 DEF FailedByCron
      <3>3. ASSUME RowRecords(e) PROVE rows'[e].status = "submitted" /\ rows'[e].nonce = cron.nonce
        BY <2>4, <3>3, RowRecorded DEF RowRecords, JobInv, JobFacts, Holds, Live, Terminal
      <3> QED
        BY <2>1, <2>4, <3>1, <3>2, <3>3, RowEffects
           DEF RowSame, SameRow, RowEnds, RowStarts, RowReserves
    <2>5. rows[e].status \in Terminal => rows'[e] = rows[e]
      BY <2>1, TerminalStep
    <2> QED
      BY <1>2, <2>2, <2>3, <2>4, <2>5
  <1> QED
    BY <1>1, <1>2, CronChecks

\* A mined nonce stays mined.
LEMMA GoneStays ==
  ASSUME TypeInv, [Next]_vars, NEW n \in Int, Gone(n)
  PROVE  n < Len(mined')
  BY MinedGrows DEF Gone

\* What the row of a worker's event may look like in the phases before and
\* after its nonce is reserved.
LEMMA HoldsStays ==
  ASSUME TypeInv, RowInv, ChainInv, LockInv, JobInv, CronInv, [Next]_vars, NEW w \in Worker,
         job[w] # Idle, job'[w] = job[w]
  PROVE  LET e == EventOf(w) IN
         /\ Unsent(e) => rows'[e].status \in {"pending", "failed"} \cup Terminal
         /\ \A n \in Nonce : HoldsOrGone(e, n) =>
               \/ rows'[e].status \in Terminal
               \/ rows'[e].status \in Live /\ rows'[e].nonce = n
               \/ rows'[e].status = "failed" /\ n < Len(mined')
  <1> DEFINE e == EventOf(w)
  <1>1. e \in Event
    BY DEF TypeInv, JobOK, Message, EventOf
  <1>2. CASE RowSame(e) \/ RowEnds(e) \/ RowStarts(e)
    <2>1. Unsent(e) => rows'[e].status \in {"pending", "failed"} \cup Terminal
      BY <1>2 DEF Unsent, RowSame, SameRow, RowEnds, RowStarts
    <2>2. ASSUME NEW n \in Nonce, HoldsOrGone(e, n)
          PROVE  \/ rows'[e].status \in Terminal
                 \/ rows'[e].status \in Live /\ rows'[e].nonce = n
                 \/ rows'[e].status = "failed" /\ n < Len(mined')
      <3>1. Gone(n) => n < Len(mined')
        BY GoneStays DEF Nonce
      <3> QED
        BY <1>2, <2>2, <3>1
           DEF HoldsOrGone, Holds, RowSame, SameRow, RowEnds, RowStarts, Live, Terminal
    <2> QED
      BY <2>1, <2>2
  <1>3. CASE RowFails(e) /\ FailedByCron(e)
    <2>1. rows[e].status = "submitted" /\ rows[e].nonce = cron.nonce
      BY <1>3 DEF RowFails, FailedByCron, CronInv, Terminal
    <2>2. Gone(cron.nonce) /\ cron.nonce \in Int
      BY <1>3, ReceiptGone DEF FailedByCron, TypeInv, CronOK, Idle, Nonce
    <2>3. cron.nonce < Len(mined')
      BY <2>2, GoneStays
    <2> QED
      BY <1>3, <2>1, <2>3 DEF RowFails, HoldsOrGone, Holds, Live, Terminal, Unsent
  <1> QED
    BY <1>2, <1>3, RowWorked

\* While a worker records its transaction, no receipt of another transaction
\* of the event with that nonce exists, so the cron cannot fail the row.
LEMMA RecordStays ==
  ASSUME TypeInv, RowInv, ChainInv, LockInv, JobInv, CronInv, [Next]_vars, NEW w \in Worker,
         job[w].phase = "record", job'[w] = job[w]
  PROVE  LET e == EventOf(w) IN
         /\ \/ rows'[e].status \in Terminal
            \/ rows'[e].status \in Live /\ rows'[e].nonce = job[w].tx.nonce
         /\ job[w].tx \notin rows'[e].hash
  <1> DEFINE e == EventOf(w)
             t == job[w].tx
  <1>1. e \in Event /\ t \in Tx /\ t.event = e /\ job[w] # Idle
    BY DEF TypeInv, JobOK, Message, EventOf, Idle
  <1>2. Holds(e, t.nonce) /\ t \notin rows[e].hash
    BY DEF JobInv, JobFacts
  <1>3. CASE RowSame(e) \/ RowEnds(e) \/ RowStarts(e)
    BY <1>2, <1>3 DEF Holds, RowSame, SameRow, RowEnds, RowStarts, Live, Terminal
  <1>4. CASE RowFails(e) /\ FailedByCron(e)
    <2>1. rows[e].status = "submitted" /\ rows[e].nonce = cron.nonce /\ cron.phase = "check"
          /\ cron.event = e
      BY <1>4 DEF RowFails, FailedByCron, CronInv, Terminal
    <2>2. cron.nonce = t.nonce
      BY <1>2, <2>1 DEF Holds, Terminal
    <2>3. PICK i \in DOMAIN mined : mined[i].tx \in cron.hash /\ mined[i].tx.nonce = cron.nonce
      BY <1>4, ReceiptGone DEF FailedByCron
    <2>4. mined[i].tx.event = e
      BY <2>1, <2>3 DEF TypeInv, CronOK, Idle
    <2>5. mined[i].tx = t
      BY <2>2, <2>3, <2>4 DEF JobInv, JobFacts
    <2>6. t \notin cron.hash
      BY <2>1 DEF JobInv, JobFacts
    <2> QED
      BY <2>3, <2>5, <2>6
  <1> QED
    BY <1>1, <1>3, <1>4, RowWorked

\* The mempool and the chain hold no other transaction of its event and nonce.
LEMMA RecordChain ==
  ASSUME TypeInv, ChainInv, IssuedInv, LockInv, JobInv, [Next]_vars, NEW w \in Worker,
         job[w].phase = "record"
  PROVE  /\ \A tx \in pool'[job[w].tx.nonce] : tx.event = EventOf(w) => tx = job[w].tx
         /\ \A i \in DOMAIN mined' :
               mined'[i].tx.event = EventOf(w) /\ mined'[i].tx.nonce = job[w].tx.nonce
               => mined'[i].tx = job[w].tx
  <1> DEFINE e == EventOf(w)
             t == job[w].tx
             n == t.nonce
  <1>1. e \in Event /\ t \in Tx /\ n \in Nonce /\ job[w] # Idle
    BY DEF TypeInv, JobOK, Message, EventOf, Idle, Tx
  <1>2. /\ \A tx \in pool[n] : tx.event = e => tx = t
        /\ \A i \in DOMAIN mined : mined[i].tx.event = e /\ mined[i].tx.nonce = n => mined[i].tx = t
    BY DEF JobInv, JobFacts
  <1> HIDE DEF t, n, e
  <1>3. CASE UNCHANGED <<mined, pool, issued>>
    BY <1>2, <1>3 DEF t, n, e
  <1>4. ASSUME NEW v \in Worker, AcceptedBy(v)
        PROVE  /\ \A tx \in pool'[n] : tx.event = e => tx = t
               /\ \A i \in DOMAIN mined' : mined'[i].tx.event = e /\ mined'[i].tx.nonce = n
                                           => mined'[i].tx = t
    <2>1. job[v].nonce \in Nonce /\ EventOf(v) \in Event /\ job[v] # Idle /\ v # w
      BY <1>4 DEF TypeInv, JobOK, AcceptedBy, Idle, Message, EventOf
    <2>2. EventOf(v) # e
      BY <1>1, <2>1 DEF LockInv, e
    <2>3. nextTx(EventOf(v), job[v].nonce).event = EventOf(v)
      BY <2>1, NextTxType
    <2> QED
      BY <1>1, <1>2, <1>4, <2>1, <2>2, <2>3 DEF AcceptedBy, accept, TypeInv
  <1>5. ASSUME NEW tx \in NextToMine, NEW o, mineWith(tx, o)
        PROVE  /\ \A s \in pool'[n] : s.event = e => s = t
               /\ \A i \in DOMAIN mined' : mined'[i].tx.event = e /\ mined'[i].tx.nonce = n
                                           => mined'[i].tx = t
    <2>1. tx \in Tx /\ tx \in pool[tx.nonce] /\ tx.nonce \in Nonce
      BY DEF NextToMine, TypeInv, Tx
    <2>2. tx.event = e /\ tx.nonce = n => tx = t
      BY <1>2, <2>1
    <2>3. mined \in Seq(Receipt) /\ mined' = Append(mined, [tx |-> tx, outcome |-> o])
      BY <1>5 DEF mineWith, TypeInv
    <2>4. \A i \in DOMAIN mined' :
            (i \in DOMAIN mined /\ mined'[i] = mined[i]) \/ mined'[i].tx = tx
      BY <2>3
    <2>5. \A s \in pool'[n] : s \in pool[n]
      BY <1>1, <1>5, <2>1 DEF mineWith, TypeInv
    <2> QED
      BY <1>2, <2>2, <2>4, <2>5
  <1>6. ASSUME NEW k \in Nonce, pool' = [pool EXCEPT ![k] = {}], UNCHANGED <<mined, issued>>
        PROVE  /\ \A tx \in pool'[n] : tx.event = e => tx = t
               /\ \A i \in DOMAIN mined' : mined'[i].tx.event = e /\ mined'[i].tx.nonce = n
                                           => mined'[i].tx = t
    BY <1>1, <1>2, <1>6 DEF TypeInv
  <1> QED
    BY <1>3, <1>4, <1>5, <1>6, ChainSteps DEF ChainStep, t, n, e

\* A worker that does not move keeps its facts, whatever the cron, the chain and
\* the other workers do.
LEMMA JobUnchanged ==
  ASSUME TypeInv, RowInv, ChainInv, IssuedInv, LockInv, JobInv, CronInv, [Next]_vars,
         NEW w \in Worker, job'[w] = job[w]
  PROVE  JobFacts(w)'
  <1> DEFINE e == EventOf(w)
  <1>1. e' = e
    BY DEF EventOf
  <1>2. CASE job[w].phase \in {"prepare", "reserve", "broadcast"}
    <2>1. job[w] # Idle
      BY <1>2 DEF Idle
    <2>2. /\ Unsent(e) => Unsent(e)'
          /\ \A n \in Nonce : HoldsOrGone(e, n) => HoldsOrGone(e, n)'
      BY <1>1, <2>1, HoldsStays DEF Unsent, HoldsOrGone, Holds, Gone
    <2>3. /\ job[w].phase = "prepare" /\ job[w].resubmit # NoNonce => job[w].resubmit \in Nonce
          /\ job[w].phase = "broadcast" => job[w].nonce \in Nonce
      BY DEF TypeInv, JobOK, Idle, MaybeNonce
    <2> QED
      BY <1>1, <1>2, <2>2, <2>3 DEF JobInv, JobFacts
  <1>3. CASE job[w].phase = "record"
    <2> DEFINE t == job[w].tx
    <2>1. e \in Event /\ t \in Tx /\ t.event = e
      BY <1>3 DEF TypeInv, JobOK, Message, EventOf, Idle
    <2>2. Holds(e, t.nonce)' /\ t \notin rows'[e].hash
      BY <1>1, <1>3, RecordStays DEF Holds
    <2>3. ASSUME cron'.phase = "check" PROVE t \notin cron'.hash
      <3>1. CASE UNCHANGED cron
        BY <1>3, <2>3, <3>1 DEF JobInv, JobFacts
      <3>2. ASSUME NEW f \in Event, cron'.hash = rows[f].hash PROVE t \notin cron'.hash
        BY <1>3, <2>1, <3>2 DEF JobInv, JobFacts, RowInv
      <3> QED
        BY <2>3, <3>1, <3>2, CronChecks
    <2> QED
      BY <1>1, <1>3, <2>2, <2>3, RecordChain DEF JobFacts
  <1>4. CASE job[w].phase \notin {"prepare", "reserve", "broadcast", "record"}
    BY <1>4 DEF JobFacts
  <1> QED
    BY <1>2, <1>3, <1>4

\* A worker that takes a message gets its facts from the row it reads.
LEMMA JobTaken ==
  ASSUME TypeInv, RowInv, RowNonceInv, [Next]_vars, NEW w \in Worker, NEW m \in Message, take(w, m)
  PROVE  JobFacts(w)'
  <1> DEFINE e == m.event
             rec == insertPending(rows[e])
  <1>1. e \in Event /\ rows[e] \in Row /\ rec \in Row
    BY RowTypes DEF Message, TypeInv
  <1>2. rows'[e] = rec
    BY <1>1, RowUpdated DEF take
  <1>3. mined' = mined /\ cron' = cron
    BY DEF take, chainVars
  <1>4. CASE skip(rec, m) \/ staleReplace(rec, m)
    BY <1>4, StepJob DEF take, JobFacts
  <1>5. CASE ~(skip(rec, m) \/ staleReplace(rec, m))
    <2>1. /\ job'[w].phase = "prepare"
          /\ EventOf(w)' = e
          /\ job'[w].resubmit = resubmitNonce(rec, m)
      BY <1>5, StepJob DEF take, EventOf
    <2>2. rec.status \in {"pending", "failed"} \cup Live
      BY <1>1, <1>5, RowFacts DEF skip, Row, Status, Live
    <2>3. rec = rows[e] \/ (rec.status = "pending" /\ rec.nonce = NoNonce)
      BY <1>1, RowFacts
    <2>4. /\ rec.status \in Live => rec.nonce # NoNonce
          /\ rec.status = "pending" => rec.nonce = NoNonce
          /\ rec.status = "failed" => rec.nonce = NoNonce \/ Gone(rec.nonce)
      BY <1>1, <2>3 DEF RowInv, RowNonceInv, Live
    <2>5. CASE resubmitNonce(rec, m) = NoNonce
      <3>1. m.replace = NoNonce /\ rec.status # "submitting"
        BY <2>4, <2>5 DEF resubmitNonce, Live
      <3>2. rec.status \in {"pending", "failed"}
        BY <1>5, <2>2, <3>1 DEF skip, Live
      <3> QED
        BY <1>2, <2>1, <2>5, <3>2 DEF JobFacts, Unsent
    <2>6. CASE resubmitNonce(rec, m) # NoNonce
      <3>1. resubmitNonce(rec, m) = rec.nonce
        BY <1>5, <2>6 DEF resubmitNonce, staleReplace
      <3>2. rec.status \in Live \/ (rec.status = "failed" /\ Gone(rec.nonce))
        BY <2>2, <2>4, <2>6, <3>1
      <3>3. HoldsOrGone(EventOf(w), job[w].resubmit)'
        BY <1>2, <1>3, <2>1, <3>1, <3>2 DEF HoldsOrGone, Holds, Gone
      <3> QED
        BY <2>1, <2>6, <3>3 DEF JobFacts
    <2> QED
      BY <2>5, <2>6
  <1> QED
    BY <1>4, <1>5

\* A worker that has broadcast: its nonce was not mined, so its row still holds
\* it, and its transaction is new to the row and to the cron.
LEMMA JobBroadcast ==
  ASSUME TypeInv, RowInv, ChainInv, IssuedInv, JobInv, [Next]_vars, NEW w \in Worker, broadcast(w)
  PROVE  JobFacts(w)'
  <1> DEFINE e == EventOf(w)
             n == job[w].nonce
             t == nextTx(e, n)
  <1>1. n \in Nonce /\ e \in Event
    BY DEF TypeInv, JobOK, broadcast, Idle, Message, EventOf
  <1>2. t \in Tx /\ t \notin issued /\ t.event = e /\ t.nonce = n
    BY <1>1, NextTxType
  <1>3. job'[w].phase = "record" /\ job'[w].tx = t /\ EventOf(w)' = e
    BY StepJob DEF broadcast, EventOf
  <1>4. /\ n >= Len(mined)
        /\ pool' = [pool EXCEPT ![n] = {t}]
        /\ UNCHANGED <<rows, cron, mined>>
    BY DEF broadcast, accept
  <1>5. HoldsOrGone(e, n)
    BY DEF JobInv, JobFacts, broadcast
  <1> HIDE DEF t, n, e
  <1>6. Len(mined) \in Nat /\ DOMAIN mined = 1 .. Len(mined)
    BY DEF TypeInv
  <1>7. Holds(EventOf(w), job[w].tx.nonce)'
    <2>1. Holds(e, n)
      BY <1>1, <1>4, <1>5, <1>6 DEF HoldsOrGone, Gone, Nonce
    <2> QED
      BY <1>2, <1>3, <1>4, <2>1 DEF Holds
  <1>8. t \notin rows'[e].hash /\ (cron'.phase = "check" => t \notin cron'.hash)
    BY <1>1, <1>2, <1>4 DEF IssuedInv
  <1>9. pool'[n] = {t}
    BY <1>1, <1>4 DEF TypeInv
  <1>10. \A i \in DOMAIN mined' : mined'[i].tx.nonce # n
    BY <1>1, <1>4, <1>6 DEF ChainInv, Nonce
  <1>11. /\ (job[w].tx \notin rows[EventOf(w)].hash)'
         /\ (cron.phase = "check" => job[w].tx \notin cron.hash)'
         /\ (\A tx \in pool[job[w].tx.nonce] : tx.event = EventOf(w) => tx = job[w].tx)'
         /\ (\A i \in DOMAIN mined : mined[i].tx.nonce # job[w].tx.nonce)'
    BY <1>2, <1>3, <1>8, <1>9, <1>10
  <1> QED
    BY <1>3, <1>7, <1>11 DEF JobFacts

\* JobInv is preserved.
LEMMA JobNext ==
  ASSUME TypeInv, RowInv, ChainInv, IssuedInv, LockInv, JobInv, CronInv, RowNonceInv, [Next]_vars,
         ~lockLost'
  PROVE  JobInv'
  <1> SUFFICES ASSUME NEW w \in Worker PROVE JobFacts(w)'
    BY DEF JobInv
  <1>1. JobStep(w)
    BY JobSteps
  <1>2. CASE prepareReady(w)
    <2>1. /\ UNCHANGED <<rows, mined>>
          /\ EventOf(w)' = EventOf(w)
          /\ job[w].phase = "prepare"
          /\ IF job[w].resubmit # NoNonce
             THEN job'[w].phase = "broadcast" /\ job'[w].nonce = job[w].resubmit
             ELSE job'[w].phase = "reserve"
      BY <1>2, StepJob DEF prepareReady, chainVars, EventOf
    <2> QED
      BY <2>1 DEF JobInv, JobFacts, HoldsOrGone, Holds, Gone, Unsent
  <1>3. CASE reserve(w)
    <2>1. /\ EventOf(w) \in Event
          /\ EventOf(w)' = EventOf(w)
          /\ job'[w].phase = "broadcast"
          /\ job'[w].nonce \in Nonce
          /\ rows'[EventOf(w)] = markSubmitting(rows[EventOf(w)], job'[w].nonce)
      BY <1>3, RowReserved DEF EventOf
    <2>2. rows'[EventOf(w)].status = "submitting" /\ rows'[EventOf(w)].nonce = job'[w].nonce
      BY <2>1, RowFacts DEF TypeInv
    <2> QED
      BY <2>1, <2>2 DEF JobFacts, HoldsOrGone, Holds, Live
  <1>4. CASE job'[w] = Idle \/ job'[w].phase \in {"settle", "bury"}
    BY <1>4 DEF JobFacts, Idle
  <1>5. ASSUME NEW m \in Message, handleDelivery(w, m) PROVE JobFacts(w)'
    BY <1>5, JobTaken DEF handleDelivery
  <1> QED
    BY <1>1, <1>2, <1>3, <1>4, <1>5, JobUnchanged, JobBroadcast DEF JobStep

\* A row becomes live, or changes its nonce while it is, only by a reservation.
LEMMA LiveSteps ==
  ASSUME TypeInv, JobInv, [Next]_vars, NEW e \in Event, rows'[e].status \in Live
  PROVE  \/ rows[e].status \in Live /\ rows'[e].nonce = rows[e].nonce
         \/ \E w \in Worker : EventOf(w) = e /\ reserve(w)
  <1>1. ASSUME RowRecords(e)
        PROVE  rows[e].status \in Live /\ rows'[e].nonce = rows[e].nonce
    BY <1>1, RowRecorded DEF RowRecords, JobInv, JobFacts, Holds
  <1> QED
    BY <1>1, RowEffects
       DEF RowSame, SameRow, RowEnds, RowStarts, RowFails, RowReserves, Live, Terminal

\* A reserved nonce differs from that of every live row.
LEMMA ReservedDiffers ==
  ASSUME TypeInv, RowInv, NEW w \in Worker, reserve(w), NEW f \in Event, f # EventOf(w),
         rows'[f].status \in Live
  PROVE  rows'[f].nonce # rows'[EventOf(w)].nonce
  <1>1. rows'[f] = rows[f] /\ EventOf(w) \in Event
    BY RowReserved
  <1>2. f \in CountedRows
    BY <1>1 DEF CountedRows, RowInv, Live
  <1>3. rows[f].nonce # reserveNonce(job[w].chainNonce)
    BY <1>2, ReservedNonce, RowReserved
  <1>4. rows'[EventOf(w)].nonce = reserveNonce(job[w].chainNonce)
    BY <1>1, RowReserved, RowFacts DEF TypeInv
  <1> QED
    BY <1>1, <1>3, <1>4

\* LiveNoncesDiffer is preserved.
LEMMA LiveNext ==
  ASSUME TypeInv, RowInv, JobInv, LiveNoncesDiffer, ~lockLost, [Next]_vars
  PROVE  LiveNoncesDiffer'
  <1> SUFFICES ASSUME NEW e \in Event, NEW f \in Event, e # f,
                      rows'[e].status \in Live, rows'[f].status \in Live
               PROVE  rows'[e].nonce # rows'[f].nonce
    BY DEF LiveNoncesDiffer, Live
  <1>1. CASE \E w \in Worker : EventOf(w) = e /\ reserve(w)
    BY <1>1, ReservedDiffers
  <1>2. CASE \E w \in Worker : EventOf(w) = f /\ reserve(w)
    BY <1>2, ReservedDiffers
  <1>3. CASE /\ rows[e].status \in Live /\ rows'[e].nonce = rows[e].nonce
             /\ rows[f].status \in Live /\ rows'[f].nonce = rows[f].nonce
    BY <1>3 DEF LiveNoncesDiffer, Live
  <1> QED
    BY <1>1, <1>2, <1>3, LiveSteps

\* PooledIsTracked is preserved: a row is given another nonce only after its old
\* one was mined.
LEMMA PooledNext ==
  ASSUME TypeInv, RowInv, ChainInv, IssuedInv, JobInv, RowNonceInv, PooledIsTracked, ~lockLost,
         [Next]_vars
  PROVE  PooledIsTracked'
  <1> SUFFICES ASSUME NEW n \in Nonce, NEW tx \in pool'[n]
               PROVE  rows'[tx.event].status \in Terminal \/ rows'[tx.event].nonce = n
    BY DEF PooledIsTracked
  <1>1. CASE tx \in pool[n]
    <2> DEFINE e == tx.event
    <2>1. e \in Event /\ n \in Int /\ n # NoNonce
      BY <1>1 DEF TypeInv, Tx, Nonce, NoNonce
    <2>2. rows[e].status \in Terminal \/ rows[e].nonce = n
      BY <1>1 DEF PooledIsTracked
    <2>3. ~Gone(n)
      BY <1>1 DEF ChainInv, Gone
    <2>4. ASSUME rows[e].status \notin Terminal, rows[e].nonce = n, RowReserves(e)
          PROVE  FALSE
      <3>1. PICK w \in Worker : EventOf(w) = e /\ reserve(w)
        BY <2>4 DEF RowReserves
      <3>2. rows[e].status \in {"pending", "failed"}
        BY <2>4, <3>1, RowReserved DEF JobInv, JobFacts, Unsent
      <3> QED
        BY <2>1, <2>3, <2>4, <3>2 DEF RowInv, RowNonceInv
    <2>5. ASSUME rows[e].status \notin Terminal, rows[e].nonce = n, RowRecords(e)
          PROVE  rows'[e].nonce = n
      BY <2>5, RowRecorded DEF RowRecords, JobInv, JobFacts, Holds
    <2>6. ASSUME rows[e].status = "none", rows[e].nonce = n PROVE FALSE
      BY <2>1, <2>6 DEF RowInv
    <2>7. CASE rows[e].status \notin Terminal /\ rows[e].nonce = n
      BY <2>1, <2>4, <2>5, <2>6, <2>7, RowEffects DEF RowSame, SameRow, RowEnds, RowStarts, RowFails
    <2> QED
      BY <2>1, <2>2, <2>7, TerminalStep
  <1>2. ASSUME NEW w \in Worker, AcceptedBy(w), tx \notin pool[n]
        PROVE  rows'[tx.event].status \in Terminal \/ rows'[tx.event].nonce = n
    <2> DEFINE k == job[w].nonce
    <2>1. k \in Nonce /\ EventOf(w) \in Event /\ Len(mined) \in Nat
      BY <1>2 DEF TypeInv, JobOK, AcceptedBy, Idle, Message, EventOf
    <2>2. /\ HoldsOrGone(EventOf(w), k)
          /\ k >= Len(mined)
          /\ pool' = [pool EXCEPT ![k] = {nextTx(EventOf(w), k)}]
      BY <1>2 DEF JobInv, JobFacts, AcceptedBy, accept
    <2>3. k = n /\ tx = nextTx(EventOf(w), k)
      BY <1>2, <2>1, <2>2 DEF TypeInv
    <2>4. tx.event = EventOf(w)
      BY <2>1, <2>3, NextTxType
    <2>5. Holds(EventOf(w), n)
      BY <2>1, <2>2, <2>3 DEF HoldsOrGone, Gone, Nonce
    <2> QED
      BY <1>2, <2>4, <2>5 DEF Holds, AcceptedBy
  <1>3. tx \in pool[n] \/ \E w \in Worker : AcceptedBy(w)
    <2>1. ASSUME NEW t \in NextToMine, NEW o, mineWith(t, o) PROVE tx \in pool[n]
      BY <2>1 DEF mineWith, NextToMine, TypeInv
    <2>2. ASSUME NEW k \in Nonce, pool' = [pool EXCEPT ![k] = {}] PROVE tx \in pool[n]
      BY <2>2 DEF TypeInv
    <2> QED
      BY <2>1, <2>2, ChainSteps DEF ChainStep
  <1> QED
    BY <1>1, <1>2, <1>3

\* NonceInv is preserved.
LEMMA NonceNext ==
  ASSUME IInv, [Next]_vars
  PROVE  NonceInv'
  <1> SUFFICES ASSUME ~lockLost'
               PROVE  (/\ LockInv /\ JobInv /\ CronInv /\ RowNonceInv
                       /\ LiveNoncesDiffer /\ PooledIsTracked)'
    BY DEF NonceInv
  <1>1. TypeInv /\ RowInv /\ ChainInv /\ IssuedInv /\ NonceInv
    BY DEF IInv
  <1>2. ~lockLost
    BY <1>1, LockStep
  <1>3. LockInv /\ JobInv /\ CronInv /\ RowNonceInv /\ LiveNoncesDiffer /\ PooledIsTracked
    BY <1>1, <1>2 DEF NonceInv
  <1>4. LockInv'
    BY <1>1, LockNext
  <1>5. JobInv'
    BY <1>1, <1>3, JobNext
  <1>6. CronInv'
    BY <1>1, <1>3, CronNext
  <1>7. RowNonceInv'
    BY <1>1, <1>3, RowNonceNext
  <1>8. LiveNoncesDiffer'
    BY <1>1, <1>2, <1>3, LiveNext
  <1>9. PooledIsTracked'
    BY <1>1, <1>2, <1>3, PooledNext
  <1> QED
    BY <1>4, <1>5, <1>6, <1>7, <1>8, <1>9

\* Every step preserves the invariant.
LEMMA IInvNext == IInv /\ [Next]_vars => IInv'
  <1> SUFFICES ASSUME IInv, [Next]_vars PROVE IInv'
    OBVIOUS
  <1>1. TypeInv /\ RowInv /\ DeliveryInv /\ ChainInv /\ IssuedInv
    BY DEF IInv
  <1>2. TypeInv' /\ RowInv' /\ DeliveryInv' /\ ChainInv' /\ IssuedInv'
    BY <1>1, TypeNext, RowNext, DeliveryNext, ChainNext, IssuedNext
  <1>3. NonceInv'
    BY NonceNext
  <1> QED
    BY <1>2, <1>3 DEF IInv

\* The invariant holds initially.
LEMMA IInvInit == Init => IInv
  <1> SUFFICES ASSUME Init PROVE IInv
    OBVIOUS
  <1>1. /\ \A e \in Event : rows[e] = NoRow
        /\ \A w \in Worker : job[w] = Idle
        /\ cron = Idle
        /\ mined = << >>
        /\ \A n \in Nonce : pool[n] = {}
        /\ issued = {}
        /\ unlocked = {}
    BY DEF Init
  <1>2. NoRow \in Row
    <2>1. "none" \in Status /\ NoNonce \in MaybeNonce /\ {} \in SUBSET Tx /\ 0 \in Nat
      BY DEF Status, MaybeNonce
    <2> QED
      BY <2>1 DEF NoRow, Row
  <1>3. TypeInv
    <2>1. mined \in Seq(Receipt) /\ pool \in [Nonce -> SUBSET Tx] /\ rows \in [Event -> Row]
      BY <1>2 DEF Init
    <2>2. DOMAIN queue = Message /\ DOMAIN job = Worker
      BY DEF Init
    <2>3. CronOK(cron) /\ \A w \in Worker : JobOK(job[w])
      BY <1>1 DEF CronOK, JobOK
    <2> QED
      BY <2>1, <2>2, <2>3 DEF Init, TypeInv
  <1>4. RowInv
    <2>1. NoRow.status = "none" /\ NoRow.nonce = NoNonce /\ NoRow.hash = {}
      BY DEF NoRow
    <2> QED
      BY <1>1, <2>1 DEF RowInv, Live
  <1>5. DeliveryInv
    BY <1>1 DEF DeliveryInv, ConfirmedIsDelivered, NoRow
  <1>6. ChainInv
    BY <1>1, TransactionsAssumption DEF ChainInv
  <1>7. IssuedInv
    <2>1. \A e \in Event, n \in Nonce : Sent(e, n) = {}
      BY <1>1 DEF Sent
    <2>2. \A e \in Event, n \in Nonce :
            /\ IsFiniteSet(Sent(e, n))
            /\ \A tx \in Sent(e, n) : tx.copy <= Cardinality(Sent(e, n))
      BY <2>1, FS_EmptySet, Zenon
    <2>3. /\ \A e \in Event : rows[e].hash \subseteq issued
          /\ cron.phase # "check"
          /\ \A w \in Worker : job[w].phase # "record"
      BY <1>1 DEF NoRow, Idle
    <2> QED
      BY <2>2, <2>3 DEF IssuedInv
  <1>8. NonceInv
    BY <1>1
       DEF NonceInv, LockInv, JobInv, JobFacts, CronInv, RowNonceInv, LiveNoncesDiffer,
           PooledIsTracked, NoRow, Idle
  <1> QED
    BY <1>3, <1>4, <1>5, <1>6, <1>7, <1>8 DEF IInv

\* The invariant holds.
LEMMA IInvCorrect == Spec => []IInv
  BY IInvInit, IInvNext, PTL DEF Spec

\* A terminal row is never changed again, although workers and the cron finish
\* a row concurrently on what they read before (markConfirmed and
\* markDeadLetter of relayer-bot/src/db/transactions.ts).
THEOREM TerminalFinal == Spec => TerminalIsFinal
  <1>1. IInv /\ [Next]_vars =>
          [\A e \in Event : rows[e].status \in Terminal => rows'[e] = rows[e]]_vars
    BY TerminalStep DEF IInv
  <1> QED
    BY <1>1, IInvCorrect, PTL DEF Spec, TerminalIsFinal

\* A row is confirmed only when the destination has consumed its VAA, through
\* the worker's check or the cron's receipt (worker.ts, cron.ts).
THEOREM ConfirmedCorrect == Spec => []ConfirmedIsDelivered
  <1>1. IInv => ConfirmedIsDelivered
    BY DEF IInv, DeliveryInv
  <1> QED
    BY <1>1, IInvCorrect, PTL

\* A reserved nonce is never handed out twice: as long as no lock session dies,
\* live rows hold different nonces (reserveNonce and markSubmitting), whatever
\* fails, crashes or is reordered.
THEOREM NoncesCorrect == Spec => []LiveNoncesDiffer
  <1>1. IInv => LiveNoncesDiffer
    BY DEF IInv, NonceInv, LiveNoncesDiffer
  <1> QED
    BY <1>1, IInvCorrect, PTL

\* A transaction in the mempool belongs to a row that is final or holds its
\* nonce, so that the cron can find it again (the intent log of worker.ts), as
\* long as no lock session dies.
THEOREM IntentLogCorrect == Spec => []PooledIsTracked
  <1>1. IInv => PooledIsTracked
    BY DEF IInv, NonceInv, PooledIsTracked
  <1> QED
    BY <1>1, IInvCorrect, PTL
=============================================================================
