---------------------------- MODULE Transactions ----------------------------
(***************************************************************************)
(* The rows of the relayer bot's transactions table and the guarded        *)
(* updates of relayer-bot/src/db/transactions.ts.                          *)
(*                                                                         *)
(* Each update is one SQL statement: it applies to the row as it is then,  *)
(* whatever its caller read earlier, and does nothing when the row's       *)
(* status is not one of those its WHERE clause names.  All rows are for    *)
(* one wallet and one destination chain, so a reservation is a nonce.      *)
(***************************************************************************)
EXTENDS Integers

CONSTANTS
    Event,      \* source events; a row is keyed by its event
    MaxRetries, \* max_retries of every row
    MaxNonce,   \* bound on the nonces the wallet uses
    MaxSends    \* bound on the transactions an event sends with one nonce

ASSUME TransactionsAssumption ==
    MaxRetries \in Nat /\ MaxNonce \in Nat /\ MaxSends \in Nat \ {0}

NoNonce == -1       \* NULL nonce_used; no replace_nonce

Nonce == 0 .. MaxNonce

\* A row: its status, nonce_used, relay_tx_hash (the transaction it names, or
\* empty for NULL) and retry_count.  A transaction names its event, its nonce
\* and which of the event's transactions with that nonce it is: each has
\* another fee and so another hash.
NoRow == [status |-> "none", nonce |-> NoNonce, hash |-> {}, retries |-> 0]

Terminal == {"confirmed", "dead_letter"}

\* retry_count + 1; only whether it has reached max_retries is ever tested.
bumped(row) == IF row.retries < MaxRetries THEN row.retries + 1 ELSE MaxRetries

exhausted(row) == row.retries >= MaxRetries

insertPending(row) ==
    IF row.status = "none" THEN [NoRow EXCEPT !.status = "pending"] ELSE row

canMarkSubmitting(row) == row.status \in {"pending", "failed", "submitting"}

\* relay_tx_hash keeps the value of an earlier attempt.
markSubmitting(row, nonce) ==
    [row EXCEPT !.status = "submitting", !.nonce = nonce]

canMarkSubmitted(row) == row.status \in {"pending", "failed", "submitting", "submitted"}

markSubmitted(row, tx) ==
    IF canMarkSubmitted(row)
    THEN [row EXCEPT !.status = "submitted", !.hash = {tx}, !.nonce = tx.nonce]
    ELSE row

\* A row with no relay_tx_hash gives its nonce back when it becomes terminal.
keptNonce(row) == IF row.hash = {} THEN NoNonce ELSE row.nonce

markConfirmed(row) ==
    IF row.status \in {"pending", "submitting", "submitted", "failed"}
    THEN [row EXCEPT !.status = "confirmed", !.nonce = keptNonce(row)]
    ELSE row

canIncrementRetry(row) == row.status \in {"submitting", "submitted"}

incrementRetry(row) ==
    IF canIncrementRetry(row) THEN [row EXCEPT !.retries = bumped(row)] ELSE row

canMarkFailed(row) == row.status \in {"pending", "submitted", "failed"}

markFailed(row) ==
    IF canMarkFailed(row)
    THEN [row EXCEPT !.status = "failed", !.retries = bumped(row)]
    ELSE row

\* Mutant of markDeadLetter: a confirmed row is overwritten.
markDeadLetter_ClobbersConfirmed(row) ==
    IF row.status \notin {"dead_letter", "none"}
    THEN [row EXCEPT !.status = "dead_letter", !.nonce = keptNonce(row)]
    ELSE row

markDeadLetter(row) ==
    IF row.status \notin Terminal \cup {"none"}
    THEN [row EXCEPT !.status = "dead_letter", !.nonce = keptNonce(row)]
    ELSE row

=============================================================================
