---------------------------- MODULE RateLimiter ----------------------------
(***************************************************************************)
(* The rate limiter of an NttManager (evm/src/libraries/RateLimiter.sol).  *)
(*                                                                         *)
(* A limit with its current capacity and the time of its last use is a     *)
(* record; the operators are what the library's functions read from it and *)
(* write to it.  All the amounts of one limit have the decimals of the     *)
(* local token (shift), so they are plain numbers here.                    *)
(***************************************************************************)
EXTENDS TrimmedAmount

CONSTANT rateLimitDuration  \* time a limit takes to replenish; 0 skips the limiter

ASSUME RateLimitDurationAssumption == rateLimitDuration \in Nat

minAmount(a, b) == IF a < b THEN a ELSE b

RateLimitParams == [limit : Nat, currentCapacity : Nat, lastTxTimestamp : Nat]

\* A limit just set for the first time (the old limit is null).
freshLimit(l, now) ==
    [limit |-> l, currentCapacity |-> l, lastTxTimestamp |-> now]

\* The capacity grows linearly with time until it reaches the limit.
getCurrentCapacity(p, now) ==
    IF rateLimitDuration = 0 THEN U64_MAX
    ELSE minAmount(p.currentCapacity
                     + (p.limit * (now - p.lastTxTimestamp)) \div rateLimitDuration,
                   p.limit)

\* Mutant of calculateNewCurrentCapacity: a lower limit leaves the capacity.
calculateNewCurrentCapacity_KeepsOld(newLimit, oldLimit, capacity) ==
    IF oldLimit > newLimit THEN capacity ELSE capacity + (newLimit - oldLimit)

\* A change of the limit moves the capacity by the same amount, down to zero.
calculateNewCurrentCapacity(newLimit, oldLimit, capacity) ==
    IF oldLimit > newLimit
    THEN IF capacity > oldLimit - newLimit
         THEN capacity - (oldLimit - newLimit) ELSE 0
    ELSE capacity + (newLimit - oldLimit)

\* _setLimit on a limit that is not null.
newLimitParams(p, l, now) ==
    [limit |-> l,
     currentCapacity |->
        calculateNewCurrentCapacity(l, p.limit, getCurrentCapacity(p, now)),
     lastTxTimestamp |-> now]

\* _setLimit does not revert: the sum is a 64-bit amount, and the capacity it
\* stores does not exceed the limit (CapacityCannotExceedLimit).
setLimitSucceeds(p, l, now) ==
    newLimitParams(p, l, now).currentCapacity <= minAmount(l, U64_MAX)

isAmountRateLimited(p, amount, now) ==
    rateLimitDuration # 0 /\ getCurrentCapacity(p, now) < amount

\* Mutant of consumeAmount: the refill of the time before is paid out again.
consumeAmount_KeepsTimestamp(p, amount, now) ==
    IF rateLimitDuration = 0 THEN p
    ELSE [p EXCEPT !.currentCapacity = getCurrentCapacity(p, now) - amount]

consumeAmount(p, amount, now) ==
    IF rateLimitDuration = 0 THEN p
    ELSE [p EXCEPT !.currentCapacity = getCurrentCapacity(p, now) - amount,
                   !.lastTxTimestamp = now]

\* Mutants of backfillAmount: flow in the other direction is not capped; the
\* refill since the last use is forgotten.
backfillAmount_ForgetsRefill(p, amount, now) ==
    IF rateLimitDuration = 0 THEN p
    ELSE [p EXCEPT !.currentCapacity = minAmount(p.currentCapacity + amount, p.limit),
                   !.lastTxTimestamp = now]

backfillAmount_NoCap(p, amount, now) ==
    IF rateLimitDuration = 0 THEN p
    ELSE [p EXCEPT !.currentCapacity =
                        minAmount(getCurrentCapacity(p, now) + amount, U64_MAX),
                   !.lastTxTimestamp = now]

\* Flow in the other direction replenishes the capacity (backflow), saturating
\* at 64 bits and then at the limit.
backfillAmount(p, amount, now) ==
    IF rateLimitDuration = 0 THEN p
    ELSE [p EXCEPT !.currentCapacity =
                        minAmount(minAmount(getCurrentCapacity(p, now) + amount, U64_MAX),
                                  p.limit),
                   !.lastTxTimestamp = now]

\* What is always true of a limit: what makes every _setLimit succeed and
\* every subtraction of the library stay above zero.
CapacityWithin(p) == p.currentCapacity <= p.limit /\ p.limit <= U64_MAX

=============================================================================
