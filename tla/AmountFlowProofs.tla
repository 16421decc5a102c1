-------------------------- MODULE AmountFlowProofs --------------------------
(***************************************************************************)
(* Proofs about the amounts of an NttManager.                              *)
(*                                                                         *)
(* First the rate limit of RateLimitedFlow, for every duration, every set  *)
(* of amounts and limits, and any length of time: its capacity stays       *)
(* within the limit, the owner's setLimit never reverts, flow in the       *)
(* opposite direction restores what it can, and what passes in any window  *)
(* of time is bounded by the limit, its refill and the flow back.          *)
(*                                                                         *)
(* Then the routes of AmountRoutes, for any numbers of decimals and any    *)
(* amounts: no conversion gains or loses a unit, and what is refused as    *)
(* dust is less than one unit of the coarsest decimals.                    *)
(***************************************************************************)
EXTENDS RateLimitedFlow, AmountRoutes, AmountTheorems

\* The inductive invariant: the rate limit has its type, its capacity is
\* within the limit and its timestamp is not in the future.
IInv ==
    /\ params \in RateLimitParams
    /\ now \in Nat
    /\ CapacityWithinLimit

\* A quotient of natural numbers is a natural number; Z3 needs the product of
\* the refill as one variable to see it.
LEMMA QuotientInNat ==
    ASSUME NEW x \in Nat, NEW d \in Nat \ {0}
    PROVE  x \div d \in Nat
  BY SMT

\* The refill of _getCurrentCapacity is a natural number.
LEMMA RefillInNat ==
    ASSUME NEW p \in RateLimitParams, NEW t \in Nat, p.lastTxTimestamp <= t,
           rateLimitDuration # 0
    PROVE  (p.limit * (t - p.lastTxTimestamp)) \div rateLimitDuration \in Nat
  <1> DEFINE elapsed == t - p.lastTxTimestamp
  <1>1. p.limit \in Nat /\ elapsed \in Nat
    BY DEF RateLimitParams
  <1> HIDE DEF elapsed
  <1>2. p.limit * elapsed \in Nat
    BY <1>1, SMT
  <1>3. rateLimitDuration \in Nat \ {0}
    BY RateLimitDurationAssumption
  <1>4. (p.limit * elapsed) \div rateLimitDuration \in Nat
    BY <1>2, <1>3, QuotientInNat
  <1> QED
    BY <1>4 DEF elapsed

\* The capacity that _getCurrentCapacity reads lies between what was stored
\* and the limit.
LEMMA CapacityInRange ==
    ASSUME NEW p \in RateLimitParams, NEW t \in Nat, p.lastTxTimestamp <= t,
           p.currentCapacity <= p.limit, rateLimitDuration # 0
    PROVE  /\ getCurrentCapacity(p, t) \in Nat
           /\ p.currentCapacity <= getCurrentCapacity(p, t)
           /\ getCurrentCapacity(p, t) <= p.limit
  <1> DEFINE refill == (p.limit * (t - p.lastTxTimestamp)) \div rateLimitDuration
  <1>1. refill \in Nat
    BY RefillInNat
  <1>2. getCurrentCapacity(p, t) = minAmount(p.currentCapacity + refill, p.limit)
    BY DEF getCurrentCapacity
  <1> HIDE DEF refill
  <1>3. p.currentCapacity \in Nat /\ p.limit \in Nat
    BY DEF RateLimitParams
  <1> QED
    BY <1>1, <1>2, <1>3 DEF minAmount

\* A change of the limit moves the capacity to within the new limit.
LEMMA NewCapacityInRange ==
    ASSUME NEW l \in Nat, NEW old \in Nat, NEW capacity \in Nat, capacity <= old
    PROVE  /\ calculateNewCurrentCapacity(l, old, capacity) \in Nat
           /\ calculateNewCurrentCapacity(l, old, capacity) <= l
  BY DEF calculateNewCurrentCapacity

\* The invariant holds of a limit that was just set for the first time.
LEMMA InitIInv == Init => IInv
  BY FlowAssumption, U64MaxAssumption
     DEF Init, IInv, freshLimit, RateLimitParams, CapacityWithinLimit, CapacityWithin

\* Storing a capacity within the limit, at the current time, keeps the
\* invariant.
LEMMA CapacitySet ==
    ASSUME IInv, NEW cap \in Nat, cap <= params.limit,
           params' = [params EXCEPT !.currentCapacity = cap, !.lastTxTimestamp = now],
           now' = now
    PROVE  IInv'
  <1>1. params \in RateLimitParams /\ params.limit <= U64_MAX /\ now \in Nat
    BY DEF IInv, CapacityWithinLimit, CapacityWithin
  <1>2. params' \in RateLimitParams
    BY <1>1 DEF RateLimitParams
  <1>3. /\ params'.limit = params.limit
        /\ params'.currentCapacity = cap
        /\ params'.lastTxTimestamp = now
    BY <1>1 DEF RateLimitParams
  <1> QED
    BY <1>1, <1>2, <1>3 DEF IInv, CapacityWithinLimit, CapacityWithin

\* Every operation on the limit preserves the invariant.
LEMMA NextIInv == IInv /\ [Next]_vars => IInv'
  <1> SUFFICES ASSUME IInv, [Next]_vars PROVE IInv'
    OBVIOUS
  <1> DEFINE capacity == getCurrentCapacity(params, now)
  <1>1. /\ params \in RateLimitParams
        /\ params.limit \in Nat
        /\ params.limit <= U64_MAX
        /\ params.currentCapacity \in Nat
        /\ now \in Nat
    BY DEF IInv, RateLimitParams, CapacityWithinLimit, CapacityWithin
  <1>2. capacity \in Nat /\ capacity <= params.limit
    BY CapacityInRange, FlowAssumption DEF IInv, CapacityWithinLimit, CapacityWithin
  <1>3. U64_MAX \in Nat /\ rateLimitDuration # 0
    BY U64MaxAssumption, FlowAssumption
  <1>4. ASSUME NEW a \in Amount, consume(a) PROVE IInv'
    <2>1. a \in Nat
      BY FlowAssumption
    <2>2. params' = [params EXCEPT !.currentCapacity = capacity - a,
                                   !.lastTxTimestamp = now]
      BY <1>3, <1>4 DEF consume, consumeAmount
    <2>3. a <= capacity
      BY <1>2, <1>3, <1>4, <2>1 DEF consume, isAmountRateLimited
    <2>4. now' = now
      BY <1>4 DEF consume
    <2>5. capacity - a \in Nat /\ capacity - a <= params.limit
      <3> HIDE DEF capacity
      <3> QED
        BY <1>1, <1>2, <2>1, <2>3
    <2> QED
      BY <1>1, <2>2, <2>4, <2>5, CapacitySet
  <1>5. ASSUME NEW a \in Amount, backfill(a) PROVE IInv'
    <2> DEFINE filled == minAmount(minAmount(capacity + a, U64_MAX), params.limit)
    <2>1. a \in Nat
      BY FlowAssumption
    <2>2. params' = [params EXCEPT !.currentCapacity = filled, !.lastTxTimestamp = now]
      BY <1>3, <1>5 DEF backfill, backfillAmount
    <2>3. filled \in Nat /\ filled <= params.limit
      <3> HIDE DEF capacity
      <3> QED
        BY <1>1, <1>2, <1>3, <2>1 DEF minAmount
    <2>4. now' = now
      BY <1>5 DEF backfill
    <2> HIDE DEF filled
    <2> QED
      BY <1>1, <2>2, <2>3, <2>4, CapacitySet
  <1>6. ASSUME NEW l \in Limit, setLimit(l) PROVE IInv'
    <2> DEFINE new == calculateNewCurrentCapacity(l, params.limit, capacity)
    <2>1. l \in Nat /\ l <= U64_MAX
      BY <1>3, FlowAssumption
    <2>2. new \in Nat /\ new <= l
      BY <1>1, <1>2, <2>1, NewCapacityInRange
    <2>3. params' = [limit |-> l, currentCapacity |-> new, lastTxTimestamp |-> now]
      BY <1>6 DEF setLimit, newLimitParams
    <2>4. now' = now
      BY <1>6 DEF setLimit
    <2> HIDE DEF new
    <2> QED
      BY <1>1, <2>1, <2>2, <2>3, <2>4
         DEF IInv, RateLimitParams, CapacityWithinLimit, CapacityWithin
  <1>7. CASE tick
    BY <1>1, <1>7 DEF tick, IInv, RateLimitParams, CapacityWithinLimit, CapacityWithin
  <1>8. CASE UNCHANGED vars
    BY <1>8 DEF vars, IInv, CapacityWithinLimit, CapacityWithin
  <1> QED
    BY <1>4, <1>5, <1>6, <1>7, <1>8 DEF Next

\* _setLimit cannot fail on a limit that satisfies the invariant.
LEMMA IInvSetLimit == IInv => SetLimitNeverReverts
  <1> SUFFICES ASSUME IInv, NEW l \in Limit
               PROVE  setLimitSucceeds(params, l, now)
    BY DEF SetLimitNeverReverts
  <1> DEFINE capacity == getCurrentCapacity(params, now)
  <1> DEFINE new == calculateNewCurrentCapacity(l, params.limit, capacity)
  <1>1. params.limit \in Nat
    BY DEF IInv, RateLimitParams
  <1>2. capacity \in Nat /\ capacity <= params.limit
    BY CapacityInRange, FlowAssumption DEF IInv, CapacityWithinLimit, CapacityWithin
  <1>3. l \in Nat /\ l <= U64_MAX /\ U64_MAX \in Nat
    BY FlowAssumption, U64MaxAssumption
  <1>4. new \in Nat /\ new <= l
    BY <1>1, <1>2, <1>3, NewCapacityInRange
  <1>5. newLimitParams(params, l, now).currentCapacity = new
    BY DEF newLimitParams
  <1> HIDE DEF new
  <1> QED
    BY <1>3, <1>4, <1>5 DEF setLimitSucceeds, minAmount

\* The capacity of a rate limit never exceeds the limit and its timestamp is
\* never in the future, after any sequence of transfers in both directions and
\* of changes of the limit (RateLimiter.sol).
THEOREM CapacityCorrect == Spec => []CapacityWithinLimit
  <1>1. IInv => CapacityWithinLimit
    BY DEF IInv
  <1> QED
    BY <1>1, InitIInv, NextIInv, PTL DEF Spec

\* _setLimit never reverts with CapacityCannotExceedLimit: at any time the
\* owner can set any limit (RateLimiter.sol, _setLimit).
THEOREM OwnerNeverRefused == Spec => []SetLimitNeverReverts
  BY InitIInv, NextIInv, IInvSetLimit, PTL DEF Spec

-----------------------------------------------------------------------------
(* Flow that returns.                                                      *)

\* Reading a limit at the time it was stored gives what was stored.
LEMMA NoTimeNoRefill ==
    ASSUME NEW p \in RateLimitParams, p.currentCapacity <= p.limit, rateLimitDuration # 0
    PROVE  getCurrentCapacity(p, p.lastTxTimestamp) = p.currentCapacity
  <1>1. /\ p.limit \in Nat /\ p.currentCapacity \in Nat /\ p.lastTxTimestamp \in Nat
        /\ rateLimitDuration \in Nat \ {0}
    BY RateLimitDurationAssumption DEF RateLimitParams
  <1>2. p.limit * (p.lastTxTimestamp - p.lastTxTimestamp) = 0
    BY <1>1
  <1>3. 0 \div rateLimitDuration = 0
    BY <1>1
  <1> QED
    BY <1>1, <1>2, <1>3 DEF getCurrentCapacity, minAmount

\* A backfill leaves the smallest of the capacity with the amount and the
\* limit: the saturation at 64 bits is never the smallest.
LEMMA BackfillReads ==
    ASSUME NEW p \in RateLimitParams, NEW a \in Nat, NEW t \in Nat, p.limit <= U64_MAX,
           p.lastTxTimestamp <= t, p.currentCapacity <= p.limit, rateLimitDuration # 0
    PROVE  getCurrentCapacity(backfillAmount(p, a, t), t)
             = minAmount(getCurrentCapacity(p, t) + a, p.limit)
  <1> DEFINE capacity == getCurrentCapacity(p, t)
             filled == minAmount(minAmount(capacity + a, U64_MAX), p.limit)
  <1>1. capacity \in Nat /\ p.limit \in Nat /\ U64_MAX \in Nat
    BY CapacityInRange, U64MaxAssumption DEF RateLimitParams
  <1>2. backfillAmount(p, a, t)
          = [p EXCEPT !.currentCapacity = filled, !.lastTxTimestamp = t]
    BY DEF backfillAmount
  <1> HIDE DEF capacity
  <1>3. filled \in Nat /\ filled <= p.limit /\ filled = minAmount(capacity + a, p.limit)
    BY <1>1 DEF minAmount
  <1> HIDE DEF filled
  <1>4. getCurrentCapacity(backfillAmount(p, a, t), t) = filled
    <2> DEFINE q == backfillAmount(p, a, t)
    <2>1. /\ q \in RateLimitParams /\ q.limit = p.limit
          /\ q.currentCapacity = filled /\ q.lastTxTimestamp = t
      BY <1>2, <1>3 DEF RateLimitParams
    <2> HIDE DEF q
    <2>2. getCurrentCapacity(q, t) = filled
      BY <1>3, <2>1, NoTimeNoRefill
    <2> QED
      BY <2>2 DEF q
  <1> QED
    BY <1>3, <1>4 DEF capacity

\* Flow in the other direction never costs capacity, and what goes out and
\* comes back leaves the capacity as it was.
LEMMA IInvBackflow == IInv => BackflowRestoresCapacity
  <1> SUFFICES ASSUME IInv, NEW a \in Amount
               PROVE  /\ getCurrentCapacity(backfillAmount(params, a, now), now)
                           >= getCurrentCapacity(params, now)
                      /\ ~isAmountRateLimited(params, a, now) =>
                           getCurrentCapacity(
                             backfillAmount(consumeAmount(params, a, now), a, now), now)
                             = getCurrentCapacity(params, now)
    BY DEF BackflowRestoresCapacity
  <1> DEFINE capacity == getCurrentCapacity(params, now)
             used == consumeAmount(params, a, now)
  <1>1. /\ params \in RateLimitParams /\ now \in Nat /\ a \in Nat
        /\ params.limit \in Nat /\ params.limit <= U64_MAX
        /\ params.lastTxTimestamp <= now
        /\ params.currentCapacity <= params.limit
        /\ rateLimitDuration # 0
    BY FlowAssumption DEF IInv, CapacityWithinLimit, CapacityWithin, RateLimitParams
  <1>2. capacity \in Nat /\ capacity <= params.limit
    BY <1>1, CapacityInRange
  <1>3. getCurrentCapacity(backfillAmount(params, a, now), now)
          = minAmount(capacity + a, params.limit)
    BY <1>1, BackfillReads
  <1>4. ASSUME ~isAmountRateLimited(params, a, now)
        PROVE  getCurrentCapacity(backfillAmount(used, a, now), now) = capacity
    <2>1. a <= capacity
      BY <1>1, <1>2, <1>4 DEF isAmountRateLimited
    <2>2. used = [params EXCEPT !.currentCapacity = capacity - a, !.lastTxTimestamp = now]
      BY <1>1 DEF consumeAmount
    <2> HIDE DEF capacity, used
    <2>3. capacity - a \in Nat /\ capacity - a <= params.limit
      BY <1>1, <1>2, <2>1
    <2>4. /\ used \in RateLimitParams
          /\ used.limit = params.limit
          /\ used.currentCapacity = capacity - a
          /\ used.lastTxTimestamp = now
      BY <1>1, <2>2, <2>3 DEF RateLimitParams
    <2>5. getCurrentCapacity(used, now) = capacity - a
      BY <1>1, <2>3, <2>4, NoTimeNoRefill
    <2>6. getCurrentCapacity(backfillAmount(used, a, now), now)
            = minAmount(getCurrentCapacity(used, now) + a, used.limit)
      BY <1>1, <2>3, <2>4, BackfillReads
    <2> QED
      BY <1>1, <1>2, <2>4, <2>5, <2>6 DEF minAmount
  <1>5. minAmount(capacity + a, params.limit) >= capacity
    <2> HIDE DEF capacity
    <2> QED
      BY <1>1, <1>2 DEF minAmount
  <1> QED
    BY <1>3, <1>4, <1>5

\* INV-011: flow that returns is free, for any amounts, limits and times
\* (RateLimiter.sol, _backfillRateLimitedAmount).
THEOREM BackflowCorrect == Spec => []BackflowRestoresCapacity
  BY InitIInv, NextIInv, IInvBackflow, PTL DEF Spec

-----------------------------------------------------------------------------
(* What leaves in a window of time.                                        *)

\* What a time replenishes of a limit.
Refill(l, t) == (l * t) \div rateLimitDuration

\* Two times replenish together at least what each does: every refill is
\* rounded down.
LEMMA QuotientsAdd ==
    ASSUME NEW x \in Nat, NEW y \in Nat, NEW d \in Nat \ {0}
    PROVE  (x \div d) + (y \div d) <= (x + y) \div d
  <1> DEFINE a == x \div d
             b == y \div d
             c == (x + y) \div d
  <1>1. a \in Nat /\ b \in Nat /\ c \in Nat
    BY DivType
  <1>2. a * d <= x /\ b * d <= y /\ x + y < (c + 1) * d
    OBVIOUS
  <1> HIDE DEF a, b, c
  <1>3. (a + b) * d = a * d + b * d
    BY <1>1, Distrib
  <1>4. (a + b) * d < (c + 1) * d
    <2>1. a * d \in Nat /\ b * d \in Nat /\ (c + 1) * d \in Nat
      BY <1>1
    <2> QED
      BY <1>2, <1>3, <2>1
  <1>5. a + b < c + 1
    <2> DEFINE m == a + b
               n == c + 1
    <2>1. m \in Nat /\ n \in Nat /\ m * d < n * d
      BY <1>1, <1>4
    <2> HIDE DEF m, n
    <2>2. m < n
      BY <2>1
    <2> QED
      BY <2>2 DEF m, n
  <1>6. a + b <= c
    BY <1>1, <1>5
  <1> QED
    BY <1>6 DEF a, b, c

LEMMA RefillAdds ==
    ASSUME NEW l \in Nat, NEW s \in Nat, NEW t \in Nat, rateLimitDuration # 0
    PROVE  /\ Refill(l, s) \in Nat /\ Refill(l, t) \in Nat /\ Refill(l, s + t) \in Nat
           /\ Refill(l, s) + Refill(l, t) <= Refill(l, s + t)
  <1>1. l * s \in Nat /\ l * t \in Nat /\ l * (s + t) \in Nat
    OBVIOUS
  <1>2. l * (s + t) = l * s + l * t
    OBVIOUS
  <1>3. rateLimitDuration \in Nat \ {0}
    BY RateLimitDurationAssumption
  <1> QED
    BY <1>1, <1>2, <1>3, QuotientsAdd, DivType DEF Refill

\* What the transfers i .. j of a history consumed and what they returned.
consumptions(s) == [k \in DOMAIN s |-> s[k].consumed]
backfills(s) == [k \in DOMAIN s |-> s[k].backfilled]

Consumed(s, i, j) == SumFunctionOnSet(consumptions(s), i .. j)
Backfilled(s, i, j) == SumFunctionOnSet(backfills(s), i .. j)

\* The history s of a limit p accounts for its capacity: what was consumed
\* since any of its transfers and what is left is at most one limit, the refill
\* since and what was returned.
Account(p, s, i) ==
    Consumed(s, i, Len(s)) + p.currentCapacity <=
        (p.limit + Refill(p.limit, p.lastTxTimestamp - s[i].at)) + Backfilled(s, i, Len(s))

Window(p, s, i, j) ==
    Consumed(s, i, j) <=
        (p.limit + Refill(p.limit, s[j].at - s[i].at)) + Backfilled(s, i, j)

Accounts(p, s) ==
    /\ s \in Seq(Flow)
    /\ \A i \in DOMAIN s : s[i].at <= p.lastTxTimestamp
    /\ \A i \in DOMAIN s : Account(p, s, i)
    /\ \A i, j \in DOMAIN s : i <= j => Window(p, s, i, j)

\* The invariant that WindowBound needs.
Ledger == Accounts(params, flows)

\* The summands of a history are natural numbers.
LEMMA Summands ==
    ASSUME NEW s \in Seq(Flow), NEW i \in Nat, i # 0, NEW j \in Nat, j <= Len(s)
    PROVE  /\ IsFiniteSet(i .. j) /\ i .. j \subseteq DOMAIN s
           /\ \A k \in DOMAIN s : /\ consumptions(s)[k] = s[k].consumed
                                  /\ backfills(s)[k] = s[k].backfilled
           /\ \A k \in i .. j : consumptions(s)[k] \in Nat /\ backfills(s)[k] \in Nat
           /\ Consumed(s, i, j) \in Nat /\ Backfilled(s, i, j) \in Nat
  <1>1. IsFiniteSet(i .. j) /\ i .. j \subseteq DOMAIN s
    BY FS_Interval
  <1>2. \A k \in DOMAIN s : s[k] \in Flow
    OBVIOUS
  <1>3. \A k \in i .. j : consumptions(s)[k] \in Nat /\ backfills(s)[k] \in Nat
    BY <1>1, <1>2 DEF consumptions, backfills, Flow
  <1>4. Consumed(s, i, j) \in Nat /\ Backfilled(s, i, j) \in Nat
    BY <1>1, <1>3, SumType DEF Consumed, Backfilled
  <1> QED
    BY <1>1, <1>3, <1>4 DEF consumptions, backfills

\* One transfer more.
Extends(u, s, e) == u = Append(s, e)

LEMMA HistoryGrows ==
    ASSUME NEW s \in Seq(Flow), NEW e \in Flow, NEW u, Extends(u, s, e)
    PROVE  /\ u \in Seq(Flow) /\ Len(u) = Len(s) + 1
           /\ u[Len(u)] = e /\ \A k \in DOMAIN s : u[k] = s[k]
           /\ \A i, j \in DOMAIN s : /\ Consumed(u, i, j) = Consumed(s, i, j)
                                     /\ Backfilled(u, i, j) = Backfilled(s, i, j)
           /\ \A i \in DOMAIN s :
                 /\ Consumed(u, i, Len(u)) = Consumed(s, i, Len(s)) + e.consumed
                 /\ Backfilled(u, i, Len(u)) = Backfilled(s, i, Len(s)) + e.backfilled
           /\ Consumed(u, Len(u), Len(u)) = e.consumed
           /\ Backfilled(u, Len(u), Len(u)) = e.backfilled
  <1> DEFINE n == Len(s)
  <1>1. /\ u \in Seq(Flow) /\ Len(u) = n + 1 /\ n \in Nat /\ DOMAIN s = 1 .. n
        /\ u[n + 1] = e /\ \A k \in 1 .. n : u[k] = s[k]
    BY DEF Extends
  <1> HIDE DEF n
  <1>2. /\ consumptions(u)[n + 1] = e.consumed /\ backfills(u)[n + 1] = e.backfilled
        /\ e.consumed \in Nat /\ e.backfilled \in Nat
        /\ \A k \in 1 .. n : /\ consumptions(u)[k] = consumptions(s)[k]
                             /\ backfills(u)[k] = backfills(s)[k]
    <2>1. /\ DOMAIN u = 1 .. n + 1 /\ n + 1 \in DOMAIN u
          /\ \A k \in 1 .. n : k \in DOMAIN u /\ k \in DOMAIN s
      BY <1>1
    <2>2. /\ \A k \in DOMAIN u : /\ consumptions(u)[k] = u[k].consumed
                                 /\ backfills(u)[k] = u[k].backfilled
          /\ \A k \in DOMAIN s : /\ consumptions(s)[k] = s[k].consumed
                                 /\ backfills(s)[k] = s[k].backfilled
      BY Zenon DEF consumptions, backfills
    <2>3. e.consumed \in Nat /\ e.backfilled \in Nat
      BY DEF Flow
    <2>4. consumptions(u)[n + 1] = e.consumed /\ backfills(u)[n + 1] = e.backfilled
      BY <1>1, <2>1, <2>2, Zenon
    <2>5. \A k \in 1 .. n : /\ consumptions(u)[k] = consumptions(s)[k]
                            /\ backfills(u)[k] = backfills(s)[k]
      BY <1>1, <2>1, <2>2, Zenon
    <2> QED
      BY <2>3, <2>4, <2>5
  <1>3. ASSUME NEW i \in 1 .. n, NEW j \in 1 .. n
        PROVE  /\ Consumed(u, i, j) = Consumed(s, i, j)
               /\ Backfilled(u, i, j) = Backfilled(s, i, j)
    <2>1. /\ IsFiniteSet(i .. j)
          /\ \A k \in i .. j : consumptions(s)[k] \in Int /\ backfills(s)[k] \in Int
      <3>1. i \in Nat /\ i # 0 /\ j \in Nat /\ j <= Len(s)
        BY <1>1 DEF n
      <3>2. /\ IsFiniteSet(i .. j)
            /\ \A k \in i .. j : consumptions(s)[k] \in Nat /\ backfills(s)[k] \in Nat
        BY <3>1, Summands
      <3> QED
        BY <3>2
    <2>2. \A k \in i .. j : /\ consumptions(u)[k] = consumptions(s)[k]
                            /\ backfills(u)[k] = backfills(s)[k]
      BY <1>1, <1>2
    <2> QED
      BY <2>1, <2>2, SumSame DEF Consumed, Backfilled
  <1>4. ASSUME NEW i \in 1 .. n + 1
        PROVE  /\ Consumed(u, i, n + 1) = Consumed(u, i, n) + e.consumed
               /\ Backfilled(u, i, n + 1) = Backfilled(u, i, n) + e.backfilled
    <2>1. /\ IsFiniteSet(i .. n + 1)
          /\ \A k \in i .. n + 1 : consumptions(u)[k] \in Int /\ backfills(u)[k] \in Int
      <3>1. i \in Nat /\ i # 0 /\ n + 1 \in Nat /\ n + 1 <= Len(u)
        BY <1>1
      <3>2. /\ IsFiniteSet(i .. n + 1)
            /\ \A k \in i .. n + 1 : consumptions(u)[k] \in Nat /\ backfills(u)[k] \in Nat
        BY <1>1, <3>1, Summands
      <3> QED
        BY <3>2
    <2>2. n + 1 \in i .. n + 1 /\ (i .. n + 1) \ {n + 1} = i .. n
      BY <1>1
    <2> DEFINE S == i .. n + 1
               f == consumptions(u)
               g == backfills(u)
    <2>3. /\ IsFiniteSet(S) /\ n + 1 \in S /\ S \ {n + 1} = i .. n
          /\ \A k \in S : f[k] \in Int
          /\ \A k \in S : g[k] \in Int
      BY <2>1, <2>2
    <2> HIDE DEF S, f, g
    <2>4. SumFunctionOnSet(f, S) = SumFunctionOnSet(f, i .. n) + f[n + 1]
      <3>1. SumFunctionOnSet(f, S) = SumFunctionOnSet(f, S \ {n + 1}) + f[n + 1]
        BY <2>3, SumElement, Zenon
      <3> QED
        BY <2>3, <3>1
    <2>5. SumFunctionOnSet(g, S) = SumFunctionOnSet(g, i .. n) + g[n + 1]
      <3>1. SumFunctionOnSet(g, S) = SumFunctionOnSet(g, S \ {n + 1}) + g[n + 1]
        BY <2>3, SumElement, Zenon
      <3> QED
        BY <2>3, <3>1
    <2> QED
      BY <1>2, <2>4, <2>5 DEF Consumed, Backfilled, S, f, g
  <1>5. Consumed(u, n + 1, n) = 0 /\ Backfilled(u, n + 1, n) = 0
    <2>1. n + 1 .. n = {}
      BY <1>1
    <2> QED
      BY <2>1, SumEmpty DEF Consumed, Backfilled
  <1>6. /\ Consumed(u, n + 1, n + 1) = e.consumed
        /\ Backfilled(u, n + 1, n + 1) = e.backfilled
    BY <1>1, <1>2, <1>4, <1>5
  <1>7. \A i \in 1 .. n :
          /\ Consumed(u, i, n + 1) = Consumed(s, i, n) + e.consumed
          /\ Backfilled(u, i, n + 1) = Backfilled(s, i, n) + e.backfilled
    BY <1>1, <1>3, <1>4
  <1> QED
    BY <1>1, <1>3, <1>6, <1>7 DEF n

\* The capacity read from a limit, against what was stored and what the time
\* since replenished.
LEMMA CapacityAccounted ==
    ASSUME NEW p \in RateLimitParams, NEW t \in Nat, p.lastTxTimestamp <= t,
           p.currentCapacity <= p.limit
    PROVE  /\ p.limit \in Nat /\ p.currentCapacity \in Nat /\ p.lastTxTimestamp \in Nat
           /\ t - p.lastTxTimestamp \in Nat
           /\ Refill(p.limit, t - p.lastTxTimestamp) \in Nat
           /\ getCurrentCapacity(p, t) \in Nat
           /\ getCurrentCapacity(p, t) <=
                p.currentCapacity + Refill(p.limit, t - p.lastTxTimestamp)
           /\ getCurrentCapacity(p, t) <= p.limit
  <1>1. rateLimitDuration # 0
    BY FlowAssumption
  <1>2. /\ p.limit \in Nat /\ p.currentCapacity \in Nat /\ p.lastTxTimestamp \in Nat
        /\ t - p.lastTxTimestamp \in Nat
    BY DEF RateLimitParams
  <1>3. Refill(p.limit, t - p.lastTxTimestamp) \in Nat
    BY <1>1, RefillInNat DEF Refill
  <1>4. getCurrentCapacity(p, t)
          = minAmount(p.currentCapacity + Refill(p.limit, t - p.lastTxTimestamp), p.limit)
    BY <1>1 DEF getCurrentCapacity, Refill
  <1> QED
    BY <1>1, <1>2, <1>3, <1>4, CapacityInRange DEF minAmount

\* A transfer e, in either direction, at time t.
LEMMA AccountsGrow ==
    ASSUME NEW p \in RateLimitParams, NEW q \in RateLimitParams, NEW s, Accounts(p, s),
           NEW t \in Nat, p.lastTxTimestamp <= t, p.currentCapacity <= p.limit,
           NEW e \in Flow, e.at = t,
           q.limit = p.limit, q.lastTxTimestamp = t,
           q.currentCapacity + e.consumed <= getCurrentCapacity(p, t) + e.backfilled,
           NEW u, Extends(u, s, e)
    PROVE  Accounts(q, u)
  <1> DEFINE n == Len(s)
             l == p.limit
             capacity == getCurrentCapacity(p, t)
             last == p.lastTxTimestamp
             held == p.currentCapacity
             left == q.currentCapacity
             c == e.consumed
             b == e.backfilled
  <1>1. /\ l \in Nat /\ held \in Nat /\ last \in Nat /\ t - last \in Nat
        /\ Refill(l, t - last) \in Nat
        /\ capacity \in Nat /\ capacity <= held + Refill(l, t - last) /\ capacity <= l
    BY CapacityAccounted
  <1>2. /\ left \in Nat /\ c \in Nat /\ b \in Nat
        /\ left + c <= capacity + b
    BY DEF Flow, RateLimitParams
  <1>3. s \in Seq(Flow)
    BY DEF Accounts
  <1>4. /\ u \in Seq(Flow) /\ Len(u) = n + 1 /\ n \in Nat
        /\ DOMAIN s = 1 .. n /\ DOMAIN u = 1 .. n + 1
    BY <1>3 DEF Extends
  <1>5. /\ u[n + 1] = e /\ \A k \in 1 .. n : u[k] = s[k]
        /\ \A i, j \in 1 .. n : /\ Consumed(u, i, j) = Consumed(s, i, j)
                                /\ Backfilled(u, i, j) = Backfilled(s, i, j)
        /\ \A i \in 1 .. n : /\ Consumed(u, i, n + 1) = Consumed(s, i, n) + c
                             /\ Backfilled(u, i, n + 1) = Backfilled(s, i, n) + b
        /\ Consumed(u, n + 1, n + 1) = c
        /\ Backfilled(u, n + 1, n + 1) = b
    <2>1. /\ u[Len(u)] = e /\ \A k \in DOMAIN s : u[k] = s[k]
          /\ \A i, j \in DOMAIN s : /\ Consumed(u, i, j) = Consumed(s, i, j)
                                    /\ Backfilled(u, i, j) = Backfilled(s, i, j)
          /\ \A i \in DOMAIN s : /\ Consumed(u, i, Len(u)) = Consumed(s, i, Len(s)) + c
                                 /\ Backfilled(u, i, Len(u)) = Backfilled(s, i, Len(s)) + b
          /\ Consumed(u, Len(u), Len(u)) = c
          /\ Backfilled(u, Len(u), Len(u)) = b
      BY <1>3, HistoryGrows
    <2> HIDE DEF c, b
    <2> QED
      BY <1>4, <2>1
  <1>6. \A i \in 1 .. n : s[i].at \in Nat /\ s[i].at <= last
    <2>1. \A i \in 1 .. n : s[i] \in Flow
      BY <1>3, <1>4
    <2>2. \A i \in 1 .. n : s[i].at <= last
      BY <1>4 DEF Accounts
    <2> HIDE DEF n, last
    <2> QED
      BY <2>1, <2>2 DEF Flow
  <1>7. u[n + 1].at = t /\ \A i \in 1 .. n : u[i].at = s[i].at
    BY <1>5
  <1>8. \A i \in 1 .. n : Account(p, s, i)
    BY <1>4 DEF Accounts
  <1>9. \A i, j \in 1 .. n : i <= j => Window(p, s, i, j)
    BY <1>4 DEF Accounts
  <1> HIDE DEF n, l, last, capacity, held, left, c, b
  <1>10. \A i \in 1 .. n + 1 : u[i].at <= t
    <2> SUFFICES ASSUME NEW i \in 1 .. n + 1 PROVE u[i].at <= t
      OBVIOUS
    <2>1. CASE i = n + 1
      BY <1>7, <2>1
    <2>2. CASE i \in 1 .. n
      BY <1>1, <1>6, <1>7, <2>2 DEF last
    <2> QED
      BY <1>4, <2>1, <2>2
  <1>11. ASSUME NEW i \in 1 .. n + 1
         PROVE  /\ Consumed(u, i, n + 1) \in Nat /\ Backfilled(u, i, n + 1) \in Nat
                /\ Refill(l, t - u[i].at) \in Nat
                /\ Consumed(u, i, n + 1) + left <=
                     (l + Refill(l, t - u[i].at)) + Backfilled(u, i, n + 1)
    <2>1. CASE i = n + 1
      <3>1. Refill(l, 0) \in Nat
        BY <1>1, FlowAssumption, RefillAdds
      <3>2. t - u[i].at = 0
        BY <1>7, <2>1
      <3>3. Consumed(u, i, n + 1) = c /\ Backfilled(u, i, n + 1) = b
        BY <1>5, <2>1
      <3>4. c + left <= l + b
        BY <1>1, <1>2
      <3> HIDE DEF n
      <3>5. c + left <= (l + Refill(l, 0)) + b
        BY <1>1, <1>2, <3>1, <3>4
      <3> QED
        BY <1>2, <3>1, <3>2, <3>3, <3>5
    <2>2. CASE i \in 1 .. n
      <3> DEFINE C == Consumed(s, i, n)
                 B == Backfilled(s, i, n)
                 x == last - s[i].at
                 y == t - last
      <3>1. C \in Nat /\ B \in Nat
        <4>1. i \in Nat /\ i # 0 /\ n \in Nat /\ n <= Len(s)
          BY <1>4, <2>2 DEF n
        <4> QED
          BY <1>3, <4>1, Summands
      <3>2. x \in Nat /\ y \in Nat /\ x + y = t - u[i].at
        BY <1>1, <1>6, <1>7, <2>2
      <3>3. C + held <= (l + Refill(l, x)) + B
        BY <1>8, <2>2 DEF Account, n, l, last, held
      <3>4. Consumed(u, i, n + 1) = C + c /\ Backfilled(u, i, n + 1) = B + b
        BY <1>5, <2>2
      <3> HIDE DEF C, B, x
      <3>5. left + c <= (held + Refill(l, y)) + b
        BY <1>1, <1>2
      <3> HIDE DEF y
      <3>6. /\ Refill(l, x) \in Nat /\ Refill(l, y) \in Nat /\ Refill(l, x + y) \in Nat
            /\ Refill(l, x) + Refill(l, y) <= Refill(l, x + y)
        BY <1>1, <3>2, FlowAssumption, RefillAdds
      <3>7. (C + c) + left <= (l + Refill(l, x + y)) + (B + b)
        BY <1>1, <1>2, <3>1, <3>3, <3>5, <3>6
      <3>8. C + c \in Nat /\ B + b \in Nat
        BY <1>2, <3>1
      <3> QED
        BY <3>2, <3>4, <3>6, <3>7, <3>8
    <2> QED
      BY <1>4, <2>1, <2>2
  <1>12. ASSUME NEW i \in 1 .. n + 1 PROVE Account(q, u, i)
    BY <1>4, <1>11 DEF Account, l, left
  <1>13. ASSUME NEW i \in 1 .. n + 1, NEW j \in 1 .. n + 1, i <= j
         PROVE  Window(q, u, i, j)
    <2>1. CASE j = n + 1
      <3>1. Consumed(u, i, j) <= (l + Refill(l, u[j].at - u[i].at)) + Backfilled(u, i, j)
        BY <1>1, <1>2, <1>7, <1>11, <2>1
      <3> QED
        BY <3>1 DEF Window, l
    <2>2. CASE j \in 1 .. n
      <3>1. i \in 1 .. n
        BY <1>4, <1>13, <2>2
      <3>2. Window(p, s, i, j)
        BY <1>9, <1>13, <2>2, <3>1
      <3> QED
        BY <1>5, <1>7, <2>2, <3>1, <3>2 DEF Window
    <2> QED
      BY <1>4, <2>1, <2>2
  <1> QED
    BY <1>4, <1>10, <1>12, <1>13 DEF Accounts

\* A limit that was just set has no history to account for.
LEMMA AccountsEmpty == ASSUME NEW p PROVE Accounts(p, << >>)
  BY DEF Accounts

LEMMA InitLedger == Init => Ledger
  BY AccountsEmpty DEF Init, Ledger

LEMMA NextLedger == IInv /\ IInv' /\ Ledger /\ [Next]_vars => Ledger'
  <1> SUFFICES ASSUME IInv, IInv', Ledger, [Next]_vars PROVE Ledger'
    OBVIOUS
  <1> DEFINE capacity == getCurrentCapacity(params, now)
  <1>1. /\ params \in RateLimitParams /\ params' \in RateLimitParams /\ now \in Nat
        /\ params.lastTxTimestamp <= now
        /\ params.currentCapacity <= params.limit
        /\ rateLimitDuration # 0
    BY FlowAssumption DEF IInv, CapacityWithinLimit, CapacityWithin
  <1>2. /\ capacity \in Nat /\ capacity <= params.limit
        /\ params.limit \in Nat /\ U64_MAX \in Nat
    BY <1>1, CapacityInRange, U64MaxAssumption DEF RateLimitParams
  <1>3. ASSUME NEW a \in Amount, consume(a) PROVE Ledger'
    <2> DEFINE e == [at |-> now, consumed |-> a, backfilled |-> 0]
    <2>1. a \in Nat
      BY FlowAssumption
    <2>2. params' = [params EXCEPT !.currentCapacity = capacity - a, !.lastTxTimestamp = now]
      BY <1>1, <1>3 DEF consume, consumeAmount
    <2>3. Extends(flows', flows, e)
      BY <1>3 DEF consume, Extends
    <2>4. /\ e \in Flow /\ e.at = now /\ e.consumed = a /\ e.backfilled = 0
      BY <1>1, <2>1 DEF Flow
    <2> HIDE DEF capacity, e
    <2>5. /\ params'.limit = params.limit /\ params'.lastTxTimestamp = now
          /\ params'.currentCapacity = capacity - a
      BY <1>1, <2>2 DEF RateLimitParams
    <2>6. params'.currentCapacity + e.consumed <= capacity + e.backfilled
      BY <1>2, <2>1, <2>4, <2>5
    <2> QED
      BY <1>1, <2>3, <2>4, <2>5, <2>6, AccountsGrow DEF Ledger, capacity
  <1>4. ASSUME NEW a \in Amount, backfill(a) PROVE Ledger'
    <2> DEFINE e == [at |-> now, consumed |-> 0, backfilled |-> a]
               filled == minAmount(minAmount(capacity + a, U64_MAX), params.limit)
    <2>1. a \in Nat
      BY FlowAssumption
    <2>2. params' = [params EXCEPT !.currentCapacity = filled, !.lastTxTimestamp = now]
      BY <1>1, <1>4 DEF backfill, backfillAmount
    <2>3. Extends(flows', flows, e)
      BY <1>4 DEF backfill, Extends
    <2>4. /\ e \in Flow /\ e.at = now /\ e.consumed = 0 /\ e.backfilled = a
      BY <1>1, <2>1 DEF Flow
    <2> HIDE DEF capacity, e
    <2>5. filled \in Nat /\ filled <= capacity + a
      BY <1>2, <2>1 DEF minAmount
    <2> HIDE DEF filled
    <2>6. /\ params'.limit = params.limit /\ params'.lastTxTimestamp = now
          /\ params'.currentCapacity = filled
      BY <1>1, <2>2 DEF RateLimitParams
    <2>7. params'.currentCapacity + e.consumed <= capacity + e.backfilled
      BY <1>2, <2>1, <2>4, <2>5, <2>6
    <2> QED
      BY <1>1, <2>3, <2>4, <2>6, <2>7, AccountsGrow DEF Ledger, capacity
  <1>5. ASSUME NEW l \in Limit, setLimit(l) PROVE Ledger'
    BY <1>5, AccountsEmpty DEF setLimit, Ledger
  <1>6. CASE UNCHANGED <<params, flows>>
    BY <1>6 DEF Ledger
  <1> QED
    BY <1>3, <1>4, <1>5, <1>6 DEF Next, tick, vars

\* The totals of WindowBound are the sums of the ledger: both are the fold of
\* the community modules.
LEMMA ConsumedTotal ==
    ASSUME NEW i \in DOMAIN flows, NEW j \in DOMAIN flows, flows \in Seq(Flow)
    PROVE  LET consumedAt(k) == flows[k].consumed
           IN  Total(i .. j, consumedAt) = Consumed(flows, i, j)
  <1> DEFINE S == i .. j
             f == consumptions(flows)
             Def(h) == [s \in SUBSET S |-> IF s = {} THEN 0
                                           ELSE flows[Chosen(s)].consumed + h[s \ {Chosen(s)}]]
             iter == CHOOSE h : h = Def(h)
             consumedAt(k) == flows[k].consumed
  <1>1. /\ IsFiniteSet(S) /\ S \subseteq DOMAIN flows
        /\ \A k \in S : f[k] = flows[k].consumed /\ f[k] \in Int
    <2>1. i \in Nat /\ i # 0 /\ j \in Nat /\ j <= Len(flows)
      OBVIOUS
    <2>2. /\ IsFiniteSet(S) /\ S \subseteq DOMAIN flows
          /\ \A k \in DOMAIN flows : f[k] = flows[k].consumed
          /\ \A k \in S : f[k] \in Nat
      BY <2>1, Summands
    <2> HIDE DEF S, f
    <2> QED
      BY <2>2
  <1>2. Total(S, consumedAt) = iter[S]
    BY DEF Total, MapThenSumSet, MapThenFoldSet, Chosen
  <1> HIDE DEF S, f
  <1>3. PICK g : Adds(g, f, S)
    BY <1>1, AddsExists
  <1>4. Iterates(g, f, S)
    BY <1>1, <1>3, AddsIterates
  <1>5. \A s \in SUBSET S : s # {} => f[Chosen(s)] = flows[Chosen(s)].consumed
    BY <1>1, ChosenElement
  <1>6. g = Def(g)
    BY <1>3, <1>4, <1>5 DEF Adds, Iterates
  <1>7. iter = Def(iter)
    <2> HIDE DEF Def
    <2> QED
      BY <1>6, Zenon
  <1> HIDE DEF iter
  <1>8. Iterates(iter, f, S)
    BY <1>5, <1>7 DEF Iterates
  <1>9. iter[S] = g[S] /\ SumFunctionOnSet(f, S) = g[S]
    BY <1>1, <1>3, <1>4, <1>8, IteratesUnique, SumAdds
  <1> QED
    BY <1>2, <1>9 DEF Consumed, S, f

LEMMA BackfilledTotal ==
    ASSUME NEW i \in DOMAIN flows, NEW j \in DOMAIN flows, flows \in Seq(Flow)
    PROVE  LET backfilledAt(k) == flows[k].backfilled
           IN  Total(i .. j, backfilledAt) = Backfilled(flows, i, j)
  <1> DEFINE S == i .. j
             f == backfills(flows)
             Def(h) == [s \in SUBSET S |-> IF s = {} THEN 0
                                           ELSE flows[Chosen(s)].backfilled + h[s \ {Chosen(s)}]]
             iter == CHOOSE h : h = Def(h)
             backfilledAt(k) == flows[k].backfilled
  <1>1. /\ IsFiniteSet(S) /\ S \subseteq DOMAIN flows
        /\ \A k \in S : f[k] = flows[k].backfilled /\ f[k] \in Int
    <2>1. i \in Nat /\ i # 0 /\ j \in Nat /\ j <= Len(flows)
      OBVIOUS
    <2>2. /\ IsFiniteSet(S) /\ S \subseteq DOMAIN flows
          /\ \A k \in DOMAIN flows : f[k] = flows[k].backfilled
          /\ \A k \in S : f[k] \in Nat
      BY <2>1, Summands
    <2> HIDE DEF S, f
    <2> QED
      BY <2>2
  <1>2. Total(S, backfilledAt) = iter[S]
    BY DEF Total, MapThenSumSet, MapThenFoldSet, Chosen
  <1> HIDE DEF S, f
  <1>3. PICK g : Adds(g, f, S)
    BY <1>1, AddsExists
  <1>4. Iterates(g, f, S)
    BY <1>1, <1>3, AddsIterates
  <1>5. \A s \in SUBSET S : s # {} => f[Chosen(s)] = flows[Chosen(s)].backfilled
    BY <1>1, ChosenElement
  <1>6. g = Def(g)
    BY <1>3, <1>4, <1>5 DEF Adds, Iterates
  <1>7. iter = Def(iter)
    <2> HIDE DEF Def
    <2> QED
      BY <1>6, Zenon
  <1> HIDE DEF iter
  <1>8. Iterates(iter, f, S)
    BY <1>5, <1>7 DEF Iterates
  <1>9. iter[S] = g[S] /\ SumFunctionOnSet(f, S) = g[S]
    BY <1>1, <1>3, <1>4, <1>8, IteratesUnique, SumAdds
  <1> QED
    BY <1>2, <1>9 DEF Backfilled, S, f

LEMMA LedgerWindow == Ledger => WindowBound
  <1> SUFFICES ASSUME Ledger, NEW i \in DOMAIN flows, NEW j \in DOMAIN flows, i <= j
               PROVE  LET consumedAt(k) == flows[k].consumed
                          backfilledAt(k) == flows[k].backfilled
                      IN  Total(i .. j, consumedAt) <=
                            params.limit
                              + (params.limit * (flows[j].at - flows[i].at))
                                  \div rateLimitDuration
                              + Total(i .. j, backfilledAt)
    BY Zenon DEF WindowBound
  <1>1. flows \in Seq(Flow) /\ Window(params, flows, i, j)
    BY DEF Ledger, Accounts
  <1> QED
    BY <1>1, ConsumedTotal, BackfilledTotal DEF Window, Refill

\* INV-009, INV-010: what a manager lets through without queueing, between any
\* two transfers, is at most one limit, the refill of the time between and what
\* came back (RateLimiter.sol, _getCurrentCapacity, _consumeRateLimitAmount and
\* _backfillRateLimitedAmount).
THEOREM WindowCorrect == Spec => []WindowBound
  <1>1. Spec => []IInv
    BY InitIInv, NextIInv, PTL DEF Spec
  <1>2. Spec => []Ledger
    BY <1>1, InitLedger, NextLedger, PTL DEF Spec
  <1> QED
    BY <1>2, LedgerWindow, PTL

-----------------------------------------------------------------------------
(* The routes of an amount.                                                *)

Trimmed == [amount : Nat, decimals : Nat]

\* An amount on its way can be written in the decimals of its destination and
\* of the rate limits without a rest.
Exact(t, d) == t.decimals <= d /\ t.decimals <= TRIMMED_DECIMALS

\* At most one transfer is on its way, and then nothing is held.
RoutesInv ==
    /\ decimals \in Decimals
    /\ amount \in Nat
    /\ \/ message = {}
       \/ /\ amount = 0
          /\ \E t \in Trimmed, to \in Decimals :
                Exact(t, to) /\ message = {[trimmed |-> t, to |-> to]}
    /\ ValuePreserved

-----------------------------------------------------------------------------
(* Decimals and sums.                                                      *)

LEMMA DecimalsNat ==
  /\ \A d \in Decimals : d \in Nat
  /\ TRIMMED_DECIMALS \in Nat
  BY RoutesAssumption, TrimmedDecimalsAssumption

\* The common unit is at least as fine as every token and as a trimmed amount.
LEMMA UnitFact ==
  /\ UnitDecimals \in Nat
  /\ TRIMMED_DECIMALS <= UnitDecimals
  /\ \A d \in Decimals : d <= UnitDecimals
  <1> DEFINE S == Decimals \cup {TRIMMED_DECIMALS}
  <1>1. S \in SUBSET Nat /\ S # {} /\ IsFiniteSet(S)
    BY DecimalsNat, RoutesAssumption, FS_AddElement
  <1>2. TRIMMED_DECIMALS \in S /\ Decimals \subseteq S
    OBVIOUS
  <1>3. UnitDecimals = Max(S)
    BY DEF UnitDecimals
  <1> HIDE DEF S
  <1>4. \E x \in S : \A y \in S : x >= y
    BY <1>1, MaximumExists
  <1>5. Max(S) \in S /\ \A y \in S : Max(S) >= y
    BY <1>4, Zenon DEF Max
  <1> QED
    BY <1>1, <1>2, <1>3, <1>5

\* The sum of one number or none, as the fold of the community modules adds it
\* up.
LEMMA SumSetSmall ==
  /\ SumSet({}) = 0
  /\ \A x \in Int : SumSet({x}) = x
  <1>1. ASSUME NEW S, IsFiniteSet(S), NEW g, NEW f, Adds(g, f, S), \A x \in S : f[x] = x,
               \A x \in S : x \in Int
        PROVE  SumSet(S) = g[S]
    <2> DEFINE Def(h) == [s \in SUBSET S |-> IF s = {} THEN 0
                                             ELSE Chosen(s) + h[s \ {Chosen(s)}]]
               iter == CHOOSE h : h = Def(h)
    <2>1. SumSet(S) = iter[S]
      BY DEF SumSet, FoldSet, MapThenFoldSet, Chosen
    <2>2. Iterates(g, f, S)
      BY <1>1, AddsIterates
    <2>3. \A s \in SUBSET S : s # {} => f[Chosen(s)] = Chosen(s)
      BY <1>1, ChosenElement
    <2>4. g = Def(g)
      BY <1>1, <2>2, <2>3 DEF Adds, Iterates
    <2>5. iter = Def(iter)
      <3> HIDE DEF Def
      <3> QED
        BY <2>4, Zenon
    <2> HIDE DEF iter
    <2>6. Iterates(iter, f, S)
      BY <2>3, <2>5 DEF Iterates
    <2> QED
      BY <1>1, <2>1, <2>2, <2>6, IteratesUnique
  <1>2. SumSet({}) = 0
    <2> DEFINE f == [x \in {} |-> x]
    <2>1. IsFiniteSet({})
      BY FS_EmptySet
    <2>2. PICK g : Adds(g, f, {})
      BY <2>1, AddsExists
    <2>3. g[{}] = 0
      BY <2>2 DEF Adds
    <2>4. \A x \in {} : f[x] = x
      OBVIOUS
    <2> HIDE DEF f
    <2> QED
      BY <1>1, <2>1, <2>2, <2>3, <2>4
  <1>3. ASSUME NEW x \in Int PROVE SumSet({x}) = x
    <2> DEFINE S == {x}
               f == [y \in S |-> y]
    <2>1. IsFiniteSet(S) /\ f[x] = x /\ (\A y \in S : f[y] = y) /\ \A y \in S : y \in Int
      BY FS_Singleton
    <2>2. x \in S /\ {} \in SUBSET S /\ x \in S \ {} /\ {} \cup {x} = S
      OBVIOUS
    <2> HIDE DEF f, S
    <2>3. PICK g : Adds(g, f, S)
      BY <2>1, AddsExists
    <2>4. g[S] = 0 + x
      BY <2>1, <2>2, <2>3 DEF Adds
    <2>5. SumSet(S) = g[S]
      BY <1>1, <2>1, <2>3
    <2> QED
      BY <2>4, <2>5 DEF S
  <1> QED
    BY <1>2, <1>3

\* What is on its way is worth.
LEMMA OnItsWay ==
  ASSUME NEW t \in Trimmed, NEW to \in Decimals
  PROVE  /\ untrim(t, UnitDecimals) \in Nat
         /\ SumSet({untrim(m.trimmed, UnitDecimals) : m \in {[trimmed |-> t, to |-> to]}})
              = untrim(t, UnitDecimals)
  <1>1. untrim(t, UnitDecimals) \in Nat
    BY UnitFact, ScaleNat DEF untrim, Trimmed
  <1>2. {untrim(m.trimmed, UnitDecimals) : m \in {[trimmed |-> t, to |-> to]}}
          = {untrim(t, UnitDecimals)}
    OBVIOUS
  <1> QED
    BY <1>1, <1>2, SumSetSmall

\* Nothing has no value, in whichever decimals.
LEMMA ScaleZero ==
  ASSUME NEW d \in Decimals PROVE scale(0, d, UnitDecimals) = 0
  <1>1. scale(0, d, UnitDecimals) = 0 * powerOfTen[UnitDecimals - d]
    BY UnitFact, DecimalsNat, ScaleUp
  <1>2. powerOfTen[UnitDecimals - d] \in Nat
    BY UnitFact, DecimalsNat, PowerDiff
  <1> QED
    BY <1>1, <1>2

\* A trimmed amount is exact at both ends.
LEMMA TrimExact ==
  ASSUME NEW a \in Nat, NEW from \in Decimals, NEW to \in Decimals
  PROVE  /\ trim(a, from, to) \in Trimmed
         /\ Exact(trim(a, from, to), from)
         /\ Exact(trim(a, from, to), to)
  <1> DEFINE d == minDecimals(minDecimals(TRIMMED_DECIMALS, from), to)
  <1>1. d \in Nat /\ d <= from /\ d <= to /\ d <= TRIMMED_DECIMALS
    BY DecimalsNat DEF minDecimals
  <1>2. scale(a, from, d) \in Nat
    BY <1>1, DecimalsNat, ScaleNat
  <1> HIDE DEF d
  <1> QED
    BY <1>1, <1>2 DEF trim, Trimmed, Exact, d

-----------------------------------------------------------------------------
(* The value.                                                              *)

LEMMA RoutesInitInv == RoutesInit => RoutesInv
  <1> SUFFICES ASSUME RoutesInit PROVE RoutesInv
    OBVIOUS
  <1>1. decimals \in Decimals /\ amount \in Nat /\ message = {}
    BY RoutesAssumption DEF RoutesInit
  <1>2. scale(amount, decimals, UnitDecimals) \in Nat
    BY <1>1, DecimalsNat, UnitFact, ScaleNat
  <1>3. {untrim(m.trimmed, UnitDecimals) : m \in message} = {}
    BY <1>1
  <1>4. origin = scale(amount, decimals, UnitDecimals)
    BY DEF RoutesInit
  <1>5. ValuePreserved
    BY <1>2, <1>3, <1>4, SumSetSmall DEF ValuePreserved
  <1> QED
    BY <1>1, <1>5 DEF RoutesInv

LEMMA SendInv ==
  ASSUME RoutesInv, NEW to \in Decimals, send(to) PROVE RoutesInv'
  <1> DEFINE t == trim(amount, decimals, to)
  <1>1. /\ decimals \in Decimals /\ amount \in Nat /\ message = {}
        /\ decimals' = decimals /\ origin' = origin /\ amount' = 0
        /\ message' = {[trimmed |-> t, to |-> to]}
        /\ untrim(t, decimals) = amount
    BY DEF RoutesInv, send, sendable
  <1>2. t \in Trimmed /\ Exact(t, decimals) /\ Exact(t, to)
    BY <1>1, TrimExact
  <1> HIDE DEF t
  <1>3. scale(amount, decimals, UnitDecimals) = untrim(t, UnitDecimals)
    <2>1. t.amount \in Nat /\ t.decimals \in Nat /\ t.decimals <= decimals
      BY <1>2 DEF Trimmed, Exact
    <2> QED
      BY <1>1, <2>1, DecimalsNat, UnitFact, ScaleTwice DEF untrim
  <1>4. origin = untrim(t, UnitDecimals)
    <2>1. {untrim(m.trimmed, UnitDecimals) : m \in message} = {}
      BY <1>1
    <2>2. origin = scale(amount, decimals, UnitDecimals) + 0
      BY <2>1, SumSetSmall DEF RoutesInv, ValuePreserved
    <2>3. untrim(t, UnitDecimals) \in Nat
      BY <1>2, OnItsWay
    <2> QED
      BY <1>3, <2>2, <2>3
  <1>5. ValuePreserved'
    <2>1. scale(amount', decimals', UnitDecimals) = 0
      BY <1>1, ScaleZero
    <2>2. /\ untrim(t, UnitDecimals) \in Nat
          /\ SumSet({untrim(m.trimmed, UnitDecimals) : m \in message'}) = untrim(t, UnitDecimals)
      BY <1>1, <1>2, OnItsWay
    <2>3. origin' = scale(amount', decimals', UnitDecimals)
                      + SumSet({untrim(m.trimmed, UnitDecimals) : m \in message'})
      BY <1>1, <1>4, <2>1, <2>2
    <2> QED
      BY <2>3 DEF ValuePreserved
  <1> QED
    BY <1>1, <1>2, <1>5 DEF RoutesInv

LEMMA ReceiveInv ==
  ASSUME RoutesInv, NEW m \in message, receive(m) PROVE RoutesInv'
  <1>1. PICK t \in Trimmed, to \in Decimals :
          Exact(t, to) /\ message = {[trimmed |-> t, to |-> to]}
    BY DEF RoutesInv
  <1>2. m.trimmed = t /\ m.to = to /\ amount = 0
    BY <1>1 DEF RoutesInv
  <1> DEFINE x == t.amount
             d == t.decimals
             n == minDecimals(minDecimals(TRIMMED_DECIMALS, to), to)
  <1>3. /\ x \in Nat /\ d \in Nat /\ to \in Nat /\ to <= UnitDecimals /\ UnitDecimals \in Nat
        /\ TRIMMED_DECIMALS \in Nat
    BY DecimalsNat, UnitFact DEF Trimmed
  <1>4. n \in Nat /\ d <= n /\ n <= to
    BY <1>1, <1>3 DEF Exact, minDecimals
  <1>5. /\ decimals' = to /\ message' = {} /\ origin' = origin
        /\ amount' = scale(scale(scale(x, d, to), to, n), n, to)
    <2>1. nativeTransferAmount(m) = [amount |-> scale(scale(x, d, to), to, n), decimals |-> n]
      BY <1>2 DEF nativeTransferAmount, untrim, trim
    <2> HIDE DEF n
    <2> QED
      BY <1>2, <2>1 DEF receive, untrim
  <1> HIDE DEF x, d, n
  <1>6. amount' = scale(x, d, to) /\ amount' \in Nat
    <2>1. scale(scale(x, d, to), to, n) = scale(x, d, n)
      BY <1>3, <1>4, ScaleBack
    <2>2. scale(scale(x, d, n), n, to) = scale(x, d, to)
      BY <1>3, <1>4, ScaleTwice
    <2>3. scale(x, d, to) \in Nat
      BY <1>3, ScaleNat
    <2> QED
      BY <1>5, <2>1, <2>2, <2>3
  <1>7. scale(amount', decimals', UnitDecimals) = untrim(t, UnitDecimals)
    <2>1. d <= to
      BY <1>3, <1>4
    <2>2. scale(scale(x, d, to), to, UnitDecimals) = scale(x, d, UnitDecimals)
      BY <1>3, <2>1, ScaleTwice
    <2> QED
      BY <1>5, <1>6, <2>2 DEF untrim, x, d
  <1>8. origin = untrim(t, UnitDecimals) /\ untrim(t, UnitDecimals) \in Nat
    <2>1. /\ untrim(t, UnitDecimals) \in Nat
          /\ SumSet({untrim(y.trimmed, UnitDecimals) : y \in message}) = untrim(t, UnitDecimals)
      BY <1>1, OnItsWay
    <2>2. scale(amount, decimals, UnitDecimals) = 0
      BY <1>2, ScaleZero DEF RoutesInv
    <2> QED
      BY <2>1, <2>2 DEF RoutesInv, ValuePreserved
  <1>9. ValuePreserved'
    <2>1. {untrim(y.trimmed, UnitDecimals) : y \in message'} = {}
      BY <1>5
    <2>2. origin' = scale(amount', decimals', UnitDecimals)
                      + SumSet({untrim(y.trimmed, UnitDecimals) : y \in message'})
      BY <1>5, <1>7, <1>8, <2>1, SumSetSmall
    <2> QED
      BY <2>2 DEF ValuePreserved
  <1> QED
    BY <1>5, <1>6, <1>9 DEF RoutesInv

LEMMA RoutesNextInv == RoutesInv /\ [RoutesNext]_routesVars => RoutesInv'
  <1> SUFFICES ASSUME RoutesInv, [RoutesNext]_routesVars PROVE RoutesInv'
    OBVIOUS
  <1>1. CASE UNCHANGED routesVars
    BY <1>1 DEF routesVars, RoutesInv, ValuePreserved
  <1> QED
    BY <1>1, SendInv, ReceiveInv DEF RoutesNext

\* INV-018, INV-021: along any route between tokens of any decimals the value
\* is what it was at the start, held or on its way (TrimmedAmount.sol, trim and
\* untrim, as _transferEntryPoint and _handleTransfer use them).
THEOREM ValueCorrect == RoutesSpec => []ValuePreserved
  <1>1. RoutesInv => ValuePreserved
    BY DEF RoutesInv
  <1> QED
    BY <1>1, RoutesInitInv, RoutesNextInv, PTL DEF RoutesSpec

-----------------------------------------------------------------------------
(* Dust.                                                                   *)

\* Rounding down to a number of decimals and back leaves aside less than one
\* unit of those decimals, and what is left needs no more rounding.
LEMMA RoundDown ==
  ASSUME NEW a \in Nat, NEW from \in Nat, NEW d \in Nat, d <= from
  PROVE  LET clean == scale(scale(a, from, d), d, from)
         IN  /\ clean \in Nat
             /\ clean <= a
             /\ a - clean < powerOfTen[from - d]
             /\ scale(clean, from, d) = scale(a, from, d)
  <1> DEFINE p == powerOfTen[from - d]
             x == scale(a, from, d)
             clean == scale(x, d, from)
  <1>1. p \in Nat \ {0}
    BY PowerDiff, Zenon
  <1>2. x \in Nat
    BY ScaleNat
  <1>3. clean = x * p
    BY <1>2, ScaleUp
  <1>4. scale(clean, from, d) = x
    <2>1. scale(clean, from, d) = scale(x, d, d)
      BY <1>2, ScaleBack
    <2>2. scale(x, d, d) = x * powerOfTen[d - d]
      BY <1>2, ScaleUp
    <2>3. d - d = 0
      OBVIOUS
    <2> QED
      BY <1>2, <2>1, <2>2, <2>3, PowerDef
  <1>5. x = a \div p
    <2>1. CASE from > d
      BY <2>1 DEF scale
    <2>2. CASE from = d
      <3>1. from - d = 0 /\ ~(from > d) /\ d - from = 0
        BY <2>2
      <3>2. p = 1 /\ x = a * 1
        BY <3>1, PowerDef DEF scale
      <3> QED
        BY <3>2
    <2> QED
      BY <2>1, <2>2
  <1> HIDE DEF p, x, clean
  <1>6. x * p <= a /\ a - x * p < p
    BY <1>1, <1>2, <1>5
  <1>7. clean \in Nat
    BY <1>1, <1>2, <1>3
  <1> QED
    BY <1>3, <1>4, <1>6, <1>7 DEF p, x, clean

\* What is refused as dust, from any holding and to any decimals.
LEMMA DustFact ==
  ASSUME decimals \in Decimals, amount \in Nat
  PROVE  DustIsMinimal
  <1> SUFFICES ASSUME NEW to \in Decimals
               PROVE  LET coarse == minDecimals(minDecimals(TRIMMED_DECIMALS, decimals), to)
                          clean == untrim(trim(amount, decimals, to), decimals)
                      IN  /\ clean <= amount
                          /\ amount - clean < powerOfTen[decimals - coarse]
                          /\ /\ Fits(trim(amount, decimals, to))
                             /\ Fits(shift(trim(amount, decimals, to), decimals))
                             => sendable(clean, decimals, to)
    BY DEF DustIsMinimal
  <1> DEFINE d == minDecimals(minDecimals(TRIMMED_DECIMALS, decimals), to)
             x == scale(amount, decimals, d)
             clean == scale(x, d, decimals)
  <1>1. d \in Nat /\ d <= decimals /\ decimals \in Nat
    BY DecimalsNat DEF minDecimals
  <1>2. trim(amount, decimals, to) = [amount |-> x, decimals |-> d]
    BY DEF trim
  <1>3. trim(clean, decimals, to) = [amount |-> scale(clean, decimals, d), decimals |-> d]
    BY DEF trim
  <1> HIDE DEF d
  <1>4. /\ clean <= amount
        /\ amount - clean < powerOfTen[decimals - d]
        /\ scale(clean, decimals, d) = x
    BY <1>1, RoundDown
  <1> HIDE DEF x, clean
  <1>5. untrim(trim(amount, decimals, to), decimals) = clean
    BY <1>2 DEF untrim, clean
  <1>6. trim(clean, decimals, to) = trim(amount, decimals, to)
    BY <1>2, <1>3, <1>4
  <1>7. /\ Fits(trim(amount, decimals, to))
        /\ Fits(shift(trim(amount, decimals, to), decimals))
        => sendable(clean, decimals, to)
    BY <1>5, <1>6, Zenon DEF sendable
  <1> QED
    BY <1>4, <1>5, <1>7 DEF d

\* The refusal of dust is never wider than the conversion needs: what stands
\* in the way of a transfer is less than one unit of the coarsest decimals
\* (NttManager.sol, _trimTransferAmount).
THEOREM DustCorrect == RoutesSpec => []DustIsMinimal
  <1>1. RoutesInv => DustIsMinimal
    BY DustFact DEF RoutesInv
  <1> QED
    BY <1>1, RoutesInitInv, RoutesNextInv, PTL DEF RoutesSpec

=============================================================================
