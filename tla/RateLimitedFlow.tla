-------------------------- MODULE RateLimitedFlow --------------------------
(***************************************************************************)
(* One rate limit of an NttManager over time: transfers that consume it,   *)
(* transfers in the other direction that refill it, and the owner who      *)
(* changes it (the rate limit calls of evm/src/NttManager/NttManager.sol). *)
(*                                                                         *)
(* The outbound limit is consumed by _enqueueOrConsumeOutboundRateLimit    *)
(* and refilled by _enqueueOrConsumeInboundRateLimit; an inbound limit the *)
(* other way round.  A transfer above the capacity is queued or refused:   *)
(* either way it does not touch the limit.                                 *)
(***************************************************************************)
EXTENDS RateLimiter, Sequences, FiniteSetsExt

CONSTANTS
    Amount,     \* amounts that are transferred
    Limit,      \* limits the owner sets
    MaxTime,    \* bound on the clock
    MaxFlows    \* bound on the transfers since the limit was last set

ASSUME FlowAssumption ==
    /\ rateLimitDuration # 0
    /\ Amount \subseteq 0 .. U64_MAX
    /\ Limit \subseteq 0 .. U64_MAX

VARIABLES
    params,     \* the rate limit
    now,        \* block.timestamp
    flows       \* history: the transfers since the limit was last set

vars == <<params, now, flows>>

Flow == [at : Nat, consumed : Nat, backfilled : Nat]

TypeOK ==
    /\ params \in RateLimitParams
    /\ now \in Nat
    /\ flows \in Seq(Flow)

Init ==
    /\ now = 1
    /\ \E l \in Limit : params = freshLimit(l, now)
    /\ flows = << >>

\* A transfer within the capacity.
consume(a) ==
    /\ Len(flows) < MaxFlows
    /\ ~isAmountRateLimited(params, a, now)
    /\ params' = consumeAmount(params, a, now)
    /\ flows' = Append(flows, [at |-> now, consumed |-> a, backfilled |-> 0])
    /\ UNCHANGED now

\* A transfer in the other direction.
backfill(a) ==
    /\ Len(flows) < MaxFlows
    /\ params' = backfillAmount(params, a, now)
    /\ flows' = Append(flows, [at |-> now, consumed |-> 0, backfilled |-> a])
    /\ UNCHANGED now

\* setOutboundLimit, setInboundLimit, or setPeer, which sets the inbound one.
setLimit(l) ==
    /\ setLimitSucceeds(params, l, now)
    /\ params' = newLimitParams(params, l, now)
    /\ flows' = << >>
    /\ UNCHANGED now

tick ==
    /\ now < MaxTime
    /\ now' = now + 1
    /\ UNCHANGED <<params, flows>>

Next ==
    \/ \E a \in Amount : consume(a) \/ backfill(a)
    \/ \E l \in Limit : setLimit(l)
    \/ tick

Spec == Init /\ [][Next]_vars

-----------------------------------------------------------------------------
\* The stored capacity never exceeds the limit and the clock never runs behind
\* the limit's timestamp, which the unchecked subtraction of
\* _getCurrentCapacity relies on.
CapacityWithinLimit ==
    /\ CapacityWithin(params)
    /\ params.lastTxTimestamp <= now

\* The error CapacityCannotExceedLimit is unreachable: the owner can set any
\* limit at any time, in particular lower it during an incident.
SetLimitNeverReverts == \A l \in Limit : setLimitSucceeds(params, l, now)

Total(S, f(_)) == MapThenSumSet(f, S)

\* INV-009, INV-010: what leaves without being queued between any two
\* transfers is at most one limit, plus what the time between them replenishes,
\* plus what came back meanwhile.  In one duration: two limits net.
WindowBound ==
    \A i, j \in DOMAIN flows : i <= j =>
        LET consumedAt(k) == flows[k].consumed
            backfilledAt(k) == flows[k].backfilled
        IN  Total(i .. j, consumedAt) <=
                params.limit
                  + (params.limit * (flows[j].at - flows[i].at)) \div rateLimitDuration
                  + Total(i .. j, backfilledAt)

\* INV-011: a transfer in the other direction never costs capacity, and a
\* transfer out with the same amount back leaves exactly the capacity there
\* was, so flow that returns is free.
BackflowRestoresCapacity ==
    \A a \in Amount :
        /\ getCurrentCapacity(backfillAmount(params, a, now), now)
              >= getCurrentCapacity(params, now)
        /\ ~isAmountRateLimited(params, a, now) =>
              getCurrentCapacity(
                backfillAmount(consumeAmount(params, a, now), a, now), now)
                = getCurrentCapacity(params, now)

=============================================================================
