-------------------------- MODULE SolanaSuiProofs --------------------------
(***************************************************************************)
(* Proofs about the Solana program and the Sui packages together, for any  *)
(* finite set of transceivers, any decimals, balances, amounts and limits  *)
(* and any clock: the pair implements the abstract bridge, neither chain   *)
(* approves a message without its quorum, on Solana what flows back        *)
(* refills the limit by exactly its amount, and no message is stranded     *)
(* that has enough votes or is due.                                        *)
(*                                                                         *)
(* The two directions of the bridge are alike, so the argument is made for *)
(* one direction c: the outbox and the posts of chain c, the inbox and the *)
(* transceiver ids of the other chain.  Every step of Next has one of five *)
(* forms (SomeStep: a transfer starts, an item is released, a vote is      *)
(* recorded, a message is paid, nothing moves).  Each form keeps the       *)
(* inductive invariant IInv and is a step of the bridge or a stutter.      *)
(***************************************************************************)
EXTENDS SolanaSui, AmountTheorems

\* Amounts, outbox and inbox items, limits and registries, as sets.
Trimmed == [amount : Nat, decimals : Nat]

\* An outbox item of either chain.
OutboxItem == [amount : Trimmed, release_timestamp : Int, released : SUBSET Nat]

\* The release status of an inbox item.
ReleaseStatus == [status : {"NotApproved", "ReleaseAfter", "Released"}, at : Int]

\* An inbox item of Solana, which keeps the amount.
SolanaItem == [amount : Nat, votes : SUBSET Nat, release_status : ReleaseStatus]

\* An inbox item of Sui.
SuiItem == [votes : SUBSET Nat, release_status : ReleaseStatus]

\* A RateLimitState.
RateLimit == [limit : 0 .. U64_MAX, capacity_at_last_tx : Int, last_tx_timestamp : Int]

\* The config account of Solana.
SolanaConfig ==
    [paused : BOOLEAN, threshold : Nat, enabled_transceivers : SUBSET (0 .. BITS - 1),
     next_transceiver_id : Nat]

\* The ids that transceivers have, or -1.
Ids == [Transceiver -> Nat \cup {-1}]

\* The registries: bitmaps have room for every id, a threshold is a number.
RegistryInv ==
    /\ sol_config \in SolanaConfig
    /\ sol_transceiver_id \in Ids
    /\ sui_state \in [threshold : Nat, paused : BOOLEAN]
    /\ sui_registry \in [enabled_bitmap : SUBSET (0 .. BITS - 1), next_id : Nat]
    /\ sui_transceiver_id \in Ids

\* The limits are numbers of 64 bits.
LimitInv ==
    /\ now \in Int
    /\ sol_outbox_rate_limit \in RateLimit /\ sol_inbox_rate_limit \in RateLimit
    /\ sui_outbox_rate_limit \in RateLimit /\ sui_inbound_rate_limit \in RateLimit

\* The types of the boxes and of the tokens; what Solana has validated was
\* posted on Sui, and an inbox item of Solana has the amount of its message.
BoxTypeInv ==
    /\ sol_balance \in Nat /\ sui_coins \in Nat
    /\ sol_validated \subseteq sui_posted
    /\ \A m \in DOMAIN sol_inbox :
          sol_inbox[m] \in SolanaItem /\ sol_inbox[m].amount = untrim(m.amount, solana_decimals)
    /\ \A m \in DOMAIN sui_inbox : sui_inbox[m] \in SuiItem

\* One direction of the bridge: the outbox of the chain that sends, what its
\* transceivers posted, and the inbox and the ids of the chain that receives.
Side == {"solana", "sui"}

\* The outbox of the chain that sends.
outboxAt(c) == IF c = "solana" THEN sol_outbox ELSE sui_outbox

\* What its transceivers have posted.
postedAt(c) == IF c = "solana" THEN sol_posted ELSE sui_posted

\* The inbox of the chain that receives.
inboxFrom(c) == IF c = "solana" THEN sui_inbox ELSE sol_inbox

\* The bound on its transfers.
itemsAt(c) == IF c = "solana" THEN SolanaItems ELSE SuiItems

\* The ids of the transceivers that deliver.
idsFrom(c) == IF c = "solana" THEN sui_transceiver_id ELSE sol_transceiver_id

\* The trimmed amount loses nothing in the decimals of either chain.
Whole(trimmed) ==
    trimmed.decimals <= solana_decimals /\ trimmed.decimals <= sui_decimals

\* The message is that of an outbox item some transceiver has released.
Announced(outbox, m) ==
    \E k \in DOMAIN outbox :
        outbox[k].released # {} /\ m = [id |-> k, amount |-> outbox[k].amount]

\* The votes are ids of transceivers that delivered the message.
VotesOf(votes, ids, m, posted) ==
    /\ votes \in SUBSET Nat
    /\ \A v \in votes : \E t \in Transceiver : v = ids[t] /\ <<t, m>> \in posted

\* In either direction an amount in the outbox is whole, what was posted is
\* the message of a released item, and what is in the inbox was posted by the
\* transceivers that voted for it.
FlowInv ==
    \A c \in Side :
        /\ outboxAt(c) \in Seq(OutboxItem) /\ Len(outboxAt(c)) <= itemsAt(c)
        /\ \A k \in DOMAIN outboxAt(c) : Whole(outboxAt(c)[k].amount)
        /\ \A x \in postedAt(c) : Announced(outboxAt(c), x[2])
        /\ \A m \in DOMAIN inboxFrom(c) :
              /\ Announced(outboxAt(c), m)
              /\ inboxFrom(c)[m].release_status \in ReleaseStatus
              /\ VotesOf(inboxFrom(c)[m].votes, idsFrom(c), m, postedAt(c))

\* The inductive invariant.
IInv == RegistryInv /\ LimitInv /\ BoxTypeInv /\ FlowInv

-----------------------------------------------------------------------------
(* Values.                                                                 *)

\* The common unit is at least as fine as both tokens.
LEMMA UnitFact ==
  /\ UnitDecimals \in Nat
  /\ solana_decimals \in Nat /\ solana_decimals <= UnitDecimals
  /\ sui_decimals \in Nat /\ sui_decimals <= UnitDecimals
  <1> DEFINE S == {solana_decimals, sui_decimals, TRIMMED_DECIMALS}
  <1>1. S \in SUBSET Nat /\ S # {} /\ solana_decimals \in S /\ sui_decimals \in S
    BY SolanaSuiAssumption, TrimmedDecimalsAssumption
  <1>2. IsFiniteSet(S)
    <2>1. IsFiniteSet({solana_decimals}) /\ IsFiniteSet({sui_decimals} \cup {TRIMMED_DECIMALS})
      BY FS_Singleton, FS_AddElement
    <2>2. S = ({sui_decimals} \cup {TRIMMED_DECIMALS}) \cup {solana_decimals}
      OBVIOUS
    <2> QED
      BY <2>1, <2>2, FS_AddElement
  <1>3. UnitDecimals = Max(S)
    BY DEF UnitDecimals
  <1> HIDE DEF S
  <1>4. \E x \in S : \A y \in S : x >= y
    BY <1>1, <1>2, MaximumExists
  <1>5. Max(S) \in S /\ \A y \in S : Max(S) >= y
    BY <1>4, Zenon DEF Max
  <1> QED
    BY <1>1, <1>3, <1>5

\* What is paid out for a trimmed amount that is whole is worth the amount.
LEMMA WorthOfUntrim ==
  ASSUME NEW t \in Trimmed, NEW d \in Nat, t.decimals <= d, d <= UnitDecimals
  PROVE  untrim(t, d) \in Nat /\ scale(untrim(t, d), d, UnitDecimals) = untrim(t, UnitDecimals)
  <1>1. t.amount \in Nat /\ t.decimals \in Nat
    BY DEF Trimmed
  <1>2. untrim(t, d) = scale(t.amount, t.decimals, d)
    BY DEF untrim
  <1>3. untrim(t, UnitDecimals) = scale(t.amount, t.decimals, UnitDecimals)
    BY DEF untrim
  <1>4. scale(scale(t.amount, t.decimals, d), d, UnitDecimals)
          = scale(t.amount, t.decimals, UnitDecimals)
    BY <1>1, UnitFact, ScaleTwice
  <1>5. scale(t.amount, t.decimals, d) \in Nat
    BY <1>1, ScaleNat
  <1> QED
    BY <1>2, <1>3, <1>4, <1>5

\* What trim returns is whole on both chains.
LEMMA TrimWhole ==
  ASSUME NEW a \in Nat
  PROVE  /\ trim(a, solana_decimals, sui_decimals) \in Trimmed
         /\ Whole(trim(a, solana_decimals, sui_decimals))
         /\ trim(a, sui_decimals, solana_decimals) \in Trimmed
         /\ Whole(trim(a, sui_decimals, solana_decimals))
  <1> DEFINE d == minDecimals(minDecimals(TRIMMED_DECIMALS, solana_decimals), sui_decimals)
             e == minDecimals(minDecimals(TRIMMED_DECIMALS, sui_decimals), solana_decimals)
  <1>1. TRIMMED_DECIMALS \in Nat /\ solana_decimals \in Nat /\ sui_decimals \in Nat
    BY UnitFact, TrimmedDecimalsAssumption
  <1>2. /\ d \in Nat /\ d <= solana_decimals /\ d <= sui_decimals
        /\ e \in Nat /\ e <= solana_decimals /\ e <= sui_decimals
    BY <1>1 DEF minDecimals
  <1>3. scale(a, solana_decimals, d) \in Nat /\ scale(a, sui_decimals, e) \in Nat
    BY <1>1, <1>2, ScaleNat
  <1> HIDE DEF d, e
  <1> QED
    BY <1>2, <1>3 DEF trim, Trimmed, Whole, d, e

\* The limits keep their type.
LEMMA LimitTypes ==
  ASSUME now \in Int, NEW rl \in RateLimit, NEW a \in Int, NEW l \in 0 .. U64_MAX
  PROVE  /\ Solana!consume(rl, a) \in RateLimit /\ Solana!refill(rl, a) \in RateLimit
         /\ Solana!set_limit(rl, l) \in RateLimit /\ Solana!new_rate_limit(l) \in RateLimit
         /\ Sui!consume(rl, a) \in RateLimit /\ Sui!refill(rl, a) \in RateLimit
         /\ Sui!set_limit(rl, l) \in RateLimit /\ Sui!new_rate_limit(l) \in RateLimit
  <1> DEFINE s == Solana!capacity_at(rl, now)
             u == Sui!capacity_at(rl, now)
             gone == (now - rl.last_tx_timestamp) * rl.limit
  <1>1. U64_MAX \in Nat /\ RATE_LIMIT_DURATION \in Nat \ {0}
    BY SolanaSuiAssumption, U64MaxAssumption
  <1>2. /\ rl.limit \in Int /\ rl.limit \in 0 .. U64_MAX
        /\ rl.capacity_at_last_tx \in Int /\ rl.last_tx_timestamp \in Int
    BY <1>1 DEF RateLimit
  <1>3. gone \in Int
    <2>1. now - rl.last_tx_timestamp \in Int
      BY <1>2
    <2> QED
      BY <1>2, <2>1
  <1>4. s = Solana!least(rl.capacity_at_last_tx + gone \div RATE_LIMIT_DURATION, rl.limit)
    BY DEF Solana!capacity_at
  <1>5. u = Sui!least(rl.capacity_at_last_tx + gone \div RATE_LIMIT_DURATION, rl.limit)
    BY DEF Sui!capacity_at
  <1> HIDE DEF gone
  <1>6. gone \div RATE_LIMIT_DURATION \in Int
    BY <1>1, <1>3
  <1>7. s \in Int /\ u \in Int
    BY <1>2, <1>4, <1>5, <1>6 DEF Solana!least, Sui!least
  <1> HIDE DEF s, u
  <1>8. Solana!consume(rl, a) \in RateLimit /\ Sui!consume(rl, a) \in RateLimit
    <2>1. s - a \in Int /\ u - a \in Int
      BY <1>7
    <2>2. /\ Solana!consume(rl, a) = [rl EXCEPT !.capacity_at_last_tx = s - a,
                                                !.last_tx_timestamp = now]
          /\ Sui!consume(rl, a) = [rl EXCEPT !.capacity_at_last_tx = u - a,
                                             !.last_tx_timestamp = now]
      BY DEF Solana!consume, Sui!consume, s, u
    <2> QED
      BY <2>1, <2>2 DEF RateLimit
  <1>9. Solana!refill(rl, a) \in RateLimit /\ Sui!refill(rl, a) \in RateLimit
    <2> DEFINE x == Solana!least(Solana!least(s + a, U64_MAX), rl.limit)
               y == Sui!least(Sui!least(u + a, U64_MAX), rl.limit)
    <2>1. x \in Int /\ y \in Int
      BY <1>1, <1>2, <1>7 DEF Solana!least, Sui!least
    <2>2. /\ Solana!refill(rl, a) = [rl EXCEPT !.capacity_at_last_tx = x,
                                               !.last_tx_timestamp = now]
          /\ Sui!refill(rl, a) = [rl EXCEPT !.capacity_at_last_tx = y]
      BY DEF Solana!refill, Sui!refill, s, u
    <2> HIDE DEF x, y
    <2> QED
      BY <2>1, <2>2 DEF RateLimit
  <1>10. Solana!set_limit(rl, l) \in RateLimit /\ Sui!set_limit(rl, l) \in RateLimit
    <2> DEFINE x == IF rl.limit > l THEN IF s > rl.limit - l THEN s - (rl.limit - l) ELSE 0
                    ELSE Solana!least(s + (l - rl.limit), U64_MAX)
               y == IF rl.limit > l THEN IF rl.limit - l > u THEN 0 ELSE u - (rl.limit - l)
                    ELSE Sui!least(u + (l - rl.limit), U64_MAX)
    <2>1. l \in Int
      BY <1>1
    <2>2. x \in Int /\ y \in Int
      BY <1>1, <1>2, <1>7, <2>1 DEF Solana!least, Sui!least
    <2>3. Solana!least(x, l) \in Int /\ Sui!least(y, l) \in Int
      BY <2>1, <2>2 DEF Solana!least, Sui!least
    <2>4. /\ Solana!set_limit(rl, l) = [limit |-> l, capacity_at_last_tx |-> Solana!least(x, l),
                                        last_tx_timestamp |-> now]
          /\ Sui!set_limit(rl, l) = [limit |-> l, capacity_at_last_tx |-> Sui!least(y, l),
                                     last_tx_timestamp |-> now]
      BY DEF Solana!set_limit, Sui!set_limit, s, u
    <2> HIDE DEF x, y
    <2> QED
      BY <2>3, <2>4 DEF RateLimit
  <1>11. Solana!new_rate_limit(l) \in RateLimit /\ Sui!new_rate_limit(l) \in RateLimit
    BY <1>1 DEF Solana!new_rate_limit, Sui!new_rate_limit, RateLimit
  <1> QED
    BY <1>8, <1>9, <1>10, <1>11

-----------------------------------------------------------------------------
(* What a step does to the flow in one direction.                          *)

\* The types are kept, and so are the ids that were given.
TypesKept ==
    /\ RegistryInv' /\ LimitInv' /\ BoxTypeInv'
    /\ \A c \in Side : \A t \in Transceiver :
          idsFrom(c)[t] \in Nat => idsFrom(c)'[t] = idsFrom(c)[t]

\* All but the outbox, what was posted, or the inbox of a direction stays.
OtherOutboxes(c) == \A d \in Side \ {c} : outboxAt(d)' = outboxAt(d)

\* The posts of the other direction stay.
OtherPosts(c) == \A d \in Side \ {c} : postedAt(d)' = postedAt(d)

\* The inbox of the other direction stays.
OtherInboxes(c) == \A d \in Side \ {c} : inboxFrom(d)' = inboxFrom(d)

\* A transfer starts.
Start(c, item) ==
    /\ item \in OutboxItem /\ Whole(item.amount) /\ item.released = {}
    /\ Len(outboxAt(c)) < itemsAt(c)
    /\ outboxAt(c)' = Append(outboxAt(c), item) /\ OtherOutboxes(c)
    /\ postedAt(c)' = postedAt(c) /\ OtherPosts(c)
    /\ inboxFrom(c)' = inboxFrom(c) /\ OtherInboxes(c)
    /\ Held = Held' + untrim(item.amount, UnitDecimals)

\* A transceiver releases an outbox item.
Released(out, out1, k) ==
    /\ out1 \in Seq(OutboxItem) /\ DOMAIN out1 = DOMAIN out /\ k \in DOMAIN out
    /\ \A n \in DOMAIN out : out1[n].amount = out[n].amount
    /\ \A n \in DOMAIN out \ {k} : out1[n].released = out[n].released
    /\ out1[k].released # {}

\* The step in which that happens.
Release(c, k, t) ==
    /\ Released(outboxAt(c), outboxAt(c)', k) /\ OtherOutboxes(c)
    /\ postedAt(c)' = postedAt(c) \cup {<<t, [id |-> k, amount |-> outboxAt(c)[k].amount]>>}
    /\ OtherPosts(c)
    /\ inboxFrom(c)' = inboxFrom(c) /\ OtherInboxes(c)
    /\ Held' = Held

\* A vote is recorded and may approve the message.
Vote(c, m, i) ==
    /\ Announced(outboxAt(c), m)
    /\ i.release_status \in ReleaseStatus
    /\ VotesOf(i.votes, idsFrom(c), m, postedAt(c))
    /\ m \in DOMAIN inboxFrom(c) =>
          \/ i.release_status.status = inboxFrom(c)[m].release_status.status
          \/ /\ inboxFrom(c)[m].release_status.status = "NotApproved"
             /\ i.release_status.status = "ReleaseAfter"
    /\ m \notin DOMAIN inboxFrom(c) =>
          i.release_status.status \in {"NotApproved", "ReleaseAfter"}
    /\ outboxAt(c)' = outboxAt(c) /\ OtherOutboxes(c)
    /\ postedAt(c)' = postedAt(c) /\ OtherPosts(c)
    /\ inboxFrom(c)' = [x \in DOMAIN inboxFrom(c) \cup {m} |->
                           IF x = m THEN i ELSE inboxFrom(c)[x]]
    /\ OtherInboxes(c)
    /\ Held' = Held

\* An approved message is paid.
Pay(c, m, i) ==
    /\ m \in DOMAIN inboxFrom(c)
    /\ inboxFrom(c)[m].release_status.status = "ReleaseAfter"
    /\ outboxAt(c)' = outboxAt(c) /\ OtherOutboxes(c)
    /\ postedAt(c)' = postedAt(c) /\ OtherPosts(c)
    /\ i.votes = inboxFrom(c)[m].votes
    /\ i.release_status = [status |-> "Released", at |-> 0]
    /\ inboxFrom(c)' = [inboxFrom(c) EXCEPT ![m] = i] /\ OtherInboxes(c)
    /\ Held' = Held + untrim(m.amount, UnitDecimals)

\* No transfer moves: registries, limits, pauses, validations and time.
Quiet ==
    /\ \A c \in Side : /\ outboxAt(c)' = outboxAt(c) /\ postedAt(c)' = postedAt(c)
                       /\ inboxFrom(c)' = inboxFrom(c)
    /\ Held' = Held

\* The forms a step may have.
SomeStep ==
    /\ TypesKept
    /\ \/ Quiet
       \/ \E c \in Side :
             \/ \E item \in OutboxItem : Start(c, item)
             \/ \E k, t : Release(c, k, t)
             \/ \E m, i : Vote(c, m, i)
             \/ \E m, i : Pay(c, m, i)

-----------------------------------------------------------------------------
(* The flow invariant.                                                     *)

\* Votes stay votes when ids are kept and more is posted.
LEMMA VotesKept ==
  ASSUME NEW votes, NEW m, NEW ids, NEW ids1, NEW posted, NEW posted1,
         VotesOf(votes, ids, m, posted), posted \subseteq posted1,
         \A t \in Transceiver : ids[t] \in Nat => ids1[t] = ids[t]
  PROVE  VotesOf(votes, ids1, m, posted1)
  BY DEF VotesOf

\* The bounds are numbers, and the domain of an outbox gives its length.
LEMMA ItemsNat == \A c \in Side : itemsAt(c) \in Nat
  BY SolanaSuiAssumption DEF itemsAt, Side

\* Outboxes with the same domain have the same length.
LEMMA SameLength ==
  ASSUME NEW s \in Seq(OutboxItem), NEW t \in Seq(OutboxItem), DOMAIN s = DOMAIN t
  PROVE  Len(s) = Len(t)
  OBVIOUS

\* An outbox grows by a whole item that is not released yet.
LEMMA OutboxAppends ==
  ASSUME NEW out \in Seq(OutboxItem), NEW item \in OutboxItem, NEW out1, out1 = Append(out, item),
         \A k \in DOMAIN out : Whole(out[k].amount), Whole(item.amount)
  PROVE  /\ out1 \in Seq(OutboxItem)
         /\ Len(out1) = Len(out) + 1 /\ DOMAIN out = 1 .. Len(out) /\ DOMAIN out1 = 1 .. Len(out1)
         /\ out1[Len(out) + 1] = item /\ \A k \in DOMAIN out : out1[k] = out[k]
         /\ \A k \in DOMAIN out1 : Whole(out1[k].amount)
         /\ \A m : Announced(out, m) => Announced(out1, m)
  <1>1. /\ out1 \in Seq(OutboxItem) /\ Len(out) \in Nat
        /\ Len(out1) = Len(out) + 1 /\ DOMAIN out = 1 .. Len(out) /\ DOMAIN out1 = 1 .. Len(out1)
    OBVIOUS
  <1>2. out1[Len(out) + 1] = item /\ \A k \in DOMAIN out : out1[k] = out[k]
    OBVIOUS
  <1>3. \A k \in DOMAIN out1 : k \in DOMAIN out \/ k = Len(out) + 1
    BY <1>1
  <1>4. \A k \in DOMAIN out : k \in DOMAIN out1
    BY <1>1
  <1>5. \A k \in DOMAIN out1 : Whole(out1[k].amount)
    BY <1>2, <1>3
  <1>6. \A m : Announced(out, m) => Announced(out1, m)
    BY <1>2, <1>4 DEF Announced
  <1> QED
    BY <1>1, <1>2, <1>5, <1>6

\* An item of an outbox is released.
LEMMA OutboxReleases ==
  ASSUME NEW out \in Seq(OutboxItem), NEW out1, NEW k, Released(out, out1, k),
         \A n \in DOMAIN out : Whole(out[n].amount)
  PROVE  /\ \A n \in DOMAIN out1 : Whole(out1[n].amount)
         /\ \A m : Announced(out, m) => Announced(out1, m)
         /\ Announced(out1, [id |-> k, amount |-> out[k].amount])
  BY DEF Released, Announced

\* What a step may add to the flow.
LEMMA FlowKept ==
  ASSUME FlowInv, TypesKept,
         \A d \in Side :
            /\ outboxAt(d)' \in Seq(OutboxItem) /\ Len(outboxAt(d)') <= itemsAt(d)
            /\ \A k \in DOMAIN outboxAt(d)' : Whole(outboxAt(d)'[k].amount)
            /\ \A m : Announced(outboxAt(d), m) => Announced(outboxAt(d)', m),
         \A d \in Side :
            /\ postedAt(d) \subseteq postedAt(d)'
            /\ \A x \in postedAt(d)' : x \in postedAt(d) \/ Announced(outboxAt(d)', x[2]),
         \A d \in Side : \A m \in DOMAIN inboxFrom(d)' :
            /\ Announced(outboxAt(d), m)
            /\ inboxFrom(d)'[m].release_status \in ReleaseStatus
            /\ VotesOf(inboxFrom(d)'[m].votes, idsFrom(d), m, postedAt(d))
  PROVE  FlowInv'
  <1> SUFFICES ASSUME NEW d \in Side
               PROVE  /\ outboxAt(d)' \in Seq(OutboxItem) /\ Len(outboxAt(d)') <= itemsAt(d)
                      /\ \A k \in DOMAIN outboxAt(d)' : Whole(outboxAt(d)'[k].amount)
                      /\ \A x \in postedAt(d)' : Announced(outboxAt(d)', x[2])
                      /\ \A m \in DOMAIN inboxFrom(d)' :
                            /\ Announced(outboxAt(d)', m)
                            /\ inboxFrom(d)'[m].release_status \in ReleaseStatus
                            /\ VotesOf(inboxFrom(d)'[m].votes, idsFrom(d)', m, postedAt(d)')
    BY DEF FlowInv, itemsAt
  <1>1. \A x \in postedAt(d) : Announced(outboxAt(d), x[2])
    BY DEF FlowInv
  <1>2. \A x \in postedAt(d)' : Announced(outboxAt(d)', x[2])
    BY <1>1
  <1>3. \A t \in Transceiver : idsFrom(d)[t] \in Nat => idsFrom(d)'[t] = idsFrom(d)[t]
    BY DEF TypesKept
  <1>4. ASSUME NEW m \in DOMAIN inboxFrom(d)'
        PROVE  VotesOf(inboxFrom(d)'[m].votes, idsFrom(d)', m, postedAt(d)')
    BY <1>3, VotesKept
  <1> QED
    BY <1>2, <1>4

\* Every form keeps the flow invariant.
LEMMA FlowStep ==
  ASSUME FlowInv, SomeStep
  PROVE  FlowInv'
  <1>1. TypesKept
    BY DEF SomeStep
  <1>2. ASSUME NEW d \in Side
        PROVE  /\ outboxAt(d) \in Seq(OutboxItem) /\ Len(outboxAt(d)) <= itemsAt(d)
               /\ \A k \in DOMAIN outboxAt(d) : Whole(outboxAt(d)[k].amount)
               /\ \A m \in DOMAIN inboxFrom(d) :
                     /\ Announced(outboxAt(d), m)
                     /\ inboxFrom(d)[m].release_status \in ReleaseStatus
                     /\ VotesOf(inboxFrom(d)[m].votes, idsFrom(d), m, postedAt(d))
    BY DEF FlowInv
  <1>3. CASE Quiet
    BY <1>1, <1>2, <1>3, FlowKept DEF Quiet
  <1>4. ASSUME NEW c \in Side, NEW item \in OutboxItem, Start(c, item) PROVE FlowInv'
    <2>1. /\ outboxAt(c)' \in Seq(OutboxItem) /\ Len(outboxAt(c)') = Len(outboxAt(c)) + 1
          /\ \A k \in DOMAIN outboxAt(c)' : Whole(outboxAt(c)'[k].amount)
          /\ \A m : Announced(outboxAt(c), m) => Announced(outboxAt(c)', m)
      BY <1>2, <1>4, OutboxAppends DEF Start
    <2>2. Len(outboxAt(c)') <= itemsAt(c)
      <3>1. Len(outboxAt(c)) \in Nat /\ Len(outboxAt(c)) < itemsAt(c) /\ itemsAt(c) \in Nat
        BY <1>2, <1>4, ItemsNat DEF Start
      <3> QED
        BY <2>1, <3>1
    <2>3. \A d \in Side \ {c} : outboxAt(d)' = outboxAt(d)
      BY <1>4 DEF Start, OtherOutboxes
    <2>4. \A d \in Side : postedAt(d)' = postedAt(d) /\ inboxFrom(d)' = inboxFrom(d)
      BY <1>4 DEF Start, OtherPosts, OtherInboxes
    <2> QED
      BY <1>1, <1>2, <2>1, <2>3, <2>4, <2>2, FlowKept
  <1>5. ASSUME NEW c \in Side, NEW k, NEW t, Release(c, k, t) PROVE FlowInv'
    <2>1. /\ outboxAt(c)' \in Seq(OutboxItem) /\ Len(outboxAt(c)') = Len(outboxAt(c))
          /\ \A n \in DOMAIN outboxAt(c)' : Whole(outboxAt(c)'[n].amount)
          /\ \A m : Announced(outboxAt(c), m) => Announced(outboxAt(c)', m)
          /\ Announced(outboxAt(c)', [id |-> k, amount |-> outboxAt(c)[k].amount])
      <3>1. Released(outboxAt(c), outboxAt(c)', k)
        BY <1>5 DEF Release
      <3> QED
        BY <1>2, <3>1, OutboxReleases, SameLength DEF Released
    <2>2. \A d \in Side \ {c} : outboxAt(d)' = outboxAt(d) /\ postedAt(d)' = postedAt(d)
      BY <1>5 DEF Release, OtherOutboxes, OtherPosts
    <2>3. \A d \in Side : inboxFrom(d)' = inboxFrom(d)
      BY <1>5 DEF Release, OtherInboxes
    <2>4. postedAt(c)' = postedAt(c) \cup {<<t, [id |-> k, amount |-> outboxAt(c)[k].amount]>>}
      BY <1>5 DEF Release
    <2>5. \A d \in Side :
            /\ outboxAt(d)' \in Seq(OutboxItem) /\ Len(outboxAt(d)') <= itemsAt(d)
            /\ \A n \in DOMAIN outboxAt(d)' : Whole(outboxAt(d)'[n].amount)
            /\ \A m : Announced(outboxAt(d), m) => Announced(outboxAt(d)', m)
      BY <1>2, <2>1, <2>2
    <2>6. \A d \in Side :
            /\ postedAt(d) \subseteq postedAt(d)'
            /\ \A x \in postedAt(d)' : x \in postedAt(d) \/ Announced(outboxAt(d)', x[2])
      BY <2>1, <2>2, <2>4
    <2>7. \A d \in Side : \A m \in DOMAIN inboxFrom(d)' :
            /\ Announced(outboxAt(d), m)
            /\ inboxFrom(d)'[m].release_status \in ReleaseStatus
            /\ VotesOf(inboxFrom(d)'[m].votes, idsFrom(d), m, postedAt(d))
      BY <1>2, <2>3
    <2> QED
      BY <1>1, <2>5, <2>6, <2>7, FlowKept
  <1>6. ASSUME NEW c \in Side, NEW m, NEW i, Vote(c, m, i) PROVE FlowInv'
    <2>1. \A d \in Side : outboxAt(d)' = outboxAt(d) /\ postedAt(d)' = postedAt(d)
      BY <1>6 DEF Vote, OtherOutboxes, OtherPosts
    <2>2. \A d \in Side \ {c} : inboxFrom(d)' = inboxFrom(d)
      BY <1>6 DEF Vote, OtherInboxes
    <2>3. inboxFrom(c)' = [x \in DOMAIN inboxFrom(c) \cup {m} |->
                              IF x = m THEN i ELSE inboxFrom(c)[x]]
      BY <1>6 DEF Vote
    <2>4. /\ Announced(outboxAt(c), m) /\ i.release_status \in ReleaseStatus
          /\ VotesOf(i.votes, idsFrom(c), m, postedAt(c))
      BY <1>6 DEF Vote
    <2>5. \A d \in Side : \A n \in DOMAIN inboxFrom(d)' :
            /\ Announced(outboxAt(d), n)
            /\ inboxFrom(d)'[n].release_status \in ReleaseStatus
            /\ VotesOf(inboxFrom(d)'[n].votes, idsFrom(d), n, postedAt(d))
      BY <1>2, <2>2, <2>3, <2>4
    <2> QED
      BY <1>1, <1>2, <2>1, <2>5, FlowKept
  <1>7. ASSUME NEW c \in Side, NEW m, NEW i, Pay(c, m, i) PROVE FlowInv'
    <2>1. \A d \in Side : outboxAt(d)' = outboxAt(d) /\ postedAt(d)' = postedAt(d)
      BY <1>7 DEF Pay, OtherOutboxes, OtherPosts
    <2>2. \A d \in Side \ {c} : inboxFrom(d)' = inboxFrom(d)
      BY <1>7 DEF Pay, OtherInboxes
    <2>3. inboxFrom(c)' = [inboxFrom(c) EXCEPT ![m] = i] /\ m \in DOMAIN inboxFrom(c)
      BY <1>7 DEF Pay
    <2>4. \A n \in DOMAIN inboxFrom(c)' :
            /\ n \in DOMAIN inboxFrom(c)
            /\ n # m => inboxFrom(c)'[n] = inboxFrom(c)[n]
      BY <2>3
    <2>5. /\ inboxFrom(c)'[m].release_status = [status |-> "Released", at |-> 0]
          /\ inboxFrom(c)'[m].votes = inboxFrom(c)[m].votes
      BY <1>7, <2>3 DEF Pay
    <2>6. [status |-> "Released", at |-> 0] \in ReleaseStatus
      BY DEF ReleaseStatus
    <2>7. \A d \in Side : \A n \in DOMAIN inboxFrom(d)' :
            /\ Announced(outboxAt(d), n)
            /\ inboxFrom(d)'[n].release_status \in ReleaseStatus
            /\ VotesOf(inboxFrom(d)'[n].votes, idsFrom(d), n, postedAt(d))
      BY <1>2, <2>2, <2>4, <2>5, <2>6
    <2> QED
      BY <1>1, <1>2, <2>1, <2>7, FlowKept
  <1> QED
    BY <1>3, <1>4, <1>5, <1>6, <1>7 DEF SomeStep

-----------------------------------------------------------------------------
(* Refinement of the bridge.                                               *)

\* The statuses of the inbox items of a transfer.
statuses(c, k) ==
    {inboxFrom(c)[m].release_status.status : m \in {m \in DOMAIN inboxFrom(c) : m.id = k}}

\* Its phase and its value, in terms of one direction.
view(c, k) ==
    IF "Released" \in statuses(c, k) THEN "paid"
    ELSE IF "ReleaseAfter" \in statuses(c, k) THEN "due"
    ELSE IF k \notin DOMAIN outboxAt(c) THEN "none"
    ELSE IF outboxAt(c)[k].released # {} THEN "sent" ELSE "queued"

\* The value in flight, likewise.
worth(c, k) ==
    IF view(c, k) \in {"none", "paid"} THEN 0
    ELSE untrim(outboxAt(c)[k].amount, UnitDecimals)

\* They are the phase and the value of the refinement.
LEMMA ViewOf ==
  ASSUME NEW x \in Transfer
  PROVE  /\ x[1] \in Side /\ x = <<x[1], x[2]>>
         /\ phaseOf(x) = view(x[1], x[2]) /\ inFlightOf(x) = worth(x[1], x[2])
  <1>1. x[1] \in Side /\ x = <<x[1], x[2]>>
    BY DEF Transfer, Side
  <1>2. outboxOf(x) = outboxAt(x[1])
    BY DEF outboxOf, outboxAt
  <1>3. {i.release_status.status : i \in arrivals(x)} = statuses(x[1], x[2])
    BY <1>1 DEF arrivals, statuses, inboxFrom, Side
  <1>4. phaseOf(x) = view(x[1], x[2])
    BY <1>2, <1>3 DEF phaseOf, view
  <1>5. inFlightOf(x) = worth(x[1], x[2])
    BY <1>2, <1>4 DEF inFlightOf, worth
  <1> QED
    BY <1>1, <1>4, <1>5

\* The same of all transfers, to be used of the next state.
Views ==
    \A x \in Transfer : phaseOf(x) = view(x[1], x[2]) /\ inFlightOf(x) = worth(x[1], x[2])

\* They hold in this state,
LEMMA ViewsHold == Views
  BY ViewOf DEF Views

\* and in the next,
LEMMA ViewsHoldNext == Views'
  BY ViewsHold, PTL

\* so ViewOf holds of the next state.
LEMMA ViewOfNext ==
  ASSUME NEW x \in Transfer
  PROVE  phaseOf(x)' = view(x[1], x[2])' /\ inFlightOf(x)' = worth(x[1], x[2])'
  BY ViewsHoldNext DEF Views, Transfer

\* A transfer of one direction.
LEMMA IsTransfer ==
  ASSUME NEW c \in Side, NEW k \in 1 .. itemsAt(c)
  PROVE  <<c, k>> \in Transfer
  BY DEF Transfer, Side, itemsAt

\* The transfer is as it was.
Same(c, k) ==
    /\ statuses(c, k)' = statuses(c, k)
    /\ k \in DOMAIN outboxAt(c)' <=> k \in DOMAIN outboxAt(c)
    /\ k \in DOMAIN outboxAt(c) =>
          /\ outboxAt(c)'[k].amount = outboxAt(c)[k].amount
          /\ outboxAt(c)'[k].released = {} <=> outboxAt(c)[k].released = {}

\* The message of an inbox item, and what it says of the outbox.
LEMMA OneMessage ==
  ASSUME FlowInv, NEW c \in Side, NEW m \in DOMAIN inboxFrom(c), NEW k, k = m.id
  PROVE  /\ statuses(c, k) = {inboxFrom(c)[m].release_status.status}
         /\ k \in DOMAIN outboxAt(c) /\ outboxAt(c)[k].released # {}
         /\ m.amount = outboxAt(c)[k].amount
  <1>1. \A n \in DOMAIN inboxFrom(c) : Announced(outboxAt(c), n)
    BY DEF FlowInv
  <1>2. ASSUME NEW n \in DOMAIN inboxFrom(c), n.id = k
        PROVE  /\ k \in DOMAIN outboxAt(c) /\ outboxAt(c)[k].released # {}
               /\ n = [id |-> k, amount |-> outboxAt(c)[k].amount]
    BY <1>1, <1>2 DEF Announced
  <1>3. \A n \in DOMAIN inboxFrom(c) : n.id = k => n = m
    BY <1>2
  <1>4. statuses(c, k) = {inboxFrom(c)[m].release_status.status}
    BY <1>3 DEF statuses
  <1> QED
    BY <1>2, <1>4

\* The same of all messages, to be used of the next state.
OneMessageEach ==
    \A c \in Side : \A m \in DOMAIN inboxFrom(c) :
        statuses(c, m.id) = {inboxFrom(c)[m].release_status.status}

\* It holds in this state,
LEMMA OneMessageAll ==
  ASSUME FlowInv
  PROVE  OneMessageEach
  BY OneMessage DEF OneMessageEach

\* and in the next,
LEMMA OneMessageAllNext ==
  ASSUME FlowInv'
  PROVE  OneMessageEach'
  BY OneMessageAll, PTL

\* so a message has one status in the next state.
LEMMA OneMessageNext ==
  ASSUME FlowInv', NEW c \in Side, NEW m, m \in DOMAIN inboxFrom(c)', NEW k, k = m.id
  PROVE  statuses(c, k)' = {inboxFrom(c)'[m].release_status.status}
  BY OneMessageAllNext DEF OneMessageEach

\* A transfer that no transceiver has released is in no inbox.
LEMMA NoStatus ==
  ASSUME FlowInv, NEW c \in Side, NEW k,
         k \notin DOMAIN outboxAt(c) \/ outboxAt(c)[k].released = {}
  PROVE  statuses(c, k) = {}
  <1>1. \A m \in DOMAIN inboxFrom(c) : m.id # k
    BY OneMessage
  <1> QED
    BY <1>1 DEF statuses

\* The same of all transfers, to be used of the next state.
NoStatusEach ==
    \A c \in Side : \A k :
        (k \in DOMAIN outboxAt(c) => outboxAt(c)[k].released = {}) => statuses(c, k) = {}

\* It holds in this state,
LEMMA NoStatusAll ==
  ASSUME FlowInv
  PROVE  NoStatusEach
  BY NoStatus DEF NoStatusEach

\* and in the next,
LEMMA NoStatusAllNext ==
  ASSUME FlowInv'
  PROVE  NoStatusEach'
  BY NoStatusAll, PTL

\* so NoStatus holds of the next state.
LEMMA NoStatusNext ==
  ASSUME FlowInv', NEW c \in Side, NEW k,
         k \notin DOMAIN outboxAt(c)' \/ outboxAt(c)'[k].released = {}
  PROVE  statuses(c, k)' = {}
  BY NoStatusAllNext DEF NoStatusEach

\* It keeps its phase and its value.
LEMMA SameView ==
  ASSUME FlowInv, NEW c \in Side, NEW k, Same(c, k)
  PROVE  view(c, k)' = view(c, k) /\ worth(c, k)' = worth(c, k)
  <1>1. view(c, k)' = view(c, k)
    BY DEF Same, view
  <1>2. CASE view(c, k) \in {"none", "paid"}
    BY <1>1, <1>2 DEF worth
  <1>3. CASE view(c, k) \notin {"none", "paid"}
    <2>1. k \in DOMAIN outboxAt(c)
      BY <1>3, NoStatus DEF view
    <2>2. outboxAt(c)'[k].amount = outboxAt(c)[k].amount
      BY <2>1 DEF Same
    <2>3. worth(c, k)' = untrim(outboxAt(c)'[k].amount, UnitDecimals)
      BY <1>1, <1>3 DEF worth
    <2> QED
      BY <1>1, <1>3, <2>2, <2>3 DEF worth
  <1> QED
    BY <1>1, <1>2, <1>3

\* The refinement mapping.
phases == [x \in Transfer |-> phaseOf(x)]
\* The values in flight under the refinement mapping.
flights == [x \in Transfer |-> inFlightOf(x)]

\* The other transfers stay as they are.
OthersSame(c, k) == \A d \in Side : \A n : <<d, n>> # <<c, k>> => Same(d, n)

\* One transfer moves.
LEMMA OneMoves ==
  ASSUME FlowInv, NEW c \in Side, NEW k, NEW x \in Transfer, x = <<c, k>>, OthersSame(c, k)
  PROVE  /\ phases[x] = view(c, k) /\ flights[x] = worth(c, k)
         /\ phases' = [phases EXCEPT ![x] = view(c, k)']
         /\ flights' = [flights EXCEPT ![x] = worth(c, k)']
         /\ worth(c, k)' = worth(c, k) => flights' = flights
  <1>1. x[1] = c /\ x[2] = k
    OBVIOUS
  <1>2. \A y \in Transfer : phases[y] = view(y[1], y[2]) /\ flights[y] = worth(y[1], y[2])
    BY ViewOf DEF phases, flights
  <1>3. \A y \in Transfer : phases'[y] = view(y[1], y[2])' /\ flights'[y] = worth(y[1], y[2])'
    <2>1. Transfer' = Transfer
      BY DEF Transfer
    <2>2. \A y \in Transfer : phases'[y] = phaseOf(y)' /\ flights'[y] = inFlightOf(y)'
      BY <2>1 DEF phases, flights
    <2> QED
      BY <2>2, ViewOfNext
  <1>4. ASSUME NEW y \in Transfer \ {x}
        PROVE  view(y[1], y[2])' = view(y[1], y[2]) /\ worth(y[1], y[2])' = worth(y[1], y[2])
    <2>1. y[1] \in Side /\ y = <<y[1], y[2]>>
      BY ViewOf
    <2>2. Same(y[1], y[2])
      BY <2>1 DEF OthersSame
    <2> QED
      BY <2>1, <2>2, SameView
  <1>5. /\ phases = [y \in Transfer |-> phases[y]] /\ flights = [y \in Transfer |-> flights[y]]
        /\ phases' = [y \in Transfer |-> phases'[y]] /\ flights' = [y \in Transfer |-> flights'[y]]
    <2>1. Transfer' = Transfer
      BY DEF Transfer
    <2> QED
      BY <2>1 DEF phases, flights
  <1>6. phases[x] = view(c, k) /\ flights[x] = worth(c, k)
    BY <1>1, <1>2
  <1>7. phases'[x] = view(c, k)' /\ flights'[x] = worth(c, k)'
    BY <1>1, <1>3
  <1>8. \A y \in Transfer \ {x} : phases'[y] = phases[y] /\ flights'[y] = flights[y]
    BY <1>2, <1>3, <1>4
  <1> QED
    BY <1>5, <1>6, <1>7, <1>8

\* The steps of the bridge.
LEMMA AbstractStart ==
  ASSUME FlowInv, NEW c \in Side, NEW k, NEW x \in Transfer, x = <<c, k>>, OthersSame(c, k),
         view(c, k) = "none", view(c, k)' = "queued",
         Held' \in 0 .. Held, worth(c, k)' = Held - Held'
  PROVE  Abstract!Next
  <1>1. /\ phases[x] = "none" /\ phases' = [phases EXCEPT ![x] = "queued"]
        /\ flights' = [flights EXCEPT ![x] = Held - Held']
    BY OneMoves
  <1>2. \E p \in {"queued", "sent"} : phases' = [phases EXCEPT ![x] = p]
    BY <1>1
  <1>3. Abstract!start(x)
    <2>1. /\ [x_1 \in Transfer |-> phaseOf(x_1)] = phases
          /\ [x_1 \in Transfer |-> inFlightOf(x_1)] = flights
          /\ [x_1 \in Transfer |-> phaseOf(x_1)]' = phases'
          /\ [x_1 \in Transfer |-> inFlightOf(x_1)]' = flights'
      BY DEF phases, flights
    <2> QED
      BY <1>1, <1>2, <2>1, Zenon DEF Abstract!start
  <1> QED
    BY <1>3 DEF Abstract!Next

\* The transfer is sent or becomes due: release or arrive of the bridge.
LEMMA AbstractAdvance ==
  ASSUME FlowInv, NEW c \in Side, NEW k, NEW x \in Transfer, x = <<c, k>>, OthersSame(c, k),
         \/ view(c, k) = "queued" /\ view(c, k)' = "sent"
         \/ view(c, k) = "sent" /\ view(c, k)' = "due",
         Held' = Held, worth(c, k)' = worth(c, k)
  PROVE  Abstract!Next
  <1>1. phases[x] = view(c, k) /\ phases' = [phases EXCEPT ![x] = view(c, k)'] /\ flights' = flights
    BY OneMoves
  <1>2. Abstract!release(x) \/ Abstract!arrive(x)
    BY <1>1 DEF Abstract!release, Abstract!arrive, Abstract!advance, phases, flights
  <1> QED
    BY <1>2 DEF Abstract!Next

\* The transfer ends with its value: pay of the bridge.
LEMMA AbstractPay ==
  ASSUME FlowInv, NEW c \in Side, NEW k, NEW x \in Transfer, x = <<c, k>>, OthersSame(c, k),
         view(c, k) = "due", view(c, k)' = "paid",
         Held' = Held + worth(c, k), worth(c, k)' = 0
  PROVE  Abstract!Next
  <1>1. /\ phases[x] = "due" /\ phases' = [phases EXCEPT ![x] = "paid"]
        /\ flights[x] = worth(c, k) /\ flights' = [flights EXCEPT ![x] = 0]
    BY OneMoves
  <1>2. Abstract!pay(x)
    BY <1>1 DEF Abstract!pay, Abstract!finish, phases, flights
  <1> QED
    BY <1>2 DEF Abstract!Next

\* No transfer changes: the bridge stutters.
LEMMA AbstractIdle ==
  ASSUME FlowInv, \A d \in Side : \A n : Same(d, n), Held' = Held
  PROVE  UNCHANGED Abstract!vars
  <1>1. ASSUME NEW y \in Transfer
        PROVE  phaseOf(y)' = phaseOf(y) /\ inFlightOf(y)' = inFlightOf(y)
    <2>1. /\ y[1] \in Side /\ phaseOf(y) = view(y[1], y[2]) /\ inFlightOf(y) = worth(y[1], y[2])
          /\ phaseOf(y)' = view(y[1], y[2])' /\ inFlightOf(y)' = worth(y[1], y[2])'
      BY ViewOf, ViewOfNext
    <2> QED
      BY <2>1, SameView
  <1>2. Transfer' = Transfer
    BY DEF Transfer
  <1> QED
    BY <1>1, <1>2 DEF Abstract!vars

\* What both chains hold is a number.
LEMMA HeldNat ==
  ASSUME BoxTypeInv
  PROVE  Held \in Nat
  <1>1. /\ scale(sol_balance, solana_decimals, UnitDecimals) \in Nat
        /\ scale(sui_coins, sui_decimals, UnitDecimals) \in Nat
    BY UnitFact, ScaleNat DEF BoxTypeInv
  <1> QED
    BY <1>1 DEF Held

\* The same of the next state.
LEMMA HeldNatNext ==
  ASSUME BoxTypeInv'
  PROVE  (Held \in Nat)'
  BY HeldNat, PTL

\* A started transfer takes its value and is queued.
LEMMA BridgeStart ==
  ASSUME FlowInv, FlowInv', BoxTypeInv, BoxTypeInv',
         NEW c \in Side, NEW item \in OutboxItem, Start(c, item),
         NEW k, k = Len(outboxAt(c)) + 1
  PROVE  Abstract!Next
  <1> DEFINE x == <<c, k>>
             out == outboxAt(c)
             out1 == outboxAt(c)'
             w == untrim(item.amount, UnitDecimals)
             h == Held  h1 == Held'
  <1>1. /\ out \in Seq(OutboxItem) /\ Len(out) < itemsAt(c)
        /\ \A n \in DOMAIN out : Whole(out[n].amount)
    BY DEF Start, FlowInv
  <1>2. /\ Len(out1) = Len(out) + 1 /\ DOMAIN out = 1 .. Len(out) /\ DOMAIN out1 = 1 .. Len(out1)
        /\ out1[Len(out) + 1] = item /\ \A n \in DOMAIN out : out1[n] = out[n]
    BY <1>1, OutboxAppends DEF Start
  <1>3. k \in 1 .. itemsAt(c)
    BY <1>1, ItemsNat
  <1>4. x \in Transfer
    BY <1>3, IsTransfer
  <1>5. k \notin DOMAIN out /\ k \in DOMAIN out1 /\ out1[k] = item
    BY <1>1, <1>2
  <1>6. statuses(c, k) = {} /\ statuses(c, k)' = {}
    BY <1>5, NoStatus, NoStatusNext DEF Start
  <1>7. view(c, k) = "none"
    BY <1>5, <1>6 DEF view
  <1>8. view(c, k)' = "queued"
    BY <1>5, <1>6 DEF view, Start
  <1>9. worth(c, k)' = w
    BY <1>5, <1>8 DEF worth
  <1>10. OthersSame(c, k)
    <2> SUFFICES ASSUME NEW d \in Side, NEW n, <<d, n>> # <<c, k>> PROVE Same(d, n)
      BY DEF OthersSame
    <2>1. inboxFrom(d)' = inboxFrom(d)
      BY DEF Start, OtherInboxes
    <2>2. statuses(d, n)' = statuses(d, n)
      BY <2>1 DEF statuses
    <2>3. CASE d # c
      BY <2>2, <2>3 DEF Same, Start, OtherOutboxes
    <2>4. CASE d = c
      <3>1. n # k
        BY <2>4
      <3>2. n \in DOMAIN out1 <=> n \in DOMAIN out
        BY <1>1, <1>2, <3>1
      <3> QED
        BY <1>2, <2>2, <2>4, <3>2 DEF Same
    <2> QED
      BY <2>3, <2>4
  <1>11. h \in Nat /\ h1 \in Nat
    BY HeldNat, HeldNatNext
  <1>12. w \in Nat
    <2>1. item.amount \in Trimmed
      BY DEF OutboxItem
    <2>2. item.amount.amount \in Nat /\ item.amount.decimals \in Nat
      BY <2>1 DEF Trimmed
    <2> QED
      BY <2>2, UnitFact, ScaleNat DEF untrim
  <1>13. h = h1 + w
    BY DEF Start
  <1> HIDE DEF h, h1, w
  <1>14. h1 \in 0 .. h /\ w = h - h1
    BY <1>11, <1>12, <1>13
  <1> QED
    BY <1>4, <1>7, <1>8, <1>9, <1>10, <1>14, AbstractStart DEF h, h1

\* The first release sends it; further ones change nothing.
LEMMA BridgeRelease ==
  ASSUME FlowInv, FlowInv', NEW c \in Side, NEW k, NEW t, Release(c, k, t)
  PROVE  Abstract!Next \/ UNCHANGED Abstract!vars
  <1> DEFINE x == <<c, k>>
             out == outboxAt(c)
             out1 == outboxAt(c)'
  <1>1. Released(out, out1, k) /\ out \in Seq(OutboxItem) /\ Len(out) <= itemsAt(c) /\ Held' = Held
    BY DEF Release, FlowInv
  <1>2. x \in Transfer
    <2>1. k \in 1 .. Len(out) /\ Len(out) \in Nat /\ itemsAt(c) \in Nat
      BY <1>1, ItemsNat DEF Released
    <2>2. k \in 1 .. itemsAt(c)
      BY <1>1, <2>1
    <2> QED
      BY <2>2, IsTransfer
  <1>3. \A d \in Side : \A n : statuses(d, n)' = statuses(d, n)
    BY DEF statuses, Release, OtherInboxes
  <1>4. OthersSame(c, k)
    <2> SUFFICES ASSUME NEW d \in Side, NEW n, <<d, n>> # <<c, k>> PROVE Same(d, n)
      BY DEF OthersSame
    <2>1. CASE d # c
      BY <1>3, <2>1 DEF Same, Release, OtherOutboxes
    <2>2. CASE d = c
      <3>1. n # k
        BY <2>2
      <3> QED
        BY <1>1, <1>3, <2>2, <3>1 DEF Same, Released
    <2> QED
      BY <2>1, <2>2
  <1>5. /\ k \in DOMAIN out /\ k \in DOMAIN out1 /\ out1[k].amount = out[k].amount
        /\ out1[k].released # {}
    BY <1>1 DEF Released
  <1>6. CASE out[k].released = {}
    <2>1. statuses(c, k) = {} /\ statuses(c, k)' = {}
      BY <1>3, <1>6, NoStatus
    <2>2. view(c, k) = "queued"
      BY <1>5, <1>6, <2>1 DEF view
    <2>3. view(c, k)' = "sent"
      BY <1>5, <2>1 DEF view
    <2>4. worth(c, k) = untrim(out[k].amount, UnitDecimals)
      BY <2>2 DEF worth
    <2>5. worth(c, k)' = untrim(out1[k].amount, UnitDecimals)
      BY <2>3 DEF worth
    <2> QED
      BY <1>1, <1>2, <1>4, <1>5, <2>2, <2>3, <2>4, <2>5, AbstractAdvance
  <1>7. CASE out[k].released # {}
    <2>1. Same(c, k)
      BY <1>3, <1>5, <1>7 DEF Same
    <2>2. \A d \in Side : \A n : Same(d, n)
      BY <1>4, <2>1 DEF OthersSame
    <2> QED
      BY <1>1, <2>2, AbstractIdle
  <1> QED
    BY <1>6, <1>7

\* The vote that approves a message makes it due; other votes change nothing.
LEMMA BridgeVote ==
  ASSUME FlowInv, FlowInv', NEW c \in Side, NEW m, NEW i, Vote(c, m, i), NEW k, k = m.id
  PROVE  Abstract!Next \/ UNCHANGED Abstract!vars
  <1> DEFINE x == <<c, k>>
             out == outboxAt(c)
             box == inboxFrom(c)
             box1 == inboxFrom(c)'
  <1>1. /\ out \in Seq(OutboxItem) /\ Len(out) <= itemsAt(c) /\ Held' = Held
        /\ box1 = [n \in DOMAIN box \cup {m} |-> IF n = m THEN i ELSE box[n]]
        /\ \A d \in Side : outboxAt(d)' = outboxAt(d)
        /\ \A d \in Side \ {c} : inboxFrom(d)' = inboxFrom(d)
    BY DEF Vote, FlowInv, OtherOutboxes, OtherInboxes
  <1>2. k \in DOMAIN out /\ out[k].released # {}
    BY DEF Vote, Announced
  <1>3. x \in Transfer
    <2>1. k \in 1 .. Len(out) /\ Len(out) \in Nat /\ itemsAt(c) \in Nat
      BY <1>1, <1>2, ItemsNat
    <2>2. k \in 1 .. itemsAt(c)
      BY <1>1, <2>1
    <2> QED
      BY <2>2, IsTransfer
  <1>4. m \in DOMAIN box1 /\ box1[m] = i /\ \A n \in DOMAIN box1 : n \in DOMAIN box \/ n = m
    BY <1>1
  <1>5. statuses(c, k)' = {i.release_status.status}
    BY <1>4, OneMessageNext
  <1>6. OthersSame(c, k)
    <2> SUFFICES ASSUME NEW d \in Side, NEW n, <<d, n>> # <<c, k>> PROVE Same(d, n)
      BY DEF OthersSame
    <2>1. CASE d # c
      <3>1. statuses(d, n)' = statuses(d, n)
        BY <1>1, <2>1 DEF statuses
      <3> QED
        BY <1>1, <3>1 DEF Same
    <2>2. CASE d = c
      <3>1. n # k
        BY <2>2
      <3>2. \A z : (z \in DOMAIN box1 /\ z.id = n) <=> (z \in DOMAIN box /\ z.id = n)
        BY <1>1, <3>1
      <3>3. \A z \in DOMAIN box : z.id = n => box1[z] = box[z]
        BY <1>1, <3>1
      <3>4. statuses(c, n)' = {box1[z].release_status.status : z \in {z \in DOMAIN box1 : z.id = n}}
        BY DEF statuses
      <3>5. statuses(c, n)' = statuses(c, n)
        BY <3>2, <3>3, <3>4 DEF statuses
      <3> QED
        BY <1>1, <2>2, <3>5 DEF Same
    <2> QED
      BY <2>1, <2>2
  <1>7. outboxAt(c)' = out
    BY <1>1
  <1>8. ASSUME view(c, k)' = view(c, k)
        PROVE  phases' = phases /\ flights' = flights
    <2>1. worth(c, k)' = worth(c, k)
      BY <1>7, <1>8 DEF worth
    <2>2. /\ phases[x] = view(c, k) /\ phases' = [phases EXCEPT ![x] = view(c, k)']
          /\ flights' = flights
      BY <1>3, <1>6, <2>1, OneMoves
    <2> QED
      BY <1>8, <2>2 DEF phases
  <1>9. ASSUME view(c, k)' = view(c, k) PROVE UNCHANGED Abstract!vars
    BY <1>1, <1>8, <1>9 DEF Abstract!vars, phases, flights
  <1>10. ASSUME view(c, k) = "sent", i.release_status.status = "ReleaseAfter" PROVE Abstract!Next
    <2>1. view(c, k)' = "due"
      BY <1>5, <1>10 DEF view
    <2>2. worth(c, k) = untrim(out[k].amount, UnitDecimals)
      BY <1>10 DEF worth
    <2>3. worth(c, k)' = untrim(out[k].amount, UnitDecimals)
      BY <1>7, <2>1 DEF worth
    <2> QED
      BY <1>1, <1>3, <1>6, <1>10, <2>1, <2>2, <2>3, AbstractAdvance
  <1>11. CASE m \in DOMAIN box /\ i.release_status.status = box[m].release_status.status
    <2>1. statuses(c, k) = {box[m].release_status.status}
      BY <1>11, OneMessage
    <2>2. view(c, k)' = view(c, k)
      BY <1>5, <1>7, <1>11, <2>1 DEF view
    <2> QED
      BY <1>9, <2>2
  <1>12. CASE /\ m \in DOMAIN box /\ box[m].release_status.status = "NotApproved"
              /\ i.release_status.status = "ReleaseAfter"
    <2>1. statuses(c, k) = {"NotApproved"}
      BY <1>12, OneMessage
    <2>2. view(c, k) = "sent"
      BY <1>2, <2>1 DEF view
    <2> QED
      BY <1>10, <1>12, <2>2
  <1>13. CASE m \notin DOMAIN box
    <2>1. \A n \in DOMAIN box : n.id # k
      <3>1. \A n \in DOMAIN box : Announced(out, n)
        BY DEF FlowInv
      <3>2. Announced(out, m)
        BY DEF Vote
      <3> QED
        BY <1>13, <3>1, <3>2 DEF Announced
    <2>2. statuses(c, k) = {}
      BY <2>1 DEF statuses
    <2>3. view(c, k) = "sent"
      BY <1>2, <2>2 DEF view
    <2>4. CASE i.release_status.status = "NotApproved"
      <3>1. view(c, k)' = "sent"
        BY <1>2, <1>5, <1>7, <2>4 DEF view
      <3> QED
        BY <1>9, <2>3, <3>1
    <2>5. CASE i.release_status.status = "ReleaseAfter"
      BY <1>10, <2>3, <2>5
    <2> QED
      BY <1>13, <2>4, <2>5 DEF Vote
  <1> QED
    BY <1>11, <1>12, <1>13 DEF Vote

\* A payment ends a transfer with all of its value.
LEMMA BridgePay ==
  ASSUME FlowInv, FlowInv', NEW c \in Side, NEW m, NEW i, Pay(c, m, i), NEW k, k = m.id
  PROVE  Abstract!Next
  <1> DEFINE x == <<c, k>>
             out == outboxAt(c)
             box == inboxFrom(c)
             box1 == inboxFrom(c)'
  <1>1. /\ out \in Seq(OutboxItem) /\ Len(out) <= itemsAt(c)
        /\ m \in DOMAIN box /\ box[m].release_status.status = "ReleaseAfter"
        /\ box1 = [box EXCEPT ![m] = i] /\ i.release_status.status = "Released"
        /\ \A d \in Side : outboxAt(d)' = outboxAt(d)
        /\ \A d \in Side \ {c} : inboxFrom(d)' = inboxFrom(d)
    BY DEF Pay, FlowInv, OtherOutboxes, OtherInboxes
  <1>2. /\ k \in DOMAIN out /\ m.amount = out[k].amount
        /\ statuses(c, k) = {"ReleaseAfter"}
    <2>1. m \in DOMAIN inboxFrom(c)
      BY DEF Pay
    <2>2. /\ statuses(c, k) = {inboxFrom(c)[m].release_status.status}
          /\ k \in DOMAIN outboxAt(c) /\ m.amount = outboxAt(c)[k].amount
      BY <2>1, OneMessage
    <2> QED
      BY <2>2 DEF Pay
  <1>3. x \in Transfer
    <2>1. k \in 1 .. Len(out) /\ Len(out) \in Nat /\ itemsAt(c) \in Nat
      BY <1>1, <1>2, ItemsNat
    <2>2. k \in 1 .. itemsAt(c)
      BY <1>1, <2>1
    <2> QED
      BY <2>2, IsTransfer
  <1>4. m \in DOMAIN box1 /\ box1[m] = i
    BY <1>1
  <1>5. statuses(c, k)' = {"Released"}
    BY <1>1, <1>4, OneMessageNext
  <1>6. OthersSame(c, k)
    <2> SUFFICES ASSUME NEW d \in Side, NEW n, <<d, n>> # <<c, k>> PROVE Same(d, n)
      BY DEF OthersSame
    <2>1. CASE d # c
      <3>1. statuses(d, n)' = statuses(d, n)
        BY <1>1, <2>1 DEF statuses
      <3> QED
        BY <1>1, <3>1 DEF Same
    <2>2. CASE d = c
      <3>1. n # k
        BY <2>2
      <3>2. DOMAIN box1 = DOMAIN box /\ \A z \in DOMAIN box : z.id = n => box1[z] = box[z]
        BY <1>1, <3>1
      <3>3. statuses(c, n)' = {box1[z].release_status.status : z \in {z \in DOMAIN box1 : z.id = n}}
        BY DEF statuses
      <3>4. statuses(c, n)' = statuses(c, n)
        BY <3>2, <3>3 DEF statuses
      <3> QED
        BY <1>1, <2>2, <3>4 DEF Same
    <2> QED
      BY <2>1, <2>2
  <1>7. view(c, k) = "due" /\ worth(c, k) = untrim(m.amount, UnitDecimals)
    BY <1>2 DEF view, worth
  <1>8. view(c, k)' = "paid"
    BY <1>5 DEF view
  <1>9. worth(c, k)' = 0
    BY <1>8 DEF worth
  <1>10. Held' = Held + worth(c, k)
    BY <1>7 DEF Pay
  <1> QED
    BY <1>3, <1>6, <1>7, <1>8, <1>9, <1>10, AbstractPay

\* Every form is a step of the bridge or leaves it unchanged.
LEMMA BridgeStep ==
  ASSUME FlowInv, FlowInv', BoxTypeInv, BoxTypeInv', SomeStep
  PROVE  [Abstract!Next]_(Abstract!vars)
  <1>1. CASE Quiet
    <2>1. \A d \in Side : \A n : Same(d, n)
      BY <1>1 DEF Quiet, Same, statuses
    <2> QED
      BY <1>1, <2>1, AbstractIdle DEF Quiet
  <1>2. CASE \E c \in Side : \E item \in OutboxItem : Start(c, item)
    BY <1>2, BridgeStart
  <1>3. CASE \E c \in Side : \E k, t : Release(c, k, t)
    BY <1>3, BridgeRelease
  <1>4. CASE \E c \in Side : \E m, i : Vote(c, m, i)
    BY <1>4, BridgeVote
  <1>5. CASE \E c \in Side : \E m, i : Pay(c, m, i)
    BY <1>5, BridgePay
  <1> QED
    BY <1>1, <1>2, <1>3, <1>4, <1>5 DEF SomeStep

-----------------------------------------------------------------------------
(* The actions have the forms.                                             *)

\* Both chains count amounts alike.
LEMMA SamePower == Solana!powerOfTen = powerOfTen /\ Sui!powerOfTen = powerOfTen
  BY Zenon DEF Solana!powerOfTen, Sui!powerOfTen, powerOfTen

\* Both chains scale with the operator of TrimmedAmount.
LEMMA SameScale ==
  \A a, d, e : Solana!scale(a, d, e) = scale(a, d, e) /\ Sui!scale(a, d, e) = scale(a, d, e)
  BY SamePower DEF Solana!scale, Sui!scale, scale

\* Both chains trim and untrim with the operators of TrimmedAmount.
LEMMA SameAmounts ==
  /\ \A a, d, e : Solana!trim(a, d, e) = trim(a, d, e) /\ Sui!trim(a, d, e) = trim(a, d, e)
  /\ \A a, d : Solana!untrim(a, d) = untrim(a, d) /\ Sui!untrim(a, d) = untrim(a, d)
  BY SameScale
     DEF Solana!trim, Sui!trim, trim, Solana!untrim, Sui!untrim, untrim,
         Solana!minDecimals, Sui!minDecimals, minDecimals

\* Both chains count with the operator of FiniteSets.
LEMMA SameCardinality ==
  \A S : Solana!Cardinality(S) = Cardinality(S) /\ Sui!Cardinality(S) = Cardinality(S)
  BY Zenon DEF Solana!Cardinality, Sui!Cardinality, Cardinality

\* A bitmap is finite.
LEMMA BitmapFinite ==
  ASSUME NEW S \in SUBSET (0 .. BITS - 1)
  PROVE  Cardinality(S) \in Nat
  <1>1. IsFiniteSet(0 .. BITS - 1)
    BY SolanaSuiAssumption, FS_Interval
  <1> QED
    BY <1>1, FS_Subset, FS_CardinalityType

\* What moves in the hands of users moves in the common unit.
LEMMA HeldChanges ==
  ASSUME BoxTypeInv, BoxTypeInv', NEW a \in Nat
  PROVE  /\ (sui_coins' = sui_coins /\ sol_balance' = sol_balance) => Held' = Held
         /\ (sui_coins' = sui_coins /\ sol_balance = sol_balance' + a)
               => Held = Held' + scale(a, solana_decimals, UnitDecimals)
         /\ (sui_coins' = sui_coins /\ sol_balance' = sol_balance + a)
               => Held' = Held + scale(a, solana_decimals, UnitDecimals)
         /\ (sol_balance' = sol_balance /\ sui_coins = sui_coins' + a)
               => Held = Held' + scale(a, sui_decimals, UnitDecimals)
         /\ (sol_balance' = sol_balance /\ sui_coins' = sui_coins + a)
               => Held' = Held + scale(a, sui_decimals, UnitDecimals)
  <1> DEFINE s(n) == scale(n, solana_decimals, UnitDecimals)
             u(n) == scale(n, sui_decimals, UnitDecimals)
  <1>1. /\ sol_balance \in Nat /\ sui_coins \in Nat
        /\ sol_balance' \in Nat /\ sui_coins' \in Nat
    BY DEF BoxTypeInv
  <1>2. Held = s(sol_balance) + u(sui_coins) /\ Held' = s(sol_balance') + u(sui_coins')
    BY DEF Held
  <1>3. \A n \in Nat : s(n) \in Nat /\ u(n) \in Nat
    BY UnitFact, ScaleNat
  <1>4. \A n \in Nat : s(n + a) = s(n) + s(a) /\ u(n + a) = u(n) + u(a)
    BY UnitFact, ScalePlus
  <1> HIDE DEF s, u
  <1>5. (sui_coins' = sui_coins /\ sol_balance' = sol_balance) => Held' = Held
    BY <1>2
  <1>6. (sui_coins' = sui_coins /\ sol_balance = sol_balance' + a) => Held = Held' + s(a)
    BY <1>1, <1>2, <1>3, <1>4
  <1>7. (sui_coins' = sui_coins /\ sol_balance' = sol_balance + a) => Held' = Held + s(a)
    BY <1>1, <1>2, <1>3, <1>4
  <1>8. (sol_balance' = sol_balance /\ sui_coins = sui_coins' + a) => Held = Held' + u(a)
    BY <1>1, <1>2, <1>3, <1>4
  <1>9. (sol_balance' = sol_balance /\ sui_coins' = sui_coins + a) => Held' = Held + u(a)
    BY <1>1, <1>2, <1>3, <1>4
  <1> QED
    BY <1>5, <1>6, <1>7, <1>8, <1>9 DEF s, u

\* The registries stay.
SameRegistries ==
    UNCHANGED <<sol_config, sol_transceiver_id, sui_state, sui_registry, sui_transceiver_id>>

\* Then their types and the ids stay.
LEMMA RegistriesStay ==
  ASSUME RegistryInv, SameRegistries
  PROVE  /\ RegistryInv'
         /\ \A c \in Side : \A t \in Transceiver :
               idsFrom(c)[t] \in Nat => idsFrom(c)'[t] = idsFrom(c)[t]
  BY DEF RegistryInv, SameRegistries, idsFrom

\* The message of the other chain is one that its outbox announced.
LEMMA PostedMessage ==
  ASSUME FlowInv, NEW c \in Side, NEW t, NEW m, <<t, m>> \in postedAt(c)
  PROVE  /\ Announced(outboxAt(c), m) /\ m.amount \in Trimmed /\ Whole(m.amount)
         /\ untrim(m.amount, solana_decimals) \in Nat /\ untrim(m.amount, sui_decimals) \in Nat
  <1>1. Announced(outboxAt(c), m)
    BY DEF FlowInv
  <1>2. /\ outboxAt(c) \in Seq(OutboxItem)
        /\ \A k \in DOMAIN outboxAt(c) : Whole(outboxAt(c)[k].amount)
    BY DEF FlowInv
  <1>3. m.amount \in Trimmed /\ Whole(m.amount)
    <2>1. PICK k \in DOMAIN outboxAt(c) : m = [id |-> k, amount |-> outboxAt(c)[k].amount]
      BY <1>1 DEF Announced
    <2>2. outboxAt(c)[k] \in OutboxItem /\ Whole(outboxAt(c)[k].amount)
      BY <1>2
    <2> QED
      BY <2>1, <2>2 DEF OutboxItem
  <1> QED
    BY <1>1, <1>3, UnitFact, WorthOfUntrim DEF Whole

\* The same of a message in an inbox.
LEMMA InboxMessage ==
  ASSUME FlowInv, NEW c \in Side, NEW m \in DOMAIN inboxFrom(c)
  PROVE  /\ m.amount \in Trimmed /\ Whole(m.amount)
         /\ untrim(m.amount, solana_decimals) \in Nat /\ untrim(m.amount, sui_decimals) \in Nat
  <1>1. Announced(outboxAt(c), m)
    BY DEF FlowInv
  <1>2. /\ outboxAt(c) \in Seq(OutboxItem)
        /\ \A k \in DOMAIN outboxAt(c) : Whole(outboxAt(c)[k].amount)
    BY DEF FlowInv
  <1>3. m.amount \in Trimmed /\ Whole(m.amount)
    <2>1. PICK k \in DOMAIN outboxAt(c) : m = [id |-> k, amount |-> outboxAt(c)[k].amount]
      BY <1>1 DEF Announced
    <2>2. outboxAt(c)[k] \in OutboxItem /\ Whole(outboxAt(c)[k].amount)
      BY <1>2
    <2> QED
      BY <2>1, <2>2 DEF OutboxItem
  <1> QED
    BY <1>3, UnitFact, WorthOfUntrim DEF Whole

\* transfer of Solana starts a transfer.
LEMMA SolanaTransfer ==
  ASSUME IInv, NEW r \in SolanaAmount, NEW q \in BOOLEAN, Solana!transfer(r, q), UNCHANGED suiVars
  PROVE  SomeStep
  <1> DEFINE T == trim(r, solana_decimals, sui_decimals)
             a == untrim(T, solana_decimals)
             item == [amount |-> T,
                      release_timestamp |-> IF Solana!consumable(sol_outbox_rate_limit, a)
                                            THEN now ELSE now + RATE_LIMIT_DURATION,
                      released |-> {}]
  <1>1. T \in Trimmed /\ Whole(T)
    BY TrimWhole, SolanaSuiAssumption
  <1>2. a \in Nat /\ scale(a, solana_decimals, UnitDecimals) = untrim(T, UnitDecimals)
    BY <1>1, UnitFact, WorthOfUntrim DEF Whole
  <1>3. Solana!remove_dust(r) = a
    BY SameAmounts DEF Solana!remove_dust
  <1> HIDE DEF T, a
  <1>4. /\ Len(sol_outbox) < SolanaItems /\ a <= sol_balance /\ sol_balance' = sol_balance - a
        /\ sol_outbox' = Append(sol_outbox, item)
        /\ UNCHANGED <<sol_config, sol_transceiver_id, sol_inbox, sol_validated, sol_posted,
                       sui_posted, now>>
        /\ \/ /\ sol_outbox_rate_limit' = Solana!consume(sol_outbox_rate_limit, a)
              /\ sol_inbox_rate_limit' = Solana!refill(sol_inbox_rate_limit, a)
           \/ UNCHANGED <<sol_outbox_rate_limit, sol_inbox_rate_limit>>
    BY <1>3, SameAmounts DEF Solana!transfer, Solana!limitVars, T
  <1>5. /\ sui_state' = sui_state /\ sui_registry' = sui_registry
        /\ sui_transceiver_id' = sui_transceiver_id /\ sui_outbox' = sui_outbox
        /\ sui_inbox' = sui_inbox /\ sui_outbox_rate_limit' = sui_outbox_rate_limit
        /\ sui_inbound_rate_limit' = sui_inbound_rate_limit /\ sui_coins' = sui_coins
    BY DEF suiVars
  <1>6. /\ RegistryInv /\ LimitInv /\ BoxTypeInv /\ FlowInv /\ now \in Int
        /\ sol_balance \in Nat /\ sui_coins \in Nat
    BY DEF IInv, LimitInv, BoxTypeInv
  <1>7. item \in OutboxItem /\ Whole(item.amount) /\ item.released = {}
    BY <1>1, <1>6, SolanaSuiAssumption DEF OutboxItem
  <1>8. SameRegistries
    BY <1>4, <1>5 DEF SameRegistries
  <1>9. LimitInv'
    <2>1. /\ sol_outbox_rate_limit \in RateLimit /\ sol_inbox_rate_limit \in RateLimit
          /\ sui_outbox_rate_limit \in RateLimit /\ sui_inbound_rate_limit \in RateLimit
      BY <1>6 DEF LimitInv
    <2>2. /\ Solana!consume(sol_outbox_rate_limit, a) \in RateLimit
          /\ Solana!refill(sol_inbox_rate_limit, a) \in RateLimit
      BY <1>2, <1>6, <2>1, LimitTypes, SolanaSuiAssumption
    <2> QED
      BY <1>4, <1>5, <1>6, <2>1, <2>2 DEF LimitInv
  <1>10. sol_balance' \in Nat /\ sol_balance = sol_balance' + a
    BY <1>2, <1>4, <1>6
  <1>11. BoxTypeInv'
    BY <1>4, <1>5, <1>6, <1>10 DEF BoxTypeInv
  <1>12. Held = Held' + untrim(T, UnitDecimals)
    BY <1>2, <1>5, <1>6, <1>10, <1>11, HeldChanges
  <1>13. TypesKept
    BY <1>6, <1>8, <1>9, <1>11, RegistriesStay DEF TypesKept
  <1>14. Start("solana", item)
    BY <1>4, <1>5, <1>7, <1>12
       DEF Start, outboxAt, postedAt, inboxFrom, itemsAt, OtherOutboxes, OtherPosts,
           OtherInboxes, Side
  <1> QED
    BY <1>7, <1>13, <1>14 DEF SomeStep, Side

\* release_outbound of Solana releases an item.
LEMMA SolanaRelease ==
  ASSUME IInv, NEW t \in Transceiver, NEW k \in DOMAIN sol_outbox, Solana!release_outbound(t, k),
         UNCHANGED suiVars
  PROVE  SomeStep
  <1> DEFINE id == sol_transceiver_id[t]
  <1>1. /\ id \in sol_config.enabled_transceivers
        /\ sol_outbox' = [sol_outbox EXCEPT ![k].released = @ \cup {id}]
        /\ sol_posted' = sol_posted \cup {<<t, [id |-> k, amount |-> sol_outbox[k].amount]>>}
        /\ UNCHANGED <<sol_config, sol_transceiver_id, sol_inbox, sol_validated,
                       sol_outbox_rate_limit, sol_inbox_rate_limit, sol_balance, sui_posted, now>>
    BY DEF Solana!release_outbound, Solana!enabled, Solana!message, Solana!registryVars,
           Solana!limitVars, Solana!tokenVars
  <1>2. /\ sui_state' = sui_state /\ sui_registry' = sui_registry
        /\ sui_transceiver_id' = sui_transceiver_id /\ sui_outbox' = sui_outbox
        /\ sui_inbox' = sui_inbox /\ sui_outbox_rate_limit' = sui_outbox_rate_limit
        /\ sui_inbound_rate_limit' = sui_inbound_rate_limit /\ sui_coins' = sui_coins
        /\ sui_posted' = sui_posted
    BY DEF suiVars
  <1>3. RegistryInv /\ LimitInv /\ BoxTypeInv /\ FlowInv /\ BITS \in Nat
    BY SolanaSuiAssumption DEF IInv
  <1>4. id \in Nat
    BY <1>1, <1>3 DEF RegistryInv, SolanaConfig
  <1>5. sol_outbox \in Seq(OutboxItem)
    BY <1>3 DEF FlowInv, Side, outboxAt
  <1> HIDE DEF id
  <1>6. Released(sol_outbox, sol_outbox', k)
    <2>1. sol_outbox[k] \in OutboxItem /\ sol_outbox[k].released \in SUBSET Nat
      <3>1. sol_outbox[k] \in OutboxItem
        BY <1>5
      <3> QED
        BY <3>1 DEF OutboxItem
    <2>2. [sol_outbox[k] EXCEPT !.released = @ \cup {id}] \in OutboxItem
      BY <1>4, <2>1 DEF OutboxItem
    <2>3. sol_outbox' = [sol_outbox EXCEPT ![k] = [sol_outbox[k] EXCEPT !.released = @ \cup {id}]]
      BY <1>1
    <2>4. sol_outbox' \in Seq(OutboxItem) /\ DOMAIN sol_outbox' = DOMAIN sol_outbox
      BY <1>5, <2>2, <2>3
    <2>5. \A n \in DOMAIN sol_outbox \ {k} : sol_outbox'[n] = sol_outbox[n]
      BY <2>3
    <2>6. /\ sol_outbox'[k].amount = sol_outbox[k].amount
          /\ sol_outbox'[k].released = sol_outbox[k].released \cup {id}
      BY <2>1, <2>3 DEF OutboxItem
    <2>7. sol_outbox'[k].released # {}
      BY <2>6
    <2>8. \A n \in DOMAIN sol_outbox : sol_outbox'[n].amount = sol_outbox[n].amount
      BY <2>5, <2>6
    <2> QED
      BY <2>4, <2>5, <2>7, <2>8 DEF Released
  <1>7. SameRegistries
    BY <1>1, <1>2 DEF SameRegistries
  <1>8. LimitInv' /\ BoxTypeInv'
    BY <1>1, <1>2, <1>3 DEF LimitInv, BoxTypeInv
  <1>9. Held' = Held
    BY <1>1, <1>2 DEF Held
  <1>10. TypesKept
    BY <1>3, <1>7, <1>8, RegistriesStay DEF TypesKept
  <1>11. Release("solana", k, t)
    BY <1>1, <1>2, <1>6, <1>9
       DEF Release, outboxAt, postedAt, inboxFrom, OtherOutboxes, OtherPosts,
           OtherInboxes, Side
  <1> QED
    BY <1>10, <1>11 DEF SomeStep, Side

\* release_inbound of Solana pays a transfer of Sui.
LEMMA SolanaPay ==
  ASSUME IInv, NEW m \in DOMAIN sol_inbox, Solana!release_inbound(m), UNCHANGED suiVars
  PROVE  SomeStep
  <1> DEFINE item == sol_inbox[m]
             paid == [item EXCEPT !.release_status = Solana!Released]
             a == untrim(m.amount, solana_decimals)
  <1>1. /\ item.release_status.status = "ReleaseAfter"
        /\ sol_inbox' = [sol_inbox EXCEPT ![m] = paid]
        /\ sol_balance' = sol_balance + item.amount
        /\ UNCHANGED <<sol_config, sol_transceiver_id, sol_outbox, sol_validated,
                       sol_outbox_rate_limit, sol_inbox_rate_limit, sol_posted, sui_posted, now>>
    BY DEF Solana!release_inbound, Solana!releasable, Solana!due, Solana!registryVars, Solana!limitVars
  <1>2. /\ sui_state' = sui_state /\ sui_registry' = sui_registry
        /\ sui_transceiver_id' = sui_transceiver_id /\ sui_outbox' = sui_outbox
        /\ sui_inbox' = sui_inbox /\ sui_outbox_rate_limit' = sui_outbox_rate_limit
        /\ sui_inbound_rate_limit' = sui_inbound_rate_limit /\ sui_coins' = sui_coins
        /\ sui_posted' = sui_posted
    BY DEF suiVars
  <1>3. RegistryInv /\ LimitInv /\ BoxTypeInv /\ FlowInv
    BY DEF IInv
  <1>4. item \in SolanaItem /\ item.amount = a /\ sol_balance \in Nat /\ sui_coins \in Nat
    BY <1>3 DEF BoxTypeInv
  <1>5. /\ m.amount \in Trimmed /\ m.amount.decimals <= solana_decimals /\ a \in Nat
        /\ scale(a, solana_decimals, UnitDecimals) = untrim(m.amount, UnitDecimals)
    <2>1. m \in DOMAIN inboxFrom("sui") /\ "sui" \in Side
      BY DEF inboxFrom, Side
    <2>2. m.amount \in Trimmed /\ Whole(m.amount) /\ a \in Nat
      BY <1>3, <2>1, InboxMessage
    <2> QED
      BY <2>2, UnitFact, WorthOfUntrim DEF Whole
  <1>6. /\ paid \in SolanaItem /\ paid.amount = item.amount /\ paid.votes = item.votes
        /\ paid.release_status = [status |-> "Released", at |-> 0]
    <2>1. Solana!Released = [status |-> "Released", at |-> 0] /\ Solana!Released \in ReleaseStatus
      BY DEF Solana!Released, ReleaseStatus
    <2> QED
      BY <1>4, <2>1 DEF SolanaItem
  <1> HIDE DEF a, paid
  <1>7. SameRegistries
    BY <1>1, <1>2 DEF SameRegistries
  <1>8. LimitInv'
    BY <1>1, <1>2, <1>3 DEF LimitInv
  <1>9. sol_balance' \in Nat
    BY <1>1, <1>4, <1>5
  <1>10. BoxTypeInv'
    <2>1. \A n \in DOMAIN sol_inbox' :
            sol_inbox'[n] \in SolanaItem /\ sol_inbox'[n].amount = untrim(n.amount, solana_decimals)
      BY <1>1, <1>3, <1>4, <1>6 DEF BoxTypeInv, a
    <2> QED
      BY <1>1, <1>2, <1>3, <1>9, <2>1 DEF BoxTypeInv
  <1>11. Held' = Held + untrim(m.amount, UnitDecimals)
    BY <1>1, <1>2, <1>3, <1>4, <1>5, <1>10, HeldChanges
  <1>12. TypesKept
    BY <1>3, <1>7, <1>8, <1>10, RegistriesStay DEF TypesKept
  <1>13. Pay("sui", m, paid)
    BY <1>1, <1>2, <1>6, <1>11
       DEF Pay, outboxAt, postedAt, inboxFrom, OtherOutboxes, OtherPosts, OtherInboxes, Side
  <1> QED
    BY <1>12, <1>13 DEF SomeStep, Side

\* redeem of Solana approves a message with these votes and gives it the status.
SolanaApproves(m, votes, status) ==
    LET a == untrim(m.amount, solana_decimals)
        fits == Solana!consumable(sol_inbox_rate_limit, a)
    IN  /\ Solana!inbox_item(m).release_status = Solana!NotApproved
        /\ ~(Cardinality(votes \cap sol_config.enabled_transceivers) < sol_config.threshold)
        /\ status = Solana!ReleaseAfter(IF fits THEN now ELSE now + RATE_LIMIT_DURATION)
        /\ IF fits
           THEN /\ sol_inbox_rate_limit' = Solana!consume(sol_inbox_rate_limit, a)
                /\ sol_outbox_rate_limit' = Solana!refill(sol_outbox_rate_limit, a)
           ELSE UNCHANGED <<sol_outbox_rate_limit, sol_inbox_rate_limit>>

\* The votes for a message after the vote of t.
SolanaVotes(t, m) == Solana!inbox_item(m).votes \cup {sol_transceiver_id[t]}

\* Its inbox item after the vote, with a given status.
SolanaVoted(t, m, status) ==
    [Solana!inbox_item(m) EXCEPT !.votes = SolanaVotes(t, m), !.release_status = status]

\* What redeem does to the inbox and to the limits.
SolanaRedeems(t, m, status) ==
    /\ sol_inbox' = [x \in DOMAIN sol_inbox \cup {m} |->
                        IF x = m THEN SolanaVoted(t, m, status) ELSE sol_inbox[x]]
    /\ \/ /\ status = Solana!inbox_item(m).release_status
          /\ UNCHANGED <<sol_outbox_rate_limit, sol_inbox_rate_limit>>
       \/ SolanaApproves(m, SolanaVotes(t, m), status)

\* redeem records a vote of a transceiver that delivered the message, and
\* approves the message or leaves its status.
LEMMA SolanaRedeemed ==
  ASSUME IInv, NEW t \in Transceiver, NEW m, Solana!redeem(t, m)
  PROVE  /\ Announced(sui_outbox, m) /\ untrim(m.amount, solana_decimals) \in Nat
         /\ Solana!inbox_item(m) \in SolanaItem
         /\ Solana!inbox_item(m).amount = untrim(m.amount, solana_decimals)
         /\ VotesOf(SolanaVotes(t, m), sol_transceiver_id, m, sui_posted)
         /\ \E status \in ReleaseStatus : SolanaRedeems(t, m, status)
  <1> DEFINE item == Solana!inbox_item(m)
             votes == SolanaVotes(t, m)
  <1>1. RegistryInv /\ LimitInv /\ BoxTypeInv /\ FlowInv /\ now \in Int
    BY DEF IInv, LimitInv
  <1>2. <<t, m>> \in sol_validated /\ sol_transceiver_id[t] \in sol_config.enabled_transceivers
    BY DEF Solana!redeem, Solana!redeemable, Solana!enabled
  <1>3. <<t, m>> \in sui_posted /\ sol_transceiver_id[t] \in Nat
    BY <1>1, <1>2, SolanaSuiAssumption DEF BoxTypeInv, RegistryInv, SolanaConfig
  <1>4. Announced(sui_outbox, m) /\ untrim(m.amount, solana_decimals) \in Nat
    BY <1>1, <1>3, PostedMessage DEF Side, outboxAt, postedAt
  <1>5. Solana!NotApproved \in ReleaseStatus
    BY DEF Solana!NotApproved, ReleaseStatus
  <1>6. /\ item \in SolanaItem /\ item.amount = untrim(m.amount, solana_decimals)
        /\ VotesOf(item.votes, sol_transceiver_id, m, sui_posted)
    <2>1. CASE m \in DOMAIN sol_inbox
      <3>1. item = sol_inbox[m]
        BY <2>1 DEF Solana!inbox_item
      <3>2. VotesOf(sol_inbox[m].votes, sol_transceiver_id, m, sui_posted)
        BY <1>1, <2>1 DEF FlowInv, Side, inboxFrom, idsFrom, postedAt
      <3> QED
        BY <1>1, <2>1, <3>1, <3>2 DEF BoxTypeInv
    <2>2. CASE m \notin DOMAIN sol_inbox
      <3>1. item = [amount |-> untrim(m.amount, solana_decimals), votes |-> {},
                    release_status |-> Solana!NotApproved]
        BY <2>2, SameAmounts DEF Solana!inbox_item
      <3> QED
        BY <1>4, <1>5, <3>1 DEF SolanaItem, VotesOf
    <2> QED
      BY <2>1, <2>2
  <1>7. VotesOf(votes, sol_transceiver_id, m, sui_posted)
    BY <1>3, <1>6 DEF VotesOf, SolanaVotes
  <1> DEFINE a == untrim(m.amount, solana_decimals)
             fits == Solana!consumable(sol_inbox_rate_limit, a)
             after == Solana!ReleaseAfter(IF fits THEN now ELSE now + RATE_LIMIT_DURATION)
             boxed(status) ==
                 [x \in DOMAIN sol_inbox \cup {m} |->
                     IF x = m THEN [item EXCEPT !.votes = votes, !.release_status = status]
                     ELSE sol_inbox[x]]
  <1>8. /\ Solana!voted(t, m) = votes
        /\ Solana!approves(t, m)
             <=> ~(Cardinality(votes \cap sol_config.enabled_transceivers) < sol_config.threshold)
    <2> DEFINE on == votes \cap sol_config.enabled_transceivers
    <2>1. sol_config.enabled_transceivers \in SUBSET (0 .. BITS - 1) /\ sol_config.threshold \in Nat
      BY <1>1 DEF RegistryInv, SolanaConfig
    <2>2. Cardinality(on) \in Nat
      BY <2>1, BitmapFinite
    <2>3. Solana!voted(t, m) = votes
      BY DEF Solana!voted, SolanaVotes
    <2>4. Solana!approves(t, m) <=> Cardinality(on) >= sol_config.threshold
      BY <2>3, SameCardinality DEF Solana!approves, Solana!count_enabled_votes
    <2> HIDE DEF on
    <2>5. Solana!approves(t, m) <=> ~(Cardinality(on) < sol_config.threshold)
      BY <2>1, <2>2, <2>4
    <2> QED
      BY <2>3, <2>5 DEF on
  <1>9. IF Cardinality(votes \cap sol_config.enabled_transceivers) < sol_config.threshold
        THEN /\ sol_inbox' = boxed(item.release_status)
             /\ UNCHANGED <<sol_outbox_rate_limit, sol_inbox_rate_limit>>
        ELSE /\ item.release_status = Solana!NotApproved
             /\ sol_inbox' = boxed(after)
             /\ IF fits
                THEN /\ sol_inbox_rate_limit' = Solana!consume(sol_inbox_rate_limit, a)
                     /\ sol_outbox_rate_limit' = Solana!refill(sol_outbox_rate_limit, a)
                ELSE UNCHANGED <<sol_outbox_rate_limit, sol_inbox_rate_limit>>
    <2>1. item.amount = a
      BY <1>6
    <2> HIDE DEF a, item, votes
    <2> QED
      BY <1>8, <2>1, Zenon
         DEF Solana!redeem, Solana!redeemable, Solana!release_after_allowed, Solana!limitVars,
             item
  <1>10. item.release_status \in ReleaseStatus /\ after \in ReleaseStatus
    BY <1>1, <1>6, SolanaSuiAssumption DEF SolanaItem, ReleaseStatus, Solana!ReleaseAfter
  <1>11. SolanaRedeems(t, m, item.release_status) \/ SolanaRedeems(t, m, after)
    BY <1>9 DEF SolanaRedeems, SolanaVoted, SolanaApproves
  <1> QED
    BY <1>4, <1>6, <1>7, <1>10, <1>11

\* redeem of Solana votes for a transfer of Sui.
LEMMA SolanaVote ==
  ASSUME IInv, NEW t \in Transceiver, NEW m, Solana!redeem(t, m), UNCHANGED suiVars
  PROVE  SomeStep
  <1> DEFINE item == Solana!inbox_item(m)
             votes == SolanaVotes(t, m)
             a == untrim(m.amount, solana_decimals)
  <1>1. /\ Announced(sui_outbox, m) /\ a \in Nat
        /\ item \in SolanaItem /\ item.amount = a
        /\ VotesOf(votes, sol_transceiver_id, m, sui_posted)
    BY SolanaRedeemed
  <1>2. PICK status \in ReleaseStatus : SolanaRedeems(t, m, status)
    BY SolanaRedeemed
  <1> DEFINE i == SolanaVoted(t, m, status)
  <1>3. /\ m \in DOMAIN sol_inbox => item = sol_inbox[m]
        /\ m \notin DOMAIN sol_inbox => item.release_status.status = "NotApproved"
    BY DEF Solana!inbox_item, Solana!NotApproved
  <1>4. /\ i \in SolanaItem /\ i.amount = a /\ i.votes = votes /\ i.release_status = status
    BY <1>1, <1>2 DEF SolanaItem, VotesOf, SolanaVoted
  <1>5. \/ /\ status = item.release_status
           /\ UNCHANGED <<sol_outbox_rate_limit, sol_inbox_rate_limit>>
        \/ /\ item.release_status.status = "NotApproved" /\ status.status = "ReleaseAfter"
           /\ \/ UNCHANGED <<sol_outbox_rate_limit, sol_inbox_rate_limit>>
              \/ /\ sol_inbox_rate_limit' = Solana!consume(sol_inbox_rate_limit, a)
                 /\ sol_outbox_rate_limit' = Solana!refill(sol_outbox_rate_limit, a)
    BY <1>2 DEF SolanaRedeems, SolanaApproves, Solana!NotApproved, Solana!ReleaseAfter
  <1>6. sol_inbox' = [x \in DOMAIN sol_inbox \cup {m} |-> IF x = m THEN i ELSE sol_inbox[x]]
    BY <1>2 DEF SolanaRedeems
  <1> HIDE DEF item, votes, a, i
  <1>7. UNCHANGED <<sol_config, sol_transceiver_id, sol_outbox, sol_validated, sol_balance,
                    sol_posted, sui_posted, now>>
    BY DEF Solana!redeem, Solana!registryVars, Solana!tokenVars
  <1>8. /\ sui_state' = sui_state /\ sui_registry' = sui_registry
        /\ sui_transceiver_id' = sui_transceiver_id /\ sui_outbox' = sui_outbox
        /\ sui_inbox' = sui_inbox /\ sui_outbox_rate_limit' = sui_outbox_rate_limit
        /\ sui_inbound_rate_limit' = sui_inbound_rate_limit /\ sui_coins' = sui_coins
        /\ sui_posted' = sui_posted
    BY DEF suiVars
  <1>9. /\ RegistryInv /\ LimitInv /\ BoxTypeInv /\ FlowInv /\ now \in Int
        /\ sol_outbox_rate_limit \in RateLimit /\ sol_inbox_rate_limit \in RateLimit
        /\ sui_outbox_rate_limit \in RateLimit /\ sui_inbound_rate_limit \in RateLimit
    BY DEF IInv, LimitInv
  <1>10. SameRegistries
    BY <1>7, <1>8 DEF SameRegistries
  <1>11. LimitInv'
    <2>1. /\ Solana!consume(sol_inbox_rate_limit, a) \in RateLimit
          /\ Solana!refill(sol_outbox_rate_limit, a) \in RateLimit
      <3>1. a \in Int /\ now \in Int
        BY <1>1, <1>9
      <3> QED
        BY <1>9, <3>1, LimitTypes, SolanaSuiAssumption
    <2> QED
      BY <1>5, <1>7, <1>8, <1>9, <2>1 DEF LimitInv
  <1>12. BoxTypeInv'
    <2>1. \A n \in DOMAIN sol_inbox' :
            sol_inbox'[n] \in SolanaItem /\ sol_inbox'[n].amount = untrim(n.amount, solana_decimals)
      BY <1>4, <1>6, <1>9 DEF BoxTypeInv, a
    <2> QED
      BY <1>7, <1>8, <1>9, <2>1 DEF BoxTypeInv
  <1>13. Held' = Held
    BY <1>7, <1>8 DEF Held
  <1>14. TypesKept
    BY <1>9, <1>10, <1>11, <1>12, RegistriesStay DEF TypesKept
  <1>15. /\ i.release_status \in ReleaseStatus
         /\ VotesOf(i.votes, sol_transceiver_id, m, sui_posted)
         /\ m \in DOMAIN sol_inbox =>
               \/ i.release_status.status = sol_inbox[m].release_status.status
               \/ /\ sol_inbox[m].release_status.status = "NotApproved"
                  /\ i.release_status.status = "ReleaseAfter"
         /\ m \notin DOMAIN sol_inbox =>
               i.release_status.status \in {"NotApproved", "ReleaseAfter"}
    BY <1>1, <1>2, <1>3, <1>4, <1>5
  <1>16. Vote("sui", m, i)
    BY <1>1, <1>6, <1>7, <1>8, <1>13, <1>15
       DEF Vote, outboxAt, postedAt, inboxFrom, idsFrom, OtherOutboxes, OtherPosts,
           OtherInboxes, Side
  <1> QED
    BY <1>14, <1>16 DEF SomeStep, Side

\* A step of Solana that moves no transfer.
LEMMA SolanaAside ==
  ASSUME IInv, UNCHANGED suiVars, UNCHANGED <<sol_outbox, sol_inbox, sol_balance, sol_posted, now>>,
         sol_validated' \subseteq sui_posted,
         sol_config' \in SolanaConfig, sol_transceiver_id' \in Ids,
         \A t \in Transceiver :
             sol_transceiver_id[t] \in Nat => sol_transceiver_id'[t] = sol_transceiver_id[t],
         sol_outbox_rate_limit' \in RateLimit, sol_inbox_rate_limit' \in RateLimit
  PROVE  SomeStep
  <1>1. /\ sui_state' = sui_state /\ sui_registry' = sui_registry
        /\ sui_transceiver_id' = sui_transceiver_id /\ sui_outbox' = sui_outbox
        /\ sui_inbox' = sui_inbox /\ sui_outbox_rate_limit' = sui_outbox_rate_limit
        /\ sui_inbound_rate_limit' = sui_inbound_rate_limit /\ sui_coins' = sui_coins
        /\ sui_posted' = sui_posted
    BY DEF suiVars
  <1>2. RegistryInv' /\ LimitInv' /\ BoxTypeInv'
    BY <1>1 DEF IInv, RegistryInv, LimitInv, BoxTypeInv
  <1>3. \A c \in Side : \A t \in Transceiver :
          idsFrom(c)[t] \in Nat => idsFrom(c)'[t] = idsFrom(c)[t]
    BY <1>1 DEF idsFrom
  <1>4. Quiet
    BY <1>1 DEF Quiet, Side, outboxAt, postedAt, inboxFrom, Held
  <1> QED
    BY <1>2, <1>3, <1>4 DEF SomeStep, TypesKept

\* The validation of a message and the registration of transceivers move none.
LEMMA SolanaRegistry ==
  ASSUME IInv, NEW t \in Transceiver, NEW m, UNCHANGED suiVars,
         \/ Solana!receive_message(t, m) \/ Solana!register_transceiver(t)
         \/ Solana!deregister_transceiver(t)
  PROVE  SomeStep
  <1>1. /\ sol_config \in SolanaConfig /\ sol_transceiver_id \in Ids /\ now \in Int
        /\ sol_outbox_rate_limit \in RateLimit /\ sol_inbox_rate_limit \in RateLimit
        /\ sol_validated \subseteq sui_posted
    BY DEF IInv, RegistryInv, LimitInv, BoxTypeInv
  <1>2. /\ sol_config.threshold \in Nat /\ sol_config.next_transceiver_id \in Nat
        /\ sol_config.enabled_transceivers \in SUBSET (0 .. BITS - 1)
    BY <1>1 DEF SolanaConfig
  <1>3. CASE Solana!receive_message(t, m)
    BY <1>1, <1>3, SolanaAside
       DEF Solana!receive_message, Solana!registryVars, Solana!limitVars, Solana!tokenVars
  <1>4. CASE Solana!register_transceiver(t)
    <2> DEFINE id == IF sol_transceiver_id[t] = -1 THEN sol_config.next_transceiver_id
                     ELSE sol_transceiver_id[t]
               next == IF sol_transceiver_id[t] = -1 THEN sol_config.next_transceiver_id + 1
                       ELSE sol_config.next_transceiver_id
    <2>1. sol_transceiver_id[t] \in Nat \cup {-1}
      BY <1>1 DEF Ids
    <2>2. /\ id \in Nat /\ next \in Nat
          /\ sol_transceiver_id[t] \in Nat => id = sol_transceiver_id[t]
      BY <1>2, <2>1
    <2>3. /\ id < BITS /\ sol_transceiver_id' = [sol_transceiver_id EXCEPT ![t] = id]
          /\ sol_config' = [sol_config EXCEPT !.next_transceiver_id = next,
                               !.enabled_transceivers = sol_config.enabled_transceivers \cup {id}]
          /\ UNCHANGED <<sol_outbox, sol_inbox, sol_validated, sol_outbox_rate_limit,
                         sol_inbox_rate_limit, sol_balance, sol_posted, now>>
      BY <1>4
         DEF Solana!register_transceiver, Solana!NoId, Solana!limitVars, Solana!tokenVars
    <2> HIDE DEF id, next
    <2>4. id \in 0 .. BITS - 1
      BY <2>2, <2>3, SolanaSuiAssumption
    <2>5. sol_config' \in SolanaConfig
      BY <1>1, <1>2, <2>2, <2>3, <2>4 DEF SolanaConfig
    <2>6. sol_transceiver_id' \in Ids
      BY <1>1, <2>2, <2>3 DEF Ids
    <2>7. \A u \in Transceiver :
             sol_transceiver_id[u] \in Nat => sol_transceiver_id'[u] = sol_transceiver_id[u]
      BY <1>1, <2>2, <2>3 DEF Ids
    <2> QED
      BY <1>1, <2>3, <2>5, <2>6, <2>7, SolanaAside
  <1>5. CASE Solana!deregister_transceiver(t)
    <2> DEFINE left == sol_config.enabled_transceivers \ {sol_transceiver_id[t]}
               k == Solana!least(sol_config.threshold, Cardinality(left))
    <2>1. left \in SUBSET (0 .. BITS - 1)
      BY <1>2
    <2>2. Cardinality(left) \in Nat
      BY <2>1, BitmapFinite
    <2>3. k \in Nat
      BY <1>2, <2>2 DEF Solana!least
    <2>4. /\ sol_config' = [sol_config EXCEPT !.enabled_transceivers = left, !.threshold = k]
          /\ UNCHANGED <<sol_transceiver_id, sol_outbox, sol_inbox, sol_validated,
                         sol_outbox_rate_limit, sol_inbox_rate_limit, sol_balance, sol_posted, now>>
      BY <1>5, SameCardinality
         DEF Solana!deregister_transceiver, Solana!limitVars, Solana!tokenVars
    <2> HIDE DEF left, k
    <2>5. sol_config' \in SolanaConfig
      BY <1>1, <2>1, <2>3, <2>4 DEF SolanaConfig
    <2> QED
      BY <1>1, <2>4, <2>5, SolanaAside
  <1> QED
    BY <1>3, <1>4, <1>5

\* Nor do the threshold and the pause.
LEMMA SolanaSettings ==
  ASSUME IInv, NEW n \in Nat, NEW p \in BOOLEAN, UNCHANGED suiVars,
         Solana!set_threshold(n) \/ Solana!set_paused(p)
  PROVE  SomeStep
  <1>1. /\ sol_config \in SolanaConfig /\ sol_transceiver_id \in Ids /\ now \in Int
        /\ sol_outbox_rate_limit \in RateLimit /\ sol_inbox_rate_limit \in RateLimit
        /\ sol_validated \subseteq sui_posted
    BY DEF IInv, RegistryInv, LimitInv, BoxTypeInv
  <1>2. /\ sol_config.threshold \in Nat /\ sol_config.next_transceiver_id \in Nat
        /\ sol_config.enabled_transceivers \in SUBSET (0 .. BITS - 1)
    BY <1>1 DEF SolanaConfig
  <1>3. CASE Solana!set_threshold(n)
    <2>1. sol_config' \in SolanaConfig
      BY <1>1, <1>3 DEF SolanaConfig, Solana!set_threshold
    <2> QED
      BY <1>1, <1>3, <2>1, SolanaAside
         DEF Solana!set_threshold, Solana!limitVars, Solana!tokenVars
  <1>4. CASE Solana!set_paused(p)
    <2>1. sol_config' \in SolanaConfig
      BY <1>1, <1>4 DEF SolanaConfig, Solana!set_paused
    <2> QED
      BY <1>1, <1>4, <2>1, SolanaAside
         DEF Solana!set_paused, Solana!limitVars, Solana!tokenVars
  <1> QED
    BY <1>3, <1>4

\* Nor do the limits.
LEMMA SolanaLimiting ==
  ASSUME IInv, NEW l \in SolanaLimits, UNCHANGED suiVars,
         \/ Solana!set_outbound_limit(l) \/ Solana!set_inbound_limit(l) \/ Solana!set_peer(l)
  PROVE  SomeStep
  <1>1. /\ sol_config \in SolanaConfig /\ sol_transceiver_id \in Ids /\ now \in Int
        /\ sol_outbox_rate_limit \in RateLimit /\ sol_inbox_rate_limit \in RateLimit
        /\ sol_validated \subseteq sui_posted
    BY DEF IInv, RegistryInv, LimitInv, BoxTypeInv
  <1>2. /\ sol_config.threshold \in Nat /\ sol_config.next_transceiver_id \in Nat
        /\ sol_config.enabled_transceivers \in SUBSET (0 .. BITS - 1)
    BY <1>1 DEF SolanaConfig
  <1>3. l \in 0 .. U64_MAX
    BY SolanaSuiAssumption
  <1>4. /\ Solana!set_limit(sol_outbox_rate_limit, l) \in RateLimit
        /\ Solana!set_limit(sol_inbox_rate_limit, l) \in RateLimit
        /\ Solana!new_rate_limit(l) \in RateLimit
    BY <1>1, <1>3, LimitTypes
  <1>5. CASE Solana!set_outbound_limit(l)
    BY <1>1, <1>4, <1>5, SolanaAside
       DEF Solana!set_outbound_limit, Solana!registryVars, Solana!tokenVars
  <1>6. CASE Solana!set_inbound_limit(l)
    BY <1>1, <1>4, <1>6, SolanaAside
       DEF Solana!set_inbound_limit, Solana!registryVars, Solana!tokenVars
  <1>7. CASE Solana!set_peer(l)
    BY <1>1, <1>4, <1>7, SolanaAside
       DEF Solana!set_peer, Solana!registryVars, Solana!tokenVars
  <1> QED
    BY <1>5, <1>6, <1>7

\* Every step of Solana has one of the forms.
LEMMA SolanaStep ==
  ASSUME IInv, Solana!Next, UNCHANGED suiVars
  PROVE  SomeStep
  <1>1. CASE \E a \in SolanaAmount, q \in BOOLEAN : Solana!transfer(a, q)
    BY <1>1, SolanaTransfer
  <1>2. CASE \E m \in DOMAIN sol_inbox : Solana!release_inbound(m)
    BY <1>2, SolanaPay
  <1>3. ASSUME NEW t \in Transceiver, NEW k \in DOMAIN sol_outbox, Solana!release_outbound(t, k)
        PROVE  SomeStep
    BY <1>3, SolanaRelease
  <1>4. ASSUME NEW t \in Transceiver, NEW x \in sui_posted,
               Solana!receive_message(t, x[2]) \/ Solana!redeem(t, x[2])
        PROVE  SomeStep
    BY <1>4, SolanaRegistry, SolanaVote
  <1>5. ASSUME NEW t \in Transceiver,
               Solana!register_transceiver(t) \/ Solana!deregister_transceiver(t)
        PROVE  SomeStep
    BY <1>5, SolanaRegistry
  <1>6. CASE \E n \in 1 .. Solana!Cardinality(Transceiver) : Solana!set_threshold(n)
    <2>1. PICK n \in 1 .. Solana!Cardinality(Transceiver) : Solana!set_threshold(n)
      BY <1>6
    <2>2. n \in Nat
      BY SameCardinality, SolanaSuiAssumption, FS_CardinalityType
    <2> QED
      BY <2>1, <2>2, SolanaSettings
  <1>7. CASE \E paused \in BOOLEAN : Solana!set_paused(paused)
    <2>1. PICK paused \in BOOLEAN : Solana!set_paused(paused)
      BY <1>7
    <2>2. 0 \in Nat
      OBVIOUS
    <2> QED
      BY <2>1, <2>2, SolanaSettings, Zenon
  <1>8. CASE \E l \in SolanaLimits :
                Solana!set_outbound_limit(l) \/ Solana!set_inbound_limit(l) \/ Solana!set_peer(l)
    BY <1>8, SolanaLimiting
  <1> QED
    BY <1>1, <1>2, <1>3, <1>4, <1>5, <1>6, <1>7, <1>8, Zenon DEF Solana!Next

\* transfer of Sui starts a transfer.
LEMMA SuiTransfer ==
  ASSUME IInv, NEW r \in SuiAmount, NEW q \in BOOLEAN, Sui!transfer(r, q), UNCHANGED solVars
  PROVE  SomeStep
  <1> DEFINE T == trim(r, sui_decimals, solana_decimals)
             a == untrim(T, sui_decimals)
             item == [amount |-> T,
                      release_timestamp |-> IF Sui!consumable(sui_outbox_rate_limit, a)
                                            THEN now ELSE now + RATE_LIMIT_DURATION,
                      released |-> {}]
  <1>1. T \in Trimmed /\ Whole(T)
    BY TrimWhole, SolanaSuiAssumption
  <1>2. a \in Nat /\ scale(a, sui_decimals, UnitDecimals) = untrim(T, UnitDecimals)
    BY <1>1, UnitFact, WorthOfUntrim DEF Whole
  <1>3. T.amount \in Nat
    BY <1>1 DEF Trimmed
  <1>4. Sui!trim(r, sui_decimals, solana_decimals) = T /\ Sui!untrim(T, sui_decimals) = a
    BY SameAmounts
  <1> HIDE DEF T, a
  <1>5. /\ Len(sui_outbox) < SuiItems /\ a <= sui_coins /\ sui_coins' = sui_coins - a
        /\ sui_outbox' = Append(sui_outbox, item)
        /\ UNCHANGED <<sui_state, sui_registry, sui_transceiver_id, sui_inbox, sui_posted,
                       sol_posted, now>>
        /\ \/ /\ sui_outbox_rate_limit' = Sui!consume(sui_outbox_rate_limit, a)
              /\ sui_inbound_rate_limit' = Sui!refill(sui_inbound_rate_limit, T.amount)
           \/ UNCHANGED <<sui_outbox_rate_limit, sui_inbound_rate_limit>>
    BY <1>4 DEF Sui!transfer, Sui!limitVars, Sui!registryVars
  <1>6. /\ sol_config' = sol_config /\ sol_transceiver_id' = sol_transceiver_id
        /\ sol_outbox' = sol_outbox /\ sol_inbox' = sol_inbox /\ sol_validated' = sol_validated
        /\ sol_outbox_rate_limit' = sol_outbox_rate_limit
        /\ sol_inbox_rate_limit' = sol_inbox_rate_limit
        /\ sol_balance' = sol_balance /\ sol_posted' = sol_posted
    BY DEF solVars
  <1>7. /\ RegistryInv /\ LimitInv /\ BoxTypeInv /\ FlowInv /\ now \in Int
        /\ sol_balance \in Nat /\ sui_coins \in Nat
    BY DEF IInv, LimitInv, BoxTypeInv
  <1>8. item \in OutboxItem /\ Whole(item.amount) /\ item.released = {}
    BY <1>1, <1>7, SolanaSuiAssumption DEF OutboxItem
  <1>9. SameRegistries
    BY <1>5, <1>6 DEF SameRegistries
  <1>10. LimitInv'
    <2>1. /\ sol_outbox_rate_limit \in RateLimit /\ sol_inbox_rate_limit \in RateLimit
          /\ sui_outbox_rate_limit \in RateLimit /\ sui_inbound_rate_limit \in RateLimit
      BY <1>7 DEF LimitInv
    <2>2. a \in Int /\ T.amount \in Int /\ now \in Int
      BY <1>2, <1>3, <1>7
    <2>3. /\ Sui!consume(sui_outbox_rate_limit, a) \in RateLimit
          /\ Sui!refill(sui_inbound_rate_limit, T.amount) \in RateLimit
      BY <2>1, <2>2, LimitTypes, SolanaSuiAssumption
    <2> QED
      BY <1>5, <1>6, <1>7, <2>1, <2>3 DEF LimitInv
  <1>11. sui_coins' \in Nat /\ sui_coins = sui_coins' + a
    BY <1>2, <1>5, <1>7
  <1>12. BoxTypeInv'
    BY <1>5, <1>6, <1>7, <1>11 DEF BoxTypeInv
  <1>13. Held = Held' + untrim(T, UnitDecimals)
    BY <1>2, <1>6, <1>7, <1>11, <1>12, HeldChanges
  <1>14. TypesKept
    BY <1>7, <1>9, <1>10, <1>12, RegistriesStay DEF TypesKept
  <1>15. Start("sui", item)
    BY <1>5, <1>6, <1>8, <1>13
       DEF Start, outboxAt, postedAt, inboxFrom, itemsAt, OtherOutboxes, OtherPosts,
           OtherInboxes, Side
  <1> QED
    BY <1>8, <1>14, <1>15 DEF SomeStep, Side

\* release_outbound of Sui releases an item.
LEMMA SuiRelease ==
  ASSUME IInv, NEW t \in Transceiver, NEW k \in DOMAIN sui_outbox, Sui!release_outbound(t, k),
         UNCHANGED solVars
  PROVE  SomeStep
  <1> DEFINE id == sui_transceiver_id[t]
  <1>1. /\ id # -1
        /\ sui_outbox' = [sui_outbox EXCEPT ![k].released = @ \cup {id}]
        /\ sui_posted' = sui_posted \cup {<<t, [id |-> k, amount |-> sui_outbox[k].amount]>>}
        /\ UNCHANGED <<sui_state, sui_registry, sui_transceiver_id, sui_inbox,
                       sui_outbox_rate_limit, sui_inbound_rate_limit, sui_coins, sol_posted, now>>
    BY DEF Sui!release_outbound, Sui!registered, Sui!NoId, Sui!message, Sui!registryVars,
           Sui!limitVars, Sui!tokenVars
  <1>2. /\ sol_config' = sol_config /\ sol_transceiver_id' = sol_transceiver_id
        /\ sol_outbox' = sol_outbox /\ sol_inbox' = sol_inbox /\ sol_validated' = sol_validated
        /\ sol_outbox_rate_limit' = sol_outbox_rate_limit
        /\ sol_inbox_rate_limit' = sol_inbox_rate_limit
        /\ sol_balance' = sol_balance /\ sol_posted' = sol_posted
    BY DEF solVars
  <1>3. RegistryInv /\ LimitInv /\ BoxTypeInv /\ FlowInv /\ BITS \in Nat
    BY SolanaSuiAssumption DEF IInv
  <1>4. id \in Nat
    BY <1>1, <1>3 DEF RegistryInv, Ids
  <1>5. sui_outbox \in Seq(OutboxItem)
    BY <1>3 DEF FlowInv, Side, outboxAt
  <1> HIDE DEF id
  <1>6. Released(sui_outbox, sui_outbox', k)
    <2>1. sui_outbox[k] \in OutboxItem /\ sui_outbox[k].released \in SUBSET Nat
      <3>1. sui_outbox[k] \in OutboxItem
        BY <1>5
      <3> QED
        BY <3>1 DEF OutboxItem
    <2>2. [sui_outbox[k] EXCEPT !.released = @ \cup {id}] \in OutboxItem
      BY <1>4, <2>1 DEF OutboxItem
    <2>3. sui_outbox' = [sui_outbox EXCEPT ![k] = [sui_outbox[k] EXCEPT !.released = @ \cup {id}]]
      BY <1>1
    <2>4. sui_outbox' \in Seq(OutboxItem) /\ DOMAIN sui_outbox' = DOMAIN sui_outbox
      BY <1>5, <2>2, <2>3
    <2>5. \A n \in DOMAIN sui_outbox \ {k} : sui_outbox'[n] = sui_outbox[n]
      BY <2>3
    <2>6. /\ sui_outbox'[k].amount = sui_outbox[k].amount
          /\ sui_outbox'[k].released = sui_outbox[k].released \cup {id}
      BY <2>1, <2>3 DEF OutboxItem
    <2>7. sui_outbox'[k].released # {}
      BY <2>6
    <2>8. \A n \in DOMAIN sui_outbox : sui_outbox'[n].amount = sui_outbox[n].amount
      BY <2>5, <2>6
    <2> QED
      BY <2>4, <2>5, <2>7, <2>8 DEF Released
  <1>7. SameRegistries
    BY <1>1, <1>2 DEF SameRegistries
  <1>8. LimitInv'
    BY <1>1, <1>2, <1>3 DEF LimitInv
  <1>9. BoxTypeInv'
    <2>1. sol_validated' \subseteq sui_posted'
      BY <1>1, <1>2, <1>3 DEF BoxTypeInv
    <2> QED
      BY <1>1, <1>2, <1>3, <2>1 DEF BoxTypeInv
  <1>10. Held' = Held
    BY <1>1, <1>2 DEF Held
  <1>11. TypesKept
    BY <1>3, <1>7, <1>8, <1>9, RegistriesStay DEF TypesKept
  <1>12. Release("sui", k, t)
    BY <1>1, <1>2, <1>6, <1>10
       DEF Release, outboxAt, postedAt, inboxFrom, OtherOutboxes, OtherPosts,
           OtherInboxes, Side
  <1> QED
    BY <1>11, <1>12 DEF SomeStep, Side

\* release of Sui pays a transfer of Solana.
LEMMA SuiPay ==
  ASSUME IInv, NEW m \in DOMAIN sui_inbox, Sui!release(m), UNCHANGED solVars
  PROVE  SomeStep
  <1> DEFINE item == sui_inbox[m]
             paid == [item EXCEPT !.release_status = Sui!Released]
             a == untrim(m.amount, sui_decimals)
  <1>1. /\ item.release_status.status = "ReleaseAfter"
        /\ sui_inbox' = [sui_inbox EXCEPT ![m] = paid]
        /\ sui_coins' = sui_coins + a
        /\ UNCHANGED <<sui_state, sui_registry, sui_transceiver_id, sui_outbox,
                       sui_outbox_rate_limit, sui_inbound_rate_limit, sui_posted, sol_posted, now>>
    BY SameAmounts DEF Sui!release, Sui!releasable, Sui!due, Sui!registryVars, Sui!limitVars
  <1>2. /\ sol_config' = sol_config /\ sol_transceiver_id' = sol_transceiver_id
        /\ sol_outbox' = sol_outbox /\ sol_inbox' = sol_inbox /\ sol_validated' = sol_validated
        /\ sol_outbox_rate_limit' = sol_outbox_rate_limit
        /\ sol_inbox_rate_limit' = sol_inbox_rate_limit
        /\ sol_balance' = sol_balance /\ sol_posted' = sol_posted
    BY DEF solVars
  <1>3. RegistryInv /\ LimitInv /\ BoxTypeInv /\ FlowInv
    BY DEF IInv
  <1>4. item \in SuiItem /\ sol_balance \in Nat /\ sui_coins \in Nat
    BY <1>3 DEF BoxTypeInv
  <1>5. /\ m.amount \in Trimmed /\ m.amount.decimals <= sui_decimals /\ a \in Nat
        /\ scale(a, sui_decimals, UnitDecimals) = untrim(m.amount, UnitDecimals)
    <2>1. m \in DOMAIN inboxFrom("solana") /\ "solana" \in Side
      BY DEF inboxFrom, Side
    <2>2. m.amount \in Trimmed /\ Whole(m.amount) /\ a \in Nat
      BY <1>3, <2>1, InboxMessage
    <2> QED
      BY <2>2, UnitFact, WorthOfUntrim DEF Whole
  <1>6. /\ paid \in SuiItem /\ paid.votes = item.votes
        /\ paid.release_status = [status |-> "Released", at |-> 0]
    <2>1. Sui!Released = [status |-> "Released", at |-> 0] /\ Sui!Released \in ReleaseStatus
      BY DEF Sui!Released, ReleaseStatus
    <2> QED
      BY <1>4, <2>1 DEF SuiItem
  <1> HIDE DEF a, paid
  <1>7. SameRegistries
    BY <1>1, <1>2 DEF SameRegistries
  <1>8. LimitInv'
    BY <1>1, <1>2, <1>3 DEF LimitInv
  <1>9. sui_coins' \in Nat
    BY <1>1, <1>4, <1>5
  <1>10. BoxTypeInv'
    <2>1. \A n \in DOMAIN sui_inbox' : sui_inbox'[n] \in SuiItem
      BY <1>1, <1>3, <1>6 DEF BoxTypeInv
    <2> QED
      BY <1>1, <1>2, <1>3, <1>9, <2>1 DEF BoxTypeInv
  <1>11. Held' = Held + untrim(m.amount, UnitDecimals)
    BY <1>1, <1>2, <1>3, <1>4, <1>5, <1>10, HeldChanges
  <1>12. TypesKept
    BY <1>3, <1>7, <1>8, <1>10, RegistriesStay DEF TypesKept
  <1>13. Pay("solana", m, paid)
    BY <1>1, <1>2, <1>6, <1>11
       DEF Pay, outboxAt, postedAt, inboxFrom, OtherOutboxes, OtherPosts, OtherInboxes, Side
  <1> QED
    BY <1>12, <1>13 DEF SomeStep, Side

\* redeem of Sui, likewise.
SuiApproves(m, votes, status) ==
    LET a == untrim(m.amount, sui_decimals)
        fits == Sui!consumable(sui_inbound_rate_limit, a)
    IN  /\ Sui!inbox_item(m).release_status = Sui!NotApproved
        /\ ~(Cardinality(votes \cap sui_registry.enabled_bitmap) < sui_state.threshold)
        /\ status = Sui!ReleaseAfter(IF fits THEN now ELSE now + RATE_LIMIT_DURATION)
        /\ IF fits
           THEN /\ sui_inbound_rate_limit' = Sui!consume(sui_inbound_rate_limit, a)
                /\ sui_outbox_rate_limit' = Sui!refill(sui_outbox_rate_limit, a)
           ELSE UNCHANGED <<sui_outbox_rate_limit, sui_inbound_rate_limit>>

\* The votes for a message after the vote of t.
SuiVotes(t, m) == Sui!inbox_item(m).votes \cup {sui_transceiver_id[t]}

\* Its inbox item after the vote, with a given status.
SuiVoted(t, m, status) == [votes |-> SuiVotes(t, m), release_status |-> status]

\* What redeem of Sui does to the inbox and to the limits.
SuiRedeems(t, m, status) ==
    /\ sui_inbox' = [x \in DOMAIN sui_inbox \cup {m} |->
                        IF x = m THEN SuiVoted(t, m, status) ELSE sui_inbox[x]]
    /\ \/ /\ status = Sui!inbox_item(m).release_status
          /\ UNCHANGED <<sui_outbox_rate_limit, sui_inbound_rate_limit>>
       \/ SuiApproves(m, SuiVotes(t, m), status)

\* redeem of Sui records a vote of a transceiver that delivered the message,
\* and approves the message or leaves its status.
LEMMA SuiRedeemed ==
  ASSUME IInv, NEW t \in Transceiver, NEW m, Sui!redeem(t, m)
  PROVE  /\ Announced(sol_outbox, m) /\ untrim(m.amount, sui_decimals) \in Nat
         /\ Sui!inbox_item(m) \in SuiItem
         /\ VotesOf(SuiVotes(t, m), sui_transceiver_id, m, sol_posted)
         /\ \E status \in ReleaseStatus : SuiRedeems(t, m, status)
  <1> DEFINE item == Sui!inbox_item(m)
             votes == SuiVotes(t, m)
  <1>1. RegistryInv /\ LimitInv /\ BoxTypeInv /\ FlowInv /\ now \in Int
    BY DEF IInv, LimitInv
  <1>2. <<t, m>> \in sol_posted /\ sui_transceiver_id[t] # -1
    BY DEF Sui!redeem, Sui!redeemable, Sui!registered, Sui!NoId
  <1>3. sui_transceiver_id[t] \in Nat
    BY <1>1, <1>2 DEF RegistryInv, Ids
  <1>4. Announced(sol_outbox, m) /\ untrim(m.amount, sui_decimals) \in Nat
    BY <1>1, <1>2, PostedMessage DEF Side, outboxAt, postedAt
  <1>5. Sui!NotApproved \in ReleaseStatus
    BY DEF Sui!NotApproved, ReleaseStatus
  <1>6. item \in SuiItem /\ VotesOf(item.votes, sui_transceiver_id, m, sol_posted)
    <2>1. CASE m \in DOMAIN sui_inbox
      <3>1. item = sui_inbox[m]
        BY <2>1 DEF Sui!inbox_item
      <3>2. VotesOf(sui_inbox[m].votes, sui_transceiver_id, m, sol_posted)
        BY <1>1, <2>1 DEF FlowInv, Side, inboxFrom, idsFrom, postedAt
      <3> QED
        BY <1>1, <2>1, <3>1, <3>2 DEF BoxTypeInv
    <2>2. CASE m \notin DOMAIN sui_inbox
      <3>1. item = [votes |-> {}, release_status |-> Sui!NotApproved]
        BY <2>2 DEF Sui!inbox_item
      <3> QED
        BY <1>5, <3>1 DEF SuiItem, VotesOf
    <2> QED
      BY <2>1, <2>2
  <1>7. VotesOf(votes, sui_transceiver_id, m, sol_posted)
    BY <1>2, <1>3, <1>6 DEF VotesOf, SuiVotes
  <1> DEFINE a == untrim(m.amount, sui_decimals)
             fits == Sui!consumable(sui_inbound_rate_limit, a)
             after == Sui!ReleaseAfter(IF fits THEN now ELSE now + RATE_LIMIT_DURATION)
             boxed(status) ==
                 [x \in DOMAIN sui_inbox \cup {m} |->
                     IF x = m THEN [votes |-> votes, release_status |-> status]
                     ELSE sui_inbox[x]]
  <1>8. /\ Sui!voted(t, m) = votes
        /\ Sui!approves(t, m)
             <=> ~(Cardinality(votes \cap sui_registry.enabled_bitmap) < sui_state.threshold)
        /\ Sui!untrim(m.amount, sui_decimals) = a
    <2> DEFINE on == votes \cap sui_registry.enabled_bitmap
    <2>1. sui_registry.enabled_bitmap \in SUBSET (0 .. BITS - 1) /\ sui_state.threshold \in Nat
      BY <1>1 DEF RegistryInv
    <2>2. Cardinality(on) \in Nat
      BY <2>1, BitmapFinite
    <2>3. Sui!voted(t, m) = votes
      BY DEF Sui!voted, SuiVotes
    <2>4. Sui!approves(t, m) <=> Cardinality(on) >= sui_state.threshold
      BY <2>3, SameCardinality DEF Sui!approves, Sui!count_enabled_votes
    <2> HIDE DEF on
    <2>5. Sui!approves(t, m) <=> ~(Cardinality(on) < sui_state.threshold)
      BY <2>1, <2>2, <2>4
    <2> QED
      BY <2>3, <2>5, SameAmounts DEF on
  <1>9. IF Cardinality(votes \cap sui_registry.enabled_bitmap) < sui_state.threshold
        THEN /\ sui_inbox' = boxed(item.release_status)
             /\ UNCHANGED <<sui_outbox_rate_limit, sui_inbound_rate_limit>>
        ELSE /\ item.release_status = Sui!NotApproved
             /\ sui_inbox' = boxed(after)
             /\ IF fits
                THEN /\ sui_inbound_rate_limit' = Sui!consume(sui_inbound_rate_limit, a)
                     /\ sui_outbox_rate_limit' = Sui!refill(sui_outbox_rate_limit, a)
                ELSE UNCHANGED <<sui_outbox_rate_limit, sui_inbound_rate_limit>>
    <2> HIDE DEF a, item, votes
    <2> QED
      BY <1>8, Zenon
         DEF Sui!redeem, Sui!redeemable, Sui!release_after_allowed, Sui!limitVars, item
  <1>10. item.release_status \in ReleaseStatus /\ after \in ReleaseStatus
    BY <1>1, <1>6, SolanaSuiAssumption DEF SuiItem, ReleaseStatus, Sui!ReleaseAfter
  <1>11. SuiRedeems(t, m, item.release_status) \/ SuiRedeems(t, m, after)
    BY <1>9 DEF SuiRedeems, SuiVoted, SuiApproves
  <1> QED
    BY <1>4, <1>6, <1>7, <1>10, <1>11

\* redeem of Sui votes for a transfer of Solana.
LEMMA SuiVote ==
  ASSUME IInv, NEW t \in Transceiver, NEW m, Sui!redeem(t, m), UNCHANGED solVars
  PROVE  SomeStep
  <1> DEFINE item == Sui!inbox_item(m)
             votes == SuiVotes(t, m)
             a == untrim(m.amount, sui_decimals)
  <1>1. /\ Announced(sol_outbox, m) /\ a \in Nat /\ item \in SuiItem
        /\ VotesOf(votes, sui_transceiver_id, m, sol_posted)
    BY SuiRedeemed
  <1>2. PICK status \in ReleaseStatus : SuiRedeems(t, m, status)
    BY SuiRedeemed
  <1> DEFINE i == SuiVoted(t, m, status)
  <1>3. /\ m \in DOMAIN sui_inbox => item = sui_inbox[m]
        /\ m \notin DOMAIN sui_inbox => item.release_status.status = "NotApproved"
    BY DEF Sui!inbox_item, Sui!NotApproved
  <1>4. i \in SuiItem /\ i.votes = votes /\ i.release_status = status
    BY <1>1, <1>2 DEF SuiItem, VotesOf, SuiVoted
  <1>5. \/ /\ status = item.release_status
           /\ UNCHANGED <<sui_outbox_rate_limit, sui_inbound_rate_limit>>
        \/ /\ item.release_status.status = "NotApproved" /\ status.status = "ReleaseAfter"
           /\ \/ UNCHANGED <<sui_outbox_rate_limit, sui_inbound_rate_limit>>
              \/ /\ sui_inbound_rate_limit' = Sui!consume(sui_inbound_rate_limit, a)
                 /\ sui_outbox_rate_limit' = Sui!refill(sui_outbox_rate_limit, a)
    BY <1>2 DEF SuiRedeems, SuiApproves, Sui!NotApproved, Sui!ReleaseAfter
  <1>6. sui_inbox' = [x \in DOMAIN sui_inbox \cup {m} |-> IF x = m THEN i ELSE sui_inbox[x]]
    BY <1>2 DEF SuiRedeems
  <1> HIDE DEF item, votes, a, i
  <1>7. UNCHANGED <<sui_state, sui_registry, sui_transceiver_id, sui_outbox, sui_coins,
                    sui_posted, sol_posted, now>>
    BY DEF Sui!redeem, Sui!registryVars, Sui!tokenVars
  <1>8. /\ sol_config' = sol_config /\ sol_transceiver_id' = sol_transceiver_id
        /\ sol_outbox' = sol_outbox /\ sol_inbox' = sol_inbox /\ sol_validated' = sol_validated
        /\ sol_outbox_rate_limit' = sol_outbox_rate_limit
        /\ sol_inbox_rate_limit' = sol_inbox_rate_limit
        /\ sol_balance' = sol_balance /\ sol_posted' = sol_posted
    BY DEF solVars
  <1>9. /\ RegistryInv /\ LimitInv /\ BoxTypeInv /\ FlowInv /\ now \in Int
        /\ sol_outbox_rate_limit \in RateLimit /\ sol_inbox_rate_limit \in RateLimit
        /\ sui_outbox_rate_limit \in RateLimit /\ sui_inbound_rate_limit \in RateLimit
    BY DEF IInv, LimitInv
  <1>10. SameRegistries
    BY <1>7, <1>8 DEF SameRegistries
  <1>11. LimitInv'
    <2>1. /\ Sui!consume(sui_inbound_rate_limit, a) \in RateLimit
          /\ Sui!refill(sui_outbox_rate_limit, a) \in RateLimit
      <3>1. a \in Int /\ now \in Int
        BY <1>1, <1>9
      <3> QED
        BY <1>9, <3>1, LimitTypes, SolanaSuiAssumption
    <2> QED
      BY <1>5, <1>7, <1>8, <1>9, <2>1 DEF LimitInv
  <1>12. BoxTypeInv'
    <2>1. \A n \in DOMAIN sui_inbox' : sui_inbox'[n] \in SuiItem
      BY <1>4, <1>6, <1>9 DEF BoxTypeInv
    <2> QED
      BY <1>7, <1>8, <1>9, <2>1 DEF BoxTypeInv
  <1>13. Held' = Held
    BY <1>7, <1>8 DEF Held
  <1>14. TypesKept
    BY <1>9, <1>10, <1>11, <1>12, RegistriesStay DEF TypesKept
  <1>15. /\ i.release_status \in ReleaseStatus
         /\ VotesOf(i.votes, sui_transceiver_id, m, sol_posted)
         /\ m \in DOMAIN sui_inbox =>
               \/ i.release_status.status = sui_inbox[m].release_status.status
               \/ /\ sui_inbox[m].release_status.status = "NotApproved"
                  /\ i.release_status.status = "ReleaseAfter"
         /\ m \notin DOMAIN sui_inbox =>
               i.release_status.status \in {"NotApproved", "ReleaseAfter"}
    BY <1>1, <1>2, <1>3, <1>4, <1>5
  <1>16. Vote("solana", m, i)
    BY <1>1, <1>6, <1>7, <1>8, <1>13, <1>15
       DEF Vote, outboxAt, postedAt, inboxFrom, idsFrom, OtherOutboxes, OtherPosts,
           OtherInboxes, Side
  <1> QED
    BY <1>14, <1>16 DEF SomeStep, Side

\* A step of Sui that moves no transfer.
LEMMA SuiAside ==
  ASSUME IInv, UNCHANGED solVars, UNCHANGED <<sui_outbox, sui_inbox, sui_coins, sui_posted, now>>,
         sui_state' \in [threshold : Nat, paused : BOOLEAN],
         sui_registry' \in [enabled_bitmap : SUBSET (0 .. BITS - 1), next_id : Nat],
         sui_transceiver_id' \in Ids,
         \A t \in Transceiver :
             sui_transceiver_id[t] \in Nat => sui_transceiver_id'[t] = sui_transceiver_id[t],
         sui_outbox_rate_limit' \in RateLimit, sui_inbound_rate_limit' \in RateLimit
  PROVE  SomeStep
  <1>1. /\ sol_config' = sol_config /\ sol_transceiver_id' = sol_transceiver_id
        /\ sol_outbox' = sol_outbox /\ sol_inbox' = sol_inbox /\ sol_validated' = sol_validated
        /\ sol_outbox_rate_limit' = sol_outbox_rate_limit
        /\ sol_inbox_rate_limit' = sol_inbox_rate_limit
        /\ sol_balance' = sol_balance /\ sol_posted' = sol_posted
    BY DEF solVars
  <1>2. RegistryInv' /\ LimitInv' /\ BoxTypeInv'
    BY <1>1 DEF IInv, RegistryInv, LimitInv, BoxTypeInv
  <1>3. \A c \in Side : \A t \in Transceiver :
          idsFrom(c)[t] \in Nat => idsFrom(c)'[t] = idsFrom(c)[t]
    BY <1>1 DEF idsFrom
  <1>4. Quiet
    BY <1>1 DEF Quiet, Side, outboxAt, postedAt, inboxFrom, Held
  <1> QED
    BY <1>2, <1>3, <1>4 DEF SomeStep, TypesKept

\* The registration of transceivers moves none.
LEMMA SuiRegistration ==
  ASSUME IInv, NEW t \in Transceiver, UNCHANGED solVars, Sui!register_transceiver(t)
  PROVE  SomeStep
  <1>1. /\ sui_state \in [threshold : Nat, paused : BOOLEAN]
        /\ sui_registry \in [enabled_bitmap : SUBSET (0 .. BITS - 1), next_id : Nat]
        /\ sui_transceiver_id \in Ids /\ now \in Int
        /\ sui_outbox_rate_limit \in RateLimit /\ sui_inbound_rate_limit \in RateLimit
    BY DEF IInv, RegistryInv, LimitInv
  <1>2. /\ sui_state.threshold \in Nat /\ sui_registry.next_id \in Nat
        /\ sui_registry.enabled_bitmap \in SUBSET (0 .. BITS - 1)
    BY <1>1
  <1> DEFINE id == sui_registry.next_id
             enabled == sui_registry.enabled_bitmap \cup {id}
             threshold == IF sui_state.threshold = 0 THEN 1 ELSE sui_state.threshold
  <1>3. threshold \in Nat
    BY <1>2
  <1>4. /\ id < BITS /\ sui_transceiver_id[t] = -1
        /\ sui_transceiver_id' = [sui_transceiver_id EXCEPT ![t] = id]
        /\ sui_registry' = [enabled_bitmap |-> enabled, next_id |-> id + 1]
        /\ sui_state' = [sui_state EXCEPT !.threshold = threshold]
        /\ UNCHANGED <<sui_outbox, sui_inbox, sui_outbox_rate_limit, sui_inbound_rate_limit,
                       sui_coins, sui_posted, now>>
    BY DEF Sui!register_transceiver, Sui!registered, Sui!NoId, Sui!limitVars, Sui!tokenVars
  <1>5. id \in 0 .. BITS - 1 /\ id + 1 \in Nat /\ id \in Nat
    BY <1>2, <1>4, SolanaSuiAssumption
  <1>6. enabled \in SUBSET (0 .. BITS - 1)
    BY <1>2, <1>5
  <1> HIDE DEF threshold, enabled, id
  <1>7. /\ sui_state' \in [threshold : Nat, paused : BOOLEAN]
        /\ sui_registry' \in [enabled_bitmap : SUBSET (0 .. BITS - 1), next_id : Nat]
    BY <1>1, <1>3, <1>4, <1>5, <1>6
  <1>8. sui_transceiver_id' \in Ids
    BY <1>1, <1>4, <1>5 DEF Ids
  <1>9. \A u \in Transceiver :
           sui_transceiver_id[u] \in Nat => sui_transceiver_id'[u] = sui_transceiver_id[u]
    BY <1>1, <1>4 DEF Ids
  <1> QED
    BY <1>1, <1>4, <1>7, <1>8, <1>9, SuiAside

\* Nor does the enabling of an id.
LEMMA SuiEnabling ==
  ASSUME IInv, NEW id \in 0 .. BITS - 1, UNCHANGED solVars,
         Sui!enable_transceiver(id) \/ Sui!disable_transceiver(id)
  PROVE  SomeStep
  <1>1. /\ sui_state \in [threshold : Nat, paused : BOOLEAN]
        /\ sui_registry \in [enabled_bitmap : SUBSET (0 .. BITS - 1), next_id : Nat]
        /\ sui_transceiver_id \in Ids /\ now \in Int
        /\ sui_outbox_rate_limit \in RateLimit /\ sui_inbound_rate_limit \in RateLimit
    BY DEF IInv, RegistryInv, LimitInv
  <1>2. /\ sui_state.threshold \in Nat /\ sui_registry.next_id \in Nat
        /\ sui_registry.enabled_bitmap \in SUBSET (0 .. BITS - 1)
    BY <1>1
  <1>3. CASE Sui!enable_transceiver(id)
    <2>1. sui_registry' \in [enabled_bitmap : SUBSET (0 .. BITS - 1), next_id : Nat]
      BY <1>1, <1>2, <1>3 DEF Sui!enable_transceiver
    <2> QED
      BY <1>1, <1>3, <2>1, SuiAside DEF Sui!enable_transceiver, Sui!limitVars, Sui!tokenVars
  <1>4. CASE Sui!disable_transceiver(id)
    <2> DEFINE left == sui_registry.enabled_bitmap \ {id}
               k == Sui!least(sui_state.threshold, Cardinality(left))
    <2>1. left \in SUBSET (0 .. BITS - 1)
      BY <1>2
    <2>2. Cardinality(left) \in Nat
      BY <2>1, BitmapFinite
    <2>3. k \in Nat
      BY <1>2, <2>2 DEF Sui!least
    <2>4. /\ sui_registry' = [sui_registry EXCEPT !.enabled_bitmap = left]
          /\ sui_state' = [sui_state EXCEPT !.threshold = k]
          /\ UNCHANGED <<sui_transceiver_id, sui_outbox, sui_inbox, sui_outbox_rate_limit,
                         sui_inbound_rate_limit, sui_coins, sui_posted, now>>
      BY <1>4, SameCardinality
         DEF Sui!disable_transceiver, Sui!threshold_after_disable, Sui!limitVars,
             Sui!tokenVars
    <2> HIDE DEF left, k
    <2>5. /\ sui_state' \in [threshold : Nat, paused : BOOLEAN]
          /\ sui_registry' \in [enabled_bitmap : SUBSET (0 .. BITS - 1), next_id : Nat]
      BY <1>1, <2>1, <2>3, <2>4
    <2> QED
      BY <1>1, <2>4, <2>5, SuiAside
  <1> QED
    BY <1>3, <1>4

\* Nor do the threshold and the pause.
LEMMA SuiSettings ==
  ASSUME IInv, NEW n \in Nat, NEW p \in BOOLEAN, UNCHANGED solVars,
         Sui!set_threshold(n) \/ Sui!set_paused(p)
  PROVE  SomeStep
  <1>1. /\ sui_state \in [threshold : Nat, paused : BOOLEAN]
        /\ sui_registry \in [enabled_bitmap : SUBSET (0 .. BITS - 1), next_id : Nat]
        /\ sui_transceiver_id \in Ids /\ now \in Int
        /\ sui_outbox_rate_limit \in RateLimit /\ sui_inbound_rate_limit \in RateLimit
    BY DEF IInv, RegistryInv, LimitInv
  <1>2. /\ sui_state.threshold \in Nat /\ sui_registry.next_id \in Nat
        /\ sui_registry.enabled_bitmap \in SUBSET (0 .. BITS - 1)
    BY <1>1
  <1>3. CASE Sui!set_threshold(n)
    <2>1. sui_state' \in [threshold : Nat, paused : BOOLEAN]
      BY <1>1, <1>3 DEF Sui!set_threshold
    <2> QED
      BY <1>1, <1>3, <2>1, SuiAside DEF Sui!set_threshold, Sui!limitVars, Sui!tokenVars
  <1>4. CASE Sui!set_paused(p)
    <2>1. sui_state' \in [threshold : Nat, paused : BOOLEAN]
      BY <1>1, <1>4 DEF Sui!set_paused
    <2> QED
      BY <1>1, <1>4, <2>1, SuiAside DEF Sui!set_paused, Sui!limitVars, Sui!tokenVars
  <1> QED
    BY <1>3, <1>4

\* Nor do the limits.
LEMMA SuiLimiting ==
  ASSUME IInv, NEW l \in SuiLimits, UNCHANGED solVars,
         Sui!set_outbound_rate_limit(l) \/ Sui!set_peer(l)
  PROVE  SomeStep
  <1>1. /\ sui_state \in [threshold : Nat, paused : BOOLEAN]
        /\ sui_registry \in [enabled_bitmap : SUBSET (0 .. BITS - 1), next_id : Nat]
        /\ sui_transceiver_id \in Ids /\ now \in Int
        /\ sui_outbox_rate_limit \in RateLimit /\ sui_inbound_rate_limit \in RateLimit
    BY DEF IInv, RegistryInv, LimitInv
  <1>2. /\ sui_state.threshold \in Nat /\ sui_registry.next_id \in Nat
        /\ sui_registry.enabled_bitmap \in SUBSET (0 .. BITS - 1)
    BY <1>1
  <1>3. l \in 0 .. U64_MAX
    BY SolanaSuiAssumption
  <1>4. /\ Sui!set_limit(sui_outbox_rate_limit, l) \in RateLimit
        /\ Sui!set_limit(sui_inbound_rate_limit, l) \in RateLimit
    BY <1>1, <1>3, LimitTypes
  <1>5. CASE Sui!set_outbound_rate_limit(l)
    BY <1>1, <1>4, <1>5, SuiAside
       DEF Sui!set_outbound_rate_limit, Sui!registryVars, Sui!tokenVars
  <1>6. CASE Sui!set_peer(l)
    BY <1>1, <1>4, <1>6, SuiAside DEF Sui!set_peer, Sui!registryVars, Sui!tokenVars
  <1> QED
    BY <1>5, <1>6

\* Every step of Sui has one of the forms.
LEMMA SuiStep ==
  ASSUME IInv, Sui!Next, UNCHANGED solVars
  PROVE  SomeStep
  <1>1. CASE \E a \in SuiAmount, q \in BOOLEAN : Sui!transfer(a, q)
    BY <1>1, SuiTransfer
  <1>2. CASE \E m \in DOMAIN sui_inbox : Sui!release(m)
    BY <1>2, SuiPay
  <1>3. ASSUME NEW t \in Transceiver, NEW k \in DOMAIN sui_outbox, Sui!release_outbound(t, k)
        PROVE  SomeStep
    BY <1>3, SuiRelease
  <1>4. ASSUME NEW t \in Transceiver, NEW x \in sol_posted, Sui!redeem(t, x[2])
        PROVE  SomeStep
    BY <1>4, SuiVote
  <1>5. ASSUME NEW t \in Transceiver, Sui!register_transceiver(t)
        PROVE  SomeStep
    BY <1>5, SuiRegistration
  <1>6. CASE \E id \in 0 .. BITS - 1 : Sui!enable_transceiver(id) \/ Sui!disable_transceiver(id)
    BY <1>6, SuiEnabling
  <1>7. CASE \E n \in 1 .. BITS : Sui!set_threshold(n)
    <2>1. PICK n \in 1 .. BITS : Sui!set_threshold(n)
      BY <1>7
    <2>2. n \in Nat
      BY SolanaSuiAssumption
    <2> QED
      BY <2>1, <2>2, SuiSettings
  <1>8. CASE \E paused \in BOOLEAN : Sui!set_paused(paused)
    <2>1. PICK paused \in BOOLEAN : Sui!set_paused(paused)
      BY <1>8
    <2>2. 0 \in Nat
      OBVIOUS
    <2> QED
      BY <2>1, <2>2, SuiSettings, Zenon
  <1>9. CASE \E l \in SuiLimits : Sui!set_outbound_rate_limit(l) \/ Sui!set_peer(l)
    BY <1>9, SuiLimiting
  <1> QED
    BY <1>1, <1>2, <1>3, <1>4, <1>5, <1>6, <1>7, <1>8, <1>9, Zenon DEF Sui!Next

-----------------------------------------------------------------------------
(* The inductive invariant and the theorems.                               *)

\* Every step has one of the forms.
LEMMA Steps ==
  ASSUME IInv, [Next]_vars
  PROVE  SomeStep
  <1>1. CASE Solana!Next /\ UNCHANGED suiVars
    BY <1>1, SolanaStep
  <1>2. CASE Sui!Next /\ UNCHANGED solVars
    BY <1>2, SuiStep
  <1>3. ASSUME UNCHANGED <<solVars, suiVars>>, now' \in Int
        PROVE  SomeStep
    <2>1. /\ sui_state' = sui_state /\ sui_registry' = sui_registry
          /\ sui_transceiver_id' = sui_transceiver_id /\ sui_outbox' = sui_outbox
          /\ sui_inbox' = sui_inbox /\ sui_outbox_rate_limit' = sui_outbox_rate_limit
          /\ sui_inbound_rate_limit' = sui_inbound_rate_limit /\ sui_coins' = sui_coins
          /\ sui_posted' = sui_posted
      BY <1>3 DEF suiVars
    <2>2. /\ sol_config' = sol_config /\ sol_transceiver_id' = sol_transceiver_id
          /\ sol_outbox' = sol_outbox /\ sol_inbox' = sol_inbox /\ sol_validated' = sol_validated
          /\ sol_outbox_rate_limit' = sol_outbox_rate_limit
          /\ sol_inbox_rate_limit' = sol_inbox_rate_limit
          /\ sol_balance' = sol_balance /\ sol_posted' = sol_posted
      BY <1>3 DEF solVars
    <2>3. RegistryInv' /\ LimitInv' /\ BoxTypeInv'
      BY <1>3, <2>1, <2>2 DEF IInv, RegistryInv, LimitInv, BoxTypeInv
    <2>4. \A c \in Side : \A t \in Transceiver :
            idsFrom(c)[t] \in Nat => idsFrom(c)'[t] = idsFrom(c)[t]
      BY <2>1, <2>2 DEF idsFrom
    <2>5. Quiet
      BY <2>1, <2>2 DEF Quiet, Side, outboxAt, postedAt, inboxFrom, Held
    <2> QED
      BY <2>3, <2>4, <2>5 DEF SomeStep, TypesKept
  <1>4. now \in Int
    BY DEF IInv, LimitInv
  <1>5. CASE tick
    BY <1>3, <1>4, <1>5 DEF tick
  <1>6. CASE UNCHANGED vars
    BY <1>3, <1>4, <1>6 DEF vars
  <1> QED
    BY <1>1, <1>2, <1>5, <1>6 DEF Next

\* Every step keeps the inductive invariant.
LEMMA IInvStep ==
  ASSUME IInv, [Next]_vars
  PROVE  IInv' /\ SomeStep
  <1>1. SomeStep
    BY Steps
  <1>2. FlowInv'
    BY <1>1, FlowStep DEF IInv
  <1> QED
    BY <1>1, <1>2 DEF SomeStep, TypesKept, IInv

\* The inductive invariant holds at the start.
LEMMA IInvInit == Init => IInv
  <1> SUFFICES ASSUME Init PROVE IInv
    OBVIOUS
  <1> USE DEF Init, Solana!Init, Sui!Init
  <1>1. RegistryInv
    BY DEF RegistryInv, SolanaConfig, Ids, Solana!NoId, Sui!NoId
  <1>2. LimitInv
    <2>1. U64_MAX \in Nat /\ SolanaLimit \in 0 .. U64_MAX /\ SuiLimit \in 0 .. U64_MAX
          /\ U64_MAX \in 0 .. U64_MAX
      BY SolanaSuiAssumption, U64MaxAssumption
    <2> QED
      BY <2>1 DEF LimitInv, RateLimit, Solana!new_rate_limit, Sui!new_rate_limit
  <1>3. BoxTypeInv
    BY SolanaSuiAssumption DEF BoxTypeInv
  <1>4. FlowInv
    <2> SUFFICES ASSUME NEW c \in Side
                 PROVE  /\ outboxAt(c) \in Seq(OutboxItem) /\ Len(outboxAt(c)) <= itemsAt(c)
                        /\ \A k \in DOMAIN outboxAt(c) : Whole(outboxAt(c)[k].amount)
                        /\ \A x \in postedAt(c) : Announced(outboxAt(c), x[2])
                        /\ \A m \in DOMAIN inboxFrom(c) :
                              /\ Announced(outboxAt(c), m)
                              /\ inboxFrom(c)[m].release_status \in ReleaseStatus
                              /\ VotesOf(inboxFrom(c)[m].votes, idsFrom(c), m, postedAt(c))
      BY DEF FlowInv
    <2>1. outboxAt(c) = << >> /\ postedAt(c) = {} /\ inboxFrom(c) = << >>
      BY DEF outboxAt, postedAt, inboxFrom
    <2>2. itemsAt(c) \in Nat
      BY ItemsNat
    <2> QED
      BY <2>1, <2>2
  <1> QED
    BY <1>1, <1>2, <1>3, <1>4 DEF IInv

\* No transfer has started, and what is held is a number.
LEMMA BridgeInit == Init => Abstract!Init
  <1> SUFFICES ASSUME Init PROVE Abstract!Init
    OBVIOUS
  <1>1. FlowInv /\ BoxTypeInv
    BY IInvInit DEF IInv
  <1>2. /\ sol_outbox = << >> /\ sui_outbox = << >> /\ sol_inbox = << >> /\ sui_inbox = << >>
    BY DEF Init, Solana!Init, Sui!Init
  <1>3. ASSUME NEW x \in Transfer
        PROVE  phaseOf(x) = "none" /\ inFlightOf(x) = 0
    <2>1. x[1] \in Side /\ phaseOf(x) = view(x[1], x[2]) /\ inFlightOf(x) = worth(x[1], x[2])
      BY ViewOf
    <2>2. outboxAt(x[1]) = << >>
      BY <1>2 DEF outboxAt
    <2>3. statuses(x[1], x[2]) = {}
      BY <1>1, <2>1, <2>2, NoStatus
    <2>4. view(x[1], x[2]) = "none"
      BY <2>2, <2>3 DEF view
    <2> QED
      BY <2>1, <2>4 DEF worth
  <1>4. Held \in Nat
    BY <1>1, HeldNat
  <1> QED
    BY <1>3, <1>4 DEF Abstract!Init

\* INV-001, INV-002, INV-005: the Solana program and the Sui packages implement
\* the bridge.  However the transceivers deliver, whatever is registered, disabled,
\* paused or limited meanwhile, each transfer takes the value of its trimmed amount
\* once and pays exactly that value once.
THEOREM BridgeRefined == Spec => ImplementsBridge
  <1>1. Init => IInv /\ Abstract!Init
    BY IInvInit, BridgeInit
  <1>2. IInv /\ [Next]_vars => IInv' /\ [Abstract!Next]_(Abstract!vars)
    <2> SUFFICES ASSUME IInv, [Next]_vars PROVE IInv' /\ [Abstract!Next]_(Abstract!vars)
      OBVIOUS
    <2>1. IInv' /\ SomeStep
      BY IInvStep
    <2> QED
      BY <2>1, BridgeStep DEF IInv
  <1> QED
    BY <1>1, <1>2, PTL DEF Spec, ImplementsBridge, Abstract!Spec

-----------------------------------------------------------------------------
(* The quorum.                                                             *)

\* Each counted vote is that of a transceiver that delivered the message.
LEMMA VotersDelivered ==
  ASSUME NEW votes, NEW ids, NEW m, NEW posted, VotesOf(votes, ids, m, posted), NEW on,
         NEW D, D = {t \in Transceiver : ids[t] \in on /\ <<t, m>> \in posted}
  PROVE  Cardinality(votes \cap on) <= Cardinality(D) /\ Cardinality(D) \in Nat
         /\ Cardinality(votes \cap on) \in Nat
  <1> DEFINE S == votes \cap on
             T == {ids[t] : t \in D}
             f == [t \in D |-> ids[t]]
  <1>1. D \in SUBSET Transceiver /\ IsFiniteSet(Transceiver)
    BY SolanaSuiAssumption
  <1>2. IsFiniteSet(D) /\ Cardinality(D) \in Nat
    BY <1>1, FS_Subset, FS_CardinalityType
  <1>3. f \in Surjection(D, T)
    BY DEF Surjection
  <1>4. S \in SUBSET T
    BY DEF VotesOf
  <1> HIDE DEF S, T, f
  <1>5. IsFiniteSet(T) /\ Cardinality(T) <= Cardinality(D)
    BY <1>2, <1>3, FS_Surjection
  <1>6. IsFiniteSet(S) /\ Cardinality(S) <= Cardinality(T)
    BY <1>4, <1>5, FS_Subset
  <1>7. Cardinality(S) \in Nat /\ Cardinality(T) \in Nat
    BY <1>5, <1>6, FS_CardinalityType
  <1>8. Cardinality(S) <= Cardinality(D)
    BY <1>2, <1>5, <1>6, <1>7
  <1> QED
    BY <1>2, <1>7, <1>8 DEF S

\* What a step does to the boxes of Solana.
LEMMA SolanaBoxes ==
  ASSUME [Next]_vars
  PROVE  \/ sol_inbox' = sol_inbox /\ sol_outbox' = sol_outbox
         \/ \E r \in SolanaAmount, q \in BOOLEAN : Solana!transfer(r, q)
         \/ \E t \in Transceiver : \E k \in DOMAIN sol_outbox : Solana!release_outbound(t, k)
         \/ \E m \in DOMAIN sol_inbox : Solana!release_inbound(m)
         \/ \E t \in Transceiver : \E m : Solana!redeem(t, m)
  <1>1. CASE UNCHANGED solVars
    BY <1>1 DEF solVars
  <1>2. CASE Solana!Next
    <2>1. \A t, m : Solana!receive_message(t, m) \/ Solana!register_transceiver(t)
                      \/ Solana!deregister_transceiver(t)
            => sol_inbox' = sol_inbox /\ sol_outbox' = sol_outbox
      BY 
         DEF Solana!receive_message, Solana!register_transceiver,
             Solana!deregister_transceiver
    <2>2. \A n : Solana!set_threshold(n) \/ Solana!set_paused(n) \/ Solana!set_outbound_limit(n)
                   \/ Solana!set_inbound_limit(n) \/ Solana!set_peer(n)
            => sol_inbox' = sol_inbox /\ sol_outbox' = sol_outbox
      BY DEF Solana!set_threshold, Solana!set_paused, Solana!set_outbound_limit,
             Solana!set_inbound_limit, Solana!set_peer
    <2> QED
      BY <1>2, <2>1, <2>2, Zenon DEF Solana!Next
  <1> QED
    BY <1>1, <1>2 DEF Next, tick, vars

\* What redeem of Solana approves, it approves with the votes that are enabled.
LEMMA SolanaApproval ==
  ASSUME IInv, NEW t \in Transceiver, NEW m, Solana!redeem(t, m),
         NEW n \in Solana!Approved(sol_inbox') \ Solana!Approved(sol_inbox)
  PROVE  /\ n = m
         /\ \E status : /\ sol_inbox'[n].release_status = status
                        /\ sol_inbox'[n].amount = untrim(m.amount, solana_decimals)
                        /\ SolanaApproves(m, SolanaVotes(t, m), status)
  <1>1. PICK status \in ReleaseStatus : SolanaRedeems(t, m, status)
    BY SolanaRedeemed
  <1>2. /\ Solana!inbox_item(m) \in SolanaItem
        /\ Solana!inbox_item(m).amount = untrim(m.amount, solana_decimals)
        /\ SolanaVotes(t, m) \in SUBSET Nat
    BY SolanaRedeemed DEF VotesOf
  <1>3. /\ DOMAIN sol_inbox' = DOMAIN sol_inbox \cup {m}
        /\ sol_inbox'[m] = SolanaVoted(t, m, status)
        /\ \A x \in DOMAIN sol_inbox \ {m} : sol_inbox'[x] = sol_inbox[x]
    BY <1>1 DEF SolanaRedeems
  <1>4. n = m
    BY <1>3 DEF Solana!Approved
  <1>5. /\ sol_inbox'[n].release_status = status
        /\ sol_inbox'[n].amount = untrim(m.amount, solana_decimals)
    BY <1>2, <1>3, <1>4 DEF SolanaVoted, SolanaItem
  <1>6. status # Solana!NotApproved
    BY <1>5 DEF Solana!Approved
  <1>7. Solana!inbox_item(m).release_status = Solana!NotApproved
    BY <1>4 DEF Solana!inbox_item, Solana!Approved
  <1>8. SolanaApproves(m, SolanaVotes(t, m), status)
    BY <1>1, <1>6, <1>7 DEF SolanaRedeems
  <1> QED
    BY <1>4, <1>5, <1>8

\* A step that pays, or leaves the inbox alone, approves nothing.
LEMMA SolanaNoApproval ==
  ASSUME \/ sol_inbox' = sol_inbox
         \/ \E m \in DOMAIN sol_inbox : Solana!release_inbound(m)
  PROVE  Solana!Approved(sol_inbox') \ Solana!Approved(sol_inbox) = {}
  <1>1. CASE sol_inbox' = sol_inbox
    BY <1>1
  <1>2. ASSUME NEW m \in DOMAIN sol_inbox, Solana!release_inbound(m)
        PROVE  Solana!Approved(sol_inbox') \ Solana!Approved(sol_inbox) = {}
    <2>1. /\ sol_inbox[m].release_status.status = "ReleaseAfter"
          /\ sol_inbox' = [sol_inbox EXCEPT ![m].release_status = Solana!Released]
      BY <1>2 DEF Solana!release_inbound, Solana!releasable, Solana!due
    <2>2. sol_inbox[m].release_status # Solana!NotApproved
      BY <2>1 DEF Solana!NotApproved
    <2> QED
      BY <2>1, <2>2 DEF Solana!Approved
  <1> QED
    BY <1>1, <1>2

\* INV-012 on Solana: redeem approves a message only when at least threshold
\* transceivers that are enabled at that moment have delivered it, whatever was
\* registered, disabled or registered again since the first vote.
THEOREM SolanaQuorumHolds == Spec => SolanaQuorum
  <1>1. IInv /\ [Next]_vars => [Solana!ApprovedWithQuorum]_vars
    <2> SUFFICES ASSUME IInv, [Next]_vars,
                        NEW m \in Solana!Approved(sol_inbox') \ Solana!Approved(sol_inbox)
                 PROVE  Solana!Cardinality({t \in Transceiver :
                            Solana!enabled(t) /\ <<t, m>> \in sui_posted}) >= sol_config.threshold
      BY DEF Solana!ApprovedWithQuorum
    <2>1. PICK t \in Transceiver : \E n : Solana!redeem(t, n)
      <3>1. ~(\/ sol_inbox' = sol_inbox
              \/ \E n \in DOMAIN sol_inbox : Solana!release_inbound(n))
        BY SolanaNoApproval
      <3>2. \A r, q : Solana!transfer(r, q) => sol_inbox' = sol_inbox
        BY DEF Solana!transfer
      <3>3. \A u, k : Solana!release_outbound(u, k) => sol_inbox' = sol_inbox
        BY DEF Solana!release_outbound
      <3> QED
        BY <3>1, <3>2, <3>3, SolanaBoxes, Zenon
    <2>2. PICK n : Solana!redeem(t, n)
      BY <2>1
    <2>3. n = m /\ \E status : SolanaApproves(n, SolanaVotes(t, n), status)
      BY <2>2, SolanaApproval
    <2> DEFINE votes == SolanaVotes(t, m)
               on == sol_config.enabled_transceivers
               D == {u \in Transceiver : sol_transceiver_id[u] \in on /\ <<u, m>> \in sui_posted}
    <2>4. ~(Cardinality(votes \cap on) < sol_config.threshold)
      BY <2>3 DEF SolanaApproves
    <2>5. VotesOf(votes, sol_transceiver_id, m, sui_posted)
      BY <2>2, <2>3, SolanaRedeemed
    <2>6. sol_config.threshold \in Nat
      BY DEF IInv, RegistryInv, SolanaConfig
    <2>7. {u \in Transceiver : Solana!enabled(u) /\ <<u, m>> \in sui_posted} = D
      BY DEF Solana!enabled
    <2> HIDE DEF votes, on
    <2>8. /\ Cardinality(votes \cap on) <= Cardinality(D) /\ Cardinality(D) \in Nat
          /\ Cardinality(votes \cap on) \in Nat
      BY <2>5, VotersDelivered
    <2> HIDE DEF D
    <2>9. Cardinality(D) >= sol_config.threshold
      BY <2>4, <2>6, <2>8
    <2> QED
      BY <2>7, <2>9, SameCardinality
  <1>2. IInv /\ [Next]_vars => IInv'
    BY IInvStep
  <1> QED
    BY <1>1, <1>2, IInvInit, PTL DEF Spec, SolanaQuorum

\* The same for Sui.
LEMMA SuiBoxes ==
  ASSUME [Next]_vars
  PROVE  \/ sui_inbox' = sui_inbox
         \/ \E m \in DOMAIN sui_inbox : Sui!release(m)
         \/ \E t \in Transceiver : \E m : Sui!redeem(t, m)
  <1>1. CASE UNCHANGED suiVars
    BY <1>1 DEF suiVars
  <1>2. CASE Sui!Next
    <2>1. \A x, y : Sui!transfer(x, y) \/ Sui!release_outbound(x, y) \/ Sui!register_transceiver(x)
            => sui_inbox' = sui_inbox
      BY DEF Sui!transfer, Sui!release_outbound, Sui!register_transceiver
    <2>2. \A n : Sui!enable_transceiver(n) \/ Sui!disable_transceiver(n) \/ Sui!set_threshold(n)
                   \/ Sui!set_paused(n) \/ Sui!set_outbound_rate_limit(n) \/ Sui!set_peer(n)
            => sui_inbox' = sui_inbox
      BY 
         DEF Sui!enable_transceiver, Sui!disable_transceiver, Sui!set_threshold,
             Sui!set_paused, Sui!set_outbound_rate_limit, Sui!set_peer
    <2> QED
      BY <1>2, <2>1, <2>2, Zenon DEF Sui!Next
  <1> QED
    BY <1>1, <1>2 DEF Next, tick, vars

\* What redeem of Sui approves, it approves with the votes that are enabled.
LEMMA SuiApproval ==
  ASSUME IInv, NEW t \in Transceiver, NEW m, Sui!redeem(t, m),
         NEW n \in Sui!Approved(sui_inbox') \ Sui!Approved(sui_inbox)
  PROVE  n = m /\ \E status : SuiApproves(m, SuiVotes(t, m), status)
  <1>1. PICK status \in ReleaseStatus : SuiRedeems(t, m, status)
    BY SuiRedeemed
  <1>2. /\ DOMAIN sui_inbox' = DOMAIN sui_inbox \cup {m}
        /\ sui_inbox'[m] = SuiVoted(t, m, status)
        /\ \A x \in DOMAIN sui_inbox \ {m} : sui_inbox'[x] = sui_inbox[x]
    BY <1>1 DEF SuiRedeems
  <1>3. n = m
    BY <1>2 DEF Sui!Approved
  <1>4. sui_inbox'[n].release_status = status
    BY <1>2, <1>3 DEF SuiVoted
  <1>5. status # Sui!NotApproved
    BY <1>4 DEF Sui!Approved
  <1>6. Sui!inbox_item(m).release_status = Sui!NotApproved
    BY <1>3 DEF Sui!inbox_item, Sui!Approved
  <1>7. SuiApproves(m, SuiVotes(t, m), status)
    BY <1>1, <1>5, <1>6 DEF SuiRedeems
  <1> QED
    BY <1>3, <1>7

\* A step of Sui that pays, or leaves the inbox alone, approves nothing.
LEMMA SuiNoApproval ==
  ASSUME \/ sui_inbox' = sui_inbox
         \/ \E m \in DOMAIN sui_inbox : Sui!release(m)
  PROVE  Sui!Approved(sui_inbox') \ Sui!Approved(sui_inbox) = {}
  <1>1. CASE sui_inbox' = sui_inbox
    BY <1>1
  <1>2. ASSUME NEW m \in DOMAIN sui_inbox, Sui!release(m)
        PROVE  Sui!Approved(sui_inbox') \ Sui!Approved(sui_inbox) = {}
    <2>1. /\ sui_inbox[m].release_status.status = "ReleaseAfter"
          /\ sui_inbox' = [sui_inbox EXCEPT ![m].release_status = Sui!Released]
      BY <1>2 DEF Sui!release, Sui!releasable, Sui!due
    <2>2. sui_inbox[m].release_status # Sui!NotApproved
      BY <2>1 DEF Sui!NotApproved
    <2> QED
      BY <2>1, <2>2 DEF Sui!Approved
  <1> QED
    BY <1>1, <1>2

\* INV-012 on Sui, for the threshold it has: redeem approves a message only when
\* at least threshold transceivers enabled at that moment have delivered it.  The
\* threshold may be zero: see SuiApprovedByEnabled.
THEOREM SuiQuorumHolds == Spec => SuiQuorum
  <1>1. IInv /\ [Next]_vars => [Sui!ApprovedWithQuorum]_vars
    <2> SUFFICES ASSUME IInv, [Next]_vars,
                        NEW m \in Sui!Approved(sui_inbox') \ Sui!Approved(sui_inbox)
                 PROVE  Sui!Cardinality(Sui!Attesters(m)) >= sui_state.threshold
      BY DEF Sui!ApprovedWithQuorum
    <2>1. PICK t \in Transceiver : \E n : Sui!redeem(t, n)
      <3>1. ~(\/ sui_inbox' = sui_inbox
              \/ \E n \in DOMAIN sui_inbox : Sui!release(n))
        BY SuiNoApproval
      <3> QED
        BY <3>1, SuiBoxes, Zenon
    <2>2. PICK n : Sui!redeem(t, n)
      BY <2>1
    <2>3. n = m /\ \E status : SuiApproves(n, SuiVotes(t, n), status)
      BY <2>2, SuiApproval
    <2> DEFINE votes == SuiVotes(t, m)
               on == sui_registry.enabled_bitmap
               D == {u \in Transceiver : sui_transceiver_id[u] \in on /\ <<u, m>> \in sol_posted}
    <2>4. ~(Cardinality(votes \cap on) < sui_state.threshold)
      BY <2>3 DEF SuiApproves
    <2>5. VotesOf(votes, sui_transceiver_id, m, sol_posted)
      BY <2>2, <2>3, SuiRedeemed
    <2>6. sui_state.threshold \in Nat
      BY DEF IInv, RegistryInv
    <2>7. Sui!Attesters(m) = D
      BY DEF Sui!Attesters
    <2> HIDE DEF votes, on
    <2>8. /\ Cardinality(votes \cap on) <= Cardinality(D) /\ Cardinality(D) \in Nat
          /\ Cardinality(votes \cap on) \in Nat
      BY <2>5, VotersDelivered
    <2> HIDE DEF D
    <2>9. Cardinality(D) >= sui_state.threshold
      BY <2>4, <2>6, <2>8
    <2> QED
      BY <2>7, <2>9, SameCardinality
  <1>2. IInv /\ [Next]_vars => IInv'
    BY IInvStep
  <1> QED
    BY <1>1, <1>2, IInvInit, PTL DEF Spec, SuiQuorum

-----------------------------------------------------------------------------
(* The backflow on Solana.                                                 *)

\* A refill adds the amount to the capacity, up to the limit.
LEMMA RefillAdds ==
  ASSUME now \in Int, NEW rl \in RateLimit, NEW a \in Int, NEW rl1, rl1 = Solana!refill(rl, a)
  PROVE  Solana!capacity_at(rl1, now)
           = Solana!least(Solana!capacity_at(rl, now) + a, rl.limit)
  <1> DEFINE s == Solana!capacity_at(rl, now)
             x == Solana!least(Solana!least(s + a, U64_MAX), rl.limit)
  <1>1. U64_MAX \in Nat /\ RATE_LIMIT_DURATION \in Nat \ {0}
    BY SolanaSuiAssumption, U64MaxAssumption
  <1>2. /\ rl.limit \in 0 .. U64_MAX /\ rl.limit \in Int /\ rl.limit <= U64_MAX
        /\ rl.capacity_at_last_tx \in Int /\ rl.last_tx_timestamp \in Int
    BY <1>1 DEF RateLimit
  <1>3. s \in Int
    <2> DEFINE gone == (now - rl.last_tx_timestamp) * rl.limit
    <2>1. now - rl.last_tx_timestamp \in Int
      BY <1>2
    <2>2. gone \in Int
      BY <1>2, <2>1
    <2>3. s = Solana!least(rl.capacity_at_last_tx + gone \div RATE_LIMIT_DURATION, rl.limit)
      BY DEF Solana!capacity_at
    <2> HIDE DEF gone
    <2>4. gone \div RATE_LIMIT_DURATION \in Int
      BY <1>1, <2>2
    <2> QED
      BY <1>2, <2>3, <2>4 DEF Solana!least
  <1>4. x = Solana!least(s + a, rl.limit) /\ x \in Int /\ x <= rl.limit
    BY <1>1, <1>2, <1>3 DEF Solana!least
  <1>5. rl1.limit = rl.limit /\ rl1.capacity_at_last_tx = x /\ rl1.last_tx_timestamp = now
    BY DEF Solana!refill, RateLimit
  <1> HIDE DEF s, x
  <1>6. Solana!capacity_at(rl1, now)
          = Solana!least(x + ((now - now) * rl.limit) \div RATE_LIMIT_DURATION, rl.limit)
    BY <1>5 DEF Solana!capacity_at
  <1>7. (now - now) * rl.limit = 0
    BY <1>2
  <1>8. 0 \div RATE_LIMIT_DURATION = 0
    BY <1>1
  <1>9. Solana!capacity_at(rl1, now) = Solana!least(x + 0, rl.limit)
    BY <1>6, <1>7, <1>8
  <1>10. Solana!least(x + 0, rl.limit) = x
    BY <1>2, <1>4 DEF Solana!least
  <1> QED
    BY <1>4, <1>9, <1>10 DEF s

\* A transfer that is not delayed refills the inbound limit with its amount.
LEMMA TransferRefills ==
  ASSUME IInv, NEW r \in SolanaAmount, NEW q \in BOOLEAN, Solana!transfer(r, q),
         sol_outbox'[Len(sol_outbox')].release_timestamp = now
  PROVE  Solana!capacity_at(sol_inbox_rate_limit', now)
           = Solana!least(Solana!capacity_at(sol_inbox_rate_limit, now)
                            + (sol_balance - sol_balance'), sol_inbox_rate_limit.limit)
  <1> DEFINE T == trim(r, solana_decimals, sui_decimals)
             a == untrim(T, solana_decimals)
             fits == Solana!consumable(sol_outbox_rate_limit, a)
             item == [amount |-> T,
                      release_timestamp |-> IF fits THEN now ELSE now + RATE_LIMIT_DURATION,
                      released |-> {}]
  <1>1. T \in Trimmed /\ Whole(T)
    BY TrimWhole, SolanaSuiAssumption
  <1>2. a \in Nat
    BY <1>1, UnitFact, WorthOfUntrim DEF Whole
  <1>3. Solana!remove_dust(r) = a
    BY SameAmounts DEF Solana!remove_dust
  <1> HIDE DEF T, a
  <1>4. /\ sol_balance' = sol_balance - a /\ sol_outbox' = Append(sol_outbox, item)
        /\ fits => sol_inbox_rate_limit' = Solana!refill(sol_inbox_rate_limit, a)
    BY <1>3, SameAmounts DEF Solana!transfer, T
  <1> HIDE DEF fits
  <1>5. /\ now \in Int /\ sol_inbox_rate_limit \in RateLimit /\ sol_balance \in Nat
        /\ sol_outbox \in Seq(OutboxItem)
    BY DEF IInv, LimitInv, BoxTypeInv, FlowInv, Side, outboxAt
  <1>6. sol_outbox'[Len(sol_outbox')] = item
    BY <1>4, <1>5
  <1>7. fits
    <2>1. RATE_LIMIT_DURATION \in Nat \ {0}
      BY SolanaSuiAssumption
    <2>2. item.release_timestamp = now
      BY <1>6
    <2>3. ~fits => now + RATE_LIMIT_DURATION = now
      BY <2>2
    <2>4. now + RATE_LIMIT_DURATION # now
      BY <1>5, <2>1
    <2> QED
      BY <2>3, <2>4
  <1>8. a \in Int /\ sol_balance - sol_balance' = a
    BY <1>2, <1>4, <1>5
  <1> QED
    BY <1>4, <1>5, <1>7, <1>8, RefillAdds

\* So does an approval that is not delayed for the outbound limit.
LEMMA ApprovalRefills ==
  ASSUME IInv, NEW t \in Transceiver, NEW m, Solana!redeem(t, m),
         NEW n \in Solana!Approved(sol_inbox') \ Solana!Approved(sol_inbox),
         sol_inbox'[n].release_status = Solana!ReleaseAfter(now)
  PROVE  Solana!capacity_at(sol_outbox_rate_limit', now)
           = Solana!least(Solana!capacity_at(sol_outbox_rate_limit, now)
                            + sol_inbox'[n].amount, sol_outbox_rate_limit.limit)
  <1> DEFINE a == untrim(m.amount, solana_decimals)
             fits == Solana!consumable(sol_inbox_rate_limit, a)
             at == IF fits THEN now ELSE now + RATE_LIMIT_DURATION
  <1>1. PICK status : /\ sol_inbox'[n].release_status = status
                      /\ sol_inbox'[n].amount = a
                      /\ SolanaApproves(m, SolanaVotes(t, m), status)
    BY SolanaApproval
  <1>2. /\ status = Solana!ReleaseAfter(at)
        /\ fits => sol_outbox_rate_limit' = Solana!refill(sol_outbox_rate_limit, a)
    BY <1>1 DEF SolanaApproves
  <1>3. a \in Nat
    BY SolanaRedeemed
  <1>4. now \in Int /\ sol_outbox_rate_limit \in RateLimit
    BY DEF IInv, LimitInv
  <1> HIDE DEF a, fits
  <1>5. at = now
    BY <1>1, <1>2 DEF Solana!ReleaseAfter
  <1>6. fits
    <2>1. RATE_LIMIT_DURATION \in Nat \ {0}
      BY SolanaSuiAssumption
    <2>2. now + RATE_LIMIT_DURATION # now
      BY <1>4, <2>1
    <2> QED
      BY <1>5, <2>2
  <1>7. a \in Int
    BY <1>3
  <1> QED
    BY <1>1, <1>2, <1>4, <1>6, <1>7, RefillAdds

\* INV-011 on Solana: a transfer or an approval that is not delayed gives exactly
\* its amount back to the limit of the other direction, at most up to that limit;
\* the time that has passed is never credited twice.
THEOREM SolanaRefillsHold == Spec => SolanaRefills
  <1>1. IInv /\ [Next]_vars => [Solana!RefillsByTheAmount]_vars
    <2> SUFFICES ASSUME IInv, [Next]_vars PROVE Solana!RefillsByTheAmount
      OBVIOUS
    <2>1. sol_outbox \in Seq(OutboxItem)
      BY DEF IInv, FlowInv, Side, outboxAt
    <2>2. ASSUME Len(sol_outbox') > Len(sol_outbox),
                 sol_outbox'[Len(sol_outbox')].release_timestamp = now
          PROVE  Solana!capacity_at(sol_inbox_rate_limit', now)
                   = Solana!least(Solana!capacity_at(sol_inbox_rate_limit, now)
                                    + (sol_balance - sol_balance'), sol_inbox_rate_limit.limit)
      <3>1. sol_outbox' # sol_outbox
        BY <2>1, <2>2
      <3>2. \A u : \A k \in DOMAIN sol_outbox :
               Solana!release_outbound(u, k) => Len(sol_outbox') = Len(sol_outbox)
        BY <2>1 DEF Solana!release_outbound
      <3>3. \A u, k : ~(k \in DOMAIN sol_outbox /\ Solana!release_outbound(u, k))
        BY <2>1, <2>2, <3>2
      <3>4. \A n : Solana!release_inbound(n) => sol_outbox' = sol_outbox
        BY DEF Solana!release_inbound
      <3>5. \A u, n : Solana!redeem(u, n) => sol_outbox' = sol_outbox
        BY DEF Solana!redeem
      <3>6. \E r \in SolanaAmount, q \in BOOLEAN : Solana!transfer(r, q)
        BY <3>1, <3>3, <3>4, <3>5, SolanaBoxes, Zenon
      <3> QED
        BY <2>2, <3>6, TransferRefills
    <2>3. ASSUME NEW m \in Solana!Approved(sol_inbox') \ Solana!Approved(sol_inbox),
                 sol_inbox'[m].release_status = Solana!ReleaseAfter(now)
          PROVE  Solana!capacity_at(sol_outbox_rate_limit', now)
                   = Solana!least(Solana!capacity_at(sol_outbox_rate_limit, now)
                                    + sol_inbox'[m].amount, sol_outbox_rate_limit.limit)
      <3>1. ~(\/ sol_inbox' = sol_inbox
              \/ \E n \in DOMAIN sol_inbox : Solana!release_inbound(n))
        BY SolanaNoApproval
      <3>2. \A r, q : Solana!transfer(r, q) => sol_inbox' = sol_inbox
        BY DEF Solana!transfer
      <3>3. \A u, k : Solana!release_outbound(u, k) => sol_inbox' = sol_inbox
        BY DEF Solana!release_outbound
      <3>4. \E t \in Transceiver : \E n : Solana!redeem(t, n)
        BY <3>1, <3>2, <3>3, SolanaBoxes, Zenon
      <3> QED
        BY <2>3, <3>4, ApprovalRefills
    <2> QED
      BY <2>2, <2>3 DEF Solana!RefillsByTheAmount
  <1>2. IInv /\ [Next]_vars => IInv'
    BY IInvStep
  <1> QED
    BY <1>1, <1>2, IInvInit, PTL DEF Spec, SolanaRefills

-----------------------------------------------------------------------------
(* Nothing is stranded.                                                    *)

\* The value of the transfers that are on their way.
OnTheWay == SumFunctionOnSet(flights, Transfer)

\* No value is lost or made: what users hold and what is on its way add up to
\* what users held at the start.
ValueInv ==
    Held + OnTheWay = scale(SolanaBalance, solana_decimals, UnitDecimals)
                        + scale(SuiBalance, sui_decimals, UnitDecimals)

\* A chain that locks keeps in custody what its users do not hold.
CustodyInv ==
    /\ SolanaMode = "Locking" =>
          /\ sol_custody \in Int
          /\ sol_custody + sol_balance = SolanaCustody + SolanaBalance
    /\ SuiMode = "Locking" =>
          /\ sui_locked \in Int
          /\ sui_locked + sui_coins = SuiBalance

\* What redeem asks for again: on Solana the votes are those of transceivers
\* that have validated the message, on Sui there is at least one.
ReadyInv ==
    /\ sol_config.threshold > 0
    /\ \A m \in DOMAIN sol_inbox :
          /\ untrim(m.amount, solana_decimals) <= U64_MAX
          /\ VotesOf(sol_inbox[m].votes, sol_transceiver_id, m, sol_validated)
    /\ \A m \in DOMAIN sui_inbox :
          /\ untrim(m.amount, sui_decimals) <= U64_MAX
          /\ sui_inbox[m].votes # {}

\* There are finitely many transfers.
LEMMA TransferFinite == IsFiniteSet(Transfer)
  <1> DEFINE A == {"solana"} \X (1 .. SolanaItems)
             B == {"sui"} \X (1 .. SuiItems)
  <1>1. IsFiniteSet({"solana"}) /\ IsFiniteSet({"sui"})
    <2>1. IsFiniteSet({}) /\ {} \cup {"solana"} = {"solana"} /\ {} \cup {"sui"} = {"sui"}
      BY FS_EmptySet
    <2> QED
      BY <2>1, FS_AddElement
  <1>2. IsFiniteSet(1 .. SolanaItems) /\ IsFiniteSet(1 .. SuiItems)
    BY SolanaSuiAssumption, FS_Interval
  <1>3. IsFiniteSet(A) /\ IsFiniteSet(B)
    BY <1>1, <1>2, FS_Product
  <1>4. Transfer = A \cup B
    BY DEF Transfer
  <1> HIDE DEF A, B
  <1> QED
    BY <1>3, <1>4, FS_Union

\* The value of each is a number.
FlightsNat == \A x \in Transfer : flights[x] \in Nat

\* It is that of an amount in an outbox.
LEMMA FlightNat ==
  ASSUME FlowInv
  PROVE  FlightsNat
  <1> SUFFICES ASSUME NEW x \in Transfer PROVE flights[x] \in Nat
    BY DEF FlightsNat
  <1> DEFINE c == x[1]
             k == x[2]
             out == outboxAt(c)
  <1>1. c \in Side /\ flights[x] = worth(c, k)
    BY ViewOf DEF flights
  <1>2. CASE view(c, k) \in {"none", "paid"}
    BY <1>1, <1>2 DEF worth
  <1>3. CASE view(c, k) \notin {"none", "paid"}
    <2>1. k \in DOMAIN out
      <3>1. k \notin DOMAIN out => statuses(c, k) = {}
        BY <1>1, NoStatus
      <3> QED
        BY <1>3, <3>1 DEF view
    <2>2. out \in Seq(OutboxItem) /\ Whole(out[k].amount)
      BY <1>1, <2>1 DEF FlowInv
    <2>3. out[k].amount \in Trimmed
      <3> HIDE DEF c, k, out
      <3>1. out[k] \in OutboxItem
        BY <2>1, <2>2
      <3> QED
        BY <3>1 DEF OutboxItem
    <2> DEFINE t == out[k].amount
    <2>4. t.decimals \in Nat /\ t.decimals <= UnitDecimals
      BY <2>2, <2>3, UnitFact DEF Whole, Trimmed
    <2>5. flights[x] = untrim(t, UnitDecimals)
      BY <1>1, <1>3 DEF worth
    <2> HIDE DEF t
    <2>6. t \in Trimmed /\ UnitDecimals \in Nat /\ UnitDecimals <= UnitDecimals
      BY <2>3, UnitFact DEF t
    <2> QED
      BY <2>4, <2>5, <2>6, WorthOfUntrim
  <1> QED
    BY <1>2, <1>3

\* The same of the next state.
LEMMA FlightNatNext ==
  ASSUME FlowInv'
  PROVE  FlightsNat'
  BY FlightNat, PTL

\* A step of the bridge moves value between the users and one transfer.
LEMMA BridgeMoves ==
  ASSUME Abstract!Next, Held \in Nat, Held' \in Nat, FlightsNat
  PROVE  \E x \in Transfer :
            /\ \A y \in Transfer \ {x} : flights'[y] = flights[y]
            /\ Held' + flights'[x] = Held + flights[x]
  <1> DEFINE P == [x_1 \in Transfer |-> phaseOf(x_1)]
  <1>1. /\ [x_1 \in Transfer |-> inFlightOf(x_1)] = flights
        /\ [x_1 \in Transfer |-> inFlightOf(x_1)]' = flights'
    BY DEF flights
  <1>2. PICK x \in Transfer :
           \/ Abstract!start(x) \/ Abstract!release(x) \/ Abstract!refund(x)
           \/ Abstract!arrive(x) \/ Abstract!pay(x)
    BY Zenon DEF Abstract!Next
  <1>3. /\ x \in DOMAIN flights /\ DOMAIN flights = Transfer
        /\ flights[x] \in Nat
    BY DEF flights, FlightsNat
  <1>4. CASE Abstract!start(x)
    <2>1. /\ P[x] = "none" /\ flights' = [flights EXCEPT ![x] = Held - Held']
      BY <1>1, <1>4, Zenon DEF Abstract!start
    <2>2. flights[x] = 0
      BY <2>1 DEF flights, inFlightOf
    <2>3. flights'[x] = Held - Held' /\ \A y \in Transfer \ {x} : flights'[y] = flights[y]
      BY <1>3, <2>1
    <2> QED
      BY <2>2, <2>3
  <1>5. ASSUME flights' = flights, Held' = Held
        PROVE  /\ \A y \in Transfer \ {x} : flights'[y] = flights[y]
               /\ Held' + flights'[x] = Held + flights[x]
    BY <1>5
  <1>6. ASSUME flights' = [flights EXCEPT ![x] = 0], Held' = Held + flights[x]
        PROVE  /\ \A y \in Transfer \ {x} : flights'[y] = flights[y]
               /\ Held' + flights'[x] = Held + flights[x]
    BY <1>3, <1>6
  <1>7. CASE Abstract!release(x) \/ Abstract!arrive(x)
    <2>1. flights' = flights /\ Held' = Held
      BY <1>1, <1>7, Zenon DEF Abstract!release, Abstract!arrive, Abstract!advance
    <2> QED
      BY <1>5, <2>1
  <1>8. CASE Abstract!refund(x) \/ Abstract!pay(x)
    <2>1. flights' = [flights EXCEPT ![x] = 0] /\ Held' = Held + flights[x]
      BY <1>1, <1>8, Zenon DEF Abstract!refund, Abstract!pay, Abstract!finish
    <2> QED
      BY <1>6, <2>1
  <1> QED
    BY <1>2, <1>4, <1>7, <1>8

\* The value of one transfer changes.
LEMMA OneFlight ==
  ASSUME NEW f, NEW h, NEW x \in Transfer, \A y \in Transfer : f[y] \in Int /\ h[y] \in Int,
         \A y \in Transfer \ {x} : h[y] = f[y]
  PROVE  SumFunctionOnSet(h, Transfer) = SumFunctionOnSet(f, Transfer) + h[x] - f[x]
  <1> DEFINE S == Transfer
  <1>1. IsFiniteSet(S) /\ x \in S /\ \A y \in S : f[y] \in Int /\ h[y] \in Int
    BY TransferFinite
  <1>2. \A y \in S \ {x} : h[y] = f[y]
    OBVIOUS
  <1> HIDE DEF S
  <1>3. SumFunctionOnSet(h, S) = SumFunctionOnSet(f, S) + h[x] - f[x]
    BY <1>1, <1>2, SumUpdate
  <1> QED
    BY <1>3 DEF S

\* A step of the bridge keeps the value there is.
LEMMA ValueStep ==
  ASSUME FlowInv, FlowInv', BoxTypeInv, BoxTypeInv', [Abstract!Next]_(Abstract!vars), ValueInv
  PROVE  ValueInv'
  <1>1. Held \in Nat /\ Held' \in Nat
    BY HeldNat, HeldNatNext
  <1>2. /\ \A y \in Transfer : flights[y] \in Nat /\ flights'[y] \in Nat
    <2>1. FlightsNat /\ FlightsNat'
      BY FlightNat, FlightNatNext
    <2>2. Transfer' = Transfer
      BY DEF Transfer
    <2> QED
      BY <2>1, <2>2 DEF FlightsNat
  <1>3. /\ OnTheWay = SumFunctionOnSet(flights, Transfer)
        /\ OnTheWay' = SumFunctionOnSet(flights', Transfer)
    BY DEF OnTheWay, Transfer
  <1> DEFINE f == flights
             h == flights'
  <1>4. OnTheWay \in Int /\ OnTheWay' \in Int
    <2>1. \A y \in Transfer : f[y] \in Int /\ h[y] \in Int
      BY <1>2
    <2> HIDE DEF f, h
    <2>2. SumFunctionOnSet(f, Transfer) \in Int /\ SumFunctionOnSet(h, Transfer) \in Int
      BY <2>1, TransferFinite, SumType
    <2> QED
      BY <1>3, <2>2 DEF f, h
  <1>5. Held' + OnTheWay' = Held + OnTheWay
    <2>1. CASE UNCHANGED Abstract!vars
      <3>1. Held' = Held /\ flights' = flights
        BY <2>1 DEF Abstract!vars, flights
      <3> QED
        BY <1>3, <3>1
    <2>2. CASE Abstract!Next
      <3>1. PICK x \in Transfer :
              /\ \A y \in Transfer \ {x} : h[y] = f[y]
              /\ Held' + h[x] = Held + f[x]
        BY <1>1, <2>2, FlightNat, BridgeMoves
      <3>2. \A y \in Transfer : f[y] \in Int /\ h[y] \in Int
        BY <1>2
      <3> HIDE DEF f, h
      <3>3. SumFunctionOnSet(h, Transfer) = SumFunctionOnSet(f, Transfer) + h[x] - f[x]
        BY <3>1, <3>2, OneFlight
      <3>4. OnTheWay' = OnTheWay + h[x] - f[x]
        BY <1>3, <3>3 DEF f, h
      <3> QED
        BY <1>1, <1>4, <3>1, <3>2, <3>4
    <2> QED
      BY <2>1, <2>2
  <1> QED
    BY <1>5 DEF ValueInv, UnitDecimals, scale

\* What a step does to the tokens and to the inbox of Solana.
LEMMA SolanaFrame ==
  ASSUME [Next]_vars
  PROVE  /\ sol_validated \subseteq sol_validated'
         /\ \/ sol_inbox' = sol_inbox /\ sol_custody' = sol_custody /\ sol_balance' = sol_balance
            \/ \E r \in SolanaAmount, q \in BOOLEAN : Solana!transfer(r, q)
            \/ \E m \in DOMAIN sol_inbox : Solana!release_inbound(m)
            \/ \E t \in Transceiver : \E m : Solana!redeem(t, m)
  <1> DEFINE aside == /\ sol_validated \subseteq sol_validated'
                      /\ sol_inbox' = sol_inbox
                      /\ sol_custody' = sol_custody /\ sol_balance' = sol_balance
  <1>1. CASE UNCHANGED solVars
    BY <1>1 DEF solVars
  <1>2. CASE Solana!Next
    <2>1. \A t, m : \/ Solana!receive_message(t, m) \/ Solana!register_transceiver(t)
                    \/ Solana!deregister_transceiver(t) \/ Solana!release_outbound(t, m)
            => aside
      BY DEF Solana!receive_message, Solana!register_transceiver, Solana!tokenVars,
             Solana!deregister_transceiver, Solana!release_outbound
    <2>2. \A n : \/ Solana!set_threshold(n) \/ Solana!set_paused(n) \/ Solana!set_peer(n)
                 \/ Solana!set_outbound_limit(n) \/ Solana!set_inbound_limit(n)
            => aside
      BY DEF Solana!set_threshold, Solana!set_paused, Solana!set_outbound_limit,
             Solana!set_inbound_limit, Solana!set_peer, Solana!tokenVars
    <2>3. /\ \A r, q : Solana!transfer(r, q) => sol_validated' = sol_validated
          /\ \A m : Solana!release_inbound(m) => sol_validated' = sol_validated
          /\ \A t, m : Solana!redeem(t, m) => sol_validated' = sol_validated
      BY Zenon DEF Solana!transfer, Solana!release_inbound, Solana!redeem
    <2> HIDE DEF aside
    <2>4. \/ aside
          \/ \E r \in SolanaAmount, q \in BOOLEAN : Solana!transfer(r, q)
          \/ \E m \in DOMAIN sol_inbox : Solana!release_inbound(m)
          \/ \E t \in Transceiver : \E m : Solana!redeem(t, m)
      BY <1>2, <2>1, <2>2, Zenon DEF Solana!Next
    <2> QED
      BY <2>3, <2>4, Zenon DEF aside
  <1> QED
    BY <1>1, <1>2 DEF Next, tick, vars

\* The same of Sui.
LEMMA SuiFrame ==
  ASSUME [Next]_vars
  PROVE  \/ sui_inbox' = sui_inbox /\ sui_locked' = sui_locked /\ sui_coins' = sui_coins
         \/ \E r \in SuiAmount, q \in BOOLEAN : Sui!transfer(r, q)
         \/ \E m \in DOMAIN sui_inbox : Sui!release(m)
         \/ \E t \in Transceiver : \E m : Sui!redeem(t, m)
  <1> DEFINE aside ==
        sui_inbox' = sui_inbox /\ sui_locked' = sui_locked /\ sui_coins' = sui_coins
  <1>1. CASE UNCHANGED suiVars
    BY <1>1 DEF suiVars
  <1>2. CASE Sui!Next
    <2>1. \A t, m : Sui!register_transceiver(t) \/ Sui!release_outbound(t, m) => aside
      BY DEF Sui!register_transceiver, Sui!release_outbound, Sui!tokenVars
    <2>2. \A n : \/ Sui!enable_transceiver(n) \/ Sui!disable_transceiver(n)
                 \/ Sui!set_threshold(n) \/ Sui!set_paused(n)
                 \/ Sui!set_outbound_rate_limit(n) \/ Sui!set_peer(n)
            => aside
      BY DEF Sui!enable_transceiver, Sui!disable_transceiver, Sui!set_threshold,
             Sui!set_paused, Sui!set_outbound_rate_limit, Sui!set_peer, Sui!tokenVars
    <2> HIDE DEF aside
    <2>3. \/ aside
          \/ \E r \in SuiAmount, q \in BOOLEAN : Sui!transfer(r, q)
          \/ \E m \in DOMAIN sui_inbox : Sui!release(m)
          \/ \E t \in Transceiver : \E m : Sui!redeem(t, m)
      BY <1>2, <2>1, <2>2, Zenon DEF Sui!Next
    <2> QED
      BY <2>3 DEF aside
  <1> QED
    BY <1>1, <1>2 DEF Next, tick, vars

\* Tokens move between the users and custody of the same chain.
LEMMA CustodyStep ==
  ASSUME IInv, IInv', [Next]_vars, CustodyInv
  PROVE  CustodyInv'
  <1>1. /\ sol_balance \in Nat /\ sui_coins \in Nat /\ sol_balance' \in Nat /\ sui_coins' \in Nat
        /\ FlowInv /\ BoxTypeInv
    BY DEF IInv, BoxTypeInv
  <1>2. ASSUME SolanaMode = "Locking", sol_custody \in Int
        PROVE  sol_custody' \in Int /\ sol_custody' + sol_balance' = sol_custody + sol_balance
    <2>1. ASSUME NEW r \in SolanaAmount, NEW q \in BOOLEAN, Solana!transfer(r, q)
          PROVE  sol_custody' \in Int /\ sol_custody' + sol_balance' = sol_custody + sol_balance
      <3> DEFINE a == Solana!remove_dust(r)
      <3>1. sol_balance' = sol_balance - a /\ sol_custody' = sol_custody + a
        BY <1>2, <2>1 DEF Solana!transfer
      <3>2. a \in Nat
        BY TrimWhole, SolanaSuiAssumption, SameAmounts, UnitFact, WorthOfUntrim
           DEF Solana!remove_dust, Whole
      <3> HIDE DEF a
      <3> QED
        BY <1>1, <1>2, <3>1, <3>2
    <2>2. ASSUME NEW m \in DOMAIN sol_inbox, Solana!release_inbound(m)
          PROVE  sol_custody' \in Int /\ sol_custody' + sol_balance' = sol_custody + sol_balance
      <3> DEFINE a == sol_inbox[m].amount
      <3>1. sol_balance' = sol_balance + a /\ sol_custody' = sol_custody - a
        BY <1>2, <2>2 DEF Solana!release_inbound
      <3>2. a \in Nat
        BY <1>1 DEF BoxTypeInv, SolanaItem
      <3> HIDE DEF a
      <3> QED
        BY <1>1, <1>2, <3>1, <3>2
    <2>3. ASSUME NEW t, NEW m, Solana!redeem(t, m)
          PROVE  sol_custody' = sol_custody /\ sol_balance' = sol_balance
      BY <2>3 DEF Solana!redeem, Solana!tokenVars
    <2> QED
      BY <1>2, <2>1, <2>2, <2>3, SolanaFrame
  <1>3. ASSUME SuiMode = "Locking", sui_locked \in Int
        PROVE  sui_locked' \in Int /\ sui_locked' + sui_coins' = sui_locked + sui_coins
    <2>1. ASSUME NEW r \in SuiAmount, NEW q \in BOOLEAN, Sui!transfer(r, q)
          PROVE  sui_locked' \in Int /\ sui_locked' + sui_coins' = sui_locked + sui_coins
      <3> DEFINE a == untrim(trim(r, sui_decimals, solana_decimals), sui_decimals)
      <3>1. Sui!untrim(Sui!trim(r, sui_decimals, solana_decimals), sui_decimals) = a
        BY SameAmounts
      <3>2. a \in Nat
        BY TrimWhole, SolanaSuiAssumption, UnitFact, WorthOfUntrim DEF Whole
      <3> HIDE DEF a
      <3>3. sui_coins' = sui_coins - a /\ sui_locked' = sui_locked + a
        BY <1>3, <2>1, <3>1 DEF Sui!transfer
      <3> QED
        BY <1>1, <1>3, <3>2, <3>3
    <2>2. ASSUME NEW m \in DOMAIN sui_inbox, Sui!release(m)
          PROVE  sui_locked' \in Int /\ sui_locked' + sui_coins' = sui_locked + sui_coins
      <3> DEFINE a == untrim(m.amount, sui_decimals)
      <3>1. sui_coins' = sui_coins + a /\ sui_locked' = sui_locked - a
        BY <1>3, <2>2, SameAmounts DEF Sui!release
      <3>2. a \in Nat
        <4>1. m \in DOMAIN inboxFrom("solana") /\ "solana" \in Side
          BY DEF inboxFrom, Side
        <4> QED
          BY <1>1, <4>1, InboxMessage
      <3> HIDE DEF a
      <3> QED
        BY <1>1, <1>3, <3>1, <3>2
    <2>3. ASSUME NEW t, NEW m, Sui!redeem(t, m)
          PROVE  sui_locked' = sui_locked /\ sui_coins' = sui_coins
      BY <2>3 DEF Sui!redeem, Sui!tokenVars
    <2> QED
      BY <1>3, <2>1, <2>2, <2>3, SuiFrame
  <1> QED
    BY <1>2, <1>3 DEF CustodyInv

\* Solana's threshold is never zero: the last transceiver cannot be removed.
LEMMA SolanaThreshold ==
  ASSUME IInv, [Next]_vars, sol_config.threshold > 0
  PROVE  sol_config'.threshold > 0
  <1>1. /\ sol_config \in SolanaConfig /\ sol_config.threshold \in Nat
        /\ sol_config.enabled_transceivers \in SUBSET (0 .. BITS - 1)
    BY DEF IInv, RegistryInv, SolanaConfig
  <1>2. CASE UNCHANGED solVars
    BY <1>2 DEF solVars
  <1>3. /\ \A a, q : Solana!transfer(a, q) => sol_config' = sol_config
        /\ \A m : Solana!release_inbound(m) => sol_config' = sol_config
        /\ \A t, k : Solana!release_outbound(t, k) => sol_config' = sol_config
        /\ \A t, m : Solana!receive_message(t, m) => sol_config' = sol_config
        /\ \A t, m : Solana!redeem(t, m) => sol_config' = sol_config
        /\ \A l : \/ Solana!set_outbound_limit(l) \/ Solana!set_inbound_limit(l)
                  \/ Solana!set_peer(l)
                => sol_config' = sol_config
    BY Zenon
       DEF Solana!transfer, Solana!release_inbound, Solana!release_outbound,
           Solana!receive_message, Solana!redeem, Solana!set_outbound_limit,
           Solana!set_inbound_limit, Solana!set_peer, Solana!registryVars
  <1>4. \A t : Solana!register_transceiver(t) => sol_config'.threshold = sol_config.threshold
    BY <1>1 DEF Solana!register_transceiver, SolanaConfig
  <1>5. ASSUME NEW t, Solana!deregister_transceiver(t)
        PROVE  sol_config'.threshold > 0
    <2> DEFINE left == sol_config.enabled_transceivers \ {sol_transceiver_id[t]}
               n == Cardinality(left)
    <2>1. left # {} /\ left \in SUBSET (0 .. BITS - 1)
      BY <1>1, <1>5 DEF Solana!deregister_transceiver
    <2>2. sol_config'.threshold = Solana!least(sol_config.threshold, n)
      BY <1>1, <1>5, SameCardinality DEF Solana!deregister_transceiver, SolanaConfig
    <2> HIDE DEF left
    <2>3. n \in Nat /\ n # 0
      <3>1. IsFiniteSet(0 .. BITS - 1)
        BY SolanaSuiAssumption, FS_Interval
      <3>2. IsFiniteSet(left)
        BY <2>1, <3>1, FS_Subset
      <3> QED
        BY <2>1, <3>2, FS_CardinalityType, FS_EmptySet
    <2> HIDE DEF n
    <2> QED
      BY <1>1, <2>2, <2>3 DEF Solana!least
  <1>6. \A n : Solana!set_threshold(n) => sol_config'.threshold > 0
    BY <1>1 DEF Solana!set_threshold, SolanaConfig
  <1>7. \A b : Solana!set_paused(b) => sol_config'.threshold = sol_config.threshold
    BY <1>1 DEF Solana!set_paused, SolanaConfig
  <1>8. CASE Solana!Next
    BY <1>3, <1>4, <1>5, <1>6, <1>7, <1>8, Zenon DEF Solana!Next
  <1> QED
    BY <1>2, <1>8 DEF Next, tick, vars

\* What is in the inboxes stays fit for another redeem.
LEMMA ReadyStep ==
  ASSUME IInv, IInv', SomeStep, [Next]_vars, ReadyInv
  PROVE  ReadyInv'
  <1>1. sol_config'.threshold > 0
    BY SolanaThreshold DEF ReadyInv
  <1>2. /\ RegistryInv /\ FlowInv /\ BoxTypeInv
        /\ sol_validated \subseteq sol_validated'
        /\ \A t \in Transceiver :
              sol_transceiver_id[t] \in Nat => sol_transceiver_id'[t] = sol_transceiver_id[t]
    <2>1. "sui" \in Side /\ idsFrom("sui") = sol_transceiver_id
          /\ idsFrom("sui")' = sol_transceiver_id'
      BY DEF Side, idsFrom
    <2>2. \A t \in Transceiver : idsFrom("sui")[t] \in Nat => idsFrom("sui")'[t] = idsFrom("sui")[t]
      BY <2>1 DEF SomeStep, TypesKept
    <2> QED
      BY <2>1, <2>2, SolanaFrame DEF IInv
  <1>3. \A m : \A votes :
           VotesOf(votes, sol_transceiver_id, m, sol_validated)
             => VotesOf(votes, sol_transceiver_id', m, sol_validated')
    BY <1>2, VotesKept
  <1>4. ASSUME NEW m \in DOMAIN sol_inbox'
        PROVE  /\ untrim(m.amount, solana_decimals) <= U64_MAX
               /\ VotesOf(sol_inbox'[m].votes, sol_transceiver_id', m, sol_validated')
    <2>1. CASE m \in DOMAIN sol_inbox /\ sol_inbox'[m].votes = sol_inbox[m].votes
      BY <1>3, <2>1 DEF ReadyInv
    <2>2. ASSUME NEW n \in DOMAIN sol_inbox, Solana!release_inbound(n)
          PROVE  m \in DOMAIN sol_inbox /\ sol_inbox'[m].votes = sol_inbox[m].votes
      <3>1. sol_inbox' = [sol_inbox EXCEPT ![n].release_status = Solana!Released]
        BY <2>2 DEF Solana!release_inbound
      <3>2. sol_inbox[n] \in SolanaItem
        BY <1>2 DEF BoxTypeInv
      <3> QED
        BY <3>1, <3>2 DEF SolanaItem
    <2>3. ASSUME NEW t \in Transceiver, NEW n, Solana!redeem(t, n)
          PROVE  /\ untrim(m.amount, solana_decimals) <= U64_MAX
                 /\ VotesOf(sol_inbox'[m].votes, sol_transceiver_id', m, sol_validated')
      <3>1. /\ <<t, n>> \in sol_validated
            /\ sol_transceiver_id[t] \in sol_config.enabled_transceivers
            /\ untrim(n.amount, solana_decimals) <= U64_MAX
        BY <2>3, SameAmounts DEF Solana!redeem, Solana!redeemable, Solana!enabled
      <3>2. PICK status \in ReleaseStatus : SolanaRedeems(t, n, status)
        BY <2>3, SolanaRedeemed
      <3>3. sol_inbox' = [x \in DOMAIN sol_inbox \cup {n} |->
                             IF x = n THEN SolanaVoted(t, n, status) ELSE sol_inbox[x]]
        BY <3>2 DEF SolanaRedeems
      <3>4. CASE m # n
        BY <2>1, <3>3, <3>4
      <3>5. CASE m = n
        <4>1. Solana!inbox_item(n) \in SolanaItem
          BY <2>3, SolanaRedeemed
        <4>2. sol_inbox'[m].votes = Solana!inbox_item(n).votes \cup {sol_transceiver_id[t]}
          BY <3>3, <3>5, <4>1 DEF SolanaVoted, SolanaVotes, SolanaItem
        <4>3. VotesOf(Solana!inbox_item(n).votes, sol_transceiver_id, n, sol_validated)
          BY DEF Solana!inbox_item, VotesOf, ReadyInv
        <4>4. sol_transceiver_id[t] \in Nat
          BY <1>2, <3>1, SolanaSuiAssumption DEF RegistryInv, SolanaConfig
        <4>5. VotesOf(sol_inbox'[m].votes, sol_transceiver_id, n, sol_validated)
          BY <3>1, <4>2, <4>3, <4>4 DEF VotesOf
        <4> QED
          BY <1>3, <3>1, <3>5, <4>5
      <3> QED
        BY <3>4, <3>5
    <2>4. ASSUME NEW r, NEW q, Solana!transfer(r, q) PROVE sol_inbox' = sol_inbox
      BY <2>4 DEF Solana!transfer
    <2> QED
      BY <2>1, <2>2, <2>3, <2>4, SolanaFrame
  <1>5. ASSUME NEW m \in DOMAIN sui_inbox'
        PROVE  untrim(m.amount, sui_decimals) <= U64_MAX /\ sui_inbox'[m].votes # {}
    <2>1. CASE m \in DOMAIN sui_inbox /\ sui_inbox'[m].votes = sui_inbox[m].votes
      BY <2>1 DEF ReadyInv
    <2>2. ASSUME NEW n \in DOMAIN sui_inbox, Sui!release(n)
          PROVE  m \in DOMAIN sui_inbox /\ sui_inbox'[m].votes = sui_inbox[m].votes
      <3>1. sui_inbox' = [sui_inbox EXCEPT ![n].release_status = Sui!Released]
        BY <2>2 DEF Sui!release
      <3>2. sui_inbox[n] \in SuiItem
        BY <1>2 DEF BoxTypeInv
      <3> QED
        BY <3>1, <3>2 DEF SuiItem
    <2>3. ASSUME NEW t \in Transceiver, NEW n, Sui!redeem(t, n)
          PROVE  untrim(m.amount, sui_decimals) <= U64_MAX /\ sui_inbox'[m].votes # {}
      <3>1. untrim(n.amount, sui_decimals) <= U64_MAX
        BY <2>3, SameAmounts DEF Sui!redeem, Sui!redeemable
      <3>2. PICK status \in ReleaseStatus : SuiRedeems(t, n, status)
        BY <2>3, SuiRedeemed
      <3>3. sui_inbox' = [x \in DOMAIN sui_inbox \cup {n} |->
                             IF x = n THEN SuiVoted(t, n, status) ELSE sui_inbox[x]]
        BY <3>2 DEF SuiRedeems
      <3>4. CASE m # n
        BY <2>1, <3>3, <3>4
      <3>5. CASE m = n
        BY <3>1, <3>3, <3>5 DEF SuiVoted, SuiVotes
      <3> QED
        BY <3>4, <3>5
    <2>4. ASSUME NEW r, NEW q, Sui!transfer(r, q) PROVE sui_inbox' = sui_inbox
      BY <2>4 DEF Sui!transfer, Sui!registryVars
    <2> QED
      BY <2>1, <2>2, <2>3, <2>4, SuiFrame
  <1> QED
    BY <1>1, <1>4, <1>5 DEF ReadyInv

\* An approved message that is not paid is among what is on its way.
LEMMA DueIsOnTheWay ==
  ASSUME FlowInv, NEW c \in Side, NEW m \in DOMAIN inboxFrom(c),
         inboxFrom(c)[m].release_status.status = "ReleaseAfter"
  PROVE  untrim(m.amount, UnitDecimals) <= OnTheWay
  <1> DEFINE k == m.id
             x == <<c, k>>
             v == untrim(m.amount, UnitDecimals)
  <1>1. /\ statuses(c, k) = {"ReleaseAfter"} /\ k \in DOMAIN outboxAt(c)
        /\ m.amount = outboxAt(c)[k].amount
    BY OneMessage
  <1>2. x \in Transfer
    <2>1. outboxAt(c) \in Seq(OutboxItem) /\ Len(outboxAt(c)) <= itemsAt(c)
      BY DEF FlowInv
    <2>2. k \in 1 .. itemsAt(c)
      BY <1>1, <2>1, ItemsNat
    <2> QED
      BY <2>2, IsTransfer
  <1>3. view(c, k) = "due"
    BY <1>1 DEF view
  <1>4. worth(c, k) = v
    BY <1>1, <1>3 DEF worth
  <1>5. flights[x] = v
    BY <1>2, <1>4, ViewOf DEF flights
  <1>6. \A y \in Transfer : flights[y] \in Nat
    BY FlightNat DEF FlightsNat
  <1> DEFINE f == flights
  <1>7. f[x] <= SumFunctionOnSet(f, Transfer)
    <2>1. \A y \in Transfer : f[y] \in Nat
      BY <1>6
    <2> HIDE DEF f, x
    <2> QED
      BY <1>2, <2>1, TransferFinite, SumBounds
  <1> QED
    BY <1>5, <1>7 DEF OnTheWay

\* Custody of a chain that locks covers what is due.
LEMMA CustodyCovers ==
  ASSUME IInv, ValueInv, CustodyInv, InitiallyBacked
  PROVE  /\ SolanaMode = "Locking" =>
               \A m \in DOMAIN sol_inbox :
                  sol_inbox[m].release_status.status = "ReleaseAfter"
                    => sol_inbox[m].amount <= sol_custody
         /\ SuiMode = "Locking" =>
               \A m \in DOMAIN sui_inbox :
                  sui_inbox[m].release_status.status = "ReleaseAfter"
                    => untrim(m.amount, sui_decimals) <= sui_locked
  <1> DEFINE s(n) == scale(n, solana_decimals, UnitDecimals)
             u(n) == scale(n, sui_decimals, UnitDecimals)
  <1>1. /\ FlowInv /\ BoxTypeInv /\ sol_balance \in Nat /\ sui_coins \in Nat
    BY DEF IInv, BoxTypeInv
  <1>2. /\ SolanaBalance \in Nat /\ SolanaCustody \in Nat /\ SuiBalance \in Nat
    BY SolanaSuiAssumption
  <1>3. \A n \in Nat : s(n) \in Nat /\ u(n) \in Nat
    BY UnitFact, ScaleNat
  <1>4. \A n, k \in Nat : s(n + k) = s(n) + s(k) /\ u(n + k) = u(n) + u(k)
    BY UnitFact, ScalePlus
  <1>5. \A n, k \in Nat : (s(n) <= s(k) => n <= k) /\ (u(n) <= u(k) => n <= k)
    BY UnitFact, ScaleOrder
  <1>6. (s(sol_balance) + u(sui_coins)) + OnTheWay = s(SolanaBalance) + u(SuiBalance)
    BY DEF ValueInv, Held
  <1>7. /\ SolanaMode = "Locking" => u(SuiBalance) <= s(SolanaCustody)
        /\ SuiMode = "Locking" => s(SolanaBalance) = 0
    <2>1. s(0) = 0
      <3>1. s(0 + 0) = s(0) + s(0) /\ s(0) \in Nat /\ 0 + 0 = 0
        BY <1>3, <1>4
      <3> DEFINE z == s(0)
      <3>2. z = z + z /\ z \in Nat
        <4> HIDE DEF s
        <4> QED
          BY <3>1
      <3> HIDE DEF z
      <3>3. z = 0
        BY <3>2
      <3> QED
        BY <3>3 DEF z
    <2> QED
      BY <2>1 DEF InitiallyBacked
  <1>8. OnTheWay \in Int
    <2>1. \A y \in Transfer : flights[y] \in Int
      BY <1>1, FlightNat DEF FlightsNat
    <2> DEFINE f == flights
    <2>2. \A y \in Transfer : f[y] \in Int
      BY <2>1
    <2> HIDE DEF f
    <2>3. SumFunctionOnSet(f, Transfer) \in Int
      BY <2>2, TransferFinite, SumType
    <2> QED
      BY <2>3 DEF OnTheWay, f
  <1>9. ASSUME SolanaMode = "Locking", NEW m \in DOMAIN sol_inbox,
               sol_inbox[m].release_status.status = "ReleaseAfter"
        PROVE  sol_inbox[m].amount <= sol_custody
    <2> DEFINE a == untrim(m.amount, solana_decimals)
    <2>1. m \in DOMAIN inboxFrom("sui") /\ "sui" \in Side /\ inboxFrom("sui") = sol_inbox
      BY DEF inboxFrom, Side
    <2>2. m.amount \in Trimmed /\ Whole(m.amount) /\ a \in Nat
      BY <1>1, <2>1, InboxMessage
    <2>3. s(a) = untrim(m.amount, UnitDecimals)
      BY <2>2, UnitFact, WorthOfUntrim DEF Whole
    <2>4. s(a) <= OnTheWay
      BY <1>1, <1>9, <2>1, <2>3, DueIsOnTheWay
    <2>5. sol_inbox[m].amount = a
      BY <1>1 DEF BoxTypeInv
    <2>6. sol_custody \in Int /\ sol_custody + sol_balance = SolanaCustody + SolanaBalance
      BY <1>9 DEF CustodyInv
    <2> HIDE DEF s, u, a
    <2>7. /\ s(a) \in Nat /\ s(sol_balance) \in Nat /\ u(sui_coins) \in Nat
          /\ s(SolanaBalance) \in Nat /\ s(SolanaCustody) \in Nat /\ u(SuiBalance) \in Nat
      BY <1>1, <1>2, <1>3, <2>2
    <2>8. s(a) + s(sol_balance) <= s(SolanaCustody) + s(SolanaBalance)
      BY <1>6, <1>7, <1>8, <1>9, <2>4, <2>7
    <2>9. s(a + sol_balance) <= s(SolanaCustody + SolanaBalance)
      BY <1>1, <1>2, <1>4, <2>2, <2>8
    <2>10. a + sol_balance <= SolanaCustody + SolanaBalance
      <3> DEFINE n == a + sol_balance
                 k == SolanaCustody + SolanaBalance
      <3>1. n \in Nat /\ k \in Nat
        BY <1>1, <1>2, <2>2
      <3>2. s(n) <= s(k)
        BY <2>9
      <3> HIDE DEF n, k
      <3>3. n <= k
        BY <1>5, <3>1, <3>2
      <3> QED
        BY <3>3 DEF n, k
    <2> QED
      BY <1>1, <1>2, <2>2, <2>5, <2>6, <2>10
  <1>10. ASSUME SuiMode = "Locking", NEW m \in DOMAIN sui_inbox,
                sui_inbox[m].release_status.status = "ReleaseAfter"
         PROVE  untrim(m.amount, sui_decimals) <= sui_locked
    <2> DEFINE a == untrim(m.amount, sui_decimals)
    <2>1. m \in DOMAIN inboxFrom("solana") /\ "solana" \in Side /\ inboxFrom("solana") = sui_inbox
      BY DEF inboxFrom, Side
    <2>2. m.amount \in Trimmed /\ Whole(m.amount) /\ a \in Nat
      BY <1>1, <2>1, InboxMessage
    <2>3. u(a) = untrim(m.amount, UnitDecimals)
      BY <2>2, UnitFact, WorthOfUntrim DEF Whole
    <2>4. u(a) <= OnTheWay
      BY <1>1, <1>10, <2>1, <2>3, DueIsOnTheWay
    <2>5. sui_locked \in Int /\ sui_locked + sui_coins = SuiBalance
      BY <1>10 DEF CustodyInv
    <2> HIDE DEF s, u, a
    <2>6. /\ u(a) \in Nat /\ s(sol_balance) \in Nat /\ u(sui_coins) \in Nat
          /\ s(SolanaBalance) \in Nat /\ u(SuiBalance) \in Nat
      BY <1>1, <1>2, <1>3, <2>2
    <2>7. u(a) + u(sui_coins) <= u(SuiBalance)
      BY <1>6, <1>7, <1>8, <1>10, <2>4, <2>6
    <2>8. a + sui_coins <= SuiBalance
      <3> DEFINE n == a + sui_coins
      <3>1. n \in Nat /\ u(n) <= u(SuiBalance)
        BY <1>1, <1>4, <2>2, <2>7
      <3> HIDE DEF n
      <3>2. n <= SuiBalance
        BY <1>2, <1>5, <3>1
      <3> QED
        BY <3>2 DEF n
    <2>9. a <= sui_locked
      BY <1>1, <1>2, <2>2, <2>5, <2>8
    <2> QED
      BY <2>9 DEF a
  <1> QED
    BY <1>9, <1>10

\* A message with enough votes is approved by another redeem.
LEMMA SolanaApprovable ==
  ASSUME IInv, ReadyInv, NEW m \in DOMAIN sol_inbox \ Solana!Approved(sol_inbox),
         Solana!count_enabled_votes(sol_inbox[m].votes) >= sol_config.threshold
  PROVE  \E t \in Transceiver : Solana!redeemable(t, m) /\ Solana!approves(t, m)
  <1> DEFINE on == sol_inbox[m].votes \cap sol_config.enabled_transceivers
  <1>1. /\ sol_config.threshold \in Nat /\ sol_config.threshold > 0
        /\ sol_config.enabled_transceivers \in SUBSET (0 .. BITS - 1)
    BY DEF IInv, RegistryInv, SolanaConfig, ReadyInv
  <1>2. Cardinality(on) >= sol_config.threshold
    BY SameCardinality DEF Solana!count_enabled_votes
  <1>3. on # {}
    <2>1. Cardinality({}) = 0
      BY FS_EmptySet
    <2> SUFFICES ASSUME on = {} PROVE FALSE
      OBVIOUS
    <2>2. Cardinality(on) = 0
      BY <2>1, Zenon
    <2> HIDE DEF on
    <2> QED
      BY <1>1, <1>2, <2>2
  <1>4. PICK v \in on : TRUE
    BY <1>3
  <1>5. PICK t \in Transceiver : v = sol_transceiver_id[t] /\ <<t, m>> \in sol_validated
    BY <1>4 DEF ReadyInv, VotesOf
  <1>6. Solana!inbox_item(m) = sol_inbox[m] /\ sol_inbox[m].release_status = Solana!NotApproved
    BY DEF Solana!inbox_item, Solana!Approved
  <1>7. Solana!voted(t, m) = sol_inbox[m].votes
    BY <1>4, <1>5, <1>6 DEF Solana!voted
  <1>8. Solana!approves(t, m)
    BY <1>7 DEF Solana!approves
  <1>9. Solana!redeemable(t, m)
    BY <1>1, <1>4, <1>5, <1>6, SameAmounts
       DEF Solana!redeemable, Solana!enabled, Solana!release_after_allowed, ReadyInv
  <1> QED
    BY <1>8, <1>9

\* The same on Sui, where the threshold may be zero.
LEMMA SuiApprovable ==
  ASSUME IInv, ReadyInv, NEW m \in DOMAIN sui_inbox \ Sui!Approved(sui_inbox),
         ~sui_state.paused, Sui!count_enabled_votes(sui_inbox[m].votes) >= sui_state.threshold
  PROVE  \E t \in Transceiver : Sui!redeemable(t, m) /\ Sui!approves(t, m)
  <1>1. PICK v \in sui_inbox[m].votes : TRUE
    BY DEF ReadyInv
  <1>2. VotesOf(sui_inbox[m].votes, sui_transceiver_id, m, sol_posted)
    BY DEF IInv, FlowInv, Side, inboxFrom, idsFrom, postedAt
  <1>3. PICK t \in Transceiver :
           v = sui_transceiver_id[t] /\ <<t, m>> \in sol_posted /\ v \in Nat
    BY <1>1, <1>2 DEF VotesOf
  <1>4. Sui!inbox_item(m) = sui_inbox[m] /\ sui_inbox[m].release_status = Sui!NotApproved
    BY DEF Sui!inbox_item, Sui!Approved
  <1>5. Sui!voted(t, m) = sui_inbox[m].votes
    BY <1>1, <1>3, <1>4 DEF Sui!voted
  <1>6. Sui!approves(t, m)
    BY <1>5 DEF Sui!approves
  <1>7. Sui!registered(t)
    BY <1>3 DEF Sui!registered, Sui!NoId
  <1>8. Sui!redeemable(t, m)
    BY <1>3, <1>4, <1>7, SameAmounts DEF Sui!redeemable, Sui!release_after_allowed, ReadyInv
  <1> QED
    BY <1>6, <1>8

\* No value has moved at the start, and the inboxes are empty.
LEMMA StrandedInit == Init => ValueInv /\ CustodyInv /\ ReadyInv
  <1> SUFFICES ASSUME Init PROVE ValueInv /\ CustodyInv /\ ReadyInv
    OBVIOUS
  <1>1. CustodyInv /\ ReadyInv
    BY SolanaSuiAssumption DEF Init, Solana!Init, Sui!Init, CustodyInv, ReadyInv
  <1>2. \A x \in Transfer : flights[x] = 0
    BY BridgeInit DEF Abstract!Init, flights
  <1>3. OnTheWay = 0
    <2> DEFINE f == flights
    <2>1. \A x \in Transfer : f[x] = 0
      BY <1>2
    <2> HIDE DEF f
    <2>2. SumFunctionOnSet(f, Transfer) = 0
      BY <2>1, TransferFinite, SumZero
    <2> QED
      BY <2>2 DEF OnTheWay, f
  <1>4. Held = scale(SolanaBalance, solana_decimals, UnitDecimals)
                 + scale(SuiBalance, sui_decimals, UnitDecimals)
    BY DEF Init, Solana!Init, Sui!Init, Held
  <1>5. Held \in Nat
    BY IInvInit, HeldNat DEF IInv
  <1>6. Held + OnTheWay = Held
    BY <1>3, <1>5
  <1> QED
    BY <1>1, <1>4, <1>6 DEF ValueInv

\* Neither chain keeps a message that it can no longer approve or pay.  Whatever
\* happened to the registry since the votes were cast, some transceiver's redeem
\* approves a message that has enough votes (redeem.rs, ntt.move); and whatever
\* was transferred in either direction, custody covers what is due
\* (release_inbound.rs, mint_or_unlock), when it covered the other chain's
\* tokens at the start.
THEOREM NeverStranded == Spec => [](InitiallyBacked => NothingStranded)
  <1> DEFINE Inv == IInv /\ ValueInv /\ CustodyInv /\ ReadyInv
  <1>1. Init => Inv
    BY IInvInit, StrandedInit
  <1>2. Inv /\ [Next]_vars => Inv'
    <2> SUFFICES ASSUME Inv, [Next]_vars PROVE Inv'
      OBVIOUS
    <2>1. IInv' /\ SomeStep
      BY IInvStep
    <2>2. [Abstract!Next]_(Abstract!vars)
      BY <2>1, BridgeStep DEF IInv
    <2>3. ValueInv'
      BY <2>1, <2>2, ValueStep DEF IInv
    <2>4. CustodyInv' /\ ReadyInv'
      BY <2>1, CustodyStep, ReadyStep
    <2> QED
      BY <2>1, <2>3, <2>4
  <1>3. Inv => (InitiallyBacked => NothingStranded)
    <2> SUFFICES ASSUME Inv, InitiallyBacked PROVE NothingStranded
      OBVIOUS
    <2>1. Solana!NothingStranded
      <3>1. ASSUME NEW m \in DOMAIN sol_inbox, Solana!due(m), ~sol_config.paused
            PROVE  Solana!releasable(m)
        BY <3>1, CustodyCovers DEF Solana!releasable, Solana!due
      <3> QED
        BY <3>1, SolanaApprovable DEF Solana!NothingStranded
    <2>2. Sui!NothingStranded
      <3>1. ASSUME NEW m \in DOMAIN sui_inbox, Sui!due(m), ~sui_state.paused
            PROVE  Sui!releasable(m)
        BY <3>1, CustodyCovers, SameAmounts DEF Sui!releasable, Sui!due
      <3> QED
        BY <3>1, SuiApprovable DEF Sui!NothingStranded
    <2> QED
      BY <2>1, <2>2 DEF NothingStranded
  <1> QED
    BY <1>1, <1>2, <1>3, PTL DEF Spec

=============================================================================
