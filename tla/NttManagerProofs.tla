-------------------------- MODULE NttManagerProofs --------------------------
(***************************************************************************)
(* Proofs about the transfers of NttManager, for any finite set of chains  *)
(* and users and any decimals, fees, balances, amounts and limits: value   *)
(* is conserved, what is minted is covered by what is locked, and the      *)
(* managers implement the abstract bridge.                                 *)
(*                                                                         *)
(* The argument has three layers.  Arithmetic: trimming and untrimming an  *)
(* amount that loses nothing to dust keeps its value in the common unit.   *)
(* Steps: every step of Next has one of eight forms, in which only the     *)
(* transfer that moves and the totals appear (SomeStep).  Invariants: each *)
(* form keeps the inductive invariant, keeps the totals balanced, and is a *)
(* step of the bridge.                                                     *)
(***************************************************************************)
EXTENDS NttManager, AmountTheorems

\* Amounts, queue entries and messages, as sets.
Trimmed == [amount : Nat, decimals : Nat]

\* An entry of the outbound queue.
OutEntry == [sequence : Nat, amount : Trimmed, recipientChain : Chain,
             recipient : User, sender : User, skip : BOOLEAN, txTimestamp : Nat]

\* A message handed to the transceivers.
Message == [from : Chain, to : Chain, sequence : Nat, amount : Trimmed,
            recipient : User, sender : User]

\* An entry of the inbound queue.
InEntry == [message : Message, amount : Trimmed, recipient : User, txTimestamp : Nat]

\* The types of the variables the transfers depend on.
TypeInv ==
    /\ balance \in [Chain -> [User -> Nat]]
    /\ custody \in [Chain -> Nat]
    /\ messageSequence \in [Chain -> Nat]
    /\ outboundQueue \in [Chain -> SUBSET OutEntry]
    /\ inboundQueue \in [Chain -> SUBSET InEntry]
    /\ sent \in SUBSET Message
    /\ now \in [Chain -> Nat]
    /\ cancelled \in SUBSET (Chain \X Nat)
    /\ fees \in Nat

\* Queues and messages are finite, so that their values can be added up.
FiniteInv ==
    /\ \A c \in Chain : IsFiniteSet(outboundQueue[c]) /\ IsFiniteSet(inboundQueue[c])
    /\ IsFiniteSet(sent)

\* The trimmed amount is worth the same in the chain's own decimals.
Exact(trimmed, c) ==
    trimmed.decimals <= tokenDecimals[c] /\ trimmed.decimals <= TRIMMED_DECIMALS

\* Every amount on its way is exact where it will be paid or refunded, and a
\* queued payment is worth what its message says.
AmountInv ==
    /\ \A c \in Chain : \A q \in outboundQueue[c] :
          Exact(q.amount, c) /\ Exact(q.amount, q.recipientChain)
    /\ \A m \in sent : Exact(m.amount, m.to)
    /\ \A c \in Chain : \A q \in inboundQueue[c] :
          /\ Exact(q.amount, c)
          /\ untrim(q.amount, UnitDecimals) = untrim(q.message.amount, UnitDecimals)

\* A sequence names one transfer: it is queued, cancelled or sent, and only one
\* of them, and sequences from messageSequence on are unused.
OutInv ==
    /\ \A c \in Chain : \A q \in outboundQueue[c] :
          /\ q.sequence < messageSequence[c]
          /\ <<c, q.sequence>> \notin cancelled
          /\ \A m \in sent : ~Is(m, c, q.sequence)
          /\ \A r \in outboundQueue[c] : r.sequence = q.sequence => r = q
    /\ \A m \in sent :
          /\ m.sequence < messageSequence[m.from]
          /\ <<m.from, m.sequence>> \notin cancelled
          /\ \A k \in sent : Is(k, m.from, m.sequence) => k = m
    /\ \A x \in cancelled : x[2] < messageSequence[x[1]]
    /\ \A c \in Chain : messageSequence[c] <= MaxSequence[c]

\* Only sent messages are executed and only executed ones are paid; an executed
\* message that is not paid has exactly one entry in its inbound queue.
InInv ==
    /\ executed \subseteq sent
    /\ paid \subseteq executed
    /\ \A c \in Chain : \A q \in inboundQueue[c] :
          /\ q.message \in executed \ paid
          /\ q.message.to = c
          /\ \A r \in inboundQueue[c] : r.message = q.message => r = q
    /\ \A m \in executed \ paid : \E q \in inboundQueue[m.to] : q.message = m

-----------------------------------------------------------------------------
(* Values.                                                                 *)

\* The common unit is at least as fine as every token and as a trimmed amount.
LEMMA UnitFact ==
  /\ UnitDecimals \in Nat
  /\ TRIMMED_DECIMALS <= UnitDecimals
  /\ \A c \in Chain : tokenDecimals[c] <= UnitDecimals
  <1> DEFINE D == {tokenDecimals[c] : c \in Chain}
             S == D \cup {TRIMMED_DECIMALS}
  <1>1. D \in SUBSET Nat /\ TRIMMED_DECIMALS \in Nat
    BY NttAssumption, TrimmedDecimalsAssumption
  <1>2. IsFiniteSet(D)
    <2> DEFINE f == [c \in Chain |-> tokenDecimals[c]]
    <2>1. f \in Surjection(Chain, D)
      BY DEF Surjection
    <2> HIDE DEF f, D
    <2> QED
      BY <2>1, NttAssumption, FS_Surjection
  <1>3. IsFiniteSet(S)
    BY <1>2, FS_AddElement
  <1>4. S \in SUBSET Nat /\ S # {}
    BY <1>1
  <1>5. TRIMMED_DECIMALS \in S /\ \A c \in Chain : tokenDecimals[c] \in S
    OBVIOUS
  <1>6. UnitDecimals = Max(S)
    BY DEF UnitDecimals
  <1> HIDE DEF S
  <1>7. \E x \in S : \A y \in S : x >= y
    BY <1>3, <1>4, MaximumExists
  <1>8. Max(S) \in S /\ \A y \in S : Max(S) >= y
    BY <1>7, Zenon DEF Max
  <1> QED
    BY <1>4, <1>5, <1>6, <1>8

\* The value of an amount is the amount times a fixed positive number.
LEMMA ValueLinear ==
  ASSUME NEW c \in Chain
  PROVE  /\ \A a \in Nat : Value(c, a) \in Nat
         /\ \A a, b \in Nat : Value(c, a + b) = Value(c, a) + Value(c, b)
         /\ \A a, b \in Nat : b <= a => Value(c, a - b) = Value(c, a) - Value(c, b)
  <1> DEFINE k == powerOfTen[UnitDecimals - tokenDecimals[c]]
  <1>1. tokenDecimals[c] \in Nat
    BY NttAssumption
  <1>2. \A a \in Nat : Value(c, a) = a * k /\ Value(c, a) \in Nat
    BY <1>1, UnitFact, ScaleUp, ScaleNat, Zenon DEF Value
  <1>3. k \in Nat \ {0}
    BY <1>1, UnitFact, PowerDiff, Zenon
  <1> HIDE DEF k
  <1>4. \A a, b \in Nat : Value(c, a + b) = Value(c, a) + Value(c, b)
    BY <1>2, <1>3, Distrib
  <1>5. ASSUME NEW a \in Nat, NEW b \in Nat, b <= a
        PROVE  Value(c, a - b) = Value(c, a) - Value(c, b)
    <2>1. a - b \in Nat
      BY <1>5
    <2>2. (a - b) * k = a * k - b * k
      BY <1>3, Distrib
    <2> QED
      BY <2>1, <2>2, <1>2
  <1> QED
    BY <1>2, <1>4, <1>5

\* A value is a natural number.
LEMMA ValueNat == \A c \in Chain : \A a \in Nat : Value(c, a) \in Nat
  BY ValueLinear, Zenon

\* Values add up,
LEMMA ValuePlus ==
  ASSUME NEW c \in Chain, NEW a \in Nat, NEW b \in Nat, NEW s \in Nat, s = a + b
  PROVE  Value(c, s) = Value(c, a) + Value(c, b)
  BY ValueLinear, Zenon

\* and subtract.
LEMMA ValueMinus ==
  ASSUME NEW c \in Chain, NEW a \in Nat, NEW b \in Nat, NEW s \in Nat, s = a - b
  PROVE  Value(c, s) = Value(c, a) - Value(c, b)
  <1>1. b <= a
    OBVIOUS
  <1> QED
    BY <1>1, ValueLinear, Zenon

\* untrim returns a natural number.
LEMMA UntrimNat ==
  ASSUME NEW t \in Trimmed, NEW d \in Nat
  PROVE  untrim(t, d) \in Nat
  BY ScaleNat DEF untrim, Trimmed

\* The value of what is paid out for a trimmed amount is the amount's value.
LEMMA ValueUntrim ==
  ASSUME NEW c \in Chain, NEW t \in Trimmed, Exact(t, c)
  PROVE  /\ untrim(t, tokenDecimals[c]) \in Nat
         /\ Value(c, untrim(t, tokenDecimals[c])) = untrim(t, UnitDecimals)
  <1>1. tokenDecimals[c] \in Nat /\ t.amount \in Nat /\ t.decimals \in Nat
    BY NttAssumption DEF Trimmed
  <1> QED
    BY <1>1, UnitFact, ScaleTwice, UntrimNat DEF Exact, untrim, Value

\* What trimTransferAmount accepts is exact at the source and at the
\* destination, and worth what was received.
LEMMA TrimExact ==
  ASSUME NEW c \in Chain, NEW p \in Chain, NEW a \in Nat
  PROVE  LET t == trim(a, tokenDecimals[c], tokenDecimals[p])
         IN  t \in Trimmed /\ Exact(t, c) /\ Exact(t, p)
  <1> DEFINE d == minDecimals(minDecimals(TRIMMED_DECIMALS, tokenDecimals[c]), tokenDecimals[p])
  <1>1. tokenDecimals[c] \in Nat /\ tokenDecimals[p] \in Nat /\ TRIMMED_DECIMALS \in Nat
    BY NttAssumption, TrimmedDecimalsAssumption
  <1>2. d \in Nat /\ d <= tokenDecimals[c] /\ d <= tokenDecimals[p] /\ d <= TRIMMED_DECIMALS
    BY <1>1 DEF minDecimals
  <1>3. scale(a, tokenDecimals[c], d) \in Nat
    BY <1>1, <1>2, ScaleNat
  <1> HIDE DEF d
  <1> QED
    BY <1>2, <1>3 DEF trim, Trimmed, Exact, d

\* The amount the destination works with has the message's value.
LEMMA NativeExact ==
  ASSUME NEW m \in Message, Exact(m.amount, m.to)
  PROVE  /\ nativeTransferAmount(m) \in Trimmed
         /\ Exact(nativeTransferAmount(m), m.to)
         /\ untrim(nativeTransferAmount(m), UnitDecimals) = untrim(m.amount, UnitDecimals)
  <1> DEFINE e == tokenDecimals[m.to]
             x == m.amount.amount
             d == m.amount.decimals
             n == minDecimals(minDecimals(TRIMMED_DECIMALS, e), e)
  <1>1. m.to \in Chain /\ x \in Nat /\ d \in Nat /\ e \in Nat /\ TRIMMED_DECIMALS \in Nat
    BY NttAssumption, TrimmedDecimalsAssumption DEF Message, Trimmed
  <1>2. n \in Nat /\ d <= n /\ n <= e /\ n <= TRIMMED_DECIMALS /\ e <= UnitDecimals
    BY <1>1, UnitFact DEF minDecimals, Exact
  <1>3. untrim(m.amount, e) = scale(x, d, e) /\ untrim(m.amount, e) \in Nat
    BY <1>1, ScaleNat DEF untrim
  <1>4. nativeTransferAmount(m) = [amount |-> scale(scale(x, d, e), e, n), decimals |-> n]
    BY <1>3 DEF nativeTransferAmount, trim
  <1>5. scale(scale(x, d, e), e, n) = scale(x, d, n)
    BY <1>1, <1>2, ScaleBack
  <1>6. scale(scale(x, d, n), n, UnitDecimals) = scale(x, d, UnitDecimals)
    BY <1>1, <1>2, UnitFact, ScaleTwice
  <1>7. nativeTransferAmount(m) \in Trimmed /\ Exact(nativeTransferAmount(m), m.to)
    BY <1>1, <1>3, TrimExact DEF nativeTransferAmount
  <1> HIDE DEF n
  <1> QED
    BY <1>4, <1>5, <1>6, <1>7 DEF untrim

-----------------------------------------------------------------------------
(* Totals.                                                                 *)

\* A set whose value is defined.
HasAmounts(S) == IsFiniteSet(S) /\ \A e \in S : e.amount \in Trimmed

\* The value of a set is a sum over it.
LEMMA ValueOfSum ==
  ASSUME NEW S
  PROVE  LET f == [e \in S |-> untrim(e.amount, UnitDecimals)]
         IN  ValueOf(S) = SumFunctionOnSet(f, S)
  BY DEF ValueOf, SumFunction

\* It is a natural number.
LEMMA ValueOfNat ==
  ASSUME NEW S, HasAmounts(S)
  PROVE  ValueOf(S) \in Nat
  <1> DEFINE f == [e \in S |-> untrim(e.amount, UnitDecimals)]
  <1>1. \A e \in S : f[e] \in Nat
    BY UntrimNat, UnitFact DEF HasAmounts
  <1> HIDE DEF f
  <1>2. SumFunctionOnSet(f, S) \in Nat
    BY <1>1, SumType DEF HasAmounts
  <1> QED
    BY <1>2, ValueOfSum DEF f

\* An element that leaves takes its value along,
LEMMA ValueOfRemove ==
  ASSUME NEW S, HasAmounts(S), NEW x \in S
  PROVE  /\ HasAmounts(S \ {x})
         /\ ValueOf(S \ {x}) = ValueOf(S) - untrim(x.amount, UnitDecimals)
         /\ untrim(x.amount, UnitDecimals) \in Nat
  <1> DEFINE R == S \ {x}
             f == [e \in S |-> untrim(e.amount, UnitDecimals)]
             g == [e \in R |-> untrim(e.amount, UnitDecimals)]
  <1>1. \A e \in S : f[e] \in Nat
    BY UntrimNat, UnitFact DEF HasAmounts
  <1>2. HasAmounts(R)
    BY FS_RemoveElement DEF HasAmounts
  <1>3. \A e \in R : g[e] = f[e] /\ f[e] \in Int
    BY <1>1
  <1>4. f[x] = untrim(x.amount, UnitDecimals)
    OBVIOUS
  <1>5. ValueOf(R) = SumFunctionOnSet(g, R) /\ ValueOf(S) = SumFunctionOnSet(f, S)
    BY ValueOfSum
  <1>6. ValueOf(R) \in Nat
    BY <1>2, ValueOfNat
  <1> HIDE DEF f, g
  <1>7. SumFunctionOnSet(f, S) = SumFunctionOnSet(f, R) + f[x]
    BY <1>1, SumElement DEF HasAmounts
  <1> HIDE DEF R
  <1>8. SumFunctionOnSet(g, R) = SumFunctionOnSet(f, R)
    BY <1>2, <1>3, SumSame DEF HasAmounts
  <1> QED
    BY <1>1, <1>2, <1>4, <1>5, <1>6, <1>7, <1>8 DEF R

\* and one that is added brings its value.
LEMMA ValueOfAdd ==
  ASSUME NEW S, HasAmounts(S), NEW x, x \notin S, x.amount \in Trimmed
  PROVE  /\ HasAmounts(S \cup {x})
         /\ ValueOf(S \cup {x}) = ValueOf(S) + untrim(x.amount, UnitDecimals)
         /\ untrim(x.amount, UnitDecimals) \in Nat
  <1> DEFINE T == S \cup {x}
  <1>1. HasAmounts(T)
    BY FS_AddElement DEF HasAmounts
  <1>2. T \ {x} = S /\ x \in T
    OBVIOUS
  <1>3. ValueOf(S) \in Nat /\ ValueOf(T) \in Nat
    BY <1>1, ValueOfNat
  <1> HIDE DEF T
  <1>4. /\ ValueOf(T \ {x}) = ValueOf(T) - untrim(x.amount, UnitDecimals)
        /\ untrim(x.amount, UnitDecimals) \in Nat
    BY <1>1, <1>2, ValueOfRemove
  <1>5. ValueOf(S) = ValueOf(T) - untrim(x.amount, UnitDecimals)
    BY <1>2, <1>4
  <1>6. ValueOf(T) = ValueOf(S) + untrim(x.amount, UnitDecimals)
    BY <1>3, <1>4, <1>5
  <1> QED
    BY <1>1, <1>4, <1>6 DEF T

\* Nothing is worth nothing.
LEMMA ValueOfEmpty == ValueOf({}) = 0
  <1> DEFINE f == [e \in {} |-> untrim(e.amount, UnitDecimals)]
  <1>1. ValueOf({}) = SumFunctionOnSet(f, {})
    BY ValueOfSum
  <1> QED
    BY <1>1, SumEmpty

\* One element is worth its own amount.
LEMMA ValueOfOne ==
  ASSUME NEW x, x.amount \in Trimmed
  PROVE  ValueOf({x}) = untrim(x.amount, UnitDecimals)
  <1>1. HasAmounts({})
    BY FS_EmptySet DEF HasAmounts
  <1>2. {} \cup {x} = {x} /\ x \notin {}
    OBVIOUS
  <1> QED
    BY <1>1, <1>2, ValueOfAdd, ValueOfEmpty

\* What circulates on a chain is a natural number.
LEMMA CirculatingNat ==
  ASSUME balance \in [Chain -> [User -> Nat]], NEW c \in Chain
  PROVE  Circulating(c) \in Nat
  <1> DEFINE f == [u \in User |-> Value(c, balance[c][u])]
  <1>1. \A u \in User : f[u] \in Nat
    BY ValueLinear
  <1>2. Circulating(c) = SumFunctionOnSet(f, User)
    BY DEF Circulating, SumFunction
  <1> HIDE DEF f
  <1> QED
    BY <1>1, <1>2, SumType, NttAssumption

\* So is what its users start with.
LEMMA InitiallyHeldNat ==
  ASSUME NEW c \in Chain
  PROVE  InitiallyHeld(c) \in Nat
  <1> DEFINE f == [u \in User |-> Value(c, InitialBalance[c][u])]
  <1>1. \A u \in User : f[u] \in Nat
    BY ValueLinear, NttAssumption
  <1>2. InitiallyHeld(c) = SumFunctionOnSet(f, User)
    BY DEF InitiallyHeld, SumFunction
  <1> HIDE DEF f
  <1> QED
    BY <1>1, <1>2, SumType, NttAssumption

\* One chain's, or one account's, part of a total changes.
LEMMA OnePoint ==
  ASSUME NEW S, S \subseteq Chain \/ S = User, NEW x \in S, NEW f, NEW h,
         \A y \in S : f[y] \in Int /\ h[y] \in Int,
         \A y \in S \ {x} : h[y] = f[y]
  PROVE  SumFunctionOnSet(h, S) = SumFunctionOnSet(f, S) + h[x] - f[x]
  <1>1. IsFiniteSet(S)
    BY NttAssumption, FS_Subset
  <1> QED
    BY <1>1, SumUpdate

\* Changing one account changes what circulates on its chain by the same value.
LEMMA CirculatingStep ==
  ASSUME balance \in [Chain -> [User -> Nat]], NEW c \in Chain, NEW u \in User, NEW v \in Nat,
         balance' = [balance EXCEPT ![c][u] = v]
  PROVE  /\ balance' \in [Chain -> [User -> Nat]]
         /\ Circulating(c)' = Circulating(c) + Value(c, v) - Value(c, balance[c][u])
         /\ \A d \in Chain \ {c} : Circulating(d)' = Circulating(d)
  <1>1. balance' \in [Chain -> [User -> Nat]]
    OBVIOUS
  <1>2. Circulating(c)' = Circulating(c) + Value(c, v) - Value(c, balance[c][u])
    <2> DEFINE old == [w \in User |-> Value(c, balance[c][w])]
               new == [w \in User |-> Value(c, balance'[c][w])]
    <2>1. balance'[c][u] = v /\ \A w \in User \ {u} : balance'[c][w] = balance[c][w]
      OBVIOUS
    <2>2. \A w \in User : old[w] \in Int /\ new[w] \in Int
      BY <1>1, ValueNat
    <2>3. \A w \in User \ {u} : new[w] = old[w]
      BY <2>1
    <2>4. new[u] = Value(c, v) /\ old[u] = Value(c, balance[c][u])
      BY <2>1
    <2>5. Circulating(c) = SumFunctionOnSet(old, User)
      BY DEF Circulating, SumFunction
    <2>6. Circulating(c)' = SumFunctionOnSet(new, User)
      BY DEF Circulating, SumFunction, Value
    <2> HIDE DEF old, new
    <2>7. SumFunctionOnSet(new, User) = SumFunctionOnSet(old, User) + new[u] - old[u]
      BY <2>2, <2>3, OnePoint
    <2> QED
      BY <2>4, <2>5, <2>6, <2>7
  <1>3. ASSUME NEW d \in Chain \ {c} PROVE Circulating(d)' = Circulating(d)
    <2>1. balance'[d] = balance[d]
      OBVIOUS
    <2>2. Circulating(d)' = SumFunction([w \in User |-> Value(d, balance'[d][w])])
      BY DEF Circulating, Value
    <2> QED
      BY <2>1, <2>2 DEF Circulating
  <1> QED
    BY <1>1, <1>2, <1>3

\* What a change of one account's balance does to the totals.
LEMMA HoldingsStep ==
  ASSUME balance \in [Chain -> [User -> Nat]], NEW c \in Chain, NEW u \in User, NEW v \in Nat,
         balance' = [balance EXCEPT ![c][u] = v]
  PROVE  /\ Holdings' = Holdings + Value(c, v) - Value(c, balance[c][u])
         /\ Minted' = IF c \in Locking THEN Minted
                      ELSE Minted + Value(c, v) - Value(c, balance[c][u])
  <1> DEFINE delta == Value(c, v) - Value(c, balance[c][u])
             old == [d \in Chain |-> Circulating(d)]
             new == [d \in Chain |-> Circulating(d)']
             F == [d \in Chain \ Locking |-> Circulating(d) - InitiallyHeld(d)]
             H == [d \in Chain \ Locking |-> Circulating(d)' - InitiallyHeld(d)]
             Burning == Chain \ Locking
  <1>1. /\ balance' \in [Chain -> [User -> Nat]]
        /\ Circulating(c)' = Circulating(c) + Value(c, v) - Value(c, balance[c][u])
        /\ \A d \in Chain \ {c} : Circulating(d)' = Circulating(d)
    BY CirculatingStep
  <1>2. \A d \in Chain : Circulating(d) \in Nat
    BY CirculatingNat
  <1>3. delta \in Int /\ Value(c, v) \in Int /\ Value(c, balance[c][u]) \in Int
    BY ValueNat
  <1>4. \A d \in Chain : Circulating(d)' \in Int
    BY <1>1, <1>2, <1>3
  <1>5. Holdings = SumFunctionOnSet(old, Chain) /\ Minted = SumFunctionOnSet(F, Burning)
    BY DEF Holdings, Minted, SumFunction
  <1>6. Holdings' = SumFunctionOnSet(new, Chain)
    BY DEF Holdings, SumFunction
  <1>7. Minted' = SumFunctionOnSet(H, Burning)
    <2>1. \A d : InitiallyHeld(d)' = InitiallyHeld(d)
      BY DEF InitiallyHeld, Value
    <2> QED
      BY <2>1 DEF Minted, SumFunction
  <1>8. IsFiniteSet(Chain) /\ IsFiniteSet(Burning)
    BY NttAssumption, FS_Subset
  <1>9. Holdings' = Holdings + Value(c, v) - Value(c, balance[c][u])
    <2>1. \A d \in Chain : old[d] \in Int /\ new[d] \in Int
      BY <1>2, <1>4
    <2>2. \A d \in Chain \ {c} : new[d] = old[d]
      BY <1>1
    <2>3. new[c] = old[c] + delta /\ old[c] \in Int
      BY <1>1, <1>2, <1>3
    <2> HIDE DEF old, new
    <2>4. SumFunctionOnSet(old, Chain) \in Int
      BY <2>1, <1>8, SumType
    <2>5. SumFunctionOnSet(new, Chain) = SumFunctionOnSet(old, Chain) + new[c] - old[c]
      BY <2>1, <2>2, OnePoint
    <2> QED
      BY <2>3, <2>4, <2>5, <1>3, <1>5, <1>6
  <1>10. \A d \in Burning : F[d] \in Int /\ H[d] \in Int
    BY <1>2, <1>4, InitiallyHeldNat
  <1>11. CASE c \in Locking
    <2>1. \A d \in Burning : H[d] = F[d]
      BY <1>1, <1>11
    <2> HIDE DEF F, H, Burning
    <2>2. SumFunctionOnSet(H, Burning) = SumFunctionOnSet(F, Burning)
      BY <2>1, <1>8, <1>10, SumSame
    <2> QED
      BY <2>2, <1>5, <1>7, <1>9, <1>11
  <1>12. CASE c \notin Locking
    <2>1. c \in Burning /\ \A d \in Burning \ {c} : H[d] = F[d]
      BY <1>1, <1>12
    <2>2. H[c] = F[c] + delta
      BY <1>1, <1>2, <1>3, <1>12, InitiallyHeldNat
    <2> HIDE DEF F, H, Burning
    <2>3. SumFunctionOnSet(F, Burning) \in Int
      BY <1>8, <1>10, SumType
    <2>4. SumFunctionOnSet(H, Burning) = SumFunctionOnSet(F, Burning) + H[c] - F[c]
      BY <2>1, <1>8, <1>10, SumUpdate
    <2> QED
      BY <2>1, <2>2, <2>3, <2>4, <1>3, <1>5, <1>7, <1>9, <1>10, <1>12
  <1> QED
    BY <1>9, <1>11, <1>12

\* Changing one custody changes what is locked by the same value.
LEMMA LockedStep ==
  ASSUME custody \in [Chain -> Nat], NEW c \in Chain, NEW v \in Nat,
         custody' = [custody EXCEPT ![c] = v]
  PROVE  Locked' = IF c \in Locking THEN Locked + Value(c, v) - Value(c, custody[c])
                   ELSE Locked
  <1> DEFINE old == [d \in Locking |-> Value(d, custody[d])]
             new == [d \in Locking |-> Value(d, custody'[d])]
  <1>1. Locking \subseteq Chain /\ IsFiniteSet(Locking)
    BY NttAssumption, FS_Subset
  <1>2. custody' \in [Chain -> Nat] /\ custody'[c] = v
    OBVIOUS
  <1>3. \A d \in Locking : old[d] \in Int /\ new[d] \in Int
    BY <1>1, <1>2, ValueNat
  <1>4. Locked = SumFunctionOnSet(old, Locking)
    BY DEF Locked, SumFunction
  <1>5. Locked' = SumFunctionOnSet(new, Locking)
    BY DEF Locked, SumFunction, Value
  <1>6. CASE c \in Locking
    <2>1. \A d \in Locking \ {c} : new[d] = old[d]
      BY <1>1
    <2>2. new[c] = Value(c, v) /\ old[c] = Value(c, custody[c])
      BY <1>2, <1>6
    <2> HIDE DEF old, new
    <2>3. SumFunctionOnSet(new, Locking) = SumFunctionOnSet(old, Locking) + new[c] - old[c]
      BY <2>1, <1>1, <1>3, <1>6, OnePoint
    <2> QED
      BY <2>2, <2>3, <1>4, <1>5, <1>6
  <1>7. CASE c \notin Locking
    <2>1. \A d \in Locking : new[d] = old[d]
      BY <1>1, <1>7
    <2> HIDE DEF old, new
    <2>2. SumFunctionOnSet(new, Locking) = SumFunctionOnSet(old, Locking)
      BY <2>1, <1>1, <1>3, SumSame
    <2> QED
      BY <2>2, <1>4, <1>5, <1>7
  <1> QED
    BY <1>6, <1>7

\* The types of the totals.
LEMMA TotalsType ==
  ASSUME TypeInv
  PROVE  Holdings \in Nat /\ Minted \in Int /\ Locked \in Int /\ fees \in Nat
  <1> DEFINE f == [d \in Chain |-> Circulating(d)]
             Burning == Chain \ Locking
             g == [d \in Burning |-> Circulating(d) - InitiallyHeld(d)]
             h == [d \in Locking |-> Value(d, custody[d])]
  <1>1. IsFiniteSet(Chain) /\ IsFiniteSet(Burning) /\ IsFiniteSet(Locking)
    BY NttAssumption, FS_Subset
  <1>2. \A d \in Chain : f[d] \in Nat
    BY CirculatingNat DEF TypeInv
  <1>3. \A d \in Burning : g[d] \in Int
    BY <1>2, InitiallyHeldNat
  <1>4. \A d \in Locking : h[d] \in Int
    BY ValueNat, NttAssumption DEF TypeInv
  <1>5. /\ Holdings = SumFunctionOnSet(f, Chain)
        /\ Minted = SumFunctionOnSet(g, Burning)
        /\ Locked = SumFunctionOnSet(h, Locking)
    BY DEF Holdings, Minted, Locked, SumFunction
  <1> HIDE DEF f, g, h, Burning
  <1>6. SumFunctionOnSet(f, Chain) \in Nat
    BY <1>1, <1>2, SumType
  <1>7. SumFunctionOnSet(g, Burning) \in Int
    BY <1>1, <1>3, SumType
  <1>8. SumFunctionOnSet(h, Locking) \in Int
    BY <1>1, <1>4, SumType
  <1> QED
    BY <1>5, <1>6, <1>7, <1>8 DEF TypeInv

\* Tokens that are taken leave the holders whole, and what the manager does
\* not burn it holds.
LEMMA TakenTokens ==
  ASSUME TypeInv, NEW c \in Chain, NEW u \in User, NEW a \in Nat, lockOrBurn(c, u, a)
  PROVE  /\ received(c, a) \in Nat
         /\ Value(c, received(c, a)) \in Nat
         /\ Holdings' + fees' = Holdings + fees - Value(c, received(c, a))
         /\ Locked' - Minted' >= Locked - Minted + Value(c, received(c, a))
         /\ balance' \in [Chain -> [User -> Nat]]
         /\ custody' \in [Chain -> Nat]
         /\ fees' \in Nat
  <1> DEFINE fee == TransferFee[c]
             r == received(c, a)
             v == balance[c][u] - a
             k == IF c \in Locking THEN custody[c] + r ELSE custody[c]
  <1>1. fee \in Nat /\ balance[c][u] \in Nat /\ custody[c] \in Nat
    BY NttAssumption DEF TypeInv
  <1>2. fee <= a /\ a <= balance[c][u] /\ fees' = fees + Value(c, fee)
    BY DEF lockOrBurn
  <1>3. r = a - fee /\ r \in Nat /\ v \in Nat /\ k \in Nat
    BY <1>1, <1>2 DEF received
  <1>4. balance' = [balance EXCEPT ![c][u] = v]
    BY DEF lockOrBurn, TypeInv
  <1>5. custody' = [custody EXCEPT ![c] = k]
    BY DEF lockOrBurn
  <1> DEFINE va == Value(c, a)
             vf == Value(c, fee)
             vr == Value(c, r)
  <1>6. va \in Nat /\ vf \in Nat /\ vr \in Nat /\ vr = va - vf
    <2> HIDE DEF fee, r
    <2>1. va \in Nat /\ vf \in Nat /\ vr \in Nat
      BY <1>1, <1>3, ValueNat
    <2>2. vr = va - vf
      BY <1>1, <1>3, ValueMinus
    <2> QED
      BY <2>1, <2>2
  <1>7. Value(c, v) = Value(c, balance[c][u]) - va /\ Value(c, balance[c][u]) \in Nat
    BY <1>1, <1>2, ValueNat, ValueLinear
  <1>8. Value(c, k) = IF c \in Locking THEN Value(c, custody[c]) + vr ELSE Value(c, custody[c])
    BY <1>1, <1>3, ValueLinear
  <1>9. Value(c, custody[c]) \in Nat
    BY <1>1, ValueNat
  <1>10. Holdings \in Int /\ Minted \in Int /\ Locked \in Int /\ fees \in Nat
    BY TotalsType
  <1> HIDE DEF va, vf, vr, v, k, r, fee
  <1>11. /\ Holdings' = Holdings + Value(c, v) - Value(c, balance[c][u])
         /\ Minted' = IF c \in Locking THEN Minted
                      ELSE Minted + Value(c, v) - Value(c, balance[c][u])
    BY <1>3, <1>4, HoldingsStep DEF TypeInv
  <1>12. Locked' = IF c \in Locking THEN Locked + Value(c, k) - Value(c, custody[c]) ELSE Locked
    BY <1>3, <1>5, LockedStep DEF TypeInv
  <1>13. fees' = fees + vf
    BY <1>2 DEF vf
  <1>14. Holdings' + fees' = Holdings + fees - vr
    BY <1>6, <1>7, <1>10, <1>11, <1>13
  <1>15. Locked' - Minted' >= Locked - Minted + vr
    BY <1>6, <1>7, <1>8, <1>9, <1>10, <1>11, <1>12
  <1>16. balance' \in [Chain -> [User -> Nat]] /\ custody' \in [Chain -> Nat]
    BY <1>3, <1>4, <1>5 DEF TypeInv
  <1>17. fees' \in Nat
    BY <1>6, <1>10, <1>13
  <1> QED
    BY <1>3, <1>6, <1>14, <1>15, <1>16, <1>17 DEF vr, r

\* Tokens that are paid out have the value of the trimmed amount.
LEMMA PaidTokens ==
  ASSUME TypeInv, NEW c \in Chain, NEW u \in User, NEW t \in Trimmed, Exact(t, c),
         mintOrUnlockToRecipient(c, u, t)
  PROVE  /\ untrim(t, UnitDecimals) \in Nat
         /\ Holdings' + fees' = Holdings + fees + untrim(t, UnitDecimals)
         /\ Locked' - Minted' = Locked - Minted - untrim(t, UnitDecimals)
         /\ balance' \in [Chain -> [User -> Nat]]
         /\ custody' \in [Chain -> Nat]
         /\ fees' \in Nat
  <1> DEFINE fee == TransferFee[c]
             a == untrim(t, tokenDecimals[c])
             b == balance[c][u]
             va == Value(c, a)
             vf == Value(c, fee)
             vb == Value(c, b)
  <1>1. fee \in Nat /\ b \in Nat /\ custody[c] \in Nat
    BY NttAssumption DEF TypeInv
  <1>2. a \in Nat /\ va = untrim(t, UnitDecimals)
    BY ValueUntrim
  <1>3. va \in Nat /\ vf \in Nat /\ vb \in Nat /\ Value(c, custody[c]) \in Nat
    BY <1>1, <1>2, ValueNat
  <1>4. Holdings \in Int /\ Minted \in Int /\ Locked \in Int /\ fees \in Nat
    BY TotalsType
  <1>5. CASE c \in Locking
    <2> DEFINE v == b + a - fee
               k == custody[c] - a
    <2>1. fee <= a /\ a <= custody[c] /\ fees' = fees + vf
      BY <1>5 DEF mintOrUnlockToRecipient, canMintOrUnlock
    <2>2. v \in Nat /\ k \in Nat /\ b + a \in Nat /\ fee <= b + a
      BY <1>1, <1>2, <2>1
    <2>3. balance' = [balance EXCEPT ![c][u] = v] /\ custody' = [custody EXCEPT ![c] = k]
      BY <1>5 DEF mintOrUnlockToRecipient, TypeInv
    <2>4. Value(c, v) = vb + va - vf
      <3> DEFINE s == b + a
      <3> HIDE DEF a, b, fee
      <3>1. s \in Nat /\ v = s - fee /\ s = b + a
        BY <1>1, <1>2
      <3> HIDE DEF v, s
      <3>2. Value(c, s) = vb + va
        BY <1>1, <1>2, <3>1, ValuePlus
      <3>3. Value(c, v) = Value(c, s) - vf
        BY <1>1, <2>2, <3>1, ValueMinus
      <3> HIDE DEF va, vf, vb
      <3> QED
        BY <1>3, <3>2, <3>3
    <2>5. Value(c, k) = Value(c, custody[c]) - va
      BY <1>1, <1>2, <2>1, ValueLinear
    <2> HIDE DEF va, vf, vb, v, k, a, b, fee
    <2>6. Holdings' = Holdings + Value(c, v) - vb /\ Minted' = Minted
      BY <1>5, <2>2, <2>3, HoldingsStep DEF TypeInv, vb, b
    <2>7. Locked' = Locked + Value(c, k) - Value(c, custody[c])
      BY <1>5, <2>2, <2>3, LockedStep DEF TypeInv
    <2>8. Holdings' + fees' = Holdings + fees + va
      BY <1>3, <1>4, <2>1, <2>4, <2>6
    <2>9. Locked' - Minted' = Locked - Minted - va
      BY <1>3, <1>4, <2>5, <2>6, <2>7
    <2>10. balance' \in [Chain -> [User -> Nat]] /\ custody' \in [Chain -> Nat]
      BY <2>2, <2>3 DEF TypeInv
    <2>11. fees' \in Nat
      BY <1>3, <1>4, <2>1
    <2> QED
      BY <1>2, <1>3, <2>8, <2>9, <2>10, <2>11
  <1>6. CASE c \notin Locking
    <2> DEFINE v == b + a
    <2>1. v \in Nat /\ fees' = fees /\ custody' = custody
      BY <1>1, <1>2, <1>6 DEF mintOrUnlockToRecipient
    <2>2. balance' = [balance EXCEPT ![c][u] = v]
      BY <1>6 DEF mintOrUnlockToRecipient, TypeInv
    <2>3. Value(c, v) = vb + va
      BY <1>1, <1>2, ValueLinear
    <2> HIDE DEF va, vf, vb, v, a, b, fee
    <2>4. Holdings' = Holdings + Value(c, v) - vb /\ Minted' = Minted + Value(c, v) - vb
      BY <1>6, <2>1, <2>2, HoldingsStep DEF TypeInv, vb, b
    <2>5. Locked' = Locked
      BY <2>1 DEF Locked
    <2>6. Holdings' + fees' = Holdings + fees + va
      BY <1>3, <1>4, <2>1, <2>3, <2>4
    <2>7. Locked' - Minted' = Locked - Minted - va
      BY <1>3, <1>4, <2>3, <2>4, <2>5
    <2>8. balance' \in [Chain -> [User -> Nat]] /\ custody' \in [Chain -> Nat]
      BY <2>1, <2>2 DEF TypeInv
    <2> QED
      BY <1>2, <1>3, <1>4, <2>1, <2>6, <2>7, <2>8
  <1> QED
    BY <1>5, <1>6

-----------------------------------------------------------------------------
(* What a step does to the transfers.                                      *)

\* The variables that only have a type to keep.
TypesKept ==
    /\ balance' \in [Chain -> [User -> Nat]]
    /\ custody' \in [Chain -> Nat]
    /\ fees' \in Nat
    /\ now' \in [Chain -> Nat]

\* Holders lose the value w, which is locked or burnt.
Taken(w) ==
    /\ TypesKept
    /\ w \in Nat
    /\ Holdings' + fees' = Holdings + fees - w
    /\ Locked' - Minted' >= Locked - Minted + w

\* Holders get the value w, which is unlocked or minted.
Given(w) ==
    /\ TypesKept
    /\ w \in Nat
    /\ Holdings' + fees' = Holdings + fees + w
    /\ Locked' - Minted' = Locked - Minted - w

\* The totals stay.
Kept ==
    /\ TypesKept
    /\ Holdings' + fees' = Holdings + fees
    /\ Locked' - Minted' = Locked - Minted

\* The value w is what the manager gets of an amount a user may ask for.
Requested(c, w) ==
    \E a \in Amount[c] : TransferFee[c] <= a /\ w = Value(c, received(c, a))

\* A transfer starts and is queued.
StartQueued(c, q) ==
    /\ q \in OutEntry
    /\ q.sequence = messageSequence[c]
    /\ messageSequence[c] < MaxSequence[c]
    /\ Exact(q.amount, c) /\ Exact(q.amount, q.recipientChain)
    /\ messageSequence' = [messageSequence EXCEPT ![c] = @ + 1]
    /\ outboundQueue' = [outboundQueue EXCEPT ![c] = @ \cup {q}]
    /\ UNCHANGED <<inboundQueue, sent, executed, cancelled, paid>>
    /\ Taken(untrim(q.amount, UnitDecimals))
    /\ Requested(c, untrim(q.amount, UnitDecimals))

\* A transfer starts and is sent at once.
StartSent(c, m) ==
    /\ m \in Message
    /\ m.from = c
    /\ m.sequence = messageSequence[c]
    /\ messageSequence[c] < MaxSequence[c]
    /\ Exact(m.amount, m.to)
    /\ messageSequence' = [messageSequence EXCEPT ![c] = @ + 1]
    /\ sent' = sent \cup {m}
    /\ UNCHANGED <<outboundQueue, inboundQueue, executed, cancelled, paid>>
    /\ Taken(untrim(m.amount, UnitDecimals))
    /\ Requested(c, untrim(m.amount, UnitDecimals))

\* A queued transfer is sent.
Release(c, q, m) ==
    /\ q \in outboundQueue[c]
    /\ m \in Message
    /\ m.from = c /\ m.sequence = q.sequence /\ m.amount = q.amount
    /\ Exact(m.amount, m.to)
    /\ outboundQueue' = [outboundQueue EXCEPT ![c] = @ \ {q}]
    /\ sent' = sent \cup {m}
    /\ UNCHANGED <<messageSequence, inboundQueue, executed, cancelled, paid>>
    /\ Kept

\* A queued transfer is cancelled.
Refund(c, q) ==
    /\ q \in outboundQueue[c]
    /\ outboundQueue' = [outboundQueue EXCEPT ![c] = @ \ {q}]
    /\ cancelled' = cancelled \cup {<<c, q.sequence>>}
    /\ UNCHANGED <<messageSequence, inboundQueue, sent, executed, paid>>
    /\ Given(untrim(q.amount, UnitDecimals))

\* A message is executed and its payment queued.
Arrive(c, m, q) ==
    /\ m \in sent \ executed
    /\ m.to = c
    /\ q \in InEntry
    /\ q.message = m
    /\ Exact(q.amount, c)
    /\ untrim(q.amount, UnitDecimals) = untrim(m.amount, UnitDecimals)
    /\ executed' = executed \cup {m}
    /\ inboundQueue' = [inboundQueue EXCEPT ![c] = @ \cup {q}]
    /\ UNCHANGED <<messageSequence, outboundQueue, sent, cancelled, paid>>
    /\ Kept

\* A message is executed and paid.
PayAtOnce(m) ==
    /\ m \in sent \ executed
    /\ executed' = executed \cup {m}
    /\ paid' = paid \cup {m}
    /\ UNCHANGED <<messageSequence, outboundQueue, inboundQueue, sent, cancelled>>
    /\ Given(untrim(m.amount, UnitDecimals))

\* A queued payment is made.
PayLater(c, q) ==
    /\ q \in inboundQueue[c]
    /\ inboundQueue' = [inboundQueue EXCEPT ![c] = @ \ {q}]
    /\ paid' = paid \cup {q.message}
    /\ UNCHANGED <<messageSequence, outboundQueue, sent, executed, cancelled>>
    /\ Given(untrim(q.amount, UnitDecimals))

\* No transfer moves: limits, pauses and time.
Aside ==
    /\ UNCHANGED <<messageSequence, outboundQueue, inboundQueue, sent, executed,
                   cancelled, paid>>
    /\ UNCHANGED tokenVars
    /\ Kept

\* The eight forms a step may have.
SomeStep ==
    \/ \E c \in Chain :
          \/ \E q \in OutEntry : StartQueued(c, q)
          \/ \E m \in Message : StartSent(c, m)
          \/ \E q \in outboundQueue[c] : \E m \in Message : Release(c, q, m)
          \/ \E q \in outboundQueue[c] : Refund(c, q)
          \/ \E m \in sent : \E q \in InEntry : Arrive(c, m, q)
          \/ \E m \in sent : PayAtOnce(m)
          \/ \E q \in inboundQueue[c] : PayLater(c, q)
    \/ Aside

\* The tokens stay where they are.
LEMMA TokensKept ==
  ASSUME TypeInv, UNCHANGED tokenVars, now' \in [Chain -> Nat]
  PROVE  Kept
  <1>1. balance' = balance /\ custody' = custody /\ fees' = fees
    BY DEF tokenVars
  <1>2. Holdings' = Holdings /\ Minted' = Minted /\ Locked' = Locked
    <2>1. \A c : Circulating(c)' = Circulating(c)
      BY <1>1 DEF Circulating
    <2> QED
      BY <1>1, <2>1 DEF Holdings, Minted, Locked
  <1> QED
    BY <1>1, <1>2 DEF Kept, TypesKept, TypeInv

\* transfer starts a transfer, queued or sent.
LEMMA StepTransfer ==
  ASSUME TypeInv, NEW c \in Chain, NEW u \in User, NEW r \in User,
         NEW p \in Chain, NEW a \in Amount[c], NEW b \in BOOLEAN,
         NEW skip \in BOOLEAN, transfer(c, u, p, r, a, b, skip)
  PROVE  SomeStep
  <1> DEFINE x == received(c, a)
             t == trim(x, tokenDecimals[c], tokenDecimals[p])
             w == untrim(t, UnitDecimals)
  <1>1. a \in Nat
    BY NttAssumption
  <1>2. lockOrBurn(c, u, a) /\ trimTransferAmount(c, p, x) /\ now' = now
    BY DEF transfer
  <1>3. /\ x \in Nat /\ Value(c, x) \in Nat
        /\ Holdings' + fees' = Holdings + fees - Value(c, x)
        /\ Locked' - Minted' >= Locked - Minted + Value(c, x)
        /\ balance' \in [Chain -> [User -> Nat]]
        /\ custody' \in [Chain -> Nat]
        /\ fees' \in Nat
    BY <1>1, <1>2, TakenTokens
  <1> HIDE DEF x
  <1>4. t \in Trimmed /\ Exact(t, c) /\ Exact(t, p)
    BY <1>3, TrimExact
  <1>5. untrim(t, tokenDecimals[c]) = x
    BY <1>2 DEF trimTransferAmount
  <1> HIDE DEF t
  <1>6. Value(c, x) = w
    BY <1>4, <1>5, ValueUntrim
  <1>7. Taken(w)
    BY <1>2, <1>3, <1>6 DEF Taken, TypesKept, TypeInv
  <1>8. Requested(c, w)
    BY <1>2, <1>6 DEF Requested, lockOrBurn, x
  <1> HIDE DEF w
  <1> DEFINE q == [sequence |-> messageSequence[c], amount |-> t, recipientChain |-> p,
                   recipient |-> r, sender |-> u, skip |-> skip, txTimestamp |-> now[c]]
             m == [from |-> c, to |-> p, sequence |-> messageSequence[c], amount |-> t,
                   recipient |-> r, sender |-> u]
  <1>9. q \in OutEntry /\ m \in Message
    BY <1>4 DEF OutEntry, Message, TypeInv
  <1>10. StartQueued(c, q) \/ StartSent(c, m)
    <2>1. CASE outboundQueue' = [outboundQueue EXCEPT ![c] = @ \cup {q}] /\ sent' = sent
      <3>1. StartQueued(c, q)
        <4>1. /\ messageSequence[c] < MaxSequence[c]
              /\ messageSequence' = [messageSequence EXCEPT ![c] = @ + 1]
              /\ UNCHANGED <<inboundQueue, executed, cancelled, paid>>
          BY DEF transfer
        <4>2. q.sequence = messageSequence[c] /\ q.amount = t /\ q.recipientChain = p
          OBVIOUS
        <4> HIDE DEF q
        <4> QED
          BY <2>1, <1>4, <1>7, <1>8, <1>9, <4>1, <4>2 DEF StartQueued, w
      <3> QED
        BY <3>1
    <2>2. CASE sent' = sent \cup {m} /\ outboundQueue' = outboundQueue
      <3>1. StartSent(c, m)
        <4>1. /\ messageSequence[c] < MaxSequence[c]
              /\ messageSequence' = [messageSequence EXCEPT ![c] = @ + 1]
              /\ UNCHANGED <<inboundQueue, executed, cancelled, paid>>
          BY DEF transfer
        <4>2. m.sequence = messageSequence[c] /\ m.amount = t /\ m.from = c /\ m.to = p
          OBVIOUS
        <4> HIDE DEF m
        <4> QED
          BY <2>2, <1>4, <1>7, <1>8, <1>9, <4>1, <4>2 DEF StartSent, w
      <3> QED
        BY <3>1
    <2> QED
      BY <2>1, <2>2 DEF transfer, t, x
  <1> QED
    BY <1>9, <1>10 DEF SomeStep

\* completeOutboundQueuedTransfer releases one.
LEMMA StepComplete ==
  ASSUME TypeInv, AmountInv, NEW c \in Chain, NEW q \in outboundQueue[c],
         completeOutboundQueuedTransfer(c, q)
  PROVE  SomeStep
  <1> DEFINE m == [from |-> c, to |-> q.recipientChain, sequence |-> q.sequence,
                   amount |-> q.amount, recipient |-> q.recipient, sender |-> q.sender]
  <1>1. q \in OutEntry
    BY DEF TypeInv
  <1>2. m \in Message
    BY <1>1 DEF OutEntry, Message
  <1>3. Exact(q.amount, q.recipientChain)
    BY DEF AmountInv
  <1>4. Kept
    BY TokensKept DEF completeOutboundQueuedTransfer, TypeInv
  <1>5. Release(c, q, m)
    BY <1>2, <1>3, <1>4 DEF Release, completeOutboundQueuedTransfer
  <1> QED
    BY <1>2, <1>5 DEF SomeStep

\* cancelOutboundQueuedTransfer refunds one.
LEMMA StepCancel ==
  ASSUME TypeInv, AmountInv, NEW c \in Chain, NEW u \in User, NEW q \in outboundQueue[c],
         cancelOutboundQueuedTransfer(c, u, q)
  PROVE  SomeStep
  <1>1. q.amount \in Trimmed /\ Exact(q.amount, c)
    BY DEF TypeInv, AmountInv, OutEntry
  <1>2. mintOrUnlockToRecipient(c, u, q.amount) /\ now' = now
    BY DEF cancelOutboundQueuedTransfer
  <1>3. Given(untrim(q.amount, UnitDecimals))
    BY <1>1, <1>2, PaidTokens DEF Given, TypesKept, TypeInv
  <1>4. Refund(c, q)
    BY <1>3 DEF Refund, cancelOutboundQueuedTransfer
  <1> QED
    BY <1>4 DEF SomeStep

\* executeMsg pays at once or queues the payment.
LEMMA StepExecute ==
  ASSUME TypeInv, AmountInv, NEW c \in Chain, NEW m \in sent, executeMsg(c, m)
  PROVE  SomeStep
  <1> DEFINE t == nativeTransferAmount(m)
             q == [message |-> m, amount |-> t, recipient |-> m.recipient, txTimestamp |-> now[c]]
  <1>1. /\ m \in Message /\ Exact(m.amount, m.to) /\ m.to = c
        /\ m \notin executed /\ now' = now
    BY DEF TypeInv, AmountInv, executeMsg, executable
  <1>2. /\ t \in Trimmed /\ Exact(t, c)
        /\ untrim(t, UnitDecimals) = untrim(m.amount, UnitDecimals)
    BY <1>1, NativeExact
  <1> HIDE DEF t
  <1>3. /\ executed' = executed \cup {m}
        /\ UNCHANGED <<messageSequence, outboundQueue, sent, cancelled>>
    BY DEF executeMsg
  <1>4. \/ /\ inboundQueue' = [inboundQueue EXCEPT ![c] = @ \cup {q}]
           /\ UNCHANGED <<tokenVars, paid>>
        \/ /\ mintOrUnlockToRecipient(c, m.recipient, t)
           /\ paid' = paid \cup {m}
           /\ inboundQueue' = inboundQueue
    BY DEF executeMsg, t
  <1>5. CASE /\ inboundQueue' = [inboundQueue EXCEPT ![c] = @ \cup {q}]
             /\ UNCHANGED <<tokenVars, paid>>
    <2>1. q \in InEntry
      BY <1>1, <1>2 DEF InEntry, Message, TypeInv
    <2>2. Kept
      BY <1>1, <1>5, TokensKept DEF TypeInv
    <2>3. Arrive(c, m, q)
      BY <1>1, <1>2, <1>3, <1>5, <2>1, <2>2 DEF Arrive
    <2> QED
      BY <2>1, <2>3 DEF SomeStep
  <1>6. CASE mintOrUnlockToRecipient(c, m.recipient, t) /\ paid' = paid \cup {m}
               /\ inboundQueue' = inboundQueue
    <2>1. m.recipient \in User
      BY <1>1 DEF Message
    <2>2. Given(untrim(t, UnitDecimals))
      BY <1>1, <1>2, <1>6, <2>1, PaidTokens DEF Given, TypesKept, TypeInv
    <2>3. PayAtOnce(m)
      BY <1>1, <1>2, <1>3, <1>6, <2>2 DEF PayAtOnce
    <2> QED
      BY <2>3 DEF SomeStep
  <1> QED
    BY <1>4, <1>5, <1>6

\* completeInboundQueuedTransfer pays later.
LEMMA StepPay ==
  ASSUME TypeInv, AmountInv, NEW c \in Chain, NEW q \in inboundQueue[c],
         completeInboundQueuedTransfer(c, q)
  PROVE  SomeStep
  <1>1. q.amount \in Trimmed /\ Exact(q.amount, c) /\ q.recipient \in User
    BY DEF TypeInv, AmountInv, InEntry
  <1>2. mintOrUnlockToRecipient(c, q.recipient, q.amount) /\ now' = now
    BY DEF completeInboundQueuedTransfer
  <1>3. Given(untrim(q.amount, UnitDecimals))
    BY <1>1, <1>2, PaidTokens DEF Given, TypesKept, TypeInv
  <1>4. PayLater(c, q)
    BY <1>3 DEF PayLater, completeInboundQueuedTransfer
  <1> QED
    BY <1>4 DEF SomeStep

\* Every step is one of these.
LEMMA Steps ==
  ASSUME TypeInv, AmountInv, [Next]_vars
  PROVE  SomeStep
  <1>1. ASSUME UNCHANGED tokenVars,
               UNCHANGED <<messageSequence, outboundQueue, inboundQueue, sent, executed,
                           cancelled, paid>>,
               now' \in [Chain -> Nat]
        PROVE  SomeStep
    BY <1>1, TokensKept DEF SomeStep, Aside
  <1>2. CASE UNCHANGED vars
    BY <1>1, <1>2 DEF vars, tokenVars, TypeInv
  <1>3. ASSUME NEW c \in Chain,
               \/ \E l \in Limit[c] :
                     setOutboundLimit(c, l) \/ \E s \in Chain \ {c} : setInboundLimit(c, s, l)
               \/ pause(c)
               \/ unpause(c)
               \/ tick(c)
        PROVE  SomeStep
    <2>1. now' \in [Chain -> Nat]
      BY <1>3 DEF setOutboundLimit, setInboundLimit, pause, unpause, tick, TypeInv
    <2>2. /\ UNCHANGED tokenVars
          /\ UNCHANGED <<messageSequence, outboundQueue, inboundQueue, sent, executed,
                         cancelled, paid>>
      BY <1>3 DEF setOutboundLimit, setInboundLimit, pause, unpause, tick
    <2> QED
      BY <1>1, <2>1, <2>2
  <1>4. CASE Next
    BY <1>3, <1>4, StepTransfer, StepComplete, StepCancel, StepExecute, StepPay DEF Next
  <1> QED
    BY <1>2, <1>4


\* The invariant without the totals.
BaseInv == TypeInv /\ FiniteInv /\ AmountInv /\ OutInv /\ InInv

\* Every sequence in use is below the next one.
LEMMA SequenceFacts ==
  ASSUME BaseInv
  PROVE  /\ \A d \in Chain : /\ messageSequence[d] \in Nat /\ MaxSequence[d] \in Nat
                             /\ messageSequence[d] <= MaxSequence[d]
         /\ \A d \in Chain : \A r \in outboundQueue[d] :
               r.sequence \in Nat /\ r.sequence < messageSequence[d]
         /\ \A m \in sent : /\ m.from \in Chain /\ m.sequence \in Nat
                            /\ m.sequence < messageSequence[m.from]
         /\ \A x \in cancelled : x[1] \in Chain /\ x[2] \in Nat /\ x[2] < messageSequence[x[1]]
  <1>1. TypeInv /\ OutInv
    BY DEF BaseInv
  <1>2. \A d \in Chain : messageSequence[d] \in Nat /\ MaxSequence[d] \in Nat
    BY <1>1, NttAssumption DEF TypeInv
  <1>3. \A d \in Chain : messageSequence[d] <= MaxSequence[d]
    BY <1>1 DEF OutInv
  <1>4. \A d \in Chain : \A r \in outboundQueue[d] : r \in OutEntry
    BY <1>1 DEF TypeInv
  <1>5. \A d \in Chain : \A r \in outboundQueue[d] : r.sequence \in Nat
    BY <1>4 DEF OutEntry
  <1>6. \A d \in Chain : \A r \in outboundQueue[d] : r.sequence < messageSequence[d]
    BY <1>1 DEF OutInv
  <1>7. \A m \in sent : m.from \in Chain /\ m.sequence \in Nat
    BY <1>1 DEF TypeInv, Message
  <1>8. \A m \in sent : m.sequence < messageSequence[m.from]
    BY <1>1 DEF OutInv
  <1>9. \A x \in cancelled : x[1] \in Chain /\ x[2] \in Nat
    BY <1>1 DEF TypeInv
  <1>10. \A x \in cancelled : x[2] < messageSequence[x[1]]
    BY <1>1 DEF OutInv
  <1> QED
    BY <1>2, <1>3, <1>5, <1>6, <1>7, <1>8, <1>9, <1>10

\* The new entry's sequence is unused, so it names no other transfer.
LEMMA BaseStartQueued ==
  ASSUME BaseInv, NEW c \in Chain, NEW q \in OutEntry, StartQueued(c, q)
  PROVE  BaseInv'
  <1> USE DEF BaseInv
  <1>1. TypeInv'
    BY DEF TypeInv, OutEntry, StartQueued, Taken, TypesKept
  <1>2. FiniteInv'
    BY FS_AddElement, FS_RemoveElement DEF FiniteInv, TypeInv, StartQueued
  <1>3. AmountInv'
    BY DEF AmountInv, TypeInv, Exact, StartQueued
  <1>4. OutInv'
    <2>1. /\ messageSequence'[c] = messageSequence[c] + 1
          /\ \A d \in Chain \ {c} : messageSequence'[d] = messageSequence[d]
          /\ messageSequence[c] + 1 <= MaxSequence[c]
      <3>1. messageSequence \in [Chain -> Nat]
        BY DEF TypeInv
      <3>2. /\ messageSequence' = [messageSequence EXCEPT ![c] = @ + 1]
            /\ messageSequence[c] < MaxSequence[c]
        BY DEF StartQueued
      <3>3. messageSequence[c] \in Nat /\ MaxSequence[c] \in Nat
        BY SequenceFacts
      <3>4. messageSequence[c] + 1 <= MaxSequence[c]
        BY <3>2, <3>3
      <3> QED
        BY <3>1, <3>2, <3>4
    <2>2. \A d \in Chain : /\ messageSequence[d] \in Nat
                           /\ messageSequence'[d] \in Nat
                           /\ messageSequence[d] <= messageSequence'[d]
      BY <2>1, SequenceFacts
    <2>3. \A d \in Chain : messageSequence'[d] <= MaxSequence[d]
      BY <2>1, SequenceFacts
    <2>4. \A x \in cancelled' : x[2] < messageSequence'[x[1]]
      <3>1. cancelled' = cancelled
        BY DEF StartQueued
      <3> QED
        BY <2>2, <3>1, SequenceFacts
    <2>5. \A m \in sent' :
            /\ m.sequence < messageSequence'[m.from]
            /\ <<m.from, m.sequence>> \notin cancelled'
            /\ \A k \in sent' : Is(k, m.from, m.sequence) => k = m
      <3>1. \A m \in sent : m.sequence < messageSequence'[m.from]
        BY <2>2, SequenceFacts
      <3> QED
        BY <3>1 DEF OutInv, StartQueued
    <2>6. ASSUME NEW d \in Chain, NEW r \in outboundQueue'[d]
          PROVE  /\ r.sequence < messageSequence'[d]
                 /\ <<d, r.sequence>> \notin cancelled'
                 /\ \A m \in sent' : ~Is(m, d, r.sequence)
                 /\ \A s \in outboundQueue'[d] : s.sequence = r.sequence => s = r
      <3>1. \A s \in outboundQueue[d] : s.sequence \in Nat /\ s.sequence < messageSequence[d]
        BY SequenceFacts
      <3>2. CASE d = c /\ r = q
        <4>1. /\ q.sequence = messageSequence[c]
              /\ outboundQueue'[c] = outboundQueue[c] \cup {q}
          BY DEF StartQueued, TypeInv
        <4>2. <<c, messageSequence[c]>> \notin cancelled
          BY <2>2, SequenceFacts
        <4>3. \A m \in sent : ~Is(m, c, messageSequence[c])
          BY <2>2, SequenceFacts DEF Is
        <4>4. \A s \in outboundQueue[c] : s.sequence # q.sequence
          BY <2>2, <3>1, <3>2, <4>1
        <4>5. q.sequence < messageSequence'[c]
          BY <2>1, <2>2, <4>1
        <4>6. cancelled' = cancelled /\ sent' = sent
          BY DEF StartQueued
        <4> QED
          BY <3>2, <4>1, <4>2, <4>3, <4>4, <4>5, <4>6
      <3>3. CASE r \in outboundQueue[d]
        <4>1. r.sequence < messageSequence'[d]
          BY <2>1, <2>2, <3>1, <3>3
        <4>2. \A s \in outboundQueue'[d] : s \in outboundQueue[d] \/ (d = c /\ s = q)
          BY DEF StartQueued, TypeInv
        <4>3. q.sequence = messageSequence[c]
          BY DEF StartQueued
        <4>4. \A s \in outboundQueue[d] : s.sequence = r.sequence => s = r
          BY <3>3 DEF OutInv
        <4>5. d = c => q.sequence # r.sequence
          BY <2>2, <3>1, <3>3, <4>3
        <4> QED
          BY <3>3, <4>1, <4>2, <4>4, <4>5 DEF OutInv, StartQueued
      <3> QED
        BY <3>2, <3>3 DEF StartQueued, TypeInv
    <2> QED
      BY <2>3, <2>4, <2>5, <2>6 DEF OutInv
  <1>5. InInv'
    BY DEF InInv, TypeInv, Message, InEntry, StartQueued
  <1> QED
    BY <1>1, <1>2, <1>3, <1>4, <1>5

\* Likewise the new message's.
LEMMA BaseStartSent ==
  ASSUME BaseInv, NEW c \in Chain, NEW m \in Message, StartSent(c, m)
  PROVE  BaseInv'
  <1> USE DEF BaseInv
  <1>1. TypeInv'
    BY DEF TypeInv, OutEntry, StartSent, Taken, TypesKept
  <1>2. FiniteInv'
    BY FS_AddElement, FS_RemoveElement DEF FiniteInv, TypeInv, StartSent
  <1>3. AmountInv'
    BY DEF AmountInv, TypeInv, Exact, StartSent
  <1>4. OutInv'
    <2>1. /\ messageSequence'[c] = messageSequence[c] + 1
          /\ \A d \in Chain \ {c} : messageSequence'[d] = messageSequence[d]
          /\ messageSequence[c] + 1 <= MaxSequence[c]
      <3>1. messageSequence \in [Chain -> Nat]
        BY DEF TypeInv
      <3>2. /\ messageSequence' = [messageSequence EXCEPT ![c] = @ + 1]
            /\ messageSequence[c] < MaxSequence[c]
        BY DEF StartSent
      <3>3. messageSequence[c] \in Nat /\ MaxSequence[c] \in Nat
        BY SequenceFacts
      <3>4. messageSequence[c] + 1 <= MaxSequence[c]
        BY <3>2, <3>3
      <3> QED
        BY <3>1, <3>2, <3>4
    <2>2. \A d \in Chain : /\ messageSequence[d] \in Nat
                           /\ messageSequence'[d] \in Nat
                           /\ messageSequence[d] <= messageSequence'[d]
      BY <2>1, SequenceFacts
    <2>3. \A d \in Chain : messageSequence'[d] <= MaxSequence[d]
      BY <2>1, SequenceFacts
    <2>4. \A x \in cancelled' : x[2] < messageSequence'[x[1]]
      <3>1. cancelled' = cancelled
        BY DEF StartSent
      <3> QED
        BY <2>2, <3>1, SequenceFacts
    <2>5. /\ \A k \in sent : ~Is(k, c, messageSequence[c])
          /\ \A d \in Chain : \A q \in outboundQueue[d] :
                ~(d = c /\ q.sequence = messageSequence[c])
          /\ <<c, messageSequence[c]>> \notin cancelled
      BY <2>2, SequenceFacts DEF Is
    <2>6. ASSUME NEW k \in sent'
          PROVE  /\ k.sequence < messageSequence'[k.from]
                 /\ <<k.from, k.sequence>> \notin cancelled'
                 /\ \A l \in sent' : Is(l, k.from, k.sequence) => l = k
      <3>1. m.from = c /\ m.sequence = messageSequence[c] /\ sent' = sent \cup {m}
              /\ cancelled' = cancelled
        BY DEF StartSent
      <3>2. CASE k = m
        <4>1. k.sequence < messageSequence'[k.from]
          BY <2>1, <2>2, <3>1, <3>2
        <4>2. \A l \in sent' : Is(l, k.from, k.sequence) => l = k
          BY <2>5, <3>1, <3>2
        <4> QED
          BY <2>5, <3>1, <3>2, <4>1, <4>2
      <3>3. CASE k \in sent
        <4>1. k.from \in Chain /\ k.sequence \in Nat
          BY <3>3 DEF TypeInv, Message
        <4>2. /\ k.sequence < messageSequence[k.from]
              /\ <<k.from, k.sequence>> \notin cancelled
          BY <3>3 DEF OutInv
        <4>3. k.sequence < messageSequence'[k.from]
          BY <2>1, <2>2, <4>1, <4>2
        <4>4. ~Is(m, k.from, k.sequence)
          BY <2>1, <3>1, <4>1, <4>2 DEF Is
        <4>5. \A l \in sent : Is(l, k.from, k.sequence) => l = k
          BY <3>3 DEF OutInv
        <4> QED
          BY <3>1, <4>2, <4>3, <4>4, <4>5
      <3> QED
        BY <3>1, <3>2, <3>3
    <2>7. ASSUME NEW d \in Chain, NEW r \in outboundQueue'[d]
          PROVE  /\ r.sequence < messageSequence'[d]
                 /\ <<d, r.sequence>> \notin cancelled'
                 /\ \A k \in sent' : ~Is(k, d, r.sequence)
                 /\ \A s \in outboundQueue'[d] : s.sequence = r.sequence => s = r
      <3>1. r \in outboundQueue[d] /\ r.sequence \in Nat
        BY DEF StartSent, TypeInv, OutEntry
      <3>2. r.sequence < messageSequence'[d]
        BY <2>2, <3>1, SequenceFacts
      <3>3. ~Is(m, d, r.sequence)
        BY <2>5, <3>1 DEF Is, StartSent
      <3> QED
        BY <3>1, <3>2, <3>3 DEF OutInv, StartSent
    <2> QED
      BY <2>3, <2>4, <2>6, <2>7 DEF OutInv
  <1>5. InInv'
    BY DEF InInv, TypeInv, Message, InEntry, StartSent
  <1> QED
    BY <1>1, <1>2, <1>3, <1>4, <1>5

\* The message takes over the sequence of the entry that leaves the queue.
LEMMA BaseRelease ==
  ASSUME BaseInv, NEW c \in Chain, NEW q \in outboundQueue[c], NEW m \in Message, Release(c, q, m)
  PROVE  BaseInv'
  <1> USE DEF BaseInv
  <1>1. TypeInv'
    BY DEF TypeInv, OutEntry, Release, Kept, TypesKept
  <1>2. FiniteInv'
    BY FS_AddElement, FS_RemoveElement DEF FiniteInv, TypeInv, Release
  <1>3. AmountInv'
    BY DEF AmountInv, TypeInv, Exact, Release
  <1>4. OutInv'
    BY NttAssumption DEF OutInv, TypeInv, OutEntry, Message, Is, Release
  <1>5. InInv'
    BY DEF InInv, TypeInv, Message, InEntry, Release
  <1> QED
    BY <1>1, <1>2, <1>3, <1>4, <1>5

\* The cancelled sequence leaves the queue.
LEMMA BaseRefund ==
  ASSUME BaseInv, NEW c \in Chain, NEW q \in outboundQueue[c], Refund(c, q)
  PROVE  BaseInv'
  <1> USE DEF BaseInv
  <1>1. TypeInv'
    BY DEF TypeInv, OutEntry, Refund, Given, TypesKept
  <1>2. FiniteInv'
    BY FS_AddElement, FS_RemoveElement DEF FiniteInv, TypeInv, Refund
  <1>3. AmountInv'
    BY DEF AmountInv, TypeInv, Exact, Refund
  <1>4. OutInv'
    BY NttAssumption DEF OutInv, TypeInv, OutEntry, Message, Is, Refund
  <1>5. InInv'
    BY DEF InInv, TypeInv, Message, InEntry, Refund
  <1> QED
    BY <1>1, <1>2, <1>3, <1>4, <1>5

\* The message gets its only inbound entry.
LEMMA BaseArrive ==
  ASSUME BaseInv, NEW c \in Chain, NEW m \in sent, NEW q \in InEntry, Arrive(c, m, q)
  PROVE  BaseInv'
  <1> USE DEF BaseInv
  <1>1. TypeInv'
    BY DEF TypeInv, OutEntry, Arrive, Kept, TypesKept
  <1>2. FiniteInv'
    BY FS_AddElement, FS_RemoveElement DEF FiniteInv, TypeInv, Arrive
  <1>3. AmountInv'
    BY DEF AmountInv, TypeInv, Exact, Arrive
  <1>4. OutInv'
    BY NttAssumption DEF OutInv, TypeInv, OutEntry, Message, Is, Arrive
  <1>5. InInv'
    BY DEF InInv, TypeInv, Message, InEntry, Arrive
  <1> QED
    BY <1>1, <1>2, <1>3, <1>4, <1>5

\* The message is executed and paid in one step and needs no entry.
LEMMA BasePayAtOnce ==
  ASSUME BaseInv, NEW c \in Chain, NEW m \in sent, PayAtOnce(m)
  PROVE  BaseInv'
  <1> USE DEF BaseInv
  <1>1. TypeInv'
    BY DEF TypeInv, OutEntry, PayAtOnce, Given, TypesKept
  <1>2. FiniteInv'
    BY FS_AddElement, FS_RemoveElement DEF FiniteInv, TypeInv, PayAtOnce
  <1>3. AmountInv'
    BY DEF AmountInv, TypeInv, Exact, PayAtOnce
  <1>4. OutInv'
    BY NttAssumption DEF OutInv, TypeInv, OutEntry, Message, Is, PayAtOnce
  <1>5. InInv'
    BY DEF InInv, TypeInv, Message, InEntry, PayAtOnce
  <1> QED
    BY <1>1, <1>2, <1>3, <1>4, <1>5

\* The entry leaves the queue as its message is paid.
LEMMA BasePayLater ==
  ASSUME BaseInv, NEW c \in Chain, NEW q \in inboundQueue[c], PayLater(c, q)
  PROVE  BaseInv'
  <1> USE DEF BaseInv
  <1>1. TypeInv'
    BY DEF TypeInv, OutEntry, PayLater, Given, TypesKept
  <1>2. FiniteInv'
    BY FS_AddElement, FS_RemoveElement DEF FiniteInv, TypeInv, PayLater
  <1>3. AmountInv'
    BY DEF AmountInv, TypeInv, Exact, PayLater
  <1>4. OutInv'
    BY NttAssumption DEF OutInv, TypeInv, OutEntry, Message, Is, PayLater
  <1>5. InInv'
    BY DEF InInv, TypeInv, Message, InEntry, PayLater
  <1> QED
    BY <1>1, <1>2, <1>3, <1>4, <1>5

\* Steps aside of the transfers keep the invariant.
LEMMA BaseAside ==
  ASSUME BaseInv, Aside
  PROVE  BaseInv'
  <1>1. /\ UNCHANGED <<messageSequence, outboundQueue, inboundQueue, sent, executed,
                       cancelled, paid>>
        /\ TypesKept
    BY DEF Aside, Kept
  <1> QED
    BY <1>1 DEF BaseInv, TypeInv, TypesKept, FiniteInv, AmountInv, OutInv, InInv

\* Every form keeps the invariant.
LEMMA BaseStep ==
  ASSUME BaseInv, SomeStep
  PROVE  BaseInv'
  BY BaseStartQueued, BaseStartSent, BaseRelease, BaseRefund, BaseArrive, BasePayAtOnce,
     BasePayLater, BaseAside DEF SomeStep

-----------------------------------------------------------------------------
(* Supply and backing.                                                     *)

\* The value of every queue and of what is sent is defined.
LEMMA QueuesHaveAmounts ==
  ASSUME BaseInv
  PROVE  /\ \A c \in Chain : HasAmounts(outboundQueue[c]) /\ HasAmounts(inboundQueue[c])
         /\ HasAmounts(sent) /\ HasAmounts(sent \ executed)
  <1>1. TypeInv /\ FiniteInv
    BY DEF BaseInv
  <1>2. \A c \in Chain : HasAmounts(outboundQueue[c])
    BY <1>1 DEF TypeInv, FiniteInv, HasAmounts, OutEntry
  <1>3. \A c \in Chain : HasAmounts(inboundQueue[c])
    BY <1>1 DEF TypeInv, FiniteInv, HasAmounts, InEntry
  <1>4. HasAmounts(sent)
    BY <1>1 DEF TypeInv, FiniteInv, HasAmounts, Message
  <1>5. HasAmounts(sent \ executed)
    BY <1>4, FS_Subset DEF HasAmounts
  <1> QED
    BY <1>2, <1>3, <1>4, <1>5

\* The value queued on one chain.
QueuedAt(c) == ValueOf(outboundQueue[c]) + ValueOf(inboundQueue[c])

\* The types of the values on their way.
LEMMA PendingType ==
  ASSUME BaseInv
  PROVE  /\ Queued \in Nat /\ Pending \in Nat /\ ValueOf(sent \ executed) \in Nat
         /\ \A c \in Chain : /\ ValueOf(outboundQueue[c]) \in Nat
                             /\ ValueOf(inboundQueue[c]) \in Nat
                             /\ QueuedAt(c) \in Nat
  <1>1. \A c \in Chain : ValueOf(outboundQueue[c]) \in Nat /\ ValueOf(inboundQueue[c]) \in Nat
    BY QueuesHaveAmounts, ValueOfNat
  <1>2. \A c \in Chain : QueuedAt(c) \in Nat
    BY <1>1 DEF QueuedAt
  <1>3. ValueOf(sent \ executed) \in Nat
    BY QueuesHaveAmounts, ValueOfNat
  <1> DEFINE f == [c \in Chain |-> QueuedAt(c)]
  <1>4. Queued = SumFunctionOnSet(f, Chain)
    BY DEF Queued, QueuedAt, SumFunction
  <1>5. \A c \in Chain : f[c] \in Nat
    BY <1>2
  <1> HIDE DEF f
  <1>6. SumFunctionOnSet(f, Chain) \in Nat
    BY <1>5, SumType, NttAssumption
  <1> QED
    BY <1>1, <1>2, <1>3, <1>4, <1>6 DEF Pending

\* The queues of one chain change.
LEMMA QueuedStep ==
  ASSUME BaseInv, BaseInv', NEW c \in Chain,
         \A d \in Chain \ {c} : /\ outboundQueue'[d] = outboundQueue[d]
                                /\ inboundQueue'[d] = inboundQueue[d]
  PROVE  Queued' = Queued + QueuedAt(c)' - QueuedAt(c)
  <1> DEFINE old == [d \in Chain |-> QueuedAt(d)]
             new == [d \in Chain |-> QueuedAt(d)']
  <1>1. Queued = SumFunctionOnSet(old, Chain)
    BY DEF Queued, QueuedAt, SumFunction
  <1>2. Queued' = SumFunctionOnSet(new, Chain)
    BY DEF Queued, QueuedAt, SumFunction
  <1>3. \A d \in Chain : QueuedAt(d) \in Nat
    BY PendingType
  <1>4. \A d \in Chain : QueuedAt(d)' \in Nat
    <2>1. TypeInv' /\ FiniteInv'
      BY DEF BaseInv
    <2>2. \A d \in Chain : HasAmounts(outboundQueue'[d]) /\ HasAmounts(inboundQueue'[d])
      BY <2>1 DEF TypeInv, FiniteInv, HasAmounts, OutEntry, InEntry
    <2>3. \A d \in Chain : ValueOf(outboundQueue'[d]) \in Nat /\ ValueOf(inboundQueue'[d]) \in Nat
      BY <2>2, ValueOfNat
    <2> QED
      BY <2>3 DEF QueuedAt
  <1>5. \A d \in Chain : old[d] \in Int /\ new[d] \in Int
    BY <1>3, <1>4
  <1>6. \A d \in Chain \ {c} : new[d] = old[d]
    BY DEF QueuedAt
  <1>7. old[c] = QueuedAt(c) /\ new[c] = QueuedAt(c)'
    OBVIOUS
  <1> HIDE DEF old, new
  <1>8. SumFunctionOnSet(new, Chain) = SumFunctionOnSet(old, Chain) + new[c] - old[c]
    BY <1>5, <1>6, OnePoint
  <1> QED
    BY <1>1, <1>2, <1>7, <1>8

\* No step changes the total value, and none leaves less of the backing over.
Conserving ==
    /\ Holdings' + fees' + Pending' = Holdings + fees + Pending
    /\ Locked' - Minted' - Pending' >= Locked - Minted - Pending

\* The types of the totals after a step.
LEMMA TotalsTypeNext ==
  ASSUME TypeInv'
  PROVE  (Holdings \in Nat /\ Minted \in Int /\ Locked \in Int /\ fees \in Nat)'
  BY TotalsType, PTL

\* From what a step does to the totals.
LEMMA ConservingTaken ==
  ASSUME BaseInv, NEW w \in Nat, Taken(w), Pending' = Pending + w, BaseInv'
  PROVE  Conserving
  <1>1. /\ Holdings \in Nat /\ Minted \in Int /\ Locked \in Int
        /\ fees \in Nat /\ Pending \in Nat
    BY TotalsType, PendingType DEF BaseInv
  <1>2. Holdings' \in Nat /\ Minted' \in Int /\ Locked' \in Int /\ fees' \in Nat
    BY TotalsTypeNext DEF BaseInv
  <1>3. Holdings' + fees' = Holdings + fees - w
    BY DEF Taken
  <1>4. Locked' - Minted' >= Locked - Minted + w
    BY DEF Taken
  <1> DEFINE h == Holdings  f == fees  p == Pending  l == Locked  n == Minted
             h1 == Holdings'  f1 == fees'  p1 == Pending'  l1 == Locked'  n1 == Minted'
  <1>5. h1 + f1 = h + f - w
    BY <1>3
  <1>6. l1 - n1 >= l - n + w
    BY <1>4
  <1>7. p1 = p + w
    OBVIOUS
  <1>8. h \in Int /\ f \in Int /\ p \in Int /\ l \in Int /\ n \in Int
    BY <1>1
  <1>9. h1 \in Int /\ f1 \in Int /\ l1 \in Int /\ n1 \in Int
    BY <1>2
  <1> HIDE DEF h, f, p, l, n, h1, f1, p1, l1, n1
  <1>10. h1 + f1 + p1 = h + f + p /\ l1 - n1 - p1 >= l - n - p
    BY <1>5, <1>6, <1>7, <1>8, <1>9
  <1> QED
    BY <1>10 DEF Conserving, h, f, p, l, n, h1, f1, p1, l1, n1

\* Value that is given was on its way.
LEMMA ConservingGiven ==
  ASSUME BaseInv, NEW w \in Nat, Given(w), Pending' = Pending - w, BaseInv'
  PROVE  Conserving
  <1>1. /\ Holdings \in Nat /\ Minted \in Int /\ Locked \in Int
        /\ fees \in Nat /\ Pending \in Nat
    BY TotalsType, PendingType DEF BaseInv
  <1>2. Holdings' \in Nat /\ Minted' \in Int /\ Locked' \in Int /\ fees' \in Nat
    BY TotalsTypeNext DEF BaseInv
  <1>3. Holdings' + fees' = Holdings + fees + w
    BY DEF Given
  <1>4. Locked' - Minted' = Locked - Minted - w
    BY DEF Given
  <1> DEFINE h == Holdings  f == fees  p == Pending  l == Locked  n == Minted
             h1 == Holdings'  f1 == fees'  p1 == Pending'  l1 == Locked'  n1 == Minted'
  <1>5. h1 + f1 = h + f + w
    BY <1>3
  <1>6. l1 - n1 = l - n - w
    BY <1>4
  <1>7. p1 = p - w
    OBVIOUS
  <1>8. h \in Int /\ f \in Int /\ p \in Int /\ l \in Int /\ n \in Int
    BY <1>1
  <1>9. h1 \in Int /\ f1 \in Int /\ l1 \in Int /\ n1 \in Int
    BY <1>2
  <1> HIDE DEF h, f, p, l, n, h1, f1, p1, l1, n1
  <1>10. h1 + f1 + p1 = h + f + p /\ l1 - n1 - p1 >= l - n - p
    BY <1>5, <1>6, <1>7, <1>8, <1>9
  <1> QED
    BY <1>10 DEF Conserving, h, f, p, l, n, h1, f1, p1, l1, n1

\* Nothing moves between holders and transfers.
LEMMA ConservingKept ==
  ASSUME BaseInv, Kept, Pending' = Pending, BaseInv'
  PROVE  Conserving
  <1>1. /\ Holdings \in Nat /\ Minted \in Int /\ Locked \in Int
        /\ fees \in Nat /\ Pending \in Nat
    BY TotalsType, PendingType DEF BaseInv
  <1>2. Holdings' \in Nat /\ Minted' \in Int /\ Locked' \in Int /\ fees' \in Nat
    BY TotalsTypeNext DEF BaseInv
  <1>3. Holdings' + fees' = Holdings + fees 
    BY DEF Kept
  <1>4. Locked' - Minted' = Locked - Minted 
    BY DEF Kept
  <1> DEFINE h == Holdings  f == fees  p == Pending  l == Locked  n == Minted
             h1 == Holdings'  f1 == fees'  p1 == Pending'  l1 == Locked'  n1 == Minted'
  <1>5. h1 + f1 = h + f 
    BY <1>3
  <1>6. l1 - n1 = l - n 
    BY <1>4
  <1>7. p1 = p 
    OBVIOUS
  <1>8. h \in Int /\ f \in Int /\ p \in Int /\ l \in Int /\ n \in Int
    BY <1>1
  <1>9. h1 \in Int /\ f1 \in Int /\ l1 \in Int /\ n1 \in Int
    BY <1>2
  <1> HIDE DEF h, f, p, l, n, h1, f1, p1, l1, n1
  <1>10. h1 + f1 + p1 = h + f + p /\ l1 - n1 - p1 >= l - n - p
    BY <1>5, <1>6, <1>7, <1>8, <1>9
  <1> QED
    BY <1>10 DEF Conserving, h, f, p, l, n, h1, f1, p1, l1, n1

\* The types of the values on their way, after a step.
LEMMA PendingTypeNext ==
  ASSUME BaseInv'
  PROVE  /\ ValueOf(sent' \ executed') \in Nat
         /\ \A c \in Chain : /\ ValueOf(outboundQueue'[c]) \in Nat
                             /\ ValueOf(inboundQueue'[c]) \in Nat
  <1>1. TypeInv' /\ FiniteInv'
    BY DEF BaseInv
  <1>2. \A c \in Chain : HasAmounts(outboundQueue'[c]) /\ HasAmounts(inboundQueue'[c])
    BY <1>1 DEF TypeInv, FiniteInv, HasAmounts, OutEntry, InEntry
  <1>3. HasAmounts(sent')
    BY <1>1 DEF TypeInv, FiniteInv, HasAmounts, Message
  <1>4. HasAmounts(sent' \ executed')
    BY <1>3, FS_Subset DEF HasAmounts
  <1> QED
    BY <1>2, <1>4, ValueOfNat

\* What a change of the queues and of the messages not yet executed does to
\* the value on its way.
LEMMA PendingStep ==
  ASSUME BaseInv, BaseInv', NEW c \in Chain,
         \A d \in Chain \ {c} : /\ outboundQueue'[d] = outboundQueue[d]
                                /\ inboundQueue'[d] = inboundQueue[d]
  PROVE  Pending' = Pending + (ValueOf(outboundQueue'[c]) - ValueOf(outboundQueue[c]))
                            + (ValueOf(inboundQueue'[c]) - ValueOf(inboundQueue[c]))
                            + (ValueOf(sent' \ executed') - ValueOf(sent \ executed))
  <1> DEFINE a == ValueOf(outboundQueue[c])
             b == ValueOf(inboundQueue[c])
             e == ValueOf(sent \ executed)
             a1 == ValueOf(outboundQueue'[c])
             b1 == ValueOf(inboundQueue'[c])
             e1 == ValueOf(sent' \ executed')
             g == Queued
  <1>1. a \in Int /\ b \in Int /\ e \in Int /\ g \in Int
    BY PendingType
  <1>2. a1 \in Int /\ b1 \in Int /\ e1 \in Int
    BY PendingTypeNext
  <1>3. Queued' = Queued + QueuedAt(c)' - QueuedAt(c)
    BY QueuedStep
  <1>4. QueuedAt(c)' = a1 + b1 /\ QueuedAt(c) = a + b
    BY DEF QueuedAt
  <1>5. Pending' = Queued' + e1 /\ Pending = g + e
    BY DEF Pending
  <1>6. Pending' = (g + (a1 + b1) - (a + b)) + e1
    BY <1>3, <1>4, <1>5
  <1> HIDE DEF a, b, e, g, a1, b1, e1
  <1>7. (g + (a1 + b1) - (a + b)) + e1 = (g + e) + (a1 - a) + (b1 - b) + (e1 - e)
    BY <1>1, <1>2
  <1>8. Pending' = Pending + (a1 - a) + (b1 - b) + (e1 - e)
    BY <1>5, <1>6, <1>7
  <1> QED
    BY <1>8 DEF a, b, e, a1, b1, e1

\* What is taken is queued.
LEMMA SupplyStartQueued ==
  ASSUME BaseInv, BaseInv', NEW c \in Chain, NEW q \in OutEntry, StartQueued(c, q)
  PROVE  Conserving
  <1> DEFINE w == untrim(q.amount, UnitDecimals)
  <1>1. q \notin outboundQueue[c]
    BY SequenceFacts DEF StartQueued
  <1>2. outboundQueue'[c] = outboundQueue[c] \cup {q}
    BY DEF StartQueued, BaseInv, TypeInv
  <1>3. HasAmounts(outboundQueue[c]) /\ q.amount \in Trimmed
    BY QueuesHaveAmounts DEF OutEntry
  <1>4. ValueOf(outboundQueue'[c]) = ValueOf(outboundQueue[c]) + w /\ w \in Nat
    BY <1>1, <1>2, <1>3, ValueOfAdd
  <1>5. \A d \in Chain \ {c} : outboundQueue'[d] = outboundQueue[d]
    BY DEF StartQueued, BaseInv, TypeInv
  <1>6. UNCHANGED <<inboundQueue, sent, executed>> /\ Taken(w)
    BY DEF StartQueued
  <1> HIDE DEF w
  <1>7. /\ ValueOf(inboundQueue[c]) \in Int /\ ValueOf(sent \ executed) \in Int
        /\ Pending \in Int
    BY PendingType
  <1>8. /\ ValueOf(inboundQueue'[c]) = ValueOf(inboundQueue[c]) + 0
        /\ ValueOf(sent' \ executed') = ValueOf(sent \ executed) + 0
    BY <1>6, <1>7
  <1>9. Pending' = Pending + w + 0 + 0
    <2>1. Pending' = Pending + (ValueOf(outboundQueue'[c]) - ValueOf(outboundQueue[c]))
                             + (ValueOf(inboundQueue'[c]) - ValueOf(inboundQueue[c]))
                             + (ValueOf(sent' \ executed') - ValueOf(sent \ executed))
      BY <1>4, <1>5, <1>6, <1>8, PendingStep
    <2>2. /\ ValueOf(outboundQueue[c]) \in Int /\ ValueOf(inboundQueue[c]) \in Int
          /\ ValueOf(sent \ executed) \in Int /\ w \in Int /\ Pending \in Int
      BY <1>4, <1>5, <1>6, <1>8, PendingType
    <2> QED
      BY <2>1, <2>2, <1>4, <1>5, <1>6, <1>8
  <1>10. Pending' = Pending + w
    BY <1>4, <1>7, <1>9
  <1> QED
    BY <1>4, <1>6, <1>10, ConservingTaken

\* What is taken is sent.
LEMMA SupplyStartSent ==
  ASSUME BaseInv, BaseInv', NEW c \in Chain, NEW m \in Message, StartSent(c, m)
  PROVE  Conserving
  <1> DEFINE w == untrim(m.amount, UnitDecimals)
             E == sent \ executed
  <1>1. m \notin sent
    BY SequenceFacts DEF StartSent
  <1>2. sent' \ executed' = E \cup {m} /\ m \notin E
    <2>1. executed \subseteq sent
      BY DEF BaseInv, InInv
    <2> QED
      BY <1>1, <2>1 DEF StartSent
  <1>3. HasAmounts(E) /\ m.amount \in Trimmed
    BY QueuesHaveAmounts DEF Message
  <1> HIDE DEF E
  <1>4. ValueOf(sent' \ executed') = ValueOf(E) + w /\ w \in Nat
    BY <1>2, <1>3, ValueOfAdd
  <1>5. UNCHANGED <<outboundQueue, inboundQueue>> /\ Taken(w)
    BY DEF StartSent
  <1> HIDE DEF w
  <1>6. /\ ValueOf(inboundQueue[c]) \in Int /\ ValueOf(outboundQueue[c]) \in Int
        /\ Pending \in Int
    BY PendingType
  <1>7. /\ ValueOf(inboundQueue'[c]) = ValueOf(inboundQueue[c]) + 0
        /\ ValueOf(outboundQueue'[c]) = ValueOf(outboundQueue[c]) + 0
    BY <1>5, <1>6
  <1>8. Pending' = Pending + 0 + 0 + w
    <2>1. Pending' = Pending + (ValueOf(outboundQueue'[c]) - ValueOf(outboundQueue[c]))
                             + (ValueOf(inboundQueue'[c]) - ValueOf(inboundQueue[c]))
                             + (ValueOf(sent' \ executed') - ValueOf(sent \ executed))
      BY <1>4, <1>5, <1>7, PendingStep
    <2>2. /\ ValueOf(outboundQueue[c]) \in Int /\ ValueOf(inboundQueue[c]) \in Int
          /\ ValueOf(sent \ executed) \in Int /\ w \in Int /\ Pending \in Int
      BY <1>4, <1>5, <1>7, PendingType
    <2> QED
      BY <2>1, <2>2, <1>4, <1>5, <1>7 DEF E
  <1>9. Pending' = Pending + w
    BY <1>4, <1>6, <1>8
  <1> QED
    BY <1>4, <1>5, <1>9, ConservingTaken

\* The value moves from the outbound queue to the messages.
LEMMA SupplyRelease ==
  ASSUME BaseInv, BaseInv', NEW c \in Chain, NEW q \in outboundQueue[c], NEW m \in Message,
         Release(c, q, m)
  PROVE  Conserving
  <1> DEFINE w == untrim(q.amount, UnitDecimals)
             E == sent \ executed
  <1>1. m \notin sent
    BY DEF Release, BaseInv, OutInv, Is
  <1>2. sent' \ executed' = E \cup {m} /\ m \notin E
    <2>1. executed \subseteq sent
      BY DEF BaseInv, InInv
    <2> QED
      BY <1>1, <2>1 DEF Release
  <1>3. /\ HasAmounts(E) /\ m.amount \in Trimmed /\ HasAmounts(outboundQueue[c])
        /\ m.amount = q.amount
    BY QueuesHaveAmounts DEF Message, Release
  <1> HIDE DEF E
  <1>4. ValueOf(sent' \ executed') = ValueOf(E) + w /\ w \in Nat
    BY <1>2, <1>3, ValueOfAdd
  <1>5. outboundQueue'[c] = outboundQueue[c] \ {q}
    BY DEF Release, BaseInv, TypeInv
  <1>6. ValueOf(outboundQueue'[c]) = ValueOf(outboundQueue[c]) - w
    BY <1>3, <1>5, ValueOfRemove
  <1>7. \A d \in Chain \ {c} : outboundQueue'[d] = outboundQueue[d]
    BY DEF Release, BaseInv, TypeInv
  <1>8. UNCHANGED inboundQueue /\ Kept
    BY DEF Release
  <1> HIDE DEF w
  <1>9. /\ ValueOf(inboundQueue[c]) \in Int /\ ValueOf(outboundQueue[c]) \in Int
        /\ Pending \in Int
    BY PendingType
  <1>10. /\ ValueOf(inboundQueue'[c]) = ValueOf(inboundQueue[c]) + 0
         /\ ValueOf(outboundQueue'[c]) = ValueOf(outboundQueue[c]) + (-w)
         /\ -w \in Int
    BY <1>4, <1>6, <1>8, <1>9
  <1>11. Pending' = Pending + (-w) + 0 + w
    <2>1. Pending' = Pending + (ValueOf(outboundQueue'[c]) - ValueOf(outboundQueue[c]))
                             + (ValueOf(inboundQueue'[c]) - ValueOf(inboundQueue[c]))
                             + (ValueOf(sent' \ executed') - ValueOf(sent \ executed))
      BY <1>4, <1>7, <1>8, <1>10, PendingStep
    <2>2. /\ ValueOf(outboundQueue[c]) \in Int /\ ValueOf(inboundQueue[c]) \in Int
          /\ ValueOf(sent \ executed) \in Int /\ w \in Int /\ Pending \in Int
      BY <1>4, <1>7, <1>8, <1>10, PendingType
    <2> QED
      BY <2>1, <2>2, <1>4, <1>7, <1>8, <1>10 DEF E
  <1>12. Pending' = Pending
    BY <1>4, <1>9, <1>11
  <1> QED
    BY <1>8, <1>12, ConservingKept

\* The value leaves the outbound queue and is given back.
LEMMA SupplyRefund ==
  ASSUME BaseInv, BaseInv', NEW c \in Chain, NEW q \in outboundQueue[c], Refund(c, q)
  PROVE  Conserving
  <1> DEFINE w == untrim(q.amount, UnitDecimals)
  <1>1. HasAmounts(outboundQueue[c])
    BY QueuesHaveAmounts
  <1>2. outboundQueue'[c] = outboundQueue[c] \ {q}
    BY DEF Refund, BaseInv, TypeInv
  <1>3. ValueOf(outboundQueue'[c]) = ValueOf(outboundQueue[c]) - w /\ w \in Nat
    BY <1>1, <1>2, ValueOfRemove
  <1>4. \A d \in Chain \ {c} : outboundQueue'[d] = outboundQueue[d]
    BY DEF Refund, BaseInv, TypeInv
  <1>5. UNCHANGED <<inboundQueue, sent, executed>> /\ Given(w)
    BY DEF Refund
  <1> HIDE DEF w
  <1>6. /\ ValueOf(inboundQueue[c]) \in Int /\ ValueOf(outboundQueue[c]) \in Int
        /\ ValueOf(sent \ executed) \in Int /\ Pending \in Int
    BY PendingType
  <1>7. /\ ValueOf(inboundQueue'[c]) = ValueOf(inboundQueue[c]) + 0
        /\ ValueOf(outboundQueue'[c]) = ValueOf(outboundQueue[c]) + (-w)
        /\ ValueOf(sent' \ executed') = ValueOf(sent \ executed) + 0
        /\ -w \in Int
    BY <1>3, <1>5, <1>6
  <1>8. Pending' = Pending + (-w) + 0 + 0
    <2>1. Pending' = Pending + (ValueOf(outboundQueue'[c]) - ValueOf(outboundQueue[c]))
                             + (ValueOf(inboundQueue'[c]) - ValueOf(inboundQueue[c]))
                             + (ValueOf(sent' \ executed') - ValueOf(sent \ executed))
      BY <1>4, <1>5, <1>7, PendingStep
    <2>2. /\ ValueOf(outboundQueue[c]) \in Int /\ ValueOf(inboundQueue[c]) \in Int
          /\ ValueOf(sent \ executed) \in Int /\ w \in Int /\ Pending \in Int
      BY <1>3, <1>4, <1>5, <1>7, PendingType
    <2> QED
      BY <2>1, <2>2, <1>4, <1>5, <1>7
  <1>9. Pending' = Pending - w
    BY <1>3, <1>6, <1>8
  <1> QED
    BY <1>3, <1>5, <1>9, ConservingGiven

\* The value moves from the messages to the inbound queue.
LEMMA SupplyArrive ==
  ASSUME BaseInv, BaseInv', NEW c \in Chain, NEW m \in sent, NEW q \in InEntry, Arrive(c, m, q)
  PROVE  Conserving
  <1> DEFINE w == untrim(m.amount, UnitDecimals)
             E == sent \ executed
  <1>1. m \in E /\ q.message = m /\ untrim(q.amount, UnitDecimals) = w
    BY DEF Arrive
  <1>2. q \notin inboundQueue[c]
    BY <1>1 DEF BaseInv, InInv
  <1>3. HasAmounts(E) /\ HasAmounts(inboundQueue[c]) /\ q.amount \in Trimmed
    BY QueuesHaveAmounts DEF InEntry
  <1>4. sent' \ executed' = E \ {m}
    BY DEF Arrive
  <1> HIDE DEF E
  <1>5. ValueOf(sent' \ executed') = ValueOf(E) - w /\ w \in Nat
    BY <1>1, <1>3, <1>4, ValueOfRemove
  <1>6. inboundQueue'[c] = inboundQueue[c] \cup {q}
    BY DEF Arrive, BaseInv, TypeInv
  <1>7. ValueOf(inboundQueue'[c]) = ValueOf(inboundQueue[c]) + untrim(q.amount, UnitDecimals)
    BY <1>2, <1>3, <1>6, ValueOfAdd
  <1>8. ValueOf(inboundQueue'[c]) = ValueOf(inboundQueue[c]) + w
    BY <1>1, <1>7
  <1>9. \A d \in Chain \ {c} : inboundQueue'[d] = inboundQueue[d]
    BY DEF Arrive, BaseInv, TypeInv
  <1>10. UNCHANGED outboundQueue /\ Kept
    BY DEF Arrive
  <1> HIDE DEF w
  <1>11. ValueOf(outboundQueue[c]) \in Int /\ ValueOf(E) \in Int /\ Pending \in Int
    BY PendingType DEF E
  <1>12. /\ ValueOf(outboundQueue'[c]) = ValueOf(outboundQueue[c]) + 0
         /\ ValueOf(sent' \ executed') = ValueOf(E) + (-w)
         /\ -w \in Int
    BY <1>5, <1>10, <1>11
  <1>13. Pending' = Pending + 0 + w + (-w)
    <2>1. Pending' = Pending + (ValueOf(outboundQueue'[c]) - ValueOf(outboundQueue[c]))
                             + (ValueOf(inboundQueue'[c]) - ValueOf(inboundQueue[c]))
                             + (ValueOf(sent' \ executed') - ValueOf(sent \ executed))
      BY <1>5, <1>8, <1>9, <1>10, <1>12, PendingStep
    <2>2. /\ ValueOf(outboundQueue[c]) \in Int /\ ValueOf(inboundQueue[c]) \in Int
          /\ ValueOf(sent \ executed) \in Int /\ w \in Int /\ Pending \in Int
      BY <1>5, <1>8, <1>9, <1>10, <1>12, PendingType
    <2> QED
      BY <2>1, <2>2, <1>5, <1>8, <1>9, <1>10, <1>12 DEF E
  <1>14. Pending' = Pending
    BY <1>5, <1>11, <1>13
  <1> QED
    BY <1>10, <1>14, ConservingKept

\* The value leaves the messages and is paid.
LEMMA SupplyPayAtOnce ==
  ASSUME BaseInv, BaseInv', NEW c \in Chain, NEW m \in sent, PayAtOnce(m)
  PROVE  Conserving
  <1> DEFINE w == untrim(m.amount, UnitDecimals)
             E == sent \ executed
  <1>1. m \in E /\ sent' \ executed' = E \ {m}
    BY DEF PayAtOnce
  <1>2. HasAmounts(E)
    BY QueuesHaveAmounts
  <1> HIDE DEF E
  <1>3. ValueOf(sent' \ executed') = ValueOf(E) - w /\ w \in Nat
    BY <1>1, <1>2, ValueOfRemove
  <1>4. UNCHANGED <<outboundQueue, inboundQueue>> /\ Given(w)
    BY DEF PayAtOnce
  <1> HIDE DEF w
  <1>5. /\ ValueOf(outboundQueue[c]) \in Int /\ ValueOf(inboundQueue[c]) \in Int
        /\ ValueOf(E) \in Int /\ Pending \in Int
    BY PendingType DEF E
  <1>6. /\ ValueOf(outboundQueue'[c]) = ValueOf(outboundQueue[c]) + 0
        /\ ValueOf(inboundQueue'[c]) = ValueOf(inboundQueue[c]) + 0
        /\ ValueOf(sent' \ executed') = ValueOf(E) + (-w)
        /\ -w \in Int
    BY <1>3, <1>4, <1>5
  <1>7. Pending' = Pending + 0 + 0 + (-w)
    <2>1. Pending' = Pending + (ValueOf(outboundQueue'[c]) - ValueOf(outboundQueue[c]))
                             + (ValueOf(inboundQueue'[c]) - ValueOf(inboundQueue[c]))
                             + (ValueOf(sent' \ executed') - ValueOf(sent \ executed))
      BY <1>4, <1>6, PendingStep
    <2>2. /\ ValueOf(outboundQueue[c]) \in Int /\ ValueOf(inboundQueue[c]) \in Int
          /\ ValueOf(sent \ executed) \in Int /\ w \in Int /\ Pending \in Int
      BY <1>3, <1>4, <1>6, PendingType
    <2> QED
      BY <2>1, <2>2, <1>4, <1>6 DEF E
  <1>8. Pending' = Pending - w
    BY <1>3, <1>5, <1>7
  <1> QED
    BY <1>3, <1>4, <1>8, ConservingGiven

\* The value leaves the inbound queue and is paid.
LEMMA SupplyPayLater ==
  ASSUME BaseInv, BaseInv', NEW c \in Chain, NEW q \in inboundQueue[c], PayLater(c, q)
  PROVE  Conserving
  <1> DEFINE w == untrim(q.amount, UnitDecimals)
  <1>1. HasAmounts(inboundQueue[c])
    BY QueuesHaveAmounts
  <1>2. inboundQueue'[c] = inboundQueue[c] \ {q}
    BY DEF PayLater, BaseInv, TypeInv
  <1>3. ValueOf(inboundQueue'[c]) = ValueOf(inboundQueue[c]) - w /\ w \in Nat
    BY <1>1, <1>2, ValueOfRemove
  <1>4. \A d \in Chain \ {c} : inboundQueue'[d] = inboundQueue[d]
    BY DEF PayLater, BaseInv, TypeInv
  <1>5. UNCHANGED <<outboundQueue, sent, executed>> /\ Given(w)
    BY DEF PayLater
  <1> HIDE DEF w
  <1>6. /\ ValueOf(inboundQueue[c]) \in Int /\ ValueOf(outboundQueue[c]) \in Int
        /\ ValueOf(sent \ executed) \in Int /\ Pending \in Int
    BY PendingType
  <1>7. /\ ValueOf(outboundQueue'[c]) = ValueOf(outboundQueue[c]) + 0
        /\ ValueOf(inboundQueue'[c]) = ValueOf(inboundQueue[c]) + (-w)
        /\ ValueOf(sent' \ executed') = ValueOf(sent \ executed) + 0
        /\ -w \in Int
    BY <1>3, <1>5, <1>6
  <1>8. Pending' = Pending + 0 + (-w) + 0
    <2>1. Pending' = Pending + (ValueOf(outboundQueue'[c]) - ValueOf(outboundQueue[c]))
                             + (ValueOf(inboundQueue'[c]) - ValueOf(inboundQueue[c]))
                             + (ValueOf(sent' \ executed') - ValueOf(sent \ executed))
      BY <1>4, <1>5, <1>7, PendingStep
    <2>2. /\ ValueOf(outboundQueue[c]) \in Int /\ ValueOf(inboundQueue[c]) \in Int
          /\ ValueOf(sent \ executed) \in Int /\ w \in Int /\ Pending \in Int
      BY <1>3, <1>4, <1>5, <1>7, PendingType
    <2> QED
      BY <2>1, <2>2, <1>4, <1>5, <1>7
  <1>9. Pending' = Pending - w
    BY <1>3, <1>6, <1>8
  <1> QED
    BY <1>3, <1>5, <1>9, ConservingGiven

\* Nothing moves.
LEMMA SupplyAside ==
  ASSUME BaseInv, BaseInv', Aside
  PROVE  Conserving
  <1>1. UNCHANGED <<outboundQueue, inboundQueue, sent, executed>> /\ Kept
    BY DEF Aside
  <1>2. Pending' = Pending
    BY <1>1 DEF Pending, Queued
  <1> QED
    BY <1>1, <1>2, ConservingKept

\* Every form conserves value and backing.
LEMMA SupplyStep ==
  ASSUME BaseInv, SomeStep
  PROVE  Conserving
  <1>1. BaseInv'
    BY BaseStep
  <1> QED
    BY <1>1, SupplyStartQueued, SupplyStartSent, SupplyRelease, SupplyRefund, SupplyArrive,
       SupplyPayAtOnce, SupplyPayLater, SupplyAside DEF SomeStep

-----------------------------------------------------------------------------

\* The inductive invariant.
IInv == BaseInv /\ SupplyConserved /\ FullyBacked

\* It holds at the start.
LEMMA InitBase == Init => BaseInv
  <1> SUFFICES ASSUME Init PROVE BaseInv
    OBVIOUS
  <1>1. TypeInv
    BY NttAssumption DEF Init, TypeInv
  <1>2. FiniteInv
    BY FS_EmptySet DEF Init, FiniteInv
  <1>3. AmountInv /\ InInv
    BY DEF Init, AmountInv, InInv
  <1>4. OutInv
    BY NttAssumption DEF Init, OutInv
  <1> QED
    BY <1>1, <1>2, <1>3, <1>4 DEF BaseInv

\* At the start everything is held by users.
LEMMA InitTotals ==
  ASSUME Init
  PROVE  /\ Holdings = SumFunction([c \in Chain |-> InitiallyHeld(c)])
         /\ Pending = 0 /\ Minted = 0 /\ Locked = 0 /\ fees = 0
  <1>1. fees = 0
    BY DEF Init
  <1>2. ASSUME NEW c \in Chain PROVE Circulating(c) = InitiallyHeld(c)
    BY DEF Init, Circulating, InitiallyHeld
  <1>3. Holdings = SumFunction([c \in Chain |-> InitiallyHeld(c)])
    BY <1>2 DEF Holdings
  <1>4. Pending = 0
    <2>1. \A c \in Chain : outboundQueue[c] = {} /\ inboundQueue[c] = {}
      BY DEF Init
    <2>2. \A c \in Chain : QueuedAt(c) = 0
      BY <2>1, ValueOfEmpty DEF QueuedAt
    <2> DEFINE f == [c \in Chain |-> QueuedAt(c)]
    <2>3. Queued = SumFunctionOnSet(f, Chain)
      BY DEF Queued, QueuedAt, SumFunction
    <2>4. \A c \in Chain : f[c] = 0
      BY <2>2
    <2> HIDE DEF f
    <2>5. Queued = 0
      BY <2>3, <2>4, SumZero, NttAssumption
    <2>6. sent \ executed = {}
      BY DEF Init
    <2> QED
      BY <2>5, <2>6, ValueOfEmpty DEF Pending
  <1>5. Minted = 0
    <2> DEFINE Burning == Chain \ Locking
               f == [c \in Burning |-> Circulating(c) - InitiallyHeld(c)]
    <2>1. \A c \in Burning : f[c] = 0
      BY <1>2, InitiallyHeldNat
    <2>2. IsFiniteSet(Burning)
      BY NttAssumption, FS_Subset
    <2>3. Minted = SumFunctionOnSet(f, Burning)
      BY DEF Minted, SumFunction
    <2> HIDE DEF f, Burning
    <2> QED
      BY <2>1, <2>2, <2>3, SumZero
  <1>6. Locked = 0
    <2> DEFINE f == [c \in Locking |-> Value(c, custody[c])]
    <2>1. \A c \in Locking : custody[c] = 0 /\ c \in Chain
      BY NttAssumption DEF Init
    <2>2. \A c \in Chain : Value(c, 0) = 0
      <3> SUFFICES ASSUME NEW c \in Chain PROVE Value(c, 0) = 0
        OBVIOUS
      <3>1. Value(c, 0) = Value(c, 0) - Value(c, 0) /\ Value(c, 0) \in Nat
        BY ValueMinus, ValueNat
      <3> QED
        BY <3>1
    <2>3. \A c \in Locking : f[c] = 0
      BY <2>1, <2>2
    <2>4. IsFiniteSet(Locking)
      BY NttAssumption, FS_Subset
    <2>5. Locked = SumFunctionOnSet(f, Locking)
      BY DEF Locked, SumFunction
    <2> HIDE DEF f
    <2> QED
      BY <2>3, <2>4, <2>5, SumZero
  <1> QED
    BY <1>1, <1>3, <1>4, <1>5, <1>6

\* The inductive invariant holds at the start
LEMMA IInvInit == Init => IInv
  <1> SUFFICES ASSUME Init PROVE IInv
    OBVIOUS
  <1>1. BaseInv
    BY InitBase
  <1>2. Holdings \in Nat
    BY <1>1, TotalsType DEF BaseInv
  <1> QED
    BY <1>1, <1>2, InitTotals DEF IInv, SupplyConserved, FullyBacked, InitialSupply

\* What is on its way is a natural number, before
LEMMA PendingNat ==
  ASSUME BaseInv
  PROVE  Pending \in Nat
  BY PendingType

\* and after a step.
LEMMA PendingNatNext ==
  ASSUME BaseInv'
  PROVE  (Pending \in Nat)'
  BY PendingNat, PTL

\* and every step keeps it.
LEMMA IInvStep ==
  ASSUME IInv, [Next]_vars
  PROVE  IInv'
  <1>1. BaseInv /\ SupplyConserved /\ FullyBacked
    BY DEF IInv
  <1>2. SomeStep
    BY <1>1, Steps DEF BaseInv
  <1>3. BaseInv' /\ Conserving
    BY <1>1, <1>2, BaseStep, SupplyStep
  <1>4. /\ Holdings \in Nat /\ Minted \in Int /\ Locked \in Int
        /\ fees \in Nat /\ Pending \in Nat
    BY <1>1, TotalsType, PendingType DEF BaseInv
  <1>5. Holdings' \in Nat /\ Minted' \in Int /\ Locked' \in Int /\ fees' \in Nat
    BY <1>3, TotalsTypeNext DEF BaseInv
  <1>6. Pending' \in Nat
    BY <1>3, PendingNatNext
  <1> DEFINE all == SumFunction([c \in Chain |-> InitiallyHeld(c)])
             h == Holdings  f == fees  p == Pending  l == Locked  n == Minted
             h1 == Holdings'  f1 == fees'  p1 == Pending'  l1 == Locked'  n1 == Minted'
  <1>7. SupplyConserved' <=> h1 + p1 + f1 = all
    <2>1. \A c : InitiallyHeld(c)' = InitiallyHeld(c)
      BY DEF InitiallyHeld, Value
    <2> QED
      BY <2>1 DEF SupplyConserved, InitialSupply
  <1>8. h + p + f = all /\ l >= n + p
    BY <1>1 DEF SupplyConserved, FullyBacked, InitialSupply
  <1>9. h1 + f1 + p1 = h + f + p /\ l1 - n1 - p1 >= l - n - p
    BY <1>3 DEF Conserving
  <1>10. FullyBacked' <=> l1 >= n1 + p1
    BY DEF FullyBacked
  <1>11. h \in Int /\ f \in Int /\ p \in Int /\ l \in Int /\ n \in Int
    BY <1>4
  <1>12. h1 \in Int /\ f1 \in Int /\ p1 \in Int /\ l1 \in Int /\ n1 \in Int
    BY <1>5, <1>6
  <1> HIDE DEF all, h, f, p, l, n, h1, f1, p1, l1, n1
  <1>13. h1 + p1 + f1 = all /\ l1 >= n1 + p1
    BY <1>8, <1>9, <1>11, <1>12
  <1> QED
    BY <1>3, <1>7, <1>10, <1>13 DEF IInv

\* INV-001: through transfer, executeMsg, both queues and cancellation, tokens
\* and value on its way add up to what there was at the start, less fees.
THEOREM SupplyCorrect == Spec => []SupplyConserved
  <1>1. IInv => SupplyConserved
    BY DEF IInv
  <1> QED
    BY IInvInit, IInvStep, <1>1, PTL DEF Spec

\* What locking managers hold always covers what burning chains have minted and
\* what is on its way (lockOrBurn against mintOrUnlockToRecipient).
THEOREM BackingCorrect == Spec => []FullyBacked
  <1>1. IInv => FullyBacked
    BY DEF IInv
  <1> QED
    BY IInvInit, IInvStep, <1>1, PTL DEF Spec

-----------------------------------------------------------------------------
(* Nothing gets stuck.                                                     *)

\* Every transfer on its way brings at least what the hub's token keeps.
FeeInv ==
    \A hub \in Locking :
        /\ \A c \in Chain : \A q \in outboundQueue[c] :
              Value(hub, TransferFee[hub]) <= untrim(q.amount, UnitDecimals)
        /\ \A m \in sent :
              Value(hub, TransferFee[hub]) <= untrim(m.amount, UnitDecimals)

\* The value of what a user may ask for covers the hub's fee.
LEMMA RequestedCovers ==
  ASSUME HubAndSpokes, NEW hub \in Locking, NEW c \in Chain, NEW w, Requested(c, w)
  PROVE  Value(hub, TransferFee[hub]) <= w
  BY DEF HubAndSpokes, Requested

\* A step keeps it: a transfer that starts covers the fee, one that is
\* released keeps its amount.
LEMMA FeeStep ==
  ASSUME TypeInv, HubAndSpokes, FeeInv, SomeStep
  PROVE  FeeInv'
  <1> SUFFICES ASSUME NEW hub \in Locking
               PROVE  /\ \A d \in Chain : \A e \in outboundQueue'[d] :
                            Value(hub, TransferFee[hub]) <= untrim(e.amount, UnitDecimals)
                      /\ \A e \in sent' :
                            Value(hub, TransferFee[hub]) <= untrim(e.amount, UnitDecimals)
    BY DEF FeeInv, Value
  <1> DEFINE Covers(e) == Value(hub, TransferFee[hub]) <= untrim(e.amount, UnitDecimals)
  <1>1. /\ \A d \in Chain : \A e \in outboundQueue[d] : Covers(e)
        /\ \A e \in sent : Covers(e)
    BY DEF FeeInv
  <1>2. ASSUME NEW c \in Chain, NEW q \in OutEntry, StartQueued(c, q)
        PROVE  Covers(q)
    BY <1>2, RequestedCovers DEF StartQueued
  <1>3. ASSUME NEW c \in Chain, NEW m \in Message, StartSent(c, m)
        PROVE  Covers(m)
    BY <1>3, RequestedCovers DEF StartSent
  <1>4. ASSUME NEW c \in Chain, NEW q \in outboundQueue[c], NEW m \in Message, Release(c, q, m)
        PROVE  Covers(m)
    BY <1>1, <1>4 DEF Release
  <1> HIDE DEF Covers
  <1>5. outboundQueue \in [Chain -> SUBSET OutEntry]
    BY DEF TypeInv
  <1>6. CASE \E c \in Chain : \E q \in OutEntry : StartQueued(c, q)
    <2>1. PICK c \in Chain, q \in OutEntry : StartQueued(c, q)
      BY <1>6
    <2>2. sent' = sent /\ \A d \in Chain : outboundQueue'[d] \subseteq outboundQueue[d] \cup {q}
      BY <1>5, <2>1 DEF StartQueued
    <2> QED
      BY <1>1, <1>2, <2>1, <2>2 DEF Covers
  <1>7. CASE \E c \in Chain : \E m \in Message : StartSent(c, m)
    <2>1. PICK c \in Chain, m \in Message : StartSent(c, m)
      BY <1>7
    <2>2. sent' = sent \cup {m} /\ outboundQueue' = outboundQueue
      BY <2>1 DEF StartSent
    <2> QED
      BY <1>1, <1>3, <2>1, <2>2 DEF Covers
  <1>8. CASE \E c \in Chain : \E q \in outboundQueue[c] : \E m \in Message : Release(c, q, m)
    <2>1. PICK c \in Chain : \E q \in outboundQueue[c] : \E m \in Message : Release(c, q, m)
      BY <1>8
    <2>2. PICK q \in outboundQueue[c], m \in Message : Release(c, q, m)
      BY <2>1
    <2>3. sent' = sent \cup {m} /\ \A d \in Chain : outboundQueue'[d] \subseteq outboundQueue[d]
      BY <1>5, <2>2 DEF Release
    <2> QED
      BY <1>1, <1>4, <2>2, <2>3 DEF Covers
  <1>9. ASSUME NEW c \in Chain,
               \/ \E q \in outboundQueue[c] : Refund(c, q)
               \/ \E m \in sent : \E q \in InEntry : Arrive(c, m, q)
               \/ \E m \in sent : PayAtOnce(m)
               \/ \E q \in inboundQueue[c] : PayLater(c, q)
               \/ Aside
        PROVE  sent' = sent /\ \A d \in Chain : outboundQueue'[d] \subseteq outboundQueue[d]
    BY <1>5, <1>9 DEF Refund, Arrive, PayAtOnce, PayLater, Aside
  <1>10. CASE Aside
    BY <1>1, <1>10 DEF Aside, Covers
  <1> QED
    BY <1>1, <1>6, <1>7, <1>8, <1>9, <1>10 DEF SomeStep, Covers

\* No entry of a set is worth more than the set.
LEMMA ValueOfBounds ==
  ASSUME NEW S, HasAmounts(S), NEW x \in S
  PROVE  untrim(x.amount, UnitDecimals) \in Nat /\ untrim(x.amount, UnitDecimals) <= ValueOf(S)
  <1>1. untrim(x.amount, UnitDecimals) \in Nat
    BY UntrimNat, UnitFact DEF HasAmounts
  <1>2. /\ HasAmounts(S \ {x})
        /\ ValueOf(S \ {x}) = ValueOf(S) - untrim(x.amount, UnitDecimals)
    BY ValueOfRemove
  <1>3. ValueOf(S) \in Nat /\ ValueOf(S \ {x}) \in Nat
    BY <1>2, ValueOfNat
  <1> QED
    BY <1>1, <1>2, <1>3

\* What is queued or sent is part of what is on its way.
LEMMA PendingBounds ==
  ASSUME BaseInv
  PROVE  /\ \A c \in Chain : /\ ValueOf(outboundQueue[c]) <= Pending
                             /\ ValueOf(inboundQueue[c]) <= Pending
         /\ ValueOf(sent \ executed) <= Pending
  <1>1. /\ Queued \in Nat /\ Pending \in Nat /\ ValueOf(sent \ executed) \in Nat
        /\ \A c \in Chain : /\ ValueOf(outboundQueue[c]) \in Nat
                            /\ ValueOf(inboundQueue[c]) \in Nat
                            /\ QueuedAt(c) \in Nat
    BY PendingType
  <1>2. Pending = Queued + ValueOf(sent \ executed)
    BY DEF Pending
  <1> SUFFICES ASSUME NEW c \in Chain PROVE QueuedAt(c) <= Queued
    BY <1>1, <1>2 DEF QueuedAt
  <1> DEFINE f == [d \in Chain |-> QueuedAt(d)]
  <1>3. Queued = SumFunctionOnSet(f, Chain)
    BY DEF Queued, QueuedAt, SumFunction
  <1>4. f[c] = QueuedAt(c) /\ \A d \in Chain : f[d] \in Nat
    BY <1>1
  <1> HIDE DEF f
  <1> QED
    BY <1>3, <1>4, SumBounds, NttAssumption

\* On a chain that starts empty everything that circulates has been minted.
LEMMA NothingHeldAtStart ==
  ASSUME NEW c \in Chain, \A u \in User : InitialBalance[c][u] = 0
  PROVE  InitiallyHeld(c) = 0
  <1> DEFINE f == [u \in User |-> Value(c, InitialBalance[c][u])]
  <1>1. Value(c, 0) = 0
    <2>1. Value(c, 0) = Value(c, 0) - Value(c, 0) /\ Value(c, 0) \in Nat
      BY ValueMinus, ValueNat
    <2> QED
      BY <2>1
  <1>2. \A u \in User : f[u] = 0
    BY <1>1
  <1>3. InitiallyHeld(c) = SumFunctionOnSet(f, User)
    BY DEF InitiallyHeld, SumFunction
  <1> HIDE DEF f
  <1> QED
    BY <1>2, <1>3, SumZero, NttAssumption

\* The hub holds what is on its way.
LEMMA HubCovers ==
  ASSUME IInv, HubAndSpokes, NEW hub \in Locking
  PROVE  Pending <= Value(hub, custody[hub])
  <1>1. TypeInv /\ BaseInv /\ Locked >= Minted + Pending
    BY DEF IInv, BaseInv, FullyBacked
  <1>2. Locking = {hub} /\ hub \in Chain
    BY NttAssumption DEF HubAndSpokes
  <1>3. Locked = Value(hub, custody[hub]) /\ Locked \in Int
    <2> DEFINE f == [c \in Locking |-> Value(c, custody[c])]
    <2>1. Locked = SumFunctionOnSet(f, {hub}) /\ f[hub] = Value(hub, custody[hub])
      BY <1>2 DEF Locked, SumFunction
    <2>2. Value(hub, custody[hub]) \in Nat
      BY <1>1, <1>2, ValueNat DEF TypeInv
    <2> HIDE DEF f
    <2>3. SumFunctionOnSet(f, {hub}) = SumFunctionOnSet(f, {hub} \ {hub}) + f[hub]
      <3>1. IsFiniteSet({hub}) /\ hub \in {hub} /\ \A y \in {hub} : f[y] \in Int
        BY <2>1, <2>2, FS_EmptySet, FS_AddElement
      <3> QED
        BY <3>1, SumElement, Zenon
    <2>4. {hub} \ {hub} = {} /\ SumFunctionOnSet(f, {}) = 0
      BY SumEmpty
    <2> QED
      BY <2>1, <2>2, <2>3, <2>4
  <1>4. Minted \in Nat
    <2> DEFINE Burning == Chain \ Locking
               g == [c \in Burning |-> Circulating(c) - InitiallyHeld(c)]
    <2>1. \A c \in Burning : g[c] \in Nat
      <3> SUFFICES ASSUME NEW c \in Burning PROVE Circulating(c) - InitiallyHeld(c) \in Nat
        OBVIOUS
      <3>1. InitiallyHeld(c) = 0
        BY NothingHeldAtStart DEF HubAndSpokes
      <3>2. Circulating(c) \in Nat
        BY <1>1, CirculatingNat DEF TypeInv
      <3> QED
        BY <3>1, <3>2
    <2>2. Minted = SumFunctionOnSet(g, Burning)
      BY DEF Minted, SumFunction
    <2>3. IsFiniteSet(Burning)
      BY NttAssumption, FS_Subset
    <2> HIDE DEF g, Burning
    <2> QED
      BY <2>1, <2>2, <2>3, SumType
  <1>5. Pending \in Nat
    BY <1>1, PendingType
  <1> QED
    BY <1>1, <1>3, <1>4, <1>5

\* An amount on its way can be paid where it is exact, if it covers the fee.
LEMMA CanPay ==
  ASSUME IInv, HubAndSpokes, NEW c \in Chain, NEW t \in Trimmed, Exact(t, c),
         untrim(t, UnitDecimals) <= Pending,
         \A hub \in Locking : Value(hub, TransferFee[hub]) <= untrim(t, UnitDecimals)
  PROVE  canMintOrUnlock(c, t)
  <1> SUFFICES ASSUME c \in Locking
               PROVE  /\ TransferFee[c] <= untrim(t, tokenDecimals[c])
                      /\ untrim(t, tokenDecimals[c]) <= custody[c]
    BY DEF canMintOrUnlock
  <1> DEFINE a == untrim(t, tokenDecimals[c])
             d == tokenDecimals[c]
  <1>1. a \in Nat /\ Value(c, a) = untrim(t, UnitDecimals)
    BY ValueUntrim
  <1>2. d \in Nat /\ d <= UnitDecimals /\ UnitDecimals \in Nat
    BY NttAssumption, UnitFact
  <1>3. custody[c] \in Nat /\ TransferFee[c] \in Nat
    BY NttAssumption DEF IInv, BaseInv, TypeInv
  <1>4. /\ Value(c, a) \in Nat /\ Value(c, custody[c]) \in Nat
        /\ Value(c, TransferFee[c]) \in Nat /\ Pending \in Nat
    BY <1>1, <1>3, ValueNat, PendingType DEF IInv
  <1>5. Value(c, a) <= Value(c, custody[c])
    BY <1>1, <1>4, HubCovers
  <1>6. Value(c, TransferFee[c]) <= Value(c, a)
    BY <1>1
  <1> HIDE DEF a
  <1>7. a <= custody[c]
    BY <1>1, <1>2, <1>3, <1>5, ScaleOrder DEF Value
  <1>8. TransferFee[c] <= a
    BY <1>1, <1>2, <1>3, <1>6, ScaleOrder DEF Value
  <1> QED
    BY <1>7, <1>8 DEF a

\* An amount on its way fits into 64 bits in the decimals of the destination.
LEMMA NativeFits ==
  ASSUME IInv, HubAndSpokes, NEW m \in Message, Exact(m.amount, m.to),
         untrim(m.amount, UnitDecimals) <= Pending
  PROVE  Fits(nativeTransferAmount(m))
  <1> DEFINE e == tokenDecimals[m.to]
             n == minDecimals(TRIMMED_DECIMALS, e)
             x == nativeTransferAmount(m).amount
  <1>1. m.to \in Chain /\ e \in Nat /\ TRIMMED_DECIMALS \in Nat /\ e <= UnitDecimals
    BY NttAssumption, TrimmedDecimalsAssumption, UnitFact DEF Message
  <1>2. n \in Nat /\ n <= e /\ n <= UnitDecimals /\ minDecimals(n, e) = n
    BY <1>1, UnitFact DEF minDecimals
  <1>3. /\ nativeTransferAmount(m) \in Trimmed
        /\ untrim(nativeTransferAmount(m), UnitDecimals) = untrim(m.amount, UnitDecimals)
    BY NativeExact
  <1>4. nativeTransferAmount(m).decimals = n
    BY <1>2 DEF nativeTransferAmount, trim
  <1>5. x \in Nat /\ scale(x, n, UnitDecimals) = untrim(m.amount, UnitDecimals)
    BY <1>3, <1>4 DEF Trimmed, untrim
  <1>6. InitialSupply <= scale(U64_MAX, n, UnitDecimals)
    BY <1>1 DEF HubAndSpokes
  <1>7. Pending <= InitialSupply /\ Pending \in Nat /\ InitialSupply \in Int
    <2>1. Holdings \in Nat /\ fees \in Nat /\ Pending \in Nat
      BY TotalsType, PendingType DEF IInv, BaseInv
    <2>2. Holdings + Pending + fees = InitialSupply
      BY DEF IInv, SupplyConserved
    <2> QED
      BY <2>1, <2>2
  <1>8. U64_MAX \in Nat /\ UnitDecimals \in Nat
    BY U64MaxAssumption, UnitFact
  <1> HIDE DEF x, n, e
  <1>9. scale(U64_MAX, n, UnitDecimals) \in Nat /\ scale(x, n, UnitDecimals) \in Nat
    BY <1>2, <1>5, <1>8, ScaleNat
  <1>10. scale(x, n, UnitDecimals) <= scale(U64_MAX, n, UnitDecimals)
    BY <1>5, <1>6, <1>7, <1>9
  <1>11. x <= U64_MAX
    BY <1>2, <1>5, <1>8, <1>10, ScaleOrder
  <1> QED
    BY <1>11 DEF Fits, x

\* So nothing gets stuck.
LEMMA NotStuck ==
  ASSUME IInv, HubAndSpokes, FeeInv
  PROVE  NothingGetsStuck
  <1>1. BaseInv /\ TypeInv /\ AmountInv /\ InInv
    BY DEF IInv, BaseInv
  <1>2. ASSUME NEW m \in sent \ executed, m.to \notin paused PROVE executable(m.to, m)
    <2>1. m \in Message /\ m.to \in Chain /\ Exact(m.amount, m.to)
      BY <1>1 DEF TypeInv, AmountInv, Message
    <2>2. untrim(m.amount, UnitDecimals) <= Pending
      <3>1. /\ untrim(m.amount, UnitDecimals) \in Nat
            /\ untrim(m.amount, UnitDecimals) <= ValueOf(sent \ executed)
        BY <1>1, QueuesHaveAmounts, ValueOfBounds
      <3>2. ValueOf(sent \ executed) <= Pending /\ ValueOf(sent \ executed) \in Nat /\ Pending \in Nat
        BY <1>1, PendingBounds, PendingType
      <3> QED
        BY <3>1, <3>2
    <2>3. /\ nativeTransferAmount(m) \in Trimmed
          /\ Exact(nativeTransferAmount(m), m.to)
          /\ untrim(nativeTransferAmount(m), UnitDecimals) = untrim(m.amount, UnitDecimals)
      BY <2>1, NativeExact
    <2>4. \A hub \in Locking : Value(hub, TransferFee[hub]) <= untrim(m.amount, UnitDecimals)
      BY DEF FeeInv
    <2>5. canMintOrUnlock(m.to, nativeTransferAmount(m))
      BY <2>1, <2>2, <2>3, <2>4, CanPay
    <2>6. Fits(nativeTransferAmount(m))
      BY <2>1, <2>2, NativeFits
    <2> QED
      BY <1>2, <2>5, <2>6 DEF executable
  <1>3. ASSUME NEW c \in Chain, NEW q \in inboundQueue[c] PROVE canMintOrUnlock(c, q.amount)
    <2>1. /\ q.amount \in Trimmed /\ Exact(q.amount, c) /\ q.message \in sent
          /\ untrim(q.amount, UnitDecimals) = untrim(q.message.amount, UnitDecimals)
      BY <1>1 DEF TypeInv, AmountInv, InInv, InEntry
    <2>2. untrim(q.amount, UnitDecimals) <= Pending
      <3>1. /\ untrim(q.amount, UnitDecimals) \in Nat
            /\ untrim(q.amount, UnitDecimals) <= ValueOf(inboundQueue[c])
        BY <1>1, QueuesHaveAmounts, ValueOfBounds
      <3>2. /\ ValueOf(inboundQueue[c]) <= Pending /\ ValueOf(inboundQueue[c]) \in Nat
            /\ Pending \in Nat
        BY <1>1, PendingBounds, PendingType
      <3> QED
        BY <3>1, <3>2
    <2>3. \A hub \in Locking : Value(hub, TransferFee[hub]) <= untrim(q.amount, UnitDecimals)
      BY <2>1 DEF FeeInv
    <2> QED
      BY <2>1, <2>2, <2>3, CanPay
  <1>4. ASSUME NEW c \in Chain, NEW q \in outboundQueue[c] PROVE canMintOrUnlock(c, q.amount)
    <2>1. q.amount \in Trimmed /\ Exact(q.amount, c)
      BY <1>1 DEF TypeInv, AmountInv, OutEntry
    <2>2. untrim(q.amount, UnitDecimals) <= Pending
      <3>1. /\ untrim(q.amount, UnitDecimals) \in Nat
            /\ untrim(q.amount, UnitDecimals) <= ValueOf(outboundQueue[c])
        BY <1>1, QueuesHaveAmounts, ValueOfBounds
      <3>2. /\ ValueOf(outboundQueue[c]) <= Pending /\ ValueOf(outboundQueue[c]) \in Nat
            /\ Pending \in Nat
        BY <1>1, PendingBounds, PendingType
      <3> QED
        BY <3>1, <3>2
    <2>3. \A hub \in Locking : Value(hub, TransferFee[hub]) <= untrim(q.amount, UnitDecimals)
      BY DEF FeeInv
    <2> QED
      BY <2>1, <2>2, <2>3, CanPay
  <1> QED
    BY <1>2, <1>3, <1>4 DEF NothingGetsStuck, completable

\* With one hub, empty spokes, a supply that fits into 64 bits everywhere and
\* fees below every transfer, executeMsg and completeInboundQueuedTransfer of a
\* manager that is not paused never revert for what was sent and is due, and a
\* queued transfer can always be refunded: after the source has taken the
\* tokens nothing the destination checks can keep them.
THEOREM NeverStuck == Spec => [](HubAndSpokes => NothingGetsStuck)
  <1> DEFINE Inv == IInv /\ (HubAndSpokes => FeeInv)
  <1>1. Init => Inv
    BY IInvInit DEF Init, FeeInv
  <1>2. Inv /\ [Next]_vars => Inv'
    <2> SUFFICES ASSUME Inv, [Next]_vars PROVE Inv'
      OBVIOUS
    <2>1. IInv'
      BY IInvStep
    <2>2. ASSUME HubAndSpokes, FeeInv PROVE FeeInv'
      BY <2>2, Steps, FeeStep DEF IInv, BaseInv
    <2>3. HubAndSpokes' => HubAndSpokes
      BY DEF HubAndSpokes, InitialSupply, InitiallyHeld, Value, received
    <2> QED
      BY <2>1, <2>2, <2>3
  <1>3. Inv => (HubAndSpokes => NothingGetsStuck)
    BY NotStuck
  <1> QED
    BY <1>1, <1>2, <1>3, PTL DEF Spec

-----------------------------------------------------------------------------
(* Refinement of the bridge.                                               *)

\* A transfer is a pair of a chain and a sequence,
LEMMA TransferPairs ==
  ASSUME NEW x \in Transfer
  PROVE  /\ x[1] \in Chain /\ x[2] \in Nat
         /\ x = <<x[1], x[2]>>
  BY NttAssumption DEF Transfer

\* with a sequence within the bound.
LEMMA IsTransfer ==
  ASSUME NEW c \in Chain, NEW n \in Nat, n < MaxSequence[c]
  PROVE  <<c, n>> \in Transfer
  <1>1. MaxSequence[c] \in Nat
    BY NttAssumption
  <1>2. n \in 0 .. MaxSequence[c] - 1
    BY <1>1
  <1> QED
    BY <1>2 DEF Transfer

\* A transfer that a step does not touch.
Untouched(x) ==
    /\ QueuedOut(x)' = QueuedOut(x)
    /\ x \in cancelled' <=> x \in cancelled
    /\ Sent(x)' = Sent(x)
    /\ Sent(x) \cap paid' = Sent(x) \cap paid
    /\ Sent(x) \cap executed' = Sent(x) \cap executed

\* It keeps its phase and its value.
LEMMA SameTransfer ==
  ASSUME NEW x, Untouched(x)
  PROVE  phaseOf(x)' = phaseOf(x) /\ inFlightOf(x)' = inFlightOf(x)
  <1>1. /\ QueuedOut(x)' = QueuedOut(x)
        /\ x \in cancelled' <=> x \in cancelled
        /\ Sent(x)' = Sent(x)
        /\ Sent(x)' \cap paid' = Sent(x) \cap paid
        /\ Sent(x)' \cap executed' = Sent(x) \cap executed
    BY DEF Untouched
  <1>2. phaseOf(x)' = phaseOf(x)
    BY <1>1 DEF phaseOf
  <1>3. Sent(x)' \ paid' = Sent(x) \ paid
    BY <1>1
  <1>4. inFlightOf(x)' = ValueOf(QueuedOut(x)' \cup (Sent(x)' \ paid'))
    BY DEF inFlightOf
  <1>5. inFlightOf(x)' = inFlightOf(x)
    BY <1>1, <1>3, <1>4 DEF inFlightOf
  <1> QED
    BY <1>2, <1>5

\* The refinement mapping.
phases == [x \in Transfer |-> phaseOf(x)]
flights == [x \in Transfer |-> inFlightOf(x)]

\* One transfer moves, the others are as they were.
LEMMA OneMoves ==
  ASSUME NEW x \in Transfer, \A y \in Transfer \ {x} : Untouched(y)
  PROVE  /\ phases' = [phases EXCEPT ![x] = phaseOf(x)']
         /\ flights' = [flights EXCEPT ![x] = inFlightOf(x)']
         /\ inFlightOf(x)' = inFlightOf(x) => flights' = flights
  <1>1. \A y \in Transfer \ {x} : phaseOf(y)' = phaseOf(y) /\ inFlightOf(y)' = inFlightOf(y)
    BY SameTransfer
  <1>2. /\ phases' = [y \in Transfer |-> phaseOf(y)']
        /\ flights' = [y \in Transfer |-> inFlightOf(y)']
    <2>1. Transfer' = Transfer
      BY DEF Transfer
    <2> QED
      BY <2>1 DEF phases, flights
  <1> QED
    BY <1>1, <1>2 DEF phases, flights

\* The abstract step of each kind.
LEMMA AbstractStart ==
  ASSUME NEW x \in Transfer, \A y \in Transfer \ {x} : Untouched(y),
         phaseOf(x) = "none", phaseOf(x)' \in {"queued", "sent"},
         Holdings' + fees' \in 0 .. Holdings + fees,
         inFlightOf(x)' = (Holdings + fees) - (Holdings' + fees')
  PROVE  Abstract!Next
  <1>1. phases[x] = "none"
    BY DEF phases
  <1>2. /\ phases' = [phases EXCEPT ![x] = phaseOf(x)']
        /\ flights' = [flights EXCEPT ![x] = (Holdings + fees) - (Holdings' + fees')]
    BY OneMoves
  <1>3. \E p \in {"queued", "sent"} : phases' = [phases EXCEPT ![x] = p]
    BY <1>2
  <1>4. (Holdings + fees)' \in 0 .. Holdings + fees
    OBVIOUS
  <1>5. flights' = [flights EXCEPT ![x] = (Holdings + fees) - (Holdings + fees)']
    BY <1>2
  <1>6. Abstract!start(x)
    <2>1. /\ [x_1 \in Transfer |-> phaseOf(x_1)] = phases
          /\ [x_1 \in Transfer |-> inFlightOf(x_1)] = flights
      BY DEF phases, flights
    <2>2. /\ [x_1 \in Transfer |-> phaseOf(x_1)]' = phases'
          /\ [x_1 \in Transfer |-> inFlightOf(x_1)]' = flights'
      BY DEF phases, flights
    <2> HIDE DEF phases, flights
    <2> QED
      BY <1>1, <1>3, <1>4, <1>5, <2>1, <2>2, Zenon DEF Abstract!start
  <1> QED
    BY <1>6 DEF Abstract!Next

\* A transfer is released, or arrives without being paid.
LEMMA AbstractAdvance ==
  ASSUME NEW x \in Transfer, \A y \in Transfer \ {x} : Untouched(y),
         \/ phaseOf(x) = "queued" /\ phaseOf(x)' = "sent"
         \/ phaseOf(x) = "sent" /\ phaseOf(x)' = "due",
         inFlightOf(x)' = inFlightOf(x), Holdings' + fees' = Holdings + fees
  PROVE  Abstract!Next
  <1>1. phases[x] = phaseOf(x)
    BY DEF phases
  <1>2. phases' = [phases EXCEPT ![x] = phaseOf(x)'] /\ flights' = flights
    BY OneMoves
  <1>3. Abstract!release(x) \/ Abstract!arrive(x)
    BY <1>1, <1>2 DEF Abstract!release, Abstract!arrive, Abstract!advance, phases, flights
  <1> QED
    BY <1>3 DEF Abstract!Next

\* A transfer is refunded or paid.
LEMMA AbstractFinish ==
  ASSUME NEW x \in Transfer, \A y \in Transfer \ {x} : Untouched(y),
         \/ phaseOf(x) = "queued" /\ phaseOf(x)' = "refunded"
         \/ phaseOf(x) = "sent" /\ phaseOf(x)' = "paid"
         \/ phaseOf(x) = "due" /\ phaseOf(x)' = "paid",
         inFlightOf(x)' = 0, Holdings' + fees' = (Holdings + fees) + inFlightOf(x)
  PROVE  Abstract!Next
  <1>1. phases[x] = phaseOf(x) /\ flights[x] = inFlightOf(x)
    BY DEF phases, flights
  <1>2. phases' = [phases EXCEPT ![x] = phaseOf(x)'] /\ flights' = [flights EXCEPT ![x] = 0]
    BY OneMoves
  <1>3. Abstract!refund(x) \/ Abstract!pay(x)
    BY <1>1, <1>2 DEF Abstract!refund, Abstract!pay, Abstract!finish, phases, flights
  <1> QED
    BY <1>3 DEF Abstract!Next
\* The phase and the value of a transfer, before and after a step: queued,
LEMMA PhaseQueued ==
  ASSUME NEW x, NEW q, q.amount \in Trimmed,
         QueuedOut(x) = {q}, Sent(x) = {}
  PROVE  phaseOf(x) = "queued" /\ inFlightOf(x) = untrim(q.amount, UnitDecimals)
  <1>1. phaseOf(x) = "queued"
    BY DEF phaseOf
  <1>2. QueuedOut(x) \cup (Sent(x) \ paid) = {q}
    OBVIOUS
  <1>3. inFlightOf(x) = ValueOf({q})
    BY <1>2 DEF inFlightOf
  <1> QED
    BY <1>1, <1>3, ValueOfOne

\* queued after the step,
LEMMA PhaseQueuedNext ==
  ASSUME NEW x, NEW q, q.amount \in Trimmed,
         (QueuedOut(x) = {q})', (Sent(x) = {})'
  PROVE  (phaseOf(x) = "queued" /\ inFlightOf(x) = untrim(q.amount, UnitDecimals))'
  BY PhaseQueued, PTL

\* sent,
LEMMA PhaseSent ==
  ASSUME NEW x, NEW m, m.amount \in Trimmed,
         QueuedOut(x) = {}, Sent(x) = {m}, x \notin cancelled,
         m \notin executed, m \notin paid
  PROVE  phaseOf(x) = "sent" /\ inFlightOf(x) = untrim(m.amount, UnitDecimals)
  <1>1. phaseOf(x) = "sent"
    BY DEF phaseOf
  <1>2. QueuedOut(x) \cup (Sent(x) \ paid) = {m}
    OBVIOUS
  <1>3. inFlightOf(x) = ValueOf({m})
    BY <1>2 DEF inFlightOf
  <1> QED
    BY <1>1, <1>3, ValueOfOne

\* sent after the step,
LEMMA PhaseSentNext ==
  ASSUME NEW x, NEW m, m.amount \in Trimmed,
         (QueuedOut(x) = {})', (Sent(x) = {m})', (x \notin cancelled)',
         (m \notin executed)', (m \notin paid)'
  PROVE  (phaseOf(x) = "sent" /\ inFlightOf(x) = untrim(m.amount, UnitDecimals))'
  BY PhaseSent, PTL

\* executed but not paid,
LEMMA PhaseDue ==
  ASSUME NEW x, NEW m, m.amount \in Trimmed,
         QueuedOut(x) = {}, Sent(x) = {m}, x \notin cancelled, m \in executed, m \notin paid
  PROVE  phaseOf(x) = "due" /\ inFlightOf(x) = untrim(m.amount, UnitDecimals)
  <1>1. phaseOf(x) = "due"
    BY DEF phaseOf
  <1>2. QueuedOut(x) \cup (Sent(x) \ paid) = {m}
    OBVIOUS
  <1>3. inFlightOf(x) = ValueOf({m})
    BY <1>2 DEF inFlightOf
  <1> QED
    BY <1>1, <1>3, ValueOfOne

\* executed but not paid after the step,
LEMMA PhaseDueNext ==
  ASSUME NEW x, NEW m, m.amount \in Trimmed,
         (QueuedOut(x) = {})', (Sent(x) = {m})', (x \notin cancelled)',
         (m \in executed)', (m \notin paid)'
  PROVE  (phaseOf(x) = "due" /\ inFlightOf(x) = untrim(m.amount, UnitDecimals))'
  BY PhaseDue, PTL

\* paid,
LEMMA PhasePaid ==
  ASSUME NEW x, NEW m,
         QueuedOut(x) = {}, Sent(x) = {m}, x \notin cancelled, m \in paid
  PROVE  phaseOf(x) = "paid" /\ inFlightOf(x) = 0
  <1>1. phaseOf(x) = "paid"
    BY DEF phaseOf
  <1>2. QueuedOut(x) \cup (Sent(x) \ paid) = {}
    OBVIOUS
  <1>3. inFlightOf(x) = ValueOf({})
    BY <1>2 DEF inFlightOf
  <1> QED
    BY <1>1, <1>3, ValueOfEmpty

\* paid after the step,
LEMMA PhasePaidNext ==
  ASSUME NEW x, NEW m,
         (QueuedOut(x) = {})', (Sent(x) = {m})', (x \notin cancelled)', (m \in paid)'
  PROVE  (phaseOf(x) = "paid" /\ inFlightOf(x) = 0)'
  BY PhasePaid, PTL

\* cancelled,
LEMMA PhaseRefunded ==
  ASSUME NEW x,
         QueuedOut(x) = {}, Sent(x) = {}, x \in cancelled
  PROVE  phaseOf(x) = "refunded" /\ inFlightOf(x) = 0
  <1>1. phaseOf(x) = "refunded"
    BY DEF phaseOf
  <1>2. QueuedOut(x) \cup (Sent(x) \ paid) = {}
    OBVIOUS
  <1>3. inFlightOf(x) = ValueOf({})
    BY <1>2 DEF inFlightOf
  <1> QED
    BY <1>1, <1>3, ValueOfEmpty

\* cancelled after the step,
LEMMA PhaseRefundedNext ==
  ASSUME NEW x,
         (QueuedOut(x) = {})', (Sent(x) = {})', (x \in cancelled)'
  PROVE  (phaseOf(x) = "refunded" /\ inFlightOf(x) = 0)'
  BY PhaseRefunded, PTL

\* not started.
LEMMA PhaseNone ==
  ASSUME NEW x,
         QueuedOut(x) = {}, Sent(x) = {}, x \notin cancelled
  PROVE  phaseOf(x) = "none" /\ inFlightOf(x) = 0
  <1>1. phaseOf(x) = "none"
    BY DEF phaseOf
  <1>2. QueuedOut(x) \cup (Sent(x) \ paid) = {}
    OBVIOUS
  <1>3. inFlightOf(x) = ValueOf({})
    BY <1>2 DEF inFlightOf
  <1> QED
    BY <1>1, <1>3, ValueOfEmpty

\* What is taken is the value of the transfer that starts.
LEMMA BridgeTaken ==
  ASSUME BaseInv, BaseInv', NEW x \in Transfer, \A y \in Transfer \ {x} : Untouched(y),
         phaseOf(x) = "none", phaseOf(x)' \in {"queued", "sent"},
         NEW w, Taken(w), inFlightOf(x)' = w
  PROVE  Abstract!Next
  <1> DEFINE h == Holdings  f == fees  h1 == Holdings'  f1 == fees'
  <1>1. h \in Nat /\ f \in Nat
    BY TotalsType DEF BaseInv
  <1>2. h1 \in Nat /\ f1 \in Nat
    BY TotalsTypeNext DEF BaseInv
  <1>3. w \in Nat /\ h1 + f1 = h + f - w
    BY DEF Taken
  <1> HIDE DEF h, f, h1, f1
  <1>4. h1 + f1 \in 0 .. h + f /\ w = (h + f) - (h1 + f1)
    BY <1>1, <1>2, <1>3
  <1> USE DEF h, f, h1, f1
  <1>5. Holdings' + fees' \in 0 .. Holdings + fees
    BY <1>4
  <1>6. inFlightOf(x)' = (Holdings + fees) - (Holdings' + fees')
    BY <1>4
  <1> QED
    BY <1>5, <1>6, AbstractStart

\* What is given is the value of the transfer that ends.
LEMMA BridgeGiven ==
  ASSUME BaseInv, NEW x \in Transfer, \A y \in Transfer \ {x} : Untouched(y),
         \/ phaseOf(x) = "queued" /\ phaseOf(x)' = "refunded"
         \/ phaseOf(x) = "sent" /\ phaseOf(x)' = "paid"
         \/ phaseOf(x) = "due" /\ phaseOf(x)' = "paid",
         NEW w, Given(w), inFlightOf(x) = w, inFlightOf(x)' = 0
  PROVE  Abstract!Next
  <1>1. Holdings' + fees' = (Holdings + fees) + inFlightOf(x)
    BY DEF Given
  <1> QED
    BY <1>1, AbstractFinish

\* A transfer that is queued starts in the bridge.
LEMMA BridgeStartQueued ==
  ASSUME BaseInv, BaseInv', NEW c \in Chain, NEW q \in OutEntry, StartQueued(c, q),
         NEW x, x = <<c, q.sequence>>
  PROVE  Abstract!Next
  <1>1. /\ outboundQueue \in [Chain -> SUBSET OutEntry]
        /\ outboundQueue' = [outboundQueue EXCEPT ![c] = @ \cup {q}]
        /\ sent' = sent /\ executed' = executed /\ cancelled' = cancelled /\ paid' = paid
    BY DEF StartQueued, BaseInv, TypeInv
  <1>2. q.sequence \in Nat /\ q.sequence = messageSequence[c] /\ q.sequence < MaxSequence[c]
    BY DEF StartQueued, OutEntry
  <1>3. x \in Transfer
    BY <1>2, IsTransfer
  <1>4. x[1] = c /\ x[2] = q.sequence
    OBVIOUS
  <1>5. ASSUME NEW y \in Transfer \ {x} PROVE Untouched(y)
    <2>1. y[1] \in Chain /\ ~(y[1] = c /\ y[2] = q.sequence)
      BY TransferPairs
    <2>2. QueuedOut(y)' = QueuedOut(y)
      BY <1>1, <2>1 DEF QueuedOut
    <2>3. Sent(y)' = Sent(y)
      BY <1>1 DEF Sent
    <2> QED
      BY <1>1, <2>2, <2>3 DEF Untouched
  <1>6. QueuedOut(x) = {} /\ Sent(x) = {} /\ x \notin cancelled
    <2>1. \A r \in outboundQueue[c] : r.sequence # q.sequence
      BY <1>2, SequenceFacts
    <2>2. \A m \in sent : ~Is(m, c, q.sequence)
      BY <1>2, SequenceFacts DEF Is
    <2>3. x \notin cancelled
      BY <1>2, <1>4, SequenceFacts
    <2> QED
      BY <1>4, <2>1, <2>2, <2>3 DEF QueuedOut, Sent
  <1>7. (QueuedOut(x) = {q})' /\ (Sent(x) = {})'
    BY <1>1, <1>4, <1>6 DEF QueuedOut, Sent
  <1>8. q.amount \in Trimmed
    BY DEF OutEntry
  <1>9. phaseOf(x) = "none"
    BY <1>6, PhaseNone
  <1>10. phaseOf(x)' = "queued" /\ inFlightOf(x)' = untrim(q.amount, UnitDecimals)
    BY <1>7, <1>8, PhaseQueuedNext
  <1>11. Taken(untrim(q.amount, UnitDecimals))
    BY DEF StartQueued
  <1> QED
    BY <1>3, <1>5, <1>9, <1>10, <1>11, BridgeTaken

\* So does one that is sent at once.
LEMMA BridgeStartSent ==
  ASSUME BaseInv, BaseInv', NEW c \in Chain, NEW m \in Message, StartSent(c, m),
         NEW x, x = <<c, m.sequence>>
  PROVE  Abstract!Next
  <1>1. /\ outboundQueue' = outboundQueue
        /\ sent' = sent \cup {m}
        /\ executed' = executed /\ cancelled' = cancelled /\ paid' = paid
    BY DEF StartSent
  <1>2. /\ m.sequence \in Nat /\ m.sequence = messageSequence[c] /\ m.sequence < MaxSequence[c]
        /\ m.from = c
    BY DEF StartSent, Message
  <1>3. x \in Transfer
    BY <1>2, IsTransfer
  <1>4. x[1] = c /\ x[2] = m.sequence
    OBVIOUS
  <1>5. ASSUME NEW y \in Transfer \ {x} PROVE Untouched(y)
    <2>1. ~Is(m, y[1], y[2])
      BY <1>2, TransferPairs DEF Is
    <2>2. QueuedOut(y)' = QueuedOut(y)
      BY <1>1 DEF QueuedOut
    <2>3. Sent(y)' = Sent(y)
      BY <1>1, <2>1 DEF Sent
    <2> QED
      BY <1>1, <2>2, <2>3 DEF Untouched
  <1>6. QueuedOut(x) = {} /\ Sent(x) = {} /\ x \notin cancelled
    <2>1. \A r \in outboundQueue[c] : r.sequence # m.sequence
      BY <1>2, SequenceFacts
    <2>2. \A k \in sent : ~Is(k, c, m.sequence)
      BY <1>2, SequenceFacts DEF Is
    <2>3. x \notin cancelled
      BY <1>2, <1>4, SequenceFacts
    <2> QED
      BY <1>4, <2>1, <2>2, <2>3 DEF QueuedOut, Sent
  <1>7. m \notin sent
    BY <1>2, SequenceFacts
  <1>8. m \notin executed /\ m \notin paid
    BY <1>7 DEF BaseInv, InInv
  <1>9. (QueuedOut(x) = {})' /\ (Sent(x) = {m})'
    <2>1. Is(m, x[1], x[2])
      BY <1>2, <1>4 DEF Is
    <2> QED
      BY <1>1, <1>6, <2>1 DEF QueuedOut, Sent
  <1>10. (x \notin cancelled)' /\ (m \notin executed)' /\ (m \notin paid)'
    BY <1>1, <1>6, <1>8
  <1>11. m.amount \in Trimmed
    BY DEF Message
  <1>12. phaseOf(x) = "none"
    BY <1>6, PhaseNone
  <1>13. phaseOf(x)' = "sent" /\ inFlightOf(x)' = untrim(m.amount, UnitDecimals)
    BY <1>9, <1>10, <1>11, PhaseSentNext
  <1>14. Taken(untrim(m.amount, UnitDecimals))
    BY DEF StartSent
  <1> QED
    BY <1>3, <1>5, <1>12, <1>13, <1>14, BridgeTaken

\* A queued transfer is the only one with its sequence and has no message.
LEMMA QueuedTransfer ==
  ASSUME BaseInv, NEW c \in Chain, NEW q \in outboundQueue[c], NEW x, x = <<c, q.sequence>>
  PROVE  /\ x \in Transfer /\ QueuedOut(x) = {q} /\ Sent(x) = {} /\ x \notin cancelled
         /\ q \in OutEntry /\ q.amount \in Trimmed
  <1>1. q \in OutEntry
    BY DEF BaseInv, TypeInv
  <1>2. q.amount \in Trimmed /\ q.sequence \in Nat
    BY <1>1 DEF OutEntry
  <1>3. q.sequence < MaxSequence[c]
    <2>1. /\ q.sequence < messageSequence[c] /\ messageSequence[c] <= MaxSequence[c]
          /\ messageSequence[c] \in Nat /\ MaxSequence[c] \in Nat
      BY SequenceFacts
    <2> QED
      BY <1>2, <2>1
  <1>4. x[1] = c /\ x[2] = q.sequence
    OBVIOUS
  <1>5. /\ <<c, q.sequence>> \notin cancelled
        /\ \A m \in sent : ~Is(m, c, q.sequence)
        /\ \A r \in outboundQueue[c] : r.sequence = q.sequence => r = q
    BY DEF BaseInv, OutInv
  <1>6. QueuedOut(x) = {q} /\ Sent(x) = {}
    BY <1>4, <1>5 DEF QueuedOut, Sent
  <1> QED
    BY <1>1, <1>2, <1>3, <1>5, <1>6, IsTransfer

\* A sent transfer has one message and is neither queued nor cancelled.
LEMMA SentTransfer ==
  ASSUME BaseInv, NEW m \in sent, NEW x, x = <<m.from, m.sequence>>
  PROVE  /\ x \in Transfer /\ QueuedOut(x) = {} /\ Sent(x) = {m} /\ x \notin cancelled
         /\ m.amount \in Trimmed
         /\ \A y \in Transfer \ {x} : m \notin Sent(y)
  <1>1. m \in Message
    BY DEF BaseInv, TypeInv
  <1>2. m.amount \in Trimmed /\ m.sequence \in Nat /\ m.from \in Chain
    BY <1>1 DEF Message
  <1>3. m.sequence < MaxSequence[m.from]
    <2>1. /\ m.sequence < messageSequence[m.from] /\ messageSequence[m.from] <= MaxSequence[m.from]
          /\ messageSequence[m.from] \in Nat /\ MaxSequence[m.from] \in Nat
      BY <1>2, SequenceFacts
    <2> QED
      BY <1>2, <2>1
  <1>4. x[1] = m.from /\ x[2] = m.sequence
    OBVIOUS
  <1>5. /\ <<m.from, m.sequence>> \notin cancelled
        /\ \A k \in sent : Is(k, m.from, m.sequence) => k = m
        /\ \A r \in outboundQueue[m.from] : r.sequence # m.sequence
    <2>1. OutInv
      BY DEF BaseInv
    <2>2. ASSUME NEW r \in outboundQueue[m.from] PROVE r.sequence # m.sequence
      <3>1. ~Is(m, m.from, r.sequence)
        BY <1>2, <2>1 DEF OutInv
      <3> QED
        BY <3>1 DEF Is
    <2> QED
      BY <2>1, <2>2 DEF OutInv
  <1>6. QueuedOut(x) = {} /\ Sent(x) = {m}
    BY <1>4, <1>5 DEF QueuedOut, Sent, Is
  <1>7. \A y \in Transfer \ {x} : m \notin Sent(y)
    BY TransferPairs DEF Sent, Is
  <1> QED
    BY <1>2, <1>3, <1>5, <1>6, <1>7, IsTransfer

\* Completing a queued transfer releases it.
LEMMA BridgeRelease ==
  ASSUME BaseInv, NEW c \in Chain, NEW q \in outboundQueue[c], NEW m \in Message, Release(c, q, m),
         NEW x, x = <<c, q.sequence>>
  PROVE  Abstract!Next
  <1>1. /\ outboundQueue \in [Chain -> SUBSET OutEntry]
        /\ outboundQueue' = [outboundQueue EXCEPT ![c] = @ \ {q}]
        /\ sent' = sent \cup {m}
        /\ executed' = executed /\ cancelled' = cancelled /\ paid' = paid
        /\ m.from = c /\ m.sequence = q.sequence /\ m.amount = q.amount
    BY DEF Release, BaseInv, TypeInv
  <1>2. /\ x \in Transfer /\ QueuedOut(x) = {q} /\ Sent(x) = {} /\ x \notin cancelled
        /\ q.amount \in Trimmed
    BY QueuedTransfer
  <1>3. x[1] = c /\ x[2] = q.sequence
    OBVIOUS
  <1>4. ASSUME NEW y \in Transfer \ {x} PROVE Untouched(y)
    <2>1. y[1] \in Chain /\ ~(y[1] = c /\ y[2] = q.sequence)
      BY TransferPairs
    <2>2. QueuedOut(y)' = QueuedOut(y)
      BY <1>1, <2>1 DEF QueuedOut
    <2>3. Sent(y)' = Sent(y)
      BY <1>1, <2>1 DEF Sent, Is
    <2> QED
      BY <1>1, <2>2, <2>3 DEF Untouched
  <1>5. m \notin sent
    BY <1>1, <1>2, <1>3 DEF Sent, Is
  <1>6. m \notin executed /\ m \notin paid
    BY <1>5 DEF BaseInv, InInv
  <1>7. (QueuedOut(x) = {})' /\ (Sent(x) = {m})'
    <2>1. Is(m, x[1], x[2])
      BY <1>1, <1>3 DEF Is
    <2> QED
      BY <1>1, <1>2, <1>3, <2>1 DEF QueuedOut, Sent
  <1>8. (x \notin cancelled)' /\ (m \notin executed)' /\ (m \notin paid)'
    BY <1>1, <1>2, <1>6
  <1>9. phaseOf(x) = "queued" /\ inFlightOf(x) = untrim(q.amount, UnitDecimals)
    BY <1>2, PhaseQueued
  <1>10. phaseOf(x)' = "sent" /\ inFlightOf(x)' = untrim(m.amount, UnitDecimals)
    BY <1>1, <1>2, <1>7, <1>8, PhaseSentNext
  <1>11. Holdings' + fees' = Holdings + fees
    BY DEF Release, Kept
  <1> QED
    BY <1>1, <1>2, <1>4, <1>9, <1>10, <1>11, AbstractAdvance

\* Cancelling it refunds it.
LEMMA BridgeRefund ==
  ASSUME BaseInv, NEW c \in Chain, NEW q \in outboundQueue[c], Refund(c, q),
         NEW x, x = <<c, q.sequence>>
  PROVE  Abstract!Next
  <1>1. /\ outboundQueue \in [Chain -> SUBSET OutEntry]
        /\ outboundQueue' = [outboundQueue EXCEPT ![c] = @ \ {q}]
        /\ sent' = sent /\ executed' = executed /\ paid' = paid
        /\ cancelled' = cancelled \cup {x}
    BY DEF Refund, BaseInv, TypeInv
  <1>2. /\ x \in Transfer /\ QueuedOut(x) = {q} /\ Sent(x) = {} /\ x \notin cancelled
        /\ q.amount \in Trimmed
    BY QueuedTransfer
  <1>3. x[1] = c /\ x[2] = q.sequence
    OBVIOUS
  <1>4. ASSUME NEW y \in Transfer \ {x} PROVE Untouched(y)
    <2>1. y[1] \in Chain /\ ~(y[1] = c /\ y[2] = q.sequence)
      BY TransferPairs
    <2>2. QueuedOut(y)' = QueuedOut(y)
      BY <1>1, <2>1 DEF QueuedOut
    <2>3. Sent(y)' = Sent(y)
      BY <1>1 DEF Sent
    <2> QED
      BY <1>1, <2>2, <2>3 DEF Untouched
  <1>5. (QueuedOut(x) = {})' /\ (Sent(x) = {})' /\ (x \in cancelled)'
    BY <1>1, <1>2, <1>3 DEF QueuedOut, Sent
  <1>6. phaseOf(x) = "queued" /\ inFlightOf(x) = untrim(q.amount, UnitDecimals)
    BY <1>2, PhaseQueued
  <1>7. phaseOf(x)' = "refunded" /\ inFlightOf(x)' = 0
    BY <1>5, PhaseRefundedNext
  <1>8. Given(untrim(q.amount, UnitDecimals))
    BY DEF Refund
  <1> QED
    BY <1>2, <1>4, <1>6, <1>7, <1>8, BridgeGiven

\* A message whose payment is queued arrives.
LEMMA BridgeArrive ==
  ASSUME BaseInv, NEW c \in Chain, NEW m \in sent, NEW q \in InEntry, Arrive(c, m, q),
         NEW x, x = <<m.from, m.sequence>>
  PROVE  Abstract!Next
  <1>1. /\ outboundQueue' = outboundQueue
        /\ sent' = sent /\ executed' = executed \cup {m} /\ cancelled' = cancelled /\ paid' = paid
        /\ m \notin executed
    BY DEF Arrive
  <1>2. m \notin paid
    BY <1>1 DEF BaseInv, InInv
  <1>3. /\ x \in Transfer /\ QueuedOut(x) = {} /\ Sent(x) = {m} /\ x \notin cancelled
        /\ m.amount \in Trimmed
        /\ \A y \in Transfer \ {x} : m \notin Sent(y)
    BY SentTransfer
  <1>4. ASSUME NEW y \in Transfer \ {x} PROVE Untouched(y)
    <2>1. QueuedOut(y)' = QueuedOut(y) /\ Sent(y)' = Sent(y)
      BY <1>1 DEF QueuedOut, Sent
    <2> QED
      BY <1>1, <1>3, <2>1 DEF Untouched
  <1>5. /\ (QueuedOut(x) = {})' /\ (Sent(x) = {m})' /\ (x \notin cancelled)'
        /\ (m \in executed)' /\ (m \notin paid)'
    BY <1>1, <1>2, <1>3 DEF QueuedOut, Sent
  <1>6. phaseOf(x) = "sent" /\ inFlightOf(x) = untrim(m.amount, UnitDecimals)
    BY <1>1, <1>2, <1>3, PhaseSent
  <1>7. phaseOf(x)' = "due" /\ inFlightOf(x)' = untrim(m.amount, UnitDecimals)
    BY <1>3, <1>5, PhaseDueNext
  <1>8. Holdings' + fees' = Holdings + fees
    BY DEF Arrive, Kept
  <1> QED
    BY <1>3, <1>4, <1>6, <1>7, <1>8, AbstractAdvance

\* A message that is paid at once ends its transfer.
LEMMA BridgePayAtOnce ==
  ASSUME BaseInv, NEW m \in sent, PayAtOnce(m), NEW x, x = <<m.from, m.sequence>>
  PROVE  Abstract!Next
  <1>1. /\ outboundQueue' = outboundQueue
        /\ sent' = sent /\ executed' = executed \cup {m} /\ cancelled' = cancelled
        /\ paid' = paid \cup {m} /\ m \notin executed
    BY DEF PayAtOnce
  <1>2. m \notin paid
    BY <1>1 DEF BaseInv, InInv
  <1>3. /\ x \in Transfer /\ QueuedOut(x) = {} /\ Sent(x) = {m} /\ x \notin cancelled
        /\ m.amount \in Trimmed
        /\ \A y \in Transfer \ {x} : m \notin Sent(y)
    BY SentTransfer
  <1>4. ASSUME NEW y \in Transfer \ {x} PROVE Untouched(y)
    <2>1. QueuedOut(y)' = QueuedOut(y) /\ Sent(y)' = Sent(y)
      BY <1>1 DEF QueuedOut, Sent
    <2> QED
      BY <1>1, <1>3, <2>1 DEF Untouched
  <1>5. /\ (QueuedOut(x) = {})' /\ (Sent(x) = {m})' /\ (x \notin cancelled)'
        /\ (m \in paid)'
    BY <1>1, <1>3 DEF QueuedOut, Sent
  <1>6. phaseOf(x) = "sent" /\ inFlightOf(x) = untrim(m.amount, UnitDecimals)
    BY <1>1, <1>2, <1>3, PhaseSent
  <1>7. phaseOf(x)' = "paid" /\ inFlightOf(x)' = 0
    BY <1>5, PhasePaidNext
  <1>8. Given(untrim(m.amount, UnitDecimals))
    BY DEF PayAtOnce
  <1> QED
    BY <1>3, <1>4, <1>6, <1>7, <1>8, BridgeGiven

\* So does a queued payment.
LEMMA BridgePayLater ==
  ASSUME BaseInv, NEW c \in Chain, NEW q \in inboundQueue[c], PayLater(c, q),
         NEW m, m = q.message, NEW x, x = <<m.from, m.sequence>>
  PROVE  Abstract!Next
  <1>1. /\ outboundQueue' = outboundQueue
        /\ sent' = sent /\ executed' = executed /\ cancelled' = cancelled
        /\ paid' = paid \cup {m}
    BY DEF PayLater
  <1>2. m \in sent /\ m \in executed /\ m \notin paid
    BY DEF BaseInv, InInv
  <1>3. /\ x \in Transfer /\ QueuedOut(x) = {} /\ Sent(x) = {m} /\ x \notin cancelled
        /\ m.amount \in Trimmed
        /\ \A y \in Transfer \ {x} : m \notin Sent(y)
    BY <1>2, SentTransfer
  <1>4. ASSUME NEW y \in Transfer \ {x} PROVE Untouched(y)
    <2>1. QueuedOut(y)' = QueuedOut(y) /\ Sent(y)' = Sent(y)
      BY <1>1 DEF QueuedOut, Sent
    <2> QED
      BY <1>1, <1>3, <2>1 DEF Untouched
  <1>5. /\ (QueuedOut(x) = {})' /\ (Sent(x) = {m})' /\ (x \notin cancelled)'
        /\ (m \in paid)'
    BY <1>1, <1>3 DEF QueuedOut, Sent
  <1>6. untrim(q.amount, UnitDecimals) = untrim(m.amount, UnitDecimals)
    BY DEF BaseInv, AmountInv
  <1>7. phaseOf(x) = "due" /\ inFlightOf(x) = untrim(m.amount, UnitDecimals)
    BY <1>2, <1>3, PhaseDue
  <1>8. phaseOf(x)' = "paid" /\ inFlightOf(x)' = 0
    BY <1>5, PhasePaidNext
  <1>9. Given(untrim(m.amount, UnitDecimals))
    BY <1>6 DEF PayLater
  <1> QED
    BY <1>3, <1>4, <1>7, <1>8, <1>9, BridgeGiven

\* The bridge does not see limits, pauses and time.
LEMMA BridgeAside ==
  ASSUME Aside
  PROVE  UNCHANGED Abstract!vars
  <1>1. /\ outboundQueue' = outboundQueue /\ sent' = sent /\ executed' = executed
        /\ cancelled' = cancelled /\ paid' = paid
    BY DEF Aside
  <1>2. Holdings' + fees' = Holdings + fees
    BY DEF Aside, Kept
  <1>3. \A y : Untouched(y)
    BY <1>1 DEF Untouched, QueuedOut, Sent
  <1>4. \A y : phaseOf(y)' = phaseOf(y) /\ inFlightOf(y)' = inFlightOf(y)
    BY <1>3, SameTransfer
  <1>5. Transfer' = Transfer
    BY DEF Transfer
  <1> QED
    BY <1>2, <1>4, <1>5 DEF Abstract!vars

\* Every step is a step of the bridge or leaves it unchanged.
LEMMA BridgeStep ==
  ASSUME BaseInv, BaseInv', SomeStep
  PROVE  [Abstract!Next]_(Abstract!vars)
  <1>1. CASE Aside
    BY <1>1, BridgeAside
  <1>2. CASE \E c \in Chain : \E q \in OutEntry : StartQueued(c, q)
    BY <1>2, BridgeStartQueued
  <1>3. CASE \E c \in Chain : \E m \in Message : StartSent(c, m)
    BY <1>3, BridgeStartSent
  <1>4. CASE \E c \in Chain : \E q \in outboundQueue[c] : \E m \in Message : Release(c, q, m)
    BY <1>4, BridgeRelease
  <1>5. CASE \E c \in Chain : \E q \in outboundQueue[c] : Refund(c, q)
    BY <1>5, BridgeRefund
  <1>6. CASE \E c \in Chain : \E m \in sent : \E q \in InEntry : Arrive(c, m, q)
    BY <1>6, BridgeArrive
  <1>7. CASE \E m \in sent : PayAtOnce(m)
    BY <1>7, BridgePayAtOnce
  <1>8. CASE \E c \in Chain : \E q \in inboundQueue[c] : PayLater(c, q)
    BY <1>8, BridgePayLater
  <1> QED
    BY <1>1, <1>2, <1>3, <1>4, <1>5, <1>6, <1>7, <1>8 DEF SomeStep

\* No transfer has started.
LEMMA BridgeInit ==
  ASSUME Init
  PROVE  Abstract!Init
  <1>1. /\ sent = {} /\ cancelled = {} /\ fees = 0
        /\ outboundQueue = [c \in Chain |-> {}]
    BY DEF Init
  <1>2. ASSUME NEW x \in Transfer PROVE phaseOf(x) = "none" /\ inFlightOf(x) = 0
    <2>1. x[1] \in Chain
      BY TransferPairs
    <2>2. QueuedOut(x) = {} /\ Sent(x) = {} /\ x \notin cancelled
      BY <1>1, <2>1 DEF QueuedOut, Sent
    <2> QED
      BY <2>2, PhaseNone
  <1>3. Holdings \in Nat
    BY InitBase, TotalsType DEF BaseInv
  <1>4. Holdings + fees \in Nat
    BY <1>1, <1>3
  <1> QED
    BY <1>2, <1>4 DEF Abstract!Init

\* INV-001, INV-002, INV-005, INV-029: the managers implement the bridge: each
\* transfer takes its value once and is refunded or paid once with all of it,
\* through decimals, queues, cancellation and replays.
THEOREM BridgeRefined == Spec => ImplementsBridge
  <1>1. IInv /\ [Next]_vars => [Abstract!Next]_(Abstract!vars)
    BY Steps, BaseStep, BridgeStep DEF IInv, BaseInv
  <1> QED
    BY IInvInit, IInvStep, BridgeInit, <1>1, PTL DEF Spec, ImplementsBridge, Abstract!Spec
=============================================================================
