----------------------- MODULE SpecialDeliveryProofs -----------------------
(***************************************************************************)
(* Proofs about paying for deliveries, for any prices, fees, durations and *)
(* numbers of transfers: every accepted request is paid for with a quote   *)
(* in force, one of a transceiver at the price that is on chain, and no    *)
(* coin stays in the contracts it passes.                                  *)
(***************************************************************************)
EXTENDS SpecialDelivery, AmountTheorems

Quote == [payment : Nat, expiry : Nat]
Instruction == [skip : BOOLEAN, quote : SUBSET Quote]
Entry == [instruction : Instruction, txTimestamp : Nat]
Request == [caller : {"users", "transceiver"}, number : Nat, quote : Quote, at : Nat,
            price : Nat]

TypeInv ==
    /\ price \in Nat
    /\ now \in Nat
    /\ quotes \in SUBSET Quote
    /\ queue \in [Transfer -> SUBSET Entry]
    /\ started \in Nat /\ direct \in Nat
    /\ started + direct <= MaxTransfers
    /\ coins \in [Account -> Int]
    /\ requests \in SUBSET Request
    /\ published \in SUBSET Transfer

\* A transfer is published once: what is published or queued has been started,
\* and what is queued is not published.
SentOnce ==
    /\ \A n \in Transfer : n > started => n \notin published /\ queue[n] = {}
    /\ \A n \in published : queue[n] = {}

\* What is queued carries quotes that the service has signed.
QueuedQuotes ==
    \A n \in Transfer : \A e \in queue[n] : e.instruction.quote \subseteq quotes

\* The requests that passed no transceiver have different numbers.
DirectOnce == \A r \in requests : r.caller = "users" => r.number <= direct

payments(R) == [r \in R |-> r.quote.payment]

\* What the accepted quotes add up to.
Paid(R) == SumFunctionOnSet(payments(R), R)

CoinsInv ==
    /\ IsFiniteSet(requests)
    /\ coins["transceiver"] = 0
    /\ coins["relayer"] = 0
    /\ coins["payee"] = Paid(requests)
    /\ coins["users"] = -(coins["bridge"] + coins["payee"])

IInv == TypeInv /\ SentOnce /\ QueuedQuotes /\ DirectOnce /\ RequestsAreCurrent /\ CoinsInv

-----------------------------------------------------------------------------
(* Coins and requests.                                                     *)

\* d is what c becomes when amount goes from one account to another.
Moves(from, to, amount, c, d) ==
  /\ d \in [Account -> Int]
  /\ d[from] = c[from] - amount
  /\ d[to] = c[to] + amount
  /\ \A a \in Account \ {from, to} : d[a] = c[a]

LEMMA PaysMoves ==
  ASSUME NEW c \in [Account -> Int], NEW from \in Account, NEW to \in Account, from # to,
         NEW amount \in Int
  PROVE  /\ pays(from, to, amount, c) \in [Account -> Int]
         /\ Moves(from, to, amount, c, pays(from, to, amount, c))
  BY DEF pays, Moves

\* One request more.
LEMMA PaidAdds ==
  ASSUME NEW R \in SUBSET Request, IsFiniteSet(R), NEW r \in Request, r \notin R
  PROVE  /\ IsFiniteSet(R \cup {r})
         /\ Paid(R \cup {r}) = Paid(R) + r.quote.payment
         /\ Paid(R) \in Int
  <1> DEFINE U == R \cup {r}
             f == payments(U)
             g == payments(R)
  <1>1. IsFiniteSet(U) /\ r \in U /\ U \ {r} = R
    BY FS_AddElement
  <1>2. \A x \in U : f[x] = x.quote.payment /\ x.quote.payment \in Int
    BY DEF payments, Request, Quote
  <1>3. \A x \in R : g[x] = x.quote.payment
    BY DEF payments
  <1> HIDE DEF U, f, g
  <1>4. \A x \in U : f[x] \in Int
    BY <1>2
  <1>5. SumFunctionOnSet(f, U) = SumFunctionOnSet(f, U \ {r}) + f[r]
    BY <1>1, <1>4, SumElement, Zenon
  <1>6. \A x \in R : f[x] = g[x] /\ g[x] \in Int /\ f[x] \in Int
    BY <1>1, <1>2, <1>3
  <1>7. SumFunctionOnSet(f, R) = SumFunctionOnSet(g, R)
    BY <1>6, SumSame
  <1>8. SumFunctionOnSet(g, R) \in Int
    BY <1>6, SumType
  <1> QED
    BY <1>1, <1>2, <1>5, <1>7, <1>8 DEF Paid, U, f, g

\* A message is sent by the standard relayer or for somebody to deliver: what
\* the users pay goes to the bridge.
LEMMA PassedOn ==
  ASSUME NEW c \in [Account -> Int], NEW amount \in Int
  PROVE  LET d == pays("transceiver", "bridge", amount,
                    pays("users", "transceiver", amount, c))
         IN  /\ d \in [Account -> Int]
             /\ d["transceiver"] = c["transceiver"]
             /\ d["relayer"] = c["relayer"]
             /\ d["payee"] = c["payee"]
             /\ d["users"] = c["users"] - amount
             /\ d["bridge"] = c["bridge"] + amount
  <1> DEFINE e == pays("users", "transceiver", amount, c)
             d == pays("transceiver", "bridge", amount, e)
  <1>1. /\ "users" \in Account /\ "transceiver" \in Account /\ "bridge" \in Account
        /\ "relayer" \in Account /\ "payee" \in Account
        /\ "users" # "transceiver" /\ "transceiver" # "bridge" /\ "transceiver" # "relayer"
        /\ "relayer" # "payee" /\ "relayer" # "transceiver" /\ 0 \in Int
    BY DEF Account
  <1>2. e \in [Account -> Int] /\ Moves("users", "transceiver", amount, c, e)
    BY <1>1, PaysMoves, Zenon
  <1> HIDE DEF e
  <1>3. d \in [Account -> Int] /\ Moves("transceiver", "bridge", amount, e, d)
    BY <1>1, <1>2, PaysMoves, Zenon
  <1> HIDE DEF d
  <1>4. /\ d["transceiver"] = c["transceiver"]
        /\ d["relayer"] = c["relayer"]
        /\ d["payee"] = c["payee"]
        /\ d["users"] = c["users"] - amount
        /\ d["bridge"] = c["bridge"] + amount
    BY <1>1, <1>2, <1>3 DEF Moves
  <1> QED
    BY <1>3, <1>4 DEF d, e, Moves

\* A transceiver's request for an execution whose price is amount.
LEMMA PaidOut ==
  ASSUME NEW c \in [Account -> Int], NEW amount \in Int, NEW fee \in Int
  PROVE  LET d == pays("relayer", "transceiver", 0,
                    pays("relayer", "payee", amount,
                      pays("transceiver", "relayer", amount,
                        pays("transceiver", "bridge", fee,
                          pays("users", "transceiver", amount + fee, c)))))
         IN  /\ d \in [Account -> Int]
             /\ d["transceiver"] = c["transceiver"]
             /\ d["relayer"] = c["relayer"]
             /\ d["payee"] = c["payee"] + amount
             /\ d["users"] = c["users"] - (amount + fee)
             /\ d["bridge"] = c["bridge"] + fee
  <1> DEFINE e == pays("users", "transceiver", amount + fee, c)
             f == pays("transceiver", "bridge", fee, e)
             g == pays("transceiver", "relayer", amount, f)
             h == pays("relayer", "payee", amount, g)
             d == pays("relayer", "transceiver", 0, h)
  <1>1. /\ "users" \in Account /\ "transceiver" \in Account /\ "bridge" \in Account
        /\ "relayer" \in Account /\ "payee" \in Account
        /\ amount + fee \in Int
        /\ "users" # "transceiver" /\ "transceiver" # "bridge" /\ "transceiver" # "relayer"
        /\ "relayer" # "payee" /\ "relayer" # "transceiver" /\ 0 \in Int
    BY DEF Account
  <1>2. e \in [Account -> Int] /\ Moves("users", "transceiver", amount + fee, c, e)
    BY <1>1, PaysMoves, Zenon
  <1> HIDE DEF e
  <1>3. f \in [Account -> Int] /\ Moves("transceiver", "bridge", fee, e, f)
    BY <1>1, <1>2, PaysMoves, Zenon
  <1> HIDE DEF f
  <1>4. g \in [Account -> Int] /\ Moves("transceiver", "relayer", amount, f, g)
    BY <1>1, <1>3, PaysMoves, Zenon
  <1> HIDE DEF g
  <1>5. h \in [Account -> Int] /\ Moves("relayer", "payee", amount, g, h)
    BY <1>1, <1>4, PaysMoves, Zenon
  <1> HIDE DEF h
  <1>6. d \in [Account -> Int] /\ Moves("relayer", "transceiver", 0, h, d)
    BY <1>1, <1>5, PaysMoves, Zenon
  <1> HIDE DEF d
  <1>7. /\ d["transceiver"] = c["transceiver"]
        /\ d["relayer"] = c["relayer"]
    BY <1>1, <1>2, <1>3, <1>4, <1>5, <1>6 DEF Moves
  <1>8. /\ d["payee"] = c["payee"] + amount
        /\ d["users"] = c["users"] - (amount + fee)
        /\ d["bridge"] = c["bridge"] + fee
    BY <1>1, <1>2, <1>3, <1>4, <1>5, <1>6 DEF Moves
  <1> QED
    BY <1>6, <1>7, <1>8 DEF d, e, f, g, h, Moves

\* A request by somebody who gets back what was paid beyond the quote.
LEMMA PaidDirectly ==
  ASSUME NEW c \in [Account -> Int], NEW amount \in Int, NEW paid \in Int
  PROVE  LET d == pays("relayer", "users", paid - amount,
                    pays("relayer", "payee", amount,
                      pays("users", "relayer", paid, c)))
         IN  /\ d \in [Account -> Int]
             /\ d["transceiver"] = c["transceiver"]
             /\ d["relayer"] = c["relayer"]
             /\ d["payee"] = c["payee"] + amount
             /\ d["users"] = c["users"] - amount
             /\ d["bridge"] = c["bridge"]
  <1> DEFINE g == pays("users", "relayer", paid, c)
             h == pays("relayer", "payee", amount, g)
             d == pays("relayer", "users", paid - amount, h)
  <1>1. /\ "users" \in Account /\ "transceiver" \in Account /\ "bridge" \in Account
        /\ "relayer" \in Account /\ "payee" \in Account
        /\ "users" # "relayer" /\ "relayer" # "payee" /\ "relayer" # "users"
        /\ paid - amount \in Int
    BY DEF Account
  <1>2. g \in [Account -> Int] /\ Moves("users", "relayer", paid, c, g)
    BY <1>1, PaysMoves, Zenon
  <1> HIDE DEF g
  <1>3. h \in [Account -> Int] /\ Moves("relayer", "payee", amount, g, h)
    BY <1>1, <1>2, PaysMoves, Zenon
  <1> HIDE DEF h
  <1>4. d \in [Account -> Int] /\ Moves("relayer", "users", paid - amount, h, d)
    BY <1>1, <1>3, PaysMoves, Zenon
  <1> HIDE DEF d
  <1>5. /\ d["transceiver"] = c["transceiver"]
        /\ d["relayer"] = c["relayer"]
        /\ d["payee"] = c["payee"] + amount
        /\ d["users"] = c["users"] - amount
        /\ d["bridge"] = c["bridge"]
    BY <1>1, <1>2, <1>3, <1>4 DEF Moves
  <1> QED
    BY <1>4, <1>5 DEF d, g, h, Moves

-----------------------------------------------------------------------------
(* Sending.                                                                *)

\* The invariant's part about requests and payments after a request r that is
\* not among the accepted ones.
LEMMA Requested ==
  ASSUME IInv, NEW r \in Request, r \notin requests, requests' = requests \cup {r},
         UNCHANGED quotes, published \subseteq published',
         r.quote \in quotes, r.at <= r.quote.expiry,
         r.caller = "transceiver" => r.number \in published' /\ r.quote.payment = r.price
  PROVE  /\ requests' \in SUBSET Request
         /\ RequestsAreCurrent'
         /\ IsFiniteSet(requests')
         /\ Paid(requests') = coins["payee"] + r.quote.payment
  <1>1. /\ requests \in SUBSET Request /\ IsFiniteSet(requests)
        /\ coins["payee"] = Paid(requests)
    BY DEF IInv, TypeInv, CoinsInv
  <1>2. IsFiniteSet(requests') /\ Paid(requests') = Paid(requests) + r.quote.payment
    BY <1>1, PaidAdds
  <1>3. RequestsAreCurrent'
    <2> SUFFICES ASSUME NEW x \in requests'
                 PROVE  /\ x.quote \in quotes'
                        /\ x.at <= x.quote.expiry
                        /\ x.caller = "transceiver" =>
                              x.number \in published' /\ x.quote.payment = x.price
      BY DEF RequestsAreCurrent
    <2>1. CASE x = r
      BY <2>1
    <2>2. CASE x \in requests
      BY <2>2 DEF IInv, RequestsAreCurrent
    <2> QED
      BY <2>1, <2>2
  <1> QED
    BY <1>1, <1>2, <1>3

\* The invariant after transfer n was sent: the rest of the state is as the
\* actions say.
LEMMA SendInv ==
  ASSUME IInv, NEW n \in Transfer, NEW i \in Instruction, n \notin published,
         i.quote \subseteq quotes, sendMessage(n, i), UNCHANGED quotes
  PROVE  /\ coins' \in [Account -> Int]
         /\ requests' \in SUBSET Request
         /\ published' = published \cup {n}
         /\ direct' = direct
         /\ DirectOnce'
         /\ RequestsAreCurrent'
         /\ CoinsInv'
  <1> DEFINE payment == quoteDeliveryPrice(i)
  <1>1. /\ price \in Nat /\ now \in Nat /\ coins \in [Account -> Int]
        /\ requests \in SUBSET Request /\ IsFiniteSet(requests)
        /\ coins["transceiver"] = 0 /\ coins["relayer"] = 0
        /\ coins["payee"] = Paid(requests)
        /\ coins["users"] = -(coins["bridge"] + coins["payee"])
        /\ messageFee \in Nat /\ standardCost \in Nat
    BY DeliveryAssumption DEF IInv, TypeInv, CoinsInv
  <1>2. /\ "users" \in Account /\ "transceiver" \in Account /\ "bridge" \in Account
        /\ "relayer" \in Account /\ "payee" \in Account
    BY DEF Account
  <1>3. published' = published \cup {n} /\ direct' = direct
    BY DEF sendMessage
  <1>4. CASE route(i) = "special"
    <2>1. payment = price + messageFee /\ payment - messageFee = price
      BY <1>1, <1>4 DEF quoteDeliveryPrice
    <2>2. PICK q \in i.quote :
            requestExecution("transceiver", n, q, payment - messageFee,
                             pays("transceiver", "bridge", messageFee,
                               pays("users", "transceiver", payment, coins)))
      BY <1>4 DEF sendMessage
    <2>3. q \in Quote /\ q.payment \in Nat /\ q \in quotes
      BY DEF Instruction, Quote
    <2>4. /\ now <= q.expiry /\ price - q.payment = 0
          /\ requests' = requests \cup
               {[caller |-> "transceiver", number |-> n, quote |-> q, at |-> now,
                 price |-> price]}
      BY <2>1, <2>2 DEF requestExecution, quoteAccepted, refundAccepted
    <2>5. q.payment = price
      BY <1>1, <2>3, <2>4
    <2>6. coins' = pays("relayer", "transceiver", 0,
                     pays("relayer", "payee", price,
                       pays("transceiver", "relayer", price,
                         pays("transceiver", "bridge", messageFee,
                           pays("users", "transceiver", price + messageFee, coins)))))
      BY <2>1, <2>2, <2>4, <2>5 DEF requestExecution
    <2>7. /\ coins' \in [Account -> Int]
          /\ coins'["transceiver"] = 0
          /\ coins'["relayer"] = 0
          /\ coins'["payee"] = coins["payee"] + price
          /\ coins'["users"] = coins["users"] - (price + messageFee)
          /\ coins'["bridge"] = coins["bridge"] + messageFee
      <3> DEFINE d == pays("relayer", "transceiver", 0,
                        pays("relayer", "payee", price,
                          pays("transceiver", "relayer", price,
                            pays("transceiver", "bridge", messageFee,
                              pays("users", "transceiver", price + messageFee, coins)))))
      <3>1. /\ d \in [Account -> Int]
            /\ d["transceiver"] = coins["transceiver"]
            /\ d["relayer"] = coins["relayer"]
            /\ d["payee"] = coins["payee"] + price
            /\ d["users"] = coins["users"] - (price + messageFee)
            /\ d["bridge"] = coins["bridge"] + messageFee
        <4>1. price \in Int /\ messageFee \in Int
          BY <1>1
        <4> QED
          BY <1>1, <4>1, PaidOut, ZenonT(60)
      <3> HIDE DEF d
      <3>2. coins' = d
        BY <2>6 DEF d
      <3> QED
        BY <1>1, <3>1, <3>2
    <2> DEFINE r == [caller |-> "transceiver", number |-> n, quote |-> q, at |-> now,
                     price |-> price]
    <2>8. /\ r \in Request /\ r.caller = "transceiver" /\ r.number = n /\ r.quote = q
          /\ r.at = now /\ r.price = price
      BY <1>1, <2>3 DEF Request, Transfer
    <2>9. r \notin requests
      BY <2>8 DEF IInv, RequestsAreCurrent
    <2>10. requests' = requests \cup {r}
      BY <2>4
    <2> HIDE DEF r
    <2>11. /\ requests' \in SUBSET Request /\ RequestsAreCurrent' /\ IsFiniteSet(requests')
           /\ Paid(requests') = coins["payee"] + price
      BY <1>3, <2>3, <2>4, <2>5, <2>8, <2>9, <2>10, Requested
    <2>12. CoinsInv'
      <3>1. coins["bridge"] \in Int /\ coins["users"] \in Int /\ coins["payee"] \in Int
        BY <1>1, <1>2
      <3>2. coins'["users"] = -(coins'["bridge"] + coins'["payee"])
        BY <1>1, <2>7, <3>1
      <3> QED
        BY <1>1, <2>7, <2>11, <3>2 DEF CoinsInv
    <2>13. DirectOnce'
      BY <1>3, <2>8, <2>10 DEF IInv, DirectOnce
    <2> QED
      BY <1>1, <1>3, <2>7, <2>11, <2>12, <2>13
  <1>5. CASE route(i) # "special"
    <2>1. payment \in Int
      BY <1>1, <1>5 DEF quoteDeliveryPrice, route
    <2>2. /\ coins' = pays("transceiver", "bridge", payment,
                        pays("users", "transceiver", payment, coins))
          /\ requests' = requests
      BY <1>5 DEF sendMessage
    <2> HIDE DEF payment
    <2>3. /\ coins' \in [Account -> Int]
          /\ coins'["transceiver"] = 0
          /\ coins'["relayer"] = 0
          /\ coins'["payee"] = coins["payee"]
          /\ coins'["users"] = coins["users"] - payment
          /\ coins'["bridge"] = coins["bridge"] + payment
      BY <1>1, <2>1, <2>2, PassedOn
    <2>4. CoinsInv'
      <3>1. coins["bridge"] \in Int /\ coins["users"] \in Int /\ coins["payee"] \in Int
        BY <1>1, <1>2
      <3>2. coins'["users"] = -(coins'["bridge"] + coins'["payee"])
        BY <1>1, <2>1, <2>3, <3>1
      <3> QED
        BY <1>1, <2>2, <2>3, <3>2 DEF CoinsInv
    <2>5. RequestsAreCurrent' /\ DirectOnce'
      BY <1>3, <2>2 DEF IInv, RequestsAreCurrent, DirectOnce
    <2> QED
      BY <1>1, <1>3, <2>2, <2>3, <2>4, <2>5
  <1> QED
    BY <1>4, <1>5

-----------------------------------------------------------------------------
(* The invariant.                                                          *)

LEMMA InitIInv == Init => IInv
  <1> SUFFICES ASSUME Init PROVE IInv
    OBVIOUS
  <1>1. TypeInv
    BY DeliveryAssumption DEF Init, TypeInv
  <1>2. SentOnce
    BY DEF Init, SentOnce
  <1>3. RequestsAreCurrent /\ QueuedQuotes /\ DirectOnce
    BY DEF Init, RequestsAreCurrent, QueuedQuotes, DirectOnce
  <1>4. CoinsInv
    <2>1. requests = {} /\ IsFiniteSet({}) /\ Paid({}) = 0
      BY FS_EmptySet, SumEmpty DEF Init, Paid
    <2>2. coins["transceiver"] = 0 /\ coins["relayer"] = 0 /\ coins["payee"] = 0
          /\ coins["users"] = 0 /\ coins["bridge"] = 0
      <3>1. coins = [a \in Account |-> 0]
        BY DEF Init
      <3>2. /\ "users" \in Account /\ "transceiver" \in Account /\ "bridge" \in Account
            /\ "relayer" \in Account /\ "payee" \in Account
        BY DEF Account
      <3> QED
        BY <3>1, <3>2
    <2>3. coins["users"] = -(coins["bridge"] + coins["payee"])
      <3>1. \A u, b, p \in Int : u + (b + p) = 0 => u = -(b + p)
        OBVIOUS
      <3>2. /\ coins["users"] \in Int /\ coins["bridge"] \in Int /\ coins["payee"] \in Int
            /\ coins["users"] + (coins["bridge"] + coins["payee"]) = 0
        BY <2>2
      <3> QED
        BY <3>1, <3>2, Zenon
    <2> QED
      BY <2>1, <2>2, <2>3, Zenon DEF CoinsInv
  <1> QED
    BY <1>1, <1>2, <1>3, <1>4 DEF IInv

\* Instructions carry quotes that the service has signed.
LEMMA InstructionType ==
  ASSUME TypeInv, NEW i \in {Skip, Plain} \cup {Quoted(q) : q \in quotes}
  PROVE  i \in Instruction /\ i.quote \subseteq quotes
  <1>1. /\ Skip \in Instruction /\ Plain \in Instruction
        /\ Skip.quote = {} /\ Plain.quote = {}
    BY DEF Skip, Plain, Instruction
  <1>2. ASSUME NEW q \in quotes
        PROVE  Quoted(q) \in Instruction /\ Quoted(q).quote \subseteq quotes
    <2>1. {q} \in SUBSET Quote
      BY DEF TypeInv
    <2> QED
      BY <2>1 DEF Quoted, Instruction
  <1> QED
    BY <1>1, <1>2

\* Nothing was sent and the queue is as it was.
LEMMA ConfigurationIInv ==
  ASSUME IInv, UNCHANGED <<queue, started, sendVars>>,
         price' \in Nat, now' \in Nat, quotes' \in SUBSET Quote, quotes \subseteq quotes'
  PROVE  IInv'
  <1>1. UNCHANGED <<queue, started, direct, coins, published, requests>>
    BY DEF sendVars
  <1>2. TypeInv'
    BY <1>1 DEF IInv, TypeInv
  <1>3. SentOnce'
    BY <1>1 DEF IInv, SentOnce
  <1>4. RequestsAreCurrent' /\ QueuedQuotes' /\ DirectOnce'
    BY <1>1 DEF IInv, RequestsAreCurrent, QueuedQuotes, DirectOnce
  <1>5. CoinsInv'
    BY <1>1 DEF IInv, CoinsInv
  <1> QED
    BY <1>2, <1>3, <1>4, <1>5 DEF IInv

\* The next transfer has a number that nothing has used.
LEMMA NextTransfer ==
  ASSUME IInv, started + direct < MaxTransfers
  PROVE  /\ started \in Nat /\ direct \in Nat /\ started + 1 \in Transfer
         /\ started + 1 + direct <= MaxTransfers
         /\ started + 1 > started
         /\ started + 1 \notin published
         /\ queue[started + 1] = {}
  <1>1. started \in Nat /\ direct \in Nat /\ MaxTransfers \in Nat
    BY DeliveryAssumption DEF IInv, TypeInv
  <1>2. /\ started + 1 \in Transfer /\ started + 1 > started
        /\ started + 1 + direct <= MaxTransfers
    BY <1>1 DEF Transfer
  <1> QED
    BY <1>1, <1>2 DEF IInv, SentOnce

LEMMA TransferIInv ==
  ASSUME IInv, NEW i \in Instruction, i.quote \subseteq quotes, transfer(i) PROVE IInv'
  <1> DEFINE n == started + 1
  <1>1. /\ started \in Nat /\ direct \in Nat /\ n \in Transfer /\ n + direct <= MaxTransfers
        /\ n \in Nat /\ n > started /\ n \notin published /\ queue[n] = {}
    BY NextTransfer DEF transfer
  <1>2. /\ started' = n
        /\ UNCHANGED <<price, now, quotes, queue>>
        /\ sendMessage(n, i)
    BY DEF transfer, configVars
  <1> HIDE DEF n
  <1>3. /\ coins' \in [Account -> Int] /\ requests' \in SUBSET Request
        /\ published' = published \cup {n} /\ direct' = direct
        /\ DirectOnce' /\ RequestsAreCurrent' /\ CoinsInv'
    BY <1>1, <1>2, SendInv
  <1>4. TypeInv'
    BY <1>1, <1>2, <1>3 DEF IInv, TypeInv
  <1>5. SentOnce'
    <2>1. ASSUME NEW m \in Transfer, m > n PROVE m \notin published' /\ queue'[m] = {}
      <3>1. m > started /\ m # n
        BY <1>1, <2>1 DEF Transfer, n
      <3> QED
        BY <1>2, <1>3, <3>1 DEF IInv, SentOnce
    <2>2. ASSUME NEW m \in published' PROVE queue'[m] = {}
      BY <1>1, <1>2, <1>3, <2>2 DEF IInv, SentOnce
    <2> QED
      BY <1>2, <2>1, <2>2 DEF SentOnce
  <1>6. QueuedQuotes'
    BY <1>2 DEF IInv, QueuedQuotes
  <1> QED
    BY <1>3, <1>4, <1>5, <1>6 DEF IInv

LEMMA QueuedIInv ==
  ASSUME IInv, NEW i \in Instruction, i.quote \subseteq quotes, transferQueued(i)
  PROVE  IInv'
  <1> DEFINE n == started + 1
             e == [instruction |-> i, txTimestamp |-> now]
  <1>1. /\ started \in Nat /\ direct \in Nat /\ n \in Transfer /\ n + direct <= MaxTransfers
        /\ n \in Nat /\ n > started /\ n \notin published
    BY NextTransfer DEF transferQueued
  <1>2. /\ started' = n
        /\ UNCHANGED <<price, now, quotes, direct, coins, published, requests>>
        /\ queue' = [queue EXCEPT ![n] = {e}]
    BY DEF transferQueued, configVars, sendVars
  <1>3. e \in Entry /\ e.instruction.quote \subseteq quotes
    BY DEF Entry, IInv, TypeInv
  <1> HIDE DEF n, e
  <1>4. TypeInv'
    BY <1>1, <1>2, <1>3 DEF IInv, TypeInv
  <1>5. \A m \in Transfer : m # n => queue'[m] = queue[m]
    BY <1>2 DEF IInv, TypeInv
  <1>6. SentOnce'
    <2>1. ASSUME NEW m \in Transfer, m > n PROVE m \notin published' /\ queue'[m] = {}
      <3>1. m > started /\ m # n
        BY <1>1, <2>1 DEF Transfer, n
      <3> QED
        BY <1>2, <1>5, <3>1 DEF IInv, SentOnce
    <2>2. ASSUME NEW m \in published' PROVE queue'[m] = {}
      <3>1. m \in published /\ m # n /\ m \in Transfer
        BY <1>1, <1>2, <2>2 DEF IInv, TypeInv
      <3> QED
        BY <1>5, <3>1 DEF IInv, SentOnce
    <2> QED
      BY <1>2, <2>1, <2>2 DEF SentOnce
  <1>7. RequestsAreCurrent' /\ DirectOnce'
    BY <1>2 DEF IInv, RequestsAreCurrent, DirectOnce
  <1>8. CoinsInv'
    BY <1>2 DEF IInv, CoinsInv
  <1>9. queue'[n] = {e}
    BY <1>1, <1>2 DEF IInv, TypeInv
  <1>10. QueuedQuotes'
    BY <1>2, <1>3, <1>5, <1>9 DEF IInv, QueuedQuotes
  <1> QED
    BY <1>4, <1>6, <1>7, <1>8, <1>10 DEF IInv

\* The entry of a transfer leaves the queue.
LEMMA Dequeued ==
  ASSUME IInv, NEW n \in Transfer, queue[n] # {}, queue' = [queue EXCEPT ![n] = {}],
         UNCHANGED <<quotes, started>>, published' \subseteq published \cup {n}
  PROVE  /\ queue' \in [Transfer -> SUBSET Entry]
         /\ n \notin published
         /\ SentOnce' /\ QueuedQuotes'
  <1>1. queue \in [Transfer -> SUBSET Entry] /\ published \in SUBSET Transfer
    BY DEF IInv, TypeInv
  <1>2. queue' \in [Transfer -> SUBSET Entry] /\ queue'[n] = {}
        /\ \A m \in Transfer \ {n} : queue'[m] = queue[m]
    BY <1>1
  <1>3. n \notin published /\ ~ (n > started)
    BY DEF IInv, SentOnce
  <1>4. \A m \in Transfer : m > started => m \notin published' /\ queue'[m] = {}
    BY <1>2, <1>3 DEF IInv, SentOnce
  <1>5. \A m \in published' : queue'[m] = {}
    BY <1>1, <1>2 DEF IInv, SentOnce
  <1>6. QueuedQuotes'
    BY <1>2 DEF IInv, QueuedQuotes
  <1> QED
    BY <1>2, <1>3, <1>4, <1>5, <1>6 DEF SentOnce

LEMMA CompleteIInv ==
  ASSUME IInv, NEW n \in Transfer, NEW e \in queue[n], completeOutboundQueuedTransfer(n, e)
  PROVE  IInv'
  <1>1. e.instruction \in Instruction /\ e.instruction.quote \subseteq quotes
    BY DEF IInv, TypeInv, Entry, QueuedQuotes
  <1>2. /\ UNCHANGED <<price, now, quotes, started>>
        /\ queue' = [queue EXCEPT ![n] = {}]
        /\ sendMessage(n, e.instruction)
    BY DEF completeOutboundQueuedTransfer, configVars
  <1>3. published' \subseteq published \cup {n}
    BY <1>2 DEF sendMessage
  <1>4. /\ queue' \in [Transfer -> SUBSET Entry] /\ n \notin published
        /\ SentOnce' /\ QueuedQuotes'
    BY <1>2, <1>3, Dequeued
  <1>5. /\ coins' \in [Account -> Int] /\ requests' \in SUBSET Request
        /\ published' = published \cup {n} /\ direct' = direct
        /\ DirectOnce' /\ RequestsAreCurrent' /\ CoinsInv'
    BY <1>1, <1>2, <1>4, SendInv
  <1>6. TypeInv'
    BY <1>2, <1>4, <1>5 DEF IInv, TypeInv
  <1> QED
    BY <1>4, <1>5, <1>6 DEF IInv

LEMMA CancelIInv ==
  ASSUME IInv, NEW n \in Transfer, cancelOutboundQueuedTransfer(n) PROVE IInv'
  <1>1. /\ queue[n] # {} /\ queue' = [queue EXCEPT ![n] = {}]
        /\ UNCHANGED <<price, now, quotes, started, direct, coins, published, requests>>
    BY DEF cancelOutboundQueuedTransfer, configVars, sendVars
  <1>2. queue' \in [Transfer -> SUBSET Entry] /\ SentOnce' /\ QueuedQuotes'
    BY <1>1, Dequeued
  <1>3. TypeInv'
    BY <1>1, <1>2 DEF IInv, TypeInv
  <1>4. RequestsAreCurrent' /\ DirectOnce'
    BY <1>1 DEF IInv, RequestsAreCurrent, DirectOnce
  <1>5. CoinsInv'
    BY <1>1 DEF IInv, CoinsInv
  <1> QED
    BY <1>2, <1>3, <1>4, <1>5 DEF IInv

\* A request that passes no transceiver.
LEMMA DirectIInv ==
  ASSUME IInv, NEW q \in quotes, NEW paid \in Price, requestDirectly(q, paid)
  PROVE  IInv'
  <1>1. /\ paid \in Int /\ q \in Quote /\ q.payment \in Nat /\ price \in Nat /\ now \in Nat
        /\ started \in Nat /\ direct \in Nat /\ coins \in [Account -> Int]
        /\ coins["transceiver"] = 0 /\ coins["relayer"] = 0
        /\ coins["users"] = -(coins["bridge"] + coins["payee"])
    BY DeliveryAssumption DEF IInv, TypeInv, CoinsInv, Quote
  <1> DEFINE r == [caller |-> "users", number |-> direct + 1, quote |-> q, at |-> now,
                   price |-> price]
  <1>2. /\ direct' = direct + 1 /\ started + direct < MaxTransfers
        /\ UNCHANGED <<price, now, quotes, queue, started, published>>
        /\ now <= q.expiry
        /\ requests' = requests \cup {r}
        /\ coins' = pays("relayer", "users", paid - q.payment,
                      pays("relayer", "payee", q.payment,
                        pays("users", "relayer", paid, coins)))
    BY DEF requestDirectly, requestExecution, quoteAccepted, configVars
  <1>3. /\ r \in Request /\ r.caller = "users" /\ r.number = direct + 1 /\ r.quote = q
        /\ r.at = now
    BY <1>1 DEF Request
  <1> HIDE DEF r
  <1>4. r \notin requests
    BY <1>1, <1>3 DEF IInv, DirectOnce
  <1>5. /\ requests' \in SUBSET Request /\ RequestsAreCurrent' /\ IsFiniteSet(requests')
        /\ Paid(requests') = coins["payee"] + q.payment
    BY <1>2, <1>3, <1>4, Requested
  <1>6. /\ coins' \in [Account -> Int]
        /\ coins'["transceiver"] = coins["transceiver"]
        /\ coins'["relayer"] = coins["relayer"]
        /\ coins'["payee"] = coins["payee"] + q.payment
        /\ coins'["users"] = coins["users"] - q.payment
        /\ coins'["bridge"] = coins["bridge"]
    <2> DEFINE p == q.payment
               d == pays("relayer", "users", paid - p,
                      pays("relayer", "payee", p, pays("users", "relayer", paid, coins)))
    <2>1. coins' = d /\ p \in Int
      BY <1>1, <1>2
    <2> HIDE DEF p
    <2>2. /\ d \in [Account -> Int]
          /\ d["transceiver"] = coins["transceiver"]
          /\ d["relayer"] = coins["relayer"]
          /\ d["payee"] = coins["payee"] + p
          /\ d["users"] = coins["users"] - p
          /\ d["bridge"] = coins["bridge"]
      BY <1>1, <2>1, PaidDirectly, ZenonT(60)
    <2> QED
      BY <2>1, <2>2 DEF p
  <1>7. TypeInv'
    <2>1. started' + direct' <= MaxTransfers /\ direct' \in Nat
      BY <1>1, <1>2, DeliveryAssumption
    <2> QED
      BY <1>2, <1>5, <1>6, <2>1 DEF IInv, TypeInv
  <1>8. SentOnce' /\ QueuedQuotes'
    BY <1>2 DEF IInv, SentOnce, QueuedQuotes
  <1>9. DirectOnce'
    <2> SUFFICES ASSUME NEW x \in requests', x.caller = "users" PROVE x.number <= direct + 1
      BY <1>2 DEF DirectOnce
    <2>1. CASE x = r
      BY <1>1, <1>3, <2>1
    <2>2. CASE x \in requests
      <3>1. x.number <= direct /\ x.number \in Nat
        BY <2>2 DEF IInv, DirectOnce, TypeInv, Request
      <3> QED
        BY <1>1, <3>1
    <2> QED
      BY <1>2, <2>1, <2>2
  <1>10. CoinsInv'
    <2>1. coins["bridge"] \in Int /\ coins["users"] \in Int /\ coins["payee"] \in Int
      BY <1>1 DEF Account
    <2>2. coins'["users"] = -(coins'["bridge"] + coins'["payee"])
      BY <1>1, <1>6, <2>1
    <2> QED
      BY <1>1, <1>5, <1>6, <2>2 DEF CoinsInv
  <1> QED
    BY <1>5, <1>7, <1>8, <1>9, <1>10 DEF IInv

LEMMA NextIInv == IInv /\ [Next]_vars => IInv'
  <1> SUFFICES ASSUME IInv, [Next]_vars PROVE IInv'
    OBVIOUS
  <1>1. price \in Nat /\ now \in Nat /\ quotes \in SUBSET Quote
    BY DEF IInv, TypeInv
  <1>2. ASSUME NEW flag, NEW value, setRelaying(flag, value) PROVE IInv'
    BY <1>1, <1>2, ConfigurationIInv DEF setRelaying
  <1>3. ASSUME NEW part, NEW value, setRelayer(part, value) PROVE IInv'
    BY <1>1, <1>3, ConfigurationIInv DEF setRelayer
  <1>4. ASSUME NEW p \in Price, priceUpdate(p) PROVE IInv'
    BY <1>1, <1>4, ConfigurationIInv, DeliveryAssumption DEF priceUpdate
  <1>5. CASE handleQuote
    <2>1. [payment |-> price, expiry |-> now + validity] \in Quote
      BY <1>1, DeliveryAssumption DEF Quote
    <2>2. /\ quotes' \in SUBSET Quote /\ quotes \subseteq quotes'
          /\ UNCHANGED <<price, now, queue, started, sendVars>>
      BY <1>1, <1>5, <2>1 DEF handleQuote, configVars
    <2> QED
      BY <1>1, <2>2, ConfigurationIInv
  <1>6. CASE tick
    BY <1>1, <1>6, ConfigurationIInv DEF tick, configVars
  <1>7. ASSUME NEW i \in {Skip, Plain} \cup {Quoted(q) : q \in quotes},
               transfer(i) \/ transferQueued(i)
        PROVE  IInv'
    BY <1>7, InstructionType, TransferIInv, QueuedIInv DEF IInv
  <1>8. ASSUME NEW n \in Transfer, NEW e \in queue[n], completeOutboundQueuedTransfer(n, e)
        PROVE  IInv'
    BY <1>8, CompleteIInv
  <1>9. ASSUME NEW n \in Transfer, cancelOutboundQueuedTransfer(n) PROVE IInv'
    BY <1>9, CancelIInv
  <1>10. CASE UNCHANGED vars
    BY <1>1, <1>10, ConfigurationIInv DEF vars, sendVars
  <1>11. ASSUME NEW q \in quotes, NEW paid \in Price, requestDirectly(q, paid) PROVE IInv'
    BY <1>11, DirectIInv
  <1> QED
    BY <1>2, <1>3, <1>4, <1>5, <1>6, <1>7, <1>8, <1>9, <1>10, <1>11 DEF Next

LEMMA IInvCorrect == Spec => []IInv
  BY InitIInv, NextIInv, PTL DEF Spec

\* The sum of NothingStaysBehind is the one of the invariant.
LEMMA PaymentsTotal ==
  ASSUME requests \in SUBSET Request, IsFiniteSet(requests)
  PROVE  LET payment(r) == r.quote.payment
         IN  MapThenSumSet(payment, requests) = Paid(requests)
  <1> DEFINE S == requests
             f == payments(S)
             Def(h) == [s \in SUBSET S |-> IF s = {} THEN 0
                                           ELSE Chosen(s).quote.payment + h[s \ {Chosen(s)}]]
             iter == CHOOSE h : h = Def(h)
             payment(r) == r.quote.payment
  <1>1. MapThenSumSet(payment, S) = iter[S]
    BY DEF MapThenSumSet, MapThenFoldSet, Chosen
  <1>2. \A r \in S : f[r] = r.quote.payment /\ f[r] \in Int
    BY DEF payments, Request, Quote
  <1>3. IsFiniteSet(S)
    OBVIOUS
  <1> HIDE DEF S, f
  <1>4. PICK g : Adds(g, f, S)
    BY <1>2, <1>3, AddsExists
  <1>5. Iterates(g, f, S)
    BY <1>2, <1>4, AddsIterates
  <1>6. \A s \in SUBSET S : s # {} => f[Chosen(s)] = Chosen(s).quote.payment
    BY <1>2, ChosenElement
  <1>7. g = Def(g)
    BY <1>4, <1>5, <1>6 DEF Adds, Iterates
  <1>8. iter = Def(iter)
    <2> HIDE DEF Def
    <2> QED
      BY <1>7, Zenon
  <1> HIDE DEF iter
  <1>9. Iterates(iter, f, S)
    BY <1>6, <1>8 DEF Iterates
  <1>10. iter[S] = g[S] /\ SumFunctionOnSet(f, S) = g[S]
    BY <1>2, <1>3, <1>4, <1>5, <1>9, IteratesUnique, SumAdds
  <1> QED
    BY <1>1, <1>10 DEF Paid, S, f

\* Every execution that the SpecialRelayer accepts, from a transceiver or from
\* anybody else, is paid for with a signed quote in force; one that a transceiver
\* asks for is that of a published transfer, at the price that is on chain then:
\* the transceiver cannot take a refund, so its quote of another price is
\* refused.
THEOREM RequestsCorrect == Spec => []RequestsAreCurrent
  <1>1. IInv => RequestsAreCurrent
    BY DEF IInv
  <1> QED
    BY <1>1, IInvCorrect, PTL

\* No coin that is paid for a delivery stays in the transceiver or in the
\* relayer; the payee has what the accepted quotes say, and the users have paid
\* that and what the bridge got.
THEOREM CoinsCorrect == Spec => []NothingStaysBehind
  <1>1. IInv => NothingStaysBehind
    <2> SUFFICES ASSUME IInv PROVE NothingStaysBehind
      OBVIOUS
    <2> DEFINE payment(r) == r.quote.payment
    <2>1. MapThenSumSet(payment, requests) = Paid(requests)
      BY PaymentsTotal DEF IInv, TypeInv, CoinsInv
    <2> QED
      BY <2>1, Zenon DEF IInv, CoinsInv, NothingStaysBehind
  <1> QED
    BY <1>1, IInvCorrect, PTL

=============================================================================
