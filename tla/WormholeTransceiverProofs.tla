--------------------- MODULE WormholeTransceiverProofs ---------------------
(***************************************************************************)
(* Proofs about the receiving side of a manager, for any set of            *)
(* transceivers, VAAs and messages and any width of the bitmap: about the  *)
(* transceiver registry and the attestation of messages (ManagerBase),     *)
(* that a manager with its Wormhole transceivers implements ManagerBase,   *)
(* and that the transceivers' replay protection agrees with the manager's  *)
(* attestations.                                                           *)
(***************************************************************************)
EXTENDS WormholeTransceiver, FiniteSetTheorems, SequenceTheorems, TLAPS

-----------------------------------------------------------------------------
(* The registry.                                                           *)

RegistryInv == RegistryTypeOK /\ RegistryAgrees

LEMMA RegistryInitInv == RegistryInit => RegistryInv
  <1> SUFFICES ASSUME RegistryInit PROVE RegistryInv
    OBVIOUS
  <1>1. Len(enabledTransceivers) = 0 /\ Len(registeredTransceivers) = 0
    BY DEF RegistryInit
  <1>2. RegistryTypeOK
    BY MaxTransceiversAssumption DEF RegistryInit, RegistryTypeOK, TransceiverInfo
  <1>3. CountersMatchArrays
    BY <1>1, MaxTransceiversAssumption DEF RegistryInit, CountersMatchArrays
  <1>4. EnabledMatchesArrayAndBitmap
    BY <1>1 DEF RegistryInit, EnabledMatchesArrayAndBitmap, Enabled
  <1>5. IndexIsRegistrationOrder
    BY <1>1 DEF RegistryInit, IndexIsRegistrationOrder
  <1> QED
    BY <1>2, <1>3, <1>4, <1>5 DEF RegistryInv, RegistryAgrees

LEMMA RegistrySetInv ==
  ASSUME NEW t \in Transceiver, RegistryInv, registrySetTransceiver(t)
  PROVE  RegistryInv'
  <1> DEFINE info == EnabledInfo(t)
             n == Len(enabledTransceivers)
             r == Len(registeredTransceivers)
  <1>1. /\ transceiverInfos \in [Transceiver -> TransceiverInfo]
        /\ enabledTransceivers \in Seq(Transceiver)
        /\ registeredTransceivers \in Seq(Transceiver)
        /\ enabledBitmap \in SUBSET (0 .. MAX_TRANSCEIVERS - 1)
        /\ numTransceivers = [registered |-> r, enabled |-> n]
        /\ r <= MAX_TRANSCEIVERS
    BY DEF RegistryInv, RegistryTypeOK, RegistryAgrees, CountersMatchArrays
  <1>2. info \in TransceiverInfo /\ info.registered /\ info.enabled
    BY <1>1 DEF EnabledInfo, TransceiverInfo
  <1>3. info.index \in 0 .. MAX_TRANSCEIVERS - 1
    <2>1. CASE transceiverInfos[t].registered
      <3>1. info.index = transceiverInfos[t].index /\ info.index < r
        BY <2>1 DEF EnabledInfo, RegistryInv, RegistryAgrees, IndexIsRegistrationOrder
      <3> QED
        BY <1>1, <1>2, <3>1, MaxTransceiversAssumption DEF TransceiverInfo
    <2>2. CASE ~transceiverInfos[t].registered
      BY <1>1, <2>2, MaxTransceiversAssumption DEF EnabledInfo, registrySetTransceiver
    <2> QED
      BY <2>1, <2>2
  <1>4. ~Enabled(t)
    BY DEF registrySetTransceiver, EnabledInfo, RegistryInv, RegistryAgrees,
           EnabledMatchesArrayAndBitmap, IndexIsRegistrationOrder, Enabled
  <1>5. /\ transceiverInfos' \in [Transceiver -> TransceiverInfo]
        /\ transceiverInfos'[t] = info
        /\ \A u \in Transceiver \ {t} : transceiverInfos'[u] = transceiverInfos[u]
    BY <1>1, <1>2 DEF registrySetTransceiver
  <1>6. /\ enabledTransceivers' \in Seq(Transceiver)
        /\ Len(enabledTransceivers') = n + 1
        /\ enabledTransceivers'[n + 1] = t
        /\ \A i \in 1 .. n : enabledTransceivers'[i] = enabledTransceivers[i]
    BY <1>1 DEF registrySetTransceiver
  <1>7. \A u \in Transceiver : Enabled(u)' <=> (u = t \/ Enabled(u))
    BY <1>2, <1>5 DEF Enabled
  <1>8. enabledBitmap' = enabledBitmap \cup {info.index}
    BY DEF registrySetTransceiver
  <1>9. EnabledMatchesArrayAndBitmap'
    <2>1. \A i \in 1 .. n : enabledTransceivers[i] # t
      BY <1>1, <1>4 DEF RegistryInv, RegistryAgrees, EnabledMatchesArrayAndBitmap
    <2>2. \A i, j \in DOMAIN enabledTransceivers' :
            enabledTransceivers'[i] = enabledTransceivers'[j] => i = j
      BY <1>1, <1>6, <2>1 DEF RegistryInv, RegistryAgrees, EnabledMatchesArrayAndBitmap
    <2>3. ASSUME NEW u \in Transceiver
          PROVE  Enabled(u)' <=> \E i \in DOMAIN enabledTransceivers' :
                                     enabledTransceivers'[i] = u
      <3>1. CASE u = t
        BY <1>1, <1>2, <1>5, <1>6, <3>1 DEF Enabled
      <3>2. CASE u # t
        <4>1. Enabled(u)' <=> \E i \in 1 .. n : enabledTransceivers[i] = u
          BY <1>1, <1>5, <3>2
          DEF Enabled, RegistryInv, RegistryAgrees, EnabledMatchesArrayAndBitmap
        <4>2. n \in Nat /\ DOMAIN enabledTransceivers' = 1 .. n + 1
          BY <1>1, <1>6
        <4>3. ASSUME NEW i \in 1 .. n, enabledTransceivers[i] = u
              PROVE  i \in 1 .. n + 1 /\ enabledTransceivers'[i] = u
          BY <1>6, <4>2, <4>3
        <4>4. ASSUME NEW i \in 1 .. n + 1, enabledTransceivers'[i] = u
              PROVE  i \in 1 .. n /\ enabledTransceivers[i] = u
          <5>1. i # n + 1
            BY <1>6, <3>2, <4>4
          <5>2. i \in 1 .. n
            BY <4>2, <5>1
          <5> QED
            BY <1>6, <4>4, <5>2
        <4> QED
          BY <4>1, <4>2, <4>3, <4>4, Zenon
      <3> QED
        BY <3>1, <3>2
    <2>4. \A u \in Transceiver :
            Enabled(u)' => transceiverInfos'[u].index \in enabledBitmap'
      BY <1>5, <1>8
      DEF Enabled, RegistryInv, RegistryAgrees, EnabledMatchesArrayAndBitmap
    <2>5. ASSUME NEW k \in enabledBitmap'
          PROVE  \E u \in Transceiver : Enabled(u)' /\ transceiverInfos'[u].index = k
      <3>1. CASE k = info.index
        BY <1>2, <1>5, <3>1 DEF Enabled
      <3>2. CASE k \in enabledBitmap
        <4>1. PICK u \in Transceiver : Enabled(u) /\ transceiverInfos[u].index = k
          BY <3>2 DEF RegistryInv, RegistryAgrees, EnabledMatchesArrayAndBitmap
        <4> QED
          BY <1>4, <1>5, <4>1 DEF Enabled
      <3> QED
        BY <1>8, <3>1, <3>2
    <2> QED
      BY <2>2, <2>3, <2>4, <2>5 DEF EnabledMatchesArrayAndBitmap, Enabled
  <1>10. IndexIsRegistrationOrder'
    <2>1. CASE transceiverInfos[t].registered
      <3>1. registeredTransceivers' = registeredTransceivers
        BY <2>1 DEF registrySetTransceiver
      <3>2. \A u \in Transceiver :
              /\ transceiverInfos'[u].index = transceiverInfos[u].index
              /\ transceiverInfos'[u].registered <=> transceiverInfos[u].registered
        <4>1. info.index = transceiverInfos[t].index
          BY <2>1 DEF EnabledInfo
        <4> QED
          BY <1>2, <1>5, <2>1, <4>1
      <3>3. \A u \in Transceiver :
              transceiverInfos'[u].enabled => transceiverInfos'[u].registered
        BY <1>2, <1>5, <1>7 DEF Enabled, RegistryInv, RegistryAgrees, IndexIsRegistrationOrder
      <3>4. \A i \in DOMAIN registeredTransceivers :
              registeredTransceivers[i] \in Transceiver
        BY <1>1
      <3> QED
        BY <3>1, <3>2, <3>3, <3>4
        DEF RegistryInv, RegistryAgrees, IndexIsRegistrationOrder
    <2>2. CASE ~transceiverInfos[t].registered
      <3>1. /\ registeredTransceivers' = Append(registeredTransceivers, t)
            /\ info.index = r
        BY <1>1, <2>2 DEF registrySetTransceiver, EnabledInfo
      <3>2. /\ Len(registeredTransceivers') = r + 1
            /\ registeredTransceivers'[r + 1] = t
            /\ \A i \in 1 .. r : registeredTransceivers'[i] = registeredTransceivers[i]
            /\ registeredTransceivers' \in Seq(Transceiver)
        BY <1>1, <3>1
      <3>3. \A i \in 1 .. r : registeredTransceivers[i] \in Transceiver \ {t}
        BY <1>1, <2>2 DEF RegistryInv, RegistryAgrees, IndexIsRegistrationOrder
      <3>4. ASSUME NEW u \in Transceiver
            PROVE  /\ transceiverInfos'[u].enabled => transceiverInfos'[u].registered
                   /\ transceiverInfos'[u].registered =>
                        /\ transceiverInfos'[u].index < Len(registeredTransceivers')
                        /\ registeredTransceivers'[transceiverInfos'[u].index + 1] = u
        <4>1. CASE u = t
          BY <1>1, <1>2, <1>5, <3>1, <3>2, <4>1
        <4>2. CASE u # t
          <5>1. /\ transceiverInfos'[u] = transceiverInfos[u]
                /\ transceiverInfos[u].index \in Nat
            BY <1>1, <1>5, <4>2 DEF TransceiverInfo
          <5> QED
            BY <1>1, <3>2, <5>1
            DEF RegistryInv, RegistryAgrees, IndexIsRegistrationOrder
        <4> QED
          BY <4>1, <4>2
      <3>5. ASSUME NEW i \in DOMAIN registeredTransceivers'
            PROVE  /\ transceiverInfos'[registeredTransceivers'[i]].registered
                   /\ transceiverInfos'[registeredTransceivers'[i]].index = i - 1
        <4>1. CASE i = r + 1
          BY <1>1, <1>2, <1>5, <3>1, <3>2, <4>1
        <4>2. CASE i \in 1 .. r
          <5>1. /\ registeredTransceivers'[i] = registeredTransceivers[i]
                /\ transceiverInfos'[registeredTransceivers[i]]
                      = transceiverInfos[registeredTransceivers[i]]
            BY <1>5, <3>2, <3>3, <4>2
          <5> QED
            BY <1>1, <4>2, <5>1
            DEF RegistryInv, RegistryAgrees, IndexIsRegistrationOrder
        <4> QED
          BY <1>1, <3>2, <4>1, <4>2
      <3> QED
        BY <3>4, <3>5 DEF IndexIsRegistrationOrder
    <2> QED
      BY <2>1, <2>2
  <1>11. RegistryTypeOK' /\ CountersMatchArrays'
    <2>1. CASE transceiverInfos[t].registered
      <3>1. /\ registeredTransceivers' = registeredTransceivers
            /\ numTransceivers' = [registered |-> r, enabled |-> n + 1]
        BY <1>1, <2>1 DEF registrySetTransceiver
      <3> QED
        <4>1. enabledBitmap' \in SUBSET (0 .. MAX_TRANSCEIVERS - 1)
          BY <1>1, <1>3, <1>8
        <4>2. n \in Nat /\ r \in Nat
          BY <1>1
        <4> QED
          BY <1>1, <1>5, <1>6, <3>1, <4>1, <4>2 DEF RegistryTypeOK, CountersMatchArrays
    <2>2. CASE ~transceiverInfos[t].registered
      <3>1. /\ registeredTransceivers' = Append(registeredTransceivers, t)
            /\ numTransceivers' = [registered |-> r + 1, enabled |-> n + 1]
            /\ r < MAX_TRANSCEIVERS
        BY <1>1, <2>2 DEF registrySetTransceiver
      <3>2. registeredTransceivers' \in Seq(Transceiver) /\ Len(registeredTransceivers') = r + 1
        BY <1>1, <3>1
      <3> QED
        <4>1. enabledBitmap' \in SUBSET (0 .. MAX_TRANSCEIVERS - 1)
          BY <1>1, <1>3, <1>8
        <4>2. n \in Nat /\ r \in Nat
          BY <1>1
        <4> QED
          BY <1>5, <1>6, <3>1, <3>2, <4>1, <4>2, MaxTransceiversAssumption
          DEF RegistryTypeOK, CountersMatchArrays
    <2> QED
      BY <2>1, <2>2
  <1> QED
    BY <1>9, <1>10, <1>11 DEF RegistryInv, RegistryAgrees

\* Removing the i-th entry of an array without duplicates removes its value
\* and no other.
LEMMA SwapRemoveFacts ==
  ASSUME NEW s \in Seq(Transceiver), NEW i \in 1 .. Len(s),
         \A j, k \in 1 .. Len(s) : s[j] = s[k] => j = k
  PROVE  /\ SwapRemove(s, i) \in Seq(Transceiver)
         /\ Len(SwapRemove(s, i)) = Len(s) - 1
         /\ \A j, k \in 1 .. Len(s) - 1 :
               SwapRemove(s, i)[j] = SwapRemove(s, i)[k] => j = k
         /\ \A x \in Transceiver : (\E j \in 1 .. Len(s) - 1 : SwapRemove(s, i)[j] = x)
                            <=> x # s[i] /\ \E j \in 1 .. Len(s) : s[j] = x
  <1> DEFINE n == Len(s)
             q == SwapRemove(s, i)
  <1>1. n \in Nat \ {0} /\ n - 1 \in Nat /\ s \in [1 .. n -> Transceiver] /\ i \in 1 .. n
    OBVIOUS
  <1>2. q = [j \in 1 .. n - 1 |-> IF j = i THEN s[n] ELSE s[j]]
    BY DEF SwapRemove
  <1>3. q \in [1 .. n - 1 -> Transceiver]
    BY <1>1, <1>2
  <1>4. q \in Seq(Transceiver) /\ Len(q) = n - 1
    <2>1. q \in Seq(Transceiver)
      BY <1>1, <1>3, SeqDef
    <2>2. DOMAIN q = 1 .. n - 1 /\ DOMAIN q = 1 .. Len(q) /\ Len(q) \in Nat
      BY <1>3, <2>1, LenProperties
    <2> HIDE DEF n
    <2>3. ~(Len(q) > n - 1)
      <3> SUFFICES ASSUME Len(q) > n - 1 PROVE FALSE
        OBVIOUS
      <3>1. Len(q) \in 1 .. Len(q) /\ Len(q) \notin 1 .. n - 1
        BY <1>1, <2>2
      <3> QED
        BY <2>2, <3>1
    <2>4. ~(n - 1 > Len(q))
      <3> SUFFICES ASSUME n - 1 > Len(q) PROVE FALSE
        OBVIOUS
      <3>1. n - 1 \in 1 .. n - 1 /\ n - 1 \notin 1 .. Len(q)
        BY <1>1, <2>2
      <3> QED
        BY <2>2, <3>1
    <2> QED
      BY <1>1, <2>1, <2>2, <2>3, <2>4
  <1>5. \A j \in 1 .. n - 1 : q[j] = IF j = i THEN s[n] ELSE s[j]
    BY <1>2
  <1>6. \A j, k \in 1 .. n : s[j] = s[k] => j = k
    OBVIOUS
  <1> HIDE DEF n, q
  <1>7. \A j, k \in 1 .. n - 1 : q[j] = q[k] => j = k
    BY <1>1, <1>5, <1>6
  <1>8. ASSUME NEW x \in Transceiver
        PROVE  (\E j \in 1 .. n - 1 : q[j] = x)
                 <=> x # s[i] /\ \E j \in 1 .. n : s[j] = x
    <2>1. ASSUME NEW j \in 1 .. n - 1, q[j] = x
          PROVE  x # s[i] /\ \E k \in 1 .. n : s[k] = x
      BY <1>1, <1>5, <1>6, <2>1
    <2>2. ASSUME x # s[i], NEW k \in 1 .. n, s[k] = x
          PROVE  \E j \in 1 .. n - 1 : q[j] = x
      <3>1. CASE k = n
        BY <1>1, <1>5, <2>2, <3>1
      <3>2. CASE k # n
        <4>1. k \in 1 .. n - 1
          BY <1>1, <2>2, <3>2
        <4>2. k # i
          BY <2>2
        <4>3. q[k] = x
          BY <1>5, <2>2, <4>1, <4>2
        <4> QED
          BY <4>1, <4>3
      <3> QED
        BY <3>1, <3>2
    <2> QED
      BY <2>1, <2>2
  <1> QED
    BY <1>4, <1>7, <1>8 DEF n, q

LEMMA RegistryRemoveInv ==
  ASSUME NEW t \in Transceiver, RegistryInv, registryRemoveTransceiver(t)
  PROVE  RegistryInv'
  <1> DEFINE n == Len(enabledTransceivers)
             r == Len(registeredTransceivers)
  <1>1. /\ transceiverInfos \in [Transceiver -> TransceiverInfo]
        /\ enabledTransceivers \in Seq(Transceiver)
        /\ registeredTransceivers \in Seq(Transceiver)
        /\ enabledBitmap \in SUBSET (0 .. MAX_TRANSCEIVERS - 1)
        /\ numTransceivers = [registered |-> r, enabled |-> n]
        /\ r <= MAX_TRANSCEIVERS
        /\ n \in Nat /\ r \in Nat
    BY DEF RegistryInv, RegistryTypeOK, RegistryAgrees, CountersMatchArrays
  <1>2. PICK i \in 1 .. n :
          /\ enabledTransceivers[i] = t
          /\ enabledTransceivers' = SwapRemove(enabledTransceivers, i)
    BY <1>1 DEF registryRemoveTransceiver
  <1>3. \A j, k \in 1 .. n : enabledTransceivers[j] = enabledTransceivers[k] => j = k
    BY <1>1 DEF RegistryInv, RegistryAgrees, EnabledMatchesArrayAndBitmap
  <1>4. /\ enabledTransceivers' \in Seq(Transceiver)
        /\ Len(enabledTransceivers') = n - 1
        /\ \A j, k \in 1 .. n - 1 :
              enabledTransceivers'[j] = enabledTransceivers'[k] => j = k
        /\ \A u \in Transceiver :
              (\E j \in 1 .. n - 1 : enabledTransceivers'[j] = u)
                <=> u # t /\ \E j \in 1 .. n : enabledTransceivers[j] = u
    <2>1. /\ SwapRemove(enabledTransceivers, i) \in Seq(Transceiver)
          /\ Len(SwapRemove(enabledTransceivers, i)) = n - 1
          /\ \A j, k \in 1 .. n - 1 :
                SwapRemove(enabledTransceivers, i)[j] = SwapRemove(enabledTransceivers, i)[k]
                  => j = k
          /\ \A u \in Transceiver :
                (\E j \in 1 .. n - 1 : SwapRemove(enabledTransceivers, i)[j] = u)
                  <=> u # enabledTransceivers[i]
                      /\ \E j \in 1 .. n : enabledTransceivers[j] = u
      BY ONLY <1>1, <1>3, i \in 1 .. n, SwapRemoveFacts
    <2> QED
      BY <1>2, <2>1
  <1>5. /\ transceiverInfos' \in [Transceiver -> TransceiverInfo]
        /\ \A u \in Transceiver :
              /\ transceiverInfos'[u].index = transceiverInfos[u].index
              /\ transceiverInfos'[u].registered <=> transceiverInfos[u].registered
              /\ transceiverInfos'[u].enabled <=> u # t /\ transceiverInfos[u].enabled
    BY <1>1 DEF registryRemoveTransceiver, TransceiverInfo
  <1>6. /\ registeredTransceivers' = registeredTransceivers
        /\ enabledBitmap' = enabledBitmap \ {transceiverInfos[t].index}
        /\ numTransceivers' = [registered |-> r, enabled |-> n - 1]
    BY <1>1 DEF registryRemoveTransceiver
  <1>7. RegistryTypeOK' /\ CountersMatchArrays'
    <2>1. n - 1 \in Nat
      BY <1>1, <1>2
    <2>2. enabledBitmap' \in SUBSET (0 .. MAX_TRANSCEIVERS - 1)
      BY <1>1, <1>6
    <2> QED
      BY <1>1, <1>4, <1>5, <1>6, <2>1, <2>2 DEF RegistryTypeOK, CountersMatchArrays
  <1>8. IndexIsRegistrationOrder'
    <2>1. \A j \in DOMAIN registeredTransceivers :
            registeredTransceivers[j] \in Transceiver
      BY <1>1
    <2> QED
      BY <1>5, <1>6, <2>1 DEF RegistryInv, RegistryAgrees, IndexIsRegistrationOrder
  <1>9. \A u \in Transceiver : Enabled(u) /\ transceiverInfos[u].index = transceiverInfos[t].index
                                 => u = t
    <2>1. transceiverInfos[t].registered
      BY DEF registryRemoveTransceiver
    <2> QED
      BY <2>1 DEF Enabled, RegistryInv, RegistryAgrees, IndexIsRegistrationOrder
  <1>10. EnabledMatchesArrayAndBitmap'
    <2>1. \A u \in Transceiver :
            Enabled(u)' <=> \E j \in DOMAIN enabledTransceivers' : enabledTransceivers'[j] = u
      <3>1. \A u \in Transceiver :
              Enabled(u) <=> \E j \in 1 .. n : enabledTransceivers[j] = u
        BY <1>1 DEF RegistryInv, RegistryAgrees, EnabledMatchesArrayAndBitmap
      <3>2. DOMAIN enabledTransceivers' = 1 .. n - 1
        BY <1>4
      <3> QED
        BY <1>4, <1>5, <3>1, <3>2 DEF Enabled
    <2>2. \A u \in Transceiver :
            Enabled(u)' => transceiverInfos'[u].index \in enabledBitmap'
      BY <1>5, <1>6, <1>9
      DEF Enabled, RegistryInv, RegistryAgrees, EnabledMatchesArrayAndBitmap
    <2>3. ASSUME NEW k \in enabledBitmap'
          PROVE  \E u \in Transceiver : Enabled(u)' /\ transceiverInfos'[u].index = k
      <3>1. PICK u \in Transceiver : Enabled(u) /\ transceiverInfos[u].index = k
        BY <1>6 DEF RegistryInv, RegistryAgrees, EnabledMatchesArrayAndBitmap
      <3> QED
        BY <1>5, <1>6, <3>1 DEF Enabled
    <2>4. DOMAIN enabledTransceivers' = 1 .. n - 1
      BY <1>4
    <2> QED
      BY <1>4, <2>1, <2>2, <2>3, <2>4 DEF EnabledMatchesArrayAndBitmap, Enabled
  <1> QED
    BY <1>7, <1>8, <1>10 DEF RegistryInv, RegistryAgrees

\* The enabled array lists the enabled transceivers, so the counter that the
\* threshold is compared with counts them.
LEMMA EnabledSetCardinality ==
  ASSUME RegistryInv
  PROVE  IsFiniteSet(EnabledSet) /\ Cardinality(EnabledSet) = numTransceivers.enabled
  <1> DEFINE n == Len(enabledTransceivers)
  <1>1. /\ n \in Nat
        /\ enabledTransceivers \in [1 .. n -> Transceiver]
        /\ n = numTransceivers.enabled
    BY DEF RegistryInv, RegistryTypeOK, RegistryAgrees, CountersMatchArrays
  <1>2. /\ \A i, j \in 1 .. n : enabledTransceivers[i] = enabledTransceivers[j] => i = j
        /\ \A t \in Transceiver : Enabled(t) <=> \E i \in 1 .. n : enabledTransceivers[i] = t
    BY <1>1 DEF RegistryInv, RegistryAgrees, EnabledMatchesArrayAndBitmap
  <1> HIDE DEF n
  <1>3. enabledTransceivers \in [1 .. n -> EnabledSet]
    BY <1>1, <1>2 DEF EnabledSet
  <1>4. enabledTransceivers \in Bijection(1 .. n, EnabledSet)
    <2>1. enabledTransceivers \in Injection(1 .. n, EnabledSet)
      BY <1>2, <1>3 DEF Injection, IsInjective
    <2>2. enabledTransceivers \in Surjection(1 .. n, EnabledSet)
      BY <1>2, <1>3 DEF Surjection, EnabledSet
    <2> QED
      BY <2>1, <2>2 DEF Bijection
  <1>5. ExistsBijection(1 .. n, EnabledSet)
    BY <1>4 DEF ExistsBijection
  <1>6. IsFiniteSet(1 .. n) /\ Cardinality(1 .. n) = n
    BY <1>1, FS_Interval
  <1> QED
    BY <1>1, <1>5, <1>6, FS_Bijection

\* Counting attestation bits of enabled indices counts the enabled
\* transceivers that set them.
LEMMA BitsCountTransceivers ==
  ASSUME RegistryInv, NEW D \in SUBSET Transceiver,
         \A t \in D : transceiverInfos[t].registered
  PROVE  LET by == {t \in D : Enabled(t)}
             bits == {transceiverInfos[t].index : t \in D} \cap enabledBitmap
         IN  Cardinality(by) = Cardinality(bits)
  <1> DEFINE by == {t \in D : Enabled(t)}
             bits == {transceiverInfos[t].index : t \in D} \cap enabledBitmap
             f == [t \in by |-> transceiverInfos[t].index]
  <1>1. \A t, u \in Transceiver :
          /\ transceiverInfos[t].registered
          /\ transceiverInfos[u].registered
          /\ transceiverInfos[t].index = transceiverInfos[u].index
          => t = u
    BY DEF RegistryInv, RegistryAgrees, IndexIsRegistrationOrder
  <1>2. \A t \in Transceiver : Enabled(t) =>
          /\ transceiverInfos[t].registered
          /\ transceiverInfos[t].index \in enabledBitmap
    BY DEF RegistryInv, RegistryAgrees, IndexIsRegistrationOrder,
           EnabledMatchesArrayAndBitmap, Enabled
  <1>3. f \in [by -> bits]
    BY <1>2
  <1>4. f \in Injection(by, bits)
    BY <1>1, <1>2, <1>3 DEF Injection, IsInjective
  <1>5. ASSUME NEW b \in bits PROVE \E t \in by : f[t] = b
    <2>1. PICK t \in D : transceiverInfos[t].index = b
      OBVIOUS
    <2>2. PICK u \in Transceiver : Enabled(u) /\ transceiverInfos[u].index = b
      BY DEF RegistryInv, RegistryAgrees, EnabledMatchesArrayAndBitmap
    <2>3. t = u
      BY <1>1, <1>2, <2>1, <2>2
    <2> QED
      BY <2>1, <2>2, <2>3
  <1>6. f \in Surjection(by, bits)
    BY <1>3, <1>5 DEF Surjection
  <1>7. ExistsBijection(by, bits)
    BY <1>4, <1>6 DEF Bijection, ExistsBijection
  <1>8. IsFiniteSet(by)
    <2>1. by \in SUBSET EnabledSet
      BY DEF EnabledSet
    <2> QED
      BY <2>1, EnabledSetCardinality, FS_Subset
  <1> QED
    BY <1>7, <1>8, FS_Bijection

-----------------------------------------------------------------------------
(* The manager.                                                            *)

\* What _checkThresholdInvariants leaves behind, in terms of the counters.
ThresholdMatchesCounters ==
    /\ threshold <= numTransceivers.enabled
    /\ numTransceivers.registered > 0 => threshold > 0

\* The inductive invariant.
IInv ==
    /\ TypeOK
    /\ RegistryAgrees
    /\ ThresholdMatchesCounters
    /\ peer \subseteq everPeer
    /\ AttestationsAreDeliveries
    /\ HandledAtMostOnce
    /\ HandledWithQuorum

LEMMA InitIInv == Init => IInv
  <1> SUFFICES ASSUME Init PROVE IInv
    OBVIOUS
  <1>1. RegistryTypeOK /\ RegistryAgrees
    BY RegistryInitInv DEF Init, RegistryInv
  <1>2. TypeOK
    <2>1. handled \in [Digest -> Seq(Quorum)]
      BY EmptySeq DEF Init
    <2>2. /\ attested \in [Digest -> SUBSET (0 .. MAX_TRANSCEIVERS - 1)]
          /\ deliveredBy \in [Digest -> SUBSET Transceiver]
          /\ executed \in [Digest -> BOOLEAN]
      BY DEF Init
    <2> QED
      BY <1>1, <2>1, <2>2 DEF Init, TypeOK
  <1>3. ThresholdMatchesCounters
    BY DEF Init, RegistryInit, ThresholdMatchesCounters
  <1>4. AttestationsAreDeliveries
    BY DEF Init, AttestationsAreDeliveries
  <1>5. HandledAtMostOnce /\ HandledWithQuorum
    BY DEF Init, HandledAtMostOnce, HandledWithQuorum
  <1>6. peer \subseteq everPeer
    BY DEF Init
  <1> QED
    BY <1>1, <1>2, <1>3, <1>4, <1>5, <1>6 DEF IInv

\* A step that leaves the messages alone and keeps every registered
\* transceiver's index preserves what is recorded of them.
LEMMA MessagesUntouched ==
  ASSUME IInv, UNCHANGED <<attested, executed, historyVars>>,
         \A t \in Transceiver : transceiverInfos[t].registered =>
            /\ transceiverInfos'[t].registered
            /\ transceiverInfos'[t].index = transceiverInfos[t].index
  PROVE  AttestationsAreDeliveries' /\ HandledAtMostOnce' /\ HandledWithQuorum'
  <1>1. HandledAtMostOnce' /\ HandledWithQuorum'
    BY DEF IInv, historyVars, HandledAtMostOnce, HandledWithQuorum
  <1>2. ASSUME NEW d \in Digest
        PROVE  /\ attested'[d] = {transceiverInfos'[t].index : t \in deliveredBy'[d]}
               /\ \A t \in deliveredBy'[d] : transceiverInfos'[t].registered
               /\ \A t, u \in deliveredBy'[d] :
                     transceiverInfos'[t].index = transceiverInfos'[u].index => t = u
               /\ deliveredBy'[d] # {} => Origin[d] \in everPeer'
    <2>1. /\ deliveredBy'[d] = deliveredBy[d]
          /\ deliveredBy[d] \subseteq Transceiver
          /\ \A t \in deliveredBy[d] : transceiverInfos[t].registered
      BY DEF IInv, TypeOK, historyVars, AttestationsAreDeliveries
    <2>2. \A t \in deliveredBy[d] : transceiverInfos'[t].index = transceiverInfos[t].index
      BY <2>1
    <2>3. {transceiverInfos'[t].index : t \in deliveredBy[d]}
            = {transceiverInfos[t].index : t \in deliveredBy[d]}
      BY <2>2
    <2> QED
      BY <2>1, <2>2, <2>3 DEF IInv, historyVars, AttestationsAreDeliveries
  <1> QED
    BY <1>1, <1>2 DEF AttestationsAreDeliveries

LEMMA SetTransceiverIInv ==
  ASSUME NEW t \in Transceiver, IInv, setTransceiver(t)
  PROVE  IInv'
  <1>1. RegistryInv /\ registrySetTransceiver(t)
    BY DEF IInv, TypeOK, RegistryInv, setTransceiver
  <1>2. RegistryTypeOK' /\ RegistryAgrees'
    BY <1>1, RegistrySetInv DEF RegistryInv
  <1>3. threshold' \in Nat /\ ThresholdMatchesCounters'
    BY <1>2
    DEF setTransceiver, thresholdAfterAdd, thresholdAcceptable, IInv, TypeOK,
        ThresholdMatchesCounters
  <1>4. TypeOK'
    BY <1>2, <1>3 DEF setTransceiver, IInv, TypeOK, historyVars
  <1>5. \A u \in Transceiver : transceiverInfos[u].registered =>
          /\ transceiverInfos'[u].registered
          /\ transceiverInfos'[u].index = transceiverInfos[u].index
    BY <1>1 DEF registrySetTransceiver, EnabledInfo, RegistryInv, RegistryTypeOK
  <1>6. UNCHANGED <<attested, executed, peer, historyVars>>
    BY DEF setTransceiver
  <1> QED
    BY <1>2, <1>3, <1>4, <1>5, <1>6, MessagesUntouched DEF IInv, historyVars

LEMMA RemoveTransceiverIInv ==
  ASSUME NEW t \in Transceiver, IInv, removeTransceiver(t)
  PROVE  IInv'
  <1>1. RegistryInv /\ registryRemoveTransceiver(t)
    BY DEF IInv, TypeOK, RegistryInv, removeTransceiver
  <1>2. RegistryTypeOK' /\ RegistryAgrees'
    BY <1>1, RegistryRemoveInv DEF RegistryInv
  <1>3. threshold' \in Nat /\ ThresholdMatchesCounters'
    <2>1. threshold \in Nat /\ numTransceivers' \in [registered : Nat, enabled : Nat]
      BY <1>2 DEF IInv, TypeOK, RegistryTypeOK
    <2>2. threshold' \in Nat
      BY <2>1 DEF removeTransceiver, thresholdAfterRemove
    <2> QED
      BY <2>2 DEF removeTransceiver, thresholdAcceptable, ThresholdMatchesCounters
  <1>4. TypeOK'
    BY <1>2, <1>3 DEF removeTransceiver, IInv, TypeOK, historyVars
  <1>5. \A u \in Transceiver : transceiverInfos[u].registered =>
          /\ transceiverInfos'[u].registered
          /\ transceiverInfos'[u].index = transceiverInfos[u].index
    BY <1>1 DEF registryRemoveTransceiver, RegistryInv, RegistryTypeOK, TransceiverInfo
  <1>6. UNCHANGED <<attested, executed, peer, historyVars>>
    BY DEF removeTransceiver
  <1> QED
    BY <1>2, <1>3, <1>4, <1>5, <1>6, MessagesUntouched DEF IInv, historyVars

\* The owner's other calls: they touch neither the registry nor the messages.
LEMMA ConfigurationIInv ==
  ASSUME IInv, UNCHANGED <<registryVars, attested, executed, deliveredBy, handled>>,
         threshold' \in Nat, ThresholdMatchesCounters', paused' \in BOOLEAN,
         everPeer' \in SUBSET Manager, peer' \subseteq everPeer', everPeer \subseteq everPeer'
  PROVE  IInv'
  <1>1. RegistryTypeOK' /\ RegistryAgrees'
    BY DEF IInv, TypeOK, RegistryTypeOK, registryVars, RegistryAgrees, CountersMatchArrays,
           EnabledMatchesArrayAndBitmap, IndexIsRegistrationOrder, Enabled
  <1>2. TypeOK'
    BY <1>1 DEF IInv, TypeOK
  <1>3. AttestationsAreDeliveries'
    BY DEF IInv, AttestationsAreDeliveries, registryVars
  <1>4. HandledAtMostOnce' /\ HandledWithQuorum'
    BY DEF IInv, HandledAtMostOnce, HandledWithQuorum
  <1> QED
    BY <1>1, <1>2, <1>3, <1>4 DEF IInv

\* Handling a message of which the transceivers D delivered a quorum.
LEMMA HandleIInv ==
  ASSUME NEW d \in Digest, IInv, UNCHANGED <<registryVars, threshold>>,
         deliveredBy' \in [Digest -> SUBSET Transceiver],
         \A t \in deliveredBy'[d] : transceiverInfos[t].registered,
         approvedWith({transceiverInfos[t].index : t \in deliveredBy'[d]}),
         replayProtectAndHandle(d)
  PROVE  /\ executed' \in [Digest -> BOOLEAN]
         /\ handled' \in [Digest -> Seq(Quorum)]
         /\ HandledAtMostOnce' /\ HandledWithQuorum'
  <1> DEFINE by == {t \in deliveredBy'[d] : Enabled(t)}
             q == [by |-> by, threshold |-> threshold]
             bits == {transceiverInfos[t].index : t \in deliveredBy'[d]}
  <1>1. /\ executed \in [Digest -> BOOLEAN]
        /\ handled \in [Digest -> Seq(Quorum)]
        /\ threshold \in Nat
        /\ RegistryInv
    BY DEF IInv, TypeOK, RegistryInv
  <1>2. q \in Quorum
    BY <1>1 DEF Quorum
  <1>3. Cardinality(by) >= threshold /\ threshold >= 1
    <2>1. deliveredBy'[d] \in SUBSET Transceiver
      OBVIOUS
    <2>2. Cardinality(by) = Cardinality(bits \cap enabledBitmap)
      BY <1>1, <2>1, BitsCountTransceivers
    <2> QED
      BY <1>1, <2>2 DEF approvedWith
  <1> HIDE DEF q
  <1>4. executed' = [executed EXCEPT ![d] = TRUE]
    BY DEF replayProtectAndHandle
  <1>5. CASE executed[d]
    <2>1. handled' = handled /\ executed' = executed
      BY <1>1, <1>4, <1>5 DEF replayProtectAndHandle
    <2> QED
      BY <1>1, <2>1 DEF IInv, HandledAtMostOnce, HandledWithQuorum
  <1>6. CASE ~executed[d]
    <2>1. handled' = [handled EXCEPT ![d] = Append(handled[d], q)]
      BY <1>6 DEF replayProtectAndHandle, q
    <2>2. handled[d] \in Seq(Quorum) /\ Len(handled[d]) = 0
      BY <1>1, <1>6 DEF IInv, HandledAtMostOnce
    <2>3. /\ Append(handled[d], q) \in Seq(Quorum)
          /\ Len(Append(handled[d], q)) = 1
          /\ Append(handled[d], q)[1] = q
      BY <1>2, <2>2
    <2>4. handled' \in [Digest -> Seq(Quorum)]
      BY <1>1, <2>1, <2>3
    <2>5. HandledAtMostOnce'
      BY <1>1, <1>4, <2>1, <2>3 DEF IInv, HandledAtMostOnce
    <2>6. HandledWithQuorum'
      <3> SUFFICES ASSUME NEW e \in Digest, NEW i \in DOMAIN handled'[e]
                   PROVE  /\ handled'[e][i].threshold >= 1
                          /\ Cardinality(handled'[e][i].by) >= handled'[e][i].threshold
        BY DEF HandledWithQuorum
      <3>1. CASE e = d
        <4>1. handled'[e][i] = q
          BY <1>1, <2>1, <2>3, <3>1
        <4> QED
          BY <1>3, <4>1 DEF q
      <3>2. CASE e # d
        BY <1>1, <2>1, <3>2 DEF IInv, HandledWithQuorum
      <3> QED
        BY <3>1, <3>2
    <2> QED
      BY <1>1, <1>4, <2>4, <2>5, <2>6
  <1> QED
    BY <1>5, <1>6

LEMMA ExecuteMsgIInv ==
  ASSUME NEW d \in Digest, IInv, executeMsg(d)
  PROVE  IInv'
  <1>1. /\ UNCHANGED <<registryVars, threshold, attested, paused, peer, everPeer, deliveredBy>>
        /\ replayProtectAndHandle(d)
        /\ approvedWith(attested[d])
    BY DEF executeMsg, isMessageApproved
  <1>2. /\ deliveredBy' \in [Digest -> SUBSET Transceiver]
        /\ \A t \in deliveredBy'[d] : transceiverInfos[t].registered
        /\ attested[d] = {transceiverInfos[t].index : t \in deliveredBy'[d]}
    BY <1>1 DEF IInv, TypeOK, AttestationsAreDeliveries
  <1>3. /\ executed' \in [Digest -> BOOLEAN]
        /\ handled' \in [Digest -> Seq(Quorum)]
        /\ HandledAtMostOnce' /\ HandledWithQuorum'
    BY <1>1, <1>2, HandleIInv
  <1>4. RegistryTypeOK' /\ RegistryAgrees' /\ ThresholdMatchesCounters'
    BY <1>1
    DEF IInv, TypeOK, RegistryTypeOK, registryVars, RegistryAgrees, CountersMatchArrays,
        EnabledMatchesArrayAndBitmap, IndexIsRegistrationOrder, Enabled,
        ThresholdMatchesCounters
  <1>5. AttestationsAreDeliveries'
    BY <1>1 DEF IInv, AttestationsAreDeliveries, registryVars
  <1>6. TypeOK'
    BY <1>1, <1>2, <1>3, <1>4 DEF IInv, TypeOK
  <1> QED
    BY <1>1, <1>3, <1>4, <1>5, <1>6 DEF IInv

LEMMA AttestationReceivedIInv ==
  ASSUME NEW t \in Transceiver, NEW d \in Digest, IInv, attestationReceived(t, d)
  PROVE  IInv'
  <1> DEFINE index == transceiverInfos[t].index
  <1>1. /\ UNCHANGED <<registryVars, threshold, paused, peer, everPeer>>
        /\ Enabled(t)
        /\ Origin[d] \in peer
        /\ attested' = [attested EXCEPT ![d] = @ \cup {index}]
        /\ deliveredBy' = [deliveredBy EXCEPT ![d] = @ \cup {t}]
        /\ IF approvedWith(attested[d] \cup {index})
           THEN replayProtectAndHandle(d) ELSE UNCHANGED <<executed, handled>>
    BY DEF attestationReceived
  <1>2. /\ attested \in [Digest -> SUBSET (0 .. MAX_TRANSCEIVERS - 1)]
        /\ deliveredBy \in [Digest -> SUBSET Transceiver]
        /\ enabledBitmap \in SUBSET (0 .. MAX_TRANSCEIVERS - 1)
    BY DEF IInv, TypeOK, RegistryTypeOK
  <1>3. transceiverInfos[t].registered /\ index \in enabledBitmap
    BY <1>1 DEF IInv, RegistryAgrees, IndexIsRegistrationOrder,
                EnabledMatchesArrayAndBitmap, Enabled
  <1>4. /\ attested' \in [Digest -> SUBSET (0 .. MAX_TRANSCEIVERS - 1)]
        /\ deliveredBy' \in [Digest -> SUBSET Transceiver]
        /\ attested'[d] = attested[d] \cup {index}
        /\ deliveredBy'[d] = deliveredBy[d] \cup {t}
    BY <1>1, <1>2, <1>3
  <1>5. RegistryTypeOK' /\ RegistryAgrees' /\ ThresholdMatchesCounters'
    BY <1>1
    DEF IInv, TypeOK, RegistryTypeOK, registryVars, RegistryAgrees, CountersMatchArrays,
        EnabledMatchesArrayAndBitmap, IndexIsRegistrationOrder, Enabled,
        ThresholdMatchesCounters
  <1>6. /\ \A u \in deliveredBy'[d] : transceiverInfos[u].registered
        /\ attested[d] \cup {index} = {transceiverInfos[u].index : u \in deliveredBy'[d]}
    BY <1>3, <1>4 DEF IInv, AttestationsAreDeliveries
  <1>7. Origin[d] \in everPeer
    BY <1>1 DEF IInv
  <1>8. AttestationsAreDeliveries'
    <2> SUFFICES ASSUME NEW e \in Digest
                 PROVE  /\ attested'[e] = {transceiverInfos[u].index : u \in deliveredBy'[e]}
                        /\ \A u \in deliveredBy'[e] : transceiverInfos[u].registered
                        /\ \A u, v \in deliveredBy'[e] :
                              transceiverInfos[u].index = transceiverInfos[v].index => u = v
                        /\ deliveredBy'[e] # {} => Origin[e] \in everPeer
      BY <1>1 DEF AttestationsAreDeliveries, registryVars
    <2>1. CASE e = d
      <3>1. \A u, v \in Transceiver :
              /\ transceiverInfos[u].registered
              /\ transceiverInfos[v].registered
              /\ transceiverInfos[u].index = transceiverInfos[v].index
              => u = v
        BY DEF IInv, RegistryAgrees, IndexIsRegistrationOrder
      <3>2. deliveredBy'[d] \subseteq Transceiver
        BY <1>4
      <3> QED
        BY <1>4, <1>6, <1>7, <2>1, <3>1, <3>2
    <2>2. CASE e # d
      <3>1. attested'[e] = attested[e] /\ deliveredBy'[e] = deliveredBy[e]
        BY <1>1, <1>2, <2>2
      <3> QED
        BY <3>1 DEF IInv, AttestationsAreDeliveries
    <2> QED
      BY <2>1, <2>2
  <1>9. /\ executed' \in [Digest -> BOOLEAN]
        /\ handled' \in [Digest -> Seq(Quorum)]
        /\ HandledAtMostOnce' /\ HandledWithQuorum'
    <2>1. CASE approvedWith(attested[d] \cup {index})
      BY <1>1, <1>4, <1>6, <2>1, HandleIInv
    <2>2. CASE ~approvedWith(attested[d] \cup {index})
      BY <1>1, <2>2 DEF IInv, TypeOK, HandledAtMostOnce, HandledWithQuorum
    <2> QED
      BY <2>1, <2>2
  <1>10. TypeOK'
    BY <1>1, <1>4, <1>5, <1>9 DEF IInv, TypeOK
  <1> QED
    BY <1>1, <1>5, <1>8, <1>9, <1>10 DEF IInv

LEMMA NextIInv == IInv /\ [Next]_vars => IInv'
  <1> SUFFICES ASSUME IInv, [Next]_vars PROVE IInv'
    OBVIOUS
  <1> USE DEF historyVars
  <1>1. ASSUME NEW t \in Transceiver, setTransceiver(t) PROVE IInv'
    BY <1>1, SetTransceiverIInv
  <1>2. ASSUME NEW t \in Transceiver, removeTransceiver(t) PROVE IInv'
    BY <1>2, RemoveTransceiverIInv
  <1>3. ASSUME NEW t \in Transceiver, NEW d \in Digest, attestationReceived(t, d) PROVE IInv'
    BY <1>3, AttestationReceivedIInv
  <1>4. ASSUME NEW d \in Digest, executeMsg(d) PROVE IInv'
    BY <1>4, ExecuteMsgIInv
  <1>5. ASSUME NEW th \in 1 .. MAX_TRANSCEIVERS, setThreshold(th) PROVE IInv'
    <2>1. th \in Nat /\ th > 0
      BY MaxTransceiversAssumption
    <2>2. /\ UNCHANGED <<registryVars, attested, executed, deliveredBy, handled, paused,
                         peer, everPeer>>
          /\ threshold' = th
          /\ th <= numTransceivers.enabled
      BY <1>5 DEF setThreshold, thresholdAcceptable
    <2>3. ThresholdMatchesCounters'
      BY <2>1, <2>2 DEF ThresholdMatchesCounters, registryVars
    <2> QED
      BY <2>1, <2>2, <2>3, ConfigurationIInv DEF IInv, TypeOK
  <1>6. ASSUME NEW m \in Manager, setPeer(m) PROVE IInv'
    <2>1. /\ UNCHANGED <<registryVars, attested, executed, deliveredBy, handled, paused, threshold>>
          /\ peer' = {m}
          /\ everPeer' = everPeer \cup {m}
      BY <1>6 DEF setPeer
    <2>2. ThresholdMatchesCounters'
      BY <2>1 DEF IInv, ThresholdMatchesCounters, registryVars
    <2> QED
      BY <2>1, <2>2, ConfigurationIInv DEF IInv, TypeOK
  <1>7. ASSUME pause \/ unpause PROVE IInv'
    <2>1. /\ UNCHANGED <<registryVars, attested, executed, deliveredBy, handled, threshold,
                         peer, everPeer>>
          /\ paused' \in BOOLEAN
      BY <1>7 DEF pause, unpause
    <2>2. ThresholdMatchesCounters'
      BY <2>1 DEF IInv, ThresholdMatchesCounters, registryVars
    <2> QED
      BY <2>1, <2>2, ConfigurationIInv DEF IInv, TypeOK
  <1>8. ASSUME UNCHANGED vars PROVE IInv'
    <2>1. UNCHANGED <<registryVars, attested, executed, deliveredBy, handled, threshold,
                      paused, peer, everPeer>>
      BY <1>8 DEF vars, managerVars
    <2>2. ThresholdMatchesCounters'
      BY <2>1 DEF IInv, ThresholdMatchesCounters, registryVars
    <2> QED
      BY <2>1, <2>2, ConfigurationIInv DEF IInv, TypeOK
  <1> QED
    BY <1>1, <1>2, <1>3, <1>4, <1>5, <1>6, <1>7, <1>8 DEF Next

LEMMA IInvCorrect == Spec => []IInv
  BY InitIInv, NextIInv, PTL DEF Spec

\* Type correctness: in particular no attestation bit and no enabled bit is
\* outside the width of the bitmap.
THEOREM TypeCorrect == Spec => []TypeOK
  <1>1. IInv => TypeOK
    BY DEF IInv
  <1> QED
    BY <1>1, IInvCorrect, PTL

\* No assert of TransceiverRegistry.sol can fail: the five representations of
\* the registry always agree.
THEOREM RegistryCorrect == Spec => []RegistryAgrees
  <1>1. IInv => RegistryAgrees
    BY DEF IInv
  <1> QED
    BY <1>1, IInvCorrect, PTL

\* Once a transceiver has been registered the threshold is positive and can
\* be met by the enabled transceivers (INV-024).
THEOREM ThresholdCorrect == Spec => []ThresholdBounds
  <1>1. IInv => ThresholdBounds
    <2> SUFFICES ASSUME IInv PROVE ThresholdBounds
      OBVIOUS
    <2>1. Cardinality(EnabledSet) = numTransceivers.enabled
      BY EnabledSetCardinality DEF IInv, TypeOK, RegistryInv
    <2>2. threshold \in Nat /\ numTransceivers.enabled \in Nat
      BY DEF IInv, TypeOK, RegistryTypeOK
    <2> QED
      BY <2>1, <2>2 DEF IInv, ThresholdMatchesCounters, ThresholdBounds
  <1> QED
    BY <1>1, IInvCorrect, PTL

\* An attestation bit stands for exactly the transceiver that delivered the
\* message, however the registry was reconfigured since.
THEOREM AttestationsCorrect == Spec => []AttestationsAreDeliveries
  <1>1. IInv => AttestationsAreDeliveries
    BY DEF IInv
  <1> QED
    BY <1>1, IInvCorrect, PTL

\* No message is handled twice (INV-002).
THEOREM NoDoubleExecution == Spec => []HandledAtMostOnce
  <1>1. IInv => HandledAtMostOnce
    BY DEF IInv
  <1> QED
    BY <1>1, IInvCorrect, PTL

\* A message is handled only with a quorum of enabled transceivers (INV-012).
THEOREM QuorumCorrect == Spec => []HandledWithQuorum
  <1>1. IInv => HandledWithQuorum
    BY DEF IInv
  <1> QED
    BY <1>1, IInvCorrect, PTL

\* A registered transceiver keeps its index for ever (INV-026).
THEOREM IndexCorrect == Spec => IndexNeverChanges
  <1> DEFINE Kept == \A t \in Transceiver : transceiverInfos[t].registered =>
                        /\ transceiverInfos'[t].registered
                        /\ transceiverInfos'[t].index = transceiverInfos[t].index
  <1>1. IInv /\ [Next]_vars => [Kept]_vars
    <2> SUFFICES ASSUME IInv, Next PROVE Kept
      OBVIOUS
    <2>1. transceiverInfos \in [Transceiver -> TransceiverInfo]
      BY DEF IInv, TypeOK, RegistryTypeOK
    <2>2. ASSUME NEW t \in Transceiver, setTransceiver(t) PROVE Kept
      BY <2>1, <2>2 DEF setTransceiver, registrySetTransceiver, EnabledInfo
    <2>3. ASSUME NEW t \in Transceiver, removeTransceiver(t) PROVE Kept
      BY <2>1, <2>3 DEF removeTransceiver, registryRemoveTransceiver, TransceiverInfo
    <2>4. ASSUME UNCHANGED transceiverInfos PROVE Kept
      BY <2>4
    <2> QED
      BY <2>2, <2>3, <2>4
      DEF Next, attestationReceived, setThreshold, setPeer, pause, unpause, executeMsg,
          registryVars
  <1> QED
    BY <1>1, IInvCorrect, PTL DEF Spec, IndexNeverChanges

-----------------------------------------------------------------------------
(* What reconfigurations do to messages in flight and to queued transfers. *)

\* The counter of enabled transceivers counts the bits of the bitmap.
BitmapCounted ==
    IsFiniteSet(enabledBitmap) /\ Cardinality(enabledBitmap) = numTransceivers.enabled

LEMMA BitmapCount == RegistryInv => BitmapCounted
  <1> SUFFICES ASSUME RegistryInv PROVE BitmapCounted
    OBVIOUS
  <1>1. \A t \in EnabledSet : transceiverInfos[t].registered
    BY DEF EnabledSet, Enabled, RegistryInv, RegistryAgrees, IndexIsRegistrationOrder
  <1>2. {t \in EnabledSet : Enabled(t)} = EnabledSet
    BY DEF EnabledSet
  <1>3. {transceiverInfos[t].index : t \in EnabledSet} \cap enabledBitmap = enabledBitmap
    BY DEF EnabledSet, RegistryInv, RegistryAgrees, EnabledMatchesArrayAndBitmap
  <1>4. EnabledSet \in SUBSET Transceiver
    BY DEF EnabledSet
  <1>5. Cardinality(EnabledSet) = Cardinality(enabledBitmap)
    BY <1>1, <1>2, <1>3, <1>4, BitsCountTransceivers
  <1>6. IsFiniteSet(enabledBitmap)
    <2>1. IsFiniteSet(0 .. MAX_TRANSCEIVERS - 1)
      BY MaxTransceiversAssumption, FS_Interval
    <2> QED
      BY <2>1, FS_Subset DEF RegistryInv, RegistryTypeOK
  <1> QED
    BY <1>5, <1>6, EnabledSetCardinality DEF BitmapCounted

LEMMA IInvCounts == IInv => BitmapCounted /\ RegistryInv
  BY BitmapCount DEF IInv, TypeOK, RegistryInv

LEMMA BitmapCountPrime == ASSUME IInv' PROVE BitmapCounted' /\ RegistryInv'
  BY IInvCounts, PTL

\* Only the two calls of the owner that are meant to change who is enabled.
LEMMA WhoChangesEnabled ==
  ASSUME Next, ~ UNCHANGED <<transceiverInfos, enabledTransceivers>>
  PROVE  \E t \in Transceiver : setTransceiver(t) \/ removeTransceiver(t)
  BY DEF Next, attestationReceived, setThreshold, setPeer, pause, unpause, executeMsg,
         registryVars

\* The number of attestations that count is finite and grows with the bitmap.
LEMMA ApprovalGrows ==
  ASSUME NEW A, NEW B, NEW bits, A \subseteq B, IsFiniteSet(B)
  PROVE  /\ Cardinality(bits \cap A) \in Nat
         /\ Cardinality(bits \cap B) \in Nat
         /\ Cardinality(bits \cap A) <= Cardinality(bits \cap B)
  <1>1. bits \cap A \subseteq bits \cap B /\ bits \cap B \subseteq B
    OBVIOUS
  <1>2. IsFiniteSet(bits \cap B)
    BY <1>1, FS_Subset
  <1> QED
    BY <1>1, <1>2, FS_Subset, FS_CardinalityType

\* Enabling a transceiver leaves every approved message approved: it does not
\* raise a threshold and takes no bit away.
THEOREM AdditionsCorrect == Spec => AdditionsKeepApproval
  <1> DEFINE Kept == \A d \in Digest :
                       /\ isMessageApproved(d)
                       /\ \E t \in Transceiver : ~Enabled(t) /\ Enabled(t)'
                       => isMessageApproved(d)'
  <1>1. IInv /\ IInv' /\ [Next]_vars => [Kept]_vars
    <2> SUFFICES ASSUME IInv, IInv', Next, NEW d \in Digest, isMessageApproved(d),
                        NEW t \in Transceiver, ~Enabled(t), Enabled(t)'
                 PROVE  isMessageApproved(d)'
      OBVIOUS
    <2>1. transceiverInfos \in [Transceiver -> TransceiverInfo]
      BY DEF IInv, TypeOK, RegistryTypeOK
    <2>2. \A u \in Transceiver : ~ removeTransceiver(u)
      BY <2>1 DEF removeTransceiver, registryRemoveTransceiver, Enabled, TransceiverInfo
    <2>3. PICK u \in Transceiver : setTransceiver(u)
      BY <2>2, WhoChangesEnabled DEF Enabled
    <2>4. /\ enabledBitmap \subseteq enabledBitmap'
          /\ attested' = attested
          /\ threshold' = (IF threshold = 0 THEN 1 ELSE threshold)
      BY <2>3 DEF setTransceiver, registrySetTransceiver, thresholdAfterAdd
    <2>5. threshold \in Nat /\ threshold > 0 /\ threshold' = threshold
      BY <2>4 DEF isMessageApproved, approvedWith, IInv, TypeOK
    <2>6. IsFiniteSet(enabledBitmap')
      BY BitmapCountPrime DEF BitmapCounted
    <2>7. Cardinality(attested[d] \cap enabledBitmap) >= threshold
      BY DEF isMessageApproved, approvedWith
    <2>8. Cardinality(attested[d] \cap enabledBitmap') >= threshold
      <3> DEFINE before == Cardinality(attested[d] \cap enabledBitmap)
                 after  == Cardinality(attested[d] \cap enabledBitmap')
      <3>1. before \in Nat /\ after \in Nat /\ before <= after
        BY <2>4, <2>6, ApprovalGrows
      <3> HIDE DEF before, after
      <3>2. after >= threshold
        BY <2>5, <2>7, <3>1 DEF before
      <3> QED
        BY <3>2 DEF after
    <2> QED
      BY <2>4, <2>5, <2>8 DEF isMessageApproved, approvedWith
  <1> QED
    BY <1>1, IInvCorrect, PTL DEF Spec, AdditionsKeepApproval

\* A removal that approves a message has lowered the threshold to the number
\* of transceivers left, and then all of these have delivered the message.
THEOREM RemovalsCorrect == Spec => RemovalApprovesOnlyUnanimously
  <1> DEFINE Unanimous == \A d \in Digest :
                            /\ ~isMessageApproved(d)
                            /\ isMessageApproved(d)'
                            /\ \E t \in Transceiver : Enabled(t) /\ ~Enabled(t)'
                            => \A t \in Transceiver : Enabled(t)' => t \in deliveredBy[d]
  <1>1. IInv /\ IInv' /\ [Next]_vars => [Unanimous]_vars
    <2> SUFFICES ASSUME IInv, IInv', Next, NEW d \in Digest,
                        ~isMessageApproved(d), isMessageApproved(d)',
                        NEW r \in Transceiver, Enabled(r), ~Enabled(r)',
                        NEW t \in Transceiver, Enabled(t)'
                 PROVE  t \in deliveredBy[d]
      OBVIOUS
    <2>1. transceiverInfos \in [Transceiver -> TransceiverInfo]
      BY DEF IInv, TypeOK, RegistryTypeOK
    <2>2. ASSUME NEW u \in Transceiver, setTransceiver(u) PROVE FALSE
      <3>1. transceiverInfos' = [transceiverInfos EXCEPT ![u] = EnabledInfo(u)]
        BY <2>2 DEF setTransceiver, registrySetTransceiver
      <3>2. EnabledInfo(u).enabled
        BY DEF EnabledInfo
      <3> QED
        BY <2>1, <3>1, <3>2 DEF Enabled
    <2>3. PICK u \in Transceiver : removeTransceiver(u)
      BY <2>2, WhoChangesEnabled DEF Enabled
    <2>4. /\ enabledBitmap' \subseteq enabledBitmap
          /\ attested' = attested
          /\ deliveredBy' = deliveredBy
          /\ threshold' = (IF numTransceivers'.enabled < threshold
                           THEN numTransceivers'.enabled ELSE threshold)
      BY <2>3 DEF removeTransceiver, registryRemoveTransceiver, thresholdAfterRemove, historyVars
    <2>5. /\ threshold \in Nat /\ threshold' \in Nat
          /\ numTransceivers'.enabled \in Nat
      BY DEF IInv, TypeOK, RegistryTypeOK
    <2>6. /\ IsFiniteSet(enabledBitmap)
          /\ IsFiniteSet(enabledBitmap')
          /\ Cardinality(enabledBitmap') = numTransceivers'.enabled
      BY IInvCounts, BitmapCountPrime DEF BitmapCounted
    <2> DEFINE before == Cardinality(attested[d] \cap enabledBitmap)
               after  == Cardinality(attested[d] \cap enabledBitmap')
    <2>7. before \in Nat /\ after \in Nat /\ after <= before
      BY <2>4, <2>6, ApprovalGrows
    <2>8. ~ (before >= threshold /\ threshold > 0) /\ after >= threshold' /\ threshold' > 0
      BY <2>4 DEF isMessageApproved, approvedWith
    <2> HIDE DEF before, after
    <2>9. after >= Cardinality(enabledBitmap')
      BY <2>4, <2>5, <2>6, <2>7, <2>8
    <2>10. attested[d] \cap enabledBitmap' = enabledBitmap'
      <3>1. after <= Cardinality(enabledBitmap')
        BY <2>6, FS_Subset DEF after
      <3>2. Cardinality(enabledBitmap') \in Nat
        BY <2>5, <2>6
      <3>3. after = Cardinality(enabledBitmap')
        BY <2>7, <2>9, <3>1, <3>2
      <3> QED
        BY <2>6, <3>3, FS_Subset DEF after
    <2>11. transceiverInfos'[t].index \in attested'[d]
      BY <2>4, <2>10, BitmapCountPrime
      DEF RegistryInv, RegistryAgrees, EnabledMatchesArrayAndBitmap
    <2>12. PICK v \in deliveredBy'[d] : transceiverInfos'[t].index = transceiverInfos'[v].index
      BY <2>11 DEF IInv, AttestationsAreDeliveries
    <2>13. v \in Transceiver /\ transceiverInfos'[v].registered
      BY <2>12 DEF IInv, AttestationsAreDeliveries, TypeOK
    <2>14. t = v
      BY <2>12, <2>13, BitmapCountPrime
      DEF RegistryInv, RegistryAgrees, IndexIsRegistrationOrder, Enabled
    <2> QED
      BY <2>4, <2>12, <2>14
  <1> QED
    BY <1>1, IInvCorrect, PTL DEF Spec, RemovalApprovesOnlyUnanimously

\* Instructions that were accepted when a transfer was queued are accepted
\* when it is released: there is a slot for each transceiver that has ever been
\* registered, and no removal leaves nobody enabled.
THEOREM InstructionsCorrect == Spec => AcceptedInstructionsStayAccepted
  <1> DEFINE Stay == enabledTransceivers' # enabledTransceivers =>
                       \A indices \in InstructionList :
                          prepareForTransfer(indices) => prepareForTransfer(indices)'
  <1>1. IInv /\ IInv' /\ [Next]_vars => [Stay]_vars
    <2> SUFFICES ASSUME IInv, IInv', Next, enabledTransceivers' # enabledTransceivers,
                        NEW indices \in InstructionList, prepareForTransfer(indices)
                 PROVE  prepareForTransfer(indices)'
      OBVIOUS
    <2> DEFINE slots == Len(registeredTransceivers)
    <2>1. PICK t \in Transceiver : setTransceiver(t) \/ removeTransceiver(t)
      BY WhoChangesEnabled
    <2>2. /\ enabledTransceivers' \in Seq(Transceiver)
          /\ registeredTransceivers \in Seq(Transceiver)
          /\ registeredTransceivers' \in Seq(Transceiver)
          /\ slots \in Nat /\ slots' \in Nat
      BY DEF IInv, TypeOK, RegistryTypeOK
    <2>3. slots <= slots'
      BY <2>1, <2>2 DEF setTransceiver, removeTransceiver, registrySetTransceiver,
                        registryRemoveTransceiver
    <2>4. Len(enabledTransceivers') # 0
      <3>1. /\ Len(enabledTransceivers') = numTransceivers'.enabled
            /\ numTransceivers'.enabled \in Nat /\ numTransceivers'.registered \in Nat
            /\ slots' = numTransceivers'.registered
            /\ threshold' \in Nat
        BY DEF IInv, TypeOK, RegistryTypeOK, RegistryAgrees, CountersMatchArrays
      <3>2. thresholdAcceptable(threshold', numTransceivers')
        BY <2>1 DEF setTransceiver, removeTransceiver
      <3>3. transceiverInfos'[t].registered
        BY <2>1 DEF setTransceiver, removeTransceiver, registrySetTransceiver, EnabledInfo,
                    registryRemoveTransceiver, IInv, TypeOK, RegistryTypeOK, TransceiverInfo
      <3>4. slots' > 0
        BY <2>2, <3>3 DEF IInv, RegistryAgrees, IndexIsRegistrationOrder, TypeOK,
                          RegistryTypeOK, TransceiverInfo
      <3> QED
        BY <3>1, <3>2, <3>4 DEF thresholdAcceptable
    <2>5. parseTransceiverInstructions(indices, slots')
      <3>1. \A i \in DOMAIN indices : indices[i] \in Nat
        BY MaxTransceiversAssumption DEF InstructionList
      <3> QED
        BY <2>2, <2>3, <3>1 DEF prepareForTransfer, parseTransceiverInstructions
    <2>6. slotsSuffice(slots)'
      <3> SUFFICES ASSUME NEW i \in DOMAIN enabledTransceivers'
                   PROVE  transceiverInfos'[enabledTransceivers'[i]].index < slots'
        BY DEF slotsSuffice
      <3>1. enabledTransceivers'[i] \in Transceiver /\ Enabled(enabledTransceivers[i])'
        BY <2>2 DEF IInv, RegistryAgrees, EnabledMatchesArrayAndBitmap
      <3> QED
        BY <3>1 DEF IInv, RegistryAgrees, IndexIsRegistrationOrder, Enabled
    <2> QED
      BY <2>4, <2>5, <2>6 DEF prepareForTransfer
  <1> QED
    BY <1>1, IInvCorrect, PTL DEF Spec, AcceptedInstructionsStayAccepted

-----------------------------------------------------------------------------
(* A manager with its Wormhole transceivers.                               *)

LEMMA StepRefines == [WormholeNext]_allVars => [Next]_vars
  <1> SUFFICES ASSUME [WormholeNext]_allVars PROVE [Next]_vars
    OBVIOUS
  <1>1. ASSUME NEW t \in Transceiver, NEW e \in Emitter, setWormholePeer(t, e)
        PROVE  UNCHANGED vars
    BY <1>1 DEF setWormholePeer
  <1>2. ASSUME NEW t \in Transceiver, NEW v \in Vaa, deliverToNttManager(t, v)
        PROVE  Next
    BY <1>2, VaaAssumption DEF deliverToNttManager, Next
  <1>3. CASE managerStep
    BY <1>3 DEF managerStep, Next
  <1>4. CASE UNCHANGED allVars
    BY <1>4 DEF allVars
  <1>5. CASE \E t \in Transceiver :
               \/ \E e \in Emitter : setWormholePeer(t, e)
               \/ \E v \in Vaa : receiveMessage(t, v) \/ receiveWormholeMessages(t, v)
    BY <1>1, <1>2, <1>5 DEF receiveMessage, receiveWormholeMessages
  <1> QED
    BY <1>3, <1>4, <1>5 DEF WormholeNext

\* Every behaviour of the composition is one of ManagerBase, so what is shown of
\* it carries over.
LEMMA WormholeRefines == WormholeSpec => Spec
  <1>1. WormholeInit => Init
    BY DEF WormholeInit
  <1> QED
    BY <1>1, StepRefines, PTL DEF WormholeSpec, Spec

-----------------------------------------------------------------------------
(* Consumed VAAs.                                                          *)

WormholeInv ==
    /\ consumedVAAs \in [Transceiver -> SUBSET Vaa]
    /\ wormholePeer \in [Transceiver -> SUBSET Emitter]
    /\ deliveredBy \in [Digest -> SUBSET Transceiver]
    /\ ConsumedIsAttested
    /\ \A t \in Transceiver :
          /\ \A v \in consumedVAAs[t] : emitterOf[v] \in wormholePeer[t]
          /\ \A e, f \in wormholePeer[t] : e = f

LEMMA WormholeInitInv == WormholeInit => WormholeInv
  BY DEF WormholeInit, Init, WormholeInv, ConsumedIsAttested

\* The entry points: the manager accepts the attestation, so this transceiver
\* had not reported the message before and has consumed no VAA with it.
LEMMA ReceiveInv ==
  ASSUME NEW t \in Transceiver, NEW v \in Vaa, WormholeInv, AttestationsAreDeliveries,
         consume(t, v), deliverToNttManager(t, v), UNCHANGED wormholePeer
  PROVE  WormholeInv'
  <1> DEFINE d == carries[v]
  <1>1. d \in Digest
    BY VaaAssumption
  <1>2. /\ deliveredBy' = [deliveredBy EXCEPT ![d] = @ \cup {t}]
        /\ transceiverInfos[t].index \notin attested[d]
        /\ v \in forThisManager
    BY DEF deliverToNttManager, attestationReceived
  <1>3. t \notin deliveredBy[d]
    BY <1>1, <1>2 DEF AttestationsAreDeliveries
  <1>4. /\ consumedVAAs' = [consumedVAAs EXCEPT ![t] = @ \cup {v}]
        /\ emitterOf[v] \in wormholePeer[t]
    BY DEF consume
  <1>5. /\ consumedVAAs' \in [Transceiver -> SUBSET Vaa]
        /\ consumedVAAs'[t] = consumedVAAs[t] \cup {v}
        /\ \A u \in Transceiver \ {t} : consumedVAAs'[u] = consumedVAAs[u]
    BY <1>4 DEF WormholeInv
  <1>6. /\ deliveredBy' \in [Digest -> SUBSET Transceiver]
        /\ deliveredBy'[d] = deliveredBy[d] \cup {t}
        /\ \A c \in Digest \ {d} : deliveredBy'[c] = deliveredBy[c]
    BY <1>1, <1>2 DEF WormholeInv
  <1>7. \A w \in consumedVAAs[t] : carries[w] # d
    BY <1>1, <1>3 DEF WormholeInv, ConsumedIsAttested
  <1>8. ASSUME NEW u \in Transceiver
        PROVE  /\ \A c \in Digest :
                    u \in deliveredBy'[c] <=> \E w \in consumedVAAs'[u] : carries[w] = c
               /\ \A w, x \in consumedVAAs'[u] : carries[w] = carries[x] => w = x
               /\ consumedVAAs'[u] \subseteq forThisManager
    <2>1. CASE u = t
      BY <1>2, <1>5, <1>6, <1>7, <2>1 DEF WormholeInv, ConsumedIsAttested
    <2>2. CASE u # t
      BY <1>5, <1>6, <2>2 DEF WormholeInv, ConsumedIsAttested
    <2> QED
      BY <2>1, <2>2
  <1>9. ConsumedIsAttested'
    BY <1>8 DEF ConsumedIsAttested
  <1>10. \A u \in Transceiver :
           /\ \A w \in consumedVAAs'[u] : emitterOf[w] \in wormholePeer'[u]
           /\ \A e, f \in wormholePeer'[u] : e = f
    BY <1>4, <1>5 DEF WormholeInv
  <1> QED
    BY <1>5, <1>6, <1>9, <1>10 DEF WormholeInv

LEMMA SetWormholePeerInv ==
  ASSUME NEW t \in Transceiver, NEW e \in Emitter, WormholeInv, setWormholePeer(t, e)
  PROVE  WormholeInv'
  <1>1. UNCHANGED <<deliveredBy, consumedVAAs>>
    BY DEF setWormholePeer, vars, historyVars
  <1>2. /\ wormholePeer[t] = {}
        /\ wormholePeer' \in [Transceiver -> SUBSET Emitter]
        /\ wormholePeer'[t] = {e}
        /\ \A u \in Transceiver \ {t} : wormholePeer'[u] = wormholePeer[u]
    BY DEF setWormholePeer, WormholeInv
  <1>3. ConsumedIsAttested'
    BY <1>1 DEF WormholeInv, ConsumedIsAttested
  <1>4. consumedVAAs[t] = {}
    BY <1>2 DEF WormholeInv
  <1> QED
    BY <1>1, <1>2, <1>3, <1>4 DEF WormholeInv

LEMMA WormholeNextInv ==
  WormholeInv /\ AttestationsAreDeliveries /\ [WormholeNext]_allVars => WormholeInv'
  <1> SUFFICES ASSUME WormholeInv, AttestationsAreDeliveries, [WormholeNext]_allVars
               PROVE  WormholeInv'
    OBVIOUS
  <1>1. CASE UNCHANGED <<deliveredBy, wormholeVars>>
    BY <1>1 DEF WormholeInv, ConsumedIsAttested, wormholeVars
  <1>2. CASE managerStep
    <2>1. UNCHANGED deliveredBy
      BY <1>2 DEF managerStep, setTransceiver, removeTransceiver, setThreshold,
                  setPeer, pause, unpause, executeMsg, historyVars
    <2> QED
      BY <1>1, <1>2, <2>1 DEF managerStep
  <1>3. CASE UNCHANGED allVars
    BY <1>1, <1>3 DEF allVars, vars, historyVars
  <1>4. ASSUME NEW t \in Transceiver, NEW v \in Vaa,
               receiveMessage(t, v) \/ receiveWormholeMessages(t, v)
        PROVE  WormholeInv'
    BY <1>4, ReceiveInv DEF receiveMessage, receiveWormholeMessages
  <1> QED
    BY <1>2, <1>3, <1>4, SetWormholePeerInv DEF WormholeNext

LEMMA WormholeInvCorrect == WormholeSpec => []WormholeInv
  <1>1. WormholeSpec => []AttestationsAreDeliveries
    BY WormholeRefines, AttestationsCorrect, PTL
  <1> QED
    BY <1>1, WormholeInitInv, WormholeNextInv, PTL DEF WormholeSpec

\* A transceiver has consumed a VAA exactly when the manager has recorded its
\* attestation, so no refusal of the manager spends a VAA.
THEOREM ConsumedCorrect == WormholeSpec => []ConsumedIsAttested
  <1>1. WormholeInv => ConsumedIsAttested
    BY DEF WormholeInv
  <1> QED
    BY <1>1, WormholeInvCorrect, PTL

\* All that a transceiver ever reports comes from the one peer it was given.
THEOREM OneEmitterCorrect == WormholeSpec => []OneEmitterPerTransceiver
  <1>1. WormholeInv => OneEmitterPerTransceiver
    BY DEF WormholeInv, OneEmitterPerTransceiver
  <1> QED
    BY <1>1, WormholeInvCorrect, PTL

\* The composition inherits INV-002: no payload is handled twice, whatever
\* VAAs and deliveries are brought.
THEOREM NoDoubleExecutionThroughVaas == WormholeSpec => []HandledAtMostOnce
  BY WormholeRefines, NoDoubleExecution, PTL

\* The composition inherits INV-012: whatever VAAs are brought, a payload is
\* handled only with a quorum of enabled transceivers.
THEOREM QuorumThroughVaas == WormholeSpec => []HandledWithQuorum
  BY WormholeRefines, QuorumCorrect, PTL

=============================================================================
