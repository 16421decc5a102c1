------------------------ MODULE TransceiverRegistry ------------------------
(***************************************************************************)
(* The transceiver registry of an NttManager                               *)
(* (evm/src/NttManager/TransceiverRegistry.sol).                           *)
(*                                                                         *)
(* The contract keeps the same information five times: a record per        *)
(* address, a 64-bit bitmap of enabled indices, an unordered array of      *)
(* enabled addresses, an append-only array of registered addresses, and    *)
(* two counters.  The contract asserts that they agree each time it        *)
(* changes them.  The asserts are not guards of the actions below: they    *)
(* are the invariants of this module, so a run that passes shows that none *)
(* of them can fail.                                                       *)
(***************************************************************************)
EXTENDS Integers, Sequences, FiniteSets

CONSTANTS
    Transceiver,        \* the transceiver contracts (non-zero addresses)
    MAX_TRANSCEIVERS    \* the width of the bitmap, 64 in the contract

ASSUME MaxTransceiversAssumption == MAX_TRANSCEIVERS \in Nat \ {0}

VARIABLES
    transceiverInfos,       \* address -> [registered, enabled, index]
    enabledBitmap,          \* the set of indices whose bit is set
    enabledTransceivers,    \* the array of enabled addresses, in no order
    registeredTransceivers, \* the array of addresses in order of registration
    numTransceivers         \* the two counters [registered, enabled]

registryVars ==
    <<transceiverInfos, enabledBitmap, enabledTransceivers,
      registeredTransceivers, numTransceivers>>

TransceiverInfo == [registered : BOOLEAN, enabled : BOOLEAN, index : Nat]

RegistryTypeOK ==
    /\ transceiverInfos \in [Transceiver -> TransceiverInfo]
    /\ enabledBitmap \in SUBSET (0 .. MAX_TRANSCEIVERS - 1)
    /\ enabledTransceivers \in Seq(Transceiver)
    /\ registeredTransceivers \in Seq(Transceiver)
    /\ numTransceivers \in [registered : Nat, enabled : Nat]

RegistryInit ==
    /\ transceiverInfos = [t \in Transceiver |->
            [registered |-> FALSE, enabled |-> FALSE, index |-> 0]]
    /\ enabledBitmap = {}
    /\ enabledTransceivers = << >>
    /\ registeredTransceivers = << >>
    /\ numTransceivers = [registered |-> 0, enabled |-> 0]

-----------------------------------------------------------------------------
\* Mutant of EnabledInfo: a re-enabled transceiver is given a fresh index.
EnabledInfo_FreshIndex(t) ==
    [registered |-> TRUE, enabled |-> TRUE, index |-> numTransceivers.registered]

\* The record a transceiver has once it is enabled: a known one keeps its
\* index, a new one gets the next index.
EnabledInfo(t) ==
    [registered |-> TRUE,
     enabled    |-> TRUE,
     index      |-> IF transceiverInfos[t].registered
                    THEN transceiverInfos[t].index
                    ELSE numTransceivers.registered]

\* Enable t, registering it first if it is new.  The contract writes the
\* record before it finds the bit already set and reverts
\* (TransceiverAlreadyEnabled), so the test is on the new record's index.
registrySetTransceiver(t) ==
    LET isNew == ~transceiverInfos[t].registered IN
    /\ isNew => numTransceivers.registered < MAX_TRANSCEIVERS
    /\ EnabledInfo(t).index \notin enabledBitmap
    /\ transceiverInfos' = [transceiverInfos EXCEPT ![t] = EnabledInfo(t)]
    /\ enabledBitmap' = enabledBitmap \cup {EnabledInfo(t).index}
    /\ enabledTransceivers' = Append(enabledTransceivers, t)
    /\ registeredTransceivers' =
            IF isNew THEN Append(registeredTransceivers, t)
                     ELSE registeredTransceivers
    /\ numTransceivers' =
            [registered |-> numTransceivers.registered + (IF isNew THEN 1 ELSE 0),
             enabled    |-> numTransceivers.enabled + 1]

\* Mutant of SwapRemove: the last entry is popped but not moved.
SwapRemove_PopOnly(s, i) == SubSeq(s, 1, Len(s) - 1)

\* The array without its i-th entry, which the last one replaces.
SwapRemove(s, i) ==
    [j \in 1 .. Len(s) - 1 |-> IF j = i THEN s[Len(s)] ELSE s[j]]

\* Disable t: it stays registered and keeps its index.
registryRemoveTransceiver(t) ==
    /\ transceiverInfos[t].registered
    /\ transceiverInfos[t].enabled
    /\ transceiverInfos' = [transceiverInfos EXCEPT ![t].enabled = FALSE]
    /\ enabledBitmap' = enabledBitmap \ {transceiverInfos[t].index}
    /\ \E i \in DOMAIN enabledTransceivers :
          /\ enabledTransceivers[i] = t
          /\ \A j \in 1 .. i - 1 : enabledTransceivers[j] # t
          /\ enabledTransceivers' = SwapRemove(enabledTransceivers, i)
    /\ numTransceivers' = [numTransceivers EXCEPT !.enabled = @ - 1]
    /\ UNCHANGED registeredTransceivers

-----------------------------------------------------------------------------
(* What the contract asserts (_checkTransceiversInvariants,                *)
(* _checkTransceiverInvariants, _checkRegisteredTransceiversInvariants).    *)

Enabled(t) == transceiverInfos[t].enabled

\* numTransceivers agrees with the lengths of the two arrays.
CountersMatchArrays ==
    /\ numTransceivers.enabled = Len(enabledTransceivers)
    /\ numTransceivers.registered = Len(registeredTransceivers)
    /\ numTransceivers.registered <= MAX_TRANSCEIVERS

\* The record, the array and the bitmap agree on which transceivers are
\* enabled, and no transceiver is twice in the array.
EnabledMatchesArrayAndBitmap ==
    /\ \A i, j \in DOMAIN enabledTransceivers :
          enabledTransceivers[i] = enabledTransceivers[j] => i = j
    /\ \A t \in Transceiver :
          Enabled(t) <=> \E i \in DOMAIN enabledTransceivers :
                            enabledTransceivers[i] = t
    /\ \A t \in Transceiver :
          Enabled(t) => transceiverInfos[t].index \in enabledBitmap
    /\ \A n \in enabledBitmap :
          \E t \in Transceiver : Enabled(t) /\ transceiverInfos[t].index = n

\* A registered transceiver is the entry of the registration array that its
\* index names (so no two share an index); one that is not registered is not
\* enabled.
IndexIsRegistrationOrder ==
    /\ \A t \in Transceiver :
          /\ transceiverInfos[t].enabled => transceiverInfos[t].registered
          /\ transceiverInfos[t].registered =>
                /\ transceiverInfos[t].index < Len(registeredTransceivers)
                /\ registeredTransceivers[transceiverInfos[t].index + 1] = t
    /\ \A i \in DOMAIN registeredTransceivers :
          /\ transceiverInfos[registeredTransceivers[i]].registered
          /\ transceiverInfos[registeredTransceivers[i]].index = i - 1

\* The asserts of the contract hold: the five representations agree.
RegistryAgrees ==
    /\ CountersMatchArrays
    /\ EnabledMatchesArrayAndBitmap
    /\ IndexIsRegistrationOrder

=============================================================================
