---------------------------- MODULE ManagerBase ----------------------------
(***************************************************************************)
(* Attestation and execution of inbound messages by one NttManager         *)
(* (evm/src/NttManager/ManagerBase.sol and the entry points of             *)
(* NttManager.sol that use it) while its owner reconfigures it.            *)
(*                                                                         *)
(* Transceivers deliver messages in any order and any number of times;     *)
(* anybody may call executeMsg; the owner adds, removes and re-adds        *)
(* transceivers, moves the threshold, replaces the peer, pauses and        *)
(* unpauses.  Every call is one transaction: it either does all of what    *)
(* its action says or reverts.                                             *)
(***************************************************************************)
EXTENDS TransceiverRegistry

CONSTANTS
    Digest,         \* message digests (source chain and message, hashed)
    Manager,        \* NttManager addresses on the source chain
    Origin          \* the manager that emitted each digest's message

ASSUME OriginAssumption == Origin \in [Digest -> Manager]

VARIABLES
    threshold,      \* attestations a message needs
    attested,       \* digest -> set of indices whose attestation bit is set
    executed,       \* digest -> has it been executed
    paused,         \* PausableUpgradeable's flag
    peer,           \* the registered peer of the source chain, as a set of at most one
    \* History, read by no action:
    deliveredBy,    \* digest -> the transceivers whose attestation was recorded
    everPeer,       \* the managers that have been the peer
    handled         \* digest -> the quorums at which its payload was handled

managerVars == <<threshold, attested, executed, paused, peer>>
historyVars == <<deliveredBy, everPeer, handled>>
vars == <<registryVars, managerVars, historyVars>>

\* What is recorded of one call of _handleMsg: the enabled transceivers that
\* had delivered the message, and the threshold.
Quorum == [by : SUBSET Transceiver, threshold : Nat]

TypeOK ==
    /\ RegistryTypeOK
    /\ threshold \in Nat
    /\ attested \in [Digest -> SUBSET (0 .. MAX_TRANSCEIVERS - 1)]
    /\ executed \in [Digest -> BOOLEAN]
    /\ paused \in BOOLEAN
    /\ peer \in SUBSET Manager
    /\ deliveredBy \in [Digest -> SUBSET Transceiver]
    /\ everPeer \in SUBSET Manager
    /\ handled \in [Digest -> Seq(Quorum)]

Init ==
    /\ RegistryInit
    /\ threshold = 0
    /\ attested = [d \in Digest |-> {}]
    /\ executed = [d \in Digest |-> FALSE]
    /\ paused = FALSE
    /\ peer = {}
    /\ deliveredBy = [d \in Digest |-> {}]
    /\ everPeer = {}
    /\ handled = [d \in Digest |-> << >>]

-----------------------------------------------------------------------------
(* Reconfiguration by the owner.                                           *)

\* Mutant of thresholdAcceptable: a zero threshold is not refused.
thresholdAcceptable_ZeroAllowed(th, num) == th <= num.enabled

\* The guard every change of the threshold or of the enabled set ends with
\* (_checkThresholdInvariants), on the values the call leaves behind.
thresholdAcceptable(th, num) ==
    /\ th <= num.enabled
    /\ num.registered > 0 => th # 0

\* Mutants of the threshold updates: a new transceiver always raises the
\* threshold; a removal that leaves too few falls back to one.
thresholdAfterAdd_Increments(th) == th + 1

thresholdAfterRemove_ResetsToOne(th, num) ==
    IF num.enabled < th THEN 1 ELSE th

\* The first transceiver brings the threshold to one, a later one leaves it.
thresholdAfterAdd(th) == IF th = 0 THEN 1 ELSE th

\* The threshold never exceeds the transceivers left.
thresholdAfterRemove(th, num) ==
    IF num.enabled < th THEN num.enabled ELSE th

setTransceiver(t) ==
    /\ registrySetTransceiver(t)
    /\ threshold' = thresholdAfterAdd(threshold)
    /\ thresholdAcceptable(threshold', numTransceivers')
    /\ UNCHANGED <<attested, executed, paused, peer, historyVars>>

removeTransceiver(t) ==
    /\ registryRemoveTransceiver(t)
    /\ threshold' = thresholdAfterRemove(threshold, numTransceivers')
    /\ thresholdAcceptable(threshold', numTransceivers')
    /\ UNCHANGED <<attested, executed, paused, peer, historyVars>>

setThreshold(th) ==
    /\ th # 0
    /\ thresholdAcceptable(th, numTransceivers)
    /\ threshold' = th
    /\ UNCHANGED <<registryVars, attested, executed, paused, peer, historyVars>>

setPeer(m) ==
    /\ peer' = {m}
    /\ everPeer' = everPeer \cup {m}
    /\ UNCHANGED <<registryVars, threshold, attested, executed, paused,
                   deliveredBy, handled>>

pause ==
    /\ ~paused
    /\ paused' = TRUE
    /\ UNCHANGED <<registryVars, threshold, attested, executed, peer, historyVars>>

unpause ==
    /\ paused
    /\ paused' = FALSE
    /\ UNCHANGED <<registryVars, threshold, attested, executed, peer, historyVars>>

-----------------------------------------------------------------------------
(* Inbound messages.                                                       *)

\* Mutant of approvedWith: the bits of disabled transceivers count.
approvedWith_CountsDisabled(bits) ==
    /\ Cardinality(bits) >= threshold
    /\ threshold > 0

\* Enough attestation bits of transceivers that are enabled now.
approvedWith(bits) ==
    /\ Cardinality(bits \cap enabledBitmap) >= threshold
    /\ threshold > 0

isMessageApproved(d) == approvedWith(attested[d])

\* Mutant of replayProtectAndHandle: no replay protection.
replayProtectAndHandle_NoReplayCheck(d) ==
    /\ executed' = [executed EXCEPT ![d] = TRUE]
    /\ handled' = [handled EXCEPT ![d] = Append(@,
                  [by |-> {t \in deliveredBy'[d] : Enabled(t)},
                   threshold |-> threshold])]

\* executeMsg after approval: the first call handles the payload, a later one
\* returns early (MessageAlreadyExecuted).
replayProtectAndHandle(d) ==
    /\ executed' = [executed EXCEPT ![d] = TRUE]
    /\ handled' =
          IF executed[d] THEN handled
          ELSE [handled EXCEPT ![d] = Append(@,
                  [by |-> {t \in deliveredBy'[d] : Enabled(t)},
                   threshold |-> threshold])]

executeMsg(d) ==
    /\ ~paused
    /\ isMessageApproved(d)
    /\ UNCHANGED deliveredBy
    /\ replayProtectAndHandle(d)
    /\ UNCHANGED <<registryVars, threshold, attested, paused, peer, everPeer>>

\* A transceiver reports d.  The attestation and the execution it may trigger
\* are one transaction.
attestationReceived(t, d) ==
    LET index == transceiverInfos[t].index IN
    /\ Enabled(t)
    /\ ~paused
    /\ Origin[d] \in peer
    /\ index \notin attested[d]
    /\ attested' = [attested EXCEPT ![d] = @ \cup {index}]
    /\ deliveredBy' = [deliveredBy EXCEPT ![d] = @ \cup {t}]
    /\ IF approvedWith(attested[d] \cup {index})
       THEN replayProtectAndHandle(d)
       ELSE UNCHANGED <<executed, handled>>
    /\ UNCHANGED <<registryVars, threshold, paused, peer, everPeer>>

-----------------------------------------------------------------------------
(* Instructions of outbound messages.  They change no state: the operators  *)
(* say when the calls succeed.                                              *)

\* The index of each instruction a caller passes.
InstructionList == UNION {[1 .. n -> 0 .. MAX_TRANSCEIVERS - 1] : n \in 0 .. 2}

\* The instructions parse into an array with the given number of slots.
parseTransceiverInstructions(indices, slots) ==
    /\ \A i \in DOMAIN indices : indices[i] < slots
    /\ \A i \in DOMAIN indices : i > 1 => indices[i - 1] < indices[i]

\* _quoteDeliveryPrice reads the slot of every enabled transceiver's index.
slotsSuffice(slots) ==
    \A i \in DOMAIN enabledTransceivers :
        transceiverInfos[enabledTransceivers[i]].index < slots

\* Mutant of prepareForTransfer: a slot per enabled transceiver.
prepareForTransfer_EnabledSlots(indices) ==
    /\ Len(enabledTransceivers) # 0
    /\ parseTransceiverInstructions(indices, Len(enabledTransceivers))
    /\ slotsSuffice(Len(enabledTransceivers))

\* A transfer passes: there is a slot per registered transceiver.
prepareForTransfer(indices) ==
    /\ Len(enabledTransceivers) # 0
    /\ parseTransceiverInstructions(indices, Len(registeredTransceivers))
    /\ slotsSuffice(Len(registeredTransceivers))

-----------------------------------------------------------------------------
Next ==
    \/ \E t \in Transceiver :
          \/ setTransceiver(t)
          \/ removeTransceiver(t)
          \/ \E d \in Digest : attestationReceived(t, d)
    \/ \E th \in 1 .. MAX_TRANSCEIVERS : setThreshold(th)
    \/ \E m \in Manager : setPeer(m)
    \/ pause
    \/ unpause
    \/ \E d \in Digest : executeMsg(d)

Spec == Init /\ [][Next]_vars

-----------------------------------------------------------------------------
(* Safety.                                                                 *)

EnabledSet == {t \in Transceiver : Enabled(t)}

\* INV-024 of docs/INVARIANTS.md, and what _checkThresholdInvariants guards:
\* once a transceiver has been registered the threshold is at least one and
\* can be met by the transceivers that are enabled, whatever the owner adds
\* and removes.
ThresholdBounds ==
    numTransceivers.registered > 0 =>
        threshold \in 1 .. Cardinality(EnabledSet)

\* An attestation bit stands for the one transceiver that delivered the
\* message, across removals and re-registrations (the reason INV-026 and
\* INV-027 give for never reusing an index), and only messages of a manager
\* that has been the peer are attested (_recordTransceiverAttestation).
AttestationsAreDeliveries ==
    \A d \in Digest :
        /\ attested[d] = {transceiverInfos[t].index : t \in deliveredBy[d]}
        /\ \A t \in deliveredBy[d] : transceiverInfos[t].registered
        /\ \A t, u \in deliveredBy[d] :
              transceiverInfos[t].index = transceiverInfos[u].index => t = u
        /\ deliveredBy[d] # {} => Origin[d] \in everPeer

\* INV-002: a message's payload is handled at most once, and exactly when it
\* is marked executed, although attestationReceived and executeMsg race to
\* execute it.
HandledAtMostOnce ==
    \A d \in Digest : Len(handled[d]) = (IF executed[d] THEN 1 ELSE 0)

\* INV-012: when a payload was handled, at least threshold transceivers that
\* were enabled at that time had delivered it.  The count is of transceivers,
\* where the contract counts bits.
HandledWithQuorum ==
    \A d \in Digest : \A i \in DOMAIN handled[d] :
        LET q == handled[d][i] IN
        /\ q.threshold >= 1
        /\ Cardinality(q.by) >= q.threshold

-----------------------------------------------------------------------------
(* Action properties.                                                      *)

\* INV-026: a registered transceiver stays registered and its index never
\* changes, so that the bits of messages in flight keep their meaning.
IndexNeverChanges ==
    [][\A t \in Transceiver : transceiverInfos[t].registered =>
          /\ transceiverInfos'[t].registered
          /\ transceiverInfos'[t].index = transceiverInfos[t].index]_vars

\* The comment in setTransceiver: adding a transceiver must not make messages
\* in flight impossible to redeem.  A step that enables a transceiver leaves
\* every approved message approved.
AdditionsKeepApproval ==
    [][\A d \in Digest :
          /\ isMessageApproved(d)
          /\ \E t \in Transceiver : ~Enabled(t) /\ Enabled(t)'
          => isMessageApproved(d)']_vars

\* A transfer that was queued is released with the instructions it was queued
\* with (completeOutboundQueuedTransfer), after any reconfiguration: what
\* _prepareForTransfer accepts once it accepts ever after.
AcceptedInstructionsStayAccepted ==
    [][enabledTransceivers' # enabledTransceivers =>
          \A indices \in InstructionList :
              prepareForTransfer(indices) => prepareForTransfer(indices)']_vars

\* A removal may lower the threshold and so approve a message that was not:
\* then every transceiver still enabled has delivered that message.
RemovalApprovesOnlyUnanimously ==
    [][\A d \in Digest :
          /\ ~isMessageApproved(d)
          /\ isMessageApproved(d)'
          /\ \E t \in Transceiver : Enabled(t) /\ ~Enabled(t)'
          => \A t \in Transceiver : Enabled(t)' => t \in deliveredBy[d]]_vars

=============================================================================
