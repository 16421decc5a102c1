------------------------ MODULE WormholeTransceiver ------------------------
(***************************************************************************)
(* The receiving side of the Wormhole transceivers                         *)
(* (evm/src/Transceiver/Transceiver.sol and WormholeTransceiver/) together *)
(* with the manager they deliver to (ManagerBase): every transceiver of    *)
(* the manager is a WormholeTransceiver and reports a message only when it *)
(* is brought a VAA for it.                                                *)
(*                                                                         *)
(* Anybody may bring any VAA to receiveMessage any number of times; the    *)
(* standard relayer does the same with its deliveries.  The transceiver    *)
(* marks the VAA as consumed before it calls the manager: a refusal by the *)
(* manager reverts the whole transaction.                                  *)
(***************************************************************************)
EXTENDS ManagerBase

CONSTANTS
    Vaa,            \* the hashes of signed VAAs of the source chain
    Emitter,        \* addresses that publish on the source chain
    emitterOf,      \* VAA -> its emitter (for a delivery: the sender it names)
    carries,        \* VAA -> the digest of the message in its payload
    forThisManager, \* the VAAs whose payload names this manager as recipient
    deliveries      \* the VAAs that are deliveries of the standard relayer

ASSUME VaaAssumption ==
    /\ emitterOf \in [Vaa -> Emitter]
    /\ carries \in [Vaa -> Digest]
    /\ forThisManager \subseteq Vaa
    /\ deliveries \subseteq Vaa

VARIABLES
    consumedVAAs,   \* transceiver -> the hashes it has marked
    wormholePeer    \* transceiver -> its peer on the source chain, at most one

wormholeVars == <<consumedVAAs, wormholePeer>>
allVars == <<vars, wormholeVars>>

WormholeInit ==
    /\ Init
    /\ consumedVAAs = [t \in Transceiver |-> {}]
    /\ wormholePeer = [t \in Transceiver |-> {}]

-----------------------------------------------------------------------------
\* Mutant of setWormholePeer: a peer may be replaced.
setWormholePeer_Replaces(t, e) ==
    /\ wormholePeer' = [wormholePeer EXCEPT ![t] = {e}]
    /\ UNCHANGED <<vars, consumedVAAs>>

\* The owner registers the peer, once (PeerAlreadySet).
setWormholePeer(t, e) ==
    /\ wormholePeer[t] = {}
    /\ wormholePeer' = [wormholePeer EXCEPT ![t] = {e}]
    /\ UNCHANGED <<vars, consumedVAAs>>

\* The replay protection of both entry points.
consume(t, v) ==
    /\ emitterOf[v] \in wormholePeer[t]
    /\ v \notin consumedVAAs[t]
    /\ consumedVAAs' = [consumedVAAs EXCEPT ![t] = @ \cup {v}]

\* Mutant of deliverToNttManager: a refusal by the manager is swallowed.
deliverToNttManager_SwallowsRefusal(t, v) ==
    /\ v \in forThisManager
    /\ \/ attestationReceived(t, carries[v])
       \/ ~ENABLED attestationReceived(t, carries[v]) /\ UNCHANGED vars

\* The payload is for this manager, which accepts the attestation.
deliverToNttManager(t, v) ==
    /\ v \in forThisManager
    /\ attestationReceived(t, carries[v])

\* A VAA the core bridge finds valid, brought by anybody.
receiveMessage(t, v) ==
    /\ v \notin deliveries
    /\ consume(t, v)
    /\ deliverToNttManager(t, v)
    /\ UNCHANGED wormholePeer

\* A delivery of the standard relayer, without additional messages.
receiveWormholeMessages(t, v) ==
    /\ v \in deliveries
    /\ consume(t, v)
    /\ deliverToNttManager(t, v)
    /\ UNCHANGED wormholePeer

\* The manager's own transactions.
managerStep ==
    /\ \/ \E t \in Transceiver : setTransceiver(t) \/ removeTransceiver(t)
       \/ \E th \in 1 .. MAX_TRANSCEIVERS : setThreshold(th)
       \/ \E m \in Manager : setPeer(m)
       \/ pause
       \/ unpause
       \/ \E d \in Digest : executeMsg(d)
    /\ UNCHANGED wormholeVars

WormholeNext ==
    \/ \E t \in Transceiver :
          \/ \E e \in Emitter : setWormholePeer(t, e)
          \/ \E v \in Vaa : receiveMessage(t, v) \/ receiveWormholeMessages(t, v)
    \/ managerStep

WormholeSpec == WormholeInit /\ [][WormholeNext]_allVars

-----------------------------------------------------------------------------
\* INV-013 and the comment on replay protection in receiveWormholeMessages: a
\* transceiver has consumed a VAA exactly when it has reported the message in
\* it to the manager, and it has consumed one VAA for one message, although a
\* delivery and a raw VAA carry the same message under two hashes.  So a VAA
\* that was refused (paused, disabled, not the peer, attested before) is never
\* spent.
ConsumedIsAttested ==
    \A t \in Transceiver :
        /\ \A d \in Digest :
              t \in deliveredBy[d] <=> \E v \in consumedVAAs[t] : carries[v] = d
        /\ \A v, w \in consumedVAAs[t] : carries[v] = carries[w] => v = w
        /\ consumedVAAs[t] \subseteq forThisManager

\* The comment of setWormholePeer, "We don't want to allow updating a peer":
\* all that a transceiver ever reports comes from one contract.
OneEmitterPerTransceiver ==
    \A t \in Transceiver : \A v, w \in consumedVAAs[t] :
        emitterOf[v] = emitterOf[w] /\ emitterOf[v] \in wormholePeer[t]

=============================================================================
