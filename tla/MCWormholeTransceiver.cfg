CONSTANTS
    d1 = d1
    d2 = d2
    mA = mA
    v1 = v1
    v2 = v2
    v3 = v3
    v4 = v4
    eA = eA
    eB = eB
    Transceiver = {t1, t2, t3, t4}
    MAX_TRANSCEIVERS = 3
    Digest = {d1, d2}
    Manager = {mA}
    Origin <- MCOrigin
    Vaa = {v1, v2, v3, v4}
    Emitter = {eA, eB}
    emitterOf <- MCEmitterOf
    carries <- MCCarries
    forThisManager = {v1, v2, v3}
    deliveries = {v2}
SPECIFICATION WormholeSpec
SYMMETRY MCSymmetry
INVARIANTS
    RegistryAgrees
    ThresholdBounds
    AttestationsAreDeliveries
    HandledAtMostOnce
    HandledWithQuorum
    ConsumedIsAttested
    OneEmitterPerTransceiver
PROPERTIES
    IndexNeverChanges
    AdditionsKeepApproval
    RemovalApprovesOnlyUnanimously
    AcceptedInstructionsStayAccepted
