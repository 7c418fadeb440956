SPECIFICATION Spec
CONSTANTS
    Addr = {a, b}
    MaxOutbound = 2
    Known = 4
    Final = 5
    Checkpoints = {1, 3}
    SyncHeight = 4
    InvBatch = 2
    HeaderBatch = 1
    MaxInv = 2
    MaxBlockRequest = 3
    CompactDepth = 1
    MaxFaults = 2
INVARIANTS
    RequestsExact
    HeadersLead
    HonestPeersStay
PROPERTIES
    CatchesUp
CHECK_DEADLOCK FALSE
