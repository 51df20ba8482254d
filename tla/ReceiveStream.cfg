CONSTANTS
    SEQMOD = 16
    TCP_RECEIVEBUFFER_MAX_PACKETS = 4
    ISN = 13
    StreamLen = 6
    Cuttings <- AllPeers
SPECIFICATION Spec
INVARIANTS
    TypeOK
    StreamInOrder
    RecvBytesExact
    AckedBytesBuffered
    NextSegmentAcceptable
    RefusedIsDuplicate
