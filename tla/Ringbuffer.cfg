CONSTANTS
    BUFFERSIZE = 4
    Val = {p1, p2, null}
    Unset = unset
SPECIFICATION FairSpec
INVARIANTS
    TypeOK
    NoSlotShared
    PublishedSlotsHoldPackets
PROPERTIES
    ImplementsPacketQueue
    EveryPacketFetched
