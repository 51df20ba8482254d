CONSTANTS
    SEQMOD = 16
    TCP_RECEIVEBUFFER_MAX_PACKETS = 2
    MSS = 1
    maxReceiveWindow_MSS = 2
    UNSIGNED_MAX = 255
    DEFAULT_MSS = 2
    WINDOW_MAX = 7
    TCP_HISTORY_MAX_PACKETS = 3
    PACKET_LIMIT = 2
    COUNT = 4
    RetransmissionCounter = FALSE
    TCP_MAX_RETRANSMISSIONS = 0
    Client = c
    Server = d
    ISN <- WrappingISN
    ToWrite <- ClientWritesTwo
    ReadSizes = {2}
    Polling = {d}
    Closing = {}
    NetCap = 2
SPECIFICATION EstablishedSpec
INVARIANTS
    StreamPrefix
    WriteConfirmed
CHECK_DEADLOCK FALSE
