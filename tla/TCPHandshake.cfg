CONSTANTS
    SEQMOD = 16
    TCP_RECEIVEBUFFER_MAX_PACKETS = 2
    MSS = 1
    maxReceiveWindow_MSS = 2
    UNSIGNED_MAX = 255
    DEFAULT_MSS = 2
    WINDOW_MAX = 7
    TCP_HISTORY_MAX_PACKETS = 3
    PACKET_LIMIT = 2
    COUNT = 4
    RetransmissionCounter = TRUE
    TCP_MAX_RETRANSMISSIONS = 0
    Client = c
    Server = d
    ISN <- WrappingISN
    ToWrite <- NoData
    ReadSizes = {}
    Polling = {}
    Closing = {}
    NetCap = 2
SPECIFICATION Spec
INVARIANT BlocksConserved
CHECK_DEADLOCK FALSE
