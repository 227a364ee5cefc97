\* The whole bridge with a client that may stop reading for ever.
SPECIFICATION FairBridgeSpec
CONSTANTS
    MaxTx = 1
    MaxIn = 1
    NSets = 0
    TxChunks = 1
    U32 = 2
    Statuses = {"OK", "CHANNEL_BUSY"}
    Unsolicited = {"RX"}
    ConfigTimeout = 1
    DrainTimeout = 1
    MaxOutbox = 2
    HandshakeTimeout = 1
    AuthTimeout = 1
    SessionConfigTimeout = 1
    TxTimeout = 1
    PingInterval = 1
    PongTimeout = 1
    PasswordConfigured = FALSE
PROPERTY ClosedReleased
