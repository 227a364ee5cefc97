\* The whole bridge: server loop, session and backend, two frames, so that a
\* result could reach the wrong frame or the wrong session.
SPECIFICATION BridgeSpec
CONSTANTS
    MaxTx = 2
    MaxIn = 1
    NSets = 0
    TxChunks = 1
    U32 = 3
    Statuses = {"OK"}
    Unsolicited = {"RX"}
    ConfigTimeout = 1
    DrainTimeout = 1
    MaxOutbox = 2
    HandshakeTimeout = 1
    AuthTimeout = 1
    SessionConfigTimeout = 1
    TxTimeout = 1
    PingInterval = 1
    PongTimeout = 1
    PasswordConfigured = FALSE
INVARIANTS ResultsTrueAndOwn SessionAgrees BackendServesSession
