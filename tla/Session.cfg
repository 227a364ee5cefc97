\* The XR session against any client and any backend.
SPECIFICATION SessionSpec
CONSTANTS
    Seqs = {1, 2}
    Tokens = {0, 1, 2}
    MaxOutbox = 2
    HandshakeTimeout = 1
    AuthTimeout = 1
    ConfigTimeout = 1
    TxTimeout = 2
    PingInterval = 2
    PongTimeout = 1
    PasswordConfigured = TRUE
INVARIANTS SessionTypeOK NoTrafficBeforeConfig
PROPERTIES ClosedIsSilent HandshakeEnds TxResolved KeepaliveRuns PongOrClosed
