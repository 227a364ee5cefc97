\* Safety of the backend against a daemon that may send anything, close
\* either socket at any time, and answers each frame at most once.
SPECIFICATION Spec
CONSTANTS
    MaxTx = 2
    MaxIn = 2
    NSets = 1
    TxChunks = 2
    ConfigTimeout = 1
    DrainTimeout = 1
    U32 = 2
    Statuses = {"OK", "CHANNEL_BUSY"}
    Unsolicited = {"RX", "GARBAGE", "BROADCAST"}
INVARIANTS TypeOK Accounting OwnershipTracked NoForgedResult RfLogHonest ReadyMeansApplied EpochCurrent
PROPERTIES NoSecondTx FaultedForGood OwnershipProtocol
