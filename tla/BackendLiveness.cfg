\* Every configuration ends, whatever the daemon does, and TX ownership
\* survives the end and the restart of the process.
SPECIFICATION RFairSpec
CONSTANTS
    MaxTx = 2
    MaxIn = 1
    NSets = 1
    TxChunks = 1
    ConfigTimeout = 1
    DrainTimeout = 1
    U32 = 2
    Statuses = {"OK", "CHANNEL_BUSY"}
    Unsolicited = {"RX"}
INVARIANT LogGapsAreOrphans
PROPERTIES HandedOverAlone ConfigEnds
