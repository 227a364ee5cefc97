\* The backend against a daemon that may answer a frame twice.
SPECIFICATION RepeatSpec
CONSTANTS
    MaxTx = 2
    MaxIn = 1
    NSets = 1
    TxChunks = 1
    ConfigTimeout = 1
    DrainTimeout = 1
    U32 = 2
    Statuses = {"OK", "CHANNEL_BUSY"}
    Unsolicited = {}
INVARIANT NoForgedResult
