\* The CONF connection at the level of reads and writes.
SPECIFICATION Spec
CONSTANTS
    ReadChunk = 2
    MaxConfLine = 4
    Width <- MCWidth
    Requests <- MCRequests
    Unasked = {"BROADCAST", "OTHER", "LONG"}
    MaxUnasked = 1
    MaxConfigs = 2
INVARIANT AppliedExactly
PROPERTIES FailsForCause LineLevel
