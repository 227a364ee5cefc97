\* Firmware and bridge over connections that close, reset and start again.
SPECIFICATION FairSpec
CONSTANTS
    Desired <- MCDesired
    Others <- MCOthers
    NoConfig = NoConfig
    Passwords = {"right", "wrong"}
    BridgePassword = "right"
    U16 = 2
    U32 = 2
    MaxOutbox = 2
    ScriptedResults = {"ChannelBusy"}
    MaxScripts = 1
INVARIANTS Compatible OutcomeTrue ReadyAgrees
PROPERTIES FirmwareTxEnds FirmwareHandshakeEnds
