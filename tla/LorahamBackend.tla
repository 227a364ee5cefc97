---------------------------- MODULE LorahamBackend ----------------------------
(***************************************************************************)
(* The LoRaHAM backend of the bridge: the state machine that owns the      *)
(* link to the LoRaHAM daemon (loraham_backend.cpp), the two Unix sockets  *)
(* it drives (loraham_posix_transport.cpp) and, as its environment, the    *)
(* daemon at the other end of them.                                        *)
(*                                                                         *)
(* The bridge is one thread.  A call of the backend's interface is one     *)
(* action; poll() is a sequence of actions, one per line or frame that it  *)
(* reads, and pc says where in poll() the thread is.  Interface calls      *)
(* happen at pc = "idle" only; the daemon and the clock run at any time.   *)
(* The parameter event of every action of poll() is the callback it makes  *)
(* (NoEvent: none), so that a module that composes the backend with a      *)
(* session can make the session's step a part of it.                       *)
(*                                                                         *)
(* Deadlines are count-down timers: now >= deadline is timer = 0.          *)
(*                                                                         *)
(* A definition whose comment begins with "Mutant" is the next one with a  *)
(* mistake in it; the properties are shown to fail with it.                *)
(***************************************************************************)
EXTENDS Integers, Sequences

CONSTANTS
    MaxTx,          \* bound on the number of frames submitted
    MaxIn,          \* bound on what the daemon leaves unread on a socket
    NSets,          \* SET commands of one configuration (four in the code)
    TxChunks,       \* partial writes one TX frame may need
    ConfigTimeout,  \* config_timeout_ms_, in ticks
    DrainTimeout,   \* drain_timeout_ms_, in ticks
    U32,            \* modulus of the uint32_t counters
    Statuses,       \* TX_RESULT status codes this daemon uses
    Unsolicited     \* what this daemon may send unasked

States == {"Disconnected", "Connecting", "Configuring", "Ready",
           "TxWriting", "TxPending", "Draining", "Faulted"}
Operational == {"Ready", "TxWriting", "TxPending"}

TxStatus == {"OK", "BUSY", "CHANNEL_BUSY", "RADIO_NOT_READY", "RADIO_ERROR",
             "INVALID_PACKET", "INVALID_BAND"}
Outcomes == {"Success", "ChannelBusy", "RadioError"}
ConfLines == {"OK", "ERR", "READY", "NOTREADY", "BROADCAST", "OTHER"}
DataTypes == {"RX", "UNDECODABLE", "GARBAGE"}

ASSUME BoundsAssumption ==
    /\ MaxTx \in Nat /\ MaxIn \in Nat /\ NSets \in Nat
    /\ TxChunks \in Nat \ {0}
    /\ ConfigTimeout \in Nat /\ DrainTimeout \in Nat
    /\ U32 \in Nat \ {0}
ASSUME DaemonAssumption ==
    /\ Statuses \subseteq TxStatus
    /\ Unsolicited \subseteq DataTypes \cup {"BROADCAST", "OTHER"}

VARIABLES
    state,          \* state_
    pc,             \* where poll() is: idle, conf, write or data
    attached,       \* sink_ is set and started_ is true: a connection exists
    config_token,   \* config_token_ (next_token_ always equals it)
    confLeft,       \* command lines of conf_out_ not yet written
    cfgTimer,       \* config_deadline_at_ - now
    drainTimer,     \* drain_deadline_at_ - now
    txOut,          \* the frame held in tx_out_; 0 when it is empty
    txLeft,         \* chunks of tx_out_ not yet written
    epoch_current,  \* pending_epoch_ == tx_epoch_
    dataSock, confSock,  \* the two sockets: closed, connecting, open, lost
    confIn, dataIn,      \* lines and frames on their way to the bridge
    confDone,       \* command lines the daemon has processed on this link
    rejected,       \* the daemon rejected a SET on this link
    slot,           \* frames the daemon received on this link
    fate,           \* of each frame: unsent, held by the daemon, ok, failed
    lastTx,         \* frames submitted so far; names the newest one
    rflog,          \* RF log lines written for each frame
    delivered       \* on_tx_complete() calls made for each frame

ctl == <<state, pc, attached>>
config == <<config_token, confLeft, cfgTimer>>
tx == <<txOut, txLeft, epoch_current, drainTimer>>
link == <<dataSock, confSock, confIn, dataIn, confDone, rejected, slot>>
hist == <<fate, lastTx, rflog, delivered>>
vars == <<ctl, config, tx, link, hist>>

TxIds == 1 .. MaxTx
Cmds == NSets + 1   \* the SET lines and GET STATUS

Fates == {"unsent", "held", "ok", "failed"}
Sockets == {"closed", "connecting", "open", "lost"}
DataFrames == [type : DataTypes \cup {"TX_RESULT", "ERROR"},
               tx : TxIds \cup {0}, status : TxStatus \cup {""}]

(* The callbacks of BackendSink. *)
Event(cb, token, arg) == [cb |-> cb, token |-> token, arg |-> arg]
NoEvent == Event("none", 0, "")
OnRx == Event("rx", 0, "")
OnTxComplete(outcome) == Event("tx_complete", 0, outcome)
OnFailure == Event("backend_failure", 0, "")
OnConfigured(token, applied) == Event("configure_complete", token, applied)
Events ==
    {NoEvent, OnRx, OnFailure} \cup {OnTxComplete(outcome) : outcome \in Outcomes}
        \cup {OnConfigured(token, result) : token \in 0 .. U32 - 1,
                                            result \in {"applied", "failed"}}

(* A callback is made only if a sink is set. *)
ToSink(event) == IF attached THEN event ELSE NoEvent

Init ==
    /\ state = "Disconnected" /\ pc = "idle" /\ attached = FALSE
    /\ config_token = 0 /\ confLeft = 0 /\ cfgTimer = 0
    /\ txOut = 0 /\ txLeft = 0 /\ epoch_current = TRUE
    /\ drainTimer = 0
    /\ dataSock = "closed" /\ confSock = "closed"
    /\ confIn = <<>> /\ dataIn = <<>>
    /\ confDone = 0 /\ rejected = FALSE /\ slot = {}
    /\ fate = [t \in TxIds |-> "unsent"] /\ lastTx = 0
    /\ rflog = [t \in TxIds |-> <<>>] /\ delivered = [t \in TxIds |-> <<>>]
-------------------------------------------------------------------------------
(* Leaving the link. *)

(* A link in the given socket states: nothing sent on it yet. *)
FreshLink(data, conf) ==
    /\ dataSock' = data /\ confSock' = conf
    /\ confIn' = <<>> /\ dataIn' = <<>>
    /\ confDone' = 0 /\ rejected' = FALSE /\ slot' = {}

(* PosixDaemonTransport::close. *)
TransportClose == FreshLink("closed", "closed")

(* What enter_fault and reset_link_unconfigured have in common. *)
DropLink(next) ==
    /\ TransportClose
    /\ state' = next /\ pc' = "idle"
    /\ confLeft' = 0 /\ txOut' = 0 /\ txLeft' = 0
    /\ UNCHANGED <<attached, config_token, cfgTimer>>

(* Mutant: the frame buffer is not cleared. *)
ResetKeepsFrame ==
    /\ TransportClose
    /\ state' = "Disconnected" /\ pc' = "idle" /\ confLeft' = 0
    /\ UNCHANGED <<attached, config_token, cfgTimer, txOut, txLeft>>

reset_link_unconfigured == DropLink("Disconnected")

(* log_tx_outcome: the RF log with one more line for the held frame. *)
log_tx_outcome(outcome) ==
    IF txOut = 0 THEN rflog ELSE [rflog EXCEPT ![txOut] = Append(@, outcome)]

(* Mutant: the frame given up is not logged. *)
EnterFaultUnlogged == DropLink("Faulted") /\ UNCHANGED rflog

enter_fault ==
    /\ rflog' = log_tx_outcome("unconfirmed")
    /\ DropLink("Faulted")

handle_disconnect(event) ==
    /\ \/ /\ state \in {"Draining", "TxPending"}
          /\ enter_fault
          /\ event = IF state = "TxPending" THEN ToSink(OnFailure) ELSE NoEvent
       \/ /\ state \notin {"Draining", "TxPending"}
          /\ reset_link_unconfigured
          /\ event = ToSink(OnFailure)
          /\ UNCHANGED rflog
    /\ UNCHANGED <<epoch_current, drainTimer, fate, lastTx, delivered>>

config_fail(event) ==
    /\ reset_link_unconfigured
    /\ event = ToSink(OnConfigured(config_token, "failed"))
    /\ UNCHANGED <<epoch_current, drainTimer, hist>>
-------------------------------------------------------------------------------
(* Calls of the bridge, between two polls. *)

(* XrConnection's constructor: set_sink(&session) and start(). *)
Attach ==
    /\ pc = "idle" /\ ~attached
    /\ attached' = TRUE
    /\ UNCHANGED <<state, pc, config, tx, link, hist>>

(* Mutant: the fault state counts as idle. *)
IdleOrFaulted == state \in {"Disconnected", "Ready", "Faulted"}

(* begin_configure; token = 0 is a refusal. *)
MayConfigure == state \in {"Disconnected", "Ready"}

ConfigureRefused ==   \* not idle, or validate_config rejects the request
    UNCHANGED vars

ConnectRefused ==     \* begin_connect fails, after it closed the old link
    /\ MayConfigure
    /\ TransportClose
    /\ UNCHANGED <<ctl, config, tx, hist>>

ConfigureStarted(token) ==
    /\ MayConfigure
    /\ \E data, conf \in {"connecting", "open"} : FreshLink(data, conf)
    /\ state' = "Connecting"
    /\ config_token' = (config_token + 1) % U32
    /\ token = config_token'
    /\ confLeft' = Cmds
    /\ cfgTimer' = ConfigTimeout
    /\ UNCHANGED <<pc, attached, tx, hist>>

BeginConfigure(token) ==
    /\ pc = "idle" /\ attached
    /\ \/ token = 0 /\ ConfigureRefused
       \/ token = 0 /\ ConnectRefused
       \/ ConfigureStarted(token)

(* Mutant: tx_off_ may pass the end of the frame. *)
PumpPastEnd(id, left) ==
    \E n \in -1 .. left :
        /\ txLeft' = n
        /\ state' = IF n <= 0 THEN "TxPending" ELSE "TxWriting"
        /\ fate' = IF n <= 0 THEN [fate EXCEPT ![id] = "held"] ELSE fate
        /\ slot' = IF n <= 0 THEN slot \cup {id} ELSE slot

(* One run of pump_tx_write over the frame id: some of the left chunks are *)
(* written, and with the last one the daemon owns the frame.               *)
pump_tx_write(id, left) ==
    \E n \in 0 .. left :
        /\ txLeft' = n
        /\ state' = IF n = 0 THEN "TxPending" ELSE "TxWriting"
        /\ fate' = IF n = 0 THEN [fate EXCEPT ![id] = "held"] ELSE fate
        /\ slot' = IF n = 0 THEN slot \cup {id} ELSE slot

(* submit_tx; validLen is 0 < len <= kMaxRfPayload. *)
SubmitRefused(validLen) ==
    /\ state # "Ready" \/ ~validLen
    /\ UNCHANGED vars

(* Mutant: pending_epoch_ is left behind. *)
SkipEpoch == UNCHANGED epoch_current

(* pending_epoch_ = ++tx_epoch_ *)
NewEpoch == epoch_current' = TRUE

SubmitAttempt(ok) ==
    /\ state = "Ready" /\ lastTx < MaxTx
    /\ lastTx' = lastTx + 1
    /\ NewEpoch
    /\ \/ /\ dataSock = "open" /\ ok
          /\ txOut' = lastTx'
          /\ pump_tx_write(lastTx', TxChunks)
          /\ UNCHANGED <<pc, attached, config, dataSock, confSock, confIn,
                         dataIn, confDone, rejected>>
       \/ /\ dataSock # "open" /\ ~ok
          /\ reset_link_unconfigured
          /\ UNCHANGED fate
    /\ UNCHANGED <<drainTimer, rflog, delivered>>

SubmitTx(validLen, ok) ==
    /\ pc = "idle" /\ attached
    /\ \/ ~ok /\ SubmitRefused(validLen)
       \/ validLen /\ SubmitAttempt(ok)

(* Mutant: a TX given up after its deadline counts as finished. *)
AbandonReleases ==
    /\ state = "TxPending"
    /\ state' = "Ready" /\ txOut' = 0 /\ txLeft' = 0
    /\ UNCHANGED <<pc, config, epoch_current, drainTimer, link>>

(* abandon_pending_tx, from the session's TX deadline. *)
StartDraining ==
    /\ state = "TxPending"
    /\ state' = "Draining"
    /\ drainTimer' = DrainTimeout
    /\ UNCHANGED <<pc, config, txOut, txLeft, epoch_current, link>>

AbandonPendingTx ==
    /\ pc = "idle" /\ attached
    /\ \/ StartDraining /\ UNCHANGED attached
       \/ /\ state = "TxWriting"
          /\ reset_link_unconfigured
          /\ UNCHANGED <<epoch_current, drainTimer>>
       \/ state \notin {"TxPending", "TxWriting"} /\ UNCHANGED <<ctl, config, tx, link>>
    /\ UNCHANGED hist

(* Mutant: stop() closes a draining backend too. *)
StopEndsDrain ==
    /\ pc = "idle" /\ attached
    /\ attached' = FALSE
    /\ \/ StartDraining
       \/ state = "Faulted" /\ UNCHANGED <<state, pc, config, tx, link>>
       \/ /\ state \notin {"TxPending", "Faulted"}
          /\ TransportClose
          /\ state' = "Disconnected"
          /\ confLeft' = 0 /\ txOut' = 0 /\ txLeft' = 0
          /\ UNCHANGED <<pc, config_token, cfgTimer, epoch_current,
                         drainTimer>>
    /\ UNCHANGED hist

(* XrConnection's destructor: abandon_pending_tx(), set_sink(nullptr) and  *)
(* stop().  stop() keeps a draining or faulted backend, closes any other.  *)
Detach ==
    /\ pc = "idle" /\ attached
    /\ attached' = FALSE
    /\ \/ StartDraining
       \/ /\ state \in {"Draining", "Faulted"}
          /\ UNCHANGED <<state, pc, config, tx, link>>
       \/ /\ state \notin {"TxPending", "Draining", "Faulted"}
          /\ TransportClose
          /\ state' = "Disconnected"
          /\ confLeft' = 0 /\ txOut' = 0 /\ txLeft' = 0
          /\ UNCHANGED <<pc, config_token, cfgTimer, epoch_current,
                         drainTimer>>
    /\ UNCHANGED hist
-------------------------------------------------------------------------------
(* poll(), in the state it finds.  Disconnected and Faulted: nothing. *)

(* Mutant: the configuration deadline is for the connect only. *)
ConnectExpired == cfgTimer = 0 /\ state = "Connecting"

(* now >= config_deadline_at_ and now >= drain_deadline_at_. *)
ConfigExpired == cfgTimer = 0
DrainExpired == drainTimer = 0

(* check_one: what a connect in progress may have become. *)
check_one(sock) ==
    IF sock = "connecting" THEN {"connecting", "open", "failed"} ELSE {sock}

(* advance_configure, on sockets found in the states data and conf: write  *)
(* command lines; once all are written, read the replies.                  *)
advance_configure(data, conf, event) ==
    \/ /\ confLeft > 0 /\ conf = "lost"
       /\ config_fail(event)
    \/ /\ confLeft = 0 \/ conf = "open"
       /\ state' = "Configuring"
       /\ dataSock' = data /\ confSock' = conf
       /\ confLeft' \in 0 .. confLeft
       /\ pc' = IF confLeft' = 0 THEN "conf" ELSE "idle"
       /\ event = NoEvent
       /\ UNCHANGED <<attached, config_token, cfgTimer, tx, confIn, dataIn,
                      confDone, rejected, slot, hist>>

advance_connect(event) ==
    \E data \in check_one(dataSock), conf \in check_one(confSock) :
        \/ /\ "failed" \in {data, conf}
           /\ config_fail(event)
        \/ /\ "connecting" \in {data, conf} /\ "failed" \notin {data, conf}
           /\ dataSock' = data /\ confSock' = conf
           /\ event = NoEvent
           /\ UNCHANGED <<ctl, config, tx, confIn, dataIn, confDone, rejected,
                          slot, hist>>
        \/ /\ {data, conf} \cap {"connecting", "failed"} = {}
           /\ advance_configure(data, conf, event)

PollConnecting(event) ==
    /\ pc = "idle" /\ state = "Connecting"
    /\ IF ConfigExpired THEN config_fail(event) ELSE advance_connect(event)

PollConfiguring(event) ==
    /\ pc = "idle" /\ state = "Configuring"
    /\ IF ConfigExpired THEN config_fail(event)
                        ELSE advance_configure(dataSock, confSock, event)

(* advance_operational starts with CONF. *)
PollOperational(event) ==
    /\ pc = "idle" /\ state \in Operational
    /\ pc' = "conf"
    /\ event = NoEvent
    /\ UNCHANGED <<state, attached, config, tx, link, hist>>

(* advance_drain: the deadline comes before anything that could be read.   *)
(* CONF input is discarded, then DATA is read.                             *)
PollDraining(event) ==
    /\ pc = "idle" /\ state = "Draining"
    /\ \/ /\ DrainExpired
          /\ enter_fault
          /\ UNCHANGED <<epoch_current, drainTimer, fate, lastTx,
                         delivered>>
       \/ /\ ~DrainExpired
          /\ pc' = "data"
          /\ confIn' = <<>>
          /\ UNCHANGED <<state, attached, config, tx, dataSock, confSock, dataIn,
                         confDone, rejected, slot, hist>>
    /\ event = NoEvent

config_succeed(event) ==
    /\ state' = "Ready" /\ pc' = "idle"
    /\ epoch_current' = FALSE    \* ++tx_epoch_
    /\ confLeft' = 0
    /\ event = ToSink(OnConfigured(config_token, "applied"))
    /\ confIn' = Tail(confIn)
    /\ UNCHANGED <<attached, config_token, cfgTimer, txOut, txLeft,
                   drainTimer, dataSock, confSock, dataIn,
                   confDone, rejected, slot, hist>>

(* pump_conf fails: config_fail or handle_disconnect, after who called it. *)
ConfFails(event) ==
    IF state = "Configuring" THEN config_fail(event) ELSE handle_disconnect(event)

(* Mutant: a rejected SET is skipped as well. *)
ToleratedWithErr == {"BROADCAST", "OK", "ERR"}

(* The lines pump_conf skips: while a status is awaited, also SET's OK. *)
Tolerated == IF state = "Configuring" THEN {"BROADCAST", "OK"} ELSE {"BROADCAST"}

(* pump_conf takes one line. *)
ConfLine(event) ==
    /\ pc = "conf" /\ confIn # <<>>
    /\ LET line == Head(confIn) IN
       \/ /\ line \in Tolerated
          /\ confIn' = Tail(confIn)
          /\ event = NoEvent
          /\ UNCHANGED <<ctl, config, tx, dataSock, confSock, dataIn, confDone,
                         rejected, slot, hist>>
       \/ /\ line = "READY" /\ state = "Configuring"
          /\ config_succeed(event)
       \/ /\ line \notin Tolerated
          /\ ~(line = "READY" /\ state = "Configuring")
          /\ ConfFails(event)

(* pump_conf finds nothing more for now: bytes may still be on their way. *)
ConfStop(event) ==
    /\ pc = "conf"
    /\ confSock = "open" \/ confIn # <<>>
    /\ pc' = IF state = "Configuring" THEN "idle" ELSE "write"
    /\ event = NoEvent
    /\ UNCHANGED <<state, attached, config, tx, link, hist>>

(* pump_conf finds the socket closed by the daemon, or no socket. *)
ConfClosed(event) ==
    /\ pc = "conf" /\ confIn = <<>> /\ confSock # "open"
    /\ ConfFails(event)

(* advance_operational resumes the write of a bridge-owned frame. *)
ResumeWrite(event) ==
    /\ pc = "write"
    /\ \/ /\ state = "TxWriting" /\ dataSock = "open"
          /\ pump_tx_write(txOut, txLeft)
          /\ pc' = "data"
          /\ event = NoEvent
          /\ UNCHANGED <<attached, config, txOut, epoch_current,
                         drainTimer, dataSock, confSock, confIn, dataIn,
                         confDone, rejected, lastTx, rflog, delivered>>
       \/ /\ state = "TxWriting" /\ dataSock # "open"
          /\ reset_link_unconfigured
          /\ event = ToSink(OnFailure)
          /\ UNCHANGED <<epoch_current, drainTimer, hist>>
       \/ /\ state # "TxWriting"
          /\ pc' = "data"
          /\ event = NoEvent
          /\ UNCHANGED <<state, attached, config, tx, link, hist>>
-------------------------------------------------------------------------------
(* poll() reads DATA, in advance_operational and in advance_drain. *)

(* parser_pop hands the frame over and the loop goes on. *)
PopFrame ==
    /\ dataIn' = Tail(dataIn)
    /\ UNCHANGED <<pc, attached, dataSock, confSock, confIn, confDone, rejected,
                   slot>>

(* Mutant: a busy channel is a success. *)
BusyIsSuccess(status) ==
    IF status \in {"OK", "CHANNEL_BUSY"} THEN "Success" ELSE "RadioError"

map_tx_status(status) ==
    CASE status = "OK"           -> "Success"
      [] status = "CHANNEL_BUSY" -> "ChannelBusy"
      [] OTHER                   -> "RadioError"

(* dispatch of RX_PACKET, or of a frame that does not decode. *)
DispatchRx(frame, event) ==
    /\ event = IF frame.type = "RX" /\ state \in Operational THEN ToSink(OnRx)
                                                              ELSE NoEvent
    /\ PopFrame
    /\ UNCHANGED <<state, config, tx, hist>>

(* dispatch of TX_RESULT or ERROR: the answer to the frame in tx_out_, in  *)
(* the two states that wait for one; ignored in any other.                 *)
OutcomeOf(frame) ==
    IF frame.type = "ERROR" THEN "RadioError" ELSE map_tx_status(frame.status)

DispatchResult(frame, event) ==
    /\ rflog' = IF frame.type = "TX_RESULT" /\ frame.status = "OK"
                    /\ state \in {"TxPending", "Draining"}
                THEN log_tx_outcome("ok") ELSE rflog
    /\ \/ /\ state = "TxPending"
          /\ state' = "Ready" /\ txOut' = 0 /\ txLeft' = 0
          /\ LET tell == attached /\ epoch_current IN
             /\ event = IF tell THEN OnTxComplete(OutcomeOf(frame)) ELSE NoEvent
             /\ delivered' = IF tell
                    THEN [delivered EXCEPT ![txOut] = Append(@, OutcomeOf(frame))]
                    ELSE delivered
          /\ PopFrame
          /\ UNCHANGED config
       \/ /\ state = "Draining"    \* resolve_drain
          /\ reset_link_unconfigured
          /\ event = NoEvent
          /\ UNCHANGED delivered
       \/ /\ state \notin {"TxPending", "Draining"}
          /\ PopFrame
          /\ event = NoEvent
          /\ UNCHANGED <<state, config, txOut, txLeft, delivered>>
    /\ UNCHANGED <<epoch_current, drainTimer, fate, lastTx>>

(* One turn of the read loop: a frame, or bytes that are no legal frame. *)
DataFrame(event) ==
    /\ pc = "data" /\ dataIn # <<>>
    /\ LET frame == Head(dataIn) IN
       \/ frame.type \in {"RX", "UNDECODABLE"} /\ DispatchRx(frame, event)
       \/ frame.type \in {"TX_RESULT", "ERROR"} /\ DispatchResult(frame, event)
       \/ frame.type = "GARBAGE" /\ handle_disconnect(event)

(* The loop stops: nothing to read for now, or a short read. *)
DataStop(event) ==
    /\ pc = "data"
    /\ dataSock = "open" \/ dataIn # <<>>
    /\ pc' = "idle"
    /\ event = NoEvent
    /\ UNCHANGED <<state, attached, config, tx, link, hist>>

DataClosed(event) ==
    /\ pc = "data" /\ dataIn = <<>> /\ dataSock # "open"
    /\ handle_disconnect(event)

PollStep(event) ==
    \/ PollConnecting(event) \/ PollConfiguring(event) \/ PollOperational(event)
    \/ PollDraining(event)
    \/ ConfLine(event) \/ ConfStop(event) \/ ConfClosed(event)
    \/ ResumeWrite(event)
    \/ DataFrame(event) \/ DataStop(event) \/ DataClosed(event)
-------------------------------------------------------------------------------
(* The environment: the clock and the daemon. *)

Tick ==
    /\ cfgTimer' = IF cfgTimer > 0 THEN cfgTimer - 1 ELSE 0
    /\ drainTimer' = IF drainTimer > 0 THEN drainTimer - 1 ELSE 0
    /\ UNCHANGED <<ctl, config_token, confLeft, txOut, txLeft, epoch_current, link, hist>>

SendConf(line) ==
    /\ confSock = "open" /\ Len(confIn) < MaxIn
    /\ confIn' = Append(confIn, line)

SendData(frame) ==
    /\ dataSock = "open" /\ Len(dataIn) < MaxIn
    /\ dataIn' = Append(dataIn, frame)

(* The daemon processes the next command line it was sent.  It says OK to  *)
(* a SET it accepts (v111 says nothing) and ERR to one it rejects.         *)
DaemonConf ==
    /\ confDone < Cmds - confLeft
    /\ confDone' = confDone + 1
    /\ \/ confDone < NSets /\ SendConf("OK") /\ UNCHANGED rejected
       \/ confDone < NSets /\ confSock = "open" /\ UNCHANGED <<confIn, rejected>>
       \/ confDone < NSets /\ SendConf("ERR") /\ rejected' = TRUE
       \/ /\ confDone = NSets
          /\ \E line \in {"READY", "NOTREADY"} : SendConf(line)
          /\ UNCHANGED rejected
    /\ UNCHANGED <<ctl, config, tx, dataSock, confSock, dataIn, slot, hist>>

(* The answers to a frame: ERROR, or TX_RESULT with a status. *)
ResultFrame(id, answer) ==
    IF answer = "ERROR" THEN [type |-> "ERROR", tx |-> id, status |-> ""]
    ELSE [type |-> "TX_RESULT", tx |-> id, status |-> answer]

(* The daemon finishes with a frame: it was transmitted (OK), or never will *)
(* be.  It answers on the link the frame came from, if that still stands;  *)
(* a lost link does not cancel the frame.                                  *)
DaemonResolve(id, answer) ==
    /\ fate[id] = "held"
    /\ fate' = [fate EXCEPT ![id] = IF answer = "OK" THEN "ok" ELSE "failed"]
    /\ IF id \in slot /\ dataSock = "open"
       THEN SendData(ResultFrame(id, answer)) ELSE UNCHANGED dataIn
    /\ UNCHANGED <<ctl, config, tx, dataSock, confSock, confIn, confDone,
                   rejected, slot, lastTx, rflog, delivered>>

DaemonUnsolicited(what) ==
    /\ \/ what \in DataTypes
          /\ SendData([type |-> what, tx |-> 0, status |-> ""])
          /\ UNCHANGED confIn
       \/ what \notin DataTypes /\ SendConf(what) /\ UNCHANGED dataIn
    /\ UNCHANGED <<ctl, config, tx, dataSock, confSock, confDone, rejected, slot,
                   hist>>

(* The daemon closes a connection, or dies. *)
LoseLink ==
    /\ \/ dataSock = "open" /\ dataSock' = "lost" /\ UNCHANGED confSock
       \/ confSock = "open" /\ confSock' = "lost" /\ UNCHANGED dataSock
    /\ UNCHANGED <<ctl, config, tx, confIn, dataIn, confDone, rejected, slot, hist>>

Daemon ==
    \/ DaemonConf \/ LoseLink
    \/ \E id \in TxIds, answer \in Statuses \cup {"ERROR"} : DaemonResolve(id, answer)
    \/ \E what \in Unsolicited : DaemonUnsolicited(what)

(* The bridge as seen from the backend: any legal sequence of calls. *)
Caller ==
    \/ Attach \/ AbandonPendingTx \/ Detach
    \/ \E token \in 0 .. U32 - 1 : BeginConfigure(token)
    \/ \E validLen, ok \in BOOLEAN : SubmitTx(validLen, ok)

Poll == \E event \in Events : PollStep(event)
Next == Caller \/ Tick \/ Daemon \/ Poll
Spec == Init /\ [][Next]_vars
-------------------------------------------------------------------------------
(* Properties. *)

Flags == attached \in BOOLEAN /\ epoch_current \in BOOLEAN /\ rejected \in BOOLEAN
Typed ==
    /\ state \in States /\ pc \in {"idle", "conf", "write", "data"}
    /\ config_token \in 0 .. U32 - 1
    /\ confLeft \in 0 .. Cmds /\ confDone \in 0 .. Cmds
    /\ cfgTimer \in 0 .. ConfigTimeout /\ drainTimer \in 0 .. DrainTimeout
    /\ lastTx \in 0 .. MaxTx /\ txOut \in 0 .. lastTx
    /\ txLeft \in 0 .. TxChunks
    /\ dataSock \in Sockets /\ confSock \in Sockets
    /\ confIn \in Seq(ConfLines) /\ dataIn \in Seq(DataFrames)
    /\ slot \subseteq TxIds \cup {0}
    /\ fate \in [TxIds -> Fates]
    /\ rflog \in [TxIds -> Seq({"ok", "unconfirmed"})]
    /\ delivered \in [TxIds -> Seq(Outcomes)]

(* Every variable of the backend, its link and the daemon has its type. *)
TypeOK == Flags /\ Typed

(* The TX ownership boundary: a frame the daemon still holds, and so may    *)
(* still transmit, is the one the backend is waiting on or draining, or the *)
(* backend is faulted.  It is never forgotten in a state from which the     *)
(* bridge could transmit again.                                             *)
OwnershipTracked ==
    \A id \in TxIds : fate[id] = "held" =>
        \/ state = "Faulted"
        \/ id = txOut /\ state \in {"TxPending", "Draining"}

(* submit_tx takes no new frame while the daemon may still transmit an      *)
(* earlier one, and a faulted backend takes none at all.                    *)
NoSecondTx ==
    [][lastTx' # lastTx =>
        state # "Faulted" /\ \A id \in TxIds : fate[id] # "held"]_vars

(* Faulted is left by a restart of the process only. *)
FaultedForGood == [][state = "Faulted" => state' = "Faulted"]_vars

(* What submit_tx answers for, on_tx_complete reports: at most one result   *)
(* per frame, Success only for a frame the daemon transmitted, and a        *)
(* failure only for one it will never transmit.                             *)
NoForgedResult ==
    \A id \in TxIds :
        /\ Len(delivered[id]) <= 1
        /\ \A i \in 1 .. Len(delivered[id]) :
              fate[id] = IF delivered[id][i] = "Success" THEN "ok" ELSE "failed"

(* The RF log is honest: at most one line per frame, "ok" only for a frame  *)
(* that was transmitted, and once the backend has let go of a frame that    *)
(* was or may yet be transmitted, the log has a line for it.                *)
RfLogHonest ==
    \A id \in TxIds :
        /\ Len(rflog[id]) <= 1
        /\ rflog[id] = <<"ok">> => fate[id] = "ok"
        /\ fate[id] \in {"held", "ok"} /\ id # txOut => rflog[id] # <<>>

(* The backend is operational only on a link on which the daemon processed  *)
(* every configuration command and rejected none.                           *)
ReadyMeansApplied ==
    state \in Operational \cup {"Draining"} /\ dataSock # "closed" =>
        confDone = Cmds /\ ~rejected

(* The epoch test in dispatch never suppresses the result of the frame in   *)
(* flight: no reconfiguration happens between its submit and its result.    *)
EpochCurrent == state \in {"TxWriting", "TxPending"} => epoch_current

(* Every configuration ends, whatever the daemon does or fails to do. *)
ConfigEnds == state \in {"Connecting", "Configuring"} ~>
              state \notin {"Connecting", "Configuring"}

(* Every drain ends, in a proof of clearance or in the fault state. *)
DrainEnds == state = "Draining" ~> state \in {"Disconnected", "Faulted"}
-------------------------------------------------------------------------------
(* The backend implements TxOwnership. *)
Owner ==
    CASE state = "TxWriting"                 -> "bridge"
      [] state \in {"TxPending", "Draining"} -> "daemon"
      [] state = "Faulted"                   -> "unknown"
      [] OTHER                               -> "nobody"
InDaemon == {id \in TxIds : fate[id] = "held"}

O == INSTANCE TxOwnership
        WITH Frames <- TxIds, NoFrame <- 0, owner <- Owner, frame <- txOut,
             inDaemon <- InDaemon

(* Every step of the backend, of its callers and of the daemon is a step of *)
(* the ownership protocol, or leaves it alone.                              *)
OwnershipProtocol == O!OwnershipSpec
-------------------------------------------------------------------------------
(* The inductive invariant behind the safety properties above. *)

IsResult(frame) == frame.type \in {"TX_RESULT", "ERROR"}
FateOf(frame) ==
    IF frame.type = "TX_RESULT" /\ frame.status = "OK" THEN "ok" ELSE "failed"

(* The link exists in the states that use it, and poll() is where it may be. *)
LinkInv ==
    /\ state \in {"Disconnected", "Faulted"} => pc = "idle" /\ dataSock = "closed"
    /\ dataSock \in {"closed", "connecting"} => dataIn = <<>>
    /\ pc = "conf" => state \in Operational \cup {"Configuring"}
    /\ pc = "write" => state \in Operational
    /\ pc = "data" => state \in Operational \cup {"Draining"}

(* tx_out_ holds a frame exactly while one is being sent; that frame has no *)
(* log line and no result yet, and the frames after it have no history.     *)
FrameInv ==
    /\ txOut # 0 <=> state \in {"TxWriting", "TxPending", "Draining"}
    /\ state = "TxWriting" => fate[txOut] = "unsent"
    /\ state \in {"TxPending", "Draining"} => fate[txOut] # "unsent"
    /\ txOut # 0 => rflog[txOut] = <<>> /\ delivered[txOut] = <<>>
    /\ \A id \in TxIds : id > lastTx =>
          fate[id] = "unsent" /\ rflog[id] = <<>> /\ delivered[id] = <<>>

(* A result on its way is the only one, it is about the frame the backend   *)
(* is waiting on, and it says what became of that frame.                    *)
ResultInv ==
    /\ \A i \in 1 .. Len(dataIn) : IsResult(dataIn[i]) =>
          /\ state \in {"TxPending", "Draining"}
          /\ dataIn[i].tx = txOut
          /\ fate[txOut] = FateOf(dataIn[i])
    /\ \A i, j \in 1 .. Len(dataIn) :
          IsResult(dataIn[i]) /\ IsResult(dataIn[j]) => i = j

(* Every frame the daemon holds is accounted for, every reported outcome    *)
(* and every log line is true.                                              *)
Accounting ==
    /\ TypeOK /\ LinkInv /\ FrameInv /\ ResultInv
    /\ OwnershipTracked /\ NoForgedResult /\ RfLogHonest /\ EpochCurrent
===============================================================================
