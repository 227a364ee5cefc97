----------------------------- MODULE ConfChannel -----------------------------
(***************************************************************************)
(* The CONF connection of the LoRaHAM backend below the level of lines:    *)
(* begin_configure() queues five commands, advance_configure() writes them *)
(* in pieces of any size, and pump_conf() puts the daemon's lines together *)
(* again from reads of any size (loraham_backend.cpp).  LorahamBackend     *)
(* takes commands and lines as wholes; LineLevel below shows it may.       *)
(*                                                                         *)
(* A line is a sequence of cells, pieces no read or write divides, and the *)
(* newline is in its last cell.  ReadChunk and MaxConfLine are in cells    *)
(* and keep the code's proportion of 512 to 1024 bytes.  Connecting, the   *)
(* TX side and the loss of a client are LorahamBackend's.  Mutants are as  *)
(* in LorahamBackend.                                                      *)
(***************************************************************************)
EXTENDS ConfPolicy, Sequences

CONSTANTS
    ReadChunk,      \* kReadChunk
    MaxConfLine,    \* kMaxConfLine
    Width,          \* the cells of a line of each kind
    Requests,       \* the configurations the client may ask for
    Unasked,        \* kinds of line the daemon may send unasked
    MaxUnasked,     \* bound on the number of those
    MaxConfigs      \* bound on the configurations started

Broadcasts == {"BROADCAST", "EMPTY"}   \* EMPTY: nothing left after the trim
Kinds == {"OK", "ERR", "READY", "NOTREADY", "OTHER", "LONG"} \cup Broadcasts

ASSUME WidthAssumption ==
    /\ ReadChunk \in Nat \ {0} /\ MaxConfLine = 2 * ReadChunk
    /\ Width \in [Kinds -> Nat \ {0}]
    /\ \A kind \in Kinds \ {"LONG"} : Width[kind] <= ReadChunk + 1
    /\ Width["LONG"] > MaxConfLine

(* The daemon says READY only in answer to GET STATUS. *)
ASSUME DaemonAssumption == Unasked \subseteq Kinds \ {"READY"}

VARIABLES
    state,          \* state_: Disconnected, Configuring or Ready
    requested,      \* pending_cfg_
    conf_out,       \* the cells of conf_out_ behind conf_out_off_
    conf_line,      \* conf_line_
    pc,             \* where pump_conf() is: idle, recv or lines
    full,           \* the last read filled rbuf_
    toDaemon, toBridge,  \* cells on their way
    open,           \* the connection stands
    stale,          \* SETs of the radio left unread on connections closed before
    applied,        \* the SETs of this connection that the daemon has applied
    radio,          \* the configuration the daemon last set the radio to
    overtaken,      \* it came from a connection that had been closed
    causes,         \* what the environment did that ends this connection
    unasked, configs  \* counters for the bounds

buffers == <<conf_line, pc, full>>
settings == <<applied, radio, overtaken>>
daemon == <<stale, settings, unasked>>
vars == <<state, requested, conf_out, buffers, toDaemon, toBridge, open, daemon,
          causes, configs>>

Cell(of, i, last) == [of |-> of, i |-> i, last |-> last]
Cells(kind) == [i \in 1 .. Width[kind] |-> Cell(kind, i, i = Width[kind])]

(* The first line of a stream of cells: its length, 0 if it is not complete. *)
LineLen(cells) ==
    LET ends == {i \in 1 .. Len(cells) : cells[i].last} IN
    IF ends = {} THEN 0 ELSE CHOOSE i \in ends : \A j \in ends : i <= j
Front(cells, n) == SubSeq(cells, 1, n)
Behind(cells, n) == SubSeq(cells, n + 1, Len(cells))

(* What pump_conf takes a line for. *)
KindOf(line) ==
    IF \E kind \in Kinds : line = Cells(kind)
    THEN CHOOSE kind \in Kinds : line = Cells(kind) ELSE "OTHER"

(* Mutant: the status is asked for before the radio is set. *)
StatusFirst == <<"TXMODE", "TXQUEUE", "TXRESULT", "STATUS", "RADIO">>

(* The commands of begin_configure, each of two cells. *)
Commands == <<"TXMODE", "TXQUEUE", "TXRESULT", "RADIO", "STATUS">>
CommandCells ==
    [i \in 1 .. 2 * Len(Commands) |->
        Cell(Commands[(i + 1) \div 2], 2 - (i % 2), i % 2 = 0)]

(* A valid configuration: 433.175 MHz, SF 11, 250 kHz, CR 4/6. *)
Base == [freq_hz |-> 433175000, bw_hz |-> 250000, sf |-> 11, cr_denom |-> 6,
         sync_word |-> 43, preamble |-> 32, tx_power_dbm |-> 14, crc |-> 1, ldro |-> 0]

Init ==
    /\ state = "Disconnected" /\ requested = Base /\ conf_out = <<>>
    /\ conf_line = <<>> /\ pc = "idle" /\ full = FALSE
    /\ toDaemon = <<>> /\ toBridge = <<>> /\ open = FALSE
    /\ stale = {} /\ applied = {} /\ radio = Base /\ overtaken = FALSE
    /\ causes = {} /\ unasked = 0 /\ configs = 0
-------------------------------------------------------------------------------
(* The SET of the radio that the daemon will find complete on a connection  *)
(* the bridge closed.                                                       *)
LeftBehind ==
    {[conn |-> configs, cfg |-> requested] :
        i \in {j \in 1 .. Len(toDaemon) : toDaemon[j].of = "RADIO" /\ toDaemon[j].last}}

(* reset_link_unconfigured, and the close in begin_connect. *)
CloseLink ==
    /\ conf_line' = <<>> /\ pc' = "idle" /\ full' = FALSE
    /\ toDaemon' = <<>> /\ toBridge' = <<>>
    /\ stale' = stale \cup LeftBehind

(* config_fail or handle_disconnect. *)
Fail ==
    /\ state' = "Disconnected" /\ conf_out' = <<>> /\ open' = FALSE
    /\ CloseLink
    /\ UNCHANGED <<requested, settings, causes, unasked, configs>>

BeginConfigure(cfg) ==
    \/ (state = "Configuring" \/ ~validate_config(cfg)) /\ UNCHANGED vars
    \/ /\ pc = "idle" /\ state \in {"Disconnected", "Ready"}
       /\ validate_config(cfg)
       /\ configs < MaxConfigs /\ configs' = configs + 1
       /\ CloseLink
       /\ state' = "Configuring" /\ requested' = cfg /\ open' = TRUE
       /\ conf_out' = CommandCells
       /\ causes' = {} /\ applied' = {}
       /\ UNCHANGED <<radio, overtaken, unasked>>

(* Mutant: a write that was cut starts again. *)
SendAgain(n) ==
    /\ conf_out' = IF n = Len(conf_out) THEN <<>> ELSE conf_out
    /\ toDaemon' = toDaemon \o Front(conf_out, n)

(* conf_send_some takes n cells of what is left of conf_out_. *)
Send(n) ==
    /\ conf_out' = Behind(conf_out, n)
    /\ toDaemon' = toDaemon \o Front(conf_out, n)

(* poll() in Configuring: the deadline, then advance_configure; the replies *)
(* are read only when everything is written.                                *)
PollConfiguring ==
    /\ pc = "idle" /\ state = "Configuring"
    /\ \/ /\ "late" \in causes \/ (conf_out # <<>> /\ ~open)
          /\ Fail
       \/ /\ "late" \notin causes /\ (conf_out = <<>> \/ open)
          /\ \E n \in 0 .. Len(conf_out) : Send(n)
          /\ pc' = IF conf_out' = <<>> THEN "recv" ELSE "idle"
          /\ UNCHANGED <<state, requested, conf_line, full, toBridge, open, daemon,
                         causes, configs>>

PollOperational ==
    /\ pc = "idle" /\ state = "Ready"
    /\ pc' = "recv"
    /\ UNCHANGED <<state, requested, conf_out, conf_line, full, toDaemon, toBridge, open,
                   daemon, causes, configs>>

(* conf_line_.size() > kMaxConfLine *)
TooLong(buffer) == Len(buffer) > MaxConfLine

(* pump_conf reads: n cells, nothing for now (n = 0), or the end. *)
Recv ==
    /\ pc = "recv"
    /\ \/ /\ toBridge = <<>> /\ ~open
          /\ Fail
       \/ /\ toBridge # <<>> \/ open
          /\ pc' = "idle" /\ full' = FALSE
          /\ UNCHANGED <<state, requested, conf_out, conf_line, toDaemon, toBridge, open,
                         daemon, causes, configs>>
       \/ \E n \in 1 .. ReadChunk :
             /\ n <= Len(toBridge)
             /\ IF TooLong(conf_line \o Front(toBridge, n))
                THEN Fail
                ELSE /\ conf_line' = conf_line \o Front(toBridge, n)
                     /\ toBridge' = Behind(toBridge, n)
                     /\ pc' = "lines" /\ full' = (n = ReadChunk)
                     /\ UNCHANGED <<state, requested, conf_out, toDaemon, open, daemon,
                                    causes, configs>>

(* The lines that are skipped; while a status is awaited, also SET's OK. *)
Tolerated == IF state = "Configuring" THEN Broadcasts \cup {"OK"} ELSE Broadcasts

(* Mutant: config_succeed clears the buffer. *)
Cleared(n) == IF KindOf(Front(conf_line, n)) = "READY" THEN <<>> ELSE Behind(conf_line, n)

(* conf_line_.erase(0, nl + 1) *)
Erased(n) == Behind(conf_line, n)

(* pump_conf takes a line; at STATUS it returns, and leaves what follows in *)
(* conf_line_.                                                              *)
TakeLine ==
    /\ pc = "lines" /\ LineLen(conf_line) > 0
    /\ LET n == LineLen(conf_line)
           kind == KindOf(Front(conf_line, n))
           status == kind = "READY" /\ state = "Configuring" IN
       \/ /\ kind \in Tolerated \/ status
          /\ conf_line' = Erased(n)
          /\ state' = IF status THEN "Ready" ELSE state
          /\ pc' = IF status THEN "idle" ELSE pc
          /\ UNCHANGED <<requested, conf_out, full, toDaemon, toBridge, open, daemon,
                         causes, configs>>
       \/ kind \notin Tolerated /\ ~status /\ Fail

(* No complete line is left: read again after a full read, else return. *)
LinesDone ==
    /\ pc = "lines" /\ LineLen(conf_line) = 0
    /\ pc' = IF full THEN "recv" ELSE "idle"
    /\ UNCHANGED <<state, requested, conf_out, conf_line, full, toDaemon, toBridge, open,
                   daemon, causes, configs>>
-------------------------------------------------------------------------------
(* The daemon and the clock. *)

Say(kind) == toBridge' = toBridge \o Cells(kind)

(* A SET of this connection is applied. *)
Apply(cmd) ==
    /\ applied' = applied \cup {cmd}
    /\ radio' = IF cmd = "RADIO" THEN requested ELSE radio
    /\ overtaken' = (overtaken /\ cmd # "RADIO")

(* The daemon takes the next line: it applies a SET and says OK, or nothing *)
(* (v111), or rejects it; it answers GET STATUS.  What is not a command it  *)
(* rejects.                                                                 *)
DaemonCommand ==
    /\ open /\ LineLen(toDaemon) > 0
    /\ LET n == LineLen(toDaemon)
           cmd == toDaemon[n].of
           garbled == n # 2 \/ toDaemon[1].of # cmd \/ toDaemon[1].i # 1 IN
       /\ toDaemon' = Behind(toDaemon, n)
       /\ \/ garbled /\ Say("ERR") /\ UNCHANGED <<settings, causes>>
          \/ /\ ~garbled /\ cmd # "STATUS"
             /\ \/ /\ Apply(cmd)
                   /\ Say("OK") \/ UNCHANGED toBridge
                   /\ UNCHANGED causes
                \/ Say("ERR") /\ causes' = causes \cup {"ERR"} /\ UNCHANGED settings
          \/ /\ ~garbled /\ cmd = "STATUS"
             /\ \/ Say("READY") /\ UNCHANGED causes
                \/ Say("NOTREADY") /\ causes' = causes \cup {"NOTREADY"}
             /\ UNCHANGED settings
    /\ UNCHANGED <<state, requested, conf_out, buffers, open, stale, unasked, configs>>

(* What an earlier connection left it may apply at any time, or never read. *)
DaemonStale ==
    /\ \E left \in stale : stale' = stale \ {left} /\ radio' = left.cfg
    /\ overtaken' = TRUE
    /\ UNCHANGED <<state, requested, conf_out, buffers, toDaemon, toBridge, open, applied,
                   unasked, causes, configs>>

DaemonUnasked(kind) ==
    /\ open /\ unasked < MaxUnasked
    /\ unasked' = unasked + 1
    /\ Say(kind)
    /\ causes' = IF kind \in Broadcasts THEN causes ELSE causes \cup {kind}
    /\ UNCHANGED <<state, requested, conf_out, buffers, toDaemon, open, stale, settings,
                   configs>>

(* The connection is lost, or the configuration's deadline passes. *)
Lose ==
    /\ open /\ open' = FALSE /\ causes' = causes \cup {"lost"}
    /\ UNCHANGED <<state, requested, conf_out, buffers, toDaemon, toBridge, daemon, configs>>

Late ==
    /\ state = "Configuring" /\ causes' = causes \cup {"late"}
    /\ UNCHANGED <<state, requested, conf_out, buffers, toDaemon, toBridge, open, daemon,
                   configs>>

Next ==
    \/ \E cfg \in Requests : BeginConfigure(cfg)
    \/ PollConfiguring \/ PollOperational \/ Recv \/ TakeLine \/ LinesDone
    \/ DaemonCommand \/ DaemonStale \/ Lose \/ Late
    \/ \E kind \in Unasked : DaemonUnasked(kind)
Spec == Init /\ [][Next]_vars
-------------------------------------------------------------------------------
(* Properties. *)

(* A backend that became Ready stands on a daemon that has applied all four *)
(* SETs of this very connection, however the commands were cut; and its     *)
(* radio is set to what was requested, unless a SET that an earlier         *)
(* connection left behind was applied after this one.  Nothing else comes   *)
(* between what is echoed to the client and what the daemon was told.       *)
AppliedExactly ==
    state = "Ready" =>
        /\ applied = {"TXMODE", "TXQUEUE", "TXRESULT", "RADIO"}
        /\ radio = requested \/ overtaken

(* A configuration fails, or a configured link is given up, only for what   *)
(* the daemon or the clock did: never because of where a write or a read    *)
(* was cut, nor because short lines piled up in conf_line_.                 *)
FailsForCause ==
    [][state # "Disconnected" /\ state' = "Disconnected" => causes # {}]_vars

(* The cells on their way to the backend. *)
Stream == conf_line \o toBridge

(* What a line does to the backend, as in LorahamBackend. *)
Verdict(line) ==
    CASE line = "READY" /\ state = "Configuring"                -> "Ready"
      [] line \in Broadcasts                                    -> state
      [] line = "OK" /\ state = "Configuring"                   -> state
      [] OTHER                                                  -> "Disconnected"

(* Seen from above, the stream of cells is a queue of lines: the daemon     *)
(* adds a line at the end, the backend takes the first one and does what    *)
(* that line says, and nothing is lost, repeated or skipped until the link  *)
(* is closed, not even the lines left behind a STATUS.                      *)
LineLevel ==
    [][\/ UNCHANGED Stream
       \/ \E kind \in Kinds : Stream' = Stream \o Cells(kind)
       \/ \E kind \in Kinds : Stream = Cells(kind) \o Stream' /\ state' = Verdict(kind)
       \/ Stream' = <<>> /\ (state' = "Disconnected" \/ configs' # configs)]_vars
===============================================================================
