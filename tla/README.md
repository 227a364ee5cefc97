# TLA+ verification of meshcom-loraham-bridge

The bridge connects one MeshCom firmware client (XR protocol over TCP) to one
LoRaHAM daemon (two Unix sockets). Its hard part is the ownership of a TX
frame: from the moment a frame is completely written to the daemon's DATA
socket the daemon may put it on the air, and from then on the bridge must not
send another one until it knows what became of the first. This directory holds
TLA+ models of the parts that decide this, the TLC runs that check them on
small instances, and TLAPS proofs of the central results for every instance.

## 1. The system and its parts

| Part | Source (`src/`) | Modules | Status |
|---|---|---|---|
| LoRaHAM backend: link, configuration, TX, drain, fault | `src/backend/loraham/loraham_backend.*`, `src/backend/radio_backend.h` | `LorahamBackend`, `ConfChannel`, `Recovery` | modelled |
| Configuration policy | `src/backend/loraham/loraham_config.cpp` | `ConfPolicy` | modelled |
| Daemon transport (sockets, partial reads and writes, loss) | `src/backend/loraham/loraham_posix_transport.cpp` | `LorahamBackend`, `ConfChannel` | partly |
| LoRaHAM daemon (external) | as used by the backend and `tests/fake_daemon.h` | `LorahamBackend`, `RepeatingDaemon`, `ConfChannel`, `Recovery` | partly |
| DATA framing | `src/backend/loraham/loraham_framing.cpp` | `FrameStream`, `LorahamBackend` | partly |
| XR session | `src/xr/xr_session.*` | `XrSession` | modelled |
| XR connection and server loop | `src/xr/xr_connection.cpp`, `src/xr/xr_server.cpp` | `Bridge`, `Link` | modelled |
| XR codec and firmware session (vendored) | `third_party/external_radio_protocol` | `FrameStream`, `XrWire`, `FirmwareSession` | partly |
| Fake backend | `src/backend/fake_backend.*` | `FakeBackend` | modelled |
| Authentication | `src/auth/hmac_auth.cpp` | `XrSession`, `Link` | partly |
| RF log | `src/util/rflog.cpp` | `RfLog` (the file), `LorahamBackend` (which lines) | modelled |
| Bounded output buffer | `src/util/bounded_buffer.h` | `XrSession` | partly |
| Start and end of the process | `src/main.cpp` | `Recovery` | partly |
| Clock, console log | `src/util/clock.h`, `src/util/log.*` | | not modelled, see 8 |

How they interact: `XrServer::poll_once()` is a single thread that, per turn,
accepts a client, reads and feeds its frames to the session, polls the backend,
ticks the session and flushes its output. The session calls the backend
(`begin_configure`, `submit_tx`, `abandon_pending_tx`); the backend calls the
session back (`on_configure_complete`, `on_rx`, `on_tx_complete`,
`on_backend_failure`) from inside `poll()`. When a client goes, the
connection's destructor hands a frame the daemon owns to a *drain* that the
server goes on polling without a client.

## 2. The modules

The backend and its daemon:

**`TxOwnership`** is the abstract specification: a frame belongs to nobody, to
the bridge, to the daemon, or to the daemon with an outcome that can no longer
be learned (`unknown`, final). It follows the ownership boundary that
`loraham_backend.h` describes.

**`LorahamBackend`** is the detailed one. `state` is `state_`; each interface
call is one action (`BeginConfigure`, `SubmitTx`, `AbandonPendingTx`, `Attach`
and `Detach` for the constructor and destructor of the connection). `poll()` is
a sequence of actions, one per line or frame it reads; `pc` says where in
`poll()` the thread is, so the daemon and the clock interleave with every read.
Names follow the code (`enter_fault`, `handle_disconnect`, `config_succeed`,
`pump_tx_write`, `map_tx_status`). The actions of `poll()` have a
parameter `event`, the callback they make, if any; the module alone ignores it,
`Bridge` conjoins the session's step for it. The daemon processes
the command lines in order, accepts or rejects each, keeps a frame it received
even if the link is lost, answers it once and on the link it came from, may
close either socket at any time and may send unasked frames. `fate`, `rflog`
and `delivered` are history: what became of each frame, its RF log lines, its
results.

**`RepeatingDaemon`** adds to it a daemon that may answer a frame twice.

**`Recovery`** adds the life of the process: it may end at any moment, by a
signal or a crash, and loses its memory and sockets; the daemon goes on. The
operator restarts it along the repository's README: when a frame may have been
with the daemon, the daemon is stopped gracefully and restarted first.

**`ConfPolicy`** is `loraham_config.cpp` as operators on the whole of
`RadioConfig`. A number in the command is its integer part, its decimals and how
many they are; the carrier goes through a double (a multiple of a power of two)
and `%.6f`, each rounded to nearest. `Spelled` is the configuration a command's
text spells out. With what precision the daemon then parses and keeps the
numbers is the daemon's affair (`CHANGELOG.md:124` and the comment at
`loraham_config.cpp:26` speak of its float rounding) and is not modelled.

**`ConfChannel`** is the CONF connection below the level of lines. Commands and
lines are sequences of cells; writes and reads cut them anywhere. The actions
are the parts of `advance_configure()` and `pump_conf()`. A SET of the radio
that is still unread when its connection is closed may be applied at any later
time, before, between or after the commands of the next connections, or never:
`radio` is the configuration the daemon last set its radio to, `overtaken` says
that it came from such a connection. A SET is applied or answered by ERR, as in
`tests/fake_daemon.h`; the OK may be missing.

The XR side:

**`XrSession`** is one session: every frame handler, every callback and
`tick()`. By itself it faces any client and a backend that calls back anything
at any time, which is more than the real backend does.

**`Bridge`** composes session and backend with the server loop. It extends
`LorahamBackend` (so that its theorems can be cited) and instantiates
`XrSession`. A call of one part by another is one step of both (conjunction of
their actions); `loop` is the place in `poll_once()`. It reproduces the order
accept, read, poll, tick, flush; that a connection accepted in a turn is not
read in that turn; and `finished()`.

**`XrWire`** has the frames of the XR protocol with `validate()` and the 17
bytes of a configuration. **`FirmwareSession`** is the client's state machine of
the vendored codec. **`FakeBackend`** is the backend without a radio, with its
scripts. **`Link`** joins the two ends: firmware, connections that close, reset
and start again, server, session and fake backend. Deadlines are not counted
there: an event is in time when it comes before the `tick()` that finds the
deadline passed. The firmware's transport is not in the repository; it follows
the rules `external_radio_protocol.h` states for it.

**`FrameStream`** models the two stream parsers with the loops that drive them
(`XrSession::feed`, `advance_operational`, `advance_drain`). A header field is
one cell of the stream and so is a payload byte; reads cut the stream anywhere.
The frame handler may end the connection in the middle of a read.

**`RfLog`** models the log file and its copy-and-truncate rollover, one action
per system call. Each may fail, the process may stop between any two, and the
controller may truncate the live file at any time.

The theorems are in modules with names in `Proofs`: `LorahamBackendProofs`,
`BridgeProofs` (about `Bridge` and `Recovery`), `SessionProofs` (`XrSession` and
`FrameStream`), `RfLogProofs`, `ConfChannelProofs` (also `ConfPolicy` and
`XrWire`), and for `Link` three that build on each other: `LinkFirmwareProofs`
(the invariant and the firmware's steps), `LinkBridgeProofs` (the bridge's) and
`LinkProofs` (the bridge's reads, and the theorems). `MCConfChannel` and
`MCLink` give TLC the values of structured constants.

A definition whose comment begins with "Mutant" is the definition below it
with a plausible mistake; it is used only to show that the property named with
it in `PROJECT.json` notices that mistake.

What is abstracted: payloads (except in `Link`), texts and the reason of a
close; deadlines are count-down timers (`now >= deadline` is `timer = 0`) and a
turn of the loop may come at any time, so the poll timeout is not modelled; the
output queue is counted in frames, so the overflow of `kOutMax` bytes happens at
`MaxOutbox` frames; the two epoch counters are the one bit that says whether
they are equal; `uint32_t` tokens are taken modulo `U32` and sequence numbers
modulo `U16`, wrap included.

How the levels fit. `LorahamBackend` takes CONF lines as wholes: `LineLevel` of
`ConfChannel` shows that the stream of cells is such a queue of lines, each
with the effect it has there. It takes DATA frames as wholes: `FramesExact`
shows the same for the parser. It takes its caller to configure or submit only
while attached and between two polls. `Bridge` is built by conjoining its actions
to those of server and session, so it is such a caller by construction; that
every call finds the backend in a state it fits is `SessionAgrees` and
`BackendServesSession`.

## 3. The runs

| Run | Module, config | Question | States |
|---|---|---|---|
| `backend_safety` | `LorahamBackend`, `BackendSafety.cfg` | Is the ownership boundary kept under every order of calls, answers, timers and link losses? Does the backend implement `TxOwnership`? | 1,052,168 |
| `backend_liveness` | `Recovery`, `BackendLiveness.cfg` | Is ownership kept over crashes and restarts, and do configurations always end? | 229,269 |
| `backend_repeat` | `RepeatingDaemon`, `BackendRepeat.cfg` | (violation) Does the epoch reject a second answer to an earlier frame? | |
| `conf_channel` | `MCConfChannel`, `ConfChannel.cfg` | Does Ready mean that the daemon applied this configuration, however commands and lines are cut? | 1,288,361 |
| `session` | `XrSession`, `Session.cfg` | Does a session keep the protocol order, its bound and its deadlines? | 15,926 |
| `bridge_safety` | `Bridge`, `BridgeSafety.cfg` | Do session and backend agree, does the backend work only for the session that is there, and do results reach only the session that asked? | 4,192,668 |
| `bridge_liveness` | `Bridge`, `BridgeLiveness.cfg` | With a client that reads or closes, does every wait end? | 136,727 |
| `bridge_stuck_client` | `Bridge`, `BridgeStuckClient.cfg` | (violation) Is a client that stops reading disconnected? | |
| `link` | `MCLink`, `Link.cfg` | Do firmware and bridge understand each other and agree, over any number of connections? | 98,521 |
| `frame_stream` | `FrameStream`, `FrameStream.cfg` | Do the parsers deliver exactly the frames of the stream, however it is cut? | 134,532 |
| `rflog` | `RfLog`, `RfLog.cfg` | Does a rollover lose only the oldest lines? | 42,205 |
| `rflog_failed_copy` | `RfLog`, `RfLogFailedCopy.cfg` | (violation) Is the previous segment replaced only by a complete copy? | |

What the properties say:

- `OwnershipTracked`, `NoSecondTx`, `FaultedForGood`: a frame the daemon may
  still transmit is waited on, drained, or the backend is faulted for good; no
  second frame is taken meanwhile.
- `NoForgedResult`, `RfLogHonest`: at most one result and one log line per
  frame; success means it was transmitted, and nothing that was or may yet be
  transmitted is missing from the log once the backend has let go of it.
- `ReadyMeansApplied`: an operational link has had every command processed and
  none rejected. `EpochCurrent`: the epoch comparison is never false while a TX
  is in flight.
- `OwnershipProtocol`: refinement of `TxOwnership` (owner from `state`, the
  daemon's frames from `fate`).
- `HandedOverAlone`: over exits and restarts no frame is handed to a daemon
  that holds another, so the states that make the operator restart the daemon
  are the right ones. `LogGapsAreOrphans`: of the frames transmitted or still
  held, the RF log misses exactly those pending when a process ended.
- `AppliedExactly`: in Ready the daemon has applied all four SETs of this very
  connection, and its radio is set to the requested configuration unless a SET
  left on an earlier connection was applied after this one's. The run reaches
  that exception: nothing in the code excludes it. `FailsForCause`: nothing but the daemon
  or the clock makes a configuration fail, no cut and no pile of short lines.
  `LineLevel`: see section 2.
- `NoTrafficBeforeConfig`, `ClosedIsSilent`, `HandshakeEnds`, `TxResolved`,
  `KeepaliveRuns`, `PongOrClosed`: the promises of one session.
- `ResultsTrueAndOwn`, `SessionAgrees`, `PendingEnds`, `DrainEnds`,
  `ClosedReleased`: the promises of the parts together. `BackendServesSession`
  is the converse of `SessionAgrees`: a backend that connects, configures or
  stands ready does so for the attached session, in the phase that waits for it
  or just closed, even when the token counter has wrapped to 0 and the session
  took the configuration for refused; and no frame is written or pending that a
  ready session does not know of. So `begin_configure()` is never called in
  Ready, although it allows it.
- `Compatible`: neither end ever rejects a frame of the other, frames that
  cross on the wire included. `OutcomeTrue`: an outcome the firmware is told is
  the backend's outcome of that frame, though sequence numbers repeat.
  `ReadyAgrees`: either end is ready only with the right password and on the
  very configuration the firmware set. `FirmwareTxEnds`,
  `FirmwareHandshakeEnds`: the firmware's waits end without its own timers.
- `FramesExact`, `NeverStuck`: the parsers agree with a decoder that has the
  whole stream (`Decode`, a recursive function); the buffer keeps its bound, and when it is full it yields a
  frame or an error.
- `RollKeepsLines`, `KeptIsSuffix`, `CapKept`: the rollover.

Deadlock checking is on in every run.

### Bounds

- `MaxTx = 2` in the safety runs: a stray result needs an earlier frame and a
  later one; so do two processes in `Recovery`. `MaxTx = 1` in
  `bridge_liveness`, where each wait concerns one frame.
- `MaxIn = 2` unread items per socket in `backend_safety`: a result behind an
  unasked frame, a rejection ahead of STATUS. One in the larger compositions.
- `NSets = 1` (the code sends four SET lines): acceptance, rejection and the
  order before STATUS need one; `ConfChannel` has all four. `Bridge` runs use 0,
  where only the outcome of the configuration matters.
- `TxChunks = 2`: a frame half written. `U32 = 2`: tokens wrap at once; 3 in
  `bridge_safety`, where the tokens of two configurations can then differ.
- Timeouts of one or two ticks: the clock action is free to run before or after
  any step, so both orders of every deadline and event occur.
- `Statuses`: `OK` and one failing status where the mapping matters; every
  daemon may also answer with an ERROR frame, so the bridge runs with `OK` alone
  still see both outcomes. The proofs cover every set of statuses.
- `MaxOutbox = 2`: a client that does not read overflows the queue with the
  third frame. The one reply of two frames answers HELLO and finds the queue
  empty, so it always fits; that it would be cut half way is covered by the
  proofs, for every `MaxOutbox`.
- `ConfChannel`: reads of two cells and a line buffer of four keep the code's
  512 to 1024; the longest line the daemon is allowed is one cell longer than a
  read, so that it is always put together from several reads, and one kind
  overflows the buffer. Two configurations in a row, so that one leaves unread
  commands behind; one unasked line.
- `Link`: two connections exist at a time, an old one the bridge has not dropped
  and a new one; any number of them over time. `U16 = 2`: the only sequence
  number is 1, so every frame reuses it, the hardest case for `OutcomeTrue`.
  One scripted event. One-offs with `MaxScripts = 2`
  (508,246 states) and with `U16 = 3`, where sequence numbers alternate
  (114,229 states), hold as well. The bridge has a password there; the open mode
  (`xr_session.cpp:198`) is in `session` and the bridge runs. The firmware has
  one configuration to ask for; the proofs cover every one.
- `FrameStream`: payloads up to 1, streams of 8 cells and reads of up to 5.
  This covers a full buffer, a maximal frame, a length one beyond it, several
  frames in one read and one frame in several.
- `RfLog`: five lines of two cells, a cap of two lines, copy chunks of three
  cells, so that a chunk ends inside a line and several rollovers happen.

### Fairness

- The server calls `poll()` and `tick()` in every turn and `run()` turns for
  ever: weak fairness of those steps. The clock runs: weak fairness of the tick.
  In `Recovery` the fairness of `poll()` is that of a process that runs.
- A read loop of the backend ends (`ConfStop`, `DataStop`, `StopReading`):
  every read must be full (`kReadChunk`) for it to go on, and the radio cannot
  fill reads faster than the bridge empties them.
- `Link`: weak fairness of the server's loop, and of the firmware taking what
  arrives. Its timers and its user are under no obligation.
- No fairness is assumed of the daemon or the operator in any run: the daemon
  may fall silent at any point.
- `bridge_liveness` assumes a client that goes on reading or closes
  (`ReadingClient`: strong fairness of a flush that empties the queue, because
  the socket is writable again and again, not always). `bridge_stuck_client` drops this assumption.

## 4. Findings

1. **A client that stops reading keeps the only slot** (`xr_connection.cpp:71`).
   `finished()` waits for a closed session's output to be flushed and no timer
   covers that wait. `README.md:234` says such a client is disconnected.
2. **The epoch does not identify the answer** (`loraham_backend.cpp:258`).
   Both compared counters are the bridge's own, so a second answer to an
   earlier frame of the same link counts for the pending one. The comment at
   `loraham_backend.h:168` presents it as a fence. What protects the bridge is
   that the daemon answers each frame once and that a drained link is closed;
   this is why `LorahamBackend`, and with it every theorem about it, has a
   daemon that does.
3. **A failed rollover copy destroys the previous segment** (`rflog.cpp:74`):
   `O_TRUNC` precedes the copy, against the comment at `rflog.cpp:107`. The
   live file is safe (`RollKeepsLines`). The counterexample loses a line that
   only the previous segment still held.

Met besides, without a run: the comment at `xr_session.h:14` says that a
bridge-side TX timeout produces a TX_RESULT. `tick()` (`xr_session.cpp:387`)
abandons the TX and closes the session without one, and `XrSession` models that.

## 5. What is proved

Every safety invariant, every action property and the refinements of the runs
that pass are proved, for every value of the constants, under the assumptions
named in the modules:

- `BoundsAssumption` and `DaemonAssumption` of `LorahamBackend`: bounds and
  timeouts are natural numbers, the daemon uses the status codes there are.
- `QueueAssumption` of `Bridge`, `SessionAssumption` of `XrSession`: widths and
  bounds are natural numbers. `RfLogAssumption` of `RfLog`: a line fits the file.
- `StreamAssumption` of `FrameStream`: cells are natural numbers, so are bounds.
- `WidthAssumption` of `ConfChannel`: a line buffer of two reads, as 1024 to
  512, and lines of the daemon at most one cell longer than a read, but for the
  kind that overflows. `DaemonAssumption` there: the daemon says READY only in
  answer to GET STATUS.
- `LinkAssumption` of `Link`: at least one sequence number, and a configuration
  that survives packing. `WireConfigExact` shows that every `RadioConfig` does.

| Module | Theorem | Statement |
|---|---|---|
| `LorahamBackendProofs` | `TypeCorrect` | `Spec => []TypeOK` |
| | `AccountingHolds` | `Spec => []Accounting` |
| | `EpochNeverSuppresses` | `Spec => []EpochCurrent` |
| | `OwnershipBoundary` | `Spec => []OwnershipTracked` |
| | `ResultsAreTrue` | `Spec => []NoForgedResult` |
| | `RfLogIsHonest` | `Spec => []RfLogHonest` |
| | `OneTxAtATime` | `Spec => NoSecondTx` |
| | `FaultIsFinal` | `Spec => FaultedForGood` |
| | `Refinement` | `Spec => OwnershipProtocol` |
| | `ReadyIsApplied` | `Spec => []ReadyMeansApplied` |
| `SessionProofs` | `SessionTyped` | `SessionSpec => []SessionTypeOK` |
| | `TrafficAfterConfig` | `SessionSpec => []NoTrafficBeforeConfig` |
| | `ClosedSilent` | `SessionSpec => ClosedIsSilent` |
| | `FramesAreExact` | `FrameStream`: `Spec => []FramesExact` |
| | `ParserNeverStuck` | `FrameStream`: `Spec => []NeverStuck` |
| `BridgeProofs` | `BridgeAccounting` | `BridgeSpec => []Accounting` |
| | `SessionAndBackendAgree` | `BridgeSpec => []SessionAgrees` |
| | `BackendIsSessions` | `BridgeSpec => []BackendServesSession` |
| | `ResultsTrue` | `BridgeSpec => []ResultsTrueAndOwn` |
| | `OnlyOrphansUnlogged` | `RSpec => []LogGapsAreOrphans` |
| | `OneFrameInTheDaemon` | `RSpec => HandedOverAlone` |
| `RfLogProofs` | `LogTyped`, `LogCapped`, `OldestDropped` | `Spec => []RfLogTypeOK`, `[]CapKept`, `[]KeptIsSuffix` |
| | `NothingLostByRoll` | `Spec => RollKeepsLines` |
| `LinkProofs` | `EndsUnderstandEachOther` | `Spec => []Compatible` |
| | `OutcomesAreTrue` | `Spec => []OutcomeTrue` |
| | `ReadyOnBothEnds` | `Spec => []ReadyAgrees` |
| `ConfChannelProofs` | `AppliedIsExact` | `Spec => []AppliedExactly` |
| | `NoFailureWithoutCause` | `Spec => FailsForCause` |
| | `LinesArriveWhole` | `Spec => LineLevel` |
| | `SetCommandExact` | the text of a SET command spells out exactly the configuration it was built from |
| | `WireConfigExact` | unpacking the packed bytes gives every `RadioConfig` back |

The inductive invariants have theorems of their own (`AccountingHolds`,
`ReadyInvariant`, `RecoveryInvariant`, `SessionInvariant`, `AgreementHolds`,
`OwnershipOfResults`, `LinkInvariant`, `ParserInvariant`, `ChannelInvariant`,
`LogInvariant`).

**The backend.** None of the safety properties is inductive by itself: that a
delivered result is true depends on the frame still queued on the socket. The
inductive invariant `Accounting` therefore adds three things:

- `LinkInv`: the link exists in the states that use it, and `poll()` is only
  where its state allows;
- `FrameInv`: `tx_out_` holds a frame exactly in `TxWriting`, `TxPending` and
  `Draining`; that frame has no log line and no result yet, and frames not yet
  submitted have no history;
- `ResultInv`: at most one result is on its way, it is about the frame the
  backend waits on, and it agrees with what became of that frame.

`ResultInv` is where it matters that the daemon answers each frame once.
TLC checks `Accounting` as an invariant of `backend_safety`; the proofs
show it for one group of actions per lemma (callers, start of a poll, CONF
reads, DATA reads, environment), with lemmas for what the ways to leave a link
(`reset_link_unconfigured`, `enter_fault`, `handle_disconnect`) have in common.
`OneTxAtATime` and `Refinement` follow step by step from `Accounting`.

`ReadyInv` says why READY can be trusted: a status is on its way only when
every command is processed, and a rejected SET has its ERR on the way with no
READY ahead of it, so `pump_conf()` meets the ERR first.

**Recovery.** A process that ends leaves its pending frame without a log line,
so `RfLogHonest` fails across restarts. The backend's lemmas are therefore about
`Core(gaps)`, `Accounting` with a set of frames the log may miss; it is empty in
`LorahamBackend` and `orphans` in `Recovery`. `RInv` adds what is true while no
process runs: the daemon holds nothing, or the operator is told to restart it
(`uncertain`).

**The session.** `SessionInv` adds to the properties that a TX is in flight
only in a ready session and that a closed one has no deadline left; without the
first, a result could be queued by a session that is not ready, without the
second, `tick()` could act on a closed one.

**The bridge.** Every action of the bridge is an action of the backend or a
stutter (`BackendUsed`), so `AccountingHolds` carries over
(`BridgeAccounting`). `AgreeInv` adds to `SessionAgrees` the token of the
configuration in progress and that a session that is not closed is the
backend's sink; it needs `EpochCurrent`, without which `dispatch()` could clear
a frame without telling the session. `BackendServesSession` is inductive given
`AgreeInv`: a step that closes the session leaves the backend attached, and
without a session the backend is at rest and `poll()` does not wake it
(`RestPolled`). `OwnInv` adds to `ResultsTrueAndOwn` that
the TX in flight was submitted over this connection; it rests on `Accounting`
for the truth of the result and on the fact that a frame's fate is final.

**Both ends.** `LInv` is about what the firmware has yet to receive, `Coming`:
the frames on the wire followed by the session's queue. It says which sequences
may be coming in each state of the firmware (`Shape`) and going up in each phase
of the session (`UpShape`), who is to move in the handshake (`InStep`), where
the one PING and the one TX are (`InTraffic`), and that a session that still
serves an older connection has not got beyond the challenge while the firmware
is on a new one. `OutcomeTrue` follows because the TX in flight carries the
firmware's sequence number on this connection and no other result is coming;
`Compatible` needs besides that the firmware connects only with a valid
configuration (`ValidOrSilent`).

**The parsers.** That the frames so far are those of the stream so far is not
inductive: a read may complete a frame. `ParsedSoFar` says it of every
continuation of the stream: its frames are those handed on and then those of
the buffer, the rest of the read and the continuation. The reference decoder is
a recursive function on sequences; that it exists is shown by construction over
the lengths of streams, and induction on lengths is done through a least
counterexample (`WFMin` of the library).

**The CONF channel.** `IInv` says that the stream consists of whole lines
(`Whole`), that commands taken, on the way and unwritten make up the ten cells
of `CommandCells` and the settings are those of the commands taken
(`CommandInv`, `SettingsInv`, `AnswerInv`), that whatever will end the connection has a cause
(`CauseInv`), and how much `conf_line_` holds between two steps of
`pump_conf()` (`LengthInv`). The last is the argument for the 1024-byte limit:
what is behind the first line of a read came with that read.

**The RF log.** `LogInv` adds that the copy so far is a prefix of the live file
unless that was emptied meanwhile (`CopyIsPrefix`), that the previous segment is
older than the live file or a copy of some of it (`PrevIsOlder`), and that there
is room for the rest of the line being written (`RoomLeft`).

**The configuration.** `SetCommandExact` is an error bound: the double is at most
half a unit in its last place from the quotient (`NearestBound`), which is less
than half of the last digit that `%.6f` prints, so rounding again gives back the
Hz (`PrintedExactly`); the bandwidths are compared one by one. `WireConfigExact`
is the recomposition of a number from its bytes. Both are over the whole range
of every field, and neither has a run: a double has more bits than TLC's
integers.

## 6. Only model-checked

- Every liveness property, because fairness and ENABLED are outside the proof
  system: `ConfigEnds` (`backend_liveness`); `HandshakeEnds`, `TxResolved`,
  `KeepaliveRuns`, `PongOrClosed` (`session`); `PendingEnds`, `DrainEnds`,
  `ClosedReleased` (`bridge_liveness`); `FirmwareTxEnds`,
  `FirmwareHandshakeEnds` (`link`).
- The three violations of section 4: TLC's counterexample is the result.

## 7. Hazards

`PROJECT.json` lists what is hard to test in this code, at the line where it
bites, with the properties that cover it. Two have no property: the end of a read
loop under constant full reads (`loraham_backend.cpp:329`) is assumed by
fairness, because whether a sender can be that fast is not a question of states;
and the conversions of a configuration's numbers (`loraham_config.cpp:98`) are
proved exact instead of run.

## 8. Not modelled

- `main.cpp` but for the start and end of the process: options are parsed once,
  before there is any state, and appear as constants of the models.
- Reading the password file (`hmac_auth.cpp`): done once at the start. HMAC is a
  free function of key and nonce, the random source one that never repeats or
  that fails.
- The clock is the action that counts the timers down; the console log has no
  effect on the state.
- The poll timeout (`next_deadline_ms`, `compute_timeout_ms`): at most 100 ms,
  so that it delays a turn but never prevents one; a turn may come at any time.
- The compaction of `BoundedBuffer`: it moves bytes within a vector and changes
  none of the queue.
- `buildRadioConfig` (floating point, called only by the firmware), the
  encoder of `TX_PACKET` and the signal figures of an `RX_PACKET`: copied
  through, no decision depends on them.
- The RX lines of the RF log (`loraham_backend.cpp:226`) as calls of the backend:
  each received packet asks for one and nothing depends on it. `RfLog` writes
  lines of either kind.
- `listen()`, socket paths and socket options.
