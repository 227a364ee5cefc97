--------------------------------- MODULE Link ---------------------------------
(***************************************************************************)
(* Both ends of the XR link: the firmware's session with its transport,    *)
(* TCP connections between them, and the bridge's server and session over  *)
(* the fake backend.                                                       *)
(*                                                                         *)
(* A connection is a pair of ends and two queues of frames.  Each side     *)
(* learns of the other's close after what was sent before it, except that  *)
(* an end closed with data unread resets the connection, and then what is  *)
(* on the way may be lost.  The firmware opens a new connection whenever   *)
(* it has none; the bridge accepts one at a time.  The order of the parts  *)
(* of a turn of the server's loop, which Bridge has, is left free here, so *)
(* that there is no need of a clock: an event is in time for a deadline    *)
(* when it comes before the tick() that finds the deadline passed.         *)
(*                                                                         *)
(* The firmware's transport is not in the repository: it is modelled after *)
(* the rules that external_radio_protocol.h states for it.  Mutants are as *)
(* in LorahamBackend.                                                      *)
(***************************************************************************)
EXTENDS XrWire

CONSTANTS
    Desired,             \* the configuration the firmware wants
    Others,              \* what the backend may be scripted to apply instead
    NoConfig,
    Passwords, BridgePassword,
    U16, U32,
    MaxOutbox,
    ScriptedResults,     \* TX outcomes the script uses
    MaxScripts           \* bound on the scripted events

VARIABLES
    \* the firmware
    fstate, cfg, ftx_in_flight, ftx_seq, next_seq, fnonce, last_tx_outcome, last_err,
    password,       \* its password
    cur,            \* its connection; 0 if there is none
    \* the connections
    conns,
    \* the bridge
    phase, deadline, config_op_token, tx_in_flight, tx_seq, tx_deadline,
    awaiting_pong, ping_timer, outbox,
    served,         \* the connection of conn_; 0 if there is none
    snonce,         \* nonce_
    requested,      \* requested_cfg_
    \* the fake backend
    sink, started, configured, effective, config_mode, forced_effective,
    config_pending, pending_requested, config_token, tx_pending, next_tx_outcome,
    pending_tx_result, stale_completions, rx_queue, fail_pending, polling,
    truth,          \* its outcome of the frame the firmware last submitted
    scripts         \* counter for the bound

F == INSTANCE FirmwareSession
        WITH state <- fstate, tx_in_flight <- ftx_in_flight, tx_seq <- ftx_seq,
             nonce <- fnonce
S == INSTANCE XrSession
        WITH Seqs <- 1 .. U16 - 1, Tokens <- 0 .. U32 - 1, PasswordConfigured <- TRUE,
             HandshakeTimeout <- 0, AuthTimeout <- 0, ConfigTimeout <- 0, TxTimeout <- 0,
             PingInterval <- 0, PongTimeout <- 0
K == INSTANCE FakeBackend

fvars == <<fstate, cfg, ftx_in_flight, ftx_seq, next_seq, fnonce, last_tx_outcome, last_err>>
firmware == <<fvars, password, cur>>
svars == <<phase, deadline, config_op_token, tx_in_flight, tx_seq, tx_deadline,
           awaiting_pong, ping_timer, outbox>>
server == <<served, snonce, requested>>
kvars == <<sink, started, configured, effective, config_mode, forced_effective,
           config_pending, pending_requested, config_token, tx_pending,
           next_tx_outcome, pending_tx_result, stale_completions, rx_queue,
           fail_pending, polling>>
backend == <<kvars, truth, scripts>>
vars == <<firmware, conns, svars, server, backend>>

(* The configuration survives packing: ConfChannelProofs shows that every  *)
(* RadioConfig does (WireConfigExact).                                     *)
ASSUME LinkAssumption ==
    /\ U16 \in Nat /\ U16 >= 2 /\ U32 \in Nat \ {0}
    /\ MaxOutbox \in Nat
    /\ ScriptedResults \subseteq K!Results
    /\ unpackConfig(packConfig(Desired)) = Desired

Conns == {1, 2}
Closed == [client |-> FALSE, server |-> FALSE, up |-> <<>>, down |-> <<>>]

Init ==
    /\ F!Init /\ S!SessionInit /\ K!Init
    /\ password \in Passwords /\ cur = 0
    /\ conns = [c \in Conns |-> Closed]
    /\ served = 0 /\ snonce = 0 /\ requested = NoConfig
    /\ truth = "none" /\ scripts = 0

hmac_sha256(key, nonce) == <<key, nonce>>
verify_auth_response(f) == f.payload = hmac_sha256(BridgePassword, snonce)
-------------------------------------------------------------------------------
(* The connections.  An end that is closed reads and sends nothing; both   *)
(* queues go with the second end.                                          *)

Prefixes(frames) == {SubSeq(frames, 1, n) : n \in 0 .. Len(frames)}

(* What is left of frames on the way to an end, when the other end is      *)
(* closed with unread still to be read.                                    *)
Survives(frames, unread) == IF unread = <<>> THEN {frames} ELSE Prefixes(frames)

ClientCloses(c) ==
    \E up \in Survives(conns[c].up, conns[c].down) :
        conns' = [conns EXCEPT ![c] =
            IF @.server THEN [client |-> FALSE, server |-> TRUE, up |-> up, down |-> <<>>]
            ELSE Closed]

ServerCloses(c) ==
    \E down \in Survives(conns[c].down, conns[c].up) :
        conns' = [conns EXCEPT ![c] =
            IF @.client THEN [client |-> TRUE, server |-> FALSE, up |-> <<>>, down |-> down]
            ELSE Closed]
-------------------------------------------------------------------------------
(* The firmware's transport. *)

Sends(ev) ==
    CASE ev = "SEND_HELLO"  -> <<Control("HELLO", <<kVersion>>)>>
      [] ev = "SEND_AUTH"   -> <<Frame("AUTH_RESPONSE", 0, kAuthResponseSize,
                                       hmac_sha256(password, fnonce'))>>
      [] ev = "SEND_CONFIG" -> <<Control("CONFIGURE", packConfig(cfg))>>
      [] ev = "SEND_PONG"   -> <<Control("PONG", <<>>)>>
      [] OTHER              -> <<>>

(* Set once before connecting. *)
SetDesiredConfig ==
    /\ cfg = NoConfig
    /\ F!setDesiredConfig(Desired)
    /\ UNCHANGED <<password, cur, conns, svars, server, backend>>

StartConnect ==
    /\ cfg # NoConfig /\ F!onConnecting
    /\ UNCHANGED <<password, cur, conns, svars, server, backend>>

(* connect() completes when the connection is in the server's backlog. *)
Connect ==
    /\ fstate = "CONNECTING"
    /\ \E c \in Conns :
          /\ conns[c] = Closed /\ \A d \in Conns : d < c => conns[d] # Closed
          /\ F!onConnected("SEND_HELLO")
          /\ cur' = c
          /\ conns' = [conns EXCEPT ![c] =
                [client |-> TRUE, server |-> TRUE, up |-> Sends("SEND_HELLO"),
                 down |-> <<>>]]
    /\ UNCHANGED <<password, svars, server, backend>>

(* The firmware takes an event of its session, having taken rest. *)
Act(ev, rest) ==
    /\ IF ev = "NEED_DISCONNECT"
       THEN /\ IF cur = 0 THEN UNCHANGED conns ELSE ClientCloses(cur)
            /\ cur' = 0
       ELSE /\ conns' = [conns EXCEPT ![cur] =
                            [client |-> TRUE, server |-> @.server, down |-> rest,
                             up |-> IF @.server THEN @.up \o Sends(ev) ELSE @.up]]
            /\ UNCHANGED cur
    /\ UNCHANGED <<password, svars, server, backend>>

FirmwareEvents == {"NONE", "SEND_AUTH", "SEND_CONFIG", "SEND_PONG", "READY", "RX",
                   "TX_DONE", "NEED_DISCONNECT"}

Receive ==
    /\ cur # 0 /\ conns[cur].down # <<>>
    /\ \E ev \in FirmwareEvents :
          F!onFrame(Head(conns[cur].down), ev) /\ Act(ev, Tail(conns[cur].down))

Timeout == F!onTimeout("NEED_DISCONNECT") /\ Act("NEED_DISCONNECT", <<>>)

(* The link is down: refused, closed by the transport, or by the bridge. *)
Disconnected ==
    /\ fstate # "DISCONNECTED"
    /\ cur # 0 => ~conns[cur].server /\ conns[cur].down = <<>>
    /\ F!onDisconnected
    /\ cur' = 0
    /\ conns' = IF cur = 0 THEN conns ELSE [conns EXCEPT ![cur] = Closed]
    /\ UNCHANGED <<password, svars, server, backend>>

SubmitTx ==
    /\ cur # 0
    /\ \E seq \in 0 .. U16 - 1 :
          /\ F!submitTx(seq)
          /\ conns' = [conns EXCEPT ![cur].up =
                IF conns[cur].server THEN Append(@, Frame("TX_REQUEST", seq, 1, <<>>))
                ELSE @]
    /\ truth' = "none"
    /\ UNCHANGED <<password, cur, svars, server, kvars, scripts>>
-------------------------------------------------------------------------------
(* The bridge. *)

Waiting(c) == conns[c].server /\ c # served

Accept ==
    /\ \E c \in Conns : Waiting(c) /\
          IF served = 0
          THEN K!Attach /\ S!open /\ served' = c /\ UNCHANGED conns
          ELSE ServerCloses(c) /\ UNCHANGED <<kvars, svars, served>>
    /\ UNCHANGED <<firmware, snonce, requested, truth, scripts>>

tx_outcome_to_wire(outcome) ==
    CASE outcome = "Success" -> 0 [] outcome = "ChannelBusy" -> 1
      [] outcome = "Timeout" -> 2 [] outcome = "RadioError"  -> 3

(* The frame on the wire for one of the session's queue. *)
Encode(f) ==
    CASE f.type = "HELLO_ACK"       -> Control("HELLO_ACK", <<kVersion>>)
      [] f.type = "AUTH_CHALLENGE"  -> Frame("AUTH_CHALLENGE", 0, kAuthNonceSize, snonce)
      [] f.type = "AUTH_OK"         -> Control("AUTH_RESULT", <<0>>)
      [] f.type = "AUTH_FAIL"       -> Control("AUTH_RESULT", <<1>>)
      [] f.type = "CFG_OK"          -> Control("CONFIG_RESULT", <<0>> \o packConfig(effective))
      [] f.type = "CFG_UNSUPPORTED" -> Control("CONFIG_RESULT", <<1>>)
      [] f.type = "CFG_INVALID"     -> Control("CONFIG_RESULT", <<2>>)
      [] f.type = "RX_PACKET"       -> Frame("RX_PACKET", 0, 7, <<0, 0, 0, 0, 0, 1>>)
      [] f.type = "TX_RESULT"       ->
            Frame("TX_RESULT", f.seq, 1, <<tx_outcome_to_wire(f.result)>>)
      [] f.type = "PING"            -> Control("PING", <<>>)

(* random_nonce(): no other connection there is has the same. *)
OnHello(f) ==
    /\ f.type = "HELLO" /\ S!OnHello
    /\ snonce' = served
    /\ UNCHANGED <<kvars, requested, truth>>

OnAuthResponse(f) ==
    /\ f.type = "AUTH_RESPONSE" /\ S!OnAuthResponse(verify_auth_response(f))
    /\ UNCHANGED <<kvars, snonce, requested, truth>>

(* validate() has refused what radioConfigValid() would. *)
OnConfigure(f) ==
    /\ f.type = "CONFIGURE"
    /\ LET c == unpackConfig(f.payload) IN
       \E token \in 0 .. U32 - 1 :
          /\ S!OnConfigure(token) /\ K!begin_configure(c, token)
          /\ requested' = IF token = 0 THEN requested ELSE c
    /\ UNCHANGED <<snonce, truth>>

OnTxRequest(f) ==
    /\ f.type = "TX_REQUEST"
    /\ \E ok \in BOOLEAN :
          /\ S!OnTxRequest(f.seq, ok) /\ K!submit_tx(ok)
          /\ truth' = IF ok /\ served = cur THEN pending_tx_result' ELSE truth
    /\ UNCHANGED <<snonce, requested>>

OnPong(f) == f.type = "PONG" /\ S!OnPong /\ UNCHANGED <<kvars, snonce, requested, truth>>

(* Malformed, or not expected. *)
OnOther(f) ==
    /\ ~validate(f) \/ f.type \notin S!Expected
    /\ S!CloseNow
    /\ UNCHANGED <<kvars, snonce, requested, truth>>

(* service_read: the session takes a frame. *)
Read ==
    /\ served # 0 /\ ~polling /\ phase # "Closed" /\ conns[served].up # <<>>
    /\ LET f == Head(conns[served].up) IN
          \/ OnOther(f)
          \/ /\ validate(f)
             /\ OnHello(f) \/ OnAuthResponse(f) \/ OnConfigure(f) \/ OnTxRequest(f) \/ OnPong(f)
    /\ conns' = [conns EXCEPT ![served].up = Tail(@)]
    /\ UNCHANGED <<firmware, served, scripts>>

flush ==
    /\ served # 0 /\ ~polling /\ outbox # <<>>
    /\ \E n \in 1 .. Len(outbox) :
          /\ S!out_consume(n)
          /\ conns' = [conns EXCEPT ![served].down =
                IF conns[served].client
                THEN @ \o [i \in 1 .. n |-> Encode(outbox[i])] ELSE @]
    /\ UNCHANGED <<firmware, server, backend>>

(* Mutant: what the backend reports is taken for what was asked. *)
AppliedIsEnough(res) == res.applied

(* The test of on_configure_complete(). *)
MatchesRequest(res) == res.applied /\ res.effective = requested

OnEvent(ev) ==
    CASE ev.cb = "configure_complete" ->
            S!on_configure_complete(ev.token, IF MatchesRequest(ev) THEN "applied" ELSE "failed")
      [] ev.cb = "rx"              -> S!on_rx
      [] ev.cb = "tx_complete"     -> S!on_tx_complete(ev.arg)
      [] ev.cb = "backend_failure" -> S!on_backend_failure

BackendEvents ==
    [cb : {"configure_complete"}, token : 0 .. U32 - 1, applied : BOOLEAN,
     effective : Others \cup {Desired, NoConfig}]
    \cup [cb : {"tx_complete"}, arg : K!Results]
    \cup [cb : {"rx", "backend_failure"}]

(* pump_backend(); without a connection poll() finds no sink and returns. *)
Poll ==
    /\ \E ev \in BackendEvents : K!poll(ev) /\ OnEvent(ev)
    /\ UNCHANGED <<firmware, conns, server, truth, scripts>>

Tick ==
    /\ served # 0 /\ ~polling
    /\ \/ S!tick(TRUE) /\ K!abandon_pending_tx
       \/ S!tick(FALSE) /\ UNCHANGED kvars
    /\ UNCHANGED <<firmware, conns, server, truth, scripts>>

(* service_read finds the firmware gone, or flush() does. *)
socket_error ==
    ~conns[served].client /\ (conns[served].up = <<>> \/ outbox # <<>>)

(* Mutant: a session that closed by itself is not finished. *)
FinishedOnError == socket_error

finished == socket_error \/ (phase = "Closed" /\ outbox = <<>>)

drop_connection_if_finished ==
    /\ served # 0 /\ finished
    /\ K!Detach /\ S!discard /\ ServerCloses(served)
    /\ served' = 0 /\ snonce' = 0 /\ requested' = NoConfig
    /\ UNCHANGED <<firmware, truth, scripts>>

Script ==
    /\ scripts < MaxScripts /\ scripts' = scripts + 1
    /\ \/ \E mode \in {"Exact", "Failure", "Mismatch"}, c \in Others :
             mode # config_mode /\ K!script_config(mode, c)
       \/ \E outcome \in ScriptedResults :
             K!script_tx_outcome(outcome) \/ K!script_stale_tx_complete(outcome)
       \/ K!script_rx \/ K!script_backend_failure
    /\ UNCHANGED <<firmware, conns, svars, server, truth>>
-------------------------------------------------------------------------------
Transport == Receive \/ Disconnected
Firmware == SetDesiredConfig \/ StartConnect \/ Connect \/ Transport \/ Timeout \/ SubmitTx
Loop == Accept \/ Read \/ flush \/ Poll \/ Tick \/ drop_connection_if_finished
Next == Firmware \/ Loop \/ Script
Spec == Init /\ [][Next]_vars

(* run() turns the server's loop for ever, and the firmware takes what     *)
(* arrives.  Its timers, its user and the script do what they like.        *)
FairSpec == Spec /\ WF_vars(Loop) /\ WF_vars(Transport)
-------------------------------------------------------------------------------
(* Properties. *)

(* The two implementations of the protocol understand each other: every    *)
(* frame on a connection passes validate(), the bridge never closes on a   *)
(* frame of the firmware and the firmware never fails on one of the        *)
(* bridge, whatever times out, closes or is reset on the way.              *)
Compatible ==
    /\ \A c \in Conns : \A i \in 1 .. Len(conns[c].up) : validate(conns[c].up[i])
    /\ \A c \in Conns : \A i \in 1 .. Len(conns[c].down) : validate(conns[c].down[i])
    /\ served # 0 /\ phase # "Closed" /\ conns[served].up # <<>> =>
          Head(conns[served].up).type \in S!Expected
    /\ last_err \notin {"MALFORMED", "BAD_STATE", "REMOTE"}

(* An outcome the firmware is told is the backend's outcome of that very    *)
(* frame, though sequence numbers start again with every connection and     *)
(* wrap: a completion without a frame, a result of an earlier connection    *)
(* and a repeated number never pass for it.                                 *)
OutcomeTrue ==
    fstate = "READY_RX" /\ last_tx_outcome \notin {"NONE", "UNKNOWN"} =>
        /\ truth # "none"
        /\ last_tx_outcome = F!Outcomes[tx_outcome_to_wire(truth) + 1]

(* When either end takes the radio for ready, the firmware knows the       *)
(* password and the backend runs the very configuration the firmware set.  *)
ReadyAgrees ==
    /\ phase = "Ready" => password = BridgePassword /\ effective = requested
    /\ fstate \in F!Operational => password = BridgePassword /\ effective = cfg

(* A transmission ends for the firmware with an outcome or as unknown, even *)
(* if its own timer never fires.                                            *)
FirmwareTxEnds == fstate = "TX_PENDING" ~> fstate # "TX_PENDING"

(* So does its handshake: it becomes ready, or it is disconnected.          *)
FirmwareHandshakeEnds == fstate \in F!Handshaking ~> fstate \notin F!Handshaking
===============================================================================
