--------------------------- MODULE FirmwareSession ---------------------------
(***************************************************************************)
(* The client side of the XR protocol: class Session of the vendored codec *)
(* (external_radio_protocol.cpp), which the firmware runs and the bridge's *)
(* tests drive.  It has no clock and no socket: its transport calls it and *)
(* acts on the event it returns, the parameter ev of the actions here.     *)
(* Mutants are as in LorahamBackend.                                       *)
(***************************************************************************)
EXTENDS XrWire

CONSTANTS
    U16,       \* 2^16, the sequence numbers
    NoConfig   \* cfg_ while have_cfg_ is false

VARIABLES
    state,            \* state_
    cfg,              \* cfg_
    tx_in_flight,     \* tx_in_flight_
    tx_seq,           \* tx_seq_
    next_seq,         \* next_seq_
    nonce,            \* nonce_
    last_tx_outcome,  \* last_tx_outcome_
    last_err          \* last_err_; MALFORMED is any error of validate()

Handshaking == {"HANDSHAKE", "AUTHENTICATING", "CONFIGURING"}
Operational == {"READY_RX", "TX_PENDING"}

(* clearVolatile(), and what its caller then sets. *)
clearVolatile(next, outcome) ==
    /\ state' = next /\ last_tx_outcome' = outcome
    /\ tx_in_flight' = FALSE /\ tx_seq' = 0 /\ next_seq' = 1
    /\ nonce' = 0 /\ last_err' = "NONE"
    /\ UNCHANGED cfg

(* The state after construction. *)
Init ==
    /\ state = "DISCONNECTED" /\ cfg = NoConfig
    /\ tx_in_flight = FALSE /\ tx_seq = 0 /\ next_seq = 1
    /\ nonce = 0 /\ last_tx_outcome = "NONE" /\ last_err = "NONE"

setDesiredConfig(c) ==
    /\ state = "DISCONNECTED" /\ radioConfigValid(c)
    /\ cfg' = c
    /\ UNCHANGED <<state, tx_in_flight, tx_seq, next_seq, nonce, last_tx_outcome,
                   last_err>>

fail(reason, ev) ==
    /\ ev = "NEED_DISCONNECT"
    /\ state' = "DEGRADED" /\ last_err' = reason
    /\ tx_in_flight' = FALSE
    /\ last_tx_outcome' = IF tx_in_flight THEN "UNKNOWN" ELSE last_tx_outcome
    /\ UNCHANGED <<cfg, tx_seq, next_seq, nonce>>

onConnecting ==
    /\ state = "DISCONNECTED"
    /\ state' = "CONNECTING"
    /\ UNCHANGED <<cfg, tx_in_flight, tx_seq, next_seq, nonce, last_tx_outcome, last_err>>

onConnected(ev) ==
    /\ state \in {"CONNECTING", "DISCONNECTED"}
    /\ ev = "SEND_HELLO"
    /\ clearVolatile("HANDSHAKE", "NONE")

onDisconnected ==
    clearVolatile("DISCONNECTED", IF tx_in_flight THEN "UNKNOWN" ELSE "NONE")

(* The timeout that applies in the state there is; the others do nothing. *)
onTimeout(ev) ==
    /\ state \in {"CONNECTING", "TX_PENDING"} \cup Handshaking
    /\ fail("TIMEOUT", ev)

Advance(next) ==
    /\ state' = next
    /\ UNCHANGED <<cfg, tx_in_flight, tx_seq, next_seq, nonce, last_tx_outcome, last_err>>

(* The frames the state machine has a step for, in the state it is in. *)
Legal ==
    CASE state = "HANDSHAKE"      -> {"HELLO_ACK"}
      [] state = "AUTHENTICATING" -> {"AUTH_CHALLENGE", "AUTH_RESULT"}
      [] state = "CONFIGURING"    -> {"CONFIG_RESULT"}
      [] state \in Operational    -> {"RX_PACKET", "TX_RESULT", "PING"}
      [] OTHER                    -> {}

onHandshakeFrame(f, ev) ==
    \/ f.type = "HELLO_ACK" /\ ev = "NONE" /\ Advance("AUTHENTICATING")
    \/ /\ f.type = "AUTH_CHALLENGE" /\ ev = "SEND_AUTH"
       /\ nonce' = f.payload
       /\ UNCHANGED <<state, cfg, tx_in_flight, tx_seq, next_seq, last_tx_outcome,
                      last_err>>
    \/ /\ f.type = "AUTH_RESULT"
       /\ IF f.payload[1] # 0 THEN fail("AUTH", ev)
          ELSE ev = "SEND_CONFIG" /\ Advance("CONFIGURING")
    \/ /\ f.type = "CONFIG_RESULT"
       /\ IF f.len = 1 \/ unpackConfig(Tail(f.payload)) # cfg THEN fail("CONFIG", ev)
          ELSE ev = "READY" /\ Advance("READY_RX")

Outcomes == <<"SUCCESS", "CHANNEL_BUSY", "TIMEOUT", "RADIO_ERROR">>

(* A TX_RESULT that is not stale. *)
Awaits(f) == state = "TX_PENDING" /\ f.seq = tx_seq

onOperationalFrame(f, ev) ==
    \/ f.type = "PING" /\ ev = "SEND_PONG" /\ Advance(state)
    \/ f.type = "RX_PACKET" /\ ev = "RX" /\ Advance(state)
    \/ f.type = "TX_RESULT" /\ ~Awaits(f) /\ ev = "NONE" /\ Advance(state)
    \/ /\ f.type = "TX_RESULT" /\ Awaits(f) /\ ev = "TX_DONE"
       /\ last_tx_outcome' = Outcomes[f.payload[1] + 1]
       /\ tx_in_flight' = FALSE /\ state' = "READY_RX"
       /\ UNCHANGED <<cfg, tx_seq, next_seq, nonce, last_err>>

onFrame(f, ev) ==
    IF ~validate(f) THEN fail("MALFORMED", ev)
    ELSE IF f.type = "ERROR" THEN fail("REMOTE", ev)
    ELSE IF f.type \notin Legal THEN fail("BAD_STATE", ev)
    ELSE onHandshakeFrame(f, ev) \/ onOperationalFrame(f, ev)

(* Mutant: the counter wraps to 0. *)
WrapToZero(seq) == (seq + 1) % U16

NextSeq(seq) == IF seq + 1 = U16 THEN 1 ELSE seq + 1

(* submitTx() returns true, and seq. *)
submitTx(seq) ==
    /\ state = "READY_RX" /\ ~tx_in_flight
    /\ seq = next_seq
    /\ next_seq' = NextSeq(next_seq) /\ tx_seq' = seq
    /\ tx_in_flight' = TRUE /\ state' = "TX_PENDING"
    /\ UNCHANGED <<cfg, nonce, last_tx_outcome, last_err>>
===============================================================================
