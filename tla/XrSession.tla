------------------------------- MODULE XrSession -------------------------------
(***************************************************************************)
(* The server side of the XR protocol for one firmware client              *)
(* (xr_session.cpp): handshake, authentication, configuration, one TX in   *)
(* flight, keepalive and the bounded output queue.                         *)
(*                                                                         *)
(* A frame from the client, a callback of the backend and tick() are one   *)
(* action each.  Where the code calls the backend, the action has the      *)
(* call's result as a parameter, so that a module can join the session     *)
(* with a backend.  By itself the session faces a backend that may call    *)
(* back anything at any time, as FakeBackend can be scripted to.           *)
(*                                                                         *)
(* The close reason is kept for logging only and is left out.  Mutants are *)
(* as in LorahamBackend.                                                   *)
(***************************************************************************)
EXTENDS Integers, Sequences

CONSTANTS
    Seqs,               \* sequence numbers of TX_REQUEST; 0 is not one
    Tokens,             \* tokens begin_configure may return; 0 is a refusal
    MaxOutbox,          \* frames that fit the output queue
    HandshakeTimeout, AuthTimeout, ConfigTimeout, TxTimeout,
    PingInterval, PongTimeout,  \* Timeouts, in ticks
    PasswordConfigured  \* auth_.password_configured()

ASSUME SessionAssumption ==
    /\ Seqs \subseteq Nat \ {0} /\ Tokens \subseteq Nat
    /\ MaxOutbox \in Nat
    /\ HandshakeTimeout \in Nat /\ AuthTimeout \in Nat /\ ConfigTimeout \in Nat
    /\ TxTimeout \in Nat /\ PingInterval \in Nat /\ PongTimeout \in Nat
    /\ PasswordConfigured \in BOOLEAN

VARIABLES
    phase,            \* phase_
    deadline,         \* deadline_at_ - now; Off when deadline_active_ is false
    config_op_token,  \* config_op_token_
    tx_in_flight,     \* tx_in_flight_
    tx_seq,           \* tx_seq_
    tx_deadline,      \* tx_deadline_at_ - now
    awaiting_pong,    \* awaiting_pong_
    ping_timer,       \* pong_deadline_at_ or next_ping_at_, after awaiting_pong_
    outbox            \* frames of outbox_, oldest first

svars == <<phase, deadline, config_op_token, tx_in_flight, tx_seq, tx_deadline,
           awaiting_pong, ping_timer, outbox>>

Off == -1
Phases == {"WaitHello", "WaitAuth", "WaitConfigure", "Configuring", "Ready", "Closed"}
ClientFrames == {"HELLO", "AUTH_RESPONSE", "CONFIGURE", "TX_REQUEST", "PONG", "ERROR"}
TxResults == {"Success", "ChannelBusy", "Timeout", "RadioError"}
ServerFrames == {"HELLO_ACK", "AUTH_CHALLENGE", "AUTH_OK", "AUTH_FAIL", "CFG_OK",
                 "CFG_INVALID", "CFG_UNSUPPORTED", "RX_PACKET", "TX_RESULT", "PING"}
Replies == [type : ServerFrames, seq : Seqs \cup {0}, result : TxResults \cup {""}]
Reply(type) == [type |-> type, seq |-> 0, result |-> ""]
TxReply(seq, result) == [type |-> "TX_RESULT", seq |-> seq, result |-> result]

(* A connection that does not exist has no session: Closed, empty. *)
SessionInit ==
    /\ phase = "Closed" /\ deadline = Off /\ config_op_token = 0
    /\ tx_in_flight = FALSE /\ tx_seq = 0 /\ tx_deadline = 0
    /\ awaiting_pong = FALSE /\ ping_timer = 0 /\ outbox = <<>>

(* The session of a new connection, after open(). *)
open ==
    /\ phase' = "WaitHello" /\ deadline' = HandshakeTimeout
    /\ config_op_token' = 0
    /\ tx_in_flight' = FALSE /\ tx_seq' = 0 /\ tx_deadline' = 0
    /\ awaiting_pong' = FALSE /\ ping_timer' = 0 /\ outbox' = <<>>

(* The connection, and its session with it, is destroyed. *)
discard ==
    /\ phase' = "Closed" /\ deadline' = Off /\ config_op_token' = 0
    /\ tx_in_flight' = FALSE /\ tx_seq' = 0 /\ tx_deadline' = 0
    /\ awaiting_pong' = FALSE /\ ping_timer' = 0 /\ outbox' = <<>>

(* Mutant: the TX in flight survives. *)
CloseKeepsTx ==
    /\ phase' = "Closed" /\ deadline' = Off
    /\ UNCHANGED <<tx_in_flight, config_op_token, tx_seq, tx_deadline, awaiting_pong,
                   ping_timer>>

(* close(): what it leaves alone besides outbox, which the caller decides. *)
close ==
    /\ phase' = "Closed" /\ deadline' = Off /\ tx_in_flight' = FALSE
    /\ UNCHANGED <<config_op_token, tx_seq, tx_deadline, awaiting_pong, ping_timer>>

CloseNow == close /\ UNCHANGED outbox

(* Mutant: the queue is not bounded. *)
EmitUnbounded(frames, Then) == outbox' = outbox \o frames /\ Then

(* emit() each of frames; go on with Then if all fit, else the session is  *)
(* closed by the one that does not.                                        *)
emit(frames, Then) ==
    LET room == MaxOutbox - Len(outbox) IN
    \/ /\ Len(frames) <= room
       /\ outbox' = outbox \o frames
       /\ Then
    \/ /\ Len(frames) > room
       /\ outbox' = outbox \o SubSeq(frames, 1, room)
       /\ close

(* Mutant: the new phase has no deadline. *)
EnterPhaseUnarmed(next, timeout) ==
    /\ phase' = next /\ deadline' = Off
    /\ UNCHANGED <<config_op_token, tx_in_flight, tx_seq, tx_deadline,
                   awaiting_pong, ping_timer>>

EnterPhase(next, timeout) ==
    /\ phase' = next /\ deadline' = timeout
    /\ UNCHANGED <<config_op_token, tx_in_flight, tx_seq, tx_deadline,
                   awaiting_pong, ping_timer>>

enter_ready ==
    /\ phase' = "Ready" /\ deadline' = Off
    /\ awaiting_pong' = FALSE /\ ping_timer' = PingInterval
    /\ UNCHANGED <<config_op_token, tx_in_flight, tx_seq, tx_deadline>>
-------------------------------------------------------------------------------
(* handle_frame: one legal step per phase, and everything else closes. *)

OnHello ==
    /\ phase = "WaitHello"
    /\ IF PasswordConfigured
       THEN \/ emit(<<Reply("HELLO_ACK"), Reply("AUTH_CHALLENGE")>>,
                    EnterPhase("WaitAuth", AuthTimeout))
            \/ emit(<<Reply("HELLO_ACK")>>, close)   \* random_nonce fails
       ELSE emit(<<Reply("HELLO_ACK"), Reply("AUTH_OK")>>,
                 EnterPhase("WaitConfigure", ConfigTimeout))

(* verify_auth_response is the parameter. *)
OnAuthResponse(verified) ==
    /\ phase = "WaitAuth"
    /\ IF verified
       THEN emit(<<Reply("AUTH_OK")>>, EnterPhase("WaitConfigure", ConfigTimeout))
       ELSE emit(<<Reply("AUTH_FAIL")>>, close)

(* CONFIGURE with a config that radioConfigValid rejects. *)
OnInvalidConfigure ==
    /\ phase = "WaitConfigure"
    /\ emit(<<Reply("CFG_INVALID")>>, close)

(* CONFIGURE for which begin_configure returns token. *)
OnConfigure(token) ==
    /\ phase = "WaitConfigure"
    /\ IF token = 0
       THEN emit(<<Reply("CFG_UNSUPPORTED")>>, close)
       ELSE /\ config_op_token' = token
            /\ phase' = "Configuring" /\ deadline' = ConfigTimeout
            /\ UNCHANGED <<tx_in_flight, tx_seq, tx_deadline, awaiting_pong,
                           ping_timer, outbox>>

OnPong ==
    /\ phase = "Ready" /\ awaiting_pong
    /\ awaiting_pong' = FALSE /\ ping_timer' = PingInterval
    /\ UNCHANGED <<phase, deadline, config_op_token, tx_in_flight, tx_seq,
                   tx_deadline, outbox>>

(* Mutant: the sequence number of the request is not kept. *)
OnTxRequestOldSeq(seq, ok) ==
    /\ phase = "Ready" /\ ~tx_in_flight
    /\ IF ok
       THEN /\ tx_in_flight' = TRUE /\ tx_deadline' = TxTimeout
            /\ UNCHANGED <<phase, deadline>>
       ELSE /\ phase' = "Closed" /\ deadline' = Off
            /\ UNCHANGED <<tx_in_flight, tx_deadline>>
    /\ UNCHANGED <<tx_seq, config_op_token, awaiting_pong, ping_timer, outbox>>

(* TX_REQUEST for which submit_tx returns ok. *)
OnTxRequest(seq, ok) ==
    /\ phase = "Ready" /\ ~tx_in_flight
    /\ tx_seq' = seq
    /\ IF ok
       THEN /\ tx_in_flight' = TRUE /\ tx_deadline' = TxTimeout
            /\ UNCHANGED <<phase, deadline>>
       ELSE /\ phase' = "Closed" /\ deadline' = Off
            /\ UNCHANGED <<tx_in_flight, tx_deadline>>
    /\ UNCHANGED <<config_op_token, awaiting_pong, ping_timer, outbox>>

(* The frames the session has a step for, in the state it is in. *)
Expected ==
    CASE phase = "WaitHello"     -> {"HELLO"}
      [] phase = "WaitAuth"      -> {"AUTH_RESPONSE"}
      [] phase = "WaitConfigure" -> {"CONFIGURE"}
      [] phase = "Ready"         -> (IF awaiting_pong THEN {"PONG"} ELSE {})
                                    \cup (IF tx_in_flight THEN {} ELSE {"TX_REQUEST"})
      [] OTHER                   -> {}

(* Any other frame: malformed, of a server-only type, ERROR, or a legal    *)
(* one at the wrong time.                                                  *)
OnIllegalFrame(type) ==
    /\ phase # "Closed"
    /\ type \notin Expected
    /\ CloseNow
-------------------------------------------------------------------------------
(* BackendSink: the callbacks, as the events of the backend modules. *)

on_configure_complete(token, result) ==
    IF phase # "Configuring" \/ token # config_op_token THEN UNCHANGED svars
    ELSE IF result = "applied" THEN emit(<<Reply("CFG_OK")>>, enter_ready)
    ELSE emit(<<Reply("CFG_UNSUPPORTED")>>, close)

(* Mutant: forwarded in any phase. *)
OnRxAlways ==
    emit(<<Reply("RX_PACKET")>>,
         UNCHANGED <<phase, deadline, config_op_token, tx_in_flight, tx_seq,
                     tx_deadline, awaiting_pong, ping_timer>>)

on_rx ==
    \/ UNCHANGED svars    \* not ready, or rxPayloadAcceptable rejects the length
    \/ /\ phase = "Ready"
       /\ emit(<<Reply("RX_PACKET")>>,
               UNCHANGED <<phase, deadline, config_op_token, tx_in_flight, tx_seq,
                           tx_deadline, awaiting_pong, ping_timer>>)

on_tx_complete(outcome) ==
    IF ~tx_in_flight THEN UNCHANGED svars
    ELSE emit(<<TxReply(tx_seq, outcome)>>,
              /\ tx_in_flight' = FALSE
              /\ UNCHANGED <<phase, deadline, config_op_token, tx_seq, tx_deadline,
                             awaiting_pong, ping_timer>>)

(* Mutant: a failure with no TX in flight is ignored. *)
OnFailureOfTx == IF tx_in_flight THEN CloseNow ELSE UNCHANGED svars

on_backend_failure ==
    IF phase = "Closed" THEN UNCHANGED svars ELSE CloseNow

OnEvent(ev) ==
    CASE ev.cb = "configure_complete" -> on_configure_complete(ev.token, ev.arg)
      [] ev.cb = "rx"                 -> on_rx
      [] ev.cb = "tx_complete"        -> on_tx_complete(ev.arg)
      [] ev.cb = "backend_failure"    -> on_backend_failure
      [] OTHER                        -> UNCHANGED svars
-------------------------------------------------------------------------------
(* tick(), the clock and the socket. *)

(* Mutant: no bridge-side TX ceiling. *)
TxNeverExpires == FALSE

TxExpired == phase = "Ready" /\ tx_in_flight /\ tx_deadline = 0

(* Mutants: only one half of the keepalive. *)
PingDue == phase = "Ready" /\ ~TxExpired /\ ping_timer = 0 /\ ~awaiting_pong
PongDue == phase = "Ready" /\ ~TxExpired /\ ping_timer = 0 /\ awaiting_pong

KeepaliveDue == phase = "Ready" /\ ~TxExpired /\ ping_timer = 0

(* tick(); abandon says that it calls abandon_pending_tx(). *)
tick(abandon) ==
    /\ abandon = TxExpired
    /\ \/ (deadline = 0 \/ TxExpired) /\ CloseNow
       \/ deadline # 0 /\ KeepaliveDue /\ awaiting_pong /\ CloseNow
       \/ /\ deadline # 0 /\ KeepaliveDue /\ ~awaiting_pong
          /\ emit(<<Reply("PING")>>,
                  /\ awaiting_pong' = TRUE /\ ping_timer' = PongTimeout
                  /\ UNCHANGED <<phase, deadline, config_op_token, tx_in_flight,
                                 tx_seq, tx_deadline>>)
       \/ deadline # 0 /\ ~TxExpired /\ ~KeepaliveDue /\ UNCHANGED svars

Down(timer) == IF timer > 0 THEN timer - 1 ELSE timer

(* One tick of the clock. *)
Elapse ==
    /\ deadline' = Down(deadline)
    /\ tx_deadline' = Down(tx_deadline)
    /\ ping_timer' = Down(ping_timer)
    /\ UNCHANGED <<phase, config_op_token, tx_in_flight, tx_seq, awaiting_pong, outbox>>

(* out_consume(): the connection wrote the n oldest frames to the socket. *)
out_consume(n) ==
    /\ n <= Len(outbox)
    /\ outbox' = SubSeq(outbox, n + 1, Len(outbox))
    /\ UNCHANGED <<phase, deadline, config_op_token, tx_in_flight, tx_seq,
                   tx_deadline, awaiting_pong, ping_timer>>
-------------------------------------------------------------------------------
(* The session by itself: any client, any backend. *)

FrameTypes == ClientFrames \cup {"SERVER_ONLY", "MALFORMED"}

Client ==
    \/ OnHello \/ OnInvalidConfigure \/ OnPong
    \/ \E verified \in BOOLEAN : OnAuthResponse(verified)
    \/ \E type \in FrameTypes : OnIllegalFrame(type)

(* What the session asks of the backend, and what the backend calls back. *)
BackendCalls ==
    \/ \E token \in Tokens : OnConfigure(token)
    \/ \E seq \in Seqs, ok \in BOOLEAN : OnTxRequest(seq, ok)
    \/ \E token \in Tokens, result \in {"applied", "failed"} :
          on_configure_complete(token, result)
    \/ \E outcome \in TxResults : on_tx_complete(outcome)
    \/ on_rx \/ on_backend_failure

Turn == \E abandon \in BOOLEAN : tick(abandon)

SessionNext ==
    \/ phase = "Closed" /\ outbox = <<>> /\ open
    \/ Client \/ BackendCalls \/ Turn \/ Elapse
    \/ \E n \in 1 .. MaxOutbox : out_consume(n)

(* The server calls tick() in every turn of its loop, and the clock runs.  *)
(* Nothing is assumed of the client or of the backend.                     *)
SessionSpec ==
    SessionInit /\ [][SessionNext]_svars /\ WF_svars(Turn) /\ WF_svars(Elapse)
-------------------------------------------------------------------------------
(* Properties. *)

(* Every variable of the session has its type; outbox_ is bounded. *)
SessionTypeOK ==
    /\ phase \in Phases
    /\ deadline \in {Off} \cup Nat
    /\ config_op_token \in Tokens \cup {0}
    /\ tx_in_flight \in BOOLEAN /\ tx_seq \in Seqs \cup {0}
    /\ tx_deadline \in Nat /\ awaiting_pong \in BOOLEAN /\ ping_timer \in Nat
    /\ outbox \in Seq(Replies) /\ Len(outbox) <= MaxOutbox

Traffic == {"RX_PACKET", "TX_RESULT", "PING"}

(* RX and TX are forbidden until an exact CONFIG_RESULT echo: until the     *)
(* session is ready nothing of the kind is queued, and none is queued ahead *)
(* of CFG_OK, whatever the backend calls back and when.                     *)
NoTrafficBeforeConfig ==
    /\ phase \in Phases \ {"Ready", "Closed"} =>
          \A i \in 1 .. Len(outbox) : outbox[i].type \notin Traffic \cup {"CFG_OK"}
    /\ \A i, j \in 1 .. Len(outbox) :
          i < j /\ outbox[j].type = "CFG_OK" => outbox[i].type \notin Traffic

(* A session that is closed queues nothing more: what the owner flushes     *)
(* ends with the frame that was last when it closed.                        *)
ClosedIsSilent ==
    [][phase = "Closed" /\ phase' = "Closed" => Len(outbox') <= Len(outbox)]_svars

(* No client holds the only slot without becoming ready: a handshake that   *)
(* stalls in any phase is closed by its deadline.                           *)
HandshakeEnds ==
    phase \in {"WaitHello", "WaitAuth", "WaitConfigure", "Configuring"} ~>
    phase \in {"Ready", "Closed"}

(* Every accepted TX_REQUEST is resolved: answered, or the session closed   *)
(* so that the firmware resolves it as unknown.                             *)
TxResolved == tx_in_flight ~> ~tx_in_flight

(* A ready session keeps probing its client: it always comes to another     *)
(* PING, or it is closed.                                                   *)
KeepaliveRuns ==
    phase = "Ready" /\ ~awaiting_pong ~> awaiting_pong \/ phase = "Closed"

(* A PING is answered, or it closes the session. *)
PongOrClosed == awaiting_pong ~> ~awaiting_pong \/ phase = "Closed"
===============================================================================
