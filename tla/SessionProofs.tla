----------------------------- MODULE SessionProofs -----------------------------
(***************************************************************************)
(* The XR session for every value of its constants, against any client and *)
(* any backend; then the parsers that cut its stream, and the daemon's,    *)
(* into frames (FrameStream), for streams and reads of any length, any     *)
(* payload limit and both protocols.                                       *)
(***************************************************************************)
EXTENDS XrSession, FrameStream, SequenceTheorems, WellFoundedInduction, TLAPS

(* Most leaves rewrite equalities and split sets: Zenon takes them, and SMT *)
(* is cited where a leaf counts, or reasons about sequences.                *)
USE Zenon

(* What makes the safety properties inductive: a TX is in flight only in a  *)
(* ready session, and one that closed has no deadline left.                 *)
SessionInv ==
    /\ SessionTypeOK
    /\ NoTrafficBeforeConfig
    /\ tx_in_flight => phase = "Ready"
    /\ phase = "Closed" => deadline = Off

(* A step queues frames of the types T, possibly none. *)
Queues(T) ==
    /\ Len(outbox') <= MaxOutbox
    /\ \E queued \in Seq(Replies) :
          /\ \A i \in 1 .. Len(queued) : queued[i].type \in T
          /\ outbox' = outbox \o queued

(* A reply without a sequence number. *)
LEMMA ReplyTyped == \A type \in ServerFrames : Reply(type) \in Replies /\ Reply(type).type = type
  BY DEF Reply, Replies

(* A TX_RESULT. *)
LEMMA TxReplyTyped ==
    \A seq \in Seqs \cup {0}, result \in TxResults :
        TxReply(seq, result) \in Replies /\ TxReply(seq, result).type = "TX_RESULT"
  BY DEF TxReply, Replies, ServerFrames

(* emit() of one frame, whether it fits or not. *)
LEMMA EmitOne ==
    ASSUME SessionTypeOK, NEW f \in Replies, NEW T, f.type \in T,
           \/ Len(<<f>>) <= MaxOutbox - Len(outbox) /\ outbox' = outbox \o <<f>>
           \/ /\ Len(<<f>>) > MaxOutbox - Len(outbox)
              /\ outbox' = outbox \o SubSeq(<<f>>, 1, MaxOutbox - Len(outbox))
    PROVE  Queues(T)
  <1>. USE SessionAssumption DEF SessionTypeOK
  <1>1. CASE Len(<<f>>) <= MaxOutbox - Len(outbox) /\ outbox' = outbox \o <<f>>
    <2>1. <<f>> \in Seq(Replies) /\ \A i \in 1 .. Len(<<f>>) : <<f>>[i].type \in T
      BY SMT
    <2>2. Len(outbox') <= MaxOutbox
      BY SMT, <1>1
    <2>. QED  BY <1>1, <2>1, <2>2 DEF Queues
  <1>2. CASE /\ Len(<<f>>) > MaxOutbox - Len(outbox)
             /\ outbox' = outbox \o SubSeq(<<f>>, 1, MaxOutbox - Len(outbox))
    <2>1. MaxOutbox - Len(outbox) = 0
      BY SMT, <1>2
    <2>2. SubSeq(<<f>>, 1, 0) = <<>>
      BY SMT
    <2>3. outbox' = outbox \o <<>> /\ Len(outbox') <= MaxOutbox
      BY SMT, <1>2, <2>1, <2>2
    <2>4. <<>> \in Seq(Replies) /\ \A i \in 1 .. Len(<<>>) : <<>>[i].type \in T
      BY SMT
    <2>. QED  BY <2>3, <2>4 DEF Queues
  <1>. QED  BY <1>1, <1>2

(* emit() of two frames: both, the first, or none fits. *)
LEMMA EmitTwo ==
    ASSUME SessionTypeOK, NEW f \in Replies, NEW g \in Replies, NEW T,
           f.type \in T, g.type \in T,
           \/ Len(<<f, g>>) <= MaxOutbox - Len(outbox) /\ outbox' = outbox \o <<f, g>>
           \/ /\ Len(<<f, g>>) > MaxOutbox - Len(outbox)
              /\ outbox' = outbox \o SubSeq(<<f, g>>, 1, MaxOutbox - Len(outbox))
    PROVE  Queues(T)
  <1>. USE SessionAssumption DEF SessionTypeOK
  <1>1. CASE Len(<<f, g>>) <= MaxOutbox - Len(outbox) /\ outbox' = outbox \o <<f, g>>
    <2>1. <<f, g>> \in Seq(Replies) /\ \A i \in 1 .. Len(<<f, g>>) : <<f, g>>[i].type \in T
      BY SMT
    <2>2. Len(outbox') <= MaxOutbox
      BY SMT, <1>1
    <2>. QED  BY <1>1, <2>1, <2>2 DEF Queues
  <1>2. CASE /\ Len(<<f, g>>) > MaxOutbox - Len(outbox)
             /\ outbox' = outbox \o SubSeq(<<f, g>>, 1, MaxOutbox - Len(outbox))
    <2>. DEFINE room == MaxOutbox - Len(outbox)
                sub == SubSeq(<<f, g>>, 1, room)
    <2>1. room \in {0, 1}
      BY SMT, <1>2
    <2>2. sub \in Seq(Replies) /\ Len(sub) = room /\ \A i \in 1 .. Len(sub) : sub[i].type \in T
      BY SMT, <2>1
    <2>3. outbox' = outbox \o sub
      BY <1>2
    <2>4. Len(outbox') <= MaxOutbox
      BY SMTT(20), <2>1, <2>2, <2>3
    <2>. QED  BY <2>2, <2>3, <2>4 DEF Queues
  <1>. QED  BY <1>1, <1>2

(* What is queued keeps the queue typed. *)
LEMMA QueuesTyped ==
    ASSUME SessionTypeOK, NEW T, Queues(T)
    PROVE  outbox' \in Seq(Replies) /\ Len(outbox') <= MaxOutbox
  BY SMT DEF SessionTypeOK, Queues

(* Queueing frames of the handshake leaves the order as it is. *)
LEMMA HandshakeQueued ==
    ASSUME SessionInv, NEW T, Queues(T), T \cap (Traffic \cup {"CFG_OK"}) = {},
           phase' \in {"Ready", "Closed"} \/ phase \notin {"Ready", "Closed"}
    PROVE  NoTrafficBeforeConfig'
  <1>1. PICK queued \in Seq(Replies) :
           /\ \A i \in 1 .. Len(queued) : queued[i].type \in T
           /\ outbox' = outbox \o queued
    BY DEF Queues
  <1>2. outbox \in Seq(Replies) /\ phase \in Phases
    BY DEF SessionInv, SessionTypeOK
  <1>3. \A i \in 1 .. Len(outbox') :
           IF i <= Len(outbox) THEN outbox'[i] = outbox[i]
           ELSE outbox'[i].type \notin Traffic \cup {"CFG_OK"}
    BY SMT, <1>1, <1>2
  <1>4. outbox' \in Seq(Replies)
    BY SMT, <1>1, <1>2
  <1>. QED  BY SMTT(30), <1>2, <1>3, <1>4 DEF SessionInv, NoTrafficBeforeConfig

(* Traffic is queued by a ready session, behind CFG_OK. *)
LEMMA TrafficQueued ==
    ASSUME SessionInv, NEW T, Queues(T), T \subseteq Traffic, phase' \in {"Ready", "Closed"}
    PROVE  NoTrafficBeforeConfig'
  <1>1. PICK queued \in Seq(Replies) :
           /\ \A i \in 1 .. Len(queued) : queued[i].type \in T
           /\ outbox' = outbox \o queued
    BY DEF Queues
  <1>2. outbox \in Seq(Replies)
    BY DEF SessionInv, SessionTypeOK
  <1>3. \A i \in 1 .. Len(outbox') :
           IF i <= Len(outbox) THEN outbox'[i] = outbox[i]
           ELSE outbox'[i].type # "CFG_OK"
    BY SMT, <1>1, <1>2 DEF Traffic
  <1>4. outbox' \in Seq(Replies)
    BY SMT, <1>1, <1>2
  <1>. QED  BY SMT, <1>2, <1>3, <1>4 DEF SessionInv, NoTrafficBeforeConfig

(* CFG_OK is queued by a session that was not ready and has no traffic. *)
LEMMA ConfigQueued ==
    ASSUME SessionInv, Queues({"CFG_OK"}), phase = "Configuring",
           phase' \in {"Ready", "Closed"}
    PROVE  NoTrafficBeforeConfig'
  <1>1. PICK queued \in Seq(Replies) :
           /\ \A i \in 1 .. Len(queued) : queued[i].type \in {"CFG_OK"}
           /\ outbox' = outbox \o queued
    BY DEF Queues
  <1>2. outbox \in Seq(Replies)
    BY DEF SessionInv, SessionTypeOK
  <1>3. \A i \in 1 .. Len(outbox) : outbox[i].type \notin Traffic
    BY DEF SessionInv, NoTrafficBeforeConfig, Phases
  <1>4. \A i \in 1 .. Len(outbox') : outbox'[i].type \notin Traffic
    BY SMTT(20), <1>1, <1>2, <1>3 DEF Traffic
  <1>. QED  BY <1>4 DEF NoTrafficBeforeConfig

(* A step that leaves the queue alone, or shortens it from the front. *)
LEMMA QueueKept ==
    ASSUME SessionInv, NEW n \in Nat, n <= Len(outbox),
           outbox' = SubSeq(outbox, n + 1, Len(outbox)),
           phase' \in {"Ready", "Closed"} \/ phase \notin {"Ready", "Closed"}
    PROVE  /\ outbox' \in Seq(Replies) /\ Len(outbox') <= MaxOutbox
           /\ NoTrafficBeforeConfig'
  <1>1. outbox \in Seq(Replies) /\ Len(outbox) <= MaxOutbox /\ phase \in Phases
    BY DEF SessionInv, SessionTypeOK
  <1>2. outbox' \in Seq(Replies) /\ Len(outbox') = Len(outbox) - n
    BY SMT, <1>1
  <1>3. \A i \in 1 .. Len(outbox') : outbox'[i] = outbox[i + n] /\ i + n \in 1 .. Len(outbox)
    BY SMT, <1>1, <1>2
  <1>4. Len(outbox') <= MaxOutbox
    BY SMTT(20), <1>1, <1>2, SessionAssumption
  <1>5. NoTrafficBeforeConfig'
    <2>1. ASSUME phase' \in Phases \ {"Ready", "Closed"}, NEW i \in 1 .. Len(outbox')
          PROVE  outbox'[i].type \notin Traffic \cup {"CFG_OK"}
      BY <2>1, <1>1, <1>3 DEF SessionInv, NoTrafficBeforeConfig
    <2>2. ASSUME NEW i \in 1 .. Len(outbox'), NEW j \in 1 .. Len(outbox'),
                 i < j, outbox'[j].type = "CFG_OK"
          PROVE  outbox'[i].type \notin Traffic
      <3>1. i + n < j + n
        BY SMT, <2>2, <1>2
      <3>. QED  BY <2>2, <3>1, <1>3 DEF SessionInv, NoTrafficBeforeConfig
    <2>. QED  BY <2>1, <2>2 DEF NoTrafficBeforeConfig
  <1>. QED  BY <1>2, <1>4, <1>5

(* A step that queues nothing. *)
LEMMA SameQueue ==
    ASSUME SessionInv, outbox' = outbox,
           phase' \in {"Ready", "Closed"} \/ phase \notin {"Ready", "Closed"}
    PROVE  /\ outbox' \in Seq(Replies) /\ Len(outbox') <= MaxOutbox
           /\ NoTrafficBeforeConfig'
  BY DEF SessionInv, SessionTypeOK, NoTrafficBeforeConfig, Phases

(* The other variables of a session that closes. *)
LEMMA Closes ==
    ASSUME SessionInv, close
    PROVE  /\ phase' = "Closed" /\ deadline' = Off /\ tx_in_flight' = FALSE
           /\ config_op_token' \in Tokens \cup {0} /\ tx_seq' \in Seqs \cup {0}
           /\ tx_deadline' \in Nat /\ awaiting_pong' \in BOOLEAN /\ ping_timer' \in Nat
  BY DEF SessionInv, SessionTypeOK, close

(* close() by itself. *)
LEMMA CloseStep == ASSUME SessionInv, CloseNow PROVE SessionInv'
  <1>1. close /\ outbox' = outbox
    BY DEF CloseNow
  <1>2. /\ outbox' \in Seq(Replies) /\ Len(outbox') <= MaxOutbox
        /\ NoTrafficBeforeConfig'
    BY <1>1, Closes, SameQueue
  <1>. QED  BY <1>1, <1>2, Closes DEF SessionInv, SessionTypeOK, Phases

(* A frame is queued and the session closes, because of it or instead. *)
LEMMA CloseAfter ==
    ASSUME SessionInv, NEW T, Queues(T), close,
           T \cap (Traffic \cup {"CFG_OK"}) = {} \/ T \subseteq Traffic
    PROVE  SessionInv'
  <1>1. NoTrafficBeforeConfig'
    BY Closes, HandshakeQueued, TrafficQueued
  <1>. QED  BY <1>1, Closes, QueuesTyped DEF SessionInv, SessionTypeOK, Phases
-------------------------------------------------------------------------------
(* One lemma per step of the session. *)

(* A handshake frame is answered and the next phase entered. *)
LEMMA EnterStep ==
    ASSUME SessionInv, NEW T, Queues(T), T \cap (Traffic \cup {"CFG_OK"}) = {},
           phase \in {"WaitHello", "WaitAuth"},
           NEW next \in {"WaitAuth", "WaitConfigure"}, NEW timeout \in Nat,
           EnterPhase(next, timeout)
    PROVE  SessionInv'
  <1>1. NoTrafficBeforeConfig'
    BY HandshakeQueued DEF EnterPhase
  <1>. QED  BY <1>1, QueuesTyped DEF SessionInv, SessionTypeOK, EnterPhase, Phases

(* HELLO. *)
LEMMA HelloStep == ASSUME SessionInv, OnHello PROVE SessionInv'
  <1>. DEFINE T == {"HELLO_ACK", "AUTH_CHALLENGE", "AUTH_OK"}
  <1>1. /\ Reply("HELLO_ACK") \in Replies /\ Reply("HELLO_ACK").type \in T
        /\ Reply("AUTH_CHALLENGE") \in Replies /\ Reply("AUTH_CHALLENGE").type \in T
        /\ Reply("AUTH_OK") \in Replies /\ Reply("AUTH_OK").type \in T
    BY ReplyTyped DEF ServerFrames
  <1>2. SessionTypeOK
    BY DEF SessionInv
  <1>3. Queues(T)
    <2>1. CASE emit(<<Reply("HELLO_ACK"), Reply("AUTH_CHALLENGE")>>,
                    EnterPhase("WaitAuth", AuthTimeout))
      BY <1>1, <1>2, <2>1, EmitTwo DEF emit
    <2>2. CASE emit(<<Reply("HELLO_ACK")>>, close)
      BY <1>1, <1>2, <2>2, EmitOne DEF emit
    <2>3. CASE emit(<<Reply("HELLO_ACK"), Reply("AUTH_OK")>>,
                    EnterPhase("WaitConfigure", ConfigTimeout))
      BY <1>1, <1>2, <2>3, EmitTwo DEF emit
    <2>. QED  BY <2>1, <2>2, <2>3 DEF OnHello
  <1>4. \/ close \/ EnterPhase("WaitAuth", AuthTimeout)
        \/ EnterPhase("WaitConfigure", ConfigTimeout)
    BY DEF OnHello, emit
  <1>5. T \cap (Traffic \cup {"CFG_OK"}) = {} /\ phase = "WaitHello"
    BY DEF Traffic, OnHello
  <1>. HIDE DEF T
  <1>. QED  BY <1>3, <1>4, <1>5, CloseAfter, EnterStep, SessionAssumption

(* AUTH_RESPONSE. *)
LEMMA AuthStep ==
    ASSUME SessionInv, NEW verified \in BOOLEAN, OnAuthResponse(verified)
    PROVE  SessionInv'
  <1>. DEFINE T == {"AUTH_OK", "AUTH_FAIL"}
  <1>1. /\ Reply("AUTH_OK") \in Replies /\ Reply("AUTH_OK").type \in T
        /\ Reply("AUTH_FAIL") \in Replies /\ Reply("AUTH_FAIL").type \in T
    BY ReplyTyped DEF ServerFrames
  <1>2. SessionTypeOK
    BY DEF SessionInv
  <1>3. Queues(T)
    <2>1. CASE emit(<<Reply("AUTH_OK")>>, EnterPhase("WaitConfigure", ConfigTimeout))
      BY <1>1, <1>2, <2>1, EmitOne DEF emit
    <2>2. CASE emit(<<Reply("AUTH_FAIL")>>, close)
      BY <1>1, <1>2, <2>2, EmitOne DEF emit
    <2>. QED  BY <2>1, <2>2 DEF OnAuthResponse
  <1>4. close \/ EnterPhase("WaitConfigure", ConfigTimeout)
    BY DEF OnAuthResponse, emit
  <1>5. T \cap (Traffic \cup {"CFG_OK"}) = {} /\ phase = "WaitAuth"
    BY DEF Traffic, OnAuthResponse
  <1>. HIDE DEF T
  <1>. QED  BY <1>3, <1>4, <1>5, CloseAfter, EnterStep, SessionAssumption

(* A refusal that closes: CFG_INVALID or CFG_UNSUPPORTED. *)
LEMMA RefuseStep ==
    ASSUME SessionInv, NEW type \in {"CFG_INVALID", "CFG_UNSUPPORTED"},
           emit(<<Reply(type)>>, close)
    PROVE  SessionInv'
  <1>1. Reply(type) \in Replies /\ Reply(type).type \in {type}
    BY ReplyTyped DEF ServerFrames
  <1>2. Queues({type})
    BY <1>1, EmitOne DEF emit, SessionInv
  <1>3. close /\ {type} \cap (Traffic \cup {"CFG_OK"}) = {}
    BY DEF emit, Traffic
  <1>. QED  BY <1>2, <1>3, CloseAfter

(* CONFIGURE, refused or begun. *)
LEMMA ConfigureStep ==
    ASSUME SessionInv, NEW token \in Tokens, OnConfigure(token)
    PROVE  SessionInv'
  <1>1. CASE token = 0
    BY <1>1, RefuseStep DEF OnConfigure
  <1>2. CASE token # 0
    <2>1. /\ outbox' \in Seq(Replies) /\ Len(outbox') <= MaxOutbox
          /\ NoTrafficBeforeConfig'
      BY <1>2, SameQueue DEF OnConfigure
    <2>. QED  BY <1>2, <2>1, SessionAssumption
              DEF OnConfigure, SessionInv, SessionTypeOK, Phases
  <1>. QED  BY <1>1, <1>2

(* PONG. *)
LEMMA PongStep == ASSUME SessionInv, OnPong PROVE SessionInv'
  <1>1. /\ outbox' \in Seq(Replies) /\ Len(outbox') <= MaxOutbox
        /\ NoTrafficBeforeConfig'
    BY SameQueue DEF OnPong
  <1>. QED  BY <1>1, SessionAssumption DEF OnPong, SessionInv, SessionTypeOK

(* TX_REQUEST. *)
LEMMA TxRequestStep ==
    ASSUME SessionInv, NEW seq \in Seqs, NEW ok \in BOOLEAN, OnTxRequest(seq, ok)
    PROVE  SessionInv'
  <1>1. /\ outbox' \in Seq(Replies) /\ Len(outbox') <= MaxOutbox
        /\ NoTrafficBeforeConfig'
    BY SameQueue DEF OnTxRequest
  <1>. QED  BY <1>1, SessionAssumption DEF OnTxRequest, SessionInv, SessionTypeOK, Phases

(* A step that leaves the session alone. *)
LEMMA StutterStep == ASSUME SessionInv, UNCHANGED svars PROVE SessionInv'
  BY DEF SessionInv, SessionTypeOK, NoTrafficBeforeConfig, svars

(* on_configure_complete. *)
LEMMA ConfigDoneStep ==
    ASSUME SessionInv, NEW token, NEW result, on_configure_complete(token, result)
    PROVE  SessionInv'
  <1>1. CASE phase # "Configuring" \/ token # config_op_token
    BY <1>1, StutterStep DEF on_configure_complete
  <1>2. CASE phase = "Configuring" /\ emit(<<Reply("CFG_OK")>>, enter_ready)
    <2>1. Reply("CFG_OK") \in Replies /\ Reply("CFG_OK").type \in {"CFG_OK"}
      BY ReplyTyped DEF ServerFrames
    <2>2. Queues({"CFG_OK"})
      BY <1>2, <2>1, EmitOne DEF emit, SessionInv
    <2>3. enter_ready \/ close
      BY <1>2 DEF emit
    <2>4. NoTrafficBeforeConfig'
      BY <1>2, <2>2, <2>3, ConfigQueued DEF enter_ready, close
    <2>5. CASE enter_ready
      BY <2>2, <2>4, <2>5, QueuesTyped, SessionAssumption
         DEF enter_ready, SessionInv, SessionTypeOK, Phases
    <2>6. CASE close
      BY <2>2, <2>4, <2>6, QueuesTyped, Closes DEF SessionInv, SessionTypeOK, Phases
    <2>. QED  BY <2>3, <2>5, <2>6
  <1>3. CASE emit(<<Reply("CFG_UNSUPPORTED")>>, close)
    BY <1>3, RefuseStep
  <1>. QED  BY <1>1, <1>2, <1>3 DEF on_configure_complete

(* A frame of traffic, queued by a ready session. *)
LEMMA TrafficStep ==
    ASSUME SessionInv, phase = "Ready", NEW f \in Replies, f.type \in Traffic,
           \/ Len(<<f>>) <= MaxOutbox - Len(outbox) /\ outbox' = outbox \o <<f>>
           \/ /\ Len(<<f>>) > MaxOutbox - Len(outbox)
              /\ outbox' = outbox \o SubSeq(<<f>>, 1, MaxOutbox - Len(outbox)),
           \/ close
           \/ /\ UNCHANGED <<phase, deadline, config_op_token, tx_seq, tx_deadline>>
              /\ tx_in_flight' \in BOOLEAN /\ awaiting_pong' \in BOOLEAN /\ ping_timer' \in Nat
    PROVE  SessionInv'
  <1>1. Queues(Traffic)
    BY EmitOne DEF SessionInv
  <1>2. CASE close
    BY <1>1, <1>2, CloseAfter
  <1>3. CASE /\ UNCHANGED <<phase, deadline, config_op_token, tx_seq, tx_deadline>>
             /\ tx_in_flight' \in BOOLEAN /\ awaiting_pong' \in BOOLEAN /\ ping_timer' \in Nat
    <2>1. NoTrafficBeforeConfig'
      BY <1>1, <1>3, TrafficQueued
    <2>. QED  BY <1>1, <1>3, <2>1, QueuesTyped DEF SessionInv, SessionTypeOK
  <1>. QED  BY <1>2, <1>3

(* on_rx. *)
LEMMA RxStep == ASSUME SessionInv, on_rx PROVE SessionInv'
  <1>1. Reply("RX_PACKET") \in Replies /\ Reply("RX_PACKET").type \in Traffic
    BY ReplyTyped DEF ServerFrames, Traffic
  <1>2. CASE phase = "Ready" /\ ~UNCHANGED svars
    BY <1>1, <1>2, TrafficStep DEF on_rx, emit, SessionInv, SessionTypeOK
  <1>. QED  BY <1>2, StutterStep DEF on_rx

(* on_tx_complete. *)
LEMMA TxDoneStep ==
    ASSUME SessionInv, NEW outcome \in TxResults, on_tx_complete(outcome)
    PROVE  SessionInv'
  <1>1. tx_seq \in Seqs \cup {0} /\ awaiting_pong \in BOOLEAN /\ ping_timer \in Nat
    BY DEF SessionInv, SessionTypeOK
  <1>2. /\ TxReply(tx_seq, outcome) \in Replies
        /\ TxReply(tx_seq, outcome).type \in Traffic
    BY <1>1, TxReplyTyped DEF Traffic
  <1>3. CASE ~tx_in_flight
    BY <1>3, StutterStep DEF on_tx_complete
  <1>4. CASE tx_in_flight
    <2>1. phase = "Ready"
      BY <1>4 DEF SessionInv
    <2>. QED  BY <1>1, <1>2, <1>4, <2>1, TrafficStep DEF on_tx_complete, emit
  <1>. QED  BY <1>3, <1>4

(* tick(). *)
LEMMA TickStep == ASSUME SessionInv, NEW abandon \in BOOLEAN, tick(abandon) PROVE SessionInv'
  <1>1. CASE CloseNow
    BY <1>1, CloseStep
  <1>2. CASE UNCHANGED svars
    BY <1>2, StutterStep
  <1>3. CASE /\ KeepaliveDue
             /\ emit(<<Reply("PING")>>,
                     /\ awaiting_pong' = TRUE /\ ping_timer' = PongTimeout
                     /\ UNCHANGED <<phase, deadline, config_op_token, tx_in_flight,
                                    tx_seq, tx_deadline>>)
    <2>1. Reply("PING") \in Replies /\ Reply("PING").type \in Traffic
      BY ReplyTyped DEF ServerFrames, Traffic
    <2>2. phase = "Ready" /\ tx_in_flight \in BOOLEAN
      BY <1>3 DEF KeepaliveDue, SessionInv, SessionTypeOK
    <2>. QED  BY <1>3, <2>1, <2>2, TrafficStep, SessionAssumption DEF emit
  <1>. QED  BY <1>1, <1>2, <1>3 DEF tick

(* The clock. *)
LEMMA ElapseStep == ASSUME SessionInv, Elapse PROVE SessionInv'
  <1>1. /\ outbox' \in Seq(Replies) /\ Len(outbox') <= MaxOutbox
        /\ NoTrafficBeforeConfig'
    BY SameQueue DEF Elapse
  <1>. QED  BY SMT, <1>1 DEF Elapse, Down, SessionInv, SessionTypeOK, Off

(* The connection writes from the queue. *)
LEMMA ConsumeStep ==
    ASSUME SessionInv, NEW n \in Nat, out_consume(n) PROVE SessionInv'
  <1>1. /\ outbox' \in Seq(Replies) /\ Len(outbox') <= MaxOutbox
        /\ NoTrafficBeforeConfig'
    BY QueueKept DEF out_consume
  <1>. QED  BY <1>1 DEF out_consume, SessionInv, SessionTypeOK

(* A new connection. *)
LEMMA OpenStep == ASSUME open PROVE SessionInv'
  <1>1. outbox' \in Seq(Replies) /\ Len(outbox') = 0
    BY SMT DEF open
  <1>2. NoTrafficBeforeConfig'
    BY SMTT(20), <1>1 DEF NoTrafficBeforeConfig
  <1>3. Len(outbox') <= MaxOutbox /\ deadline' \in {Off} \cup Nat
    BY SMTT(20), <1>1, SessionAssumption DEF open
  <1>4. /\ tx_in_flight' = FALSE /\ awaiting_pong' = FALSE /\ phase' = "WaitHello"
        /\ config_op_token' = 0 /\ tx_seq' = 0 /\ tx_deadline' = 0 /\ ping_timer' = 0
    BY DEF open
  <1>5. 0 \in Nat
    OBVIOUS
  <1>. QED  BY <1>1, <1>2, <1>3, <1>4, <1>5 DEF SessionInv, SessionTypeOK, Phases

(* Every step of the session keeps SessionInv. *)
LEMMA SessionStep == ASSUME SessionInv, SessionNext PROVE SessionInv'
  <1>1. CASE Client
    BY <1>1, HelloStep, RefuseStep, PongStep, AuthStep, CloseStep
       DEF Client, OnInvalidConfigure, OnIllegalFrame
  <1>2. CASE BackendCalls
    BY <1>2, ConfigureStep, TxRequestStep, ConfigDoneStep, TxDoneStep, RxStep, CloseStep,
       StutterStep
       DEF BackendCalls, on_backend_failure
  <1>3. CASE open \/ Turn \/ Elapse
    BY <1>3, OpenStep, TickStep, ElapseStep DEF Turn
  <1>4. CASE \E n \in 1 .. MaxOutbox : out_consume(n)
    BY SMT, <1>4, ConsumeStep, SessionAssumption
  <1>. QED  BY <1>1, <1>2, <1>3, <1>4 DEF SessionNext

(* SessionInv is an invariant of the session, whatever the client and the backend do. *)
THEOREM SessionInvariant == SessionSpec => []SessionInv
  <1>1. SessionInit => SessionInv
    <2>. SUFFICES ASSUME SessionInit PROVE SessionInv
      OBVIOUS
    <2>1. outbox \in Seq(Replies) /\ Len(outbox) = 0
      BY SMT DEF SessionInit
    <2>2. NoTrafficBeforeConfig
      BY SMT, <2>1 DEF NoTrafficBeforeConfig
    <2>3. Len(outbox) <= MaxOutbox /\ 0 \in Nat
      BY SMT, <2>1, SessionAssumption
    <2>. QED  BY <2>1, <2>2, <2>3 DEF SessionInit, SessionInv, SessionTypeOK, Phases
  <1>2. SessionInv /\ [SessionNext]_svars => SessionInv'
    BY SessionStep, StutterStep
  <1>. QED  BY <1>1, <1>2, PTL DEF SessionSpec

(* The session's queue is bounded and its variables have their types,       *)
(* whatever the client and the backend do.                                  *)
THEOREM SessionTyped == SessionSpec => []SessionTypeOK
  <1>1. SessionInv => SessionTypeOK
    BY DEF SessionInv
  <1>. QED  BY <1>1, SessionInvariant, PTL

(* No traffic is queued before CFG_OK, for every size of the queue: not     *)
(* even if the backend completes, receives and fails out of turn.           *)
THEOREM TrafficAfterConfig == SessionSpec => []NoTrafficBeforeConfig
  <1>1. SessionInv => NoTrafficBeforeConfig
    BY DEF SessionInv
  <1>. QED  BY <1>1, SessionInvariant, PTL

(* A session that is closed queues nothing more. *)
THEOREM ClosedSilent == SessionSpec => ClosedIsSilent
  <1>. DEFINE Silent == phase = "Closed" /\ phase' = "Closed" => Len(outbox') <= Len(outbox)
  <1>1. ASSUME SessionInv, [SessionNext]_svars, phase = "Closed", phase' = "Closed"
        PROVE  Len(outbox') <= Len(outbox)
    <2>0. outbox \in Seq(Replies) /\ tx_in_flight = FALSE /\ deadline = Off
      BY <1>1 DEF SessionInv, SessionTypeOK
    <2>1. CASE UNCHANGED outbox
      BY SMT, <2>0, <2>1
    <2>2. CASE \E n \in 1 .. MaxOutbox : out_consume(n)
      BY SMTT(20), <2>0, <2>2, SessionAssumption DEF out_consume
    <2>3. ~Client \/ UNCHANGED outbox
      BY <1>1 DEF Client, OnHello, OnInvalidConfigure, OnPong, OnAuthResponse, OnIllegalFrame
    <2>4. ~BackendCalls \/ UNCHANGED outbox
      BY <1>1, <2>0 DEF BackendCalls, OnConfigure, OnTxRequest, on_configure_complete,
                 on_tx_complete, on_rx, on_backend_failure, CloseNow, svars
    <2>5. ~Turn \/ UNCHANGED outbox
      BY <1>1, <2>0 DEF Turn, tick, KeepaliveDue, TxExpired, CloseNow, svars
    <2>6. ~open /\ (Elapse => UNCHANGED outbox)
      BY <1>1 DEF open, Elapse
    <2>. QED  BY <1>1, <2>1, <2>2, <2>3, <2>4, <2>5, <2>6 DEF SessionNext, svars
  <1>2. SessionInv /\ [SessionNext]_svars => [Silent]_svars
    BY <1>1
  <1>. QED  BY <1>2, SessionInvariant, PTL DEF SessionSpec, ClosedIsSilent
-------------------------------------------------------------------------------
(* The stream parsers.                                                      *)
(*                                                                          *)
(* Decode is a recursive function on streams.  The first part shows that    *)
(* the function exists, so that its definition may be unfolded; induction   *)
(* is by the least counterexample, which exists because < is well-founded   *)
(* on the naturals.                                                         *)

Streams == Seq(Cells)
Protocols == {"XR", "DATA"}

(* A set of natural numbers that is not empty has a least element. *)
LEMMA Least ==
    ASSUME NEW T, T \subseteq Nat, T # {}
    PROVE  \E n \in T : \A m \in T : n <= m
  <1>1. PICK x \in T : \A y \in T : ~(<<y, x>> \in OpToRel(<, Nat))
    BY WFMin, NatLessThanWellFounded
  <1>2. \A y \in T : ~(y < x)
    BY <1>1 DEF OpToRel
  <1>. QED BY SMT, <1>2

(* What is behind the first frame of a stream is a shorter stream. *)
LEMMA BehindFirstShorter ==
    ASSUME NEW p \in Protocols, NEW s \in Streams,
           Len(s) >= HeaderLen(p), HeaderOK(p, s),
           Len(s) >= HeaderLen(p) + LengthOf(p, s)
    PROVE  /\ BehindFirst(p, s) \in Streams
           /\ Len(BehindFirst(p, s)) = Len(s) - HeaderLen(p) - LengthOf(p, s)
           /\ Len(BehindFirst(p, s)) < Len(s)
           /\ LengthOf(p, s) \in Nat /\ HeaderLen(p) \in Nat
  <1>1. LengthOf(p, s) \in Nat /\ HeaderLen(p) \in {2, 4}
    BY SMT, StreamAssumption DEF LengthOf, HeaderOK, HeaderLen, Protocols
  <1>2. Len(s) \in Nat
    BY LenProperties DEF Streams
  <1>. DEFINE m == HeaderLen(p) + LengthOf(p, s) + 1
  <1>3. m \in Int /\ m >= 1 /\ Len(s) \in Int /\ m <= Len(s) + 1
    BY SMT, <1>1, <1>2
  <1>4. /\ SubSeq(s, m, Len(s)) \in Seq(Cells)
        /\ Len(SubSeq(s, m, Len(s))) = IF m <= Len(s) THEN Len(s) - m + 1 ELSE 0
    <2>. HIDE DEF m
    <2>. QED BY SMT, <1>3, SubSeqProperties DEF Streams
  <1>. QED BY SMTT(20), <1>1, <1>2, <1>4 DEF BehindFirst, Streams

(* One step of decoding uses the decoding of shorter streams only. *)
LEMMA DecodingLocal ==
    ASSUME NEW p \in Protocols, NEW s \in Streams, NEW g, NEW h,
           \A r \in Streams : Len(r) < Len(s) => g[r] = h[r]
    PROVE  Decoding(p, s, g) = Decoding(p, s, h)
  <1>1. CASE Len(s) < HeaderLen(p) \/ ~HeaderOK(p, s) \/ Len(s) < HeaderLen(p) + LengthOf(p, s)
    BY <1>1 DEF Decoding
  <1>2. CASE /\ ~(Len(s) < HeaderLen(p)) /\ HeaderOK(p, s)
             /\ ~(Len(s) < HeaderLen(p) + LengthOf(p, s))
    <2>1. HeaderLen(p) \in Nat /\ LengthOf(p, s) \in Nat /\ Len(s) \in Nat
      BY SMTT(20), <1>2, LenProperties, StreamAssumption
         DEF HeaderLen, LengthOf, HeaderOK, Protocols, Streams
    <2>2. BehindFirst(p, s) \in Streams /\ Len(BehindFirst(p, s)) < Len(s)
      BY SMTT(20), <1>2, <2>1, BehindFirstShorter
    <2>3. g[BehindFirst(p, s)] = h[BehindFirst(p, s)]
      BY <2>2
    <2>. QED BY <2>3 DEF Decoding
  <1>. QED BY <1>1, <1>2

Short(n) == {s \in Streams : Len(s) <= n}
Solves(p, n, g) == g = [s \in Short(n) |-> Decoding(p, s, g)]

(* Two functions that solve the recursion agree where both are defined. *)
LEMMA SolutionsAgree ==
    ASSUME NEW p \in Protocols, NEW n \in Nat, NEW m \in Nat, NEW g, NEW h,
           Solves(p, n, g), Solves(p, m, h)
    PROVE  \A s \in Streams : Len(s) <= n /\ Len(s) <= m => g[s] = h[s]
  <1>. DEFINE Bad(s) == Len(s) <= n /\ Len(s) <= m /\ g[s] # h[s]
              T == {k \in Nat : \E s \in Streams : Len(s) = k /\ Bad(s)}
  <1>. SUFFICES ASSUME T # {} PROVE FALSE
    <2>1. \A s \in Streams : Len(s) \in Nat
      BY LenProperties DEF Streams
    <2>. QED BY <2>1
  <1>1. PICK k \in T : \A j \in T : k <= j
    <2>1. T \subseteq Nat
      OBVIOUS
    <2>. HIDE DEF T
    <2>. QED BY <2>1, Least
  <1>2. PICK s \in Streams : Len(s) = k /\ Bad(s)
    OBVIOUS
  <1>3. \A r \in Streams : Len(r) < Len(s) => g[r] = h[r]
    <2>. SUFFICES ASSUME NEW r \in Streams, Len(r) < Len(s), g[r] # h[r] PROVE FALSE
      OBVIOUS
    <2>1. Len(r) \in Nat /\ Len(s) \in Nat
      BY LenProperties DEF Streams
    <2>2. Len(r) \in T
      BY SMTT(20), <1>2, <2>1
    <2>. QED BY SMTT(20), <1>1, <1>2, <2>1, <2>2
  <1>4. Decoding(p, s, g) = Decoding(p, s, h)
    BY ZenonT(30), <1>3, DecodingLocal
  <1>5. g[s] = Decoding(p, s, g) /\ h[s] = Decoding(p, s, h)
    BY <1>2 DEF Solves, Short
  <1>. QED BY <1>2, <1>4, <1>5

(* For every length there is a function that solves the recursion. *)
LEMMA SolutionExists ==
    ASSUME NEW p \in Protocols
    PROVE  \A n \in Nat : \E g : Solves(p, n, g)
  <1>. DEFINE T == {n \in Nat : ~ \E g : Solves(p, n, g)}
  <1>. SUFFICES ASSUME T # {} PROVE FALSE
    OBVIOUS
  <1>1. PICK n \in T : \A j \in T : n <= j
    <2>1. T \subseteq Nat
      OBVIOUS
    <2>. HIDE DEF T
    <2>. QED BY <2>1, Least
  <1>2. PICK g : n > 0 => Solves(p, n - 1, g)
    <2>1. CASE n = 0
      BY SMT, <2>1
    <2>2. CASE n > 0
      <3>1. n - 1 \in Nat /\ n - 1 \notin T
        BY SMTT(20), <1>1, <2>2
      <3>. QED BY <3>1
    <2>. QED BY <2>1, <2>2
  <1>. DEFINE h == [s \in Short(n) |-> Decoding(p, s, g)]
  <1>3. ASSUME NEW s \in Short(n) PROVE Decoding(p, s, g) = Decoding(p, s, h)
    <2>1. ASSUME NEW r \in Streams, Len(r) < Len(s) PROVE g[r] = h[r]
      <3>1. Len(r) \in Nat /\ Len(s) \in Nat /\ Len(s) <= n /\ n \in Nat
        BY LenProperties DEF Streams, Short
      <3>2. n > 0 /\ Len(r) <= n - 1 /\ Len(r) <= n
        BY SMTT(20), <2>1, <3>1
      <3>3. r \in Short(n - 1) /\ r \in Short(n)
        BY <3>2 DEF Short
      <3>4. g[r] = Decoding(p, r, g)
        BY <1>2, <3>2, <3>3 DEF Solves
      <3>. QED BY <3>3, <3>4
    <2>2. s \in Streams
      BY DEF Short
    <2>. HIDE DEF h
    <2>. QED BY <2>1, <2>2, DecodingLocal
  <1>4. Solves(p, n, h)
    <2>1. h = [s \in Short(n) |-> Decoding(p, s, h)]
      BY <1>3
    <2>. HIDE DEF h
    <2>. QED BY <2>1 DEF Solves
  <1>. QED BY <1>4

(* Decode is the function its definition says it is. *)
LEMMA DecodeUnfolds ==
    ASSUME NEW p \in Protocols
    PROVE  Decode(p) = [s \in Streams |-> Decoding(p, s, Decode(p))]
  <1>. DEFINE G(n) == CHOOSE g : Solves(p, n, g)
              D == [s \in Streams |-> G(Len(s))[s]]
  <1>1. \A s \in Streams : Len(s) \in Nat
    BY LenProperties DEF Streams
  <1>2. \A n \in Nat : Solves(p, n, G(n))
    BY SolutionExists
  <1>3. ASSUME NEW s \in Streams PROVE D[s] = Decoding(p, s, D)
    <2>. HIDE DEF G
    <2>1. ASSUME NEW r \in Streams, Len(r) < Len(s) PROVE G(Len(s))[r] = D[r]
      <3>1. Len(r) \in Nat /\ Len(s) \in Nat
        BY <1>1
      <3>2. G(Len(s))[r] = G(Len(r))[r]
        BY SMTT(20), <1>2, <2>1, <3>1, SolutionsAgree
      <3>. QED BY <3>2
    <2>2. Decoding(p, s, G(Len(s))) = Decoding(p, s, D)
      <3>. HIDE DEF D
      <3>. QED BY <2>1, DecodingLocal
    <2>3. s \in Short(Len(s))
      BY SMT, <1>1 DEF Short
    <2>4. G(Len(s))[s] = Decoding(p, s, G(Len(s)))
      BY <1>1, <1>2, <2>3 DEF Solves
    <2>. QED BY <2>2, <2>4
  <1>4. D = [s \in Streams |-> Decoding(p, s, D)]
    BY <1>3
  <1>. HIDE DEF D
  <1>. QED BY <1>4 DEF Decode, Streams

LEMMA StreamAssoc ==
    ASSUME NEW s \in Streams, NEW t \in Streams, NEW u \in Streams
    PROVE  (s \o t) \o u = s \o (t \o u)
  BY SMTT(20), ConcatAssociative DEF Streams

LEMMA OneMoreInFront ==
    ASSUME NEW s \in Seq(Streams), NEW e \in Streams, NEW u \in Seq(Streams)
    PROVE  s \o (<<e>> \o u) = (s \o <<e>>) \o u
  <1>. DEFINE one == <<e>>
  <1>1. one \in Seq(Streams)
    BY SMT
  <1>. HIDE DEF one
  <1>2. s \o (one \o u) = (s \o one) \o u
    BY SMTT(20), <1>1, ConcatAssociative
  <1>. QED BY <1>2 DEF one

Decoded == [frames : Seq(Streams), bad : BOOLEAN]

(* What Decode returns is a sequence of frames and a truth value. *)
LEMMA DecodeType ==
    ASSUME NEW p \in Protocols
    PROVE  \A s \in Streams : Decode(p)[s] \in Decoded
  <1>. DEFINE T == {k \in Nat : \E s \in Streams : Len(s) = k /\ Decode(p)[s] \notin Decoded}
  <1>. SUFFICES ASSUME T # {} PROVE FALSE
    <2>1. \A s \in Streams : Len(s) \in Nat
      BY LenProperties DEF Streams
    <2>. QED BY <2>1
  <1>1. PICK k \in T : \A j \in T : k <= j
    <2>1. T \subseteq Nat
      OBVIOUS
    <2>. HIDE DEF T
    <2>. QED BY <2>1, Least
  <1>2. PICK s \in Streams : Len(s) = k /\ Decode(p)[s] \notin Decoded
    OBVIOUS
  <1>3. Decode(p)[s] = Decoding(p, s, Decode(p))
    BY DecodeUnfolds
  <1>4. CASE Len(s) < HeaderLen(p) \/ ~HeaderOK(p, s) \/ Len(s) < HeaderLen(p) + LengthOf(p, s)
    BY SMTT(20), <1>2, <1>3, <1>4 DEF Decoding, Decoded
  <1>5. CASE /\ ~(Len(s) < HeaderLen(p)) /\ HeaderOK(p, s)
             /\ ~(Len(s) < HeaderLen(p) + LengthOf(p, s))
    <2>. DEFINE r == BehindFirst(p, s)
    <2>1. HeaderLen(p) \in Nat \ {0} /\ LengthOf(p, s) \in Nat /\ Len(s) \in Nat
      BY SMTT(20), <1>5, LenProperties, StreamAssumption
         DEF HeaderLen, LengthOf, HeaderOK, Protocols, Streams
    <2>2. r \in Streams /\ Len(r) < Len(s)
      BY SMTT(20), <1>5, <2>1, BehindFirstShorter
    <2>3. Decode(p)[r] \in Decoded
      <3>1. Len(r) \in Nat
        BY <2>2, LenProperties DEF Streams
      <3>. QED BY SMTT(20), <1>1, <1>2, <2>1, <2>2, <3>1
    <2>4. FirstFrame(p, s) \in Streams
      <3>1. 1 \in Int /\ HeaderLen(p) + LengthOf(p, s) \in Int
            /\ HeaderLen(p) + LengthOf(p, s) <= Len(s)
        BY SMTT(20), <1>5, <2>1
      <3>. QED BY SMTT(20), <3>1, SubSeqProperties DEF FirstFrame, Streams
    <2>. HIDE DEF r
    <2>5. <<FirstFrame(p, s)>> \o Decode(p)[r].frames \in Seq(Streams)
      BY SMTT(20), <2>3, <2>4, ConcatProperties DEF Decoded
    <2>6. Decode(p)[s] = [frames |-> <<FirstFrame(p, s)>> \o Decode(p)[r].frames,
                          bad |-> Decode(p)[r].bad]
      BY <1>3, <1>5 DEF Decoding, r
    <2>. QED BY SMTT(20), <1>2, <2>3, <2>5, <2>6 DEF Decoded
  <1>. QED BY <1>4, <1>5
-------------------------------------------------------------------------------
(* What a pop finds at the front of the buffer is what Decode finds at the  *)
(* front of any stream that begins with the buffer.                         *)

(* The header of a buffer is the header of what begins with it. *)
LEMMA HeaderOfFront ==
    ASSUME proto \in Protocols, NEW b \in Streams, NEW rest \in Streams,
           ~(Len(b) < HeaderLen(proto))
    PROVE  /\ b \o rest \in Streams /\ Len(b \o rest) = Len(b) + Len(rest)
           /\ Len(b) \in Nat /\ Len(rest) \in Nat
           /\ HeaderLen(proto) \in Nat \ {0}
           /\ LengthOf(proto, b) \in Nat
           /\ LengthOf(proto, b \o rest) = LengthOf(proto, b)
           /\ HeaderOK(proto, b \o rest) =
                 ((IF proto = "XR" THEN LegalXr(b) ELSE LegalData(b)) /\ LengthLegal(b))
  <1>1. /\ b \o rest \in Streams /\ Len(b \o rest) = Len(b) + Len(rest)
        /\ Len(b) \in Nat /\ Len(rest) \in Nat
        /\ \A i \in 1 .. Len(b) : (b \o rest)[i] = b[i]
    BY SMTT(20), ConcatProperties, LenProperties DEF Streams
  <1>2. \A i \in 1 .. Len(b) : b[i] \in Nat
    BY StreamAssumption, ElementOfSeq DEF Streams
  <1>3. CASE proto = "XR"
    <2>1. \A i \in 1 .. 4 : i \in 1 .. Len(b)
      BY SMTT(20), <1>1, <1>3 DEF HeaderLen
    <2>2. \A i \in 1 .. 4 : (b \o rest)[i] = b[i] /\ b[i] \in Nat
      BY <1>1, <1>2, <2>1
    <2>. QED BY SMTT(20), <1>1, <1>3, <2>2, StreamAssumption
         DEF HeaderLen, LengthOf, HeaderOK, LegalXr, LengthLegal
  <1>4. CASE proto = "DATA"
    <2>1. \A i \in 1 .. 2 : i \in 1 .. Len(b)
      BY SMTT(20), <1>1, <1>4 DEF HeaderLen
    <2>2. \A i \in 1 .. 2 : (b \o rest)[i] = b[i] /\ b[i] \in Nat
      BY <1>1, <1>2, <2>1
    <2>. QED BY SMTT(20), <1>1, <1>4, <2>2, StreamAssumption
         DEF HeaderLen, LengthOf, HeaderOK, LegalData, LengthLegal
  <1>. QED BY <1>3, <1>4 DEF Protocols

(* A frame at the front of the buffer is the first frame of the stream, and *)
(* Decode goes on behind it.                                                *)
LEMMA PopFindsFrame ==
    ASSUME proto \in Protocols, NEW b \in Streams, NEW rest \in Streams,
           PopResult(b) = "frame"
    PROVE  LET left == SubSeq(b, Len(FrontFrame(b)) + 1, Len(b))
           IN /\ FrontFrame(b) \in Streams /\ left \in Streams
              /\ Len(left) <= Len(b)
              /\ Decode(proto)[b \o rest] =
                   [frames |-> <<FrontFrame(b)>> \o Decode(proto)[left \o rest].frames,
                    bad |-> Decode(proto)[left \o rest].bad]
  <1>. DEFINE s == b \o rest
              n == HeaderLen(proto) + LengthOf(proto, b)
              left == SubSeq(b, Len(FrontFrame(b)) + 1, Len(b))
  <1>1. /\ ~(Len(b) < HeaderLen(proto))
        /\ (IF proto = "XR" THEN LegalXr(b) ELSE LegalData(b)) /\ LengthLegal(b)
        /\ ~(Len(b) < HeaderLen(proto) + LengthOf(proto, b))
    BY DEF PopResult
  <1>2. /\ s \in Streams /\ Len(s) = Len(b) + Len(rest)
        /\ Len(b) \in Nat /\ Len(rest) \in Nat
        /\ HeaderLen(proto) \in Nat \ {0} /\ LengthOf(proto, b) \in Nat
        /\ LengthOf(proto, s) = LengthOf(proto, b)
        /\ HeaderOK(proto, s)
    BY <1>1, HeaderOfFront
  <1>3. n \in 1 .. Len(b) /\ n = HeaderLen(proto) + LengthOf(proto, s) /\ n <= Len(s)
    BY SMT, <1>1, <1>2
  <1>. HIDE DEF n
  <1>4. FrontFrame(b) = SubSeq(b, 1, n)
    BY DEF FrontFrame, n
  <1>5. FrontFrame(b) \in Streams /\ Len(FrontFrame(b)) = n
    <2>1. 1 \in Int /\ n \in Int /\ \A i \in 1 .. n : b[i] \in Cells
      BY SMTT(20), <1>2, <1>3, ElementOfSeq DEF Streams
    <2>2. /\ SubSeq(b, 1, n) \in Seq(Cells)
          /\ Len(SubSeq(b, 1, n)) = IF 1 <= n THEN n - 1 + 1 ELSE 0
      BY SMTT(20), <2>1, SubSeqProperties
    <2>. QED BY SMTT(20), <1>3, <1>4, <2>2 DEF Streams
  <1>6. FirstFrame(proto, s) = FrontFrame(b)
    <2>1. FirstFrame(proto, s) = SubSeq(s, 1, n)
      BY <1>3 DEF FirstFrame
    <2>2. SubSeq(b \o rest, 1, n) = SubSeq(b, 1, n)
      <3>1. 1 \in 1 .. Len(b) /\ n \in 1 .. Len(b)
        BY SMTT(20), <1>2, <1>3
      <3>. QED BY <3>1, SubSeqOfConcat1 DEF Streams
    <2>. QED BY <1>4, <2>1, <2>2
  <1>7. /\ left = SubSeq(b, n + 1, Len(b))
        /\ left \in Seq(Cells) /\ Len(left) = Len(b) - n
        /\ \A i \in 1 .. Len(left) : left[i] = b[n + i]
    <2>1. left = SubSeq(b, n + 1, Len(b))
      BY <1>5
    <2>2. n + 1 \in Int /\ Len(b) \in Int /\ \A i \in n + 1 .. Len(b) : b[i] \in Cells
      BY SMTT(20), <1>2, <1>3, ElementOfSeq DEF Streams
    <2>3. /\ left \in Seq(Cells)
          /\ Len(left) = IF n + 1 <= Len(b) THEN Len(b) - (n + 1) + 1 ELSE 0
          /\ \A i \in 1 .. Len(b) - (n + 1) + 1 : left[i] = b[n + 1 + i - 1]
      BY SMTT(20), <2>1, <2>2, SubSeqProperties
    <2>4. Len(left) = Len(b) - n /\ Len(b) - (n + 1) + 1 = Len(b) - n
      BY SMTT(20), <1>2, <1>3, <2>3
    <2>5. \A i \in 1 .. Len(left) : n + 1 + i - 1 = n + i
      BY SMTT(20), <1>2, <1>3, <2>4
    <2>. HIDE DEF left
    <2>. QED BY <2>1, <2>3, <2>4, <2>5
  <1>. HIDE DEF left
  <1>8. BehindFirst(proto, s) = left \o rest
    <2>. DEFINE behind == SubSeq(s, n + 1, Len(s))
    <2>1. BehindFirst(proto, s) = behind
      BY <1>3 DEF BehindFirst
    <2>2. n + 1 \in Int /\ Len(s) \in Int /\ \A i \in n + 1 .. Len(s) : s[i] \in Cells
      BY SMTT(20), <1>2, <1>3, ElementOfSeq DEF Streams
    <2>3. /\ behind \in Seq(Cells)
          /\ Len(behind) = IF n + 1 <= Len(s) THEN Len(s) - (n + 1) + 1 ELSE 0
          /\ \A i \in 1 .. Len(s) - (n + 1) + 1 : behind[i] = s[n + 1 + i - 1]
      <3>. HIDE DEF s
      <3>. QED BY SMTT(20), <2>2, SubSeqProperties
    <2>4. /\ left \o rest \in Seq(Cells)
          /\ Len(left \o rest) = Len(left) + Len(rest)
          /\ \A i \in 1 .. Len(left) + Len(rest) : (left \o rest)[i] =
                IF i <= Len(left) THEN left[i] ELSE rest[i - Len(left)]
      BY ZenonT(30), <1>7, ConcatProperties DEF Streams
    <2>5. \A i \in 1 .. Len(b) + Len(rest) : s[i] = IF i <= Len(b) THEN b[i] ELSE rest[i - Len(b)]
      BY ConcatProperties DEF Streams
    <2>. HIDE DEF s, behind
    <2>6. Len(behind) = Len(left \o rest) /\ Len(behind) = Len(s) - n
      <3>1. Len(s) \in Nat /\ n \in Nat /\ n <= Len(s)
        BY SMTT(20), <1>2, <1>3
      <3>2. Len(behind) = IF n + 1 <= Len(s) THEN Len(s) - (n + 1) + 1 ELSE 0
        BY <2>3
      <3>3. Len(behind) = Len(s) - n
        BY SMTT(20), <3>1, <3>2
      <3>4. Len(left \o rest) = Len(b) - n + Len(rest) /\ n \in Nat
        BY SMTT(20), <1>3, <1>7, <2>4
      <3>5. Len(b) - n + Len(rest) = Len(s) - n
        BY SMTT(20), <1>2, <3>1
      <3>. QED BY <3>3, <3>4, <3>5
    <2>7. ASSUME NEW i \in 1 .. Len(behind) PROVE behind[i] = (left \o rest)[i]
      <3>1. behind[i] = s[n + i] /\ n + i \in 1 .. Len(b) + Len(rest)
        <4>1. i \in 1 .. Len(s) - (n + 1) + 1 /\ n + 1 + i - 1 = n + i
          BY SMTT(20), <1>2, <1>3, <2>6
        <4>2. behind[i] = s[n + 1 + i - 1]
          BY <2>3, <4>1
        <4>3. n + i \in 1 .. Len(b) + Len(rest)
          BY SMTT(20), <1>2, <1>3, <2>6
        <4>. QED BY <4>1, <4>2, <4>3
      <3>2. CASE i <= Len(left)
        <4>1. n + i <= Len(b) /\ i \in 1 .. Len(left)
          BY SMTT(20), <1>2, <1>3, <1>7, <3>2
        <4>2. behind[i] = b[n + i] /\ (left \o rest)[i] = left[i]
          BY <2>4, <2>5, <2>6, <3>1, <3>2, <4>1
        <4>. QED BY <1>7, <4>1, <4>2
      <3>3. CASE ~(i <= Len(left))
        <4>1. i \in Int /\ n \in Int /\ Len(b) \in Int /\ Len(left) = Len(b) - n
          BY SMTT(20), <1>2, <1>3, <1>7, <2>6
        <4>2. ~(n + i <= Len(b)) /\ (n + i) - Len(b) = i - Len(left)
          BY SMTT(20), <3>3, <4>1
        <4>3. behind[i] = rest[(n + i) - Len(b)]
          BY <2>5, <3>1, <4>2
        <4>4. (left \o rest)[i] = rest[i - Len(left)]
          BY <2>4, <2>6, <3>3
        <4>. QED BY <4>2, <4>3, <4>4
      <3>. QED BY <3>2, <3>3
    <2>. QED BY <2>1, <2>3, <2>4, <2>6, <2>7, SeqEqual
  <1>9. Decode(proto)[s] = Decoding(proto, s, Decode(proto))
    BY <1>2, DecodeUnfolds
  <1>10. ~(Len(s) < HeaderLen(proto)) /\ ~(Len(s) < HeaderLen(proto) + LengthOf(proto, s))
    BY SMTT(20), <1>2, <1>3
  <1>11. Decode(proto)[s] = [frames |-> <<FrontFrame(b)>> \o Decode(proto)[left \o rest].frames,
                             bad |-> Decode(proto)[left \o rest].bad]
    BY <1>2, <1>6, <1>8, <1>9, <1>10 DEF Decoding
  <1>. QED BY SMTT(30), <1>2, <1>3, <1>5, <1>7, <1>11 DEF left, Streams

(* An error at the front of the buffer is one of the stream. *)
LEMMA PopFindsError ==
    ASSUME proto \in Protocols, NEW b \in Streams, NEW rest \in Streams,
           PopResult(b) = "error"
    PROVE  Decode(proto)[b \o rest] = [frames |-> <<>>, bad |-> TRUE]
  <1>1. /\ ~(Len(b) < HeaderLen(proto))
        /\ ~((IF proto = "XR" THEN LegalXr(b) ELSE LegalData(b)) /\ LengthLegal(b))
    BY DEF PopResult
  <1>2. /\ b \o rest \in Streams /\ Len(b \o rest) = Len(b) + Len(rest)
        /\ Len(b) \in Nat /\ Len(rest) \in Nat /\ HeaderLen(proto) \in Nat
        /\ ~HeaderOK(proto, b \o rest)
    BY <1>1, HeaderOfFront
  <1>3. ~(Len(b \o rest) < HeaderLen(proto))
    BY SMTT(20), <1>1, <1>2
  <1>. QED BY <1>2, <1>3, DecodeUnfolds DEF Decoding

(* A buffer with no complete frame and no illegal header has none for       *)
(* Decode either, and it is not full.                                       *)
LEMMA PopNeedsMore ==
    ASSUME proto \in Protocols, NEW b \in Streams, PopResult(b) = "need_more"
    PROVE  /\ Decode(proto)[b] = [frames |-> <<>>, bad |-> FALSE]
           /\ Len(b) < Capacity
  <1>1. Len(b) \in Nat /\ HeaderLen(proto) \in Nat /\ MaxPayload \in Nat
    BY LenProperties, StreamAssumption DEF Streams, HeaderLen
  <1>2. Decode(proto)[b] = Decoding(proto, b, Decode(proto))
    BY DecodeUnfolds
  <1>3. CASE Len(b) < HeaderLen(proto)
    BY SMTT(20), <1>1, <1>2, <1>3 DEF Decoding, Capacity
  <1>4. CASE ~(Len(b) < HeaderLen(proto))
    <2>1. /\ (IF proto = "XR" THEN LegalXr(b) ELSE LegalData(b)) /\ LengthLegal(b)
          /\ Len(b) < HeaderLen(proto) + LengthOf(proto, b)
      BY <1>4 DEF PopResult
    <2>2. LengthOf(proto, b) \in Nat /\ LengthOf(proto, b) <= MaxPayload
      BY <1>4, <2>1, HeaderOfFront DEF LengthLegal
    <2>3. HeaderOK(proto, b)
      <3>1. <<>> \in Streams /\ b \o <<>> = b
        BY EmptySeq, ConcatEmptySeq DEF Streams
      <3>. QED BY <1>4, <2>1, <3>1, HeaderOfFront
    <2>. QED BY SMTT(20), <1>1, <1>2, <1>4, <2>1, <2>2, <2>3 DEF Decoding, Capacity
  <1>. QED BY <1>3, <1>4
-------------------------------------------------------------------------------
(* The inductive invariant. *)

TypeOK ==
    /\ proto \in Protocols /\ received \in Streams /\ chunk \in Streams
    /\ off \in 0 .. Len(chunk) /\ buf \in Streams /\ frames \in Seq(Streams)
    /\ pc \in {"idle", "feeding", "failed", "closed"}

(* What was read and is not in a frame yet. *)
Pending == buf \o SubSeq(chunk, off + 1, Len(chunk))

(* However the stream goes on, its frames are those handed on and then      *)
(* those of what is pending.  The continuation is what makes this           *)
(* inductive: a read extends the stream and what is pending alike.          *)
ParsedSoFar ==
    \A t \in Streams :
        /\ Decode(proto)[received \o t].frames = frames \o Decode(proto)[Pending \o t].frames
        /\ Decode(proto)[received \o t].bad = Decode(proto)[Pending \o t].bad

(* Where the loop rests, it has nothing left to do. *)
Resting ==
    /\ pc = "idle" => PopResult(buf) = "need_more" /\ off = Len(chunk)
    /\ pc = "failed" => PopResult(buf) = "error"

IInv == TypeOK /\ ParsedSoFar /\ Resting /\ Len(buf) <= Capacity

LEMMA InitHolds == Init => IInv
  <1>. SUFFICES ASSUME Init PROVE IInv
    OBVIOUS
  <1>1. /\ <<>> \in Streams /\ <<>> \in Seq(Streams) /\ Len(<<>>) = 0
        /\ proto \in Protocols /\ HeaderLen(proto) \in Nat \ {0} /\ MaxPayload \in Nat
    BY SMTT(20), EmptySeq, StreamAssumption DEF Init, Streams, Protocols, HeaderLen
  <1>2. TypeOK
    BY SMT, <1>1 DEF Init, TypeOK
  <1>3. Pending = <<>>
    <2>1. SubSeq(<<>>, 0 + 1, 0) = <<>>
      BY SMT, SubSeqEmpty
    <2>. QED BY <1>1, <2>1, ConcatEmptySeq DEF Init, Pending, Streams
  <1>4. ParsedSoFar
    <2>. SUFFICES ASSUME NEW t \in Streams
         PROVE  /\ Decode(proto)[received \o t].frames
                      = frames \o Decode(proto)[Pending \o t].frames
                /\ Decode(proto)[received \o t].bad = Decode(proto)[Pending \o t].bad
      BY DEF ParsedSoFar
    <2>1. received = <<>> /\ frames = <<>>
      BY DEF Init
    <2>2. <<>> \o t = t
      BY ConcatEmptySeq DEF Streams
    <2>3. Decode(proto)[t].frames \in Seq(Streams)
      BY <1>1, DecodeType DEF Decoded
    <2>4. <<>> \o Decode(proto)[t].frames = Decode(proto)[t].frames
      BY <2>3, ConcatEmptySeq
    <2>. QED BY <1>3, <2>1, <2>2, <2>4
  <1>5. Resting
    BY SMT, <1>1 DEF Init, Resting, PopResult
  <1>. QED BY SMTT(20), <1>1, <1>2, <1>4, <1>5 DEF IInv, Init, Capacity

LEMMA ReadStep == ASSUME IInv, Read PROVE IInv'
  <1>. USE DEF IInv
  <1>1. PICK n \in 1 .. MaxRead : \E bytes \in [1 .. n -> Cells] :
          /\ Len(received) + n <= MaxStream
          /\ chunk' = bytes /\ received' = received \o bytes
    BY DEF Read
  <1>2. PICK bytes \in [1 .. n -> Cells] : chunk' = bytes /\ received' = received \o bytes
    BY <1>1
  <1>3. bytes \in Streams /\ Len(bytes) = n /\ n \in Nat
    BY SMT, StreamAssumption DEF Streams
  <1>4. /\ pc = "idle" /\ pc' = "feeding" /\ off' = 0
        /\ proto' = proto /\ buf' = buf /\ frames' = frames
    BY DEF Read
  <1>5. received \o bytes \in Streams
    BY <1>3, ConcatProperties DEF TypeOK, Streams
  <1>6. TypeOK'
    BY SMTT(20), <1>2, <1>3, <1>4, <1>5 DEF TypeOK
  <1>7. Pending = buf
    <2>1. off = Len(chunk) /\ Len(chunk) \in Nat
      BY <1>4, LenProperties DEF Resting, TypeOK, Streams
    <2>2. SubSeq(chunk, off + 1, Len(chunk)) = <<>>
      BY SMTT(20), <2>1, SubSeqEmpty
    <2>. QED BY <2>2, ConcatEmptySeq DEF Pending, TypeOK, Streams
  <1>8. Pending' = buf \o bytes
    <2>1. SubSeq(bytes, 1, Len(bytes)) = bytes
      BY <1>3, SubSeqFull DEF Streams
    <2>. QED BY SMTT(20), <1>2, <1>4, <2>1 DEF Pending
  <1>9. ParsedSoFar'
    <2>. SUFFICES ASSUME NEW t \in Streams
         PROVE  /\ Decode(proto)[received' \o t].frames
                      = frames \o Decode(proto)[Pending' \o t].frames
                /\ Decode(proto)[received' \o t].bad = Decode(proto)[Pending' \o t].bad
      BY <1>4 DEF ParsedSoFar
    <2>1. bytes \o t \in Streams
      BY <1>3, ConcatProperties DEF Streams
    <2>2. received' \o t = received \o (bytes \o t)
      BY ZenonT(30), <1>2, <1>3, StreamAssoc DEF TypeOK
    <2>3. Pending' \o t = Pending \o (bytes \o t)
      BY <1>3, <1>7, <1>8, StreamAssoc DEF TypeOK
    <2>. QED BY <2>1, <2>2, <2>3 DEF ParsedSoFar
  <1>10. Resting' /\ Len(buf') <= Capacity'
    BY <1>4 DEF Resting, Capacity
  <1>. QED BY <1>6, <1>9, <1>10

LEMMA PopFrameStep == ASSUME IInv, PopFrame PROVE IInv'
  <1>. USE DEF IInv
  <1>. DEFINE f == FrontFrame(buf)
              left == SubSeq(buf, Len(f) + 1, Len(buf))
              unread == SubSeq(chunk, off + 1, Len(chunk))
  <1>1. /\ PopResult(buf) = "frame" /\ pc' \in {"feeding", "closed"}
        /\ frames' = Append(frames, f) /\ buf' = left
        /\ proto' = proto /\ received' = received /\ chunk' = chunk /\ off' = off
    BY DEF PopFrame
  <1>2. unread \in Streams
    <2>1. Len(chunk) \in Nat /\ off \in Nat
      BY SMT, LenProperties DEF TypeOK, Streams
    <2>2. off + 1 \in Int /\ Len(chunk) \in Int
          /\ \A i \in off + 1 .. Len(chunk) : chunk[i] \in Cells
      BY SMT, <2>1, ElementOfSeq DEF TypeOK, Streams
    <2>. QED BY <2>2, SubSeqProperties DEF Streams
  <1>3. ASSUME NEW rest \in Streams
        PROVE  /\ f \in Streams /\ left \in Streams /\ Len(left) <= Len(buf)
               /\ Decode(proto)[buf \o rest] =
                    [frames |-> <<f>> \o Decode(proto)[left \o rest].frames,
                     bad |-> Decode(proto)[left \o rest].bad]
    BY <1>1, PopFindsFrame DEF TypeOK
  <1>4. f \in Streams /\ left \in Streams /\ Len(left) <= Len(buf)
    BY <1>2, <1>3
  <1>. HIDE DEF f, left, unread
  <1>5. Append(frames, f) \in Seq(Streams) /\ Append(frames, f) = frames \o <<f>>
    BY <1>4, AppendProperties, AppendIsConcat DEF TypeOK
  <1>6. TypeOK'
    BY <1>1, <1>4, <1>5 DEF TypeOK
  <1>7. Pending = buf \o unread /\ Pending' = left \o unread
    BY <1>1 DEF Pending, unread
  <1>8. ParsedSoFar'
    <2>. SUFFICES ASSUME NEW t \in Streams
         PROVE  /\ Decode(proto)[received \o t].frames
                      = (frames \o <<f>>) \o Decode(proto)[(left \o unread) \o t].frames
                /\ Decode(proto)[received \o t].bad = Decode(proto)[(left \o unread) \o t].bad
      BY <1>1, <1>5, <1>7 DEF ParsedSoFar
    <2>. DEFINE rest == unread \o t
                after == Decode(proto)[left \o rest]
    <2>1. rest \in Streams
      BY <1>2, ConcatProperties DEF Streams
    <2>2. Pending \o t = buf \o rest /\ (left \o unread) \o t = left \o rest
      <3>1. buf \in Streams
        BY DEF TypeOK
      <3>. QED BY ZenonT(30), <1>2, <1>4, <1>7, <3>1, StreamAssoc DEF rest
    <2>3. Decode(proto)[buf \o rest] = [frames |-> <<f>> \o after.frames, bad |-> after.bad]
      BY <1>3, <2>1
    <2>4. left \o rest \in Streams
      BY <1>4, <2>1, ConcatProperties DEF Streams
    <2>. HIDE DEF rest
    <2>5. after.frames \in Seq(Streams)
      BY <2>4, DecodeType DEF Decoded, TypeOK
    <2>. HIDE DEF after
    <2>6. frames \o (<<f>> \o after.frames) = (frames \o <<f>>) \o after.frames
      <3>1. frames \in Seq(Streams)
        BY DEF TypeOK
      <3>. QED BY <1>4, <2>5, <3>1, OneMoreInFront
    <2>7. /\ Decode(proto)[received \o t].frames = frames \o Decode(proto)[Pending \o t].frames
          /\ Decode(proto)[received \o t].bad = Decode(proto)[Pending \o t].bad
      BY DEF ParsedSoFar
    <2>8. /\ Decode(proto)[received \o t].frames = frames \o (<<f>> \o after.frames)
          /\ Decode(proto)[received \o t].bad = after.bad
      <3>1. /\ Decode(proto)[buf \o rest].frames = <<f>> \o after.frames
            /\ Decode(proto)[buf \o rest].bad = after.bad
        BY SMTT(20), <2>3
      <3>. QED BY <2>2, <2>7, <3>1
    <2>. QED BY <2>2, <2>6, <2>8 DEF after
  <1>9. Resting' /\ Len(buf') <= Capacity'
    <2>1. Len(buf) \in Nat /\ Len(left) \in Nat
      BY <1>4, LenProperties DEF TypeOK, Streams
    <2>2. Capacity \in Nat
      BY SMT, StreamAssumption DEF Capacity, HeaderLen
    <2>. QED BY SMTT(20), <1>1, <1>4, <2>1, <2>2 DEF Resting, Capacity
  <1>. QED BY <1>6, <1>8, <1>9

LEMMA PopErrorStep == ASSUME IInv, PopError PROVE IInv'
  <1>1. /\ PopResult(buf) = "error" /\ pc' = "failed"
        /\ proto' = proto /\ received' = received /\ chunk' = chunk /\ off' = off
        /\ buf' = buf /\ frames' = frames
    BY DEF PopError
  <1>2. TypeOK' /\ Len(buf') <= Capacity'
    BY <1>1 DEF IInv, TypeOK, Capacity
  <1>3. Pending' = Pending
    BY <1>1 DEF Pending
  <1>4. ParsedSoFar'
    BY <1>1, <1>3 DEF IInv, ParsedSoFar
  <1>5. Resting'
    BY <1>1 DEF Resting, PopResult, LegalXr, LegalData, LengthLegal
  <1>. QED BY <1>2, <1>4, <1>5 DEF IInv

(* A push never finds the buffer full, and it moves bytes from the read to  *)
(* the buffer: what is pending stays the same.                              *)
LEMMA PushStep == ASSUME IInv, Push PROVE IInv'
  <1>. DEFINE took == Take(Len(chunk) - off)
              fits == SubSeq(chunk, off + 1, off + took)
              later == SubSeq(chunk, off + took + 1, Len(chunk))
  <1>1. /\ PopResult(buf) = "need_more" /\ off < Len(chunk)
        /\ buf' = buf \o fits /\ off' = off + took
        /\ pc' = IF took = 0 THEN "failed" ELSE "feeding"
        /\ proto' = proto /\ received' = received /\ chunk' = chunk /\ frames' = frames
    BY DEF Push
  <1>2. /\ proto \in Protocols /\ buf \in Streams /\ chunk \in Streams
        /\ Len(chunk) \in Nat /\ off \in Nat /\ Len(buf) \in Nat /\ Capacity \in Nat
    BY SMTT(20), LenProperties, StreamAssumption DEF IInv, TypeOK, Streams, Capacity, HeaderLen
  <1>3. Len(buf) < Capacity
    BY <1>1, <1>2, PopNeedsMore
  <1>4. took \in Nat \ {0} /\ off + took <= Len(chunk) /\ Len(buf) + took <= Capacity
    BY SMTT(20), <1>1, <1>2, <1>3 DEF Take
  <1>. HIDE DEF took
  <1>5. fits \in Streams /\ Len(fits) = took
    <2>1. off + 1 \in Int /\ off + took \in Int
          /\ \A i \in off + 1 .. off + took : chunk[i] \in Cells
      BY SMTT(20), <1>2, <1>4, ElementOfSeq DEF Streams
    <2>2. /\ fits \in Seq(Cells)
          /\ Len(fits) = IF off + 1 <= off + took THEN (off + took) - (off + 1) + 1 ELSE 0
      BY <2>1, SubSeqProperties
    <2>. QED BY SMTT(20), <1>2, <1>4, <2>2 DEF Streams
  <1>6. later \in Streams
    <2>1. off + took + 1 \in Int /\ Len(chunk) \in Int
          /\ \A i \in off + took + 1 .. Len(chunk) : chunk[i] \in Cells
      BY SMTT(20), <1>2, <1>4, ElementOfSeq DEF Streams
    <2>. QED BY <2>1, SubSeqProperties DEF Streams
  <1>7. fits \o later = SubSeq(chunk, off + 1, Len(chunk))
    <2>1. /\ off + 1 \in 1 .. Len(chunk) + 1
          /\ off + took \in (off + 1) - 1 .. Len(chunk)
          /\ Len(chunk) \in off + took .. Len(chunk)
      BY SMTT(20), <1>1, <1>2, <1>4
    <2>. QED BY <1>2, <2>1, ConcatAdjacentSubSeq DEF Streams
  <1>8. Pending' = Pending
    <2>1. Pending' = (buf \o fits) \o later
      BY <1>1 DEF Pending
    <2>2. Pending = buf \o (fits \o later)
      BY <1>7 DEF Pending
    <2>. HIDE DEF fits, later
    <2>. QED BY ZenonT(30), <1>2, <1>5, <1>6, <2>1, <2>2, StreamAssoc
  <1>. HIDE DEF fits
  <1>9. buf \o fits \in Streams /\ Len(buf \o fits) = Len(buf) + took
    BY <1>2, <1>5, ConcatProperties DEF Streams
  <1>10. TypeOK'
    BY SMTT(20), <1>1, <1>2, <1>4, <1>9 DEF IInv, TypeOK
  <1>11. ParsedSoFar'
    BY <1>1, <1>8 DEF IInv, ParsedSoFar
  <1>12. Resting' /\ Len(buf') <= Capacity'
    BY <1>1, <1>4, <1>9 DEF Resting, Capacity
  <1>. QED BY <1>10, <1>11, <1>12 DEF IInv

LEMMA ReadDoneStep == ASSUME IInv, ReadDone PROVE IInv'
  <1>1. /\ PopResult(buf) = "need_more" /\ off = Len(chunk) /\ pc' = "idle"
        /\ proto' = proto /\ received' = received /\ chunk' = chunk /\ off' = off
        /\ buf' = buf /\ frames' = frames
    BY DEF ReadDone
  <1>2. TypeOK' /\ Len(buf') <= Capacity'
    BY <1>1 DEF IInv, TypeOK, Capacity
  <1>3. Pending' = Pending
    BY <1>1 DEF Pending
  <1>4. ParsedSoFar'
    BY <1>1, <1>3 DEF IInv, ParsedSoFar
  <1>5. Resting'
    BY <1>1 DEF Resting, PopResult, LegalXr, LegalData, LengthLegal
  <1>. QED BY <1>2, <1>4, <1>5 DEF IInv

LEMMA ResetStep == ASSUME IInv, Reset PROVE IInv'
  <1>1. Init'
    BY DEF Reset, Init, IInv, TypeOK, Protocols
  <1>2. (Init => IInv)'
    BY InitHolds, PTL
  <1>. QED BY <1>1, <1>2

(* The invariant that carries the two theorems below. *)
THEOREM ParserInvariant == Spec => []IInv
  <1>1. IInv /\ [Next]_vars => IInv'
    <2>. SUFFICES ASSUME IInv, [Next]_vars PROVE IInv'
      OBVIOUS
    <2>1. CASE UNCHANGED vars
      <3>1. /\ proto' = proto /\ received' = received /\ chunk' = chunk /\ off' = off
            /\ buf' = buf /\ frames' = frames /\ pc' = pc
        BY <2>1 DEF vars
      <3>2. TypeOK' /\ Len(buf') <= Capacity'
        BY <3>1 DEF IInv, TypeOK, Capacity
      <3>3. Pending' = Pending
        BY <3>1 DEF Pending
      <3>4. ParsedSoFar'
        BY <3>1, <3>3 DEF IInv, ParsedSoFar
      <3>5. Resting'
        BY <3>1 DEF IInv, Resting, PopResult, LegalXr, LegalData, LengthLegal
      <3>. QED BY <3>2, <3>4, <3>5 DEF IInv
    <2>. QED BY <2>1, ReadStep, PopFrameStep, PopErrorStep, PushStep, ReadDoneStep, ResetStep
         DEF Next
  <1>. QED BY InitHolds, <1>1, PTL DEF Spec

(* For streams of any length, cut by the reads in any way: the frames that  *)
(* parserPop and parser_pop hand on are the frames of the stream, in order, *)
(* and the connection is given up exactly at the first illegal header.      *)
THEOREM FramesAreExact == Spec => []FramesExact
  <1>1. ASSUME IInv PROVE FramesExact
    <2>. DEFINE whole == Decode(proto)[received]
    <2>1. /\ proto \in Protocols /\ buf \in Streams /\ received \in Streams
          /\ frames \in Seq(Streams) /\ chunk \in Streams /\ off \in Nat
          /\ Len(chunk) \in Nat /\ off <= Len(chunk)
      BY SMTT(20), <1>1, LenProperties DEF IInv, TypeOK, Streams
    <2>2. SubSeq(chunk, off + 1, Len(chunk)) \in Streams
      <3>1. off + 1 \in Int /\ Len(chunk) \in Int
            /\ \A i \in off + 1 .. Len(chunk) : chunk[i] \in Cells
        BY SMTT(20), <2>1, ElementOfSeq DEF Streams
      <3>. QED BY <3>1, SubSeqProperties DEF Streams
    <2>3. Pending \in Streams
      BY <2>1, <2>2, ConcatProperties DEF Pending, Streams
    <2>4. /\ whole.frames = frames \o Decode(proto)[Pending].frames
          /\ whole.bad = Decode(proto)[Pending].bad
      <3>1. <<>> \in Streams /\ received \o <<>> = received /\ Pending \o <<>> = Pending
        BY <2>1, <2>3, EmptySeq, ConcatEmptySeq DEF Streams
      <3>2. /\ Decode(proto)[received \o <<>>].frames
                  = frames \o Decode(proto)[Pending \o <<>>].frames
            /\ Decode(proto)[received \o <<>>].bad = Decode(proto)[Pending \o <<>>].bad
        BY <1>1, <3>1 DEF IInv, ParsedSoFar
      <3>. QED BY <3>1, <3>2
    <2>5. Decode(proto)[Pending].frames \in Seq(Streams)
      BY <2>1, <2>3, DecodeType DEF Decoded
    <2>6. IsPrefix(frames, whole.frames)
      <3>. DEFINE more == Decode(proto)[Pending].frames
                  n == Len(frames)
      <3>1. n \in Nat /\ Len(frames \o more) >= n
        <4>1. Len(more) \in Nat /\ n \in Nat
          BY <2>1, <2>5, LenProperties
        <4>. HIDE DEF more
        <4>2. Len(frames \o more) = Len(frames) + Len(more)
          BY <2>1, <2>5, ConcatProperties DEF more
        <4>. QED BY SMTT(20), <4>1, <4>2
      <3>2. SubSeq(frames \o more, 1, n) = SubSeq(frames, 1, n)
        <4>1. CASE n = 0
          <5>1. SubSeq(frames \o more, 1, 0) = <<>> /\ SubSeq(frames, 1, 0) = <<>>
            BY SMTT(20), SubSeqEmpty
          <5>. QED BY <4>1, <5>1
        <4>2. CASE n > 0
          <5>1. 1 \in 1 .. Len(frames) /\ n \in 1 .. Len(frames)
            BY SMTT(20), <3>1, <4>2
          <5>. HIDE DEF more, n
          <5>. QED BY <2>1, <2>5, <5>1, SubSeqOfConcat1 DEF more
        <4>. QED BY SMTT(20), <3>1, <4>1, <4>2
      <3>. HIDE DEF more
      <3>3. whole.frames = frames \o more
        BY <2>4 DEF more
      <3>. HIDE DEF whole
      <3>. QED BY <3>1, <3>2, <3>3 DEF IsPrefix
    <2>7. ASSUME pc \in {"idle", "failed"}
          PROVE  frames = whole.frames /\ (pc = "failed") = whole.bad
      <3>1. Decode(proto)[Pending] = [frames |-> <<>>, bad |-> pc = "failed"]
        <4>1. CASE pc = "idle"
          <5>1. PopResult(buf) = "need_more" /\ off = Len(chunk)
            BY <1>1, <4>1 DEF IInv, Resting
          <5>2. SubSeq(chunk, off + 1, Len(chunk)) = <<>>
            BY SMTT(20), <2>1, <5>1, SubSeqEmpty
          <5>3. Pending = buf
            BY <2>1, <5>2, ConcatEmptySeq DEF Pending, Streams
          <5>. QED BY <2>1, <4>1, <5>1, <5>3, PopNeedsMore
        <4>2. CASE pc = "failed"
          <5>1. PopResult(buf) = "error"
            BY <1>1, <4>2 DEF IInv, Resting
          <5>. QED BY <2>1, <2>2, <4>2, <5>1, PopFindsError DEF Pending
        <4>. QED BY <2>7, <4>1, <4>2
      <3>2. frames \o <<>> = frames
        BY <2>1, ConcatEmptySeq
      <3>3. Decode(proto)[Pending].frames = <<>> /\ Decode(proto)[Pending].bad = (pc = "failed")
        BY SMTT(20), <3>1
      <3>. QED BY <2>4, <3>2, <3>3
    <2>. QED BY <2>6, <2>7 DEF FramesExact
  <1>. QED BY <1>1, ParserInvariant, PTL

(* For every payload limit: the buffer never holds more than one frame's    *)
(* worth of bytes, and a pop on a full one yields a frame or an error, so   *)
(* the feed loop of XrSession and LorahamBackend always makes progress.     *)
THEOREM ParserNeverStuck == Spec => []NeverStuck
  <1>1. IInv => NeverStuck
    BY PopNeedsMore DEF IInv, TypeOK, NeverStuck
  <1>. QED BY <1>1, ParserInvariant, PTL
===============================================================================
