--------------------------- MODULE LinkBridgeProofs ---------------------------
(***************************************************************************)
(* Proofs about Link, for any passwords, any configuration, any sizes of   *)
(* the output queue and of the counters, and any script of the backend.    *)
(* This module has the steps of the bridge but for its reads.              *)
(***************************************************************************)
EXTENDS LinkFirmwareProofs

(* Most leaves rewrite equalities and split sets: Zenon takes them, and SMT *)
(* is cited where a leaf counts, or reasons about sequences.                *)
USE Zenon

(* The steps of the bridge. *)

(* What emit() leaves in the queue when the frames do not fit. *)
LEMMA Room ==
    ASSUME NEW q \in Seq(S!Replies), NEW f \in S!Replies, NEW g \in S!Replies
    PROVE  /\ q \o <<f>> \in Seq(S!Replies) /\ q \o <<f, g>> \in Seq(S!Replies)
           /\ 1 > MaxOutbox - Len(q) => q \o SubSeq(<<f>>, 1, MaxOutbox - Len(q)) = q
           /\ 2 > MaxOutbox - Len(q) =>
                 q \o SubSeq(<<f, g>>, 1, MaxOutbox - Len(q)) \in {q, q \o <<f>>}
  <1>. DEFINE room == MaxOutbox - Len(q)
  <1>1. room \in Int
    BY SMT, LinkAssumption, LenProperties
  <1>2. <<f>> \in Seq(S!Replies) /\ <<f, g>> \in Seq(S!Replies)
    BY SMT
  <1>3. q \o <<f>> \in Seq(S!Replies) /\ q \o <<f, g>> \in Seq(S!Replies)
    BY <1>2, ConcatProperties
  <1>. HIDE DEF room
  <1>4. ASSUME room < 1
        PROVE  q \o SubSeq(<<f>>, 1, room) = q /\ q \o SubSeq(<<f, g>>, 1, room) = q
    <2>1. SubSeq(<<f>>, 1, room) = <<>> /\ SubSeq(<<f, g>>, 1, room) = <<>>
      <3>1. ASSUME NEW s \in Seq(S!Replies) PROVE SubSeq(s, 1, room) = <<>>
        <4>1. 1 \in Int /\ room \in Int /\ \A i \in 1 .. room : s[i] \in S!Replies
          BY SMT, <1>1, <1>4
        <4>2. SubSeq(s, 1, room) \in Seq(S!Replies) /\ Len(SubSeq(s, 1, room)) = 0
          BY SMTT(20), <1>4, <4>1, SubSeqProperties
        <4>. QED  BY <4>2, EmptySeq
      <3>. QED  BY <1>2, <3>1
    <2>2. q \o <<>> = q
      BY SMT
    <2>. QED  BY <2>1, <2>2
  <1>5. ASSUME room = 1 PROVE q \o SubSeq(<<f, g>>, 1, room) = q \o <<f>>
    <2>1. SubSeq(<<f, g>>, 1, 1) = <<f>>
      <3>. DEFINE s == <<f, g>>
      <3>1. s \in Seq(S!Replies) /\ s[1] = f /\ f \in S!Replies
        BY SMT
      <3>2. <<f>> \in Seq(S!Replies) /\ Len(<<f>>) = 1 /\ <<f>>[1] = f
        BY SMT
      <3>. HIDE DEF s
      <3>3. 1 \in Int /\ \A i \in 1 .. 1 : s[i] \in S!Replies
        BY SMT, <3>1
      <3>4. /\ SubSeq(s, 1, 1) \in Seq(S!Replies) /\ Len(SubSeq(s, 1, 1)) = 1
            /\ SubSeq(s, 1, 1)[1] = f
        BY SMT, <3>1, <3>3, SubSeqProperties
      <3>5. SubSeq(s, 1, 1) = <<f>>
        <4>. DEFINE t == SubSeq(s, 1, 1)
        <4>1. t \in Seq(S!Replies) /\ Len(t) = 1 /\ t[1] = f
          BY <3>4
        <4>. HIDE DEF t
        <4>2. t = <<f>>
          BY SMT, <3>2, <4>1, SeqEqual
        <4>. QED  BY <4>2 DEF t
      <3>. QED  BY <3>5 DEF s
    <2>. QED  BY <1>5, <2>1
  <1>. QED  BY SMT, <1>1, <1>3, <1>4, <1>5 DEF room

(* The frames of the session. *)
LEMMA RepliesOK ==
    /\ \A type \in S!ServerFrames : S!Reply(type) \in S!Replies /\ S!Reply(type).type = type
    /\ \A seq \in 0 .. U16 - 1, result \in K!Results :
          /\ S!TxReply(seq, result) \in S!Replies
          /\ S!TxReply(seq, result).type = "TX_RESULT"
          /\ S!TxReply(seq, result).seq = seq /\ S!TxReply(seq, result).result = result
  <1>1. \A seq \in 0 .. U16 - 1 : seq \in (1 .. U16 - 1) \cup {0}
    BY SMT, LinkAssumption
  <1>2. ASSUME NEW type \in S!ServerFrames
        PROVE  S!Reply(type) \in S!Replies /\ S!Reply(type).type = type
    BY DEF S!Reply, S!Replies
  <1>3. ASSUME NEW seq \in 0 .. U16 - 1, NEW result \in K!Results
        PROVE  /\ S!TxReply(seq, result) \in S!Replies
               /\ S!TxReply(seq, result).type = "TX_RESULT"
               /\ S!TxReply(seq, result).seq = seq /\ S!TxReply(seq, result).result = result
    <2>1. seq \in (1 .. U16 - 1) \cup {0} /\ result \in S!TxResults \cup {""}
      BY <1>1 DEF S!TxResults, K!Results
    <2>2. "TX_RESULT" \in S!ServerFrames
      BY DEF S!ServerFrames
    <2>. QED  BY <2>1, <2>2 DEF S!TxReply, S!Replies
  <1>. QED  BY <1>2, <1>3

(* What the session queues is what comes to the firmware it serves. *)
LEMMA ComingGrows ==
    ASSUME LInv, served # 0, UNCHANGED <<cur, served>>,
           NEW p \in Seq(S!Replies), outbox' = outbox \o p,
           snonce' = snonce \/ outbox = <<>>,
           effective' = effective \/ \A i \in 1 .. Len(outbox) : outbox[i].type # "CFG_OK",
           \A c \in Conns : conns'[c].down = conns[c].down
    PROVE  /\ cur # served => Coming' = Coming
           /\ cur = served => Coming' = Coming \o Wire(p, snonce', effective')
           /\ p = <<>> => Coming' = Coming
  <1>. DEFINE d == conns[cur].down
              n == snonce'
              e == effective'
  <1>1. cur \in Conns \cup {0} /\ outbox \in Seq(S!Replies)
    BY DEF LInv, FirmwareTypeOK, BridgeTypeOK
  <1>2. ASSUME cur # served PROVE Coming' = Coming
    BY <1>1, <1>2 DEF Coming
  <1>3. ASSUME cur = served PROVE Coming' = Coming \o Wire(p, n, e)
    <2>1. cur \in Conns /\ d \in Seq(ServerFrames)
      BY <1>1, <1>3 DEF LInv, EndsInv
    <2>2. Wire(outbox, snonce, effective) = Wire(outbox, n, e)
      <3>1. Wire(outbox, snonce, effective) = Wire(outbox, snonce, e)
        BY SMT, <1>1, WireSame
      <3>2. Wire(outbox, snonce, e) = Wire(outbox, n, e)
        BY WireShort
      <3>. QED  BY <3>1, <3>2
    <2>3. Coming = d \o Wire(outbox, n, e) /\ Coming' = d \o Wire(outbox \o p, n, e)
      BY <1>3, <2>1, <2>2 DEF Coming
    <2>. HIDE DEF n, e, d
    <2>4. d \o Wire(outbox \o p, n, e) = (d \o Wire(outbox, n, e)) \o Wire(p, n, e)
      BY ZenonT(30), <1>1, <2>1, WireAdded
    <2>. QED  BY <2>3, <2>4
  <1>4. ASSUME p = <<>>, cur = served PROVE Coming' = Coming
    <2>1. Coming \in Seq(ServerFrames)
      BY <1>4 DEF LInv, LinkInv
    <2>2. Wire(p, n, e) = <<>>
      BY <1>4, WireShort
    <2>. QED  BY SMT, <1>3, <1>4, <2>1, <2>2
  <1>. QED  BY <1>2, <1>3, <1>4

(* A step for a client that is not the firmware's current connection. *)
LEMMA OtherServed ==
    ASSUME LInv, served # 0, served # cur, UNCHANGED <<firmware, served, truth>>,
           Coming' = Coming,
           cur # 0 /\ Configured(Coming, fstate) => UNCHANGED <<config_pending, effective>>,
           cur # 0 /\ Taken(Coming, fstate) =>
              /\ phase' \in {"WaitHello", "WaitAuth", "Closed"}
              /\ phase' = "WaitAuth" => conns'[served].up = <<>>
    PROVE  LinkInv'
  BY DEF LInv, LinkInv, firmware, fvars

LEMMA ScriptStep == ASSUME LInv, Script PROVE LInv'
  <1>1. UNCHANGED <<firmware, conns, svars, server, truth>>
    BY DEF Script
  <1>2. /\ UNCHANGED <<sink, effective, config_pending, tx_pending, pending_tx_result, polling>>
        /\ next_tx_outcome' \in {next_tx_outcome} \cup ScriptedResults
    BY DEF Script, K!script_config, K!script_tx_outcome, K!script_stale_tx_complete,
           K!script_rx, K!script_backend_failure, K!link, K!config, K!tx, K!script
  <1>3. next_tx_outcome' \in K!Results \cup {"none"}
    BY <1>2, LinkAssumption DEF LInv, BridgeTypeOK
  <1>4. BridgeTypeOK'
    BY <1>1, <1>2, <1>3 DEF LInv, BridgeTypeOK, svars, server
  <1>5. FirmwareTypeOK' /\ EndsInv' /\ OutcomeTrue'
    BY ZenonT(30), <1>1 DEF LInv, FirmwareTypeOK, EndsInv, Waiting, OutcomeTrue, firmware, fvars, server
  <1>6. SessionInv'
    BY <1>1, <1>2 DEF LInv, SessionInv, firmware, svars, server
  <1>7. Coming' = Coming
    BY <1>1, <1>2 DEF Coming, firmware, svars, server
  <1>8. LinkInv'
    BY <1>1, <1>2, <1>7 DEF LInv, LinkInv, firmware, fvars, svars, server
  <1>. QED  BY <1>4, <1>5, <1>6, <1>8 DEF LInv

(* The session closes and queues nothing. *)
LEMMA ClosesQuietly ==
    ASSUME LInv, served # 0, UNCHANGED <<firmware, served, truth, outbox, snonce>>,
           phase' = "Closed", tx_in_flight' = FALSE,
           UNCHANGED <<config_pending, effective>>,
           \A c \in Conns : conns'[c].down = conns[c].down
    PROVE  SessionInv' /\ LinkInv'
  <1>1. Coming' = Coming
    BY DEF Coming, firmware, LInv, FirmwareTypeOK
  <1>2. SessionInv'
    <2>1. \A u, c, k, a, i : UpShape(u, "Closed", c, k, a, i)
      BY DEF UpShape
    <2>. QED  BY <2>1 DEF LInv, SessionInv
  <1>3. LinkInv'
    BY <1>1 DEF LInv, LinkInv, firmware, fvars
  <1>. QED  BY <1>2, <1>3

(* A frame behind those of a session that is ready. *)
LEMMA ReadyEmits ==
    ASSUME LInv, served # 0, phase = "Ready",
           UNCHANGED <<firmware, conns, served, snonce, requested, truth, effective,
                       config_pending, phase, tx_seq>>,
           NEW g \in S!Replies, outbox' = outbox \o <<g>>,
           NEW e \in ServerFrames, e = EncodeWith(g, snonce, effective),
           \/ e \in {RxFrame, PingFrame}
           \/ served = cur => tx_in_flight /\ truth \in K!Results /\ e = ResultFrame(ftx_seq, truth),
           IF e.type = "PING" THEN ~awaiting_pong /\ awaiting_pong'
           ELSE awaiting_pong' = awaiting_pong,
           tx_in_flight' => e.type # "TX_RESULT" /\ UNCHANGED <<tx_in_flight, tx_pending,
                                                                pending_tx_result>>
    PROVE  SessionInv' /\ LinkInv'
  <1>. DEFINE D == Coming
              U == conns[cur].up
              E == D \o <<e>>
  <1>1. /\ requested = Desired /\ effective = Desired /\ ~config_pending
        /\ password = BridgePassword
        /\ UpShape(conns[served].up, "Ready", served, password, awaiting_pong, tx_in_flight)
    BY DEF LInv, SessionInv
  <1>2. SessionInv'
    <2>1. UpShape(conns[served].up, "Ready", served, password, awaiting_pong', tx_in_flight')
      BY SMT, <1>1 DEF UpShape
    <2>2. tx_in_flight' =>
             phase = "Ready" /\ tx_seq # 0 /\ tx_pending' /\ pending_tx_result' \in K!Results
      BY DEF LInv, SessionInv
    <2>. QED  BY <1>1, <2>1, <2>2 DEF SessionInv, firmware
  <1>3. /\ cur # served => Coming' = Coming
        /\ cur = served => Coming' = E
    <2>1. <<g>> \in Seq(S!Replies)
      BY SMT
    <2>2. Wire(<<g>>, snonce, effective) = <<e>>
      BY WireShort
    <2>3. UNCHANGED <<cur, served>> /\ \A c \in Conns : conns'[c].down = conns[c].down
      BY DEF firmware
    <2>4. /\ cur # served => Coming' = Coming
          /\ cur = served => Coming' = Coming \o Wire(<<g>>, snonce', effective')
      BY <2>1, <2>3, ComingGrows
    <2>. QED  BY <2>2, <2>4
  <1>4. CASE served # cur
    <2>1. cur # 0 => ~Taken(Coming, fstate)
      BY <1>4 DEF LInv, LinkInv
    <2>2. LinkInv'
      BY <1>3, <1>4, <2>1, OtherServed
    <2>. QED  BY <1>2, <2>2
  <1>5. CASE served = cur
    <2>1. /\ D \in Seq(ServerFrames) /\ Shape(D, fstate, fnonce, cur, ftx_seq, truth)
          /\ InStep(D, U, "Ready", fstate, fnonce, cur, password)
          /\ InTraffic(D, U, fstate, awaiting_pong, tx_in_flight, ftx_seq)
          /\ tx_in_flight => tx_seq = ftx_seq /\ pending_tx_result = truth
      BY <1>5 DEF LInv, LinkInv
    <2>2. /\ Has(U, "PONG") => awaiting_pong
          /\ Has(U, "TX_REQUEST") => ~tx_in_flight
      BY <1>1, <1>5 DEF UpShape
    <2>3. \/ e \in {RxFrame, PingFrame} /\ e.type # "TX_RESULT"
          \/ /\ tx_in_flight /\ truth \in K!Results /\ e = ResultFrame(ftx_seq, truth)
             /\ e.type = "TX_RESULT"
      BY SMTT(20), <1>5, FrameFields
    <2>4. \/ e \in {RxFrame, PingFrame}
          \/ /\ fstate = "TX_PENDING" /\ truth \in K!Results /\ e = ResultFrame(ftx_seq, truth)
             /\ ~Has(D, "TX_RESULT")
      BY <2>1, <2>3 DEF InTraffic
    <2>5. \/ fstate \in F!Operational
          \/ fstate = "CONFIGURING" /\ D # <<>> /\ D[1] = CfgOkFrame /\ U = <<>>
      BY <2>1 DEF InStep
    <2>. HIDE DEF D, U
    <2>6. /\ E \in Seq(ServerFrames) /\ E # <<>> /\ (D # <<>> => E[1] = D[1])
          /\ Shape(E, fstate, fnonce, cur, ftx_seq, truth)
      BY <2>1, <2>4, <2>5, ShapeAdded
    <2>7. \A type : /\ Has(E, type) <=> Has(D, type) \/ e.type = type
                    /\ Once(D, type) /\ (~Has(D, type) \/ e.type # type) => Once(E, type)
      BY <2>1, HasAdded
    <2>. HIDE DEF E
    <2>8. InStep(E, U, "Ready", fstate, fnonce, cur, password)
      BY <2>5, <2>6 DEF InStep
    <2>9. InTraffic(E, U, fstate, awaiting_pong', tx_in_flight', ftx_seq)
      <3>1. Once(E, "PING")
        BY <2>1, <2>7 DEF InTraffic
      <3>2. Has(E, "PING") => awaiting_pong' /\ ~Has(U, "PONG")
        BY <2>1, <2>2, <2>7 DEF InTraffic
      <3>3. tx_in_flight' \/ Has(U, "TX_REQUEST") => e.type # "TX_RESULT"
        BY <2>2, <2>3
      <3>4. tx_in_flight' \/ Has(U, "TX_REQUEST") =>
               fstate = "TX_PENDING" /\ ~Has(E, "TX_RESULT")
        BY <2>1, <2>7, <3>3 DEF InTraffic
      <3>. QED  BY <2>1, <3>1, <3>2, <3>4 DEF InTraffic
    <2>10. Coming' = E /\ U' = U
      BY <1>3, <1>5 DEF U, firmware
    <2>11. fstate # "AUTHENTICATING"
      BY <2>5 DEF F!Operational
    <2>12. UNCHANGED <<fstate, fnonce, cur, ftx_seq, password>>
      BY DEF firmware, fvars
    <2>13. tx_in_flight' => tx_seq' = ftx_seq' /\ pending_tx_result' = truth'
      BY <2>1, <2>12
    <2>14. LinkInv'
      BY <1>1, <1>5, <2>6, <2>8, <2>9, <2>10, <2>11, <2>12, <2>13 DEF LinkInv, U
    <2>. QED  BY <1>2, <2>14
  <1>. QED  BY <1>4, <1>5

LEMMA NothingChanges ==
    ASSUME LInv, UNCHANGED <<firmware, conns, svars, server, kvars, truth>>
    PROVE  LInv'
  <1>1. FirmwareTypeOK' /\ EndsInv' /\ OutcomeTrue'
    BY ZenonT(30) DEF LInv, FirmwareTypeOK, EndsInv, Waiting, OutcomeTrue, firmware, fvars, server
  <1>2. BridgeTypeOK'
    BY BridgeSame DEF LInv
  <1>3. SessionInv'
    BY DEF LInv, SessionInv, firmware, svars, server, kvars
  <1>4. Coming' = Coming
    BY DEF Coming, firmware, svars, server, kvars
  <1>5. LinkInv'
    BY <1>4 DEF LInv, LinkInv, firmware, fvars, svars, server, kvars
  <1>. QED  BY <1>1, <1>2, <1>3, <1>5 DEF LInv

(* A step of the session or of the backend, for the connection there is. *)
LEMMA SessionStep ==
    ASSUME LInv, served # 0, UNCHANGED <<firmware, conns, served, truth, sink>>,
           phase' \in S!Phases, tx_in_flight' \in BOOLEAN, awaiting_pong' \in BOOLEAN,
           tx_seq' \in 0 .. U16 - 1, outbox' \in Seq(S!Replies),
           polling' \in BOOLEAN, next_tx_outcome' \in K!Results \cup {"none"},
           SessionInv', LinkInv'
    PROVE  LInv'
  <1>1. FirmwareTypeOK' /\ EndsInv' /\ OutcomeTrue'
    BY ZenonT(30) DEF LInv, FirmwareTypeOK, EndsInv, Waiting, OutcomeTrue, firmware, fvars
  <1>2. BridgeTypeOK'
    BY DEF LInv, BridgeTypeOK
  <1>. QED  BY <1>1, <1>2 DEF LInv

LEMMA SessionTypes ==
    ASSUME LInv
    PROVE  /\ phase \in S!Phases /\ tx_in_flight \in BOOLEAN /\ awaiting_pong \in BOOLEAN
           /\ tx_seq \in 0 .. U16 - 1 /\ outbox \in Seq(S!Replies) /\ polling \in BOOLEAN
           /\ next_tx_outcome \in K!Results \cup {"none"} /\ (sink => served # 0)
           /\ served \in Conns \cup {0}
  BY DEF LInv, BridgeTypeOK

(* close(), wherever it is called from without a frame. *)
LEMMA SessionClosed ==
    ASSUME LInv, served # 0, UNCHANGED <<firmware, conns, server, truth, sink>>,
           UNCHANGED <<config_pending, effective>>,
           S!close, outbox' = outbox, polling' \in BOOLEAN,
           next_tx_outcome' = next_tx_outcome
    PROVE  LInv'
  <1>1. /\ phase' = "Closed" /\ tx_in_flight' = FALSE
        /\ UNCHANGED <<tx_seq, awaiting_pong>>
    BY DEF S!close
  <1>2. phase' \in S!Phases
    BY <1>1 DEF S!Phases
  <1>3. SessionInv' /\ LinkInv'
    BY <1>1, ClosesQuietly DEF server
  <1>4. tx_in_flight' \in BOOLEAN /\ awaiting_pong' \in BOOLEAN
    BY <1>1, SessionTypes
  <1>. QED  BY <1>1, <1>2, <1>3, <1>4, SessionTypes, SessionStep DEF server

LEMMA TickStep == ASSUME LInv, Tick PROVE LInv'
  <1>1. /\ served # 0 /\ ~polling /\ UNCHANGED <<firmware, conns, server, truth>>
        /\ \/ S!tick(TRUE) /\ K!abandon_pending_tx
           \/ S!tick(FALSE) /\ UNCHANGED kvars
    BY DEF Tick
  <1>2. UNCHANGED <<sink, config_pending, effective, polling, next_tx_outcome>>
    BY <1>1 DEF K!abandon_pending_tx, K!link, K!config, K!script, kvars
  <1>3. polling' \in BOOLEAN
    BY <1>2, SessionTypes
  <1>4. CASE S!CloseNow
    BY <1>1, <1>2, <1>3, <1>4, SessionClosed DEF S!CloseNow
  <1>5. CASE ~S!CloseNow
    <2>1. S!tick(FALSE) /\ UNCHANGED kvars
      BY <1>1, <1>5 DEF S!tick, S!KeepaliveDue
    <2>2. CASE UNCHANGED svars
      BY <1>1, <2>1, <2>2, NothingChanges
    <2>3. CASE ~UNCHANGED svars
      <3>. DEFINE g == S!Reply("PING")
      <3>1. /\ phase = "Ready" /\ ~awaiting_pong
            /\ S!emit(<<g>>, /\ awaiting_pong' = TRUE /\ ping_timer' = 0
                             /\ UNCHANGED <<phase, deadline, config_op_token, tx_in_flight,
                                            tx_seq, tx_deadline>>)
        BY <1>5, <2>1, <2>3 DEF S!tick, S!KeepaliveDue, svars, S!svars
      <3>2. g \in S!Replies /\ g.type = "PING"
        BY RepliesOK DEF S!ServerFrames
      <3>. HIDE DEF g
      <3>3. \/ /\ outbox' = outbox \o <<g>> /\ awaiting_pong' = TRUE
               /\ UNCHANGED <<phase, tx_in_flight, tx_seq>>
            \/ outbox' = outbox /\ S!close
        <4>1. Len(<<g>>) = 1
          OBVIOUS
        <4>. QED  BY <3>1, <3>2, <4>1, Room, SessionTypes DEF S!emit
      <3>4. CASE outbox' = outbox /\ S!close
        BY <1>1, <1>2, <1>3, <3>4, SessionClosed
      <3>5. CASE /\ outbox' = outbox \o <<g>> /\ awaiting_pong' = TRUE
                 /\ UNCHANGED <<phase, tx_in_flight, tx_seq>>
        <4>1. EncodeWith(g, snonce, effective) = PingFrame
          BY <3>2 DEF EncodeWith
        <4>2. PingFrame \in ServerFrames /\ PingFrame.type = "PING"
          BY SMTT(20), FrameFields DEF ServerFrames
        <4>3. UNCHANGED <<tx_pending, pending_tx_result>>
          BY <2>1 DEF kvars
        <4>4. UNCHANGED <<served, snonce, requested>>
          BY <1>1 DEF server
        <4>5. SessionInv' /\ LinkInv'
          BY <1>1, <1>2, <3>1, <3>2, <3>5, <4>1, <4>2, <4>3, <4>4, ReadyEmits
        <4>6. outbox' \in Seq(S!Replies)
          BY <3>2, <3>5, Room, SessionTypes
        <4>7. /\ phase' \in S!Phases /\ tx_in_flight' \in BOOLEAN /\ awaiting_pong' \in BOOLEAN
              /\ tx_seq' \in 0 .. U16 - 1 /\ next_tx_outcome' \in K!Results \cup {"none"}
          BY <1>2, <3>5, SessionTypes
        <4>. QED  BY <1>1, <1>2, <1>3, <4>4, <4>5, <4>6, <4>7, SessionStep
      <3>. QED  BY <3>3, <3>4, <3>5
    <2>. QED  BY <2>2, <2>3
  <1>. QED  BY <1>4, <1>5

LEMMA PollFailureStep ==
    ASSUME LInv, NEW ev, K!PollFailure(ev), OnEvent(ev),
           UNCHANGED <<firmware, conns, server, truth>>
    PROVE  LInv'
  <1>1. /\ sink /\ ~config_pending /\ ev = [cb |-> "backend_failure"]
        /\ UNCHANGED <<sink, config_pending, effective, polling, next_tx_outcome>>
    BY DEF K!PollFailure, K!link, K!config, K!script
  <1>2. S!on_backend_failure
    BY <1>1 DEF OnEvent
  <1>3. served # 0 /\ polling' \in BOOLEAN
    BY <1>1, SessionTypes
  <1>4. CASE phase # "Closed"
    <2>1. S!close /\ outbox' = outbox
      BY <1>2, <1>4 DEF S!on_backend_failure, S!CloseNow
    <2>. QED  BY <1>1, <1>3, <2>1, SessionClosed
  <1>5. CASE phase = "Closed"
    <2>1. UNCHANGED <<phase, tx_in_flight, tx_seq, awaiting_pong, outbox>>
      BY <1>2, <1>5 DEF S!on_backend_failure, S!svars
    <2>2. tx_in_flight = FALSE
      BY <1>5, SessionTypes DEF LInv, SessionInv
    <2>3. SessionInv' /\ LinkInv'
      BY <1>1, <1>3, <1>5, <2>1, <2>2, ClosesQuietly DEF server
    <2>. QED  BY <1>1, <1>3, <2>1, <2>3, SessionTypes, SessionStep DEF server
  <1>. QED  BY <1>4, <1>5

LEMMA PollRxStep ==
    ASSUME LInv, NEW ev, K!PollRx(ev), OnEvent(ev),
           UNCHANGED <<firmware, conns, server, truth>>
    PROVE  LInv'
  <1>1. /\ K!Serving /\ ev = [cb |-> "rx"] /\ polling' \in BOOLEAN
        /\ UNCHANGED <<sink, config_pending, effective, next_tx_outcome, tx_pending,
                       pending_tx_result>>
    BY DEF K!PollRx, K!link, K!config, K!script, K!tx
  <1>2. S!on_rx
    BY <1>1 DEF OnEvent
  <1>3. served # 0
    BY <1>1 DEF K!Serving, LInv, BridgeTypeOK
  <1>4. CASE UNCHANGED S!svars
    <2>1. UNCHANGED <<phase, tx_in_flight, tx_seq, awaiting_pong, outbox>>
      BY <1>4 DEF S!svars
    <2>2. SessionInv'
      BY <1>1, <2>1 DEF LInv, SessionInv, firmware, server
    <2>3. Coming' = Coming
      BY <1>1, <2>1 DEF Coming, firmware, server
    <2>4. LinkInv'
      BY <1>1, <2>1, <2>3 DEF LInv, LinkInv, firmware, fvars, server
    <2>. QED  BY <1>1, <1>3, <2>1, <2>2, <2>4, SessionTypes, SessionStep DEF server
  <1>5. CASE ~UNCHANGED S!svars
    <2>. DEFINE g == S!Reply("RX_PACKET")
    <2>1. /\ phase = "Ready"
          /\ S!emit(<<g>>, UNCHANGED <<phase, deadline, config_op_token, tx_in_flight, tx_seq,
                                       tx_deadline, awaiting_pong, ping_timer>>)
      BY <1>2, <1>5 DEF S!on_rx
    <2>2. g \in S!Replies /\ g.type = "RX_PACKET"
      BY RepliesOK DEF S!ServerFrames
    <2>. HIDE DEF g
    <2>3. \/ outbox' = outbox \o <<g>> /\ UNCHANGED <<phase, tx_in_flight, tx_seq, awaiting_pong>>
          \/ outbox' = outbox /\ S!close
      <3>1. Len(<<g>>) = 1
        OBVIOUS
      <3>. QED  BY <2>1, <2>2, <3>1, Room, SessionTypes DEF S!emit
    <2>4. CASE outbox' = outbox /\ S!close
      BY <1>1, <1>3, <2>4, SessionClosed
    <2>5. CASE outbox' = outbox \o <<g>> /\ UNCHANGED <<phase, tx_in_flight, tx_seq, awaiting_pong>>
      <3>1. EncodeWith(g, snonce, effective) = RxFrame
        BY <2>2 DEF EncodeWith
      <3>2. RxFrame \in ServerFrames /\ RxFrame.type = "RX_PACKET"
        BY SMT, FrameFields DEF ServerFrames
      <3>3. UNCHANGED <<served, snonce, requested>>
        BY DEF server
      <3>4. SessionInv' /\ LinkInv'
        BY <1>1, <1>3, <2>1, <2>2, <2>5, <3>1, <3>2, <3>3, ReadyEmits
      <3>5. outbox' \in Seq(S!Replies)
        BY <2>2, <2>5, Room, SessionTypes
      <3>6. /\ phase' \in S!Phases /\ tx_in_flight' \in BOOLEAN /\ awaiting_pong' \in BOOLEAN
            /\ tx_seq' \in 0 .. U16 - 1 /\ next_tx_outcome' \in K!Results \cup {"none"}
        BY <1>1, <2>5, SessionTypes
      <3>. QED  BY <1>1, <1>3, <3>3, <3>4, <3>5, <3>6, SessionStep
    <2>. QED  BY <2>3, <2>4, <2>5
  <1>. QED  BY <1>4, <1>5

(* A completion that is not of a frame the session has in flight. *)
LEMMA CompletionIgnored ==
    ASSUME LInv, served # 0, ~tx_in_flight, UNCHANGED S!svars,
           UNCHANGED <<firmware, conns, server, truth>>, polling' \in BOOLEAN,
           UNCHANGED <<sink, config_pending, effective, next_tx_outcome>>
    PROVE  LInv'
  <1>1. UNCHANGED <<phase, tx_in_flight, tx_seq, awaiting_pong, outbox>>
    BY DEF S!svars
  <1>2. SessionInv'
    BY <1>1 DEF LInv, SessionInv, firmware, server
  <1>3. Coming' = Coming
    BY <1>1 DEF Coming, firmware, server
  <1>4. LinkInv'
    BY <1>1, <1>3 DEF LInv, LinkInv, firmware, fvars, server
  <1>. QED  BY <1>1, <1>2, <1>4, SessionTypes, SessionStep DEF server

LEMMA PollTxStep ==
    ASSUME LInv, NEW ev, K!PollTx(ev) \/ K!PollStale(ev), OnEvent(ev),
           UNCHANGED <<firmware, conns, server, truth>>
    PROVE  LInv'
  <1>1. /\ K!Serving /\ polling' \in BOOLEAN
        /\ UNCHANGED <<sink, config_pending, effective, next_tx_outcome>>
    <2>1. CASE K!PollTx(ev)
      BY <2>1 DEF K!PollTx, K!link, K!config, K!script
    <2>2. CASE K!PollStale(ev)
      BY SMT, <2>2 DEF K!PollStale, K!link, K!config, K!script
    <2>. QED  BY <2>1, <2>2
  <1>2. served # 0
    BY <1>1 DEF K!Serving, LInv, BridgeTypeOK
  <1>3. ev.cb = "tx_complete"
    BY SMT DEF K!PollTx, K!PollStale
  <1>4. S!on_tx_complete(ev.arg)
    BY <1>3 DEF OnEvent
  <1>5. CASE ~tx_in_flight
    <2>1. UNCHANGED S!svars
      BY <1>4, <1>5 DEF S!on_tx_complete
    <2>. QED  BY <1>1, <1>2, <1>5, <2>1, CompletionIgnored
  <1>6. CASE tx_in_flight
    <2>1. phase = "Ready" /\ tx_seq # 0 /\ tx_pending /\ pending_tx_result \in K!Results
      BY <1>6 DEF LInv, SessionInv
    <2>2. ev.arg = pending_tx_result
      BY SMT, <2>1, OutcomeOnWire DEF K!PollTx, K!PollStale, K!TxDue
    <2>. DEFINE g == S!TxReply(tx_seq, pending_tx_result)
    <2>3. S!emit(<<g>>, /\ tx_in_flight' = FALSE
                        /\ UNCHANGED <<phase, deadline, config_op_token, tx_seq, tx_deadline,
                                       awaiting_pong, ping_timer>>)
      BY <1>4, <1>6, <2>2 DEF S!on_tx_complete
    <2>4. /\ g \in S!Replies /\ g.type = "TX_RESULT" /\ g.seq = tx_seq
          /\ g.result = pending_tx_result
      BY <2>1, RepliesOK, SessionTypes
    <2>. HIDE DEF g
    <2>5. \/ /\ outbox' = outbox \o <<g>> /\ tx_in_flight' = FALSE
             /\ UNCHANGED <<phase, tx_seq, awaiting_pong>>
          \/ outbox' = outbox /\ S!close
      <3>1. Len(<<g>>) = 1
        OBVIOUS
      <3>. QED  BY <2>3, <2>4, <3>1, Room, SessionTypes DEF S!emit
    <2>6. CASE outbox' = outbox /\ S!close
      BY <1>1, <1>2, <2>6, SessionClosed
    <2>7. CASE /\ outbox' = outbox \o <<g>> /\ tx_in_flight' = FALSE
               /\ UNCHANGED <<phase, tx_seq, awaiting_pong>>
      <3>. DEFINE e == ResultFrame(tx_seq, pending_tx_result)
      <3>1. EncodeWith(g, snonce, effective) = e
        BY <2>4 DEF EncodeWith
      <3>2. e \in ServerFrames /\ e.type = "TX_RESULT"
        <4>1. tx_seq \in 1 .. U16 - 1
          BY SMTT(20), <2>1, LinkAssumption, SessionTypes
        <4>. QED  BY SMTT(20), <2>1, <4>1, FrameFields DEF ServerFrames
      <3>3. served = cur => truth \in K!Results /\ e = ResultFrame(ftx_seq, truth)
        BY <1>2, <1>6, <2>1 DEF LInv, LinkInv
      <3>4. UNCHANGED <<served, snonce, requested>>
        BY DEF server
      <3>. HIDE DEF e
      <3>5. SessionInv' /\ LinkInv'
        BY <1>1, <1>2, <1>6, <2>1, <2>4, <2>7, <3>1, <3>2, <3>3, <3>4, ReadyEmits
      <3>6. outbox' \in Seq(S!Replies)
        BY <2>4, <2>7, Room, SessionTypes
      <3>7. /\ phase' \in S!Phases /\ tx_in_flight' \in BOOLEAN /\ awaiting_pong' \in BOOLEAN
            /\ tx_seq' \in 0 .. U16 - 1 /\ next_tx_outcome' \in K!Results \cup {"none"}
        BY <1>1, <2>7, SessionTypes
      <3>. QED  BY <1>1, <1>2, <3>4, <3>5, <3>6, <3>7, SessionStep
    <2>. QED  BY <2>5, <2>6, <2>7
  <1>. QED  BY <1>5, <1>6 DEF LInv, BridgeTypeOK

LEMMA PollConfigStep ==
    ASSUME LInv, NEW ev, K!PollConfig(ev), OnEvent(ev),
           UNCHANGED <<firmware, conns, server, truth>>
    PROVE  LInv'
  <1>1. /\ sink /\ config_pending /\ config_pending' = FALSE
        /\ ev.cb = "configure_complete" /\ ev.effective = effective'
        /\ UNCHANGED <<sink, polling, next_tx_outcome, tx_pending, pending_tx_result>>
    BY DEF K!PollConfig, K!link, K!script, K!tx
  <1>2. S!on_configure_complete(ev.token, IF MatchesRequest(ev) THEN "applied" ELSE "failed")
    BY <1>1 DEF OnEvent
  <1>3. /\ served # 0 /\ phase # "Ready" /\ tx_in_flight = FALSE
        /\ outbox \in Seq(S!Replies) /\ \A i \in 1 .. Len(outbox) : outbox[i].type # "CFG_OK"
    BY <1>1, SessionTypes DEF LInv, SessionInv
  <1>4. cur # 0 => ~Configured(Coming, fstate)
    BY <1>1 DEF LInv, LinkInv
  <1>5. UNCHANGED <<cur, served, snonce, requested, password>>
    BY DEF firmware, server
  <1>6. ASSUME NEW p \in Seq(S!Replies), outbox' = outbox \o p
        PROVE  /\ cur # served => Coming' = Coming
               /\ cur = served => Coming' = Coming \o Wire(p, snonce, effective')
               /\ p = <<>> => Coming' = Coming
    BY <1>3, <1>5, <1>6, ComingGrows
  <1>7. ASSUME outbox' = outbox PROVE Coming' = Coming
    <2>1. <<>> \in Seq(S!Replies) /\ outbox' = outbox \o <<>>
      BY SMT, <1>3, <1>7
    <2>. QED  BY <1>6, <2>1
  <1>8. ASSUME S!close, outbox' = outbox PROVE LInv'
    <2>1. phase' = "Closed" /\ tx_in_flight' = FALSE /\ UNCHANGED <<tx_seq, awaiting_pong>>
      BY <1>8 DEF S!close
    <2>2. SessionInv'
      BY <1>1, <2>1 DEF SessionInv, UpShape
    <2>3. Coming' = Coming
      BY <1>7, <1>8
    <2>4. LinkInv'
      BY <1>4, <1>5, <2>1, <2>3 DEF LInv, LinkInv, firmware, fvars
    <2>5. phase' \in S!Phases
      BY <2>1 DEF S!Phases
    <2>. QED  BY <1>1, <1>3, <1>5, <1>8, <2>1, <2>2, <2>4, <2>5, SessionTypes, SessionStep
  <1>9. CASE UNCHANGED S!svars
    <2>1. UNCHANGED <<phase, tx_in_flight, tx_seq, awaiting_pong, outbox>>
      BY <1>9 DEF S!svars
    <2>2. SessionInv'
      BY <1>1, <1>3, <1>5, <2>1 DEF LInv, SessionInv
    <2>3. Coming' = Coming
      BY <1>7, <2>1
    <2>4. LinkInv'
      BY <1>3, <1>4, <1>5, <2>1, <2>3 DEF LInv, LinkInv, firmware, fvars
    <2>. QED  BY <1>1, <1>3, <1>5, <2>1, <2>2, <2>4, SessionTypes, SessionStep
  <1>10. ASSUME ~UNCHANGED S!svars
         PROVE  /\ phase = "Configuring" /\ requested = Desired /\ password = BridgePassword
                /\ conns[served].up = <<>>
                /\ cur = served => fstate = "CONFIGURING" /\ Coming = <<>>
                /\ cur \notin {0, served} => ~Taken(Coming, fstate)
    <2>1. phase = "Configuring"
      BY <1>2, <1>10 DEF S!on_configure_complete
    <2>2. UpShape(conns[served].up, phase, served, password, awaiting_pong, tx_in_flight)
      BY <1>3 DEF LInv, SessionInv
    <2>3. cur = served => InStep(Coming, conns[cur].up, phase, fstate, fnonce, cur, password)
      BY <1>3, <2>1 DEF LInv, LinkInv
    <2>4. cur = served => fstate = "CONFIGURING" /\ Coming = <<>>
      BY <2>1, <2>3 DEF InStep
    <2>5. cur \notin {0, served} => ~Taken(Coming, fstate)
      BY <1>3, <2>1 DEF LInv, LinkInv
    <2>6. conns[served].up = <<>>
      BY <2>1, <2>2 DEF UpShape
    <2>. QED  BY <2>1, <2>4, <2>5, <2>6 DEF LInv, SessionInv
  <1>11. CASE ~UNCHANGED S!svars /\ MatchesRequest(ev)
    <2>. DEFINE g == S!Reply("CFG_OK")
    <2>1. effective' = Desired
      BY <1>1, <1>10, <1>11 DEF MatchesRequest
    <2>2. S!emit(<<g>>, S!enter_ready)
      BY <1>2, <1>11 DEF S!on_configure_complete
    <2>3. g \in S!Replies /\ g.type = "CFG_OK" /\ <<g>> \in Seq(S!Replies)
      BY SMT, RepliesOK DEF S!ServerFrames
    <2>. HIDE DEF g
    <2>4. (outbox' = outbox \o <<g>> /\ S!enter_ready) \/ (outbox' = outbox /\ S!close)
      <3>1. Len(<<g>>) = 1
        OBVIOUS
      <3>. QED  BY <1>3, <2>2, <2>3, <3>1, Room DEF S!emit
    <2>5. CASE outbox' = outbox \o <<g>> /\ S!enter_ready
      <3>1. phase' = "Ready" /\ awaiting_pong' = FALSE /\ UNCHANGED <<tx_in_flight, tx_seq>>
        BY <2>5 DEF S!enter_ready
      <3>2. UpShape(<<>>, "Ready", served, password, FALSE, FALSE)
        BY SMTT(20), HasNone DEF UpShape
      <3>3. conns'[served'].up = <<>>
        BY <1>5, <1>10, <1>11
      <3>4. SessionInv'
        BY <1>1, <1>3, <1>5, <1>10, <1>11, <2>1, <3>1, <3>2, <3>3 DEF SessionInv
      <3>5. Wire(<<g>>, snonce, effective') = <<CfgOkFrame>>
        <4>1. EncodeWith(g, snonce, Desired) = CfgOkFrame
          BY <2>3 DEF EncodeWith, CfgOkFrame
        <4>. QED  BY <2>1, <4>1, WireShort
      <3>6. CASE cur # served
        <4>1. Coming' = Coming
          BY <1>6, <2>3, <2>5, <3>6
        <4>2. cur # 0 => ~Taken(Coming, fstate)
          BY <1>10, <1>11, <3>6
        <4>3. LinkInv'
          BY <1>3, <1>4, <1>5, <3>6, <4>1, <4>2, OtherServed
        <4>. QED  BY <1>1, <1>3, <1>5, <2>3, <2>5, <3>1, <3>4, <4>3, Room, SessionTypes,
                     SessionStep DEF S!Phases
      <3>7. CASE cur = served
        <4>. DEFINE E == <<CfgOkFrame>>
        <4>1. Coming' = E /\ fstate = "CONFIGURING"
          <5>1. Coming' = <<>> \o E
            BY <1>6, <1>10, <1>11, <2>3, <2>5, <3>5, <3>7
          <5>. QED  BY SMTT(20), <1>10, <1>11, <3>7, <5>1
        <4>2. E \in Seq(ServerFrames) /\ E # <<>> /\ E[1] = CfgOkFrame /\ Len(E) = 1
          BY SMT DEF ServerFrames
        <4>3. ~Has(E, "PING") /\ Once(E, "PING")
          BY HasOne, FrameFields
        <4>. HIDE DEF E
        <4>4. Shape(E, "CONFIGURING", fnonce, cur, ftx_seq, truth)
          BY SMT, <4>2 DEF Shape, F!Operational
        <4>5. InStep(E, <<>>, "Ready", "CONFIGURING", fnonce, cur, password)
          BY <4>2 DEF InStep
        <4>6. InTraffic(E, <<>>, "CONFIGURING", FALSE, FALSE, ftx_seq)
          BY SMTT(20), <4>3, HasNone DEF InTraffic
        <4>7. UNCHANGED <<fstate, fnonce, ftx_seq, truth>> /\ conns'[cur'].up = <<>>
          BY <1>5, <3>3, <3>7 DEF firmware, fvars
        <4>8. LinkInv'
          BY <1>1, <1>3, <1>5, <1>10, <1>11, <2>1, <3>1, <3>7, <4>1, <4>2, <4>4, <4>5, <4>6, <4>7
             DEF LinkInv
        <4>. QED  BY <1>1, <1>3, <1>5, <2>3, <2>5, <3>1, <3>4, <4>8, Room, SessionTypes,
                     SessionStep DEF S!Phases
      <3>. QED  BY <3>6, <3>7
    <2>. QED  BY <1>8, <2>4, <2>5
  <1>12. CASE ~UNCHANGED S!svars /\ ~MatchesRequest(ev)
    <2>. DEFINE g == S!Reply("CFG_UNSUPPORTED")
    <2>1. S!emit(<<g>>, S!close)
      BY <1>2, <1>12 DEF S!on_configure_complete
    <2>2. g \in S!Replies /\ g.type = "CFG_UNSUPPORTED" /\ <<g>> \in Seq(S!Replies)
      BY SMT, RepliesOK DEF S!ServerFrames
    <2>. HIDE DEF g
    <2>3. S!close /\ outbox' \in {outbox, outbox \o <<g>>}
      <3>1. Len(<<g>>) = 1
        OBVIOUS
      <3>. QED  BY <1>3, <2>1, <2>2, <3>1, Room DEF S!emit
    <2>4. CASE outbox' = outbox \o <<g>>
      <3>1. phase' = "Closed" /\ tx_in_flight' = FALSE /\ UNCHANGED <<tx_seq, awaiting_pong>>
        BY <2>3 DEF S!close
      <3>2. SessionInv'
        BY <1>1, <3>1 DEF SessionInv, UpShape
      <3>3. Wire(<<g>>, snonce, effective') = <<CfgFailFrame>>
        <4>1. EncodeWith(g, snonce, effective') = CfgFailFrame
          BY <2>2 DEF EncodeWith
        <4>. QED  BY <4>1, WireShort
      <3>4. LinkInv'
        <4>1. CASE cur # served
          <5>1. Coming' = Coming
            BY <1>6, <2>2, <2>4, <4>1
          <5>. QED  BY <1>3, <1>4, <1>5, <3>1, <4>1, <5>1, OtherServed
        <4>2. CASE cur = served
          <5>. DEFINE E == <<CfgFailFrame>>
          <5>1. Coming' = E /\ fstate = "CONFIGURING"
            <6>1. Coming' = <<>> \o E
              BY <1>6, <1>10, <1>12, <2>2, <2>4, <3>3, <4>2
            <6>. QED  BY SMTT(20), <1>10, <1>12, <4>2, <6>1
          <5>2. E \in Seq(ServerFrames) /\ E[1] = CfgFailFrame /\ CfgFailFrame # CfgOkFrame
            BY SMT, FrameFields DEF ServerFrames
          <5>3. Shape(E, "CONFIGURING", fnonce, cur, ftx_seq, truth)
            BY DEF Shape, F!Operational
          <5>. HIDE DEF E
          <5>4. ~Configured(E, "CONFIGURING")
            BY <5>2 DEF Configured, F!Operational
          <5>5. UNCHANGED <<fstate, fnonce, ftx_seq, truth>>
            BY DEF firmware, fvars
          <5>. QED  BY <1>3, <1>5, <1>10, <1>12, <3>1, <4>2, <5>1, <5>2, <5>3, <5>4, <5>5
                       DEF LinkInv
        <4>. QED  BY <4>1, <4>2
      <3>. QED  BY <1>1, <1>3, <1>5, <2>2, <2>4, <3>1, <3>2, <3>4, Room, SessionTypes,
                   SessionStep DEF S!Phases
    <2>. QED  BY <1>8, <2>3, <2>4
  <1>. QED  BY <1>9, <1>11, <1>12

LEMMA PollStep == ASSUME LInv, Poll PROVE LInv'
  <1>1. PICK ev \in BackendEvents : K!poll(ev) /\ OnEvent(ev)
    BY DEF Poll
  <1>2. UNCHANGED <<firmware, conns, server, truth>>
    BY DEF Poll
  <1>. QED  BY <1>1, <1>2, PollConfigStep, PollFailureStep, PollRxStep, PollTxStep
               DEF K!poll

(* The queues of the connection there is change, and its ends do not. *)
LEMMA QueuesChange ==
    ASSUME LInv, served # 0, UNCHANGED <<firmware, served>>,
           NEW u \in Seq(ClientFrames(password)), NEW d \in Seq(ServerFrames),
           ~conns[served].client => d = <<>>,
           conns' = [conns EXCEPT ![served] =
              [client |-> conns[served].client, server |-> conns[served].server,
               up |-> u, down |-> d]]
    PROVE  /\ EndsInv' /\ conns'[served].up = u /\ conns'[served].down = d
           /\ \A c \in Conns : c # served => conns'[c] = conns[c]
  <1>. DEFINE K0 == [client : BOOLEAN, server : BOOLEAN,
                     up : Seq(ClientFrames(password)), down : Seq(ServerFrames)]
              r == [client |-> conns[served].client, server |-> conns[served].server,
                    up |-> u, down |-> d]
  <1>1. served \in Conns /\ conns \in [Conns -> K0] /\ conns[served] \in K0
    BY DEF LInv, BridgeTypeOK, EndsInv
  <1>2. /\ r \in K0 /\ r.up = u /\ r.down = d
        /\ r.client = conns[served].client /\ r.server = conns[served].server
    BY <1>1
  <1>3. conns' = [conns EXCEPT ![served] = r]
    OBVIOUS
  <1>. HIDE DEF K0, r
  <1>4. /\ conns' \in [Conns -> K0] /\ conns'[served] = r
        /\ \A c \in Conns : c # served => conns'[c] = conns[c]
    BY <1>1, <1>2, <1>3
  <1>5. UNCHANGED <<cur, password, fstate>>
    BY DEF firmware, fvars
  <1>6. /\ \A c \in Conns : conns'[c].client <=> c = cur'
        /\ \A c \in Conns : ~conns'[c].client => conns'[c].down = <<>>
    BY <1>2, <1>4, <1>5 DEF LInv, EndsInv
  <1>7. conns[served].server
    BY DEF LInv, EndsInv
  <1>8. \A c \in Conns : ~conns'[c].server => conns'[c].up = <<>>
    BY <1>2, <1>4, <1>7 DEF LInv, EndsInv
  <1>9. \A c \in Conns : Waiting(c)' =>
          /\ conns'[c].up \in {<<>>, <<HelloFrame>>} /\ conns'[c].down = <<>>
          /\ c = cur' => fstate' = "HANDSHAKE" /\ conns'[c].up = <<HelloFrame>>
    BY <1>4, <1>5 DEF LInv, EndsInv, Waiting
  <1>10. conns'[served'].server
    BY <1>2, <1>4, <1>7
  <1>11. EndsInv'
    BY <1>4, <1>5, <1>6, <1>8, <1>9, <1>10 DEF EndsInv, K0
  <1>. QED  BY <1>2, <1>4, <1>11

LEMMA FlushStep == ASSUME LInv, flush PROVE LInv'
  <1>. DEFINE d == conns[served].down
              rest(n) == SubSeq(outbox, n + 1, Len(outbox))
              written(n) == d \o [i \in 1 .. n |-> Encode(outbox[i])]
              after(n) == IF conns[served].client THEN written(n) ELSE d
  <1>1. PICK n \in 1 .. Len(outbox) :
           /\ S!out_consume(n)
           /\ conns' = [conns EXCEPT ![served].down =
                 IF conns[served].client
                 THEN @ \o [i \in 1 .. n |-> Encode(outbox[i])] ELSE @]
    BY DEF flush
  <1>2. served # 0 /\ outbox # <<>> /\ UNCHANGED <<firmware, server, kvars, truth>>
    BY DEF flush, backend
  <1>3. /\ outbox' = rest(n)
        /\ UNCHANGED <<phase, tx_in_flight, tx_seq, awaiting_pong>>
    BY <1>1 DEF S!out_consume
  <1>4. /\ served \in Conns /\ outbox \in Seq(S!Replies) /\ d \in Seq(ServerFrames)
        /\ conns[served].up \in Seq(ClientFrames(password))
        /\ conns[served].client <=> served = cur
        /\ ~conns[served].client => d = <<>>
    BY <1>2 DEF LInv, EndsInv, BridgeTypeOK
  <1>5. /\ written(n) \o Wire(rest(n), snonce, effective) = d \o Wire(outbox, snonce, effective)
        /\ rest(n) \in Seq(S!Replies)
        /\ written(n) \in Prefixes(d \o Wire(outbox, snonce, effective))
    BY <1>4, WireFlushed
  <1>6. conns[served].client => Coming = d \o Wire(outbox, snonce, effective)
                                /\ Coming \in Seq(ServerFrames)
    BY <1>2, <1>4 DEF Coming, LInv, LinkInv
  <1>7. after(n) \in Seq(ServerFrames) /\ (~conns[served].client => after(n) = <<>>)
    BY <1>4, <1>5, <1>6, PrefixElements
  <1>8. conns' = [conns EXCEPT ![served] =
                    [client |-> conns[served].client, server |-> conns[served].server,
                     up |-> conns[served].up, down |-> after(n)]]
    <2>. DEFINE m == after(n)
    <2>1. conns' = [conns EXCEPT ![served].down = m]
      BY <1>1
    <2>. HIDE DEF m
    <2>2. [conns EXCEPT ![served].down = m] =
             [conns EXCEPT ![served] =
                [client |-> conns[served].client, server |-> conns[served].server,
                 up |-> conns[served].up, down |-> m]]
      BY <1>4, DownReplaced
    <2>. QED  BY <2>1, <2>2 DEF m
  <1>9. served' = served /\ UNCHANGED <<cur, password, fstate, fnonce, ftx_seq, snonce, requested>>
    BY <1>2 DEF server, firmware, fvars
  <1>10. UNCHANGED <<effective, config_pending, tx_pending, pending_tx_result>>
    BY <1>2 DEF kvars
  <1>11. /\ EndsInv' /\ conns'[served].up = conns[served].up /\ conns'[served].down = after(n)
         /\ \A c \in Conns : c # served => conns'[c] = conns[c]
    <2>. DEFINE m == after(n)
                u == conns[served].up
    <2>1. m \in Seq(ServerFrames) /\ u \in Seq(ClientFrames(password))
          /\ (~conns[served].client => m = <<>>)
      BY <1>4, <1>7
    <2>. HIDE DEF m, u
    <2>2. conns' = [conns EXCEPT ![served] =
                      [client |-> conns[served].client, server |-> conns[served].server,
                       up |-> u, down |-> m]]
      BY <1>8 DEF m, u
    <2>. QED  BY <1>2, <1>9, <2>1, <2>2, QueuesChange DEF m, u
  <1>12. Coming' = Coming
    <2>1. CASE cur = served
      <3>1. Coming' = written(n) \o Wire(rest(n), snonce, effective)
        BY <1>2, <1>3, <1>4, <1>9, <1>10, <1>11, <2>1 DEF Coming
      <3>. QED  BY <1>4, <1>5, <1>6, <2>1, <3>1
    <2>2. CASE cur # served
      BY <1>9, <1>11, <2>2 DEF Coming, LInv, FirmwareTypeOK
    <2>. QED  BY <2>1, <2>2
  <1>13. \A i \in 1 .. Len(rest(n)) : rest(n)[i] = outbox[n + i] /\ n + i \in 1 .. Len(outbox)
    <2>1. Len(outbox) \in Nat /\ n \in Nat /\ n >= 1 /\ n <= Len(outbox)
      BY SMTT(20), <1>4, LenProperties
    <2>2. \A i \in n + 1 .. Len(outbox) : outbox[i] \in S!Replies
      BY SMTT(20), <1>4, <2>1, ElementOfSeq
    <2>3. Len(rest(n)) = Len(outbox) - n
      BY SMTT(20), <1>4, <2>1, <2>2, SubSeqProperties
    <2>4. \A i \in 1 .. Len(outbox) - n : rest(n)[i] = outbox[n + 1 + i - 1]
      BY SMTT(20), <1>4, <2>1, <2>2, SubSeqProperties
    <2>5. \A i \in 1 .. Len(outbox) - n : n + 1 + i - 1 = n + i /\ n + i \in 1 .. Len(outbox)
      BY SMTT(20), <2>1
    <2>. QED  BY <2>3, <2>4, <2>5
  <1>. HIDE DEF d, rest, written, after
  <1>14. BridgeTypeOK'
    BY <1>2, <1>3, <1>5, <1>9 DEF LInv, BridgeTypeOK, kvars
  <1>15. SessionInv'
    <2>1. phase # "WaitHello"
      BY <1>2 DEF LInv, SessionInv
    <2>2. phase' \in {"WaitAuth", "WaitConfigure", "Configuring"} \/ config_pending' =>
             \A i \in 1 .. Len(outbox') : outbox'[i].type # "CFG_OK"
      BY <1>3, <1>10, <1>13 DEF LInv, SessionInv
    <2>. QED  BY <1>2, <1>3, <1>9, <1>10, <1>11, <2>1, <2>2 DEF LInv, SessionInv
  <1>16. LinkInv'
    <2>1. cur # 0 => conns'[cur].up = conns[cur].up
      BY <1>11 DEF LInv, FirmwareTypeOK
    <2>. QED  BY <1>2, <1>3, <1>9, <1>10, <1>11, <1>12, <2>1 DEF LInv, LinkInv
  <1>17. FirmwareTypeOK' /\ OutcomeTrue'
    BY <1>2 DEF LInv, FirmwareTypeOK, OutcomeTrue, firmware, fvars
  <1>. QED  BY <1>11, <1>14, <1>15, <1>16, <1>17 DEF LInv

(* The bridge closes a connection: its own, or one that waits. *)
LEMMA BridgeCloses ==
    ASSUME LInv, NEW c \in Conns, ServerCloses(c), UNCHANGED firmware,
           \/ served' = served /\ c # served
           \/ served' = 0 /\ c = served
    PROVE  /\ EndsInv'
           /\ c = cur => conns'[c].down \in Prefixes(conns[c].down)
           /\ \A e \in Conns : e # c => conns'[e] = conns[e]
  <1>. DEFINE K0 == [client : BOOLEAN, server : BOOLEAN,
                     up : Seq(ClientFrames(password)), down : Seq(ServerFrames)]
  <1>1. PICK down \in Survives(conns[c].down, conns[c].up) :
           conns' = [conns EXCEPT ![c] =
              IF conns[c].client THEN [client |-> TRUE, server |-> FALSE, up |-> <<>>, down |-> down]
              ELSE Closed]
    BY DEF ServerCloses
  <1>2. conns \in [Conns -> K0]
    BY DEF LInv, EndsInv
  <1>3. conns[c] \in K0 /\ conns[c].down \in Seq(ServerFrames)
    BY <1>2
  <1>4. down \in Prefixes(conns[c].down) /\ down \in Seq(ServerFrames)
    BY <1>3, PrefixSurvives, PrefixElements
  <1>5. UNCHANGED <<cur, password, fstate>>
    BY DEF firmware, fvars
  <1>6. Closed \in K0
    BY SMT DEF Closed
  <1>7. [client |-> TRUE, server |-> FALSE, up |-> <<>>, down |-> down] \in K0
    BY SMT, <1>4
  <1>8. conns' \in [Conns -> K0]
    BY <1>1, <1>2, <1>6, <1>7
  <1>9. /\ conns'[c].server = FALSE /\ conns'[c].up = <<>>
        /\ conns'[c].client = conns[c].client
        /\ conns[c].client => conns'[c].down = down
        /\ ~conns[c].client => conns'[c].down = <<>>
    <2>1. CASE conns[c].client
      BY <1>1, <1>2, <1>3, <2>1
    <2>2. CASE ~conns[c].client
      BY <1>1, <1>2, <1>3, <2>2 DEF Closed
    <2>. QED  BY <2>1, <2>2
  <1>10. \A e \in Conns : e # c => conns'[e] = conns[e]
    BY <1>1, <1>2
  <1>. HIDE DEF K0
  <1>11. /\ \A e \in Conns : conns'[e].client <=> e = cur'
         /\ \A e \in Conns : ~conns'[e].client => conns'[e].down = <<>>
         /\ \A e \in Conns : ~conns'[e].server => conns'[e].up = <<>>
    BY ZenonT(30), <1>5, <1>9, <1>10 DEF LInv, EndsInv
  <1>12. served' # 0 => conns'[served'].server
    BY <1>10 DEF LInv, EndsInv, BridgeTypeOK
  <1>13. ASSUME NEW e \in Conns, Waiting(e)'
         PROVE  /\ conns'[e].up \in {<<>>, <<HelloFrame>>} /\ conns'[e].down = <<>>
                /\ e = cur' => fstate' = "HANDSHAKE" /\ conns'[e].up = <<HelloFrame>>
    <2>1. e # c /\ Waiting(e)
      BY <1>9, <1>10, <1>13 DEF Waiting
    <2>. QED  BY <1>5, <1>10, <2>1 DEF LInv, EndsInv
  <1>14. EndsInv'
    BY <1>5, <1>8, <1>11, <1>12, <1>13 DEF EndsInv, K0
  <1>15. c = cur => conns[c].client
    BY DEF LInv, EndsInv
  <1>. QED  BY <1>4, <1>9, <1>10, <1>14, <1>15

LEMMA DropStep == ASSUME LInv, drop_connection_if_finished PROVE LInv'
  <1>1. /\ served # 0 /\ ServerCloses(served) /\ served' = 0
        /\ UNCHANGED <<firmware, truth>>
    BY DEF drop_connection_if_finished
  <1>2. /\ polling = FALSE /\ polling' = FALSE /\ sink' = FALSE
        /\ UNCHANGED <<effective, config_pending, next_tx_outcome>>
    BY
       DEF drop_connection_if_finished, K!Detach, K!Idle, K!config, K!script, LInv, BridgeTypeOK
  <1>3. /\ phase' = "Closed" /\ tx_in_flight' = FALSE /\ tx_seq' = 0
        /\ awaiting_pong' = FALSE /\ outbox' = <<>>
    BY DEF drop_connection_if_finished, S!discard
  <1>4. served \in Conns /\ UNCHANGED <<cur, password, fstate, fnonce, ftx_seq>>
    BY <1>1 DEF LInv, BridgeTypeOK, firmware, fvars
  <1>5. /\ EndsInv'
        /\ served = cur => conns'[cur].down \in Prefixes(conns[cur].down)
        /\ \A e \in Conns : e # served => conns'[e] = conns[e]
    BY <1>1, <1>4, BridgeCloses
  <1>6. BridgeTypeOK'
    <2>1. outbox' \in Seq(S!Replies) /\ tx_seq' \in 0 .. U16 - 1 /\ phase' \in S!Phases
      BY SMTT(20), <1>3, LinkAssumption DEF S!Phases
    <2>. QED  BY <1>1, <1>2, <1>3, <2>1 DEF LInv, BridgeTypeOK
  <1>7. SessionInv'
    BY SMTT(20), <1>1, <1>3 DEF SessionInv
  <1>8. LinkInv'
    <2>1. ASSUME cur # 0 PROVE Coming' = conns'[cur].down /\ Coming' \in Prefixes(Coming)
      <3>1. cur \in Conns /\ Coming' = conns'[cur].down /\ Coming \in Seq(ServerFrames)
        BY <1>1, <1>4, <2>1 DEF Coming, LInv, FirmwareTypeOK, LinkInv
      <3>2. CASE served = cur
        <4>. DEFINE d == conns[cur].down
                    X == {EncodeWith(f, snonce, effective) : f \in S!Replies}
                    Y == X \cup ServerFrames
                    w == Wire(outbox, snonce, effective)
        <4>1. d \in Seq(ServerFrames) /\ outbox \in Seq(S!Replies)
          BY <3>1 DEF LInv, EndsInv, BridgeTypeOK
        <4>2. w \in Seq(X)
          BY <4>1, WireElements
        <4>3. Coming = d \o w
          BY <2>1, <3>2 DEF Coming
        <4>. HIDE DEF d, X, w
        <4>4. w \in Seq(Y) /\ d \in Seq(Y)
          BY SMTT(20), <4>1, <4>2
        <4>. HIDE DEF Y
        <4>5. conns'[cur].down \in Prefixes(d \o w)
          BY <1>5, <3>2, <4>4, PrefixOfFront DEF d
        <4>. QED  BY <3>1, <4>3, <4>5
      <3>3. CASE served # cur
        <4>1. Coming = conns[cur].down /\ Coming' = Coming
          BY <1>5, <2>1, <3>1, <3>3 DEF Coming
        <4>2. Coming' \in Survives(Coming, <<>>)
          BY <4>1 DEF Survives
        <4>. QED  BY <3>1, <4>2, PrefixSurvives
      <3>. QED  BY <3>2, <3>3
    <2>2. ASSUME cur # 0
          PROVE  /\ Coming' \in Seq(ServerFrames)
                 /\ Shape(Coming', fstate, fnonce, cur, ftx_seq, truth)
                 /\ fstate = "AUTHENTICATING" /\ Coming' = <<AuthOkFrame>> => Coming = <<AuthOkFrame>>
                 /\ Configured(Coming', fstate) => Configured(Coming, fstate)
      <3>. DEFINE D == Coming
                  E == Coming'
      <3>1. /\ D \in Seq(ServerFrames) /\ E \in Prefixes(D)
            /\ Shape(D, fstate, fnonce, cur, ftx_seq, truth)
        BY <2>1, <2>2 DEF LInv, LinkInv
      <3>. HIDE DEF D, E
      <3>2. /\ E \in Seq(ServerFrames)
            /\ Shape(E, fstate, fnonce, cur, ftx_seq, truth)
            /\ fstate = "AUTHENTICATING" /\ E = <<AuthOkFrame>> => D = <<AuthOkFrame>>
            /\ Configured(E, fstate) => Configured(D, fstate)
        BY <3>1, ShapePrefix
      <3>. QED  BY <3>2 DEF D, E
    <2>. QED  BY <1>1, <1>2, <1>3, <1>4, <2>2 DEF LInv, LinkInv
  <1>9. FirmwareTypeOK' /\ OutcomeTrue'
    BY <1>1 DEF LInv, FirmwareTypeOK, OutcomeTrue, firmware, fvars
  <1>. QED  BY <1>5, <1>6, <1>7, <1>8, <1>9 DEF LInv

LEMMA AcceptStep == ASSUME LInv, Accept PROVE LInv'
  <1>1. PICK c \in Conns :
           /\ Waiting(c)
           /\ IF served = 0
              THEN K!Attach /\ S!open /\ served' = c /\ UNCHANGED conns
              ELSE ServerCloses(c) /\ UNCHANGED <<kvars, svars, served>>
    BY DEF Accept
  <1>2. UNCHANGED <<firmware, snonce, requested, truth>>
    BY DEF Accept
  <1>3. UNCHANGED <<cur, password, fstate, fnonce, ftx_seq>> /\ cur \in Conns \cup {0}
    BY <1>2 DEF LInv, FirmwareTypeOK, firmware, fvars
  <1>4. FirmwareTypeOK' /\ OutcomeTrue'
    BY <1>2 DEF LInv, FirmwareTypeOK, OutcomeTrue, firmware, fvars
  <1>5. /\ conns[c].server /\ c # served /\ c # 0
        /\ conns[c].up \in {<<>>, <<HelloFrame>>} /\ conns[c].down = <<>>
        /\ c = cur => fstate = "HANDSHAKE" /\ conns[c].up = <<HelloFrame>>
    BY SMTT(20), <1>1 DEF LInv, EndsInv, Waiting, Conns
  <1>6. CASE served = 0
    <2>1. K!Attach /\ S!open /\ served' = c /\ UNCHANGED conns
      BY <1>1, <1>6
    <2>2. /\ sink' = TRUE /\ polling = FALSE /\ polling' = FALSE
          /\ UNCHANGED <<effective, config_pending, next_tx_outcome>>
      BY <2>1 DEF K!Attach, K!Idle, K!config, K!script, LInv, BridgeTypeOK
    <2>3. /\ phase' = "WaitHello" /\ tx_in_flight' = FALSE /\ tx_seq' = 0
          /\ awaiting_pong' = FALSE /\ outbox' = <<>>
      BY <2>1 DEF S!open
    <2>4. BridgeTypeOK'
      <3>1. outbox' \in Seq(S!Replies) /\ tx_seq' \in 0 .. U16 - 1 /\ phase' \in S!Phases
        BY SMTT(20), <2>3, LinkAssumption DEF S!Phases
      <3>. QED  BY <1>5, <2>1, <2>2, <2>3, <3>1 DEF LInv, BridgeTypeOK
    <2>5. EndsInv'
      <3>1. \A e \in Conns : Waiting(e)' => Waiting(e)
        BY SMTT(20), <1>6, <2>1 DEF Waiting, Conns
      <3>. QED  BY <1>3, <1>5, <2>1, <3>1 DEF LInv, EndsInv
    <2>6. SessionInv'
      <3>1. UpShape(conns[c].up, "WaitHello", c, password, FALSE, FALSE)
        BY <1>5 DEF UpShape
      <3>2. UpShape(conns'[served'].up, phase', served', password', awaiting_pong', tx_in_flight')
        BY <1>3, <2>1, <2>3, <3>1
      <3>3. \A i \in 1 .. Len(outbox') : outbox'[i].type # "CFG_OK"
        BY SMTT(20), <2>3
      <3>. QED  BY <2>3, <3>2, <3>3 DEF SessionInv
    <2>7. Coming' = Coming
      <3>1. CASE cur = c
        <4>1. Coming' = <<>> \o <<>> /\ Coming = <<>>
          BY <1>3, <1>5, <1>6, <2>1, <2>3, <3>1, WireShort DEF Coming
        <4>. QED  BY SMTT(20), <4>1
      <3>2. CASE cur # c
        BY <1>3, <1>6, <2>1, <3>2 DEF Coming
      <3>. QED  BY <3>1, <3>2
    <2>8. cur = c => InStep(Coming, conns[cur].up, "WaitHello", fstate, fnonce, cur, password)
      <3>1. cur = c => Coming = <<>>
        BY <1>5, <1>6 DEF Coming
      <3>. QED  BY <1>5, <3>1 DEF InStep
    <2>9. LinkInv'
      BY <1>2, <1>3, <2>1, <2>2, <2>3, <2>7, <2>8 DEF LInv, LinkInv
    <2>. QED  BY <1>4, <2>4, <2>5, <2>6, <2>9 DEF LInv
  <1>7. CASE served # 0
    <2>1. ServerCloses(c) /\ UNCHANGED <<kvars, svars, served>>
      BY <1>1, <1>7
    <2>2. /\ EndsInv' /\ (c = cur => conns'[c].down \in Prefixes(conns[c].down))
          /\ \A e \in Conns : e # c => conns'[e] = conns[e]
      BY <1>2, <1>5, <2>1, BridgeCloses
    <2>3. served \in Conns /\ conns'[served] = conns[served]
      BY <1>5, <1>7, <2>2 DEF LInv, BridgeTypeOK
    <2>4. BridgeTypeOK'
      BY <1>2, <2>1, BridgeSame DEF LInv, server
    <2>5. SessionInv'
      BY <1>2, <1>3, <2>1, <2>3 DEF LInv, SessionInv, svars, kvars
    <2>6. Coming' = Coming
      <3>1. CASE cur = c
        <4>1. conns'[cur].down = <<>> /\ conns[cur].down = <<>>
          BY <1>5, <2>2, <3>1, ShortPrefixes
        <4>. QED  BY <1>3, <1>5, <2>1, <3>1, <4>1 DEF Coming
      <3>2. CASE cur # c
        <4>1. cur # 0 => conns'[cur] = conns[cur]
          BY <1>3, <2>2, <3>2
        <4>. QED  BY <1>2, <1>3, <2>1, <4>1 DEF Coming, svars, kvars
      <3>. QED  BY <3>1, <3>2
    <2>7. LinkInv'
      BY <1>2, <1>3, <2>1, <2>3, <2>6 DEF LInv, LinkInv, svars, kvars
    <2>. QED  BY <1>4, <2>2, <2>4, <2>5, <2>7 DEF LInv
  <1>. QED  BY <1>6, <1>7
===============================================================================
