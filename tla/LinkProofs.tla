------------------------------ MODULE LinkProofs ------------------------------
(***************************************************************************)
(* Proofs about Link, for any passwords, any configuration, any sizes of   *)
(* the output queue and of the counters, and any script of the backend.    *)
(* This module has the reads of the bridge and the theorems.               *)
(***************************************************************************)
EXTENDS LinkBridgeProofs

(* Most leaves rewrite equalities and split sets: Zenon takes them, and SMT *)
(* is cited where a leaf counts, or reasons about sequences.                *)
USE Zenon

(* service_read: the session takes a frame. *)

(* What is true of the frame, and what taking it does to the connection. *)
LEMMA ReadTakes ==
    ASSUME LInv, Read
    PROVE  /\ served \in Conns /\ served # 0 /\ phase # "Closed" /\ polling = FALSE
           /\ conns[served].up # <<>> /\ conns[served].up \in Seq(ClientFrames(password))
           /\ UpShape(conns[served].up, phase, served, password, awaiting_pong, tx_in_flight)
           /\ EndsInv' /\ FirmwareTypeOK'
           /\ conns'[served].up = Tail(conns[served].up)
           /\ \A c \in Conns : conns'[c].down = conns[c].down
           /\ UNCHANGED <<firmware, served, cur, password, fstate, fnonce, ftx_seq>>
           /\ cur \notin {0, served} /\ Taken(Coming, fstate) => phase = "WaitHello"
           /\ cur = served =>
                 /\ InStep(Coming, conns[served].up, phase, fstate, fnonce, cur, password)
                 /\ Shape(Coming, fstate, fnonce, cur, ftx_seq, truth)
                 /\ Coming \in Seq(ServerFrames)
  <1>. DEFINE U == conns[served].up
              t == Tail(U)
              d == conns[served].down
  <1>1. /\ served # 0 /\ phase # "Closed" /\ ~polling /\ U # <<>>
        /\ conns' = [conns EXCEPT ![served].up = Tail(@)]
        /\ UNCHANGED <<firmware, served>>
    BY DEF Read
  <1>2. UNCHANGED <<cur, password, fstate, fnonce, ftx_seq>>
    BY <1>1 DEF firmware, fvars
  <1>3. /\ served \in Conns /\ polling = FALSE
        /\ UpShape(U, phase, served, password, awaiting_pong, tx_in_flight)
        /\ U \in Seq(ClientFrames(password)) /\ d \in Seq(ServerFrames)
        /\ ~conns[served].client => d = <<>>
    BY <1>1 DEF LInv, BridgeTypeOK, SessionInv, EndsInv
  <1>4. t \in Seq(ClientFrames(password))
    BY <1>1, <1>3, HeadTailElements
  <1>5. conns' = [conns EXCEPT ![served] =
                    [client |-> conns[served].client, server |-> conns[served].server,
                     up |-> t, down |-> d]]
    <2>1. conns' = [conns EXCEPT ![served].up = t]
      BY <1>1
    <2>. HIDE DEF t
    <2>2. [conns EXCEPT ![served].up = t] =
             [conns EXCEPT ![served] =
                [client |-> conns[served].client, server |-> conns[served].server,
                 up |-> t, down |-> conns[served].down]]
      BY <1>3, UpReplaced
    <2>. QED  BY <2>1, <2>2
  <1>6. /\ EndsInv' /\ conns'[served].up = t /\ conns'[served].down = d
        /\ \A c \in Conns : c # served => conns'[c] = conns[c]
    <2>. HIDE DEF t, d
    <2>. QED  BY <1>1, <1>3, <1>4, <1>5, QueuesChange
  <1>7. FirmwareTypeOK'
    BY <1>1 DEF LInv, FirmwareTypeOK, firmware, fvars
  <1>8. cur \notin {0, served} /\ Taken(Coming, fstate) => phase = "WaitHello"
    BY <1>1 DEF LInv, LinkInv
  <1>9. cur = served =>
           /\ InStep(Coming, U, phase, fstate, fnonce, cur, password)
           /\ Shape(Coming, fstate, fnonce, cur, ftx_seq, truth)
           /\ Coming \in Seq(ServerFrames)
    BY <1>1 DEF LInv, LinkInv
  <1>10. \A c \in Conns : conns'[c].down = conns[c].down
    BY <1>6
  <1>. QED  BY <1>1, <1>2, <1>3, <1>6, <1>7, <1>8, <1>9, <1>10

(* What is left to show of a frame taken. *)
LEMMA ReadKeeps ==
    ASSUME LInv, Read, UNCHANGED <<sink, polling>>,
           phase' \in S!Phases, tx_in_flight' \in BOOLEAN, awaiting_pong' \in BOOLEAN,
           tx_seq' \in 0 .. U16 - 1, outbox' \in Seq(S!Replies),
           next_tx_outcome' \in K!Results \cup {"none"},
           SessionInv', LinkInv', OutcomeTrue'
    PROVE  LInv'
  <1>1. served # 0 /\ served' = served /\ EndsInv' /\ FirmwareTypeOK'
    BY ReadTakes
  <1>2. BridgeTypeOK'
    BY <1>1 DEF LInv, BridgeTypeOK
  <1>. QED  BY <1>1, <1>2 DEF LInv

LEMMA OutcomeSame ==
    ASSUME LInv, UNCHANGED <<firmware, truth>> PROVE OutcomeTrue'
  BY DEF LInv, OutcomeTrue, firmware, fvars

(* A frame for which the session is closed without an answer. *)
LEMMA ReadCloses ==
    ASSUME LInv, Read, UNCHANGED <<sink, polling, config_pending, effective, next_tx_outcome>>,
           UNCHANGED <<truth, snonce, outbox>>, phase' = "Closed", tx_in_flight' = FALSE,
           awaiting_pong' = awaiting_pong, tx_seq' \in 0 .. U16 - 1
    PROVE  LInv'
  <1>1. /\ served # 0 /\ UNCHANGED <<firmware, served>>
        /\ \A c \in Conns : conns'[c].down = conns[c].down
    BY ReadTakes
  <1>2. SessionInv' /\ LinkInv'
    BY <1>1, ClosesQuietly
  <1>3. OutcomeTrue'
    BY <1>1, OutcomeSame
  <1>4. phase' \in S!Phases
    BY DEF S!Phases
  <1>. QED  BY <1>2, <1>3, <1>4, SessionTypes, ReadKeeps

LEMMA ReadOther ==
    ASSUME LInv, Read, OnOther(Head(conns[served].up)) PROVE LInv'
  <1>1. S!CloseNow /\ UNCHANGED <<kvars, snonce, truth>>
    BY DEF OnOther
  <1>2. /\ phase' = "Closed" /\ tx_in_flight' = FALSE
        /\ UNCHANGED <<tx_seq, awaiting_pong, outbox>>
    BY <1>1 DEF S!CloseNow, S!close
  <1>3. UNCHANGED <<sink, polling, config_pending, effective, next_tx_outcome>>
    BY <1>1 DEF kvars
  <1>. QED  BY <1>1, <1>2, <1>3, SessionTypes, ReadCloses

LEMMA ReadHello ==
    ASSUME LInv, Read, OnHello(Head(conns[served].up)) PROVE LInv'
  <1>. DEFINE ack == S!Reply("HELLO_ACK")
              chal == S!Reply("AUTH_CHALLENGE")
  <1>1. S!OnHello /\ snonce' = served /\ UNCHANGED <<kvars, requested, truth>>
    BY DEF OnHello
  <1>2. phase = "WaitHello"
    BY <1>1 DEF S!OnHello
  <1>3. \/ S!emit(<<ack, chal>>, S!EnterPhase("WaitAuth", 0))
        \/ S!emit(<<ack>>, S!close)
    BY <1>1 DEF S!OnHello
  <1>4. /\ ack \in S!Replies /\ ack.type = "HELLO_ACK"
        /\ chal \in S!Replies /\ chal.type = "AUTH_CHALLENGE"
    BY RepliesOK DEF S!ServerFrames
  <1>. HIDE DEF ack, chal
  <1>5. outbox = <<>> /\ outbox \in Seq(S!Replies)
    BY <1>2 DEF LInv, SessionInv, BridgeTypeOK
  <1>6. \/ (outbox' = outbox \o <<ack, chal>> /\ S!EnterPhase("WaitAuth", 0))
        \/ (outbox' \in {outbox, outbox \o <<ack>>} /\ S!close)
    <2>1. Len(<<ack>>) = 1 /\ Len(<<ack, chal>>) = 2
      OBVIOUS
    <2>. QED  BY <1>3, <1>4, <1>5, <2>1, Room DEF S!emit
  <1>7. UNCHANGED <<sink, polling, config_pending, effective, next_tx_outcome>>
    BY <1>1 DEF kvars
  <1>8. conns'[served].up = <<>>
    <2>1. conns[served].up = <<HelloFrame>>
      BY <1>2, ReadTakes DEF UpShape
    <2>2. Tail(<<HelloFrame>>) = <<>>
      BY SMT
    <2>. QED  BY <2>1, <2>2, ReadTakes
  <1>9. cur = served => fstate = "HANDSHAKE" /\ Coming = <<>>
    BY <1>2, ReadTakes DEF InStep
  <1>10. /\ served # 0 /\ \A c \in Conns : conns'[c].down = conns[c].down
         /\ UNCHANGED <<firmware, served, cur, password, fstate, fnonce, ftx_seq>>
    BY ReadTakes
  <1>11. OutcomeTrue'
    BY <1>1, <1>10, OutcomeSame
  <1>12. ASSUME NEW p \in Seq(S!Replies), outbox' = outbox \o p
         PROVE  /\ cur # served => Coming' = Coming
                /\ cur = served => Coming' = <<>> \o Wire(p, served, effective')
    <2>1. /\ cur # served => Coming' = Coming
          /\ cur = served => Coming' = Coming \o Wire(p, snonce', effective')
      BY <1>5, <1>7, <1>10, <1>12, ComingGrows
    <2>. QED  BY <1>1, <1>9, <2>1
  <1>13. CASE outbox' = outbox \o <<ack, chal>> /\ S!EnterPhase("WaitAuth", 0)
    <2>1. phase' = "WaitAuth" /\ UNCHANGED <<tx_in_flight, tx_seq, awaiting_pong>>
      BY <1>13 DEF S!EnterPhase
    <2>2. <<ack, chal>> \in Seq(S!Replies) /\ outbox' = <<ack, chal>>
      BY SMTT(20), <1>4, <1>5, <1>13
    <2>3. SessionInv'
      <3>1. \A i \in 1 .. Len(outbox') : outbox'[i].type # "CFG_OK"
        BY SMT, <1>4, <2>2
      <3>2. UpShape(<<>>, "WaitAuth", served, password, awaiting_pong, tx_in_flight)
        BY DEF UpShape
      <3>3. UpShape(conns'[served'].up, phase', served', password', awaiting_pong', tx_in_flight')
        BY <1>8, <1>10, <2>1, <3>2
      <3>4. ~tx_in_flight
        BY <1>2 DEF LInv, SessionInv
      <3>. QED  BY <1>1, <1>10, <2>1, <3>1, <3>3, <3>4 DEF SessionInv
    <2>4. CASE cur # served
      <3>1. Coming' = Coming
        BY <1>12, <1>13, <2>2, <2>4
      <3>2. LinkInv'
        BY <1>1, <1>7, <1>8, <1>10, <2>1, <2>4, <3>1, OtherServed
      <3>. QED  BY <1>7, <1>11, <2>1, <2>2, <2>3, <3>2, SessionTypes, ReadKeeps DEF S!Phases
    <2>5. CASE cur = served
      <3>. DEFINE E == <<AckFrame, ChallengeFrame(cur)>>
      <3>1. Coming' = E
        <4>1. Wire(<<ack, chal>>, served, effective') = E
          <5>1. /\ EncodeWith(ack, served, effective') = AckFrame
                /\ EncodeWith(chal, served, effective') = ChallengeFrame(cur)
            BY <1>4, <2>5 DEF EncodeWith
          <5>2. Wire(<<ack, chal>>, served, effective') =
                   <<EncodeWith(ack, served, effective'), EncodeWith(chal, served, effective')>>
            BY SMT DEF Wire
          <5>. QED  BY <5>1, <5>2
        <4>2. Coming' = <<>> \o E
          BY <1>12, <1>13, <2>2, <2>5, <4>1
        <4>. QED  BY SMT, <4>2
      <3>2. E \in Seq(ServerFrames) /\ E # <<>> /\ E # <<AuthOkFrame>>
        <4>1. cur \in Conns
          BY <2>5, ReadTakes
        <4>2. AckFrame \in ServerFrames /\ ChallengeFrame(cur) \in ServerFrames
          BY SMT, <4>1 DEF ServerFrames
        <4>. QED  BY SMT, <4>2
      <3>3. Shape(E, "HANDSHAKE", fnonce, cur, ftx_seq, truth)
        BY DEF Shape, F!Operational
      <3>4. InStep(E, <<>>, "WaitAuth", "HANDSHAKE", fnonce, cur, password)
        BY DEF InStep
      <3>. HIDE DEF E
      <3>5. ~Configured(E, "HANDSHAKE")
        BY DEF Configured, F!Operational
      <3>6. LinkInv'
        <4>1. "HANDSHAKE" \notin {"CONFIGURING"} \cup F!Operational
          BY DEF F!Operational
        <4>. QED  BY <1>1, <1>8, <1>9, <1>10, <2>1, <2>5, <3>1, <3>2, <3>3, <3>4, <3>5, <4>1
                     DEF LinkInv
      <3>. QED  BY <1>7, <1>11, <2>1, <2>2, <2>3, <3>6, SessionTypes, ReadKeeps DEF S!Phases
    <2>. QED  BY <2>4, <2>5
  <1>14. CASE outbox' \in {outbox, outbox \o <<ack>>} /\ S!close
    <2>1. /\ phase' = "Closed" /\ tx_in_flight' = FALSE /\ UNCHANGED <<tx_seq, awaiting_pong>>
      BY <1>14 DEF S!close
    <2>2. PICK p \in {<<>>, <<ack>>} : outbox' = outbox \o p
      BY SMTT(20), <1>5, <1>14
    <2>3. p \in Seq(S!Replies) /\ outbox' = p
      <3>1. <<>> \in Seq(S!Replies) /\ <<ack>> \in Seq(S!Replies)
        BY SMT, <1>4
      <3>2. p \in Seq(S!Replies)
        BY <2>2, <3>1
      <3>3. outbox' = <<>> \o p
        BY <1>5, <2>2
      <3>. QED  BY SMT, <3>2, <3>3
    <2>4. SessionInv'
      <3>1. \A i \in 1 .. Len(outbox') : outbox'[i].type # "CFG_OK"
        BY SMTT(20), <1>4, <2>2, <2>3
      <3>. QED  BY <2>1, <3>1 DEF SessionInv, UpShape
    <2>5. CASE cur # served
      <3>1. Coming' = Coming
        BY <1>12, <2>2, <2>3, <2>5
      <3>2. LinkInv'
        BY <1>1, <1>7, <1>10, <2>1, <2>5, <3>1, OtherServed
      <3>. QED  BY <1>7, <1>11, <2>1, <2>3, <2>4, <3>2, SessionTypes, ReadKeeps DEF S!Phases
    <2>6. CASE cur = served
      <3>. DEFINE E == Wire(p, served, effective')
      <3>1. Coming' = E /\ E \in {<<>>, <<AckFrame>>}
        <4>1. EncodeWith(ack, served, effective') = AckFrame
          BY <1>4 DEF EncodeWith
        <4>2. E \in {<<>>, <<AckFrame>>}
          BY ZenonT(30), <2>2, <4>1, WireShort
        <4>3. Coming' = <<>> \o E
          BY <1>12, <2>2, <2>3, <2>6
        <4>. HIDE DEF E
        <4>. QED  BY SMTT(20), <4>2, <4>3
      <3>. HIDE DEF E
      <3>2. E \in Seq(ServerFrames)
        <4>1. AckFrame \in ServerFrames
          BY SMT DEF ServerFrames
        <4>2. <<>> \in Seq(ServerFrames) /\ <<AckFrame>> \in Seq(ServerFrames)
          BY SMT, <4>1
        <4>. QED  BY <3>1, <4>2
      <3>3. Shape(E, "HANDSHAKE", fnonce, cur, ftx_seq, truth)
        BY <3>1 DEF Shape, F!Operational
      <3>4. ~Configured(E, "HANDSHAKE") /\ "HANDSHAKE" \notin {"CONFIGURING"} \cup F!Operational
        BY DEF Configured, F!Operational
      <3>5. LinkInv'
        BY <1>1, <1>9, <1>10, <2>1, <2>6, <3>1, <3>2, <3>3, <3>4 DEF LinkInv
      <3>. QED  BY <1>7, <1>11, <2>1, <2>3, <2>4, <3>5, SessionTypes, ReadKeeps DEF S!Phases
    <2>. QED  BY <2>5, <2>6
  <1>. QED  BY <1>6, <1>13, <1>14

(* The session refuses in the handshake, and closes. *)
LEMMA ReadRefuses ==
    ASSUME LInv, Read, phase \in {"WaitAuth", "WaitConfigure"},
           NEW g \in S!Replies, S!emit(<<g>>, S!close),
           UNCHANGED <<sink, polling, effective, next_tx_outcome, truth, snonce>>,
           cur = served =>
              /\ Coming = <<>>
              /\ \/ fstate = "AUTHENTICATING" /\ fnonce = cur /\ g.type = "AUTH_FAIL"
                 \/ fstate = "CONFIGURING" /\ g.type = "CFG_UNSUPPORTED",
           g.type \in {"AUTH_FAIL", "CFG_UNSUPPORTED"}
    PROVE  LInv'
  <1>1. /\ served # 0 /\ \A c \in Conns : conns'[c].down = conns[c].down
        /\ UNCHANGED <<firmware, served, cur, password, fstate, fnonce, ftx_seq>>
        /\ cur \notin {0, served} => ~Taken(Coming, fstate)
        /\ served \in Conns
    BY ReadTakes
  <1>2. outbox \in Seq(S!Replies) /\ \A i \in 1 .. Len(outbox) : outbox[i].type # "CFG_OK"
    BY DEF LInv, SessionInv, BridgeTypeOK
  <1>3. S!close /\ outbox' \in {outbox, outbox \o <<g>>}
    <2>1. Len(<<g>>) = 1
      OBVIOUS
    <2>. QED  BY <1>2, <2>1, Room DEF S!emit
  <1>4. phase' = "Closed" /\ tx_in_flight' = FALSE /\ UNCHANGED <<tx_seq, awaiting_pong>>
    BY <1>3 DEF S!close
  <1>5. <<g>> \in Seq(S!Replies) /\ <<>> \in Seq(S!Replies)
    BY SMT
  <1>6. PICK p \in {<<>>, <<g>>} : outbox' = outbox \o p
    BY SMTT(20), <1>2, <1>3
  <1>7. p \in Seq(S!Replies)
    BY <1>5, <1>6
  <1>8. /\ outbox' \in Seq(S!Replies)
        /\ \A i \in 1 .. Len(outbox') : outbox'[i].type # "CFG_OK"
    BY SMTT(20), <1>2, <1>3, AddedElements
  <1>9. SessionInv'
    BY <1>4, <1>8 DEF SessionInv, UpShape
  <1>10. OutcomeTrue'
    BY <1>1, OutcomeSame
  <1>11. /\ cur # served => Coming' = Coming
         /\ cur = served => Coming' = Coming \o Wire(p, snonce', effective')
    BY <1>1, <1>2, <1>6, <1>7, ComingGrows
  <1>12. LinkInv'
    <2>1. CASE cur # served
      <3>1. cur # 0 => ~Taken(Coming, fstate) /\ ~Configured(Coming, fstate)
        BY <1>1, <2>1 DEF Taken, Configured, F!Operational
      <3>. QED  BY <1>1, <1>4, <1>11, <2>1, <3>1, OtherServed
    <2>2. CASE cur = served
      <3>. DEFINE E == Wire(p, snonce', effective')
                  e == EncodeWith(g, snonce', effective')
      <3>1. /\ fstate = "AUTHENTICATING" => e = AuthFailFrame
            /\ fstate = "CONFIGURING" => e = CfgFailFrame
        BY <2>2 DEF EncodeWith
      <3>2. E \in {<<>>, <<e>>}
        <4>1. Wire(<<>>, snonce', effective') = <<>> /\ Wire(<<g>>, snonce', effective') = <<e>>
          BY SMT DEF Wire
        <4>. QED  BY <1>6, <4>1
      <3>3. Coming' = <<>> \o E
        BY <1>11, <2>2
      <3>. HIDE DEF E, e
      <3>4. Coming' = E
        BY SMTT(20), <3>2, <3>3
      <3>5. /\ AuthFailFrame \in ServerFrames /\ CfgFailFrame \in ServerFrames
            /\ AuthFailFrame # AuthOkFrame /\ CfgFailFrame # CfgOkFrame /\ cur # 0
        BY SMTT(20), <1>1, <2>2, FrameFields DEF ServerFrames
      <3>6. CASE fstate = "AUTHENTICATING"
        <4>1. e = AuthFailFrame /\ <<e>> \in Seq(ServerFrames) /\ <<>> \in Seq(ServerFrames)
          BY SMTT(20), <3>1, <3>5, <3>6
        <4>2. E \in Seq(ServerFrames) /\ E \in {<<>>, <<AuthFailFrame>>}
          BY <3>2, <4>1
        <4>3. E # <<AuthOkFrame>>
          <5>1. \A x, y : x # y => <<x>> # <<y>> /\ <<>> # <<y>>
            OBVIOUS
          <5>. QED  BY <3>5, <4>2, <5>1
        <4>4. Shape(E, "AUTHENTICATING", cur, cur, ftx_seq, truth)
          BY <3>5, <4>2 DEF Shape, F!Operational
        <4>5. /\ ~Configured(E, "AUTHENTICATING")
              /\ "AUTHENTICATING" \notin {"CONFIGURING"} \cup F!Operational
          BY DEF Configured, F!Operational
        <4>. QED  BY <1>1, <1>4, <2>2, <3>4, <3>6, <4>2, <4>3, <4>4, <4>5 DEF LinkInv
      <3>7. CASE fstate = "CONFIGURING"
        <4>1. e = CfgFailFrame /\ <<e>> \in Seq(ServerFrames) /\ <<>> \in Seq(ServerFrames)
          BY SMTT(20), <3>1, <3>5, <3>7
        <4>2. E \in Seq(ServerFrames) /\ E \in {<<>>, <<CfgFailFrame>>}
          BY <3>2, <4>1
        <4>3. Shape(E, "CONFIGURING", fnonce, cur, ftx_seq, truth)
          BY <4>2 DEF Shape, F!Operational
        <4>4. ~Configured(E, "CONFIGURING")
          BY SMTT(20), <3>5, <4>2 DEF Configured, F!Operational
        <4>5. password = BridgePassword
          BY <2>2, <3>5, <3>7 DEF LInv, LinkInv
        <4>. QED  BY <1>1, <1>4, <2>2, <3>4, <3>7, <4>2, <4>3, <4>4, <4>5 DEF LinkInv
      <3>. QED  BY <2>2, <3>6, <3>7
    <2>. QED  BY <2>1, <2>2
  <1>. QED  BY <1>4, <1>8, <1>9, <1>10, <1>12, SessionTypes, ReadKeeps DEF S!Phases

LEMMA ReadAuthResponse ==
    ASSUME LInv, Read, OnAuthResponse(Head(conns[served].up)) PROVE LInv'
  <1>. DEFINE f == Head(conns[served].up)
              g == S!Reply("AUTH_OK")
              h == S!Reply("AUTH_FAIL")
  <1>1. /\ S!OnAuthResponse(verify_auth_response(f))
        /\ UNCHANGED <<kvars, snonce, requested, truth>>
    BY DEF OnAuthResponse
  <1>2. phase = "WaitAuth"
    BY <1>1 DEF S!OnAuthResponse
  <1>3. conns[served].up = <<ResponseFrame(password, served)>>
    BY <1>2, ReadTakes DEF UpShape
  <1>4. f = ResponseFrame(password, served) /\ conns'[served].up = <<>>
    <2>1. \A x : Head(<<x>>) = x /\ Tail(<<x>>) = <<>>
      BY SMT
    <2>. QED  BY <1>3, <2>1, ReadTakes
  <1>5. verify_auth_response(f) <=> password = BridgePassword
    <2>1. f.payload = <<password, served>> /\ snonce = served
      BY SMTT(20), <1>2, <1>4, FrameFields DEF LInv, SessionInv
    <2>. HIDE DEF f
    <2>. QED  BY SMTT(20), <2>1 DEF verify_auth_response, hmac_sha256
  <1>6. cur = served => fstate = "AUTHENTICATING" /\ fnonce = cur /\ Coming = <<>>
    BY <1>2, <1>3, ReadTakes DEF InStep
  <1>7. UNCHANGED <<sink, polling, config_pending, effective, next_tx_outcome>>
    BY <1>1 DEF kvars
  <1>8. CASE password # BridgePassword
    <2>1. S!emit(<<h>>, S!close)
      BY <1>1, <1>5, <1>8 DEF S!OnAuthResponse
    <2>2. h \in S!Replies /\ h.type = "AUTH_FAIL"
      BY RepliesOK DEF S!ServerFrames
    <2>. HIDE DEF h
    <2>. QED  BY <1>1, <1>2, <1>6, <1>7, <2>1, <2>2, ReadRefuses
  <1>9. CASE password = BridgePassword
    <2>1. S!emit(<<g>>, S!EnterPhase("WaitConfigure", 0))
      BY <1>1, <1>5, <1>9 DEF S!OnAuthResponse
    <2>2. g \in S!Replies /\ g.type = "AUTH_OK" /\ <<g>> \in Seq(S!Replies)
      BY SMTT(20), RepliesOK DEF S!ServerFrames
    <2>. HIDE DEF g
    <2>3. outbox \in Seq(S!Replies) /\ \A i \in 1 .. Len(outbox) : outbox[i].type # "CFG_OK"
      BY <1>2 DEF LInv, SessionInv, BridgeTypeOK
    <2>4. \/ (outbox' = outbox \o <<g>> /\ S!EnterPhase("WaitConfigure", 0))
          \/ (outbox' = outbox /\ S!close)
      <3>1. Len(<<g>>) = 1
        OBVIOUS
      <3>. QED  BY <2>1, <2>2, <2>3, <3>1, Room DEF S!emit
    <2>5. CASE outbox' = outbox /\ S!close
      <3>1. phase' = "Closed" /\ tx_in_flight' = FALSE /\ UNCHANGED <<tx_seq, awaiting_pong>>
        BY <2>5 DEF S!close
      <3>. QED  BY <1>1, <1>7, <2>5, <3>1, SessionTypes, ReadCloses
    <2>6. CASE outbox' = outbox \o <<g>> /\ S!EnterPhase("WaitConfigure", 0)
      <3>1. phase' = "WaitConfigure" /\ UNCHANGED <<tx_in_flight, tx_seq, awaiting_pong>>
        BY <2>6 DEF S!EnterPhase
      <3>2. /\ served \in Conns /\ served # 0 /\ \A c \in Conns : conns'[c].down = conns[c].down
            /\ UNCHANGED <<firmware, served, cur, password, fstate, fnonce, ftx_seq>>
            /\ cur \notin {0, served} => ~Taken(Coming, fstate)
        BY <1>2, ReadTakes
      <3>3. /\ outbox' \in Seq(S!Replies)
            /\ \A i \in 1 .. Len(outbox') : outbox'[i].type # "CFG_OK"
        BY SMTT(20), <2>2, <2>3, <2>6, AddedElements
      <3>4. SessionInv'
        <4>1. UpShape(<<>>, "WaitConfigure", served, password, awaiting_pong, tx_in_flight)
          BY DEF UpShape
        <4>2. UpShape(conns'[served'].up, phase', served', password', awaiting_pong', tx_in_flight')
          BY <1>4, <3>1, <3>2, <4>1
        <4>3. ~tx_in_flight
          BY <1>2 DEF LInv, SessionInv
        <4>. QED  BY <1>9, <3>1, <3>2, <3>3, <4>2, <4>3 DEF SessionInv
      <3>5. /\ cur # served => Coming' = Coming
            /\ cur = served => Coming' = Coming \o Wire(<<g>>, snonce', effective')
        BY <1>1, <1>7, <2>2, <2>6, <3>2, ComingGrows
      <3>6. LinkInv'
        <4>1. CASE cur # served
          BY <1>1, <1>7, <3>2, <3>5, <4>1, OtherServed
        <4>2. CASE cur = served
          <5>. DEFINE E == <<AuthOkFrame>>
          <5>1. Wire(<<g>>, snonce', effective') = E
            <6>1. EncodeWith(g, snonce', effective') = AuthOkFrame
              BY <2>2 DEF EncodeWith
            <6>. QED  BY <6>1, WireShort
          <5>2. Coming' = <<>> \o E
            BY <1>6, <3>5, <4>2, <5>1
          <5>3. Coming' = E
            BY SMTT(20), <5>2
          <5>4. E \in Seq(ServerFrames)
            BY SMT DEF ServerFrames
          <5>5. Shape(E, "AUTHENTICATING", cur, cur, ftx_seq, truth)
            BY <3>2, <4>2 DEF Shape, F!Operational
          <5>6. InStep(E, <<>>, "WaitConfigure", "AUTHENTICATING", cur, cur, password)
            BY DEF InStep
          <5>. HIDE DEF E
          <5>7. ~Configured(E, "AUTHENTICATING")
            BY DEF Configured, F!Operational
          <5>. QED
            BY <1>1, <1>4, <1>6, <1>9, <3>1, <3>2, <4>2, <5>3, <5>4, <5>5, <5>6, <5>7
                       DEF LinkInv
        <4>. QED  BY <4>1, <4>2
      <3>7. OutcomeTrue'
        BY <1>1, <3>2, OutcomeSame
      <3>. QED  BY <1>7, <3>1, <3>3, <3>4, <3>6, <3>7, SessionTypes, ReadKeeps DEF S!Phases
    <2>. QED  BY <2>4, <2>5, <2>6
  <1>. QED  BY <1>8, <1>9

LEMMA ReadConfigure ==
    ASSUME LInv, Read, OnConfigure(Head(conns[served].up)) PROVE LInv'
  <1>. DEFINE f == Head(conns[served].up)
              g == S!Reply("CFG_UNSUPPORTED")
  <1>1. PICK token \in 0 .. U32 - 1 :
           /\ S!OnConfigure(token) /\ K!begin_configure(unpackConfig(f.payload), token)
           /\ requested' = IF token = 0 THEN requested ELSE unpackConfig(f.payload)
    BY DEF OnConfigure
  <1>2. UNCHANGED <<snonce, truth>> /\ phase = "WaitConfigure"
    BY <1>1 DEF OnConfigure, S!OnConfigure
  <1>3. conns[served].up = <<ConfigureFrame>>
    BY <1>2, ReadTakes DEF UpShape
  <1>4. f = ConfigureFrame /\ conns'[served].up = <<>>
    <2>1. \A x : Head(<<x>>) = x /\ Tail(<<x>>) = <<>>
      BY SMT
    <2>. QED  BY <1>3, <2>1, ReadTakes
  <1>5. unpackConfig(f.payload) = Desired
    <2>1. f.payload = packConfig(Desired)
      BY <1>4, FrameFields
    <2>. QED  BY <2>1, LinkAssumption
  <1>6. cur = served => fstate = "CONFIGURING" /\ Coming = <<>>
    BY <1>2, <1>3, ReadTakes DEF InStep
  <1>7. UNCHANGED <<sink, polling, effective, next_tx_outcome>>
    BY <1>1 DEF K!begin_configure, K!link, K!script
  <1>8. CASE token = 0
    <2>1. S!emit(<<g>>, S!close)
      BY <1>1, <1>8 DEF S!OnConfigure
    <2>2. g \in S!Replies /\ g.type = "CFG_UNSUPPORTED"
      BY RepliesOK DEF S!ServerFrames
    <2>. HIDE DEF g
    <2>. QED  BY <1>2, <1>6, <1>7, <2>1, <2>2, ReadRefuses
  <1>9. CASE token # 0
    <2>1. /\ phase' = "Configuring" /\ requested' = Desired
          /\ UNCHANGED <<tx_in_flight, tx_seq, awaiting_pong, outbox>>
      BY <1>1, <1>5, <1>9 DEF S!OnConfigure
    <2>2. /\ served \in Conns /\ served # 0 /\ \A c \in Conns : conns'[c].down = conns[c].down
          /\ UNCHANGED <<firmware, served, cur, password, fstate, fnonce, ftx_seq>>
          /\ cur \notin {0, served} => ~Taken(Coming, fstate)
      BY <1>2, ReadTakes
    <2>3. SessionInv'
      <3>1. UpShape(<<>>, "Configuring", served, password, awaiting_pong, tx_in_flight)
        BY DEF UpShape
      <3>2. UpShape(conns'[served'].up, phase', served', password', awaiting_pong', tx_in_flight')
        BY <1>4, <2>1, <2>2, <3>1
      <3>3. /\ ~tx_in_flight /\ password = BridgePassword
            /\ \A i \in 1 .. Len(outbox) : outbox[i].type # "CFG_OK"
        BY <1>2 DEF LInv, SessionInv
      <3>. QED  BY <2>1, <2>2, <3>2, <3>3 DEF SessionInv
    <2>4. Coming' = Coming
      BY <1>2, <1>7, <2>1, <2>2 DEF Coming, LInv, FirmwareTypeOK
    <2>5. LinkInv'
      <3>1. CASE cur # served
        <4>1. cur # 0 => ~Taken(Coming, fstate) /\ ~Configured(Coming, fstate)
          BY <2>2, <3>1 DEF Taken, Configured, F!Operational
        <4>. QED  BY <1>2, <2>2, <2>4, <3>1, <4>1, OtherServed
      <3>2. CASE cur = served
        <4>1. InStep(<<>>, <<>>, "Configuring", "CONFIGURING", fnonce, cur, password)
          BY DEF InStep
        <4>2. ~Configured(<<>>, "CONFIGURING")
          BY DEF Configured, F!Operational
        <4>. QED  BY <1>2, <1>4, <1>6, <2>1, <2>2, <2>4, <3>2, <4>1, <4>2 DEF LInv, LinkInv
      <3>. QED  BY <3>1, <3>2
    <2>6. OutcomeTrue'
      BY <1>2, <2>2, OutcomeSame
    <2>. QED  BY <1>7, <2>1, <2>3, <2>5, <2>6, SessionTypes, ReadKeeps DEF S!Phases
  <1>. QED  BY <1>8, <1>9

(* A session that is ready takes the head of what is on its way. *)
LEMMA UpTail ==
    ASSUME NEW key, NEW U \in Seq(ClientFrames(key)), U # <<>>,
           NEW c, NEW awaiting, NEW in_flight, UpShape(U, "Ready", c, key, awaiting, in_flight)
    PROVE  /\ Head(U) = PongFrame \/ \E seq \in 1 .. U16 - 1 : Head(U) = RequestFrame(seq)
           /\ Head(U).type = "TX_REQUEST" =>
                 UpShape(Tail(U), "Ready", c, key, awaiting, TRUE) /\ ~Has(Tail(U), "TX_REQUEST")
           /\ Head(U).type = "PONG" =>
                 UpShape(Tail(U), "Ready", c, key, FALSE, in_flight) /\ ~Has(Tail(U), "PONG")
           /\ \A type : Has(Tail(U), type) => Has(U, type)
           /\ Has(U, Head(U).type) /\ Head(U) = U[1] /\ 1 \in 1 .. Len(U)
           /\ \A i \in 1 .. Len(Tail(U)) : \E j \in 1 .. Len(U) : Tail(U)[i] = U[j]
  <1>1. /\ Len(U) \in Nat /\ Len(U) >= 1 /\ Head(U) = U[1]
        /\ Tail(U) \in Seq(ClientFrames(key)) /\ Len(Tail(U)) = Len(U) - 1
        /\ \A i \in 1 .. Len(U) - 1 : Tail(U)[i] = U[i + 1]
    BY HeadTailElements
  <1>2. ASSUME NEW type
        PROVE  /\ Has(Tail(U), type) => Has(U, type)
               /\ Head(U).type = type => Has(U, type)
               /\ Once(U, type) => Once(Tail(U), type)
               /\ Once(U, type) /\ Head(U).type = type => ~Has(Tail(U), type)
    BY HasTail
  <1>3. \A i \in 1 .. Len(Tail(U)) : i + 1 \in 1 .. Len(U) /\ Tail(U)[i] = U[i + 1]
    BY SMTT(20), <1>1
  <1>4. 1 \in 1 .. Len(U)
    BY SMTT(20), <1>1
  <1>5. /\ Head(U) = PongFrame \/ \E seq \in 1 .. U16 - 1 : Head(U) = RequestFrame(seq)
        /\ Once(U, "PONG") /\ Once(U, "TX_REQUEST")
        /\ Has(U, "PONG") => awaiting
        /\ Has(U, "TX_REQUEST") => ~in_flight
    BY <1>1, <1>4 DEF UpShape
  <1>6. \A i \in 1 .. Len(Tail(U)) :
           Tail(U)[i] = PongFrame \/ \E seq \in 1 .. U16 - 1 : Tail(U)[i] = RequestFrame(seq)
    BY <1>3 DEF UpShape
  <1>7. Head(U).type = "TX_REQUEST" =>
           UpShape(Tail(U), "Ready", c, key, awaiting, TRUE) /\ ~Has(Tail(U), "TX_REQUEST")
    BY <1>2, <1>5, <1>6 DEF UpShape
  <1>8. Head(U).type = "PONG" =>
           UpShape(Tail(U), "Ready", c, key, FALSE, in_flight) /\ ~Has(Tail(U), "PONG")
    BY <1>2, <1>5, <1>6 DEF UpShape
  <1>. QED  BY <1>1, <1>2, <1>3, <1>4, <1>5, <1>7, <1>8

LEMMA ReadPong ==
    ASSUME LInv, Read, OnPong(Head(conns[served].up)) PROVE LInv'
  <1>. DEFINE U == conns[served].up
  <1>1. /\ Head(U).type = "PONG" /\ phase = "Ready" /\ awaiting_pong /\ awaiting_pong' = FALSE
        /\ UNCHANGED <<phase, tx_in_flight, tx_seq, outbox, kvars, snonce, requested, truth>>
    BY DEF OnPong, S!OnPong
  <1>2. UNCHANGED <<sink, polling, config_pending, effective, next_tx_outcome, tx_pending,
                    pending_tx_result>>
    BY <1>1 DEF kvars
  <1>3. /\ served \in Conns /\ served # 0 /\ \A c \in Conns : conns'[c].down = conns[c].down
        /\ UNCHANGED <<firmware, served, cur, password, fstate, fnonce, ftx_seq>>
        /\ cur \notin {0, served} => ~Taken(Coming, fstate)
        /\ U # <<>> /\ U \in Seq(ClientFrames(password)) /\ conns'[served].up = Tail(U)
        /\ UpShape(U, "Ready", served, password, awaiting_pong, tx_in_flight)
        /\ cur = served => InStep(Coming, U, "Ready", fstate, fnonce, cur, password)
    BY <1>1, ReadTakes
  <1>4. cur = served =>
           /\ InTraffic(Coming, U, fstate, awaiting_pong, tx_in_flight, ftx_seq)
           /\ tx_in_flight => tx_seq = ftx_seq /\ pending_tx_result = truth
    BY <1>1, <1>3 DEF LInv, LinkInv
  <1>. HIDE DEF U
  <1>5. /\ UpShape(Tail(U), "Ready", served, password, FALSE, tx_in_flight)
        /\ ~Has(Tail(U), "PONG") /\ Has(U, "PONG")
        /\ \A type : Has(Tail(U), type) => Has(U, type)
        /\ \A i \in 1 .. Len(Tail(U)) : \E j \in 1 .. Len(U) : Tail(U)[i] = U[j]
    BY ZenonT(30), <1>1, <1>3, UpTail
  <1>6. SessionInv'
    <2>1. UpShape(conns'[served'].up, phase', served', password', awaiting_pong', tx_in_flight')
      BY <1>1, <1>3, <1>5
    <2>. QED  BY <1>1, <1>2, <1>3, <2>1 DEF LInv, SessionInv
  <1>7. Coming' = Coming
    BY <1>1, <1>2, <1>3 DEF Coming, LInv, FirmwareTypeOK
  <1>8. LinkInv'
    <2>1. CASE cur # served
      BY <1>1, <1>2, <1>3, <1>7, <2>1, OtherServed
    <2>2. CASE cur = served
      <3>1. InTraffic(Coming, Tail(U), fstate, FALSE, tx_in_flight, ftx_seq)
        BY <1>4, <1>5, <2>2 DEF InTraffic
      <3>2. InStep(Coming, Tail(U), "Ready", fstate, fnonce, cur, password)
        BY <1>3, <2>2 DEF InStep
      <3>3. conns'[cur'].up = Tail(U)
        BY <1>3, <2>2
      <3>. QED  BY <1>1, <1>2, <1>3, <1>4, <1>7, <2>2, <3>1, <3>2, <3>3 DEF LInv, LinkInv
    <2>. QED  BY <2>1, <2>2
  <1>9. OutcomeTrue'
    BY <1>1, <1>3, OutcomeSame
  <1>. QED  BY <1>1, <1>2, <1>6, <1>8, <1>9, SessionTypes, ReadKeeps

LEMMA ReadTxRequest ==
    ASSUME LInv, Read, OnTxRequest(Head(conns[served].up)) PROVE LInv'
  <1>. DEFINE U == conns[served].up
              q == Head(U)
  <1>1. PICK ok \in BOOLEAN :
           /\ S!OnTxRequest(q.seq, ok) /\ K!submit_tx(ok)
           /\ truth' = IF ok /\ served = cur THEN pending_tx_result' ELSE truth
    BY DEF OnTxRequest
  <1>2. /\ q.type = "TX_REQUEST" /\ phase = "Ready" /\ ~tx_in_flight /\ tx_seq' = q.seq
        /\ UNCHANGED <<awaiting_pong, outbox, snonce, requested>>
    BY <1>1 DEF OnTxRequest, S!OnTxRequest
  <1>3. UNCHANGED <<sink, polling, config_pending, effective>>
    BY <1>1 DEF K!submit_tx, K!link, K!config
  <1>4. /\ served \in Conns /\ served # 0 /\ \A c \in Conns : conns'[c].down = conns[c].down
        /\ UNCHANGED <<firmware, served, cur, password, fstate, fnonce, ftx_seq>>
        /\ cur \notin {0, served} => ~Taken(Coming, fstate)
        /\ U # <<>> /\ U \in Seq(ClientFrames(password)) /\ conns'[served].up = Tail(U)
        /\ UpShape(U, "Ready", served, password, awaiting_pong, tx_in_flight)
        /\ cur = served =>
              /\ InStep(Coming, U, "Ready", fstate, fnonce, cur, password)
              /\ Shape(Coming, fstate, fnonce, cur, ftx_seq, truth)
              /\ Coming \in Seq(ServerFrames)
    BY <1>2, ReadTakes
  <1>5. cur = served => InTraffic(Coming, U, fstate, awaiting_pong, tx_in_flight, ftx_seq)
    BY <1>2, <1>4 DEF LInv, LinkInv
  <1>. HIDE DEF U
  <1>6. /\ q = PongFrame \/ \E seq \in 1 .. U16 - 1 : q = RequestFrame(seq)
        /\ UpShape(Tail(U), "Ready", served, password, awaiting_pong, TRUE)
        /\ ~Has(Tail(U), "TX_REQUEST") /\ Has(U, "TX_REQUEST")
        /\ \A type : Has(Tail(U), type) => Has(U, type)
        /\ q = U[1] /\ 1 \in 1 .. Len(U)
        /\ \A i \in 1 .. Len(Tail(U)) : \E j \in 1 .. Len(U) : Tail(U)[i] = U[j]
    BY <1>2, <1>4, UpTail
  <1>7. q.seq \in 1 .. U16 - 1
    BY SMTT(20), <1>2, <1>6, FrameFields
  <1>. HIDE DEF q
  <1>8. tx_seq' \in 0 .. U16 - 1 /\ tx_seq' # 0
    BY SMTT(20), <1>2, <1>7, LinkAssumption
  <1>9. CASE ~ok
    <2>1. phase' = "Closed" /\ tx_in_flight' = FALSE
      BY <1>1, <1>2, <1>9, SessionTypes DEF S!OnTxRequest
    <2>2. UNCHANGED <<next_tx_outcome, truth>>
      BY <1>1, <1>9 DEF K!submit_tx
    <2>. QED  BY <1>2, <1>3, <1>8, <2>1, <2>2, ReadCloses
  <1>10. CASE ok
    <2>1. tx_in_flight' = TRUE /\ phase' = "Ready"
      BY <1>1, <1>2, <1>10 DEF S!OnTxRequest
    <2>2. /\ tx_pending' = TRUE /\ next_tx_outcome' = "none"
          /\ pending_tx_result' \in K!Results
      <3>1. /\ tx_pending' = TRUE /\ next_tx_outcome' = "none"
            /\ pending_tx_result' = IF next_tx_outcome = "none" THEN "Success" ELSE next_tx_outcome
        BY <1>1, <1>10 DEF K!submit_tx
      <3>. QED  BY <3>1, SessionTypes DEF K!Results
    <2>3. SessionInv'
      <3>1. UpShape(conns'[served'].up, phase', served', password', awaiting_pong', tx_in_flight')
        BY <1>2, <1>4, <1>6, <2>1
      <3>. QED  BY <1>2, <1>3, <1>4, <1>8, <2>1, <2>2, <3>1 DEF LInv, SessionInv
    <2>4. Coming' = Coming
      BY <1>2, <1>3, <1>4 DEF Coming, LInv, FirmwareTypeOK
    <2>5. CASE cur # served
      <3>1. truth' = truth
        BY <1>1, <2>5
      <3>2. LinkInv'
        BY <1>2, <1>3, <1>4, <2>4, <2>5, <3>1, OtherServed
      <3>3. OutcomeTrue'
        BY <1>4, <3>1, OutcomeSame
      <3>. QED  BY <1>2, <1>3, <1>8, <2>1, <2>2, <2>3, <3>2, <3>3, SessionTypes, ReadKeeps
                   DEF S!Phases
    <2>6. CASE cur = served
      <3>1. truth' = pending_tx_result'
        BY <1>1, <1>10, <2>6
      <3>2. fstate = "TX_PENDING" /\ ~Has(Coming, "TX_RESULT")
        BY <1>5, <1>6, <2>6 DEF InTraffic
      <3>3. q.seq = ftx_seq
        BY <1>2, <1>5, <1>6, <2>6 DEF InTraffic
      <3>. DEFINE D == Coming
                  now == truth'
      <3>4. Shape(D, "TX_PENDING", fnonce, cur, ftx_seq, now)
        <4>1. Shape(D, "TX_PENDING", fnonce, cur, ftx_seq, truth) /\ ~Has(D, "TX_RESULT")
          BY <1>4, <2>6, <3>2
        <4>. HIDE DEF D, now
        <4>2. \A i \in 1 .. Len(D) : D[i] \in {RxFrame, PingFrame}
          BY SMTT(20), <4>1, FrameFields DEF Shape, F!Operational, Has
        <4>3. Once(D, "TX_RESULT")
          BY <4>1 DEF Has, Once
        <4>. QED  BY <4>2, <4>3 DEF Shape
      <3>5. InTraffic(D, Tail(U), "TX_PENDING", awaiting_pong, TRUE, ftx_seq)
        BY <1>5, <1>6, <2>6, <3>2 DEF InTraffic
      <3>6. InStep(D, Tail(U), "Ready", "TX_PENDING", fnonce, cur, password)
        BY DEF InStep, F!Operational
      <3>7. conns'[cur'].up = Tail(U)
        BY <1>4, <2>6
      <3>8. /\ password = BridgePassword /\ ~config_pending /\ effective = Desired
            /\ cur # 0 /\ D \in Seq(ServerFrames)
        BY <1>2, <1>4, <2>6 DEF LInv, SessionInv
      <3>9. LinkInv'
        <4>1. Coming' = D /\ fstate' = "TX_PENDING"
          BY <1>4, <2>4, <3>2
        <4>. HIDE DEF D, now
        <4>2. Shape(Coming', fstate', fnonce', cur', ftx_seq', truth')
          BY <1>4, <3>4, <4>1 DEF now
        <4>3. InStep(Coming', conns'[cur'].up, phase', fstate', fnonce', cur', password')
          BY <1>4, <2>1, <3>6, <3>7, <4>1
        <4>4. InTraffic(Coming', conns'[cur'].up, fstate', awaiting_pong', tx_in_flight', ftx_seq')
          BY <1>2, <1>4, <2>1, <3>5, <3>7, <4>1
        <4>5. tx_seq' = ftx_seq' /\ pending_tx_result' = truth'
          BY <1>2, <1>4, <3>1, <3>3
        <4>. QED  BY <1>3, <1>4, <2>6, <3>8, <4>1, <4>2, <4>3, <4>4, <4>5 DEF LinkInv
      <3>10. OutcomeTrue'
        BY <1>4, <3>2 DEF OutcomeTrue
      <3>. QED  BY <1>2, <1>3, <1>8, <2>1, <2>2, <2>3, <3>9, <3>10, SessionTypes, ReadKeeps
                   DEF S!Phases
    <2>. QED  BY <2>5, <2>6
  <1>. QED  BY <1>9, <1>10

LEMMA ReadStep == ASSUME LInv, Read PROVE LInv'
  <1>. DEFINE f == Head(conns[served].up)
  <1>1. OnOther(f) \/ OnHello(f) \/ OnAuthResponse(f) \/ OnConfigure(f) \/ OnTxRequest(f) \/ OnPong(f)
    BY DEF Read
  <1>. QED
    BY <1>1, ReadOther, ReadHello, ReadAuthResponse, ReadConfigure, ReadTxRequest, ReadPong
-------------------------------------------------------------------------------
(* The theorems. *)

LEMMA NextStep == ASSUME LInv, [Next]_vars PROVE LInv'
  <1>1. CASE Firmware
    BY <1>1, SetDesiredConfigStep, StartConnectStep, ConnectStep, ReceiveStep, DisconnectedStep,
       TimeoutStep, SubmitTxStep DEF Firmware, Transport
  <1>2. CASE Loop
    BY <1>2, AcceptStep, ReadStep, FlushStep, PollStep, TickStep, DropStep DEF Loop
  <1>3. CASE Script
    BY <1>3, ScriptStep
  <1>4. CASE UNCHANGED vars
    BY <1>4, NothingChanges DEF vars, backend
  <1>. QED  BY <1>1, <1>2, <1>3, <1>4 DEF Next

(* The invariant of the two ends holds: of the connections and who has which  *)
(* end open, of the session and its backend, of what is still on its way to   *)
(* the firmware, and of who is to move in the handshake and in the traffic.   *)
THEOREM LinkInvariant == Spec => []LInv
  BY InitInvariant, NextStep, PTL DEF Spec

(* Nothing is sent before the firmware has been given a valid configuration. *)
ValidOrSilent == radioConfigValid(Desired) \/ conns = [c \in Conns |-> Closed]

LEMMA ValidOrSilentStep == ASSUME LInv, ValidOrSilent, [Next]_vars PROVE ValidOrSilent'
  <1>1. CASE radioConfigValid(Desired)
    BY <1>1 DEF ValidOrSilent
  <1>2. CASE ~radioConfigValid(Desired)
    <2>1. conns = [c \in Conns |-> Closed] /\ \A c \in Conns : ~conns[c].server
      BY SMTT(20), <1>2 DEF ValidOrSilent, Closed
    <2>2. fstate = "DISCONNECTED" /\ cur = 0 /\ served = 0
      BY <1>2, <2>1
         DEF LInv, FirmwareTypeOK, EndsInv, BridgeTypeOK, F!Handshaking, F!Operational
    <2>3. CASE Firmware
      <3>1. ~Connect /\ ~Receive /\ ~Disconnected /\ ~SubmitTx
        BY <2>2 DEF Connect, Receive, Disconnected, SubmitTx
      <3>2. SetDesiredConfig \/ StartConnect \/ Timeout
        BY <2>3, <3>1 DEF Firmware, Transport
      <3>. QED  BY <2>1, <2>2, <3>2
                   DEF ValidOrSilent, SetDesiredConfig, StartConnect, Timeout, Act
    <2>4. CASE Loop
      <3>1. ~Accept /\ ~Read /\ ~flush /\ ~drop_connection_if_finished
        BY <2>1, <2>2 DEF Accept, Waiting, Read, flush, drop_connection_if_finished
      <3>. QED  BY <2>1, <2>4, <3>1 DEF ValidOrSilent, Loop, Poll, Tick
    <2>5. CASE Script \/ UNCHANGED vars
      BY <2>1, <2>5 DEF ValidOrSilent, Script, vars
    <2>. QED  BY <2>3, <2>4, <2>5 DEF Next
  <1>. QED  BY <1>1, <1>2

(* The two implementations of the protocol understand each other, for every  *)
(* configuration the firmware may want and any size of the output queue:     *)
(* each frame passes validate(), the bridge has a step for the next frame of  *)
(* the firmware, and the firmware never fails on a frame of the bridge.       *)
THEOREM EndsUnderstandEachOther == Spec => []Compatible
  <1>1. ASSUME LInv, ValidOrSilent PROVE Compatible
    <2>. USE <1>1
    <2>. DEFINE U == conns[served].up
    <2>1. last_err \notin {"MALFORMED", "BAD_STATE", "REMOTE"}
      BY DEF LInv, FirmwareTypeOK
    <2>2. ASSUME NEW c \in Conns, NEW i \in 1 .. Len(conns[c].up) PROVE validate(conns[c].up[i])
      <3>1. conns[c].up \in Seq(ClientFrames(password))
        BY DEF LInv, EndsInv
      <3>2. conns[c].up[i] \in ClientFrames(password)
        BY <3>1, ElementOfSeq
      <3>3. radioConfigValid(Desired)
        BY SMTT(20), <2>2 DEF ValidOrSilent, Closed
      <3>. QED  BY <3>2, <3>3, ClientFramesValid
    <2>3. ASSUME NEW c \in Conns, NEW i \in 1 .. Len(conns[c].down) PROVE validate(conns[c].down[i])
      <3>1. conns[c].down \in Seq(ServerFrames)
        BY DEF LInv, EndsInv
      <3>2. conns[c].down[i] \in ServerFrames
        BY <3>1, ElementOfSeq
      <3>3. radioConfigValid(Desired)
        BY SMTT(20), <2>3 DEF ValidOrSilent, Closed
      <3>. QED  BY <3>2, <3>3, ServerFramesValid
    <2>4. ASSUME served # 0, phase # "Closed", U # <<>> PROVE Head(U).type \in S!Expected
      <3>1. /\ phase \in S!Phases /\ U \in Seq(ClientFrames(password))
            /\ UpShape(U, phase, served, password, awaiting_pong, tx_in_flight)
        BY <2>4 DEF LInv, BridgeTypeOK, EndsInv, SessionInv
      <3>. HIDE DEF U
      <3>2. \A x : Head(<<x>>) = x
        BY SMT
      <3>3. CASE phase = "Ready"
        <4>1. Has(U, "PONG") => awaiting_pong
          BY <3>1, <3>3 DEF UpShape
        <4>2. Has(U, "TX_REQUEST") => ~tx_in_flight
          BY <3>1, <3>3 DEF UpShape
        <4>3. Head(U).type \in {"PONG", "TX_REQUEST"} /\ Has(U, Head(U).type)
          <5>1. UpShape(U, "Ready", served, password, awaiting_pong, tx_in_flight)
            BY <3>1, <3>3
          <5>2. /\ Head(U) = PongFrame \/ \E seq \in 1 .. U16 - 1 : Head(U) = RequestFrame(seq)
                /\ Has(U, Head(U).type)
            BY <2>4, <3>1, <5>1, UpTail
          <5>. QED  BY SMTT(20), <5>2, FrameFields
        <4>. QED  BY <3>3, <4>1, <4>2, <4>3 DEF S!Expected
      <3>4. CASE phase = "WaitHello"
        BY SMTT(20), <2>4, <3>1, <3>2, <3>4, FrameFields DEF UpShape, S!Expected
      <3>5. CASE phase = "WaitAuth"
        BY SMTT(20), <2>4, <3>1, <3>2, <3>5, FrameFields DEF UpShape, S!Expected
      <3>6. CASE phase = "WaitConfigure"
        BY SMTT(20), <2>4, <3>1, <3>2, <3>6, FrameFields DEF UpShape, S!Expected
      <3>7. phase # "Configuring"
        BY <2>4, <3>1 DEF UpShape
      <3>. QED  BY <2>4, <3>1, <3>3, <3>4, <3>5, <3>6, <3>7 DEF S!Phases
    <2>. QED  BY <2>1, <2>2, <2>3, <2>4 DEF Compatible
  <1>2. Init => ValidOrSilent
    BY DEF Init, ValidOrSilent
  <1>. QED  BY <1>1, <1>2, ValidOrSilentStep, LinkInvariant, PTL DEF Spec

(* An outcome the firmware is told is the backend's outcome of that frame.   *)
THEOREM OutcomesAreTrue == Spec => []OutcomeTrue
  <1>1. LInv => OutcomeTrue
    BY DEF LInv
  <1>. QED  BY <1>1, LinkInvariant, PTL

(* When either end takes the radio for ready, the firmware knows the password *)
(* and the backend runs the configuration the firmware set.                   *)
THEOREM ReadyOnBothEnds == Spec => []ReadyAgrees
  <1>1. ASSUME LInv PROVE ReadyAgrees
    <2>1. phase = "Ready" => password = BridgePassword /\ effective = requested
      BY <1>1 DEF LInv, SessionInv
    <2>2. ASSUME fstate \in F!Operational PROVE password = BridgePassword /\ effective = cfg
      <3>1. cur # 0 /\ cfg = Desired
        BY <1>1, <2>2 DEF LInv, FirmwareTypeOK, F!Operational
      <3>2. Configured(Coming, fstate)
        BY <2>2 DEF Configured
      <3>. QED  BY <1>1, <2>2, <3>1, <3>2 DEF LInv, LinkInv
    <2>. QED  BY <2>1, <2>2 DEF ReadyAgrees
  <1>. QED  BY <1>1, LinkInvariant, PTL
===============================================================================
