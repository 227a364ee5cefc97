-------------------------- MODULE LinkFirmwareProofs --------------------------
(***************************************************************************)
(* Proofs about Link, for any passwords, any configuration, any sizes of   *)
(* the output queue and of the counters, and any script of the backend.    *)
(* This module has the inductive invariant, the lemmas about queues and    *)
(* frames, and the steps of the firmware; LinkBridgeProofs has those of the *)
(* bridge but for its reads, LinkProofs the reads and the theorems.        *)
(***************************************************************************)
EXTENDS Link, SequenceTheorems, TLAPS

(* Most leaves rewrite equalities and split sets: Zenon takes them, and SMT *)
(* is cited where a leaf counts, or reasons about sequences.                *)
USE Zenon

(* The frames of the firmware. *)
HelloFrame == Control("HELLO", <<kVersion>>)
ResponseFrame(key, nonce) ==
    Frame("AUTH_RESPONSE", 0, kAuthResponseSize, hmac_sha256(key, nonce))
ConfigureFrame == Control("CONFIGURE", packConfig(Desired))
RequestFrame(seq) == Frame("TX_REQUEST", seq, 1, <<>>)
PongFrame == Control("PONG", <<>>)
ClientFrames(key) ==
    {HelloFrame, ConfigureFrame, PongFrame} \cup {ResponseFrame(key, n) : n \in Conns}
    \cup {RequestFrame(seq) : seq \in 1 .. U16 - 1}

(* The frames of the bridge. *)
AckFrame == Control("HELLO_ACK", <<kVersion>>)
ChallengeFrame(nonce) == Frame("AUTH_CHALLENGE", 0, kAuthNonceSize, nonce)
AuthOkFrame == Control("AUTH_RESULT", <<0>>)
AuthFailFrame == Control("AUTH_RESULT", <<1>>)
CfgOkFrame == Control("CONFIG_RESULT", <<0>> \o packConfig(Desired))
CfgFailFrame == Control("CONFIG_RESULT", <<1>>)
RxFrame == Frame("RX_PACKET", 0, 7, <<0, 0, 0, 0, 0, 1>>)
PingFrame == Control("PING", <<>>)
ResultFrame(seq, result) == Frame("TX_RESULT", seq, 1, <<tx_outcome_to_wire(result)>>)
ServerFrames ==
    {AckFrame, AuthOkFrame, AuthFailFrame, CfgOkFrame, CfgFailFrame, RxFrame, PingFrame}
    \cup {ChallengeFrame(n) : n \in Conns}
    \cup {ResultFrame(seq, result) : seq \in 1 .. U16 - 1, result \in K!Results}

Has(s, type) == \E i \in 1 .. Len(s) : s[i].type = type
Once(s, type) == \A i, j \in 1 .. Len(s) : s[i].type = type /\ s[j].type = type => i = j

(* The bytes of the session's queue, with this nonce and configuration. *)
EncodeWith(f, nonce, eff) ==
    CASE f.type = "HELLO_ACK"       -> AckFrame
      [] f.type = "AUTH_CHALLENGE"  -> ChallengeFrame(nonce)
      [] f.type = "AUTH_OK"         -> AuthOkFrame
      [] f.type = "AUTH_FAIL"       -> AuthFailFrame
      [] f.type = "CFG_OK"          -> Control("CONFIG_RESULT", <<0>> \o packConfig(eff))
      [] f.type = "CFG_UNSUPPORTED" -> CfgFailFrame
      [] f.type = "CFG_INVALID"     -> Control("CONFIG_RESULT", <<2>>)
      [] f.type = "RX_PACKET"       -> RxFrame
      [] f.type = "TX_RESULT"       -> ResultFrame(f.seq, f.result)
      [] f.type = "PING"            -> PingFrame
Wire(queue, nonce, eff) == [i \in 1 .. Len(queue) |-> EncodeWith(queue[i], nonce, eff)]

(* What the firmware has yet to receive, if nothing is lost. *)
Coming ==
    IF cur = 0 THEN <<>>
    ELSE IF served = cur THEN conns[cur].down \o Wire(outbox, snonce, effective)
    ELSE conns[cur].down

(* What may be on its way to a firmware in state f with this nonce, on      *)
(* connection c, that submitted a frame under seq with the outcome result.  *)
Shape(D, f, nonce, c, seq, result) ==
    /\ f = "HANDSHAKE" => D \in {<<>>, <<AckFrame>>, <<AckFrame, ChallengeFrame(c)>>}
    /\ f = "AUTHENTICATING" /\ nonce = 0 => D \in {<<>>, <<ChallengeFrame(c)>>}
    /\ f = "AUTHENTICATING" /\ nonce # 0 =>
          nonce = c /\ D \in {<<>>, <<AuthOkFrame>>, <<AuthFailFrame>>}
    /\ f = "CONFIGURING" =>
          \/ D \in {<<>>, <<CfgFailFrame>>}
          \/ /\ D # <<>> /\ D[1] = CfgOkFrame
             /\ \A i \in 2 .. Len(D) : D[i] \in {RxFrame, PingFrame}
    /\ f \in F!Operational =>
          /\ \A i \in 1 .. Len(D) :
                \/ D[i] \in {RxFrame, PingFrame}
                \/ f = "TX_PENDING" /\ result \in K!Results /\ D[i] = ResultFrame(seq, result)
          /\ Once(D, "TX_RESULT")

(* What may be on its way to a session in phase p on connection c. *)
UpShape(U, p, c, key, awaiting, in_flight) ==
    /\ p = "WaitHello" => U \in {<<>>, <<HelloFrame>>}
    /\ p = "WaitAuth" => U \in {<<>>, <<ResponseFrame(key, c)>>}
    /\ p = "WaitConfigure" => U \in {<<>>, <<ConfigureFrame>>}
    /\ p = "Configuring" => U = <<>>
    /\ p = "Ready" =>
          /\ \A i \in 1 .. Len(U) :
                U[i] = PongFrame \/ \E seq \in 1 .. U16 - 1 : U[i] = RequestFrame(seq)
          /\ Once(U, "PONG") /\ Once(U, "TX_REQUEST")
          /\ Has(U, "PONG") => awaiting
          /\ Has(U, "TX_REQUEST") => ~in_flight

(* The two ends of connection c while neither is closed: who is to move in  *)
(* the handshake, *)
InStep(D, U, p, f, nonce, c, key) ==
    /\ p = "WaitHello" => f = "HANDSHAKE" /\ D = <<>> /\ U = <<HelloFrame>>
    /\ p = "WaitAuth" =>
          \/ f = "HANDSHAKE" /\ D = <<AckFrame, ChallengeFrame(c)>> /\ U = <<>>
          \/ f = "AUTHENTICATING" /\ nonce = 0 /\ D = <<ChallengeFrame(c)>> /\ U = <<>>
          \/ f = "AUTHENTICATING" /\ nonce = c /\ D = <<>> /\ U = <<ResponseFrame(key, c)>>
    /\ p = "WaitConfigure" =>
          \/ f = "AUTHENTICATING" /\ nonce = c /\ D = <<AuthOkFrame>> /\ U = <<>>
          \/ f = "CONFIGURING" /\ D = <<>> /\ U = <<ConfigureFrame>>
    /\ p = "Configuring" => f = "CONFIGURING" /\ D = <<>> /\ U = <<>>
    /\ p = "Ready" =>
          \/ f = "CONFIGURING" /\ D # <<>> /\ D[1] = CfgOkFrame /\ U = <<>>
          \/ f \in F!Operational

(* and where the PING and the TX are once the session is ready. *)
InTraffic(D, U, f, awaiting, in_flight, seq) ==
    /\ Once(D, "PING")
    /\ Has(D, "PING") => awaiting /\ ~Has(U, "PONG")
    /\ in_flight \/ Has(U, "TX_REQUEST") => f = "TX_PENDING" /\ ~Has(D, "TX_RESULT")
    /\ \A i \in 1 .. Len(U) : U[i].type = "TX_REQUEST" => U[i].seq = seq

(* The firmware knows, or is about to learn, that the backend is configured. *)
Configured(D, f) ==
    f \in F!Operational \/ (f = "CONFIGURING" /\ D # <<>> /\ D[1] = CfgOkFrame)

(* The bridge has taken the connection of a firmware in state f. *)
Taken(D, f) == f # "HANDSHAKE" \/ D # <<>>

FirmwareTypeOK ==
    /\ fstate \in {"DISCONNECTED", "CONNECTING", "DEGRADED"} \cup F!Handshaking \cup F!Operational
    /\ fstate # "DISCONNECTED" => cfg # NoConfig
    /\ cfg # NoConfig => cfg = Desired /\ radioConfigValid(Desired)
    /\ next_seq \in 1 .. U16 - 1
    /\ fstate = "TX_PENDING" => ftx_seq \in 1 .. U16 - 1
    /\ fstate \in F!Handshaking => last_tx_outcome = "NONE"
    /\ fstate = "HANDSHAKE" => fnonce = 0
    /\ last_err \in {"NONE", "TIMEOUT", "AUTH", "CONFIG"}
    /\ cur \in Conns \cup {0}
    /\ cur # 0 <=> fstate \in F!Handshaking \cup F!Operational

BridgeTypeOK ==
    /\ served \in Conns \cup {0} /\ phase \in S!Phases
    /\ tx_in_flight \in BOOLEAN /\ awaiting_pong \in BOOLEAN
    /\ tx_seq \in 0 .. U16 - 1
    /\ outbox \in Seq(S!Replies)
    /\ polling \in BOOLEAN /\ (sink <=> served # 0) /\ (polling => sink)
    /\ next_tx_outcome \in K!Results \cup {"none"}
    /\ served = 0 => phase = "Closed" /\ outbox = <<>>

(* Which ends are open, and what is in the queues. *)
EndsInv ==
    /\ conns \in [Conns -> [client : BOOLEAN, server : BOOLEAN,
                            up : Seq(ClientFrames(password)), down : Seq(ServerFrames)]]
    /\ \A c \in Conns : conns[c].client <=> c = cur
    /\ \A c \in Conns : ~conns[c].client => conns[c].down = <<>>
    /\ \A c \in Conns : ~conns[c].server => conns[c].up = <<>>
    /\ served # 0 => conns[served].server
    /\ \A c \in Conns : Waiting(c) =>
          /\ conns[c].up \in {<<>>, <<HelloFrame>>} /\ conns[c].down = <<>>
          /\ c = cur => fstate = "HANDSHAKE" /\ conns[c].up = <<HelloFrame>>

(* The session and the backend. *)
SessionInv ==
    /\ phase = "WaitHello" => outbox = <<>>
    /\ phase \in {"WaitAuth", "WaitConfigure", "Configuring"} \/ config_pending =>
          \A i \in 1 .. Len(outbox) : outbox[i].type # "CFG_OK"
    /\ tx_in_flight =>
          phase = "Ready" /\ tx_seq # 0 /\ tx_pending /\ pending_tx_result \in K!Results
    /\ phase = "Configuring" => requested = Desired
    /\ phase = "Ready" => requested = Desired /\ effective = Desired /\ ~config_pending
    /\ phase \in {"WaitConfigure", "Configuring", "Ready"} => password = BridgePassword
    /\ phase = "WaitAuth" => snonce = served
    /\ served # 0 =>
          UpShape(conns[served].up, phase, served, password, awaiting_pong, tx_in_flight)

(* The firmware, and the two ends together. *)
LinkInv ==
    cur # 0 =>
        /\ Coming \in Seq(ServerFrames)
        /\ Shape(Coming, fstate, fnonce, cur, ftx_seq, truth)
        /\ fstate = "AUTHENTICATING" /\ Coming = <<AuthOkFrame>> => password = BridgePassword
        /\ fstate \in {"CONFIGURING"} \cup F!Operational => password = BridgePassword
        /\ Configured(Coming, fstate) => ~config_pending /\ effective = Desired
        /\ served \notin {0, cur} /\ Taken(Coming, fstate) =>
              /\ phase \in {"WaitHello", "WaitAuth", "Closed"}
              /\ phase = "WaitAuth" => conns[served].up = <<>>
        /\ served = cur /\ phase # "Closed" =>
              InStep(Coming, conns[cur].up, phase, fstate, fnonce, cur, password)
        /\ served = cur /\ phase = "Ready" =>
              /\ InTraffic(Coming, conns[cur].up, fstate, awaiting_pong, tx_in_flight, ftx_seq)
              /\ tx_in_flight => tx_seq = ftx_seq /\ pending_tx_result = truth

LInv ==
    FirmwareTypeOK /\ BridgeTypeOK /\ EndsInv /\ SessionInv /\ LinkInv /\ OutcomeTrue
-------------------------------------------------------------------------------
(* Lemmas about sequences. *)

(* The head and the tail of a sequence. *)
LEMMA HeadTailElements ==
    ASSUME NEW A, NEW s \in Seq(A), s # <<>>
    PROVE  /\ Len(s) \in Nat /\ Len(s) >= 1 /\ Head(s) = s[1] /\ Head(s) \in A
           /\ Tail(s) \in Seq(A) /\ Len(Tail(s)) = Len(s) - 1
           /\ \A i \in 1 .. Len(s) - 1 : Tail(s)[i] = s[i + 1]
  <1>1. Len(s) \in Nat /\ Len(s) # 0
    BY EmptySeq, LenProperties
  <1>2. Head(s) = s[1] /\ s[1] \in A
    BY SMTT(20), <1>1, ElementOfSeq
  <1>. QED  BY SMTT(20), <1>1, <1>2, HeadTailProperties

(* An element is added at the end. *)
LEMMA AddedElements ==
    ASSUME NEW A, NEW s \in Seq(A), NEW e \in A
    PROVE  /\ s \o <<e>> \in Seq(A) /\ Len(s) \in Nat /\ Len(s \o <<e>>) = Len(s) + 1
           /\ \A i \in 1 .. Len(s) : (s \o <<e>>)[i] = s[i]
           /\ (s \o <<e>>)[Len(s) + 1] = e
  <1>1. <<e>> \in Seq(A) /\ Len(<<e>>) = 1 /\ <<e>>[1] = e
    BY SMTT(20)
  <1>. QED  BY SMTT(20), <1>1, ConcatProperties, LenProperties

LEMMA HasAdded ==
    ASSUME NEW A, NEW s \in Seq(A), NEW e \in A, NEW type
    PROVE  /\ Has(s \o <<e>>, type) <=> Has(s, type) \/ e.type = type
           /\ Once(s, type) /\ (~Has(s, type) \/ e.type # type) => Once(s \o <<e>>, type)
  BY SMTT(20), AddedElements DEF Has, Once

LEMMA HasTail ==
    ASSUME NEW A, NEW s \in Seq(A), s # <<>>, NEW type
    PROVE  /\ Has(Tail(s), type) => Has(s, type)
           /\ Head(s).type = type => Has(s, type)
           /\ Once(s, type) => Once(Tail(s), type)
           /\ Once(s, type) /\ Head(s).type = type => ~Has(Tail(s), type)
  <1>1. /\ Len(s) \in Nat /\ Len(s) >= 1 /\ Head(s) = s[1]
        /\ Len(Tail(s)) = Len(s) - 1
        /\ \A i \in 1 .. Len(s) - 1 : Tail(s)[i] = s[i + 1]
    BY HeadTailElements
  <1>. QED  BY SMTT(20), <1>1 DEF Has, Once

LEMMA HasNone == \A type : ~Has(<<>>, type) /\ Once(<<>>, type)
  BY SMTT(20) DEF Has, Once

LEMMA HasOne == \A e, type : (Has(<<e>>, type) <=> e.type = type) /\ Once(<<e>>, type)
  BY SMTT(20) DEF Has, Once

(* A prefix, as Survives leaves it. *)
LEMMA PrefixElements ==
    ASSUME NEW A, NEW s \in Seq(A), NEW p \in Prefixes(s)
    PROVE  /\ p \in Seq(A) /\ Len(p) \in Nat /\ Len(s) \in Nat /\ Len(p) <= Len(s)
           /\ \A i \in 1 .. Len(p) : p[i] = s[i]
  <1>1. PICK n \in 0 .. Len(s) : p = SubSeq(s, 1, n)
    BY DEF Prefixes
  <1>2. Len(s) \in Nat /\ n \in Nat /\ n <= Len(s) /\ \A i \in 1 .. Len(s) : s[i] \in A
    BY SMTT(20), LenProperties, ElementOfSeq
  <1>3. 1 \in Int /\ n \in Int /\ \A i \in 1 .. n : s[i] \in A
    BY SMTT(20), <1>2
  <1>4. SubSeq(s, 1, n) \in Seq(A) /\ Len(SubSeq(s, 1, n)) = n
    BY SMTT(20), <1>2, <1>3, SubSeqProperties
  <1>5. \A i \in 1 .. n : SubSeq(s, 1, n)[i] = s[i]
    BY SMTT(20), <1>2, <1>3, SubSeqProperties
  <1>. QED  BY <1>1, <1>2, <1>4, <1>5

LEMMA PrefixSurvives ==
    ASSUME NEW A, NEW s \in Seq(A), NEW unread, NEW p \in Survives(s, unread)
    PROVE  p \in Prefixes(s)
  <1>1. SubSeq(s, 1, Len(s)) = s /\ Len(s) \in 0 .. Len(s)
    BY SMTT(20)
  <1>. QED  BY <1>1 DEF Survives, Prefixes

LEMMA HasPrefix ==
    ASSUME NEW A, NEW s \in Seq(A), NEW p \in Prefixes(s), NEW type
    PROVE  (Has(p, type) => Has(s, type)) /\ (Once(s, type) => Once(p, type))
  BY SMTT(20), PrefixElements DEF Has, Once

(* The first part of a concatenation is a prefix. *)
LEMMA PrefixOfFront ==
    ASSUME NEW A, NEW s \in Seq(A), NEW t \in Seq(A), NEW p \in Prefixes(s)
    PROVE  p \in Prefixes(s \o t)
  <1>1. PICK n \in 0 .. Len(s) : p = SubSeq(s, 1, n)
    BY DEF Prefixes
  <1>2. /\ s \o t \in Seq(A) /\ Len(s) \in Nat /\ Len(t) \in Nat
        /\ Len(s \o t) = Len(s) + Len(t)
        /\ \A i \in 1 .. Len(s) : (s \o t)[i] = s[i]
    BY SMTT(20), ConcatProperties, LenProperties
  <1>3. n \in 0 .. Len(s \o t)
    BY SMTT(20), <1>2
  <1>4. SubSeq(s \o t, 1, n) = SubSeq(s, 1, n)
    BY SMTT(20), <1>2
  <1>. QED  BY <1>1, <1>3, <1>4 DEF Prefixes
-------------------------------------------------------------------------------
(* Lemmas about frames. *)

(* A configuration's bytes, and a byte in front of them. *)
LEMMA PackedBytes ==
    ASSUME NEW c, NEW byte
    PROVE  /\ Len(packConfig(c)) = 17
           /\ packConfig(c)[16] = c.crc /\ packConfig(c)[17] = c.ldro
           /\ Len(<<byte>> \o packConfig(c)) = 18 /\ (<<byte>> \o packConfig(c))[1] = byte
           /\ (<<byte>> \o packConfig(c))[17] = c.crc /\ (<<byte>> \o packConfig(c))[18] = c.ldro
           /\ Tail(<<byte>> \o packConfig(c)) = packConfig(c)
  <1>. DEFINE p == packConfig(c)
              A == {p[i] : i \in 1 .. 17} \cup {byte}
  <1>1. Len(p) = 17 /\ p[16] = c.crc /\ p[17] = c.ldro
    BY DEF packConfig
  <1>2. p = [i \in 1 .. 17 |-> p[i]]
    BY SMTT(20) DEF packConfig
  <1>3. p \in Seq(A) /\ <<byte>> \in Seq(A) /\ Len(<<byte>>) = 1 /\ <<byte>>[1] = byte
    BY SMTT(20), <1>2
  <1>. HIDE DEF A, p
  <1>4. /\ <<byte>> \o p \in Seq(A) /\ Len(<<byte>> \o p) = 18
        /\ (<<byte>> \o p)[1] = byte
        /\ \A i \in 1 .. 17 : (<<byte>> \o p)[i + 1] = p[i]
    <2>1. /\ <<byte>> \o p \in Seq(A) /\ Len(<<byte>> \o p) = Len(<<byte>>) + Len(p)
          /\ \A i \in 1 .. Len(<<byte>>) + Len(p) : (<<byte>> \o p)[i] =
                IF i <= Len(<<byte>>) THEN <<byte>>[i] ELSE p[i - Len(<<byte>>)]
      BY <1>3, ConcatProperties
    <2>. DEFINE q == <<byte>> \o p
    <2>2. /\ q \in Seq(A) /\ Len(q) = 18
          /\ \A i \in 1 .. 18 : q[i] = IF i <= 1 THEN byte ELSE p[i - 1]
      BY SMTT(20), <1>1, <1>3, <2>1
    <2>. HIDE DEF q
    <2>3. q[1] = byte /\ \A i \in 1 .. 17 : q[i + 1] = p[i]
      BY SMTT(20), <2>2
    <2>. QED  BY <2>2, <2>3 DEF q
  <1>5. (<<byte>> \o p)[17] = p[16] /\ (<<byte>> \o p)[18] = p[17]
    <2>1. 16 \in 1 .. 17 /\ 17 \in 1 .. 17 /\ 16 + 1 = 17 /\ 17 + 1 = 18
      BY SMTT(20)
    <2>. QED  BY <1>4, <2>1
  <1>6. Tail(<<byte>> \o p) = p
    <2>1. <<byte>> \o p # <<>>
      BY SMTT(20), <1>4
    <2>. DEFINE q == <<byte>> \o p
    <2>2. /\ q \in Seq(A) /\ q # <<>> /\ Len(q) = 18
          /\ \A i \in 1 .. 17 : q[i + 1] = p[i]
      BY <1>4, <2>1
    <2>. HIDE DEF q
    <2>3. /\ Tail(q) \in Seq(A) /\ Len(Tail(q)) = 17
          /\ \A i \in 1 .. 17 : Tail(q)[i] = p[i]
      <3>1. /\ Tail(q) \in Seq(A) /\ Len(Tail(q)) = Len(q) - 1
            /\ \A i \in 1 .. Len(q) - 1 : Tail(q)[i] = q[i + 1]
        BY <2>2, HeadTailElements
      <3>2. Len(q) - 1 = 17
        BY SMTT(20), <2>2
      <3>. QED  BY <2>2, <3>1, <3>2
    <2>. QED  BY <1>1, <1>3, <2>3, SeqEqual DEF q
  <1>. QED  BY <1>1, <1>4, <1>5, <1>6 DEF p

(* The type and the sequence number of every frame. *)
LEMMA FrameFields ==
    /\ HelloFrame.type = "HELLO" /\ ConfigureFrame.type = "CONFIGURE"
    /\ PongFrame.type = "PONG" /\ AckFrame.type = "HELLO_ACK"
    /\ AuthOkFrame.type = "AUTH_RESULT" /\ AuthFailFrame.type = "AUTH_RESULT"
    /\ AuthOkFrame.payload[1] = 0 /\ AuthFailFrame.payload[1] = 1
    /\ CfgOkFrame.type = "CONFIG_RESULT" /\ CfgFailFrame.type = "CONFIG_RESULT"
    /\ CfgOkFrame.len = 18 /\ CfgFailFrame.len = 1
    /\ RxFrame.type = "RX_PACKET" /\ PingFrame.type = "PING"
    /\ ConfigureFrame.payload = packConfig(Desired)
    /\ CfgOkFrame.payload = <<0>> \o packConfig(Desired)
    /\ \A k, n : /\ ResponseFrame(k, n).type = "AUTH_RESPONSE"
                 /\ ResponseFrame(k, n).payload = <<k, n>>
                 /\ ChallengeFrame(n).type = "AUTH_CHALLENGE"
                 /\ ChallengeFrame(n).payload = n
    /\ \A seq, r : /\ RequestFrame(seq).type = "TX_REQUEST" /\ RequestFrame(seq).seq = seq
                   /\ ResultFrame(seq, r).type = "TX_RESULT" /\ ResultFrame(seq, r).seq = seq
                   /\ ResultFrame(seq, r).payload[1] = tx_outcome_to_wire(r)
  <1>1. Len(<<0>> \o packConfig(Desired)) = 18
    BY PackedBytes
  <1>. QED
    BY <1>1 DEF HelloFrame, ConfigureFrame, PongFrame, AckFrame, AuthOkFrame, AuthFailFrame,
                CfgOkFrame, CfgFailFrame, RxFrame, PingFrame, ResponseFrame, ChallengeFrame,
                RequestFrame, ResultFrame, Control, Frame, hmac_sha256

LEMMA OutcomeOnWire ==
    ASSUME NEW r \in K!Results
    PROVE  r # "none" /\ tx_outcome_to_wire(r) \in 0 .. 3
  BY SMTT(20) DEF K!Results, tx_outcome_to_wire

(* Both ends accept every frame there is. *)
LEMMA ClientFramesValid ==
    ASSUME radioConfigValid(Desired), NEW key, NEW f \in ClientFrames(key)
    PROVE  validate(f)
  <1>. USE LinkAssumption
  <1>1. CASE f = HelloFrame
    BY SMTT(20), <1>1 DEF HelloFrame, Control, Frame, validate, kVersion
  <1>2. CASE f = ConfigureFrame
    <2>1. /\ f.type = "CONFIGURE" /\ f.seq = 0 /\ f.len = 17
          /\ f.payload[16] = Desired.crc /\ f.payload[17] = Desired.ldro
      BY <1>2, PackedBytes DEF ConfigureFrame, Control, Frame
    <2>. QED  BY SMTT(20), <2>1 DEF validate, radioConfigValid, kConfigPayloadSize
  <1>3. CASE f = PongFrame
    BY SMTT(20), <1>3 DEF PongFrame, Control, Frame, validate
  <1>4. ASSUME NEW n \in Conns, f = ResponseFrame(key, n) PROVE validate(f)
    BY SMTT(20), <1>4 DEF ResponseFrame, Frame, validate
  <1>5. ASSUME NEW seq \in 1 .. U16 - 1, f = RequestFrame(seq) PROVE validate(f)
    BY SMTT(20), <1>5 DEF RequestFrame, Frame, validate, kMaxLoraPayload
  <1>. QED  BY <1>1, <1>2, <1>3, <1>4, <1>5 DEF ClientFrames

LEMMA ServerFramesValid ==
    ASSUME radioConfigValid(Desired), NEW f \in ServerFrames
    PROVE  validate(f)
  <1>. USE LinkAssumption
  <1>1. CASE f = AckFrame
    BY SMTT(20), <1>1 DEF AckFrame, Control, Frame, validate, kVersion
  <1>2. CASE f \in {AuthOkFrame, AuthFailFrame}
    BY SMTT(20), <1>2 DEF AuthOkFrame, AuthFailFrame, Control, Frame, validate, isBool
  <1>3. CASE f = CfgOkFrame
    <2>1. /\ f.type = "CONFIG_RESULT" /\ f.seq = 0 /\ f.len = 18 /\ f.payload[1] = 0
          /\ f.payload[17] = Desired.crc /\ f.payload[18] = Desired.ldro
      BY SMTT(20), <1>3, PackedBytes DEF CfgOkFrame, Control, Frame
    <2>. QED  BY SMTT(20), <2>1 DEF validate, radioConfigValid, kConfigPayloadSize
  <1>4. CASE f = CfgFailFrame
    BY SMTT(20), <1>4 DEF CfgFailFrame, Control, Frame, validate
  <1>5. CASE f = RxFrame
    <2>1. get16(<<0, 0, 0, 0, 0, 1>>, 5) = 1
      BY SMTT(20) DEF get16
    <2>2. f.type = "RX_PACKET" /\ f.seq = 0 /\ f.len = 7 /\ get16(f.payload, 5) = 1
      BY <1>5, <2>1 DEF RxFrame, Frame
    <2>. QED  BY SMTT(20), <2>2 DEF validate, kMaxLoraPayload
  <1>6. CASE f = PingFrame
    BY SMTT(20), <1>6 DEF PingFrame, Control, Frame, validate
  <1>7. ASSUME NEW n \in Conns, f = ChallengeFrame(n) PROVE validate(f)
    BY SMTT(20), <1>7 DEF ChallengeFrame, Frame, validate
  <1>8. ASSUME NEW seq \in 1 .. U16 - 1, NEW r \in K!Results, f = ResultFrame(seq, r)
        PROVE  validate(f)
    <2>1. f.type = "TX_RESULT" /\ f.seq # 0 /\ f.len = 1 /\ f.payload[1] \in 0 .. 3
      BY SMTT(20), <1>8, OutcomeOnWire DEF ResultFrame, Frame
    <2>. QED  BY SMTT(20), <2>1 DEF validate
  <1>. QED  BY SMTT(20), <1>1, <1>2, <1>3, <1>4, <1>5, <1>6, <1>7, <1>8 DEF ServerFrames
-------------------------------------------------------------------------------
(* Lemmas about what is on its way. *)

LEMMA ShortPrefixes ==
    ASSUME NEW a, NEW b, NEW p
    PROVE  /\ p \in Prefixes(<<>>) => p = <<>>
           /\ p \in Prefixes(<<a>>) => p \in {<<>>, <<a>>}
           /\ p \in Prefixes(<<a, b>>) => p \in {<<>>, <<a>>, <<a, b>>}
  <1>. DEFINE A == {a, b}
  <1>1. <<>> \in Seq(A) /\ <<a>> \in Seq(A) /\ <<a, b>> \in Seq(A)
    BY SMTT(20)
  <1>2. /\ Len(<<a>>) = 1 /\ <<a>>[1] = a
        /\ Len(<<a, b>>) = 2 /\ <<a, b>>[1] = a /\ <<a, b>>[2] = b /\ Len(<<>>) = 0
    OBVIOUS
  <1>. HIDE DEF A
  <1>3. ASSUME NEW s \in Seq(A), p \in Prefixes(s)
        PROVE  /\ p \in Seq(A) /\ Len(p) \in 0 .. Len(s)
               /\ \A i \in 1 .. Len(p) : p[i] = s[i]
    BY SMTT(20), <1>3, PrefixElements
  <1>4. p \in Seq(A) /\ Len(p) = 0 => p = <<>>
    BY EmptySeq
  <1>5. p \in Seq(A) /\ Len(p) = 1 /\ p[1] = a => p = <<a>>
    BY SMTT(20), <1>1, <1>2, SeqEqual
  <1>6. p \in Seq(A) /\ Len(p) = 2 /\ p[1] = a /\ p[2] = b => p = <<a, b>>
    BY SMTT(20), <1>1, <1>2, SeqEqual
  <1>7. ASSUME p \in Prefixes(<<>>) PROVE p = <<>>
    <2>1. p \in Seq(A) /\ Len(p) \in 0 .. Len(<<>>)
      BY <1>1, <1>3, <1>7
    <2>. QED  BY SMTT(20), <1>2, <1>4, <2>1
  <1>8. ASSUME p \in Prefixes(<<a>>) PROVE p \in {<<>>, <<a>>}
    <2>1. p \in Seq(A) /\ Len(p) \in 0 .. Len(<<a>>) /\ \A i \in 1 .. Len(p) : p[i] = <<a>>[i]
      BY <1>1, <1>3, <1>8
    <2>2. Len(p) = 0 \/ Len(p) = 1
      BY SMTT(20), <1>2, <2>1
    <2>3. Len(p) = 1 => p[1] = a
      BY SMTT(20), <1>2, <2>1
    <2>. QED  BY <1>4, <1>5, <2>1, <2>2, <2>3
  <1>9. ASSUME p \in Prefixes(<<a, b>>) PROVE p \in {<<>>, <<a>>, <<a, b>>}
    <2>1. /\ p \in Seq(A) /\ Len(p) \in 0 .. Len(<<a, b>>)
          /\ \A i \in 1 .. Len(p) : p[i] = <<a, b>>[i]
      BY <1>1, <1>3, <1>9
    <2>2. Len(p) = 0 \/ Len(p) = 1 \/ Len(p) = 2
      <3>1. Len(p) \in 0 .. 2
        BY <1>2, <2>1
      <3>. QED  BY SMTT(20), <3>1
    <2>3. (Len(p) = 1 => p[1] = a) /\ (Len(p) = 2 => p[1] = a /\ p[2] = b)
      BY SMTT(20), <1>2, <2>1
    <2>. QED  BY <1>4, <1>5, <1>6, <2>1, <2>2, <2>3
  <1>. QED  BY <1>7, <1>8, <1>9

(* What is lost at the end changes nothing for the firmware. *)
LEMMA ShapePrefix ==
    ASSUME NEW D \in Seq(ServerFrames), NEW p \in Prefixes(D),
           NEW f, NEW nonce, NEW c, NEW seq, NEW result,
           Shape(D, f, nonce, c, seq, result)
    PROVE  /\ p \in Seq(ServerFrames)
           /\ Shape(p, f, nonce, c, seq, result)
           /\ Configured(p, f) => Configured(D, f)
           /\ Taken(p, f) => Taken(D, f)
           /\ f = "AUTHENTICATING" /\ p = <<AuthOkFrame>> => D = <<AuthOkFrame>>
  <1>1. /\ p \in Seq(ServerFrames) /\ Len(p) \in Nat /\ Len(D) \in Nat /\ Len(p) <= Len(D)
        /\ \A i \in 1 .. Len(p) : p[i] = D[i]
    BY PrefixElements
  <1>2. (D = <<>> => p = <<>>) /\ (p # <<>> => Len(p) >= 1 /\ p[1] = D[1])
    BY SMTT(20), <1>1, EmptySeq
  <1>3. ASSUME NEW a PROVE D = <<a>> => p \in {<<>>, <<a>>}
    BY ShortPrefixes
  <1>4. ASSUME NEW a, NEW b PROVE D = <<a, b>> => p \in {<<>>, <<a>>, <<a, b>>}
    BY ShortPrefixes
  <1>5. f = "HANDSHAKE" => p \in {<<>>, <<AckFrame>>, <<AckFrame, ChallengeFrame(c)>>}
    BY <1>2, <1>3, <1>4 DEF Shape
  <1>6. f = "AUTHENTICATING" /\ nonce = 0 => p \in {<<>>, <<ChallengeFrame(c)>>}
    BY <1>2, <1>3 DEF Shape
  <1>7. f = "AUTHENTICATING" /\ nonce # 0 =>
           nonce = c /\ p \in {<<>>, <<AuthOkFrame>>, <<AuthFailFrame>>}
    BY <1>2, <1>3 DEF Shape
  <1>8. f = "CONFIGURING" =>
          \/ p \in {<<>>, <<CfgFailFrame>>}
          \/ /\ p # <<>> /\ p[1] = CfgOkFrame
             /\ \A i \in 2 .. Len(p) : p[i] \in {RxFrame, PingFrame}
    <2>1. CASE D \in {<<>>, <<CfgFailFrame>>}
      BY <1>2, <1>3, <2>1
    <2>2. CASE D # <<>> /\ D[1] = CfgOkFrame /\ \A i \in 2 .. Len(D) : D[i] \in {RxFrame, PingFrame}
      BY SMTT(20), <1>1, <1>2, <2>2
    <2>. QED  BY <2>1, <2>2 DEF Shape
  <1>9. f \in F!Operational =>
          /\ \A i \in 1 .. Len(p) :
                \/ p[i] \in {RxFrame, PingFrame}
                \/ f = "TX_PENDING" /\ result \in K!Results /\ p[i] = ResultFrame(seq, result)
          /\ Once(p, "TX_RESULT")
    BY SMTT(20), <1>1, HasPrefix DEF Shape
  <1>10. Configured(p, f) => Configured(D, f)
    BY <1>2 DEF Configured
  <1>11. Taken(p, f) => Taken(D, f)
    BY <1>2 DEF Taken
  <1>12. f = "AUTHENTICATING" /\ p = <<AuthOkFrame>> => D = <<AuthOkFrame>>
    <2>1. SUFFICES ASSUME f = "AUTHENTICATING", p = <<AuthOkFrame>>
                   PROVE  D = <<AuthOkFrame>>
      OBVIOUS
    <2>2. p # <<>> /\ D[1] = AuthOkFrame
      BY <1>2, <2>1
    <2>3. D \in {<<>>, <<ChallengeFrame(c)>>, <<AuthOkFrame>>, <<AuthFailFrame>>}
      BY <2>1 DEF Shape
    <2>4. AuthOkFrame # ChallengeFrame(c) /\ AuthOkFrame # AuthFailFrame
      BY SMTT(20), FrameFields
    <2>. QED  BY SMTT(20), <1>2, <2>2, <2>3, <2>4
  <1>. QED  BY <1>1, <1>5, <1>6, <1>7, <1>8, <1>9, <1>10, <1>11, <1>12 DEF Shape

(* The next frame, and what is behind it. *)
LEMMA ShapeHead ==
    ASSUME NEW D \in Seq(ServerFrames), D # <<>>,
           NEW f, NEW nonce, NEW c, NEW seq, NEW result,
           Shape(D, f, nonce, c, seq, result)
    PROVE  /\ Head(D) \in ServerFrames /\ Tail(D) \in Seq(ServerFrames)
           /\ f = "HANDSHAKE" => Head(D) = AckFrame /\ Tail(D) \in {<<>>, <<ChallengeFrame(c)>>}
           /\ f = "AUTHENTICATING" /\ nonce = 0 => Head(D) = ChallengeFrame(c) /\ Tail(D) = <<>>
           /\ f = "AUTHENTICATING" /\ nonce # 0 =>
                 nonce = c /\ D \in {<<AuthOkFrame>>, <<AuthFailFrame>>}
                 /\ Head(D) \in {AuthOkFrame, AuthFailFrame} /\ Tail(D) = <<>>
           /\ f = "CONFIGURING" =>
                 \/ Head(D) = CfgFailFrame
                 \/ /\ Head(D) = CfgOkFrame /\ D[1] = CfgOkFrame
                    /\ \A i \in 1 .. Len(Tail(D)) : Tail(D)[i] \in {RxFrame, PingFrame}
           /\ f \in F!Operational =>
                 /\ \/ Head(D) \in {RxFrame, PingFrame}
                    \/ f = "TX_PENDING" /\ result \in K!Results /\ Head(D) = ResultFrame(seq, result)
                 /\ \A i \in 1 .. Len(Tail(D)) :
                       \/ Tail(D)[i] \in {RxFrame, PingFrame}
                       \/ /\ f = "TX_PENDING" /\ result \in K!Results
                          /\ Tail(D)[i] = ResultFrame(seq, result)
                 /\ Once(Tail(D), "TX_RESULT")
  <1>1. /\ Len(D) \in Nat /\ Len(D) >= 1 /\ Head(D) = D[1] /\ Head(D) \in ServerFrames
        /\ Tail(D) \in Seq(ServerFrames) /\ Len(Tail(D)) = Len(D) - 1
        /\ \A i \in 1 .. Len(D) - 1 : Tail(D)[i] = D[i + 1]
    BY HeadTailElements
  <1>2. ASSUME NEW a PROVE D = <<a>> => Head(D) = a /\ Tail(D) = <<>>
    BY SMTT(20)
  <1>3. ASSUME NEW a, NEW b PROVE D = <<a, b>> => Head(D) = a /\ Tail(D) = <<b>>
    BY SMTT(20)
  <1>4. f = "HANDSHAKE" => Head(D) = AckFrame /\ Tail(D) \in {<<>>, <<ChallengeFrame(c)>>}
    BY SMTT(20), <1>2, <1>3 DEF Shape
  <1>5. f = "AUTHENTICATING" /\ nonce = 0 => Head(D) = ChallengeFrame(c) /\ Tail(D) = <<>>
    BY <1>2 DEF Shape
  <1>6. f = "AUTHENTICATING" /\ nonce # 0 =>
            nonce = c /\ D \in {<<AuthOkFrame>>, <<AuthFailFrame>>}
            /\ Head(D) \in {AuthOkFrame, AuthFailFrame} /\ Tail(D) = <<>>
    BY <1>2 DEF Shape
  <1>7. f = "CONFIGURING" =>
          \/ Head(D) = CfgFailFrame
          \/ /\ Head(D) = CfgOkFrame /\ D[1] = CfgOkFrame
             /\ \A i \in 1 .. Len(Tail(D)) : Tail(D)[i] \in {RxFrame, PingFrame}
    BY SMTT(20), <1>1, <1>2 DEF Shape
  <1>8. f \in F!Operational =>
          /\ \/ Head(D) \in {RxFrame, PingFrame}
             \/ f = "TX_PENDING" /\ result \in K!Results /\ Head(D) = ResultFrame(seq, result)
          /\ \A i \in 1 .. Len(Tail(D)) :
                \/ Tail(D)[i] \in {RxFrame, PingFrame}
                \/ /\ f = "TX_PENDING" /\ result \in K!Results
                   /\ Tail(D)[i] = ResultFrame(seq, result)
    BY SMTT(20), <1>1 DEF Shape
  <1>9. f \in F!Operational => Once(Tail(D), "TX_RESULT")
    BY HasTail DEF Shape
  <1>. QED  BY <1>1, <1>4, <1>5, <1>6, <1>7, <1>8, <1>9

(* A frame behind the others, in a session that is ready. *)
LEMMA ShapeAdded ==
    ASSUME NEW D \in Seq(ServerFrames), NEW e \in ServerFrames,
           NEW f, NEW nonce, NEW c, NEW seq, NEW result,
           Shape(D, f, nonce, c, seq, result),
           \/ f \in F!Operational
           \/ f = "CONFIGURING" /\ D # <<>> /\ D[1] = CfgOkFrame,
           \/ e \in {RxFrame, PingFrame}
           \/ /\ f = "TX_PENDING" /\ result \in K!Results /\ e = ResultFrame(seq, result)
              /\ ~Has(D, "TX_RESULT")
    PROVE  /\ D \o <<e>> \in Seq(ServerFrames) /\ D \o <<e>> # <<>>
           /\ D # <<>> => (D \o <<e>>)[1] = D[1]
           /\ Shape(D \o <<e>>, f, nonce, c, seq, result)
  <1>1. /\ D \o <<e>> \in Seq(ServerFrames) /\ Len(D) \in Nat
        /\ Len(D \o <<e>>) = Len(D) + 1
        /\ \A i \in 1 .. Len(D) : (D \o <<e>>)[i] = D[i]
        /\ (D \o <<e>>)[Len(D) + 1] = e
    BY SMTT(20), AddedElements
  <1>2. (D # <<>> => Len(D) >= 1) /\ D \o <<e>> # <<>>
    BY SMTT(20), <1>1, EmptySeq
  <1>3. CfgOkFrame # CfgFailFrame
    BY SMTT(20), FrameFields
  <1>4. CASE f = "CONFIGURING"
    <2>1. D # <<>> /\ D[1] = CfgOkFrame /\ e \in {RxFrame, PingFrame}
      BY <1>4 DEF F!Operational
    <2>2. \A i \in 2 .. Len(D) : D[i] \in {RxFrame, PingFrame}
      <3>1. D # <<CfgFailFrame>>
        BY SMTT(20), <1>3, <2>1
      <3>. QED  BY <1>4, <2>1, <3>1 DEF Shape
    <2>3. (D \o <<e>>)[1] = CfgOkFrame
      BY SMTT(20), <1>1, <1>2, <2>1
    <2>4. \A i \in 2 .. Len(D \o <<e>>) : (D \o <<e>>)[i] \in {RxFrame, PingFrame}
      BY SMTT(20), <1>1, <2>1, <2>2
    <2>. QED  BY <1>1, <1>2, <1>4, <2>1, <2>3, <2>4 DEF Shape, F!Operational
  <1>5. CASE f \in F!Operational
    <2>1. \A i \in 1 .. Len(D \o <<e>>) :
             \/ (D \o <<e>>)[i] \in {RxFrame, PingFrame}
             \/ /\ f = "TX_PENDING" /\ result \in K!Results
                /\ (D \o <<e>>)[i] = ResultFrame(seq, result)
      BY SMTT(20), <1>1, <1>5 DEF Shape
    <2>2. Once(D \o <<e>>, "TX_RESULT")
      <3>1. Once(D, "TX_RESULT")
        BY <1>5 DEF Shape
      <3>2. ~Has(D, "TX_RESULT") \/ e.type # "TX_RESULT"
        BY FrameFields
      <3>. QED  BY <3>1, <3>2, HasAdded
    <2>3. D # <<>> => (D \o <<e>>)[1] = D[1]
      BY SMTT(20), <1>1, <1>2
    <2>. QED  BY <1>1, <1>2, <1>5, <2>1, <2>2, <2>3 DEF Shape, F!Operational
  <1>. QED  BY <1>4, <1>5
-------------------------------------------------------------------------------
(* Lemmas about the queue of the session on the wire. *)

LEMMA WireElements ==
    ASSUME NEW nonce, NEW eff, NEW q \in Seq(S!Replies)
    PROVE  /\ Len(q) \in Nat /\ Len(Wire(q, nonce, eff)) = Len(q)
           /\ Wire(q, nonce, eff) \in Seq({EncodeWith(f, nonce, eff) : f \in S!Replies})
           /\ \A i \in 1 .. Len(q) : Wire(q, nonce, eff)[i] = EncodeWith(q[i], nonce, eff)
  <1>1. Len(q) \in Nat /\ \A i \in 1 .. Len(q) : q[i] \in S!Replies
    BY LenProperties, ElementOfSeq
  <1>. QED  BY SMTT(20), <1>1 DEF Wire

LEMMA WireShort ==
    ASSUME NEW nonce, NEW eff, NEW f, NEW g
    PROVE  /\ Wire(<<>>, nonce, eff) = <<>>
           /\ Wire(<<f>>, nonce, eff) = <<EncodeWith(f, nonce, eff)>>
           /\ Wire(<<f, g>>, nonce, eff) =
                 <<EncodeWith(f, nonce, eff), EncodeWith(g, nonce, eff)>>
  BY SMTT(20) DEF Wire

(* The configuration matters for CFG_OK only. *)
LEMMA WireSame ==
    ASSUME NEW nonce, NEW eff, NEW other, NEW q \in Seq(S!Replies),
           \A i \in 1 .. Len(q) : q[i].type # "CFG_OK"
    PROVE  Wire(q, nonce, eff) = Wire(q, nonce, other)
  <1>1. \A i \in 1 .. Len(q) : EncodeWith(q[i], nonce, eff) = EncodeWith(q[i], nonce, other)
    BY SMTT(20) DEF EncodeWith
  <1>. QED  BY <1>1 DEF Wire

LEMMA WireConcat ==
    ASSUME NEW nonce, NEW eff, NEW q \in Seq(S!Replies), NEW p \in Seq(S!Replies)
    PROVE  Wire(q \o p, nonce, eff) = Wire(q, nonce, eff) \o Wire(p, nonce, eff)
  <1>. DEFINE qp == q \o p
              wq == Wire(q, nonce, eff)
              wp == Wire(p, nonce, eff)
              wqp == Wire(qp, nonce, eff)
              X == {EncodeWith(f, nonce, eff) : f \in S!Replies}
  <1>1. /\ qp \in Seq(S!Replies) /\ Len(qp) = Len(q) + Len(p)
        /\ \A i \in 1 .. Len(q) + Len(p) : qp[i] =
              IF i <= Len(q) THEN q[i] ELSE p[i - Len(q)]
    BY ConcatProperties
  <1>2. /\ Len(q) \in Nat /\ wq \in Seq(X) /\ Len(wq) = Len(q)
        /\ \A i \in 1 .. Len(q) : wq[i] = EncodeWith(q[i], nonce, eff)
    BY WireElements
  <1>3. /\ Len(p) \in Nat /\ wp \in Seq(X) /\ Len(wp) = Len(p)
        /\ \A i \in 1 .. Len(p) : wp[i] = EncodeWith(p[i], nonce, eff)
    BY WireElements
  <1>4. /\ wqp \in Seq(X) /\ Len(wqp) = Len(qp)
        /\ \A i \in 1 .. Len(qp) : wqp[i] = EncodeWith(qp[i], nonce, eff)
    <2>1. ASSUME NEW s \in Seq(S!Replies)
          PROVE  /\ Wire(s, nonce, eff) \in Seq(X) /\ Len(Wire(s, nonce, eff)) = Len(s)
                 /\ \A i \in 1 .. Len(s) : Wire(s, nonce, eff)[i] = EncodeWith(s[i], nonce, eff)
      BY ZenonT(30), WireElements
    <2>. QED  BY <1>1, <2>1
  <1>. HIDE DEF qp
  <1>. HIDE DEF wq, wp, wqp, X
  <1>5. /\ wq \o wp \in Seq(X) /\ Len(wq \o wp) = Len(wq) + Len(wp)
        /\ \A i \in 1 .. Len(wq) + Len(wp) : (wq \o wp)[i] =
              IF i <= Len(wq) THEN wq[i] ELSE wp[i - Len(wq)]
    <2>1. wq \in Seq(X) /\ wp \in Seq(X)
      BY <1>2, <1>3
    <2>. QED  BY <2>1, ConcatProperties
  <1>6. Len(wqp) = Len(wq \o wp)
    BY <1>1, <1>2, <1>3, <1>4, <1>5
  <1>7. ASSUME NEW i \in 1 .. Len(wqp) PROVE wqp[i] = (wq \o wp)[i]
    <2>1. i \in 1 .. Len(q) + Len(p) /\ i \in 1 .. Len(qp)
      BY <1>1, <1>4
    <2>2. CASE i <= Len(q)
      <3>1. i \in 1 .. Len(q) /\ i <= Len(wq) /\ i \in 1 .. Len(wq) + Len(wp)
        BY SMTT(20), <1>2, <1>3, <2>1, <2>2
      <3>2. (wq \o wp)[i] = wq[i] /\ qp[i] = q[i]
        BY <1>1, <1>5, <2>1, <2>2, <3>1
      <3>. QED  BY <1>2, <1>4, <2>1, <3>1, <3>2
    <2>3. CASE ~(i <= Len(q))
      <3>1. /\ i - Len(q) \in 1 .. Len(p) /\ ~(i <= Len(wq))
            /\ i \in 1 .. Len(wq) + Len(wp) /\ i - Len(wq) = i - Len(q)
        BY SMTT(20), <1>2, <1>3, <2>1, <2>3
      <3>2. (wq \o wp)[i] = wp[i - Len(q)] /\ qp[i] = p[i - Len(q)]
        BY <1>1, <1>5, <2>1, <2>3, <3>1
      <3>. QED  BY <1>3, <1>4, <2>1, <3>1, <3>2
    <2>. QED  BY <2>2, <2>3
  <1>8. wqp = wq \o wp
    BY <1>4, <1>5, <1>6, <1>7, SeqEqual
  <1>. QED  BY <1>8 DEF wq, wp, wqp, qp

(* Frames behind those that are on the way already. *)
LEMMA WireAdded ==
    ASSUME NEW nonce, NEW eff, NEW d \in Seq(ServerFrames),
           NEW q \in Seq(S!Replies), NEW p \in Seq(S!Replies)
    PROVE  d \o Wire(q \o p, nonce, eff) = (d \o Wire(q, nonce, eff)) \o Wire(p, nonce, eff)
  <1>. DEFINE X == {EncodeWith(f, nonce, eff) : f \in S!Replies}
              wq == Wire(q, nonce, eff)
              wp == Wire(p, nonce, eff)
              Y == ServerFrames \cup X
  <1>1. wq \in Seq(X) /\ wp \in Seq(X)
    BY WireElements
  <1>. HIDE DEF X, wq, wp
  <1>2. \A s \in Seq(X) : s \in Seq(Y)
    BY SMTT(20)
  <1>3. d \in Seq(Y)
    BY SMTT(20)
  <1>. HIDE DEF Y
  <1>4. (d \o wq) \o wp = d \o (wq \o wp)
    BY SMTT(20), <1>1, <1>2, <1>3, ConcatAssociative
  <1>5. Wire(q \o p, nonce, eff) = wq \o wp
    BY WireConcat DEF wq, wp
  <1>. QED  BY <1>4, <1>5 DEF wq, wp

LEMMA EncodeIs == ASSUME NEW f PROVE Encode(f) = EncodeWith(f, snonce, effective)
  BY DEF Encode, EncodeWith, AckFrame, ChallengeFrame, AuthOkFrame, AuthFailFrame,
         CfgFailFrame, RxFrame, ResultFrame, PingFrame

(* flush() moves frames from the queue to the wire. *)
LEMMA WireFlushed ==
    ASSUME NEW d \in Seq(ServerFrames), NEW q \in Seq(S!Replies), NEW n \in 1 .. Len(q)
    PROVE  /\ (d \o [i \in 1 .. n |-> Encode(q[i])])
                 \o Wire(SubSeq(q, n + 1, Len(q)), snonce, effective)
              = d \o Wire(q, snonce, effective)
           /\ SubSeq(q, n + 1, Len(q)) \in Seq(S!Replies)
           /\ d \o [i \in 1 .. n |-> Encode(q[i])] \in Prefixes(d \o Wire(q, snonce, effective))
  <1>. DEFINE first == SubSeq(q, 1, n)
              rest == SubSeq(q, n + 1, Len(q))
              W(s) == Wire(s, snonce, effective)
              X == {EncodeWith(f, snonce, effective) : f \in S!Replies} \cup ServerFrames
  <1>1. Len(q) \in Nat /\ n \in Nat /\ n >= 1 /\ n <= Len(q)
    BY SMTT(20), LenProperties
  <1>2. \A i \in 1 .. Len(q) : q[i] \in S!Replies
    BY ElementOfSeq
  <1>3. /\ first \in Seq(S!Replies) /\ Len(first) = n
        /\ \A i \in 1 .. n : first[i] = q[i]
    <2>1. 1 \in Int /\ n \in Int /\ \A i \in 1 .. n : q[i] \in S!Replies
      BY SMTT(20), <1>1, <1>2
    <2>2. /\ first \in Seq(S!Replies)
          /\ Len(first) = IF 1 <= n THEN n - 1 + 1 ELSE 0
          /\ \A i \in 1 .. n - 1 + 1 : first[i] = q[1 + i - 1]
      BY SMTT(20), <2>1, SubSeqProperties
    <2>. QED  BY SMTT(20), <1>1, <2>2
  <1>4. /\ rest \in Seq(S!Replies) /\ Len(rest) = Len(q) - n
        /\ \A i \in 1 .. Len(q) - n : rest[i] = q[n + i]
    <2>1. n + 1 \in Int /\ Len(q) \in Int /\ \A i \in n + 1 .. Len(q) : q[i] \in S!Replies
      BY SMTT(20), <1>1, <1>2
    <2>2. /\ rest \in Seq(S!Replies)
          /\ Len(rest) = IF n + 1 <= Len(q) THEN Len(q) - (n + 1) + 1 ELSE 0
          /\ \A i \in 1 .. Len(q) - (n + 1) + 1 : rest[i] = q[(n + 1) + i - 1]
      BY SMTT(20), <2>1, SubSeqProperties
    <2>. QED  BY SMTT(20), <1>1, <2>2
  <1>. HIDE DEF first, rest
  <1>5. first \o rest = q
    <2>1. /\ first \o rest \in Seq(S!Replies) /\ Len(first \o rest) = Len(first) + Len(rest)
          /\ \A i \in 1 .. Len(first) + Len(rest) : (first \o rest)[i] =
                IF i <= Len(first) THEN first[i] ELSE rest[i - Len(first)]
      BY <1>3, <1>4, ConcatProperties
    <2>. DEFINE fr == first \o rest
    <2>2. /\ fr \in Seq(S!Replies) /\ Len(fr) = Len(q)
          /\ \A i \in 1 .. Len(q) : fr[i] = IF i <= n THEN first[i] ELSE rest[i - n]
      BY SMTT(20), <1>1, <1>3, <1>4, <2>1
    <2>. HIDE DEF fr
    <2>3. \A i \in 1 .. Len(q) : fr[i] = q[i]
      BY SMTT(20), <1>1, <1>3, <1>4, <2>2
    <2>4. fr = q
      BY <2>2, <2>3, SeqEqual
    <2>. QED  BY <2>4 DEF fr
  <1>6. [i \in 1 .. n |-> Encode(q[i])] = W(first)
    BY <1>3, EncodeIs DEF Wire
  <1>7. d \o W(q) = (d \o W(first)) \o W(rest)
    <2>1. d \o W(first \o rest) = (d \o W(first)) \o W(rest)
      BY ZenonT(30), <1>3, <1>4, WireAdded
    <2>. QED  BY <1>5, <2>1
  <1>8. d \o W(first) \in Prefixes(d \o W(q))
    <2>1. W(first) \in Seq(X) /\ W(rest) \in Seq(X) /\ d \in Seq(X)
      <3>. DEFINE Z == {EncodeWith(f, snonce, effective) : f \in S!Replies}
      <3>1. W(first) \in Seq(Z) /\ W(rest) \in Seq(Z)
        BY SMTT(20), <1>3, <1>4, WireElements
      <3>2. \A s : s \in Seq(Z) \/ s \in Seq(ServerFrames) => s \in Seq(Z \cup ServerFrames)
        BY SMTT(20)
      <3>. QED  BY <3>1, <3>2
    <2>. HIDE DEF W, X
    <2>2. d \o W(first) \in Seq(X) /\ Len(d \o W(first)) \in Nat
      BY <2>1, ConcatProperties, LenProperties
    <2>3. d \o W(first) \in Prefixes(d \o W(first))
      <3>. DEFINE s == d \o W(first)
      <3>1. s \in Seq(X)
        BY <2>2
      <3>. HIDE DEF s
      <3>2. SubSeq(s, 1, Len(s)) = s /\ Len(s) \in 0 .. Len(s)
        BY SMTT(20), <3>1
      <3>3. s \in Prefixes(s)
        BY <3>2 DEF Prefixes
      <3>. QED  BY <3>3 DEF s
    <2>. QED  BY <1>7, <2>1, <2>2, <2>3, PrefixOfFront
  <1>. QED  BY <1>4, <1>6, <1>7, <1>8 DEF rest
-------------------------------------------------------------------------------
(* The steps of the firmware. *)

LEMMA InitInvariant == Init => LInv
  <1>. SUFFICES ASSUME Init PROVE LInv
    OBVIOUS
  <1>. USE LinkAssumption DEF Init, F!Init, S!SessionInit, K!Init, Conns
  <1>1. FirmwareTypeOK
    BY SMTT(20) DEF FirmwareTypeOK, F!Handshaking, F!Operational
  <1>2. BridgeTypeOK
    <2>1. served = 0 /\ phase \in S!Phases /\ tx_in_flight \in BOOLEAN /\ awaiting_pong \in BOOLEAN
      BY DEF S!Phases
    <2>2. tx_seq \in 0 .. U16 - 1 /\ outbox \in Seq(S!Replies) /\ outbox = <<>>
      BY SMTT(20)
    <2>3. sink = FALSE /\ polling = FALSE /\ next_tx_outcome = "none" /\ phase = "Closed"
      OBVIOUS
    <2>. QED  BY <2>1, <2>2, <2>3 DEF BridgeTypeOK
  <1>3. EndsInv
    BY SMTT(20) DEF EndsInv, Closed, Waiting
  <1>4. SessionInv
    BY DEF SessionInv
  <1>5. LinkInv
    BY DEF LinkInv
  <1>6. OutcomeTrue
    BY DEF OutcomeTrue
  <1>. QED  BY <1>1, <1>2, <1>3, <1>4, <1>5, <1>6 DEF LInv

(* Frames of the firmware that are lost change nothing for the session. *)
LEMMA UpShapePrefix ==
    ASSUME NEW key, NEW U \in Seq(ClientFrames(key)), NEW u \in Prefixes(U),
           NEW p, NEW c, NEW awaiting, NEW in_flight,
           UpShape(U, p, c, key, awaiting, in_flight)
    PROVE  u \in Seq(ClientFrames(key)) /\ UpShape(u, p, c, key, awaiting, in_flight)
  <1>1. /\ u \in Seq(ClientFrames(key)) /\ Len(u) \in Nat /\ Len(U) \in Nat
        /\ Len(u) <= Len(U) /\ \A i \in 1 .. Len(u) : u[i] = U[i]
    BY PrefixElements
  <1>2. U = <<>> => u = <<>>
    BY ShortPrefixes
  <1>3. ASSUME NEW a PROVE U = <<a>> => u \in {<<>>, <<a>>}
    BY ShortPrefixes
  <1>4. \A type : (Has(u, type) => Has(U, type)) /\ (Once(U, type) => Once(u, type))
    BY HasPrefix
  <1>5. p = "WaitHello" => u \in {<<>>, <<HelloFrame>>}
    BY <1>2, <1>3 DEF UpShape
  <1>6. p = "WaitAuth" => u \in {<<>>, <<ResponseFrame(key, c)>>}
    BY <1>2, <1>3 DEF UpShape
  <1>7. p = "WaitConfigure" => u \in {<<>>, <<ConfigureFrame>>}
    BY <1>2, <1>3 DEF UpShape
  <1>8. p = "Configuring" => u = <<>>
    BY <1>2 DEF UpShape
  <1>9. p = "Ready" =>
          \A i \in 1 .. Len(u) :
             u[i] = PongFrame \/ \E seq \in 1 .. U16 - 1 : u[i] = RequestFrame(seq)
    BY SMTT(20), <1>1 DEF UpShape
  <1>10. p = "Ready" =>
          /\ Once(u, "PONG") /\ Once(u, "TX_REQUEST")
          /\ Has(u, "PONG") => awaiting
          /\ Has(u, "TX_REQUEST") => ~in_flight
    BY <1>4 DEF UpShape
  <1>. QED  BY <1>1, <1>5, <1>6, <1>7, <1>8, <1>9, <1>10 DEF UpShape

(* The bridge, its session and its backend are left alone. *)
LEMMA BridgeSame ==
    ASSUME BridgeTypeOK, UNCHANGED <<svars, server, kvars>>
    PROVE  BridgeTypeOK'
  BY DEF BridgeTypeOK, svars, server, kvars

LEMMA SetDesiredConfigStep == ASSUME LInv, SetDesiredConfig PROVE LInv'
  <1>. USE DEF LInv, SetDesiredConfig, F!setDesiredConfig, backend, server, svars, kvars
  <1>1. FirmwareTypeOK'
    <2>1. radioConfigValid(Desired)
      BY DEF F!radioConfigValid, F!isBool, radioConfigValid, isBool
    <2>. QED  BY <2>1 DEF FirmwareTypeOK, F!Handshaking, F!Operational
  <1>2. BridgeTypeOK'
    BY DEF BridgeTypeOK
  <1>3. EndsInv'
    BY DEF EndsInv, Waiting
  <1>4. SessionInv'
    BY DEF SessionInv
  <1>5. LinkInv'
    BY DEF LinkInv, FirmwareTypeOK, F!Handshaking, F!Operational
  <1>6. OutcomeTrue'
    BY DEF OutcomeTrue
  <1>. QED  BY <1>1, <1>2, <1>3, <1>4, <1>5, <1>6 DEF LInv

LEMMA StartConnectStep == ASSUME LInv, StartConnect PROVE LInv'
  <1>. USE DEF LInv, StartConnect, F!onConnecting, backend, server, svars, kvars
  <1>1. FirmwareTypeOK'
    BY DEF FirmwareTypeOK, F!Handshaking, F!Operational
  <1>2. BridgeTypeOK'
    BY DEF BridgeTypeOK
  <1>3. EndsInv'
    <2>1. cur = 0
      BY DEF FirmwareTypeOK, F!Handshaking, F!Operational
    <2>. QED  BY <2>1 DEF EndsInv, Waiting, Conns
  <1>4. SessionInv'
    BY DEF SessionInv
  <1>5. LinkInv'
    BY DEF LinkInv, FirmwareTypeOK, F!Handshaking, F!Operational
  <1>6. OutcomeTrue'
    BY DEF OutcomeTrue
  <1>. QED  BY <1>1, <1>2, <1>3, <1>4, <1>5, <1>6 DEF LInv

LEMMA ConnectStep == ASSUME LInv, Connect PROVE LInv'
  <1>1. PICK c \in Conns :
           /\ conns[c] = Closed /\ F!onConnected("SEND_HELLO") /\ cur' = c
           /\ conns' = [conns EXCEPT ![c] =
                 [client |-> TRUE, server |-> TRUE, up |-> Sends("SEND_HELLO"), down |-> <<>>]]
    BY DEF Connect
  <1>2. fstate = "CONNECTING" /\ UNCHANGED <<password, svars, server, backend>>
    BY DEF Connect
  <1>3. Sends("SEND_HELLO") = <<HelloFrame>>
    BY DEF Sends, HelloFrame
  <1>4. cur = 0 /\ served # c /\ c # 0
    <2>1. cur = 0
      BY <1>2 DEF LInv, FirmwareTypeOK, F!Handshaking, F!Operational
    <2>2. ~conns[c].server
      BY SMTT(20), <1>1 DEF Closed
    <2>. QED  BY SMTT(20), <2>1, <2>2 DEF LInv, EndsInv, Conns
  <1>. USE DEF LInv, F!onConnected, F!clearVolatile, backend, server, svars, kvars
  <1>5. FirmwareTypeOK'
    BY SMTT(20), <1>1, <1>2, <1>4, LinkAssumption
       DEF FirmwareTypeOK, F!Handshaking, F!Operational
  <1>6. BridgeTypeOK'
    BY <1>2 DEF BridgeTypeOK
  <1>7. EndsInv'
    <2>. DEFINE K0 == [client : BOOLEAN, server : BOOLEAN,
                       up : Seq(ClientFrames(password)), down : Seq(ServerFrames)]
                r == [client |-> TRUE, server |-> TRUE, up |-> <<HelloFrame>>, down |-> <<>>]
    <2>1. HelloFrame \in ClientFrames(password)
      BY DEF ClientFrames
    <2>2. r \in K0
      BY SMTT(20), <2>1
    <2>3. conns \in [Conns -> K0]
      BY DEF EndsInv
    <2>4. conns' = [conns EXCEPT ![c] = r]
      BY <1>1, <1>3
    <2>5. conns' \in [Conns -> K0]
      BY <2>2, <2>3, <2>4
    <2>. HIDE DEF K0
    <2>6. /\ conns'[c].client = TRUE /\ conns'[c].server = TRUE
          /\ conns'[c].up = <<HelloFrame>> /\ conns'[c].down = <<>>
          /\ \A d \in Conns : d # c => conns'[d] = conns[d]
      BY <2>3, <2>4
    <2>. HIDE DEF r
    <2>7. fstate' = "HANDSHAKE" /\ cur' = c /\ password' = password /\ served' = served
      BY <1>1, <1>2
    <2>8. \A d \in Conns : conns[d].client <=> d = cur
      BY DEF EndsInv
    <2>9. \A d \in Conns : conns'[d].client <=> d = cur'
      <3>1. \A d \in Conns : d # 0
        BY SMTT(20) DEF Conns
      <3>. QED  BY <1>4, <2>6, <2>7, <2>8, <3>1
    <2>10. /\ \A d \in Conns : ~conns'[d].client => conns'[d].down = <<>>
           /\ \A d \in Conns : ~conns'[d].server => conns'[d].up = <<>>
           /\ served' # 0 => conns'[served'].server
      BY <1>4, <2>6, <2>7 DEF EndsInv, BridgeTypeOK
    <2>11. \A d \in Conns : Waiting(d)' =>
              /\ conns'[d].up \in {<<>>, <<HelloFrame>>} /\ conns'[d].down = <<>>
              /\ d = cur' => fstate' = "HANDSHAKE" /\ conns'[d].up = <<HelloFrame>>
      BY <1>4, <2>6, <2>7 DEF EndsInv, Waiting
    <2>. QED  BY <2>5, <2>7, <2>9, <2>10, <2>11 DEF EndsInv, K0
  <1>8. conns'[c].down = <<>> /\ \A d \in Conns : d # c => conns'[d] = conns[d]
    BY <1>1 DEF EndsInv
  <1>9. SessionInv'
    BY ZenonT(30), <1>2, <1>4, <1>8 DEF SessionInv, BridgeTypeOK
  <1>10. LinkInv'
    <2>1. Coming' = <<>>
      BY <1>1, <1>2, <1>4, <1>8 DEF Coming
    <2>2. fstate' = "HANDSHAKE" /\ served' # cur'
      BY <1>1, <1>2, <1>4
    <2>3. Shape(<<>>, "HANDSHAKE", fnonce', cur', ftx_seq', truth')
      BY DEF Shape, F!Operational
    <2>. QED  BY SMTT(20), <2>1, <2>2, <2>3 DEF LinkInv, Configured, Taken, F!Operational
  <1>11. OutcomeTrue'
    BY <1>1 DEF OutcomeTrue
  <1>. QED  BY <1>5, <1>6, <1>7, <1>9, <1>10, <1>11 DEF LInv

(* The firmware closes its connection and is left without one. *)
LEMMA FirmwareLeaves ==
    ASSUME LInv, cur # 0, ClientCloses(cur), cur' = 0,
           UNCHANGED <<password, svars, server, backend>>
    PROVE  BridgeTypeOK' /\ EndsInv' /\ SessionInv'
  <1>. DEFINE K0 == [client : BOOLEAN, server : BOOLEAN,
                     up : Seq(ClientFrames(password)), down : Seq(ServerFrames)]
  <1>1. PICK up \in Survives(conns[cur].up, conns[cur].down) :
           conns' = [conns EXCEPT ![cur] =
              IF conns[cur].server THEN [client |-> FALSE, server |-> TRUE, up |-> up, down |-> <<>>]
              ELSE Closed]
    BY DEF ClientCloses
  <1>2. cur \in Conns /\ conns \in [Conns -> K0]
    BY DEF LInv, FirmwareTypeOK, EndsInv
  <1>3. conns[cur] \in K0 /\ conns[cur].up \in Seq(ClientFrames(password))
    BY <1>2
  <1>4. up \in Prefixes(conns[cur].up) /\ up \in Seq(ClientFrames(password))
    BY <1>3, PrefixSurvives, PrefixElements
  <1>5. UNCHANGED <<password, svars, server, kvars>>
    BY DEF backend
  <1>6. Closed \in K0
    BY SMTT(20) DEF Closed
  <1>7. [client |-> FALSE, server |-> TRUE, up |-> up, down |-> <<>>] \in K0
    BY SMTT(20), <1>4
  <1>8. conns' \in [Conns -> K0]
    BY <1>1, <1>2, <1>6, <1>7
  <1>9. /\ conns'[cur].client = FALSE /\ conns'[cur].down = <<>>
        /\ conns'[cur].server = conns[cur].server
        /\ conns[cur].server => conns'[cur].up = up
        /\ ~conns[cur].server => conns'[cur].up = <<>>
    <2>1. CASE conns[cur].server
      BY <1>1, <1>2, <1>3, <2>1
    <2>2. CASE ~conns[cur].server
      BY <1>1, <1>2, <1>3, <2>2 DEF Closed
    <2>. QED  BY <2>1, <2>2
  <1>10. \A c \in Conns : c # cur => conns'[c] = conns[c]
    BY <1>1, <1>2
  <1>. HIDE DEF K0
  <1>11. BridgeTypeOK'
    BY <1>5, BridgeSame DEF LInv
  <1>12. EndsInv'
    <2>1. \A c \in Conns : c # 0 /\ (conns[c].client <=> c = cur)
      BY SMTT(20) DEF LInv, EndsInv, Conns
    <2>2. \A c \in Conns : conns'[c].client <=> c = cur'
      BY <1>9, <1>10, <2>1
    <2>3. /\ \A c \in Conns : ~conns'[c].client => conns'[c].down = <<>>
          /\ \A c \in Conns : ~conns'[c].server => conns'[c].up = <<>>
      BY SMTT(20), <1>9, <1>10 DEF LInv, EndsInv
    <2>4. served' = served /\ (served' # 0 => conns'[served'].server)
      BY <1>5, <1>9, <1>10 DEF server, LInv, EndsInv, BridgeTypeOK
    <2>5. ASSUME NEW c \in Conns, Waiting(c)'
          PROVE  conns'[c].up \in {<<>>, <<HelloFrame>>} /\ conns'[c].down = <<>> /\ c # cur'
      <3>1. Waiting(c)
        BY <1>9, <1>10, <2>4, <2>5 DEF Waiting
      <3>2. CASE c = cur
        <4>1. conns[cur].server /\ conns[cur].up \in {<<>>, <<HelloFrame>>}
          BY <3>1, <3>2 DEF Waiting, LInv, EndsInv
        <4>2. up \in {<<>>, <<HelloFrame>>}
          BY <1>4, <4>1, ShortPrefixes
        <4>. QED  BY <1>9, <2>1, <3>2, <4>1, <4>2
      <3>3. CASE c # cur
        BY ZenonT(30), <1>10, <2>1, <3>1, <3>3 DEF LInv, EndsInv
      <3>. QED  BY <3>2, <3>3
    <2>. QED  BY <1>5, <1>8, <2>2, <2>3, <2>4, <2>5 DEF EndsInv, K0
  <1>13. SessionInv'
    <2>1. served # 0 =>
             UpShape(conns'[served].up, phase, served, password, awaiting_pong, tx_in_flight)
      <3>1. CASE served = cur
        <4>1. conns[cur].server
          BY <3>1 DEF LInv, EndsInv
        <4>2. UpShape(conns[cur].up, phase, cur, password, awaiting_pong, tx_in_flight)
          BY <3>1 DEF LInv, SessionInv
        <4>. QED  BY SMTT(20), <1>3, <1>4, <1>9, <3>1, <4>1, <4>2, UpShapePrefix
      <3>2. CASE served # cur
        BY <1>10, <3>2 DEF LInv, SessionInv, BridgeTypeOK
      <3>. QED  BY ZenonT(30), <3>1, <3>2
    <2>. QED  BY SMTT(20), <1>5, <2>1 DEF LInv, SessionInv, svars, server, kvars
  <1>. QED  BY <1>11, <1>12, <1>13

(* fail() of the firmware's session, for one of the reasons there are. *)
LEMMA FirmwareFails ==
    ASSUME LInv, NEW reason \in {"TIMEOUT", "AUTH", "CONFIG"}, NEW ev, NEW rest,
           fstate # "DISCONNECTED", F!fail(reason, ev), Act(ev, rest)
    PROVE  LInv'
  <1>1. /\ ev = "NEED_DISCONNECT" /\ fstate' = "DEGRADED" /\ last_err' = reason
        /\ UNCHANGED <<cfg, ftx_seq, next_seq, fnonce>>
    BY DEF F!fail
  <1>2. cur' = 0 /\ UNCHANGED <<password, svars, server, backend>>
    BY <1>1 DEF Act
  <1>3. FirmwareTypeOK'
    BY <1>1, <1>2 DEF LInv, FirmwareTypeOK, F!Handshaking, F!Operational
  <1>4. BridgeTypeOK' /\ EndsInv' /\ SessionInv'
    <2>1. CASE cur # 0
      BY <1>1, <1>2, <2>1, FirmwareLeaves DEF Act
    <2>2. CASE cur = 0
      <3>1. conns' = conns
        BY <1>1, <2>2 DEF Act
      <3>2. BridgeTypeOK'
        BY <1>2, BridgeSame DEF LInv, backend
      <3>3. EndsInv'
        <4>1. \A c \in Conns : c # cur
          BY SMTT(20), <2>2 DEF Conns
        <4>. QED  BY <1>2, <2>2, <3>1, <4>1 DEF LInv, EndsInv, Waiting, server
      <3>4. SessionInv'
        BY <1>2, <3>1 DEF LInv, SessionInv, svars, server, backend, kvars
      <3>. QED  BY <3>2, <3>3, <3>4
    <2>. QED  BY <2>1, <2>2
  <1>5. LinkInv'
    BY <1>2 DEF LinkInv
  <1>6. OutcomeTrue'
    BY <1>1 DEF OutcomeTrue
  <1>. QED  BY <1>3, <1>4, <1>5, <1>6 DEF LInv

LEMMA TimeoutStep == ASSUME LInv, Timeout PROVE LInv'
  <1>1. fstate # "DISCONNECTED" /\ F!fail("TIMEOUT", "NEED_DISCONNECT")
    BY DEF Timeout, F!onTimeout, F!Handshaking
  <1>2. Act("NEED_DISCONNECT", <<>>)
    BY DEF Timeout
  <1>. QED  BY <1>1, <1>2, FirmwareFails

LEMMA DisconnectedStep == ASSUME LInv, Disconnected PROVE LInv'
  <1>1. /\ fstate' = "DISCONNECTED" /\ last_err' = "NONE" /\ next_seq' = 1 /\ cfg' = cfg
        /\ cur' = 0 /\ UNCHANGED <<password, svars, server, backend>>
        /\ conns' = IF cur = 0 THEN conns ELSE [conns EXCEPT ![cur] = Closed]
        /\ cur # 0 => ~conns[cur].server /\ conns[cur].down = <<>>
    BY ZenonT(30) DEF Disconnected, F!onDisconnected, F!clearVolatile
  <1>2. FirmwareTypeOK'
    <2>1. next_seq' \in 1 .. U16 - 1
      BY SMTT(20), <1>1, LinkAssumption
    <2>2. fstate' \notin F!Handshaking \cup F!Operational /\ fstate' # "TX_PENDING"
      BY <1>1 DEF F!Handshaking, F!Operational
    <2>. QED  BY <1>1, <2>1, <2>2 DEF LInv, FirmwareTypeOK
  <1>3. BridgeTypeOK'
    BY <1>1, BridgeSame DEF LInv, backend
  <1>4. EndsInv' /\ SessionInv'
    <2>1. CASE cur = 0
      <3>1. conns' = conns
        BY <1>1, <2>1
      <3>2. EndsInv'
        <4>1. \A c \in Conns : c # cur
          BY SMTT(20), <2>1 DEF Conns
        <4>. QED  BY <1>1, <2>1, <3>1, <4>1 DEF LInv, EndsInv, Waiting, server
      <3>3. SessionInv'
        BY <1>1, <3>1 DEF LInv, SessionInv, svars, server, backend, kvars
      <3>. QED  BY <3>2, <3>3
    <2>2. CASE cur # 0
      <3>1. cur \in Conns /\ ~conns[cur].server
        BY <1>1, <2>2 DEF LInv, FirmwareTypeOK
      <3>. DEFINE up == conns[cur].up
      <3>2. ClientCloses(cur)
        <4>1. \E u \in Survives(conns[cur].up, conns[cur].down) : TRUE
          BY <1>1, <2>2 DEF Survives
        <4>2. conns' = [conns EXCEPT ![cur] = Closed]
          BY <1>1, <2>2
        <4>. QED  BY <3>1, <4>1, <4>2 DEF ClientCloses
      <3>. QED  BY <1>1, <2>2, <3>2, FirmwareLeaves
    <2>. QED  BY <2>1, <2>2
  <1>5. LinkInv'
    BY <1>1 DEF LinkInv
  <1>6. OutcomeTrue'
    BY <1>1 DEF OutcomeTrue
  <1>. QED  BY <1>2, <1>3, <1>4, <1>5, <1>6 DEF LInv

(* The firmware's copy of the codec is the bridge's. *)
LEMMA SameCodec ==
    /\ \A f : F!validate(f) <=> validate(f)
    /\ \A p : F!unpackConfig(p) = unpackConfig(p)
  <1>1. ASSUME NEW f PROVE F!validate(f) <=> validate(f)
    BY DEF F!validate, validate, F!isBool, isBool, F!get16, get16, F!kVersion, kVersion,
           F!kAuthNonceSize, kAuthNonceSize, F!kAuthResponseSize, kAuthResponseSize,
           F!kMaxLoraPayload, kMaxLoraPayload, F!kConfigPayloadSize, kConfigPayloadSize
  <1>2. ASSUME NEW p PROVE F!unpackConfig(p) = unpackConfig(p)
    BY DEF F!unpackConfig, unpackConfig, F!get16, get16, F!get32, get32
  <1>. QED  BY <1>1, <1>2

(* A frame that is legal in the firmware's state is taken. *)
LEMMA LegalFrameTaken ==
    ASSUME radioConfigValid(Desired), NEW f \in ServerFrames, NEW ev, F!onFrame(f, ev),
           f.type \in F!Legal
    PROVE  F!onHandshakeFrame(f, ev) \/ F!onOperationalFrame(f, ev)
  <1>1. F!validate(f)
    BY ServerFramesValid, SameCodec
  <1>2. f.type # "ERROR"
    BY DEF F!Legal, F!Operational
  <1>. QED  BY <1>1, <1>2 DEF F!onFrame

(* The firmware has taken a frame and keeps its connection. *)
LEMMA FrameTaken ==
    ASSUME LInv, cur # 0, conns[cur].down # <<>>, NEW ev, ev # "NEED_DISCONNECT",
           Sends(ev) \in Seq(ClientFrames(password)), Act(ev, Tail(conns[cur].down))
    PROVE  /\ Coming # <<>> /\ Head(Coming) = Head(conns[cur].down)
           /\ Coming' = Tail(Coming) /\ Coming' \in Seq(ServerFrames)
           /\ UNCHANGED <<cur, password, svars, server, kvars, truth>>
           /\ BridgeTypeOK' /\ EndsInv'
           /\ served = cur => conns'[cur].up = conns[cur].up \o Sends(ev)
           /\ \A c \in Conns : c # cur => conns'[c] = conns[c]
  <1>. DEFINE K0 == [client : BOOLEAN, server : BOOLEAN,
                     up : Seq(ClientFrames(password)), down : Seq(ServerFrames)]
              d == conns[cur].down
              r == [client |-> TRUE, server |-> conns[cur].server, down |-> Tail(d),
                    up |-> IF conns[cur].server THEN conns[cur].up \o Sends(ev)
                           ELSE conns[cur].up]
  <1>1. cur \in Conns /\ conns \in [Conns -> K0] /\ conns[cur] \in K0
    BY DEF LInv, FirmwareTypeOK, EndsInv
  <1>2. /\ conns' = [conns EXCEPT ![cur] = r]
        /\ UNCHANGED <<cur, password, svars, server, backend>>
    BY DEF Act
  <1>3. UNCHANGED <<cur, password, svars, server, kvars, truth>>
    BY <1>2 DEF backend
  <1>4. d \in Seq(ServerFrames) /\ d # <<>> /\ Tail(d) \in Seq(ServerFrames)
    BY <1>1, HeadTailElements
  <1>5. r \in K0
    <2>1. conns[cur].up \o Sends(ev) \in Seq(ClientFrames(password))
      BY <1>1, ConcatProperties
    <2>. QED  BY <1>1, <1>4, <2>1
  <1>6. conns' \in [Conns -> K0] /\ conns'[cur] = r /\ \A c \in Conns : c # cur => conns'[c] = conns[c]
    BY <1>1, <1>2, <1>5
  <1>7. /\ conns'[cur].client = TRUE /\ conns'[cur].server = conns[cur].server
        /\ conns'[cur].down = Tail(d)
        /\ conns[cur].server => conns'[cur].up = conns[cur].up \o Sends(ev)
        /\ ~conns[cur].server => conns'[cur].up = conns[cur].up
    BY SMTT(20), <1>6
  <1>. HIDE DEF K0, r
  <1>8. ~Waiting(cur) /\ served' = served
    BY <1>1, <1>2, <1>4 DEF LInv, EndsInv, server
  <1>9. BridgeTypeOK'
    BY <1>3, BridgeSame DEF LInv
  <1>10. EndsInv'
    <2>1. \A c \in Conns : conns'[c].client <=> c = cur'
      BY <1>3, <1>6, <1>7 DEF LInv, EndsInv
    <2>2. /\ \A c \in Conns : ~conns'[c].client => conns'[c].down = <<>>
          /\ \A c \in Conns : ~conns'[c].server => conns'[c].up = <<>>
          /\ served' # 0 => conns'[served'].server
      BY <1>6, <1>7, <1>8 DEF LInv, EndsInv, BridgeTypeOK
    <2>3. ASSUME NEW c \in Conns, Waiting(c)'
          PROVE  /\ conns'[c].up \in {<<>>, <<HelloFrame>>} /\ conns'[c].down = <<>>
                 /\ c # cur'
      <3>1. c # cur
        BY <1>7, <1>8, <2>3 DEF Waiting
      <3>2. Waiting(c)
        BY <1>6, <1>8, <2>3, <3>1 DEF Waiting
      <3>. QED  BY <1>3, <1>6, <3>1, <3>2 DEF LInv, EndsInv
    <2>. QED  BY <1>3, <1>6, <2>1, <2>2, <2>3 DEF EndsInv, K0
  <1>11. /\ Coming # <<>> /\ Head(Coming) = Head(d)
         /\ Coming' = Tail(Coming) /\ Coming' \in Seq(ServerFrames)
    <2>1. CASE served # cur
      BY <1>3, <1>4, <1>7, <2>1 DEF Coming, server
    <2>2. CASE served = cur
      <3>. DEFINE w == Wire(outbox, snonce, effective)
                  X == ServerFrames \cup {EncodeWith(f, snonce, effective) : f \in S!Replies}
      <3>1. w' = w
        BY <1>3 DEF svars, server, kvars
      <3>2. w \in Seq(X) /\ d \in Seq(X)
        <4>1. w \in Seq({EncodeWith(f, snonce, effective) : f \in S!Replies})
          BY SMTT(20), WireElements DEF LInv, BridgeTypeOK
        <4>. QED  BY SMTT(20), <1>4, <4>1
      <3>3. Coming = d \o w /\ Coming' = Tail(d) \o w
        BY <1>3, <1>7, <2>2, <3>1 DEF Coming, server
      <3>. HIDE DEF w, X, d
      <3>4. d \o w # <<>> /\ Head(d \o w) = Head(d) /\ Tail(d \o w) = Tail(d) \o w
        BY SMTT(20), <1>4, <3>2
      <3>5. Coming \in Seq(ServerFrames)
        BY DEF LInv, LinkInv
      <3>. QED  BY <3>3, <3>4, <3>5, HeadTailElements
    <2>. QED  BY <2>1, <2>2
  <1>12. served = cur => conns'[cur].up = conns[cur].up \o Sends(ev)
    BY <1>7 DEF LInv, EndsInv
  <1>. QED  BY <1>3, <1>6, <1>9, <1>10, <1>11, <1>12 DEF d

(* A frame that has arrived is the next of those to come. *)
LEMMA ComingHead ==
    ASSUME LInv, cur # 0, conns[cur].down # <<>>
    PROVE  /\ cur \in Conns /\ Head(conns[cur].down) \in ServerFrames
           /\ Coming \in Seq(ServerFrames) /\ Coming # <<>>
           /\ Head(Coming) = Head(conns[cur].down)
           /\ fstate \in F!Handshaking \cup F!Operational
           /\ cfg = Desired /\ radioConfigValid(Desired)
           /\ Shape(Coming, fstate, fnonce, cur, ftx_seq, truth)
  <1>. DEFINE d == conns[cur].down
  <1>1. cur \in Conns /\ d \in Seq(ServerFrames) /\ d # <<>> /\ Head(d) \in ServerFrames
    <2>1. cur \in Conns /\ d \in Seq(ServerFrames)
      BY DEF LInv, FirmwareTypeOK, EndsInv
    <2>. QED  BY <2>1, HeadTailElements
  <1>2. /\ Coming \in Seq(ServerFrames)
        /\ Shape(Coming, fstate, fnonce, cur, ftx_seq, truth)
    BY DEF LInv, LinkInv
  <1>3. fstate \in F!Handshaking \cup F!Operational /\ cfg = Desired /\ radioConfigValid(Desired)
    BY DEF LInv, FirmwareTypeOK, F!Handshaking, F!Operational
  <1>4. Coming # <<>> /\ Head(Coming) = Head(d)
    <2>1. CASE served # cur
      BY <1>1, <2>1 DEF Coming
    <2>2. CASE served = cur
      <3>. DEFINE w == Wire(outbox, snonce, effective)
                  X == ServerFrames \cup {EncodeWith(f, snonce, effective) : f \in S!Replies}
      <3>1. w \in Seq(X) /\ d \in Seq(X)
        <4>1. w \in Seq({EncodeWith(f, snonce, effective) : f \in S!Replies})
          BY SMTT(20), WireElements DEF LInv, BridgeTypeOK
        <4>. QED  BY SMTT(20), <1>1, <4>1
      <3>2. Coming = d \o w
        BY <2>2 DEF Coming
      <3>. HIDE DEF w, X, d
      <3>3. d \o w # <<>> /\ Head(d \o w) = Head(d)
        BY SMTT(20), <1>1, <3>1
      <3>. QED  BY <3>2, <3>3
    <2>. QED  BY <2>1, <2>2
  <1>. QED  BY <1>1, <1>2, <1>3, <1>4

(* In the handshake, who is to move says what is on its way. *)
LEMMA InStepUp ==
    ASSUME NEW D, NEW U, NEW p \in S!Phases, NEW f, NEW nonce, NEW c, NEW key,
           InStep(D, U, p, f, nonce, c, key), p # "Ready", NEW awaiting, NEW in_flight
    PROVE  UpShape(U, p, c, key, awaiting, in_flight)
  BY DEF InStep, UpShape, S!Phases

(* Nothing of the bridge changes, but what is on its way to it. *)
LEMMA SessionSame ==
    ASSUME LInv, UNCHANGED <<password, svars, server, kvars>>,
           served # 0 =>
              UpShape(conns'[served].up, phase, served, password, awaiting_pong, tx_in_flight)
    PROVE  SessionInv'
  BY DEF LInv, SessionInv, svars, server, kvars

(* What a frame taken must leave true. *)
LEMMA ReceivedKeeps ==
    ASSUME LInv, cur # 0, conns[cur].down # <<>>, NEW ev, ev # "NEED_DISCONNECT",
           Sends(ev) \in Seq(ClientFrames(password)), Act(ev, Tail(conns[cur].down)),
           FirmwareTypeOK', OutcomeTrue',
           Shape(Tail(Coming), fstate', fnonce', cur, ftx_seq', truth),
           fstate' = "AUTHENTICATING" => Tail(Coming) # <<AuthOkFrame>>,
           fstate' \in {"CONFIGURING"} \cup F!Operational => password = BridgePassword,
           Configured(Tail(Coming), fstate') => ~config_pending /\ effective = Desired,
           served = cur /\ phase # "Closed" =>
              InStep(Tail(Coming), conns[cur].up \o Sends(ev), phase, fstate', fnonce', cur,
                     password),
           served = cur /\ phase = "Ready" =>
              /\ UpShape(conns[cur].up \o Sends(ev), phase, cur, password, awaiting_pong,
                         tx_in_flight)
              /\ InTraffic(Tail(Coming), conns[cur].up \o Sends(ev), fstate', awaiting_pong,
                           tx_in_flight, ftx_seq')
              /\ tx_in_flight => tx_seq = ftx_seq' /\ pending_tx_result = truth
    PROVE  LInv'
  <1>1. /\ Coming # <<>>
        /\ Coming' = Tail(Coming) /\ Coming' \in Seq(ServerFrames)
        /\ UNCHANGED <<cur, password, svars, server, kvars, truth>>
        /\ BridgeTypeOK' /\ EndsInv'
        /\ served = cur => conns'[cur].up = conns[cur].up \o Sends(ev)
        /\ \A c \in Conns : c # cur => conns'[c] = conns[c]
    BY FrameTaken
  <1>2. phase \in S!Phases /\ served \in Conns \cup {0}
    BY DEF LInv, BridgeTypeOK
  <1>3. SessionInv'
    <2>1. ASSUME served = cur
          PROVE  UpShape(conns'[cur].up, phase, cur, password, awaiting_pong, tx_in_flight)
      <3>1. CASE phase = "Closed"
        BY <3>1 DEF UpShape
      <3>2. CASE phase = "Ready"
        BY <1>1, <2>1, <3>2
      <3>3. CASE phase \notin {"Closed", "Ready"}
        BY <1>1, <1>2, <2>1, <3>3, InStepUp
      <3>. QED  BY <3>1, <3>2, <3>3
    <2>2. served \notin {0, cur} =>
             UpShape(conns'[served].up, phase, served, password, awaiting_pong, tx_in_flight)
      BY <1>1, <1>2 DEF LInv, SessionInv
    <2>. QED  BY <1>1, <2>1, <2>2, SessionSame
  <1>4. LinkInv'
    <2>1. UNCHANGED <<phase, awaiting_pong, tx_in_flight, tx_seq, served, effective,
                      config_pending, pending_tx_result, cur, password, truth>>
      BY <1>1 DEF svars, server, kvars
    <2>2. served \notin {0, cur} =>
              /\ phase \in {"WaitHello", "WaitAuth", "Closed"}
              /\ phase = "WaitAuth" => conns'[served].up = <<>>
      BY <1>1, <1>2 DEF LInv, LinkInv, Taken
    <2>. QED  BY <1>1, <2>1, <2>2 DEF LinkInv
  <1>. QED  BY <1>1, <1>3, <1>4 DEF LInv

(* The frame the firmware takes is legal in its state. *)
LEMMA ReceiveLegal ==
    ASSUME LInv, cur # 0, conns[cur].down # <<>>
    PROVE  Head(Coming).type \in F!Legal
  <1>. DEFINE f == Head(Coming)
  <1>1. /\ Coming \in Seq(ServerFrames) /\ Coming # <<>>
        /\ fstate \in F!Handshaking \cup F!Operational
        /\ Shape(Coming, fstate, fnonce, cur, ftx_seq, truth)
    BY ComingHead
  <1>2. CASE fstate = "HANDSHAKE"
    <2>1. f.type = "HELLO_ACK"
      BY <1>1, <1>2, ShapeHead, FrameFields
    <2>. QED  BY <1>2, <2>1 DEF F!Legal, F!Operational
  <1>3. CASE fstate = "AUTHENTICATING"
    <2>1. f.type \in {"AUTH_CHALLENGE", "AUTH_RESULT"}
      BY SMTT(20), <1>1, <1>3, ShapeHead, FrameFields
    <2>. QED  BY ZenonT(30), <1>3, <2>1 DEF F!Legal, F!Operational
  <1>4. CASE fstate = "CONFIGURING"
    <2>1. f.type = "CONFIG_RESULT"
      BY <1>1, <1>4, ShapeHead, FrameFields
    <2>. QED  BY <1>4, <2>1 DEF F!Legal, F!Operational
  <1>5. CASE fstate \in F!Operational
    <2>1. f.type \in {"RX_PACKET", "TX_RESULT", "PING"}
      BY SMTT(20), <1>1, <1>5, ShapeHead, FrameFields
    <2>. QED  BY ZenonT(30), <1>5, <2>1 DEF F!Legal, F!Operational
  <1>. QED  BY <1>1, <1>2, <1>3, <1>4, <1>5 DEF F!Handshaking

LEMMA ReceiveInHandshake ==
    ASSUME LInv, cur # 0, conns[cur].down # <<>>, fstate = "HANDSHAKE", NEW ev,
           F!onHandshakeFrame(Head(Coming), ev) \/ F!onOperationalFrame(Head(Coming), ev),
           Act(ev, Tail(conns[cur].down))
    PROVE  LInv'
  <1>1. /\ Coming \in Seq(ServerFrames) /\ Coming # <<>>
        /\ Shape(Coming, fstate, fnonce, cur, ftx_seq, truth)
    BY ComingHead
  <1>2. Head(Coming) = AckFrame /\ Tail(Coming) \in {<<>>, <<ChallengeFrame(cur)>>}
    BY <1>1, ShapeHead
  <1>3. ev = "NONE" /\ F!Advance("AUTHENTICATING")
    BY <1>2, FrameFields DEF F!onHandshakeFrame, F!onOperationalFrame
  <1>4. /\ fstate' = "AUTHENTICATING"
        /\ UNCHANGED <<cfg, ftx_in_flight, ftx_seq, next_seq, fnonce, last_tx_outcome, last_err>>
    BY <1>3 DEF F!Advance
  <1>5. Sends(ev) = <<>> /\ cur' = cur /\ fnonce = 0
    BY <1>3 DEF Sends, Act, LInv, FirmwareTypeOK
  <1>6. FirmwareTypeOK' /\ OutcomeTrue'
    BY <1>4, <1>5 DEF LInv, FirmwareTypeOK, OutcomeTrue, F!Handshaking, F!Operational
  <1>7. Shape(Tail(Coming), fstate', fnonce', cur, ftx_seq', truth)
    BY <1>2, <1>4, <1>5 DEF Shape, F!Operational
  <1>8. Tail(Coming) # <<AuthOkFrame>>
    <2>1. AuthOkFrame # ChallengeFrame(cur)
      BY FrameFields
    <2>. QED  BY SMTT(20), <1>2, <2>1
  <1>9. ~Configured(Tail(Coming), fstate') /\ fstate' \notin {"CONFIGURING"} \cup F!Operational
    BY ZenonT(30), <1>4 DEF Configured, F!Operational
  <1>10. conns[cur].up \o Sends(ev) = conns[cur].up
    <2>1. conns[cur].up \in Seq(ClientFrames(password))
      BY ComingHead DEF LInv, EndsInv
    <2>. QED  BY SMTT(20), <1>5, <2>1
  <1>11. ASSUME served = cur, phase # "Closed"
         PROVE  /\ InStep(Tail(Coming), conns[cur].up, phase, fstate', fnonce', cur, password)
                /\ phase # "Ready"
    <2>1. InStep(Coming, conns[cur].up, phase, "HANDSHAKE", 0, cur, password)
      BY <1>5, <1>11 DEF LInv, LinkInv
    <2>2. phase = "WaitAuth" /\ Coming = <<AckFrame, ChallengeFrame(cur)>> /\ conns[cur].up = <<>>
      BY <1>1, <1>11, <2>1 DEF InStep, LInv, BridgeTypeOK, S!Phases, F!Operational
    <2>3. Tail(Coming) = <<ChallengeFrame(cur)>>
      BY SMTT(20), <2>2
    <2>. QED  BY <1>4, <1>5, <2>2, <2>3 DEF InStep
  <1>12. Sends(ev) \in Seq(ClientFrames(password)) /\ ev # "NEED_DISCONNECT"
    <2>1. <<>> \in Seq(ClientFrames(password)) /\ ev # "NEED_DISCONNECT"
      BY SMTT(20), <1>3
    <2>. QED  BY <1>5, <2>1
  <1>13. served = cur /\ phase # "Closed" =>
            /\ InStep(Tail(Coming), conns[cur].up \o Sends(ev), phase, fstate', fnonce', cur,
                      password)
            /\ phase # "Ready"
    BY ZenonT(30), <1>10, <1>11
  <1>. QED  BY <1>6, <1>7, <1>8, <1>9, <1>12, <1>13, ReceivedKeeps

LEMMA ReceiveInAuthentication ==
    ASSUME LInv, cur # 0, conns[cur].down # <<>>, fstate = "AUTHENTICATING", NEW ev,
           F!onHandshakeFrame(Head(Coming), ev) \/ F!onOperationalFrame(Head(Coming), ev),
           Act(ev, Tail(conns[cur].down))
    PROVE  LInv'
  <1>1. /\ Coming \in Seq(ServerFrames) /\ Coming # <<>> /\ cur \in Conns /\ cfg = Desired
        /\ Shape(Coming, fstate, fnonce, cur, ftx_seq, truth)
    BY ComingHead
  <1>2. conns[cur].up \in Seq(ClientFrames(password)) /\ phase \in S!Phases
    BY <1>1 DEF LInv, EndsInv, BridgeTypeOK
  <1>3. CASE fnonce = 0
    <2>1. Head(Coming) = ChallengeFrame(cur) /\ Tail(Coming) = <<>>
      BY ZenonT(30), <1>1, <1>3, ShapeHead
    <2>2. /\ ev = "SEND_AUTH" /\ fnonce' = cur
          /\ UNCHANGED <<fstate, cfg, ftx_in_flight, ftx_seq, next_seq, last_tx_outcome, last_err>>
      BY SMTT(20), <2>1, FrameFields DEF F!onHandshakeFrame, F!onOperationalFrame
    <2>3. Sends(ev) = <<ResponseFrame(password, cur)>> /\ cur' = cur
      BY <2>2 DEF Sends, ResponseFrame, Act
    <2>4. FirmwareTypeOK' /\ OutcomeTrue'
      BY <2>2, <2>3 DEF LInv, FirmwareTypeOK, OutcomeTrue, F!Handshaking, F!Operational
    <2>5. cur # 0 /\ Shape(<<>>, fstate', fnonce', cur, ftx_seq', truth)
      BY <2>2 DEF Shape, F!Operational
    <2>6. ~Configured(<<>>, fstate') /\ fstate' \notin {"CONFIGURING"} \cup F!Operational
      BY <2>2 DEF Configured, F!Operational
    <2>7. ASSUME served = cur, phase # "Closed"
          PROVE  /\ InStep(<<>>, conns[cur].up \o Sends(ev), phase, fstate', fnonce', cur, password)
                 /\ phase # "Ready"
      <3>1. InStep(Coming, conns[cur].up, phase, "AUTHENTICATING", 0, cur, password)
        BY <1>3, <2>7 DEF LInv, LinkInv
      <3>2. phase = "WaitAuth" /\ conns[cur].up = <<>>
        BY <1>1, <1>2, <2>7, <3>1 DEF InStep, S!Phases, F!Operational
      <3>3. conns[cur].up \o Sends(ev) = <<ResponseFrame(password, cur)>>
        BY SMTT(20), <2>3, <3>2
      <3>. QED  BY <2>2, <3>2, <3>3 DEF InStep
    <2>8. Sends(ev) \in Seq(ClientFrames(password)) /\ ev # "NEED_DISCONNECT"
      <3>1. ResponseFrame(password, cur) \in ClientFrames(password)
        BY <1>1 DEF ClientFrames
      <3>2. <<ResponseFrame(password, cur)>> \in Seq(ClientFrames(password))
        BY SMTT(20), <3>1
      <3>3. ev # "NEED_DISCONNECT"
        BY <2>2
      <3>. QED  BY <2>3, <3>2, <3>3
    <2>9. <<>> # <<AuthOkFrame>>
      OBVIOUS
    <2>. QED  BY <2>1, <2>4, <2>5, <2>6, <2>7, <2>8, <2>9, ReceivedKeeps
  <1>4. CASE fnonce # 0 /\ Coming = <<AuthOkFrame>>
    <2>1. Head(Coming) = AuthOkFrame /\ Tail(Coming) = <<>> /\ fnonce = cur
      BY SMTT(20), <1>1, <1>4 DEF Shape
    <2>2. ev = "SEND_CONFIG" /\ F!Advance("CONFIGURING")
      BY <2>1, FrameFields DEF F!onHandshakeFrame, F!onOperationalFrame
    <2>3. /\ fstate' = "CONFIGURING"
          /\ UNCHANGED <<cfg, ftx_in_flight, ftx_seq, next_seq, fnonce, last_tx_outcome, last_err>>
      BY <2>2 DEF F!Advance
    <2>4. Sends(ev) = <<ConfigureFrame>> /\ cur' = cur
      BY <1>1, <2>2 DEF Sends, ConfigureFrame, Act
    <2>5. FirmwareTypeOK' /\ OutcomeTrue'
      BY <2>3, <2>4 DEF LInv, FirmwareTypeOK, OutcomeTrue, F!Handshaking, F!Operational
    <2>6. Shape(<<>>, fstate', fnonce', cur, ftx_seq', truth)
      BY <2>3 DEF Shape, F!Operational
    <2>7. ~Configured(<<>>, fstate') /\ password = BridgePassword
      BY <1>4, <2>3 DEF Configured, F!Operational, LInv, LinkInv
    <2>8. ASSUME served = cur, phase # "Closed"
          PROVE  /\ InStep(<<>>, conns[cur].up \o Sends(ev), phase, fstate', fnonce', cur, password)
                 /\ phase # "Ready"
      <3>1. InStep(Coming, conns[cur].up, phase, "AUTHENTICATING", fnonce, cur, password)
        BY <2>8 DEF LInv, LinkInv
      <3>2. AuthOkFrame # ChallengeFrame(cur)
        BY FrameFields
      <3>3. phase = "WaitConfigure" /\ conns[cur].up = <<>>
        BY <1>2, <1>4, <2>8, <3>1, <3>2 DEF InStep, S!Phases, F!Operational
      <3>4. conns[cur].up \o Sends(ev) = <<ConfigureFrame>>
        BY SMTT(20), <2>4, <3>3
      <3>. QED  BY <2>3, <3>3, <3>4 DEF InStep
    <2>9. Sends(ev) \in Seq(ClientFrames(password)) /\ ev # "NEED_DISCONNECT"
      <3>1. ConfigureFrame \in ClientFrames(password)
        BY DEF ClientFrames
      <3>2. <<ConfigureFrame>> \in Seq(ClientFrames(password))
        BY SMTT(20), <3>1
      <3>3. ev # "NEED_DISCONNECT"
        BY <2>2
      <3>. QED  BY <2>4, <3>2, <3>3
    <2>10. <<>> # <<AuthOkFrame>>
      OBVIOUS
    <2>. QED  BY <2>1, <2>5, <2>6, <2>7, <2>8, <2>9, <2>10, ReceivedKeeps
  <1>5. CASE fnonce # 0 /\ Coming = <<AuthFailFrame>>
    <2>1. Head(Coming) = AuthFailFrame
      BY SMTT(20), <1>5
    <2>2. F!fail("AUTH", ev)
      BY SMTT(20), <2>1, FrameFields DEF F!onHandshakeFrame, F!onOperationalFrame
    <2>. QED  BY <2>2, FirmwareFails
  <1>. QED  BY SMTT(20), <1>1, <1>3, <1>4, <1>5, ShapeHead

LEMMA ReceiveInConfiguration ==
    ASSUME LInv, cur # 0, conns[cur].down # <<>>, fstate = "CONFIGURING", NEW ev,
           F!onHandshakeFrame(Head(Coming), ev) \/ F!onOperationalFrame(Head(Coming), ev),
           Act(ev, Tail(conns[cur].down))
    PROVE  LInv'
  <1>. DEFINE D == Coming
              U == conns[cur].up
  <1>1. /\ D \in Seq(ServerFrames) /\ D # <<>> /\ cur \in Conns /\ cfg = Desired
        /\ Shape(D, fstate, fnonce, cur, ftx_seq, truth)
    BY ComingHead
  <1>2. U \in Seq(ClientFrames(password)) /\ phase \in S!Phases
    BY <1>1 DEF LInv, EndsInv, BridgeTypeOK
  <1>3. CASE Head(D) = CfgFailFrame
    <2>1. F!fail("CONFIG", ev)
      BY <1>3, FrameFields DEF F!onHandshakeFrame, F!onOperationalFrame
    <2>. QED  BY <2>1, FirmwareFails
  <1>4. CASE /\ Head(D) = CfgOkFrame /\ D[1] = CfgOkFrame
             /\ \A i \in 1 .. Len(Tail(D)) : Tail(D)[i] \in {RxFrame, PingFrame}
    <2>1. F!unpackConfig(Tail(CfgOkFrame.payload)) = cfg
      <3>1. Tail(CfgOkFrame.payload) = packConfig(Desired)
        BY SMTT(20), PackedBytes, FrameFields
      <3>. QED  BY ZenonT(30), <1>1, <3>1, SameCodec, LinkAssumption
    <2>2. ev = "READY" /\ F!Advance("READY_RX")
      <3>1. /\ Head(D).type = "CONFIG_RESULT" /\ Head(D).len # 1
            /\ F!unpackConfig(Tail(Head(D).payload)) = cfg
        <4>1. CfgOkFrame.type = "CONFIG_RESULT" /\ CfgOkFrame.len = 18 /\ 18 # 1
          BY SMTT(20), FrameFields
        <4>. QED  BY <1>4, <2>1, <4>1
      <3>. QED  BY <3>1 DEF F!onHandshakeFrame, F!onOperationalFrame
    <2>3. /\ fstate' = "READY_RX"
          /\ UNCHANGED <<cfg, ftx_in_flight, ftx_seq, next_seq, fnonce, last_tx_outcome, last_err>>
      BY <2>2 DEF F!Advance
    <2>4. Sends(ev) = <<>> /\ cur' = cur
      BY <2>2 DEF Sends, Act
    <2>5. FirmwareTypeOK' /\ OutcomeTrue'
      BY <2>3, <2>4 DEF LInv, FirmwareTypeOK, OutcomeTrue, F!Handshaking, F!Operational
    <2>6. ~Has(Tail(D), "TX_RESULT")
      BY <1>4, FrameFields DEF Has
    <2>7. Shape(Tail(D), fstate', fnonce', cur, ftx_seq', truth)
      BY <1>4, <2>3, <2>6 DEF Shape, F!Operational, Has, Once
    <2>8. Configured(D, fstate)
      BY <1>1, <1>4 DEF Configured
    <2>9. ~config_pending /\ effective = Desired /\ password = BridgePassword
      BY <2>8 DEF LInv, LinkInv
    <2>10. U \o Sends(ev) = U
      BY SMTT(20), <1>2, <2>4
    <2>11. ASSUME served = cur, phase # "Closed" PROVE phase = "Ready" /\ U = <<>>
      <3>1. InStep(D, U, phase, "CONFIGURING", fnonce, cur, password)
        BY <2>11 DEF LInv, LinkInv
      <3>. QED  BY <1>1, <1>2, <2>11, <3>1 DEF InStep, S!Phases, F!Operational
    <2>12. ASSUME served = cur, phase # "Closed"
           PROVE  InStep(Tail(D), U, phase, fstate', fnonce', cur, password)
      BY <2>3, <2>11, <2>12 DEF InStep, F!Operational
    <2>13. ASSUME served = cur, phase = "Ready"
           PROVE  /\ UpShape(U, phase, cur, password, awaiting_pong, tx_in_flight)
                  /\ InTraffic(Tail(D), U, fstate', awaiting_pong, tx_in_flight, ftx_seq')
                  /\ ~tx_in_flight
      <3>1. InTraffic(D, U, fstate, awaiting_pong, tx_in_flight, ftx_seq)
        BY <2>13 DEF LInv, LinkInv
      <3>2. U = <<>>
        BY <2>11, <2>13
      <3>3. ~tx_in_flight
        BY <3>1 DEF InTraffic
      <3>4. UpShape(<<>>, phase, cur, password, awaiting_pong, tx_in_flight)
        BY SMTT(20), <2>13, HasNone DEF UpShape
      <3>5. /\ Has(Tail(D), "PING") => Has(D, "PING")
            /\ Once(D, "PING") => Once(Tail(D), "PING")
        BY <1>1, HasTail
      <3>. HIDE DEF D
      <3>6. InTraffic(Tail(D), <<>>, fstate', awaiting_pong, tx_in_flight, ftx_seq')
        BY SMTT(20), <3>1, <3>3, <3>5, HasNone DEF InTraffic
      <3>. QED  BY <3>2, <3>3, <3>4, <3>6
    <2>14. Sends(ev) \in Seq(ClientFrames(password)) /\ ev # "NEED_DISCONNECT"
      <3>1. <<>> \in Seq(ClientFrames(password)) /\ ev # "NEED_DISCONNECT"
        BY SMTT(20), <2>2
      <3>. QED  BY <2>4, <3>1
    <2>15. served = cur /\ phase # "Closed" =>
              InStep(Tail(D), U \o Sends(ev), phase, fstate', fnonce', cur, password)
      BY <2>10, <2>12
    <2>16. served = cur /\ phase = "Ready" =>
              /\ UpShape(U \o Sends(ev), phase, cur, password, awaiting_pong, tx_in_flight)
              /\ InTraffic(Tail(D), U \o Sends(ev), fstate', awaiting_pong, tx_in_flight, ftx_seq')
              /\ ~tx_in_flight
      BY <2>10, <2>13
    <2>17. fstate' # "AUTHENTICATING"
      BY <2>3
    <2>. QED  BY <2>5, <2>7, <2>9, <2>14, <2>15, <2>16, <2>17, ReceivedKeeps
  <1>. QED  BY <1>1, <1>3, <1>4, ShapeHead

(* Frames of the operational states that the firmware takes and stays. *)
LEMMA ReceiveTraffic ==
    ASSUME LInv, cur # 0, conns[cur].down # <<>>, fstate \in F!Operational, NEW ev,
           Head(Coming) \in {RxFrame, PingFrame},
           F!onHandshakeFrame(Head(Coming), ev) \/ F!onOperationalFrame(Head(Coming), ev),
           Act(ev, Tail(conns[cur].down))
    PROVE  LInv'
  <1>. DEFINE D == Coming
              U == conns[cur].up
              ping == Head(D) = PingFrame
  <1>1. /\ D \in Seq(ServerFrames) /\ D # <<>> /\ cur \in Conns
        /\ Shape(D, fstate, fnonce, cur, ftx_seq, truth)
    BY ComingHead
  <1>2. U \in Seq(ClientFrames(password)) /\ phase \in S!Phases
    BY <1>1 DEF LInv, EndsInv, BridgeTypeOK
  <1>3. F!Advance(fstate) /\ ev = IF ping THEN "SEND_PONG" ELSE "RX"
    BY FrameFields DEF F!onHandshakeFrame, F!onOperationalFrame
  <1>4. UNCHANGED <<fstate, cfg, ftx_in_flight, ftx_seq, next_seq, fnonce, last_tx_outcome, last_err>>
    BY <1>3 DEF F!Advance
  <1>5. Sends(ev) = IF ping THEN <<PongFrame>> ELSE <<>>
    BY <1>3 DEF Sends, PongFrame
  <1>6. cur' = cur /\ ev # "NEED_DISCONNECT" /\ UNCHANGED <<truth, password>>
    BY <1>3 DEF Act, backend
  <1>7. FirmwareTypeOK' /\ OutcomeTrue'
    BY <1>4, <1>6 DEF LInv, FirmwareTypeOK, OutcomeTrue
  <1>8. Shape(Tail(D), fstate', fnonce', cur, ftx_seq', truth)
    <2>1. /\ \A i \in 1 .. Len(Tail(D)) :
                \/ Tail(D)[i] \in {RxFrame, PingFrame}
                \/ /\ fstate = "TX_PENDING" /\ truth \in K!Results
                   /\ Tail(D)[i] = ResultFrame(ftx_seq, truth)
          /\ Once(Tail(D), "TX_RESULT")
      BY SMTT(20), <1>1, ShapeHead
    <2>. HIDE DEF D
    <2>2. Shape(Tail(D), fstate, fnonce, cur, ftx_seq, truth)
      BY <2>1 DEF Shape, F!Operational
    <2>. QED  BY ZenonT(30), <1>4, <2>2
  <1>9. Configured(D, fstate) /\ password = BridgePassword /\ ~config_pending /\ effective = Desired
    BY DEF LInv, LinkInv, Configured
  <1>10. PongFrame \in ClientFrames(password)
    BY DEF ClientFrames
  <1>11. Sends(ev) \in Seq(ClientFrames(password))
    <2>1. <<>> \in Seq(ClientFrames(password)) /\ <<PongFrame>> \in Seq(ClientFrames(password))
      BY SMTT(20), <1>10
    <2>. QED  BY <1>5, <2>1
  <1>12. ASSUME served = cur, phase # "Closed" PROVE phase = "Ready"
    <2>1. InStep(D, U, phase, fstate, fnonce, cur, password)
      BY <1>12 DEF LInv, LinkInv
    <2>. QED  BY <1>2, <1>12, <2>1 DEF InStep, S!Phases, F!Operational
  <1>13. served = cur /\ phase # "Closed" =>
            InStep(Tail(D), U \o Sends(ev), phase, fstate', fnonce', cur, password)
    BY <1>4, <1>12 DEF InStep
  <1>14. ASSUME served = cur, phase = "Ready"
         PROVE  /\ UpShape(U \o Sends(ev), phase, cur, password, awaiting_pong, tx_in_flight)
                /\ InTraffic(Tail(D), U \o Sends(ev), fstate', awaiting_pong, tx_in_flight, ftx_seq')
    <2>1. InTraffic(D, U, fstate, awaiting_pong, tx_in_flight, ftx_seq)
      BY <1>14 DEF LInv, LinkInv
    <2>2. UpShape(U, "Ready", cur, password, awaiting_pong, tx_in_flight)
      BY <1>14 DEF LInv, SessionInv
    <2>3. \A type : /\ Has(Tail(D), type) => Has(D, type)
                    /\ Head(D).type = type => Has(D, type)
                    /\ Once(D, type) => Once(Tail(D), type)
                    /\ Once(D, type) /\ Head(D).type = type => ~Has(Tail(D), type)
      BY <1>1, HasTail
    <2>4. CASE ~ping
      <3>1. U \o Sends(ev) = U
        BY SMTT(20), <1>2, <1>5, <2>4
      <3>2. InTraffic(Tail(D), U, fstate, awaiting_pong, tx_in_flight, ftx_seq)
        BY <2>1, <2>3 DEF InTraffic
      <3>. QED  BY ZenonT(30), <1>4, <1>14, <2>2, <3>1, <3>2
    <2>5. CASE ping
      <3>. DEFINE V == U \o <<PongFrame>>
      <3>1. Head(D).type = "PING"
        BY <2>5, FrameFields
      <3>2. awaiting_pong /\ ~Has(U, "PONG") /\ ~Has(Tail(D), "PING") /\ Once(Tail(D), "PING")
        BY ZenonT(30), <2>1, <2>3, <3>1 DEF InTraffic
      <3>3. \A type : /\ Has(V, type) <=> Has(U, type) \/ PongFrame.type = type
                      /\ Once(U, type) /\ (~Has(U, type) \/ PongFrame.type # type) => Once(V, type)
        BY SMTT(20), <1>2, <1>10, HasAdded
      <3>4. /\ Len(U) \in Nat /\ Len(V) = Len(U) + 1
            /\ \A i \in 1 .. Len(U) : V[i] = U[i]
            /\ V[Len(U) + 1] = PongFrame
        BY SMTT(20), <1>2, <1>10, AddedElements
      <3>. HIDE DEF V, U, D
      <3>5. \A i \in 1 .. Len(V) : V[i] = PongFrame \/ (i \in 1 .. Len(U) /\ V[i] = U[i])
        <4>1. \A i \in 1 .. Len(V) : i \in 1 .. Len(U) \/ i = Len(U) + 1
          BY SMTT(20), <3>4
        <4>. QED  BY <3>4, <4>1
      <3>6. PongFrame.type = "PONG"
        BY FrameFields
      <3>7. UpShape(V, "Ready", cur, password, awaiting_pong, tx_in_flight)
        <4>1. /\ \A i \in 1 .. Len(U) :
                    U[i] = PongFrame \/ \E seq \in 1 .. U16 - 1 : U[i] = RequestFrame(seq)
              /\ Once(U, "PONG") /\ Once(U, "TX_REQUEST")
              /\ Has(U, "TX_REQUEST") => ~tx_in_flight
          BY <2>2 DEF UpShape
        <4>2. \A i \in 1 .. Len(V) :
                 V[i] = PongFrame \/ \E seq \in 1 .. U16 - 1 : V[i] = RequestFrame(seq)
          BY <3>5, <4>1
        <4>3. /\ Once(V, "PONG") /\ Once(V, "TX_REQUEST")
              /\ Has(V, "TX_REQUEST") => ~tx_in_flight
          BY <3>2, <3>3, <3>6, <4>1
        <4>. QED  BY <3>2, <4>2, <4>3 DEF UpShape
      <3>8. InTraffic(Tail(D), V, fstate, awaiting_pong, tx_in_flight, ftx_seq)
        <4>1. \A i \in 1 .. Len(V) : V[i].type = "TX_REQUEST" => V[i].seq = ftx_seq
          BY <2>1, <3>5, <3>6 DEF InTraffic
        <4>2. tx_in_flight \/ Has(V, "TX_REQUEST") =>
                 fstate = "TX_PENDING" /\ ~Has(Tail(D), "TX_RESULT")
          BY <2>1, <2>3, <3>3, <3>6 DEF InTraffic
        <4>. QED  BY <3>2, <4>1, <4>2 DEF InTraffic
      <3>9. U \o Sends(ev) = V
        BY <1>5, <2>5 DEF V
      <3>. QED  BY <1>4, <1>14, <3>7, <3>8, <3>9
    <2>. QED  BY <2>4, <2>5
  <1>15. served = cur /\ phase = "Ready" =>
            (tx_in_flight => tx_seq = ftx_seq' /\ pending_tx_result = truth)
    BY <1>4 DEF LInv, LinkInv
  <1>16. fstate' # "AUTHENTICATING"
    BY <1>4 DEF F!Operational
  <1>. QED  BY <1>6, <1>7, <1>8, <1>9, <1>11, <1>13, <1>14, <1>15, <1>16, ReceivedKeeps

(* The result of the frame the firmware has in flight. *)
LEMMA ReceiveResult ==
    ASSUME LInv, cur # 0, conns[cur].down # <<>>, fstate = "TX_PENDING", NEW ev,
           truth \in K!Results, Head(Coming) = ResultFrame(ftx_seq, truth),
           F!onHandshakeFrame(Head(Coming), ev) \/ F!onOperationalFrame(Head(Coming), ev),
           Act(ev, Tail(conns[cur].down))
    PROVE  LInv'
  <1>. DEFINE D == Coming
              U == conns[cur].up
  <1>1. /\ D \in Seq(ServerFrames) /\ D # <<>> /\ cur \in Conns
        /\ Shape(D, fstate, fnonce, cur, ftx_seq, truth)
    BY ComingHead
  <1>2. U \in Seq(ClientFrames(password)) /\ phase \in S!Phases
    BY ZenonT(30), <1>1 DEF LInv, EndsInv, BridgeTypeOK
  <1>3. /\ Head(D).type = "TX_RESULT" /\ Head(D).seq = ftx_seq
        /\ Head(D).payload[1] = tx_outcome_to_wire(truth)
    BY SMTT(20), FrameFields
  <1>4. /\ ev = "TX_DONE" /\ fstate' = "READY_RX"
        /\ last_tx_outcome' = F!Outcomes[tx_outcome_to_wire(truth) + 1]
        /\ UNCHANGED <<cfg, ftx_seq, next_seq, fnonce, last_err>>
    BY <1>3 DEF F!onHandshakeFrame, F!onOperationalFrame, F!Awaits
  <1>5. Sends(ev) = <<>>
    BY <1>4 DEF Sends
  <1>6. cur' = cur /\ ev # "NEED_DISCONNECT" /\ UNCHANGED <<truth, password>>
    BY <1>4 DEF Act, backend
  <1>7. FirmwareTypeOK'
    BY <1>4, <1>6 DEF LInv, FirmwareTypeOK, F!Handshaking, F!Operational
  <1>8. OutcomeTrue'
    BY <1>4, <1>6, OutcomeOnWire DEF OutcomeTrue
  <1>9. /\ ~Has(Tail(D), "TX_RESULT") /\ Has(D, "TX_RESULT")
        /\ Has(Tail(D), "PING") => Has(D, "PING")
        /\ Once(D, "PING") => Once(Tail(D), "PING")
    <2>1. Once(D, "TX_RESULT")
      BY <1>1 DEF Shape, F!Operational
    <2>. QED  BY <1>1, <1>3, <2>1, HasTail
  <1>10. \A i \in 1 .. Len(Tail(D)) : Tail(D)[i] \in {RxFrame, PingFrame}
    <2>1. \A i \in 1 .. Len(Tail(D)) :
             Tail(D)[i] \in {RxFrame, PingFrame} \/ Tail(D)[i] = ResultFrame(ftx_seq, truth)
      BY SMTT(20), <1>1, ShapeHead DEF F!Operational
    <2>. HIDE DEF D
    <2>2. ResultFrame(ftx_seq, truth).type = "TX_RESULT"
      BY DEF ResultFrame, Frame
    <2>. QED  BY ZenonT(30), <1>9, <2>1, <2>2 DEF Has
  <1>11. Shape(Tail(D), fstate', fnonce', cur, ftx_seq', truth)
    <2>1. Once(Tail(D), "TX_RESULT")
      BY <1>9 DEF Has, Once
    <2>. HIDE DEF D
    <2>. QED  BY <1>4, <1>10, <2>1 DEF Shape, F!Operational
  <1>12. Configured(D, fstate) /\ password = BridgePassword /\ ~config_pending /\ effective = Desired
    BY DEF LInv, LinkInv, Configured, F!Operational
  <1>13. Sends(ev) \in Seq(ClientFrames(password)) /\ U \o Sends(ev) = U
    <2>1. <<>> \in Seq(ClientFrames(password)) /\ U \o <<>> = U
      BY SMTT(20), <1>2
    <2>. QED  BY ZenonT(30), <1>5, <2>1
  <1>14. ASSUME served = cur, phase # "Closed" PROVE phase = "Ready"
    <2>1. InStep(D, U, phase, fstate, fnonce, cur, password)
      BY <1>14 DEF LInv, LinkInv
    <2>. QED  BY <1>2, <1>14, <2>1 DEF InStep, S!Phases, F!Operational
  <1>15. served = cur /\ phase # "Closed" =>
            InStep(Tail(D), U \o Sends(ev), phase, fstate', fnonce', cur, password)
    BY <1>4, <1>14 DEF InStep, F!Operational
  <1>16. ASSUME served = cur, phase = "Ready"
         PROVE  /\ UpShape(U \o Sends(ev), phase, cur, password, awaiting_pong, tx_in_flight)
                /\ InTraffic(Tail(D), U \o Sends(ev), fstate', awaiting_pong, tx_in_flight, ftx_seq')
                /\ ~tx_in_flight
    <2>1. InTraffic(D, U, fstate, awaiting_pong, tx_in_flight, ftx_seq)
      BY <1>16 DEF LInv, LinkInv
    <2>2. UpShape(U, phase, cur, password, awaiting_pong, tx_in_flight)
      BY <1>16 DEF LInv, SessionInv
    <2>. HIDE DEF D, U
    <2>3. InTraffic(Tail(D), U, fstate', awaiting_pong, tx_in_flight, ftx_seq) /\ ~tx_in_flight
      BY <1>9, <2>1 DEF InTraffic
    <2>. QED  BY <1>4, <1>13, <2>2, <2>3
  <1>17. fstate' # "AUTHENTICATING"
    BY <1>4
  <1>. QED  BY <1>6, <1>7, <1>8, <1>11, <1>12, <1>13, <1>15, <1>16, <1>17, ReceivedKeeps

LEMMA ReceiveStep == ASSUME LInv, Receive PROVE LInv'
  <1>1. PICK ev \in FirmwareEvents :
           /\ F!onFrame(Head(conns[cur].down), ev)
           /\ Act(ev, Tail(conns[cur].down))
    BY DEF Receive
  <1>2. cur # 0 /\ conns[cur].down # <<>>
    BY DEF Receive
  <1>3. /\ Head(conns[cur].down) \in ServerFrames /\ Head(conns[cur].down) = Head(Coming)
        /\ Coming \in Seq(ServerFrames) /\ Coming # <<>>
        /\ fstate \in F!Handshaking \cup F!Operational /\ radioConfigValid(Desired)
        /\ Shape(Coming, fstate, fnonce, cur, ftx_seq, truth)
    BY <1>2, ComingHead
  <1>4. F!onHandshakeFrame(Head(Coming), ev) \/ F!onOperationalFrame(Head(Coming), ev)
    BY <1>1, <1>2, <1>3, ReceiveLegal, LegalFrameTaken
  <1>5. CASE fstate = "HANDSHAKE"
    BY <1>1, <1>2, <1>4, <1>5, ReceiveInHandshake
  <1>6. CASE fstate = "AUTHENTICATING"
    BY <1>1, <1>2, <1>4, <1>6, ReceiveInAuthentication
  <1>7. CASE fstate = "CONFIGURING"
    BY ZenonT(30), <1>1, <1>2, <1>4, <1>7, ReceiveInConfiguration
  <1>8. CASE fstate \in F!Operational
    <2>1. CASE Head(Coming) \in {RxFrame, PingFrame}
      BY SMTT(20), <1>1, <1>2, <1>4, <1>8, <2>1, ReceiveTraffic
    <2>2. CASE /\ fstate = "TX_PENDING" /\ truth \in K!Results
               /\ Head(Coming) = ResultFrame(ftx_seq, truth)
      BY <1>1, <1>2, <1>4, <2>2, ReceiveResult
    <2>. QED  BY SMTT(20), <1>3, <1>8, <2>1, <2>2, ShapeHead
  <1>. QED  BY <1>3, <1>5, <1>6, <1>7, <1>8 DEF F!Handshaking

(* The queues of a connection that an action replaces. *)
LEMMA UpReplaced ==
    ASSUME LInv, NEW c \in Conns, NEW n
    PROVE  [conns EXCEPT ![c].up = n] =
              [conns EXCEPT ![c] = [client |-> conns[c].client, server |-> conns[c].server,
                                    up |-> n, down |-> conns[c].down]]
  <1>. DEFINE r == conns[c]
              A == Seq(ClientFrames(password))
              B == Seq(ServerFrames)
  <1>1. r \in [client : BOOLEAN, server : BOOLEAN, up : A, down : B]
    BY DEF LInv, EndsInv
  <1>. HIDE DEF r, A, B
  <1>2. [r EXCEPT !.up = n] =
           [client |-> r.client, server |-> r.server, up |-> n, down |-> r.down]
    BY SMTT(20), <1>1
  <1>3. [conns EXCEPT ![c].up = n] = [conns EXCEPT ![c] = [conns[c] EXCEPT !.up = n]]
    OBVIOUS
  <1>. QED  BY <1>2, <1>3 DEF r

LEMMA DownReplaced ==
    ASSUME LInv, NEW c \in Conns, NEW n
    PROVE  [conns EXCEPT ![c].down = n] =
              [conns EXCEPT ![c] = [client |-> conns[c].client, server |-> conns[c].server,
                                    up |-> conns[c].up, down |-> n]]
  <1>. DEFINE r == conns[c]
              A == Seq(ClientFrames(password))
              B == Seq(ServerFrames)
  <1>1. r \in [client : BOOLEAN, server : BOOLEAN, up : A, down : B]
    BY DEF LInv, EndsInv
  <1>. HIDE DEF r, A, B
  <1>2. [r EXCEPT !.down = n] =
           [client |-> r.client, server |-> r.server, up |-> r.up, down |-> n]
    BY SMTT(20), <1>1
  <1>3. [conns EXCEPT ![c].down = n] = [conns EXCEPT ![c] = [conns[c] EXCEPT !.down = n]]
    OBVIOUS
  <1>. QED  BY <1>2, <1>3 DEF r

LEMMA SubmitTxStep == ASSUME LInv, SubmitTx PROVE LInv'
  <1>. DEFINE D == Coming
              U == conns[cur].up
              q == RequestFrame(next_seq)
              V == U \o <<q>>
              K0 == [client : BOOLEAN, server : BOOLEAN,
                     up : Seq(ClientFrames(password)), down : Seq(ServerFrames)]
  <1>1. /\ cur # 0 /\ F!submitTx(next_seq) /\ truth' = "none"
        /\ conns' = [conns EXCEPT ![cur].up =
              IF conns[cur].server THEN Append(@, q) ELSE @]
        /\ UNCHANGED <<password, cur, svars, server, kvars>>
    BY DEF SubmitTx, F!submitTx, RequestFrame
  <1>2. /\ fstate = "READY_RX" /\ fstate' = "TX_PENDING" /\ ftx_seq' = next_seq
        /\ next_seq' = F!NextSeq(next_seq)
        /\ UNCHANGED <<cfg, fnonce, last_tx_outcome, last_err>>
    BY <1>1 DEF F!submitTx
  <1>3. cur \in Conns /\ conns \in [Conns -> K0] /\ conns[cur] \in K0 /\ phase \in S!Phases
    BY <1>1 DEF LInv, FirmwareTypeOK, EndsInv, BridgeTypeOK
  <1>4. U \in Seq(ClientFrames(password)) /\ q \in ClientFrames(password)
    <2>1. next_seq \in 1 .. U16 - 1
      BY DEF LInv, FirmwareTypeOK
    <2>. QED  BY <1>3, <2>1 DEF ClientFrames
  <1>5. V \in Seq(ClientFrames(password)) /\ Append(U, q) = V
    <2>1. V \in Seq(ClientFrames(password))
      BY <1>4, AddedElements
    <2>2. Append(U, q) = V
      <3>. HIDE DEF U, q
      <3>. QED  BY SMTT(20), <1>4
    <2>. QED  BY <2>1, <2>2
  <1>6. /\ conns'[cur].client = conns[cur].client /\ conns'[cur].server = conns[cur].server
        /\ conns'[cur].down = conns[cur].down
        /\ conns[cur].server => conns'[cur].up = V
        /\ ~conns[cur].server => conns'[cur].up = U
        /\ \A c \in Conns : c # cur => conns'[c] = conns[c]
        /\ conns' \in [Conns -> K0]
    <2>. HIDE DEF q, V
    <2>1. conns' = [conns EXCEPT ![cur] =
                      [client |-> conns[cur].client, server |-> conns[cur].server,
                       up |-> IF conns[cur].server THEN V ELSE U, down |-> conns[cur].down]]
      <3>. DEFINE n == IF conns[cur].server THEN V ELSE U
      <3>1. conns' = [conns EXCEPT ![cur].up = n]
        BY <1>1, <1>5
      <3>. HIDE DEF n
      <3>2. [conns EXCEPT ![cur].up = n] =
               [conns EXCEPT ![cur] = [client |-> conns[cur].client, server |-> conns[cur].server,
                                       up |-> n, down |-> conns[cur].down]]
        BY <1>3, UpReplaced
      <3>. QED  BY <3>1, <3>2 DEF n
    <2>2. [client |-> conns[cur].client, server |-> conns[cur].server,
           up |-> IF conns[cur].server THEN V ELSE U, down |-> conns[cur].down] \in K0
      BY <1>3, <1>5
    <2>. QED  BY <1>3, <2>1, <2>2
  <1>. HIDE DEF K0, V, q
  <1>7. FirmwareTypeOK'
    <2>1. next_seq \in 1 .. U16 - 1 /\ next_seq' \in 1 .. U16 - 1
      BY SMTT(20), <1>2, LinkAssumption DEF LInv, FirmwareTypeOK, F!NextSeq
    <2>. QED  BY <1>1, <1>2, <2>1 DEF LInv, FirmwareTypeOK, F!Handshaking, F!Operational
  <1>8. BridgeTypeOK'
    BY <1>1, BridgeSame DEF LInv
  <1>9. ~Waiting(cur) /\ served' = served
    BY <1>1, <1>2, <1>3 DEF LInv, EndsInv, server
  <1>10. EndsInv'
    <2>1. \A c \in Conns : conns'[c].client <=> c = cur'
      BY <1>1, <1>6 DEF LInv, EndsInv
    <2>2. /\ \A c \in Conns : ~conns'[c].client => conns'[c].down = <<>>
          /\ \A c \in Conns : ~conns'[c].server => conns'[c].up = <<>>
          /\ served' # 0 => conns'[served'].server
      BY <1>6, <1>9 DEF LInv, EndsInv, BridgeTypeOK
    <2>3. ASSUME NEW c \in Conns, Waiting(c)'
          PROVE  /\ conns'[c].up \in {<<>>, <<HelloFrame>>} /\ conns'[c].down = <<>>
                 /\ c # cur'
      <3>1. c # cur
        BY <1>6, <1>9, <2>3 DEF Waiting
      <3>2. Waiting(c)
        BY <1>6, <1>9, <2>3, <3>1 DEF Waiting
      <3>. QED  BY <1>1, <1>6, <3>1, <3>2 DEF LInv, EndsInv
    <2>. QED  BY <1>1, <1>6, <2>1, <2>2, <2>3 DEF EndsInv, K0
  <1>11. Coming' = D
    BY SMTT(20), <1>1, <1>6 DEF Coming, svars, server, kvars
  <1>12. /\ D \in Seq(ServerFrames) /\ Shape(D, fstate, fnonce, cur, ftx_seq, truth)
         /\ Configured(D, fstate) /\ ~config_pending /\ effective = Desired
         /\ password = BridgePassword /\ Taken(D, fstate)
    BY <1>1, <1>2 DEF LInv, LinkInv, Configured, Taken, F!Operational
  <1>13. /\ \A i \in 1 .. Len(D) : D[i] \in {RxFrame, PingFrame}
         /\ ~Has(D, "TX_RESULT") /\ Once(D, "TX_RESULT")
    <2>. HIDE DEF D
    <2>1. \A i \in 1 .. Len(D) : D[i] \in {RxFrame, PingFrame}
      BY <1>2, <1>12 DEF Shape, F!Operational
    <2>. QED  BY <1>2, <1>12, <2>1, FrameFields DEF Has, Shape, F!Operational
  <1>14. Shape(D, fstate', fnonce', cur, ftx_seq', truth')
    <2>. HIDE DEF D
    <2>. QED  BY <1>2, <1>13 DEF Shape, F!Operational
  <1>15. ASSUME served = cur
         PROVE  /\ conns'[cur].up = V
                /\ phase \in {"Closed", "Ready"}
    <2>1. conns[cur].server
      BY <1>15, <1>1 DEF LInv, EndsInv
    <2>2. phase # "Closed" => InStep(D, U, phase, fstate, fnonce, cur, password)
      BY <1>1, <1>15 DEF LInv, LinkInv
    <2>3. phase # "Closed" => phase = "Ready"
      BY <1>2, <1>3, <2>2 DEF InStep, S!Phases, F!Operational
    <2>. QED  BY <1>6, <2>1, <2>3
  <1>16. ASSUME served = cur, phase = "Ready"
         PROVE  /\ UpShape(V, phase, cur, password, awaiting_pong, tx_in_flight)
                /\ InTraffic(D, V, fstate', awaiting_pong, tx_in_flight, ftx_seq')
                /\ ~tx_in_flight
    <2>1. InTraffic(D, U, fstate, awaiting_pong, tx_in_flight, ftx_seq)
      BY <1>1, <1>16 DEF LInv, LinkInv
    <2>2. UpShape(U, "Ready", cur, password, awaiting_pong, tx_in_flight)
      BY <1>1, <1>16 DEF LInv, SessionInv
    <2>3. ~tx_in_flight /\ ~Has(U, "TX_REQUEST")
      BY <1>2, <2>1 DEF InTraffic
    <2>4. \A type : /\ Has(V, type) <=> Has(U, type) \/ q.type = type
                    /\ Once(U, type) /\ (~Has(U, type) \/ q.type # type) => Once(V, type)
      BY <1>4, HasAdded DEF V
    <2>5. /\ Len(U) \in Nat /\ Len(V) = Len(U) + 1
          /\ \A i \in 1 .. Len(U) : V[i] = U[i]
          /\ V[Len(U) + 1] = q
      BY SMTT(20), <1>4, AddedElements DEF V
    <2>6. q.type = "TX_REQUEST" /\ q.seq = next_seq
      BY FrameFields DEF q
    <2>7. next_seq \in 1 .. U16 - 1 /\ q = RequestFrame(next_seq)
      BY DEF LInv, FirmwareTypeOK, q
    <2>. HIDE DEF U, D
    <2>8. \A i \in 1 .. Len(V) : V[i] = q \/ (i \in 1 .. Len(U) /\ V[i] = U[i])
      <3>1. \A i \in 1 .. Len(V) : i \in 1 .. Len(U) \/ i = Len(U) + 1
        BY SMTT(20), <2>5
      <3>. QED  BY <2>5, <3>1
    <2>9. UpShape(V, "Ready", cur, password, awaiting_pong, tx_in_flight)
      <3>1. /\ \A i \in 1 .. Len(U) :
                  U[i] = PongFrame \/ \E seq \in 1 .. U16 - 1 : U[i] = RequestFrame(seq)
            /\ Once(U, "PONG") /\ Once(U, "TX_REQUEST")
            /\ Has(U, "PONG") => awaiting_pong
        BY <2>2 DEF UpShape
      <3>2. \A i \in 1 .. Len(V) :
               V[i] = PongFrame \/ \E seq \in 1 .. U16 - 1 : V[i] = RequestFrame(seq)
        BY <2>7, <2>8, <3>1
      <3>3. Once(V, "PONG") /\ Once(V, "TX_REQUEST") /\ (Has(V, "PONG") => awaiting_pong)
        BY <2>3, <2>4, <2>6, <3>1
      <3>. QED  BY <2>3, <3>2, <3>3 DEF UpShape
    <2>10. InTraffic(D, V, "TX_PENDING", awaiting_pong, tx_in_flight, next_seq)
      <3>1. \A i \in 1 .. Len(V) : V[i].type = "TX_REQUEST" => V[i].seq = next_seq
        BY <2>3, <2>6, <2>8 DEF Has
      <3>2. Has(V, "PONG") <=> Has(U, "PONG")
        BY <2>4, <2>6
      <3>. QED  BY <1>13, <2>1, <3>1, <3>2 DEF InTraffic
    <2>. QED  BY <1>2, <1>16, <2>3, <2>9, <2>10
  <1>17. SessionInv'
    <2>1. ASSUME served = cur
          PROVE  UpShape(conns'[cur].up, phase, cur, password, awaiting_pong, tx_in_flight)
      <3>1. CASE phase = "Closed"
        BY <3>1 DEF UpShape
      <3>2. CASE phase = "Ready"
        BY <1>15, <1>16, <2>1, <3>2
      <3>. QED  BY <1>15, <2>1, <3>1, <3>2
    <2>2. served \notin {0, cur} =>
             UpShape(conns'[served].up, phase, served, password, awaiting_pong, tx_in_flight)
      BY <1>6 DEF LInv, SessionInv, BridgeTypeOK
    <2>. QED  BY <1>1, <2>1, <2>2, SessionSame
  <1>18. LinkInv'
    <2>1. UNCHANGED <<phase, awaiting_pong, tx_in_flight, tx_seq, served, effective,
                      config_pending, pending_tx_result, cur, password>>
      BY <1>1 DEF svars, server, kvars
    <2>2. served \notin {0, cur} =>
              /\ phase \in {"WaitHello", "WaitAuth", "Closed"}
              /\ phase = "WaitAuth" => conns'[served].up = <<>>
      BY <1>1, <1>6, <1>12 DEF LInv, LinkInv, BridgeTypeOK
    <2>3. served = cur /\ phase # "Closed" =>
             InStep(D, conns'[cur].up, phase, fstate', fnonce', cur, password)
      BY <1>2, <1>15 DEF InStep, F!Operational
    <2>4. served = cur /\ phase = "Ready" =>
             /\ InTraffic(D, conns'[cur].up, fstate', awaiting_pong, tx_in_flight, ftx_seq')
             /\ ~tx_in_flight
      BY <1>15, <1>16
    <2>. HIDE DEF D
    <2>5. fstate' # "AUTHENTICATING"
      BY <1>2
    <2>. QED  BY <1>11, <1>12, <1>14, <2>1, <2>2, <2>3, <2>4, <2>5 DEF LinkInv
  <1>19. OutcomeTrue'
    BY <1>2 DEF OutcomeTrue
  <1>. QED  BY <1>7, <1>8, <1>10, <1>17, <1>18, <1>19 DEF LInv
===============================================================================
