--------------------------- MODULE ConfChannelProofs ---------------------------
(***************************************************************************)
(* Proofs about ConfChannel, for any widths of the lines within the code's *)
(* limits, any size of read, and any number of configurations and          *)
(* unsolicited lines.                                                      *)
(***************************************************************************)
EXTENDS ConfChannel, XrWire, SequenceTheorems, WellFoundedInduction, TLAPS

(* A radio configuration arrives unchanged, for every one of the values of *)
(* RadioConfig: over the XR wire in either direction, and in the SET       *)
(* command that the daemon is sent.                                        *)

(* The bytes of a 16-bit number give it back. *)
LEMMA Bytes16 ==
    ASSUME NEW v \in UInt16
    PROVE  Byte(v, 1) * 256 + Byte(v, 0) = v
  <1>1. 256^1 = 256 /\ 256^0 = 1 /\ 2^16 = 65536
    BY SMTT(20)
  <1>2. v \in Nat /\ v < 65536
    BY <1>1, SMT DEF UInt16
  <1>3. (v \div 256) % 256 = v \div 256
    BY <1>2, SMT
  <1>4. Byte(v, 0) = v % 256 /\ Byte(v, 1) = v \div 256
    BY <1>1, <1>2, <1>3, SMT DEF Byte
  <1>5. v = 256 * (v \div 256) + (v % 256) /\ v \div 256 \in Nat
    BY <1>2, SMT
  <1>. QED  BY <1>4, <1>5, SMT

(* A division by a power of 256 is repeated division by 256. *)
LEMMA DivideTwice ==
    ASSUME NEW v \in Nat
    PROVE  /\ v \div 65536 = (v \div 256) \div 256
           /\ v \div 16777216 = (v \div 65536) \div 256
           /\ v < 4294967296 => v \div 16777216 < 256
  <1>1. v \div 65536 = (v \div 256) \div 256
    BY SMTT(20)
  <1>2. v \div 16777216 = (v \div 65536) \div 256
    BY SMTT(20)
  <1>3. v < 4294967296 => v \div 16777216 < 256
    BY SMTT(20)
  <1>. QED  BY <1>1, <1>2, <1>3, SMT

(* The bytes of a 32-bit number give it back. *)
LEMMA Bytes32 ==
    ASSUME NEW v \in UInt32
    PROVE  Byte(v, 3) * 256^3 + Byte(v, 2) * 256^2 + Byte(v, 1) * 256 + Byte(v, 0) = v
  <1>. DEFINE q1 == v \div 256
              q2 == q1 \div 256
              q3 == q2 \div 256
  <1>1. 256^3 = 16777216 /\ 256^2 = 65536 /\ 256^1 = 256 /\ 256^0 = 1 /\ 2^32 = 4294967296
    BY SMTT(20)
  <1>2. v \in Nat /\ v < 4294967296
    BY <1>1, SMT DEF UInt32
  <1>3. /\ Byte(v, 3) = q3 % 256 /\ Byte(v, 2) = q2 % 256
        /\ Byte(v, 1) = q1 % 256 /\ Byte(v, 0) = v % 256
    BY <1>1, <1>2, DivideTwice, SMT DEF Byte
  <1>4. q1 \in Nat /\ q2 \in Nat /\ q3 \in Nat
    BY <1>2, SMT
  <1>5. v = 256 * q1 + (v % 256) /\ v % 256 \in Nat
    BY <1>2, SMT
  <1>6. q1 = 256 * q2 + (q1 % 256) /\ q1 % 256 \in Nat
    BY <1>4, SMT
  <1>7. q2 = 256 * q3 + (q2 % 256) /\ q2 % 256 \in Nat
    BY <1>4, SMT
  <1>8. q3 % 256 = q3
    BY <1>2, DivideTwice, SMT
  <1>. HIDE DEF q1, q2, q3
  <1>9. q3 * 16777216 + (q2 % 256) * 65536 + (q1 % 256) * 256 + (v % 256) = v
    <2>. DEFINE b0 == v % 256
                b1 == q1 % 256
                b2 == q2 % 256
    <2>1. v = 256 * q1 + b0 /\ q1 = 256 * q2 + b1 /\ q2 = 256 * q3 + b2
      BY <1>5, <1>6, <1>7
    <2>2. b0 \in Nat /\ b1 \in Nat /\ b2 \in Nat /\ v \in Nat
      BY <1>2, <1>5, <1>6, <1>7
    <2>. HIDE DEF b0, b1, b2
    <2>3. q3 * 16777216 + b2 * 65536 + b1 * 256 + b0 = v
      BY <2>1, <2>2, <1>4, SMT
    <2>. QED  BY <2>3 DEF b0, b1, b2
  <1>. QED  BY <1>1, <1>3, <1>8, <1>9, SMT

(* The echo of CONFIG_RESULT, and the request of CONFIGURE, carry exactly   *)
(* the configuration that was packed, the sign of the TX power included:    *)
(* unpackConfig() undoes packConfig().                                      *)
THEOREM WireConfigExact ==
    \A cfg \in RadioConfig : unpackConfig(packConfig(cfg)) = cfg
  <1>. SUFFICES ASSUME NEW cfg \in RadioConfig
                PROVE  unpackConfig(packConfig(cfg)) = cfg
    OBVIOUS
  <1>. DEFINE p == packConfig(cfg)
  <1>1. get32(p, 1) = cfg.freq_hz
    <2>1. /\ p[1] = Byte(cfg.freq_hz, 3) /\ p[1 + 1] = Byte(cfg.freq_hz, 2)
          /\ p[1 + 2] = Byte(cfg.freq_hz, 1) /\ p[1 + 3] = Byte(cfg.freq_hz, 0)
      BY SMTT(20) DEF packConfig
    <2>2. cfg.freq_hz \in UInt32
      BY SMTT(20) DEF RadioConfig
    <2>. HIDE DEF p
    <2>. QED  BY <2>1, <2>2, Bytes32, SMT DEF get32
  <1>2. get32(p, 5) = cfg.bw_hz
    <2>1. /\ p[5] = Byte(cfg.bw_hz, 3) /\ p[5 + 1] = Byte(cfg.bw_hz, 2)
          /\ p[5 + 2] = Byte(cfg.bw_hz, 1) /\ p[5 + 3] = Byte(cfg.bw_hz, 0)
      BY SMTT(20) DEF packConfig
    <2>2. cfg.bw_hz \in UInt32
      BY SMTT(20) DEF RadioConfig
    <2>. HIDE DEF p
    <2>. QED  BY <2>1, <2>2, Bytes32, SMT DEF get32
  <1>3. get16(p, 11) = cfg.sync_word /\ get16(p, 13) = cfg.preamble
    <2>1. /\ p[11] = Byte(cfg.sync_word, 1) /\ p[11 + 1] = Byte(cfg.sync_word, 0)
          /\ p[13] = Byte(cfg.preamble, 1) /\ p[13 + 1] = Byte(cfg.preamble, 0)
      BY SMTT(20) DEF packConfig
    <2>2. cfg.sync_word \in UInt16 /\ cfg.preamble \in UInt16
      BY SMTT(20) DEF RadioConfig
    <2>. HIDE DEF p
    <2>. QED  BY <2>1, <2>2, Bytes16, SMT DEF get16
  <1>4. (IF p[15] > 127 THEN p[15] - 256 ELSE p[15]) = cfg.tx_power_dbm
    <2>1. p[15] = cfg.tx_power_dbm % 256
      BY SMTT(20) DEF packConfig
    <2>2. cfg.tx_power_dbm \in Int8
      BY SMTT(20) DEF RadioConfig
    <2>. HIDE DEF p
    <2>. QED  BY <2>1, <2>2, SMT DEF Int8
  <1>5. p[9] = cfg.sf /\ p[10] = cfg.cr_denom /\ p[16] = cfg.crc /\ p[17] = cfg.ldro
    BY SMTT(20) DEF packConfig
  <1>. HIDE DEF p
  <1>6. unpackConfig(p) = cfg
    BY <1>1, <1>2, <1>3, <1>4, <1>5, SMT DEF unpackConfig, RadioConfig
  <1>. QED  BY <1>6 DEF p

(* Rounding moves a quotient by at most a half. *)
LEMMA NearestBound ==
    ASSUME NEW a \in Nat, NEW b \in {1000000, 8796093022208, 17592186044416, 35184372088832}
    PROVE  /\ Nearest(a, b) \in Nat
           /\ 2 * (Nearest(a, b) * b - a) <= b /\ 2 * (a - Nearest(a, b) * b) <= b
  <1>1. CASE b = 1000000
    BY <1>1, SMTT(30) DEF Nearest
  <1>2. CASE b = 8796093022208
    BY <1>2, SMTT(30) DEF Nearest
  <1>3. CASE b = 17592186044416
    BY <1>3, SMTT(30) DEF Nearest
  <1>4. CASE b = 35184372088832
    BY <1>4, SMTT(30) DEF Nearest
  <1>. QED  BY <1>1, <1>2, <1>3, <1>4, SMT

(* A carrier of any band is printed to the Hz: the double is off by at most *)
(* half of 1 / Ulps, which is less than half of the last digit.             *)
LEMMA PrintedExactly ==
    ASSUME NEW f \in Nat
    PROVE  Printed(f) = f
  <1>. DEFINE u == Ulps(f)
  <1>1. u \in {8796093022208, 17592186044416, 35184372088832}
    <2>1. 2^20 = 1048576 /\ 2^23 = 8388608 /\ 2^24 = 16777216 /\ 2^25 = 33554432
      BY SMTT(20)
    <2>. QED  BY <2>1, SMT DEF Ulps
  <1>. DEFINE m == Nearest(f * u, 1000000)
  <1>2. Printed(f) = Nearest(m * 1000000, u)
    BY SMT DEF Printed, freq_mhz
  <1>. HIDE DEF u
  <1>3. f * u \in Nat
    BY <1>1, SMT
  <1>4. /\ m \in Nat
        /\ 2 * (m * 1000000 - f * u) <= 1000000 /\ 2 * (f * u - m * 1000000) <= 1000000
    BY <1>3, NearestBound, SMT
  <1>. HIDE DEF m
  <1>. DEFINE r == Nearest(m * 1000000, u)
  <1>5. /\ r \in Nat
        /\ 2 * (r * u - m * 1000000) <= u /\ 2 * (m * 1000000 - r * u) <= u
    <2>1. m * 1000000 \in Nat
      BY <1>4, SMT
    <2>. DEFINE k == m * 1000000
    <2>. HIDE DEF k
    <2>2. k \in Nat
      BY <2>1, SMT DEF k
    <2>3. /\ Nearest(k, u) \in Nat
          /\ 2 * (Nearest(k, u) * u - k) <= u /\ 2 * (k - Nearest(k, u) * u) <= u
      <3>1. CASE u = 8796093022208
        BY <2>2, <3>1, NearestBound, SMTT(30)
      <3>2. CASE u = 17592186044416
        BY <2>2, <3>2, NearestBound, SMTT(30)
      <3>3. CASE u = 35184372088832
        BY <2>2, <3>3, NearestBound, SMTT(30)
      <3>. QED  BY <1>1, <3>1, <3>2, <3>3, SMT
    <2>. QED  BY <2>3, SMT DEF k, r
  <1>. HIDE DEF r
  <1>6. r = f
    <2>1. CASE u = 8796093022208
      BY <1>4, <1>5, <2>1, SMTT(30)
    <2>2. CASE u = 17592186044416
      BY <1>4, <1>5, <2>2, SMTT(30)
    <2>3. CASE u = 35184372088832
      BY <1>4, <1>5, <2>3, SMTT(30)
    <2>. QED  BY <1>1, <2>1, <2>2, <2>3, SMT
  <1>. QED  BY <1>2, <1>6, SMT DEF r

(* The six digits behind the point are the Hz below a MHz. *)
LEMMA FrequencySpelled ==
    ASSUME NEW f \in Nat
    PROVE  Value(Decimal(f \div 1000000, f % 1000000, 6), 6) = f
  <1>1. f \div 1000000 \in Int /\ f % 1000000 \in Int
    BY SMTT(20)
  <1>2. f = 1000000 * (f \div 1000000) + (f % 1000000)
    BY SMTT(20)
  <1>3. 10^6 = 1000000 /\ 10^(6 - 6) = 1
    BY SMTT(20)
  <1>. QED  BY <1>1, <1>2, <1>3, SMT DEF Value, Decimal

(* Every token of kBwTable denotes its bandwidth in Hz. *)
LEMMA BandwidthSpelled ==
    ASSUME NEW b \in Bandwidths
    PROVE  Value(bandwidth_token(b), 3) = b
  <1>1. 10^3 = 1000 /\ 10^(3 - 1) = 100 /\ 10^(3 - 2) = 10 /\ 10^(3 - 0) = 1000
    BY SMTT(20)
  <1>. QED  BY <1>1, SMT DEF Value, Decimal, bandwidth_token, Bandwidths

(* Whatever configuration of the wire's range the policy accepts, the text  *)
(* of its SET command spells out exactly that configuration: the double and *)
(* its %.6f, the table of bandwidths and the masked sync word included.     *)
THEOREM SetCommandExact == \A cfg \in RadioConfig : SaysExactly(cfg)
  <1>. SUFFICES ASSUME NEW cfg \in RadioConfig, validate_config(cfg)
                PROVE  Spelled(build_set_command(cfg)) = cfg
    BY DEF SaysExactly
  <1>1. cfg.bw_hz \in Bandwidths /\ cfg.sync_word <= 255
    BY SMTT(20) DEF validate_config
  <1>2. cfg.freq_hz \in Nat /\ cfg.sync_word \in Nat
    <2>1. cfg.freq_hz \in UInt32 /\ cfg.sync_word \in UInt16
      BY SMTT(20) DEF RadioConfig
    <2>. QED  BY <2>1, SMTT(20) DEF UInt32, UInt16
  <1>3. cfg.sync_word % 256 = cfg.sync_word
    BY <1>1, <1>2, SMT
  <1>4. /\ Value(build_set_command(cfg).FREQ, 6) = cfg.freq_hz
        /\ Value(build_set_command(cfg).BW, 3) = cfg.bw_hz
    <2>1. build_set_command(cfg).FREQ =
              Decimal(cfg.freq_hz \div 1000000, cfg.freq_hz % 1000000, 6)
      BY <1>2, PrintedExactly, SMT DEF build_set_command
    <2>. QED  BY <1>1, <1>2, <2>1, FrequencySpelled, BandwidthSpelled, SMT DEF build_set_command
  <1>. QED  BY <1>3, <1>4, SMT DEF Spelled, build_set_command, RadioConfig
-------------------------------------------------------------------------------
(* The CONF channel. *)

LineCell == [of : Kinds, i : Nat, last : BOOLEAN]
CommandNames == {"TXMODE", "TXQUEUE", "TXRESULT", "RADIO", "STATUS"}
CommandCell == [of : CommandNames, i : Nat, last : BOOLEAN]

(* A line of this kind stands in s behind the first b cells. *)
LineAt(s, b, kind) ==
    /\ b + Width[kind] <= Len(s)
    /\ \A j \in 1 .. Width[kind] : s[b + j] = Cell(kind, j, j = Width[kind])

(* s is a sequence of whole lines: every cell is part of one. *)
Whole(s) ==
    \A p \in 1 .. Len(s) : s[p].i \in 1 .. p /\ s[p].i <= Width[s[p].of]
                           /\ LineAt(s, p - s[p].i, s[p].of)

(* The cells of commands the daemon has taken on this connection. *)
Done == 10 - Len(toDaemon \o conf_out)

(* The SETs applied are those of the commands taken. *)
Applied ==
    /\ Done >= 2 => "TXMODE" \in applied
    /\ Done >= 4 => "TXQUEUE" \in applied
    /\ Done >= 6 => "TXRESULT" \in applied
    /\ Done >= 8 => "RADIO" \in applied

InStream(kind) == \E p \in 1 .. Len(Stream) : Stream[p].of = kind

(* A rejection is on its way, ahead of any answer to GET STATUS. *)
ErrAhead ==
    \E q \in 1 .. Len(Stream) :
        /\ Stream[q].of = "ERR"
        /\ \A p \in 1 .. Len(Stream) : Stream[p].of = "READY" => q < p

TypeOK ==
    /\ state \in {"Disconnected", "Configuring", "Ready"}
    /\ pc \in {"idle", "recv", "lines"} /\ open \in BOOLEAN
    /\ conf_line \in Seq(LineCell) /\ toBridge \in Seq(LineCell)
    /\ toDaemon \in Seq(CommandCell) /\ conf_out \in Seq(CommandCell)

(* A link that is down has nothing on it. *)
DownInv ==
    state = "Disconnected" =>
        /\ conf_line = <<>> /\ toBridge = <<>> /\ toDaemon = <<>> /\ conf_out = <<>>
        /\ pc = "idle" /\ ~open

(* The commands: the daemon takes them in order, two cells each. *)
CommandInv ==
    state # "Disconnected" =>
        /\ Done \in {0, 2, 4, 6, 8, 10}
        /\ toDaemon \o conf_out = SubSeq(CommandCells, Done + 1, 10)

(* Once the SET of the radio is applied, only one of an earlier connection  *)
(* can change the radio.                                                    *)
SettingsInv ==
    /\ applied \subseteq {"TXMODE", "TXQUEUE", "TXRESULT", "RADIO"}
    /\ "RADIO" \in applied => radio = requested \/ overtaken

(* The answers: READY is the last one, and what was not applied was         *)
(* rejected before it.                                                      *)
AnswerInv ==
    /\ state # "Disconnected" /\ InStream("READY") => Done = 10
    /\ state = "Configuring" => Applied \/ ErrAhead
    /\ state = "Ready" => Done = 10 /\ Applied

(* Every line that ends the connection has a cause in the environment: one  *)
(* that always does, one that does once the backend is Ready, and one       *)
(* behind the READY that makes it so.                                       *)
CauseInv ==
    /\ state # "Disconnected" /\ ~open => causes # {}
    /\ \A p \in 1 .. Len(Stream) :
          /\ Stream[p].of \notin Broadcasts \cup {"OK", "READY"} => causes # {}
          /\ state = "Ready" /\ Stream[p].of \in {"OK", "READY"} => causes # {}
          /\ \A q \in p + 1 .. Len(Stream) :
                Stream[p].of = "READY" /\ Stream[p].last /\ Stream[q].of \in {"OK", "READY"}
                    => causes # {}

(* How much conf_line_ holds.  While configuring, pump_conf() never returns *)
(* with a complete line in it, so what is behind the first line of a read   *)
(* came with that read.                                                     *)
LengthInv ==
    /\ pc \in {"idle", "recv"} => Len(conf_line) <= ReadChunk \/ causes # {}
    /\ state = "Configuring" /\ pc \in {"idle", "recv"} => LineLen(conf_line) = 0
    /\ state = "Configuring" /\ pc = "lines" /\ LineLen(conf_line) > 0 =>
          Len(conf_line) - LineLen(conf_line) <= ReadChunk

IInv ==
    /\ TypeOK /\ DownInv /\ Whole(Stream)
    /\ CommandInv /\ SettingsInv /\ AnswerInv /\ CauseInv /\ LengthInv
-------------------------------------------------------------------------------
(* Lemmas about sequences of cells. *)

(* Most leaves rewrite equalities and split sets: Zenon takes them, and SMT *)
(* is cited where a leaf counts, or reasons about sequences.                *)
USE Zenon

(* A set of natural numbers that is not empty has a least element. *)
LEMMA Least ==
    ASSUME NEW T, T \subseteq Nat, T # {}
    PROVE  \E n \in T : \A m \in T : n <= m
  <1>1. PICK x \in T : \A y \in T : ~(<<y, x>> \in OpToRel(<, Nat))
    BY WFMin, NatLessThanWellFounded
  <1>2. \A y \in T : ~(y < x)
    BY <1>1 DEF OpToRel
  <1>. QED BY SMTT(20), <1>2

(* A sequence is cut in two. *)
LEMMA FrontBehind ==
    ASSUME NEW S, NEW s \in Seq(S), NEW n \in 0 .. Len(s)
    PROVE  /\ Front(s, n) \in Seq(S) /\ Len(Front(s, n)) = n
           /\ \A i \in 1 .. n : Front(s, n)[i] = s[i]
           /\ Behind(s, n) \in Seq(S) /\ Len(Behind(s, n)) = Len(s) - n
           /\ \A i \in 1 .. Len(s) - n : Behind(s, n)[i] = s[n + i]
           /\ Front(s, n) \o Behind(s, n) = s
  <1>1. Len(s) \in Nat /\ n \in Nat /\ n <= Len(s) /\ \A i \in 1 .. Len(s) : s[i] \in S
    BY SMTT(20), LenProperties, ElementOfSeq
  <1>2. /\ Front(s, n) \in Seq(S) /\ Len(Front(s, n)) = n
        /\ \A i \in 1 .. n : Front(s, n)[i] = s[i]
    <2>1. 1 \in Int /\ n \in Int /\ \A i \in 1 .. n : s[i] \in S
      BY SMTT(20), <1>1
    <2>2. /\ SubSeq(s, 1, n) \in Seq(S)
          /\ Len(SubSeq(s, 1, n)) = IF 1 <= n THEN n - 1 + 1 ELSE 0
          /\ \A i \in 1 .. n - 1 + 1 : SubSeq(s, 1, n)[i] = s[1 + i - 1]
      BY SMTT(20), <2>1, SubSeqProperties
    <2>3. n - 1 + 1 = n /\ \A i \in 1 .. n : 1 + i - 1 = i
      BY SMTT(20), <1>1
    <2>. QED BY SMTT(20), <1>1, <2>2, <2>3 DEF Front
  <1>3. /\ Behind(s, n) \in Seq(S) /\ Len(Behind(s, n)) = Len(s) - n
        /\ \A i \in 1 .. Len(s) - n : Behind(s, n)[i] = s[n + i]
    <2>1. n + 1 \in Int /\ Len(s) \in Int /\ \A i \in n + 1 .. Len(s) : s[i] \in S
      BY SMTT(20), <1>1
    <2>2. /\ SubSeq(s, n + 1, Len(s)) \in Seq(S)
          /\ Len(SubSeq(s, n + 1, Len(s))) =
                IF n + 1 <= Len(s) THEN Len(s) - (n + 1) + 1 ELSE 0
          /\ \A i \in 1 .. Len(s) - (n + 1) + 1 :
                SubSeq(s, n + 1, Len(s))[i] = s[n + 1 + i - 1]
      BY SMTT(20), <2>1, SubSeqProperties
    <2>3. /\ Len(s) - (n + 1) + 1 = Len(s) - n
          /\ \A i \in 1 .. Len(s) - n : n + 1 + i - 1 = n + i
          /\ (IF n + 1 <= Len(s) THEN Len(s) - (n + 1) + 1 ELSE 0) = Len(s) - n
      BY SMTT(20), <1>1
    <2>. DEFINE t == SubSeq(s, n + 1, Len(s))
    <2>4. t \in Seq(S) /\ Len(t) = Len(s) - n
      BY <2>2, <2>3
    <2>5. ASSUME NEW i \in 1 .. Len(s) - n PROVE t[i] = s[n + i]
      <3>1. t[i] = s[n + 1 + i - 1] /\ n + 1 + i - 1 = n + i
        BY <2>2, <2>3
      <3>. QED BY <3>1
    <2>. QED BY <2>4, <2>5 DEF Behind
  <1>4. Front(s, n) \o Behind(s, n) = s
    <2>1. SubSeq(s, 1, n) \o SubSeq(s, n + 1, Len(s)) = SubSeq(s, 1, Len(s))
      <3>1. 1 \in 1 .. Len(s) + 1 /\ n \in 1 - 1 .. Len(s) /\ Len(s) \in n .. Len(s)
        BY SMTT(20), <1>1
      <3>. QED BY <3>1, ConcatAdjacentSubSeq
    <2>. QED BY <2>1, SubSeqFull DEF Front, Behind
  <1>. QED BY <1>2, <1>3, <1>4

LEMMA CellFields ==
    ASSUME NEW c, NEW kind, NEW i, NEW w, c = Cell(kind, i, i = w)
    PROVE  c.of = kind /\ c.i = i /\ (c.last <=> i = w)
  <1>1. c.of = kind /\ c.i = i
    BY DEF Cell
  <1>2. c.last <=> i = w
    BY DEF Cell
  <1>. QED BY <1>1, <1>2

LEMMA CellOf ==
    ASSUME NEW s \in Seq(LineCell), NEW p \in 1 .. Len(s)
    PROVE  /\ s[p].of \in Kinds /\ s[p].i \in Nat /\ s[p].last \in BOOLEAN
           /\ Width[s[p].of] \in Nat \ {0}
  <1>1. s[p] \in LineCell
    BY ElementOfSeq
  <1>2. s[p].of \in Kinds /\ s[p].i \in Nat /\ s[p].last \in BOOLEAN
    BY <1>1 DEF LineCell
  <1>. QED BY <1>2, WidthAssumption

LEMMA CellsProperties ==
    ASSUME NEW kind \in Kinds
    PROVE  /\ Width[kind] \in Nat \ {0}
           /\ Cells(kind) \in Seq(LineCell) /\ Len(Cells(kind)) = Width[kind]
           /\ \A i \in 1 .. Width[kind] : Cells(kind)[i] = Cell(kind, i, i = Width[kind])
           /\ Cells(kind)[1].of = kind
  <1>1. Width[kind] \in Nat \ {0}
    BY WidthAssumption
  <1>2. \A i \in 1 .. Width[kind] : Cell(kind, i, i = Width[kind]) \in LineCell
    BY SMTT(20), <1>1 DEF Cell, LineCell
  <1>3. Cells(kind) \in [1 .. Width[kind] -> LineCell]
    BY <1>2 DEF Cells
  <1>4. Cells(kind) \in Seq(LineCell) /\ Len(Cells(kind)) = Width[kind]
    BY SMTT(20), <1>1, <1>3
  <1>5. \A i \in 1 .. Width[kind] : Cells(kind)[i] = Cell(kind, i, i = Width[kind])
    BY DEF Cells
  <1>6. Cells(kind)[1].of = kind
    <2>1. 1 \in 1 .. Width[kind]
      BY SMTT(20), <1>1
    <2>2. Cells(kind)[1] = Cell(kind, 1, 1 = Width[kind])
      BY <1>5, <2>1
    <2>. QED BY SMTT(20), <2>2 DEF Cell
  <1>. QED BY <1>1, <1>4, <1>5, <1>6

(* pump_conf() takes a line for what it is. *)
LEMMA KindOfCells == ASSUME NEW kind \in Kinds PROVE KindOf(Cells(kind)) = kind
  <1>1. \A other \in Kinds : Cells(kind) = Cells(other) => other = kind
    BY SMTT(20), CellsProperties
  <1>2. (CHOOSE k \in Kinds : Cells(kind) = Cells(k)) = kind
    BY <1>1
  <1>. QED BY <1>2 DEF KindOf

(* LineLen is the place of the first newline. *)
LEMMA LineLenProperties ==
    ASSUME NEW S, NEW s \in Seq(S)
    PROVE  /\ LineLen(s) \in 0 .. Len(s)
           /\ LineLen(s) = 0 => \A i \in 1 .. Len(s) : ~s[i].last
           /\ LineLen(s) > 0 => s[LineLen(s)].last
           /\ \A i \in 1 .. Len(s) : s[i].last => LineLen(s) \in 1 .. i
  <1>. DEFINE ends == {i \in 1 .. Len(s) : s[i].last}
              first == CHOOSE i \in ends : \A j \in ends : i <= j
  <1>1. Len(s) \in Nat
    BY LenProperties
  <1>2. LineLen(s) = IF ends = {} THEN 0 ELSE first
    BY DEF LineLen
  <1>3. CASE ends = {}
    BY SMTT(20), <1>1, <1>2, <1>3
  <1>4. CASE ends # {}
    <2>1. ends \subseteq Nat
      BY SMTT(20), <1>1
    <2>2. \E i \in ends : \A j \in ends : i <= j
      <3>. HIDE DEF ends
      <3>. QED BY <1>4, <2>1, Least
    <2>3. first \in ends /\ \A j \in ends : first <= j
      <3>. HIDE DEF ends
      <3>. QED BY <2>2
    <2>. HIDE DEF first
    <2>4. LineLen(s) = first
      BY <1>2, <1>4
    <2>. QED BY SMTT(20), <1>1, <2>3, <2>4
  <1>. QED BY <1>3, <1>4
-------------------------------------------------------------------------------
(* Lemmas about whole lines. *)

(* A line added at the end leaves the lines whole. *)
LEMMA WholeAppend ==
    ASSUME NEW s \in Seq(LineCell), Whole(s), NEW kind \in Kinds
    PROVE  Whole(s \o Cells(kind))
  <1>. DEFINE w == Width[kind]
              t == s \o Cells(kind)
  <1>1. /\ w \in Nat \ {0} /\ Cells(kind) \in Seq(LineCell) /\ Len(Cells(kind)) = w
        /\ \A i \in 1 .. w : Cells(kind)[i] = Cell(kind, i, i = w)
    BY CellsProperties
  <1>2. Len(s) \in Nat
    BY LenProperties
  <1>3. /\ Len(t) = Len(s) + w
        /\ \A i \in 1 .. Len(s) : t[i] = s[i]
        /\ \A j \in 1 .. w : t[Len(s) + j] = Cell(kind, j, j = w)
    <2>1. /\ Len(t) = Len(s) + Len(Cells(kind))
          /\ \A i \in 1 .. Len(s) + Len(Cells(kind)) : t[i] =
                IF i <= Len(s) THEN s[i] ELSE Cells(kind)[i - Len(s)]
      <3>1. Cells(kind) \in Seq(LineCell)
        BY <1>1
      <3>. QED BY <3>1, ConcatProperties
    <2>2. ASSUME NEW j \in 1 .. w PROVE t[Len(s) + j] = Cell(kind, j, j = w)
      <3>1. /\ Len(s) + j \in 1 .. Len(s) + Len(Cells(kind))
            /\ ~(Len(s) + j <= Len(s)) /\ (Len(s) + j) - Len(s) = j
        BY SMTT(20), <1>1, <1>2
      <3>. HIDE DEF t, w
      <3>. QED BY <1>1, <2>1, <3>1
    <2>. HIDE DEF t, w
    <2>. QED BY SMTT(20), <1>1, <1>2, <2>1, <2>2
  <1>. HIDE DEF t, w
  <1>4. ASSUME NEW p \in 1 .. Len(t)
        PROVE  /\ t[p].i \in 1 .. p /\ t[p].i <= Width[t[p].of]
               /\ LineAt(t, p - t[p].i, t[p].of)
    <2>1. CASE p <= Len(s)
      <3>. DEFINE b == p - s[p].i
      <3>1. p \in 1 .. Len(s) /\ t[p] = s[p]
        BY SMTT(20), <1>1, <1>2, <1>3, <2>1
      <3>2. s[p].i \in 1 .. p /\ s[p].i <= Width[s[p].of] /\ LineAt(s, b, s[p].of)
        BY <3>1 DEF Whole
      <3>3. b \in Nat /\ Width[s[p].of] \in Nat
        <4>1. s[p].i \in Nat /\ Width[s[p].of] \in Nat
          BY <3>1, CellOf
        <4>. QED BY SMTT(20), <1>2, <3>1, <3>2, <4>1
      <3>4. LineAt(t, b, s[p].of)
        <4>. HIDE DEF b
        <4>1. b + Width[s[p].of] <= Len(t)
          BY SMTT(20), <1>1, <1>2, <1>3, <3>2, <3>3 DEF LineAt
        <4>2. ASSUME NEW j \in 1 .. Width[s[p].of]
              PROVE  t[b + j] = Cell(s[p].of, j, j = Width[s[p].of])
          <5>1. b + j \in 1 .. Len(s)
            BY SMTT(20), <1>2, <3>2, <3>3 DEF LineAt
          <5>. QED BY <1>3, <3>2, <5>1 DEF LineAt
        <4>. QED BY <4>1, <4>2 DEF LineAt
      <3>. QED BY <3>1, <3>2, <3>4
    <2>2. CASE p > Len(s)
      <3>1. p - Len(s) \in 1 .. w /\ Len(s) + (p - Len(s)) = p
        BY SMTT(20), <1>1, <1>2, <1>3, <2>2
      <3>2. t[p] = Cell(kind, p - Len(s), p - Len(s) = w)
        BY <1>3, <3>1
      <3>3. t[p].of = kind /\ t[p].i = p - Len(s)
        BY SMTT(20), <3>2 DEF Cell
      <3>4. p - t[p].i = Len(s)
        BY SMTT(20), <1>2, <3>1, <3>3
      <3>5. LineAt(t, Len(s), kind)
        BY SMTT(20), <1>1, <1>2, <1>3 DEF LineAt, w
      <3>. QED BY SMTT(20), <1>1, <1>2, <3>1, <3>3, <3>4, <3>5 DEF w
    <2>. QED BY SMTT(20), <1>1, <1>2, <1>3, <2>1, <2>2
  <1>. QED BY <1>4 DEF Whole, t

(* The first line of whole lines. *)
LEMMA WholeFirst ==
    ASSUME NEW s \in Seq(LineCell), Whole(s), Len(s) > 0
    PROVE  /\ s[1].of \in Kinds /\ Width[s[1].of] \in 1 .. Len(s)
           /\ LineAt(s, 0, s[1].of)
           /\ \A j \in 1 .. Width[s[1].of] :
                 s[j] = Cell(s[1].of, j, j = Width[s[1].of])
  <1>. DEFINE kind == s[1].of
  <1>1. Len(s) \in Nat /\ 1 \in 1 .. Len(s)
    BY SMTT(20), LenProperties
  <1>2. s[1].i = 1 /\ LineAt(s, 1 - s[1].i, kind)
    BY SMTT(20), <1>1 DEF Whole
  <1>3. kind \in Kinds /\ Width[kind] \in Nat \ {0}
    BY <1>1, CellOf
  <1>4. LineAt(s, 0, kind)
    BY SMTT(20), <1>2
  <1>5. ASSUME NEW j \in 1 .. Width[kind] PROVE s[j] = Cell(kind, j, j = Width[kind])
    <2>1. 0 + j = j
      BY SMTT(20), <1>3
    <2>2. s[0 + j] = Cell(kind, j, j = Width[kind])
      BY <1>4 DEF LineAt
    <2>. QED BY <2>1, <2>2
  <1>. QED BY SMTT(20), <1>1, <1>3, <1>4, <1>5 DEF LineAt

(* Without the first line they are still whole. *)
LEMMA WholeBehind ==
    ASSUME NEW s \in Seq(LineCell), Whole(s), Len(s) > 0
    PROVE  Whole(Behind(s, Width[s[1].of]))
  <1>. DEFINE n == Width[s[1].of]
              t == Behind(s, n)
  <1>1. /\ s[1].of \in Kinds /\ n \in 1 .. Len(s) /\ Len(s) \in Nat
        /\ \A j \in 1 .. n : s[j] = Cell(s[1].of, j, j = n)
    BY WholeFirst, LenProperties
  <1>2. /\ t \in Seq(LineCell) /\ Len(t) = Len(s) - n
        /\ \A i \in 1 .. Len(s) - n : t[i] = s[n + i]
    <2>1. n \in 0 .. Len(s)
      BY SMTT(20), <1>1
    <2>. HIDE DEF n
    <2>. QED BY <2>1, FrontBehind
  <1>. HIDE DEF n, t
  <1>3. ASSUME NEW p \in 1 .. Len(t)
        PROVE  /\ t[p].i \in 1 .. p /\ t[p].i <= Width[t[p].of]
               /\ LineAt(t, p - t[p].i, t[p].of)
    <2>. DEFINE c == s[n + p]
                b == (n + p) - c.i
    <2>1. n + p \in 1 .. Len(s) /\ t[p] = c
      BY SMTT(20), <1>1, <1>2
    <2>2. c.i \in 1 .. n + p /\ c.i <= Width[c.of] /\ LineAt(s, b, c.of)
      BY <2>1 DEF Whole
    <2>3. c.of \in Kinds /\ Width[c.of] \in Nat \ {0}
      BY <2>1, CellOf
    <2>4. b \in Nat
      BY SMTT(20), <1>1, <2>1, <2>2
    <2>. HIDE DEF b
    <2>5. b >= n
      <3>. SUFFICES ASSUME b < n PROVE FALSE
        BY SMTT(20), <1>1, <2>4
      <3>1. s[b + 1] = Cell(c.of, 1, 1 = Width[c.of])
        BY SMTT(20), <2>2, <2>3 DEF LineAt
      <3>2. s[b + 1] = Cell(s[1].of, b + 1, b + 1 = n)
        BY SMTT(20), <1>1, <2>4
      <3>3. c.of = s[1].of /\ b = 0
        BY SMTT(20), <2>4, <3>1, <3>2 DEF Cell
      <3>4. n + p = c.i /\ c.i <= n
        BY SMTT(20), <1>1, <2>1, <2>2, <3>3 DEF b, n
      <3>. QED BY SMTT(20), <1>1, <1>2, <3>4
    <2>6. /\ b = (n + p) - c.i /\ p \in Nat /\ n \in Nat /\ c.i \in Nat /\ c.i >= 1
      BY SMTT(20), <1>1, <1>2, <2>2 DEF b
    <2>7. c.i \in 1 .. p /\ p - c.i = b - n
      BY SMTT(20), <2>4, <2>5, <2>6
    <2>8. LineAt(t, b - n, c.of)
      <3>1. (b - n) + Width[c.of] <= Len(t)
        BY SMTT(20), <1>1, <1>2, <2>2, <2>3, <2>4, <2>6 DEF LineAt
      <3>2. ASSUME NEW j \in 1 .. Width[c.of]
            PROVE  t[(b - n) + j] = Cell(c.of, j, j = Width[c.of])
        <4>. DEFINE m == Width[c.of]
        <4>0. m \in Nat /\ j \in 1 .. m /\ (b - n) + m <= Len(s) - n
          BY <1>2, <2>3, <3>1
        <4>. HIDE DEF m
        <4>1. (b - n) + j \in 1 .. Len(s) - n /\ n + ((b - n) + j) = b + j
          BY SMTT(20), <1>1, <2>4, <2>5, <4>0
        <4>2. t[(b - n) + j] = s[b + j]
          BY <1>2, <4>1
        <4>. QED BY <2>2, <4>2 DEF LineAt
      <3>. QED BY <3>1, <3>2 DEF LineAt
    <2>. HIDE DEF c
    <2>. QED BY <2>1, <2>2, <2>7, <2>8
  <1>. QED BY <1>3 DEF Whole, t, n

(* The stream begins with what is in conf_line_. *)
LEMMA StreamBegins ==
    ASSUME TypeOK
    PROVE  /\ Stream \in Seq(LineCell)
           /\ Len(conf_line) \in Nat /\ Len(toBridge) \in Nat
           /\ Len(Stream) = Len(conf_line) + Len(toBridge)
           /\ \A i \in 1 .. Len(conf_line) : Stream[i] = conf_line[i]
           /\ \A i \in 1 .. Len(toBridge) : Stream[Len(conf_line) + i] = toBridge[i]
  <1>1. conf_line \in Seq(LineCell) /\ toBridge \in Seq(LineCell)
    BY DEF TypeOK
  <1>2. /\ Stream \in Seq(LineCell) /\ Len(Stream) = Len(conf_line) + Len(toBridge)
        /\ \A i \in 1 .. Len(conf_line) + Len(toBridge) : Stream[i] =
              IF i <= Len(conf_line) THEN conf_line[i] ELSE toBridge[i - Len(conf_line)]
    BY <1>1, ConcatProperties DEF Stream
  <1>3. Len(conf_line) \in Nat /\ Len(toBridge) \in Nat
    BY <1>1, LenProperties
  <1>4. ASSUME NEW i \in 1 .. Len(toBridge) PROVE Stream[Len(conf_line) + i] = toBridge[i]
    <2>1. /\ Len(conf_line) + i \in 1 .. Len(conf_line) + Len(toBridge)
          /\ ~(Len(conf_line) + i <= Len(conf_line))
          /\ (Len(conf_line) + i) - Len(conf_line) = i
      BY SMTT(20), <1>3
    <2>. QED BY <1>2, <2>1
  <1>. QED BY SMTT(20), <1>2, <1>3, <1>4

(* A complete line in conf_line_ is the first line of the stream. *)
LEMMA FirstLine ==
    ASSUME TypeOK, Whole(Stream), LineLen(conf_line) > 0
    PROVE  LET n == LineLen(conf_line)
               kind == KindOf(Front(conf_line, n))
               rest == Behind(conf_line, n)
           IN /\ n \in 1 .. Len(conf_line)
              /\ kind \in Kinds /\ n = Width[kind]
              /\ Stream = Cells(kind) \o (rest \o toBridge)
              /\ rest \in Seq(LineCell) /\ Len(rest) = Len(conf_line) - n
              /\ Whole(rest \o toBridge)
              /\ Len(rest \o toBridge) = Len(Stream) - n
              /\ \A p \in 1 .. Len(rest \o toBridge) : (rest \o toBridge)[p] = Stream[n + p]
              /\ \A p \in 1 .. n : Stream[p] = Cell(kind, p, p = n)
  <1>. DEFINE n == LineLen(conf_line)
              kind == Stream[1].of
              w == Width[kind]
              rest == Behind(conf_line, n)
  <1>1. conf_line \in Seq(LineCell) /\ toBridge \in Seq(LineCell)
    BY DEF TypeOK
  <1>2. /\ Stream \in Seq(LineCell)
        /\ Len(conf_line) \in Nat /\ Len(toBridge) \in Nat
        /\ Len(Stream) = Len(conf_line) + Len(toBridge)
        /\ \A i \in 1 .. Len(conf_line) : Stream[i] = conf_line[i]
        /\ \A i \in 1 .. Len(toBridge) : Stream[Len(conf_line) + i] = toBridge[i]
    BY StreamBegins
  <1>3. /\ n \in 1 .. Len(conf_line) /\ conf_line[n].last
        /\ \A i \in 1 .. Len(conf_line) : conf_line[i].last => n \in 1 .. i
    <2>1. /\ n \in 0 .. Len(conf_line) /\ (n > 0 => conf_line[n].last)
          /\ \A i \in 1 .. Len(conf_line) : conf_line[i].last => n \in 1 .. i
      BY <1>1, LineLenProperties
    <2>2. n > 0
      OBVIOUS
    <2>. HIDE DEF n
    <2>3. n \in 1 .. Len(conf_line)
      BY SMTT(20), <1>2, <2>1, <2>2
    <2>. QED BY <2>1, <2>2, <2>3
  <1>. HIDE DEF n
  <1>4. Len(Stream) > 0
    BY SMTT(20), <1>2, <1>3
  <1>5. /\ kind \in Kinds /\ w \in 1 .. Len(Stream)
        /\ \A j \in 1 .. w : Stream[j] = Cell(kind, j, j = w)
    BY <1>2, <1>4, WholeFirst
  <1>. HIDE DEF kind, w
  <1>6. n = w
    <2>1. ASSUME n <= w PROVE n = w
      <3>1. conf_line[n] = Cell(kind, n, n = w)
        BY SMTT(20), <1>2, <1>3, <1>5, <2>1
      <3>2. conf_line[n].last <=> (n = w)
        BY SMTT(20), <3>1, CellFields
      <3>. QED BY <1>3, <3>2
    <2>2. ASSUME w < n PROVE FALSE
      <3>1. w \in 1 .. Len(conf_line)
        BY SMTT(20), <1>2, <1>3, <1>5, <2>2
      <3>2. conf_line[w] = Cell(kind, w, w = w)
        BY SMTT(20), <1>2, <1>5, <3>1
      <3>3. conf_line[w].last
        BY <3>2, CellFields
      <3>4. n \in 1 .. w
        BY <1>3, <3>1, <3>3
      <3>. QED BY SMTT(20), <1>2, <1>3, <1>5, <2>2, <3>4
    <2>. QED BY SMTT(20), <1>2, <1>3, <1>5, <2>1, <2>2
  <1>7. /\ Front(conf_line, n) \in Seq(LineCell) /\ Len(Front(conf_line, n)) = n
        /\ \A i \in 1 .. n : Front(conf_line, n)[i] = conf_line[i]
        /\ rest \in Seq(LineCell) /\ Len(rest) = Len(conf_line) - n
        /\ \A i \in 1 .. Len(conf_line) - n : rest[i] = conf_line[n + i]
    <2>1. n \in 0 .. Len(conf_line)
      BY SMTT(20), <1>2, <1>3
    <2>. QED BY <1>1, <2>1, FrontBehind
  <1>8. /\ Cells(kind) \in Seq(LineCell) /\ Len(Cells(kind)) = w
        /\ \A i \in 1 .. w : Cells(kind)[i] = Cell(kind, i, i = w)
    BY <1>5, CellsProperties DEF w
  <1>9. Front(conf_line, n) = Cells(kind)
    <2>1. ASSUME NEW i \in 1 .. n PROVE Front(conf_line, n)[i] = Cells(kind)[i]
      <3>1. i \in 1 .. Len(conf_line) /\ i \in 1 .. w
        BY SMTT(20), <1>2, <1>3, <1>6
      <3>. QED BY SMTT(20), <1>2, <1>5, <1>7, <1>8, <3>1
    <2>. QED BY ZenonT(30), <1>6, <1>7, <1>8, <2>1, SeqEqual
  <1>10. KindOf(Front(conf_line, n)) = kind
    BY <1>5, <1>9, KindOfCells
  <1>. HIDE DEF rest
  <1>11. rest \o toBridge = Behind(Stream, n)
    <2>. DEFINE a == rest \o toBridge
                b == Behind(Stream, n)
    <2>1. /\ b \in Seq(LineCell) /\ Len(b) = Len(Stream) - n
          /\ \A i \in 1 .. Len(Stream) - n : b[i] = Stream[n + i]
      <3>1. n \in 0 .. Len(Stream)
        BY SMTT(20), <1>2, <1>3
      <3>. QED BY <1>2, <3>1, FrontBehind
    <2>2. /\ a \in Seq(LineCell) /\ Len(a) = Len(rest) + Len(toBridge)
          /\ \A i \in 1 .. Len(rest) + Len(toBridge) : a[i] =
                IF i <= Len(rest) THEN rest[i] ELSE toBridge[i - Len(rest)]
      BY <1>1, <1>7, ConcatProperties
    <2>. HIDE DEF a, b
    <2>3. Len(a) = Len(b)
      BY SMTT(20), <1>2, <1>3, <1>7, <2>1, <2>2
    <2>4. ASSUME NEW i \in 1 .. Len(a) PROVE a[i] = b[i]
      <3>1. i \in Nat /\ n \in Nat /\ Len(a) \in Nat /\ i <= Len(a) /\ i >= 1
            /\ Len(a) = Len(Stream) - n
        BY SMTT(20), <1>2, <1>3, <1>7, <2>1, <2>3
      <3>2. b[i] = Stream[n + i]
        BY <2>1, <3>1
      <3>3. CASE i <= Len(rest)
        <4>1. a[i] = rest[i] /\ i \in 1 .. Len(conf_line) - n
          BY SMTT(20), <1>7, <2>2, <3>1, <3>3
        <4>2. n + i \in 1 .. Len(conf_line)
          BY SMTT(20), <1>2, <3>1, <4>1
        <4>. QED BY <1>2, <1>7, <3>2, <4>1, <4>2
      <3>4. CASE ~(i <= Len(rest))
        <4>. DEFINE j == i - Len(rest)
        <4>1. a[i] = toBridge[j]
          BY <2>2, <3>1, <3>4
        <4>2. j \in 1 .. Len(toBridge) /\ n + i = Len(conf_line) + j
          BY SMTT(20), <1>2, <1>3, <1>7, <2>2, <3>1, <3>4
        <4>. HIDE DEF j
        <4>. QED BY <1>2, <3>2, <4>1, <4>2
      <3>. QED BY <3>3, <3>4
    <2>. QED BY <2>1, <2>2, <2>3, <2>4, SeqEqual DEF a, b
  <1>12. Stream = Cells(kind) \o (rest \o toBridge)
    <2>1. n \in 0 .. Len(Stream)
      BY SMTT(20), <1>2, <1>3
    <2>2. /\ Front(Stream, n) \o Behind(Stream, n) = Stream
          /\ Front(Stream, n) \in Seq(LineCell) /\ Len(Front(Stream, n)) = n
          /\ \A i \in 1 .. n : Front(Stream, n)[i] = Stream[i]
      BY <1>2, <2>1, FrontBehind
    <2>3. Front(Stream, n) = Cells(kind)
      <3>1. \A i \in 1 .. n : Front(Stream, n)[i] = Cells(kind)[i]
        BY <1>5, <1>6, <1>8, <2>2
      <3>. QED BY <1>6, <1>8, <2>2, <3>1, SeqEqual
    <2>. QED BY <1>11, <2>2, <2>3
  <1>13. /\ Len(rest \o toBridge) = Len(Stream) - n
         /\ \A p \in 1 .. Len(rest \o toBridge) : (rest \o toBridge)[p] = Stream[n + p]
    <2>1. n \in 0 .. Len(Stream)
      BY SMTT(20), <1>2, <1>3
    <2>2. /\ Len(Behind(Stream, n)) = Len(Stream) - n
          /\ \A i \in 1 .. Len(Stream) - n : Behind(Stream, n)[i] = Stream[n + i]
      BY <1>2, <2>1, FrontBehind
    <2>3. \A i \in 1 .. Len(Behind(Stream, n)) : Behind(Stream, n)[i] = Stream[n + i]
      BY <2>2
    <2>. QED BY <1>11, <2>2, <2>3
  <1>14. Whole(rest \o toBridge)
    <2>1. Whole(Behind(Stream, w))
      BY <1>2, <1>4, WholeBehind DEF w, kind
    <2>. QED BY <1>6, <1>11, <2>1
  <1>15. \A p \in 1 .. n : Stream[p] = Cell(kind, p, p = n)
    BY <1>5, <1>6
  <1>16. n = Width[kind]
    BY <1>6 DEF w
  <1>. QED BY <1>3, <1>5, <1>7, <1>10, <1>12, <1>13, <1>14, <1>15, <1>16 DEF n, rest

(* An incomplete line in conf_line_ is shorter than its line. *)
LEMMA PartialLine ==
    ASSUME TypeOK, Whole(Stream), LineLen(conf_line) = 0, Len(conf_line) > 0
    PROVE  /\ 1 \in 1 .. Len(Stream) /\ Stream[1].of \in Kinds
           /\ Len(conf_line) < Width[Stream[1].of]
  <1>. DEFINE kind == Stream[1].of
              w == Width[kind]
  <1>1. conf_line \in Seq(LineCell)
    BY DEF TypeOK
  <1>2. /\ Stream \in Seq(LineCell)
        /\ Len(conf_line) \in Nat /\ Len(toBridge) \in Nat
        /\ Len(Stream) = Len(conf_line) + Len(toBridge)
        /\ \A i \in 1 .. Len(conf_line) : Stream[i] = conf_line[i]
    BY StreamBegins
  <1>3. \A i \in 1 .. Len(conf_line) : ~conf_line[i].last
    BY <1>1, LineLenProperties
  <1>4. Len(Stream) > 0 /\ 1 \in 1 .. Len(Stream)
    BY SMTT(20), <1>2
  <1>5. /\ kind \in Kinds /\ w \in 1 .. Len(Stream)
        /\ \A j \in 1 .. w : Stream[j] = Cell(kind, j, j = w)
    BY <1>2, <1>4, WholeFirst
  <1>. HIDE DEF kind, w
  <1>6. ~(w <= Len(conf_line))
    <2>. SUFFICES ASSUME w <= Len(conf_line) PROVE FALSE
      OBVIOUS
    <2>1. w \in 1 .. Len(conf_line)
      BY SMTT(20), <1>2, <1>5
    <2>2. conf_line[w] = Cell(kind, w, w = w)
      BY SMTT(20), <1>2, <1>5, <2>1
    <2>3. conf_line[w].last
      BY ZenonT(30), <2>2, CellFields
    <2>. QED BY <1>3, <2>1, <2>3
  <1>. QED BY SMTT(20), <1>2, <1>4, <1>5, <1>6 DEF w, kind
-------------------------------------------------------------------------------
(* Lemmas about the commands. *)

LEMMA CommandCellsFacts ==
    /\ CommandCells \in Seq(CommandCell) /\ Len(CommandCells) = 10
    /\ \A i \in 1 .. 10 :
          CommandCells[i] = Cell(Commands[(i + 1) \div 2], 2 - (i % 2), i % 2 = 0)
  <1>1. Len(Commands) = 5 /\ 2 * Len(Commands) = 10
    BY SMTT(20) DEF Commands
  <1>2. CommandCells = [i \in 1 .. 10 |->
            Cell(Commands[(i + 1) \div 2], 2 - (i % 2), i % 2 = 0)]
    BY <1>1 DEF CommandCells
  <1>3. ASSUME NEW i \in 1 .. 10
        PROVE  Cell(Commands[(i + 1) \div 2], 2 - (i % 2), i % 2 = 0) \in CommandCell
    <2>1. (i + 1) \div 2 \in 1 .. 5 /\ 2 - (i % 2) \in Nat
      BY SMTT(20)
    <2>2. \A j \in 1 .. 5 : Commands[j] \in CommandNames
      BY SMTT(20) DEF Commands, CommandNames
    <2>3. Commands[(i + 1) \div 2] \in CommandNames /\ (i % 2 = 0) \in BOOLEAN
      BY <2>1, <2>2
    <2>. QED BY <2>1, <2>3 DEF Cell, CommandCell
  <1>4. CommandCells \in [1 .. 10 -> CommandCell]
    BY <1>2, <1>3
  <1>. QED BY SMTT(20), <1>2, <1>4

(* The daemon finds a command of two cells next, and it is the one whose    *)
(* turn it is.                                                              *)
LEMMA NextCommand ==
    ASSUME TypeOK, CommandInv, state # "Disconnected", LineLen(toDaemon) > 0
    PROVE  /\ Done \in {0, 2, 4, 6, 8} /\ LineLen(toDaemon) = 2
           /\ toDaemon[1].of = toDaemon[2].of /\ toDaemon[1].i = 1
           /\ toDaemon[2].of = Commands[(Done + 2) \div 2]
           /\ Behind(toDaemon, 2) \in Seq(CommandCell)
           /\ Behind(toDaemon, 2) \o conf_out = SubSeq(CommandCells, Done + 3, 10)
           /\ Len(Behind(toDaemon, 2) \o conf_out) = 8 - Done
  <1>. DEFINE X == toDaemon \o conf_out
              d == Done
  <1>1. /\ toDaemon \in Seq(CommandCell) /\ conf_out \in Seq(CommandCell)
        /\ d \in {0, 2, 4, 6, 8, 10} /\ X = SubSeq(CommandCells, d + 1, 10)
    BY DEF TypeOK, CommandInv
  <1>2. /\ Len(toDaemon) \in Nat /\ Len(conf_out) \in Nat
        /\ X \in Seq(CommandCell) /\ Len(X) = Len(toDaemon) + Len(conf_out)
        /\ \A i \in 1 .. Len(toDaemon) : X[i] = toDaemon[i]
    <2>1. toDaemon \in Seq(CommandCell) /\ conf_out \in Seq(CommandCell)
      BY <1>1
    <2>2. Len(toDaemon) \in Nat /\ Len(conf_out) \in Nat
      BY <2>1, LenProperties
    <2>3. /\ X \in Seq(CommandCell) /\ Len(X) = Len(toDaemon) + Len(conf_out)
          /\ \A i \in 1 .. Len(toDaemon) + Len(conf_out) :
                X[i] = IF i <= Len(toDaemon) THEN toDaemon[i] ELSE conf_out[i - Len(toDaemon)]
      BY <2>1, ConcatProperties
    <2>. HIDE DEF X
    <2>. QED BY SMTT(20), <2>2, <2>3
  <1>3. d = 10 - Len(X)
    BY DEF Done
  <1>. HIDE DEF d
  <1>4. \A i \in 1 .. 10 : CommandCells[i] \in CommandCell
    BY CommandCellsFacts, ElementOfSeq
  <1>5. \A i \in 1 .. 10 - d : X[i] = CommandCells[d + i]
    <2>1. d + 1 \in Int /\ 10 \in Int /\ \A i \in d + 1 .. 10 : CommandCells[i] \in CommandCell
      BY SMTT(20), <1>1, <1>4
    <2>2. \A i \in 1 .. 10 - (d + 1) + 1 :
             SubSeq(CommandCells, d + 1, 10)[i] = CommandCells[d + 1 + i - 1]
      BY SMTT(20), <2>1, SubSeqProperties
    <2>3. \A i \in 1 .. 10 - d : i \in 1 .. 10 - (d + 1) + 1 /\ d + 1 + i - 1 = d + i
      BY SMTT(20), <1>1
    <2>. QED BY <1>1, <2>2, <2>3
  <1>6. /\ LineLen(toDaemon) \in 1 .. Len(toDaemon)
        /\ toDaemon[LineLen(toDaemon)].last
        /\ \A i \in 1 .. Len(toDaemon) : toDaemon[i].last => LineLen(toDaemon) \in 1 .. i
    BY SMTT(20), <1>1, <1>2, LineLenProperties
  <1>. HIDE DEF X
  <1>7. d \in {0, 2, 4, 6, 8}
    BY SMTT(20), <1>1, <1>2, <1>3, <1>6
  <1>8. ASSUME NEW i \in 1 .. Len(toDaemon)
        PROVE  toDaemon[i] = CommandCells[d + i] /\ d + i \in 1 .. 10
    <2>1. i \in 1 .. 10 - d
      BY SMTT(20), <1>2, <1>3, <1>7
    <2>. QED BY SMTT(20), <1>2, <1>5, <1>7, <2>1
  <1>9. /\ toDaemon[1] = Cell(Commands[(d + 2) \div 2], 1, FALSE)
        /\ 1 \in 1 .. Len(toDaemon)
    <2>1. 1 \in 1 .. Len(toDaemon)
      BY SMTT(20), <1>2, <1>6
    <2>2. toDaemon[1] = CommandCells[d + 1] /\ d + 1 \in 1 .. 10
      BY <1>8, <2>1
    <2>3. /\ 2 - ((d + 1) % 2) = 1 /\ (d + 1) % 2 # 0
          /\ ((d + 1) + 1) \div 2 = (d + 2) \div 2
      BY SMTT(20), <1>7
    <2>4. CommandCells[d + 1] =
             Cell(Commands[((d + 1) + 1) \div 2], 2 - ((d + 1) % 2), (d + 1) % 2 = 0)
      BY <2>2, CommandCellsFacts
    <2>5. ((d + 1) % 2 = 0) = FALSE
      BY <2>3
    <2>. QED BY <2>1, <2>2, <2>3, <2>4, <2>5
  <1>10. LineLen(toDaemon) # 1
    BY SMTT(20), <1>6, <1>9 DEF Cell
  <1>11. 2 \in 1 .. Len(toDaemon)
    BY SMTT(20), <1>2, <1>6, <1>10
  <1>12. toDaemon[2] = Cell(Commands[(d + 2) \div 2], 2, TRUE)
    <2>2. toDaemon[2] = CommandCells[d + 2] /\ d + 2 \in 1 .. 10
      BY <1>8, <1>11
    <2>3. /\ 2 - ((d + 2) % 2) = 2 /\ (d + 2) % 2 = 0
          /\ ((d + 2) + 1) \div 2 = (d + 2) \div 2
      BY SMTT(20), <1>7
    <2>4. CommandCells[d + 2] =
             Cell(Commands[((d + 2) + 1) \div 2], 2 - ((d + 2) % 2), (d + 2) % 2 = 0)
      BY <2>2, CommandCellsFacts
    <2>5. ((d + 2) % 2 = 0) = TRUE
      BY <2>3
    <2>. QED BY <2>2, <2>3, <2>4, <2>5
  <1>13. LineLen(toDaemon) = 2
    <2>1. toDaemon[2].last
      BY SMTT(20), <1>12 DEF Cell
    <2>2. LineLen(toDaemon) \in 1 .. 2
      BY <1>6, <1>11, <2>1
    <2>. QED BY SMTT(20), <1>10, <2>2
  <1>14. /\ Behind(toDaemon, 2) \in Seq(CommandCell)
         /\ Len(Behind(toDaemon, 2)) = Len(toDaemon) - 2
         /\ \A i \in 1 .. Len(toDaemon) - 2 : Behind(toDaemon, 2)[i] = toDaemon[2 + i]
    <2>1. 2 \in 0 .. Len(toDaemon)
      BY SMTT(20), <1>11
    <2>. QED BY <1>1, <2>1, FrontBehind
  <1>. DEFINE Y == Behind(toDaemon, 2) \o conf_out
              Z == SubSeq(CommandCells, d + 3, 10)
  <1>15. /\ Y \in Seq(CommandCell) /\ Len(Y) = Len(toDaemon) - 2 + Len(conf_out)
         /\ \A i \in 1 .. Len(toDaemon) - 2 + Len(conf_out) :
               Y[i] = IF i <= Len(toDaemon) - 2 THEN Behind(toDaemon, 2)[i]
                      ELSE conf_out[i - (Len(toDaemon) - 2)]
    <2>. DEFINE t == Behind(toDaemon, 2)
    <2>1. t \in Seq(CommandCell) /\ conf_out \in Seq(CommandCell)
      BY <1>1, <1>14
    <2>. HIDE DEF t
    <2>2. /\ t \o conf_out \in Seq(CommandCell) /\ Len(t \o conf_out) = Len(t) + Len(conf_out)
          /\ \A i \in 1 .. Len(t) + Len(conf_out) :
                (t \o conf_out)[i] = IF i <= Len(t) THEN t[i] ELSE conf_out[i - Len(t)]
      BY <2>1, ConcatProperties
    <2>3. Len(t) = Len(toDaemon) - 2 /\ Y = t \o conf_out
      BY <1>14 DEF t
    <2>. HIDE DEF Y
    <2>. QED BY <2>2, <2>3 DEF t
  <1>16. Z \in Seq(CommandCell) /\ Len(Z) = 8 - d /\ \A i \in 1 .. 8 - d : Z[i] = CommandCells[d + 2 + i]
    <2>1. d + 3 \in Int /\ 10 \in Int /\ \A i \in d + 3 .. 10 : CommandCells[i] \in CommandCell
      BY SMTT(20), <1>4, <1>7
    <2>2. /\ Z \in Seq(CommandCell)
          /\ Len(Z) = IF d + 3 <= 10 THEN 10 - (d + 3) + 1 ELSE 0
          /\ \A i \in 1 .. 10 - (d + 3) + 1 : Z[i] = CommandCells[d + 3 + i - 1]
      BY SMTT(20), <2>1, SubSeqProperties
    <2>3. \A i \in 1 .. 8 - d : i \in 1 .. 10 - (d + 3) + 1 /\ d + 3 + i - 1 = d + 2 + i
      BY SMTT(20), <1>7
    <2>4. (IF d + 3 <= 10 THEN 10 - (d + 3) + 1 ELSE 0) = 8 - d
      BY SMTT(20), <1>7
    <2>. HIDE DEF Z
    <2>. QED BY <2>2, <2>3, <2>4
  <1>17. Len(Y) = 8 - d
    BY SMTT(20), <1>2, <1>3, <1>7, <1>15
  <1>18. ASSUME NEW i \in 1 .. 8 - d PROVE Y[i] = Z[i]
    <2>1. i \in Nat /\ i >= 1 /\ 2 + i \in 1 .. 10 - d /\ i \in 1 .. Len(toDaemon) - 2 + Len(conf_out)
      BY SMTT(20), <1>2, <1>3, <1>7
    <2>2. Y[i] = X[2 + i]
      <3>1. CASE i <= Len(toDaemon) - 2
        <4>1. Y[i] = toDaemon[2 + i] /\ 2 + i \in 1 .. Len(toDaemon)
          BY SMTT(20), <1>2, <1>14, <1>15, <2>1, <3>1
        <4>. QED BY <1>2, <4>1
      <3>2. CASE ~(i <= Len(toDaemon) - 2)
        <4>. DEFINE j == 2 + i
        <4>1. Y[i] = conf_out[i - (Len(toDaemon) - 2)]
          BY <1>15, <2>1, <3>2
        <4>2. \A k \in 1 .. Len(toDaemon) + Len(conf_out) :
                 X[k] = IF k <= Len(toDaemon) THEN toDaemon[k] ELSE conf_out[k - Len(toDaemon)]
          BY <1>1, ConcatProperties DEF X
        <4>3. /\ j \in 1 .. Len(toDaemon) + Len(conf_out) /\ ~(j <= Len(toDaemon))
              /\ j - Len(toDaemon) = i - (Len(toDaemon) - 2)
          BY SMTT(20), <1>2, <2>1, <3>2
        <4>. QED BY <4>1, <4>2, <4>3
      <3>. QED BY <3>1, <3>2
    <2>3. X[2 + i] = CommandCells[d + (2 + i)] /\ d + (2 + i) = d + 2 + i
      BY SMTT(20), <1>5, <1>7, <2>1
    <2>. HIDE DEF Y, Z
    <2>. QED BY <1>16, <2>2, <2>3
  <1>19. Y = Z
    <2>. HIDE DEF Y, Z
    <2>. QED BY <1>15, <1>16, <1>17, <1>18, SeqEqual
  <1>20. /\ toDaemon[1].of = toDaemon[2].of /\ toDaemon[1].i = 1
         /\ toDaemon[2].of = Commands[(d + 2) \div 2]
    BY SMTT(20), <1>9, <1>12 DEF Cell
  <1>. QED BY <1>7, <1>13, <1>14, <1>17, <1>19, <1>20 DEF d
-------------------------------------------------------------------------------
(* The invariant is inductive. *)

LEMMA EmptyStream ==
    /\ <<>> \in Seq(LineCell) /\ <<>> \in Seq(CommandCell) /\ Len(<<>>) = 0
    /\ <<>> \o <<>> = <<>> /\ Whole(<<>>) /\ LineLen(<<>>) = 0
  <1>1. <<>> \in Seq(LineCell) /\ <<>> \in Seq(CommandCell) /\ Len(<<>>) = 0
    BY EmptySeq
  <1>2. <<>> \o <<>> = <<>>
    BY <1>1, ConcatEmptySeq
  <1>3. Whole(<<>>)
    BY SMTT(20), <1>1 DEF Whole
  <1>4. LineLen(<<>>) = 0
    <2>1. LineLen(<<>>) \in 0 .. Len(<<>>)
      BY <1>1, LineLenProperties
    <2>. QED BY SMTT(20), <1>1, <2>1
  <1>. QED BY <1>1, <1>2, <1>3, <1>4

LEMMA InitHolds == Init => IInv
  <1>. SUFFICES ASSUME Init PROVE IInv
    OBVIOUS
  <1>1. /\ state = "Disconnected" /\ conf_line = <<>> /\ toBridge = <<>> /\ toDaemon = <<>>
        /\ conf_out = <<>> /\ pc = "idle" /\ open = FALSE
        /\ applied = {}
    BY DEF Init
  <1>2. Stream = <<>>
    BY <1>1, EmptyStream DEF Stream
  <1>3. TypeOK
    BY <1>1, EmptyStream DEF TypeOK
  <1>4. DownInv
    BY <1>1 DEF DownInv
  <1>5. CommandInv /\ AnswerInv /\ SettingsInv
    BY <1>1 DEF CommandInv, AnswerInv, SettingsInv
  <1>6. CauseInv
    BY SMTT(20), <1>1, <1>2, EmptyStream DEF CauseInv
  <1>7. LengthInv
    BY SMTT(20), <1>1, EmptyStream, WidthAssumption DEF LengthInv
  <1>. QED BY <1>2, <1>3, <1>4, <1>5, <1>6, <1>7, EmptyStream DEF IInv

LEMMA SettingsKept ==
    ASSUME IInv, settings' = settings
    PROVE  /\ requested' = requested => SettingsInv'
           /\ Done' = Done => (Applied' <=> Applied)
  <1>1. applied' = applied /\ radio' = radio /\ overtaken' = overtaken
    BY DEF settings
  <1>. QED BY <1>1 DEF IInv, SettingsInv, Applied

(* config_fail() and handle_disconnect() leave a link that is down. *)
LEMMA FailStep == ASSUME IInv, Fail PROVE IInv'
  <1>1. /\ state' = "Disconnected" /\ conf_line' = <<>> /\ toBridge' = <<>> /\ toDaemon' = <<>>
        /\ conf_out' = <<>> /\ pc' = "idle" /\ open' = FALSE /\ settings' = settings
        /\ requested' = requested
    BY DEF Fail, CloseLink
  <1>2. Stream' = <<>>
    BY <1>1, EmptyStream DEF Stream
  <1>3. TypeOK'
    BY <1>1, EmptyStream DEF IInv, TypeOK
  <1>4. DownInv'
    BY <1>1 DEF DownInv
  <1>5. CommandInv' /\ AnswerInv'
    BY <1>1 DEF CommandInv, AnswerInv
  <1>6. CauseInv'
    BY SMTT(20), <1>1, <1>2, EmptyStream DEF CauseInv
  <1>7. LengthInv'
    BY SMTT(20), <1>1, EmptyStream, WidthAssumption DEF LengthInv
  <1>8. Whole(Stream)'
    <2>1. Whole(Stream')
      BY <1>2, EmptyStream
    <2>. QED BY <2>1 DEF Whole, LineAt
  <1>. QED BY <1>1, <1>3, <1>4, <1>5, <1>6, <1>7, <1>8, SettingsKept DEF IInv

(* A step that leaves the lines, the commands and the settings alone. *)
LEMMA QuietStep ==
    ASSUME IInv, TypeOK', DownInv', LengthInv',
           state' = state, requested' = requested, settings' = settings,
           Stream' = Stream, toDaemon' \o conf_out' = toDaemon \o conf_out,
           causes # {} => causes' # {}, ~open' => ~open \/ causes' # {}
    PROVE  IInv'
  <1>1. Done' = Done
    BY DEF Done
  <1>2. (Applied' <=> Applied) /\ ErrAhead' = ErrAhead /\ InStream("READY")' = InStream("READY")
    BY <1>1, SettingsKept DEF ErrAhead, InStream
  <1>3. CommandInv' /\ SettingsInv'
    BY <1>1, SettingsKept DEF IInv, CommandInv
  <1>4. AnswerInv'
    BY <1>1, <1>2 DEF IInv, AnswerInv
  <1>5. CauseInv'
    BY DEF IInv, CauseInv
  <1>6. Whole(Stream)'
    BY DEF IInv, Whole, LineAt
  <1>. QED BY <1>3, <1>4, <1>5, <1>6 DEF IInv

LEMMA BeginStep == ASSUME IInv, NEW cfg \in Requests, BeginConfigure(cfg) PROVE IInv'
  <1>1. CASE UNCHANGED vars
    <2>1. /\ state' = state /\ requested' = requested /\ conf_out' = conf_out
          /\ conf_line' = conf_line /\ pc' = pc /\ toDaemon' = toDaemon /\ toBridge' = toBridge
          /\ open' = open /\ settings' = settings /\ causes' = causes
      BY <1>1 DEF vars, buffers, daemon
    <2>2. Stream' = Stream
      BY <2>1 DEF Stream
    <2>3. TypeOK' /\ DownInv' /\ LengthInv'
      BY <2>1 DEF IInv, TypeOK, DownInv, LengthInv
    <2>. QED BY <2>1, <2>2, <2>3, QuietStep
  <1>2. CASE /\ validate_config(cfg) /\ CloseLink /\ state' = "Configuring" /\ requested' = cfg
             /\ open' = TRUE /\ conf_out' = CommandCells /\ causes' = {}
             /\ applied' = {}
    <2>1. /\ conf_line' = <<>> /\ pc' = "idle" /\ toDaemon' = <<>> /\ toBridge' = <<>>
      BY <1>2 DEF CloseLink
    <2>2. Stream' = <<>>
      BY <2>1, EmptyStream DEF Stream
    <2>3. CommandCells \in Seq(CommandCell) /\ Len(CommandCells) = 10
      BY CommandCellsFacts
    <2>4. TypeOK'
      BY <1>2, <2>1, <2>3, EmptyStream DEF IInv, TypeOK
    <2>5. toDaemon' \o conf_out' = CommandCells
      BY <1>2, <2>1, <2>3, ConcatEmptySeq
    <2>6. Done' = 0
      BY SMTT(20), <2>3, <2>5 DEF Done
    <2>7. SubSeq(CommandCells, 0 + 1, 10) = CommandCells
      BY SMTT(20), <2>3, SubSeqFull
    <2>8. CommandInv'
      <3>1. toDaemon' \o conf_out' = SubSeq(CommandCells, Done' + 1, 10)
        BY <2>5, <2>6, <2>7
      <3>2. Done' \in {0, 2, 4, 6, 8, 10}
        BY SMTT(20), <2>6
      <3>. QED BY <3>1, <3>2 DEF CommandInv
    <2>9. DownInv'
      BY <1>2 DEF DownInv
    <2>10. AnswerInv'
      BY SMTT(20), <1>2, <2>2, <2>6, EmptyStream DEF AnswerInv, Applied, InStream
    <2>11. CauseInv'
      BY SMTT(20), <1>2, <2>2, EmptyStream DEF CauseInv
    <2>12. LengthInv'
      BY SMTT(20), <2>1, EmptyStream, WidthAssumption DEF LengthInv
    <2>13. Whole(Stream)'
      <3>1. Whole(Stream')
        BY <2>2, EmptyStream
      <3>. QED BY <3>1 DEF Whole, LineAt
    <2>14. SettingsInv'
      BY <1>2 DEF SettingsInv
    <2>. QED BY <2>4, <2>8, <2>9, <2>10, <2>11, <2>12, <2>13, <2>14 DEF IInv
  <1>. QED BY <1>1, <1>2 DEF BeginConfigure

(* However a write is cut, the commands on their way and those still to be  *)
(* written are the same.                                                    *)
LEMMA PollConfiguringStep == ASSUME IInv, PollConfiguring PROVE IInv'
  <1>1. CASE Fail
    BY <1>1, FailStep
  <1>2. CASE /\ \E n \in 0 .. Len(conf_out) : Send(n)
             /\ pc' = IF conf_out' = <<>> THEN "recv" ELSE "idle"
             /\ UNCHANGED <<state, requested, conf_line, full, toBridge, open, daemon,
                            causes, configs>>
    <2>1. PICK n \in 0 .. Len(conf_out) : Send(n)
      BY <1>2
    <2>2. /\ pc = "idle" /\ state = "Configuring" /\ pc' \in {"idle", "recv"}
          /\ state' = state /\ requested' = requested /\ conf_line' = conf_line
          /\ toBridge' = toBridge /\ open' = open /\ settings' = settings
          /\ causes' = causes
          /\ conf_out' = Behind(conf_out, n) /\ toDaemon' = toDaemon \o Front(conf_out, n)
      BY <1>2, <2>1 DEF PollConfiguring, Send, daemon
    <2>3. toDaemon \in Seq(CommandCell) /\ conf_out \in Seq(CommandCell)
      BY DEF IInv, TypeOK
    <2>. DEFINE f == Front(conf_out, n)
                b == Behind(conf_out, n)
    <2>4. f \in Seq(CommandCell) /\ b \in Seq(CommandCell) /\ f \o b = conf_out
      BY <2>3, FrontBehind
    <2>. HIDE DEF f, b
    <2>5. toDaemon \o f \in Seq(CommandCell) /\ (toDaemon \o f) \o b = toDaemon \o (f \o b)
      <3>1. f \in Seq(CommandCell) /\ b \in Seq(CommandCell)
        BY <2>4
      <3>. QED BY SMTT(20), <2>3, <3>1, ConcatProperties, ConcatAssociative
    <2>6. toDaemon' \o conf_out' = toDaemon \o conf_out
      BY <2>2, <2>4, <2>5 DEF f, b
    <2>7. toDaemon' \in Seq(CommandCell) /\ conf_out' \in Seq(CommandCell)
      BY <2>2, <2>4, <2>5 DEF f, b
    <2>8. TypeOK'
      BY <2>2, <2>7 DEF IInv, TypeOK
    <2>9. DownInv' /\ LengthInv'
      BY <2>2 DEF IInv, DownInv, LengthInv
    <2>10. Stream' = Stream
      BY <2>2 DEF Stream
    <2>. QED BY <2>2, <2>6, <2>8, <2>9, <2>10, QuietStep
  <1>. QED BY <1>1, <1>2 DEF PollConfiguring

LEMMA PollOperationalStep == ASSUME IInv, PollOperational PROVE IInv'
  <1>1. /\ pc = "idle" /\ state = "Ready" /\ pc' = "recv"
        /\ state' = state /\ requested' = requested /\ conf_line' = conf_line
        /\ toBridge' = toBridge /\ open' = open /\ settings' = settings
        /\ causes' = causes /\ conf_out' = conf_out /\ toDaemon' = toDaemon
    BY DEF PollOperational, daemon
  <1>2. TypeOK' /\ DownInv' /\ LengthInv'
    BY <1>1 DEF IInv, TypeOK, DownInv, LengthInv
  <1>3. Stream' = Stream
    BY <1>1 DEF Stream
  <1>. QED BY <1>1, <1>2, <1>3, QuietStep

(* A read moves cells from the connection into conf_line_.  Only a line     *)
(* that is too long by itself can overflow it.                              *)
LEMMA RecvStep == ASSUME IInv, Recv PROVE IInv'
  <1>1. CASE Fail
    BY <1>1, FailStep
  <1>2. CASE /\ pc' = "idle" /\ full' = FALSE
             /\ UNCHANGED <<state, requested, conf_out, conf_line, toDaemon, toBridge, open,
                            daemon, causes, configs>>
    <2>1. /\ pc = "recv" /\ pc' = "idle"
          /\ state' = state /\ requested' = requested /\ conf_line' = conf_line
          /\ toBridge' = toBridge /\ open' = open /\ settings' = settings
          /\ causes' = causes /\ conf_out' = conf_out /\ toDaemon' = toDaemon
      BY <1>2 DEF Recv, daemon
    <2>2. TypeOK' /\ DownInv' /\ LengthInv'
      BY <2>1 DEF IInv, TypeOK, DownInv, LengthInv
    <2>3. Stream' = Stream
      BY <2>1 DEF Stream
    <2>. QED BY <2>1, <2>2, <2>3, QuietStep
  <1>3. ASSUME NEW n \in 1 .. ReadChunk, n <= Len(toBridge),
               conf_line' = conf_line \o Front(toBridge, n),
               toBridge' = Behind(toBridge, n),
               pc' = "lines",
               UNCHANGED <<state, requested, conf_out, toDaemon, open, daemon, causes, configs>>
        PROVE  IInv'
    <2>1. /\ pc = "recv"
          /\ state' = state /\ requested' = requested /\ open' = open
          /\ settings' = settings /\ causes' = causes /\ conf_out' = conf_out
          /\ toDaemon' = toDaemon
      BY <1>3 DEF Recv, daemon
    <2>2. /\ conf_line \in Seq(LineCell) /\ toBridge \in Seq(LineCell)
          /\ Len(conf_line) \in Nat /\ Len(toBridge) \in Nat
      BY LenProperties DEF IInv, TypeOK
    <2>. DEFINE f == Front(toBridge, n)
                b == Behind(toBridge, n)
    <2>3. /\ f \in Seq(LineCell) /\ b \in Seq(LineCell) /\ f \o b = toBridge /\ Len(f) = n
          /\ n \in Nat /\ n <= ReadChunk
      <3>1. n \in 0 .. Len(toBridge) /\ n \in Nat /\ n <= ReadChunk
        BY SMTT(20), <1>3, <2>2, WidthAssumption
      <3>. QED BY <2>2, <3>1, FrontBehind
    <2>. HIDE DEF f, b
    <2>4. conf_line' = conf_line \o f /\ toBridge' = b
      BY <1>3 DEF f, b
    <2>5. /\ conf_line \o f \in Seq(LineCell) /\ Len(conf_line \o f) = Len(conf_line) + n
          /\ \A i \in 1 .. Len(conf_line) + n : (conf_line \o f)[i] =
                IF i <= Len(conf_line) THEN conf_line[i] ELSE f[i - Len(conf_line)]
      BY <2>2, <2>3, ConcatProperties
    <2>6. TypeOK'
      BY <1>3, <2>1, <2>3, <2>4, <2>5 DEF IInv, TypeOK
    <2>7. Stream' = Stream
      <3>1. (conf_line \o f) \o b = conf_line \o (f \o b)
        <4>1. conf_line \in Seq(LineCell) /\ f \in Seq(LineCell) /\ b \in Seq(LineCell)
          BY <2>2, <2>3
        <4>. QED BY SMTT(20), <4>1, ConcatAssociative
      <3>. QED BY <2>3, <2>4, <3>1 DEF Stream
    <2>8. DownInv'
      BY <2>1 DEF IInv, DownInv
    <2>9. LengthInv'
      <3>. SUFFICES ASSUME state = "Configuring", LineLen(conf_line') > 0
                    PROVE  Len(conf_line') - LineLen(conf_line') <= ReadChunk
        BY <1>3, <2>1 DEF LengthInv
      <3>. DEFINE c == conf_line'
                  m == LineLen(conf_line')
      <3>1. m \in 1 .. Len(c) /\ c[m].last
        <4>1. c \in Seq(LineCell) /\ Len(c) \in Nat
          BY SMTT(20), <2>2, <2>3, <2>4, <2>5
        <4>. HIDE DEF c
        <4>. QED BY SMTT(20), <4>1, LineLenProperties DEF c
      <3>2. LineLen(conf_line) = 0
        BY <2>1 DEF IInv, LengthInv
      <3>3. \A i \in 1 .. Len(conf_line) : ~conf_line[i].last
        BY <2>2, <3>2, LineLenProperties
      <3>. HIDE DEF c, m
      <3>4. Len(c) = Len(conf_line) + n /\ \A i \in 1 .. Len(conf_line) : c[i] = conf_line[i]
        BY SMTT(20), <2>2, <2>3, <2>4, <2>5 DEF c
      <3>5. ~(m <= Len(conf_line))
        BY SMTT(20), <2>2, <3>1, <3>3, <3>4
      <3>6. Len(c) - m <= ReadChunk
        BY SMTT(20), <2>2, <2>3, <3>1, <3>4, <3>5, WidthAssumption
      <3>. QED BY <3>6 DEF c, m
    <2>. QED BY <2>1, <2>6, <2>7, <2>8, <2>9, QuietStep
  <1>. QED BY <1>1, <1>2, <1>3 DEF Recv

LEMMA LinesDoneStep == ASSUME IInv, LinesDone PROVE IInv'
  <1>1. /\ pc = "lines" /\ LineLen(conf_line) = 0 /\ pc' \in {"recv", "idle"}
        /\ state' = state /\ requested' = requested /\ conf_line' = conf_line
        /\ toBridge' = toBridge /\ open' = open /\ settings' = settings
        /\ causes' = causes /\ conf_out' = conf_out /\ toDaemon' = toDaemon
    BY DEF LinesDone, daemon
  <1>2. TypeOK' /\ DownInv'
    BY <1>1 DEF IInv, TypeOK, DownInv
  <1>3. Len(conf_line) <= ReadChunk \/ causes # {}
    <2>1. Len(conf_line) \in Nat /\ ReadChunk \in Nat
      BY LenProperties, WidthAssumption DEF IInv, TypeOK
    <2>2. CASE Len(conf_line) = 0
      BY SMTT(20), <2>1, <2>2
    <2>3. CASE Len(conf_line) > 0
      <3>. DEFINE kind == Stream[1].of
      <3>1. 1 \in 1 .. Len(Stream) /\ kind \in Kinds /\ Len(conf_line) < Width[kind]
        BY <1>1, <2>3, PartialLine DEF IInv
      <3>2. CASE kind = "LONG"
        BY <3>1, <3>2 DEF IInv, CauseInv, Broadcasts
      <3>3. CASE kind # "LONG"
        <4>. HIDE DEF kind
        <4>1. Width[kind] <= ReadChunk + 1 /\ Width[kind] \in Nat
          BY <3>1, <3>3, WidthAssumption
        <4>. QED BY SMTT(20), <2>1, <3>1, <4>1
      <3>. QED BY <3>2, <3>3
    <2>. QED BY SMTT(20), <2>1, <2>2, <2>3
  <1>4. LengthInv'
    BY <1>1, <1>3 DEF LengthInv
  <1>5. Stream' = Stream
    BY <1>1 DEF Stream
  <1>. QED BY <1>1, <1>2, <1>4, <1>5, QuietStep

LEMMA EnvironmentStep == ASSUME IInv, Lose \/ Late PROVE IInv'
  <1>1. /\ state' = state /\ requested' = requested /\ conf_line' = conf_line /\ pc' = pc
        /\ toBridge' = toBridge /\ settings' = settings
        /\ causes' # {} /\ conf_out' = conf_out /\ toDaemon' = toDaemon
    BY DEF Lose, Late, daemon, buffers
  <1>2. open' \in BOOLEAN /\ (open' => open)
    <2>1. open \in BOOLEAN
      BY DEF IInv, TypeOK
    <2>2. CASE Lose
      BY <2>2 DEF Lose
    <2>3. CASE Late
      <3>1. open' = open
        BY <2>3 DEF Late
      <3>. QED BY <2>1, <3>1
    <2>. QED BY <2>2, <2>3
  <1>3. TypeOK' /\ DownInv'
    <2>1. TypeOK'
      BY <1>1, <1>2 DEF IInv, TypeOK
    <2>2. DownInv'
      BY <1>1, <1>2 DEF IInv, DownInv
    <2>. QED BY <2>1, <2>2
  <1>4. LengthInv'
    BY <1>1 DEF IInv, LengthInv
  <1>5. Stream' = Stream
    BY <1>1 DEF Stream
  <1>. QED BY <1>1, <1>3, <1>4, <1>5, QuietStep

(* A line is taken off the front of the stream.  The READY that makes the   *)
(* backend Ready stands on settings that were all applied: a rejection      *)
(* would have come first.                                                   *)
LEMMA TakeLineStep == ASSUME IInv, TakeLine PROVE IInv'
  <1>. DEFINE n == LineLen(conf_line)
              kind == KindOf(Front(conf_line, n))
              status == kind = "READY" /\ state = "Configuring"
              rest == Behind(conf_line, n)
              t == rest \o toBridge
  <1>1. pc = "lines" /\ n > 0
    BY DEF TakeLine
  <1>2. CASE Fail
    BY <1>2, FailStep
  <1>3. CASE /\ kind \in Tolerated \/ status
             /\ conf_line' = Erased(n)
             /\ state' = IF status THEN "Ready" ELSE state
             /\ pc' = IF status THEN "idle" ELSE pc
             /\ UNCHANGED <<requested, conf_out, full, toDaemon, toBridge, open, daemon,
                            causes, configs>>
    <2>1. /\ n \in 1 .. Len(conf_line) /\ kind \in Kinds
          /\ rest \in Seq(LineCell) /\ Len(rest) = Len(conf_line) - n
          /\ Whole(t) /\ Len(t) = Len(Stream) - n
          /\ \A p \in 1 .. Len(t) : t[p] = Stream[n + p]
          /\ \A p \in 1 .. n : Stream[p] = Cell(kind, p, p = n)
      BY <1>1, FirstLine DEF IInv
    <2>2. /\ conf_line' = rest /\ requested' = requested /\ toBridge' = toBridge
          /\ open' = open /\ settings' = settings
          /\ causes' = causes /\ conf_out' = conf_out /\ toDaemon' = toDaemon
      BY <1>3 DEF Erased, daemon
    <2>. DEFINE tolerated == kind \in Tolerated
    <2>3. (tolerated /\ state' = state /\ pc' = "lines" /\ ~status)
          \/ (status /\ state' = "Ready" /\ pc' = "idle")
      BY <1>1, <1>3
    <2>4. state \in {"Configuring", "Ready"}
      BY <1>1 DEF IInv, TypeOK, DownInv
    <2>. HIDE DEF n, kind, rest
    <2>5. Stream' = t
      BY <2>2 DEF Stream
    <2>. HIDE DEF t
    <2>6. /\ Len(Stream) \in Nat /\ n \in Nat /\ Len(t) \in Nat /\ n >= 1 /\ n <= Len(Stream)
          /\ Len(conf_line) \in Nat
      <3>1. Len(Stream) \in Nat /\ Len(conf_line) \in Nat /\ Len(conf_line) <= Len(Stream)
        BY SMTT(20), StreamBegins DEF IInv
      <3>. QED BY SMTT(20), <2>1, <3>1
    <2>7. ASSUME NEW p \in 1 .. n PROVE Stream[p].of = kind
      <3>1. Stream[p] = Cell(kind, p, p = n)
        BY <2>1
      <3>. QED BY SMTT(20), <3>1, CellFields
    <2>8. 1 \in 1 .. Len(Stream) /\ Stream[1].of = kind
      BY SMTT(20), <2>6, <2>7
    <2>9. Done' = Done /\ (Applied' <=> Applied)
      <3>1. Done' = Done
        BY <2>2 DEF Done
      <3>. QED BY <2>2, <3>1, SettingsKept
    <2>10. TypeOK'
      BY <2>1, <2>2, <2>3, <2>4 DEF IInv, TypeOK
    <2>11. DownInv'
      BY <2>3, <2>4 DEF DownInv
    <2>12. Whole(Stream)'
      <3>1. Whole(Stream')
        BY <2>1, <2>5
      <3>. QED BY <3>1 DEF Whole, LineAt
    <2>13. CommandInv' /\ SettingsInv'
      BY <2>2, <2>4, <2>9, SettingsKept DEF IInv, CommandInv
    <2>14. AnswerInv'
      <3>1. ASSUME InStream("READY")' PROVE Done' = 10
        <4>1. PICK p \in 1 .. Len(t) : t[p].of = "READY"
          BY <2>5, <3>1 DEF InStream
        <4>2. n + p \in 1 .. Len(Stream) /\ Stream[n + p].of = "READY"
          BY SMTT(20), <2>1, <2>6, <4>1
        <4>3. InStream("READY")
          BY <4>2 DEF InStream
        <4>. QED BY <2>4, <2>9, <4>3 DEF IInv, AnswerInv
      <3>2. ASSUME state' = "Configuring" PROVE Applied' \/ ErrAhead'
        <4>1. state = "Configuring" /\ kind \in Broadcasts \cup {"OK"}
          BY <2>3, <3>2 DEF Tolerated
        <4>2. kind # "ERR"
          BY <4>1 DEF Broadcasts
        <4>3. CASE Applied
          BY <2>9, <4>3
        <4>4. CASE ErrAhead
          <5>1. PICK q \in 1 .. Len(Stream) :
                   /\ Stream[q].of = "ERR"
                   /\ \A p \in 1 .. Len(Stream) : Stream[p].of = "READY" => q < p
            BY <4>4 DEF ErrAhead
          <5>2. q - n \in 1 .. Len(t) /\ n + (q - n) = q
            <6>1. ~(q <= n)
              BY SMTT(20), <2>6, <2>7, <4>2, <5>1
            <6>. QED BY SMTT(20), <2>1, <2>6, <6>1
          <5>3. t[q - n].of = "ERR"
            BY <2>1, <5>1, <5>2
          <5>4. ASSUME NEW p \in 1 .. Len(t), t[p].of = "READY" PROVE q - n < p
            <6>1. n + p \in 1 .. Len(Stream) /\ Stream[n + p].of = "READY"
              BY SMTT(20), <2>1, <2>6, <5>4
            <6>2. q < n + p
              BY <5>1, <6>1
            <6>. QED BY SMTT(20), <2>6, <6>2
          <5>. QED BY <2>5, <5>2, <5>3, <5>4 DEF ErrAhead
        <4>. QED BY <4>1, <4>3, <4>4 DEF IInv, AnswerInv
      <3>3. ASSUME state' = "Ready" PROVE Done' = 10 /\ Applied'
        <4>1. CASE state = "Ready"
          BY <2>9, <4>1 DEF IInv, AnswerInv
        <4>2. CASE status
          <5>1. InStream("READY")
            BY <2>8, <4>2 DEF InStream
          <5>2. ~ErrAhead
            BY SMTT(20), <2>8, <4>2 DEF ErrAhead
          <5>. QED BY <2>9, <4>2, <5>1, <5>2 DEF IInv, AnswerInv
        <4>. QED BY <2>3, <3>3, <4>1, <4>2
      <3>. QED BY <3>1, <3>2, <3>3 DEF AnswerInv
    <2>15. CauseInv'
      <3>1. ~open' => causes' # {}
        BY <2>2, <2>4 DEF IInv, CauseInv
      <3>2. ASSUME NEW p \in 1 .. Len(t)
            PROVE  /\ t[p].of \notin Broadcasts \cup {"OK", "READY"} => causes # {}
                   /\ state' = "Ready" /\ t[p].of \in {"OK", "READY"} => causes # {}
                   /\ \A q \in p + 1 .. Len(t) :
                         t[p].of = "READY" /\ t[p].last /\ t[q].of \in {"OK", "READY"}
                             => causes # {}
        <4>1. n + p \in 1 .. Len(Stream) /\ t[p] = Stream[n + p] /\ p \in Nat /\ p >= 1
          BY SMTT(20), <2>1, <2>6
        <4>2. t[p].of \notin Broadcasts \cup {"OK", "READY"} => causes # {}
          BY <4>1 DEF IInv, CauseInv
        <4>3. ASSUME state' = "Ready", t[p].of \in {"OK", "READY"} PROVE causes # {}
          <5>1. CASE state = "Ready"
            BY <4>1, <4>3, <5>1 DEF IInv, CauseInv
          <5>2. CASE status
            <6>1. Stream[n].of = "READY" /\ Stream[n].last /\ n \in 1 .. Len(Stream)
              <7>1. Stream[n] = Cell(kind, n, n = n)
                BY SMTT(20), <2>1, <2>6
              <7>2. Stream[n].of = kind /\ Stream[n].last
                BY SMTT(20), <7>1, CellFields
              <7>. QED BY SMTT(20), <2>6, <5>2, <7>2
            <6>2. n + p \in n + 1 .. Len(Stream)
              BY SMTT(20), <2>6, <4>1
            <6>. QED BY <4>1, <4>3, <6>1, <6>2 DEF IInv, CauseInv
          <5>. QED BY <2>3, <4>3, <5>1, <5>2
        <4>4. ASSUME NEW q \in p + 1 .. Len(t),
                     t[p].of = "READY", t[p].last, t[q].of \in {"OK", "READY"}
              PROVE  causes # {}
          <5>1. q \in 1 .. Len(t) /\ n + q \in (n + p) + 1 .. Len(Stream)
            BY SMTT(20), <2>1, <2>6, <4>1
          <5>2. t[q] = Stream[n + q]
            BY <2>1, <5>1
          <5>. QED BY <4>1, <4>4, <5>1, <5>2 DEF IInv, CauseInv
        <4>. QED BY <4>2, <4>3, <4>4
      <3>. QED BY <2>2, <2>5, <3>1, <3>2 DEF CauseInv
    <2>16. LengthInv'
      <3>1. ReadChunk \in Nat /\ LineLen(rest) \in Nat /\ Len(rest) \in Nat
        <4>1. LineLen(rest) \in 0 .. Len(rest) /\ Len(rest) \in Nat
          BY <2>1, LineLenProperties, LenProperties
        <4>. QED BY SMTT(20), <4>1, WidthAssumption
      <3>2. state = "Configuring" => Len(rest) <= ReadChunk
        BY <1>1, <2>1 DEF IInv, LengthInv, n
      <3>3. CASE status /\ state' = "Ready" /\ pc' = "idle"
        BY <2>2, <3>2, <3>3 DEF LengthInv
      <3>4. CASE state' = state /\ pc' = "lines"
        BY SMTT(20), <2>2, <3>1, <3>2, <3>4 DEF LengthInv
      <3>. QED BY <2>3, <3>3, <3>4
    <2>. QED BY <2>10, <2>11, <2>12, <2>13, <2>14, <2>15, <2>16 DEF IInv
  <1>. QED BY <1>2, <1>3 DEF TakeLine

(* A line is added at the end of the stream. *)
LEMMA AppendFacts ==
    ASSUME TypeOK, NEW kind \in Kinds, toBridge' = toBridge \o Cells(kind),
           conf_line' = conf_line
    PROVE  /\ Stream' = Stream \o Cells(kind) /\ toBridge' \in Seq(LineCell)
           /\ Len(Stream) \in Nat /\ Len(Stream') \in Nat /\ Len(Stream') > Len(Stream)
           /\ \A p \in 1 .. Len(Stream) : Stream'[p] = Stream[p]
           /\ \A p \in Len(Stream) + 1 .. Len(Stream') :
                 Stream'[p].of = kind /\ (Stream'[p].last => p = Len(Stream'))
  <1>. DEFINE c == Cells(kind)
              w == Width[kind]
  <1>1. /\ conf_line \in Seq(LineCell) /\ toBridge \in Seq(LineCell)
    BY DEF TypeOK
  <1>2. /\ c \in Seq(LineCell) /\ Len(c) = w /\ w \in Nat \ {0}
        /\ \A i \in 1 .. w : c[i] = Cell(kind, i, i = w)
    BY CellsProperties
  <1>. HIDE DEF c, w
  <1>3. toBridge' = toBridge \o c
    BY DEF c
  <1>4. toBridge \o c \in Seq(LineCell) /\ (conf_line \o toBridge) \o c = conf_line \o (toBridge \o c)
    BY SMTT(20), <1>1, <1>2, ConcatProperties, ConcatAssociative
  <1>5. Stream' = Stream \o c
    BY <1>3, <1>4 DEF Stream
  <1>6. Stream \in Seq(LineCell) /\ Len(Stream) \in Nat
    BY SMTT(20), StreamBegins
  <1>. DEFINE t == Stream \o c
  <1>7. /\ Len(t) = Len(Stream) + w
        /\ \A i \in 1 .. Len(Stream) + w : t[i] =
              IF i <= Len(Stream) THEN Stream[i] ELSE c[i - Len(Stream)]
    <2>1. c \in Seq(LineCell) /\ Stream \in Seq(LineCell)
      BY <1>2, <1>6
    <2>2. /\ Len(t) = Len(Stream) + Len(c)
          /\ \A i \in 1 .. Len(Stream) + Len(c) : t[i] =
                IF i <= Len(Stream) THEN Stream[i] ELSE c[i - Len(Stream)]
      BY <2>1, ConcatProperties
    <2>3. Len(c) = w
      BY <1>2
    <2>. QED BY <2>2, <2>3
  <1>. HIDE DEF t
  <1>8. \A p \in 1 .. Len(Stream) : t[p] = Stream[p]
    BY SMTT(20), <1>2, <1>6, <1>7
  <1>9. ASSUME NEW p \in Len(Stream) + 1 .. Len(t)
        PROVE  t[p].of = kind /\ (t[p].last => p = Len(t))
    <2>. DEFINE i == p - Len(Stream)
    <2>1. i \in 1 .. w /\ ~(p <= Len(Stream)) /\ p \in 1 .. Len(Stream) + w
          /\ (i = w => p = Len(t))
      BY SMTT(20), <1>2, <1>6, <1>7
    <2>2. t[p] = c[i]
      BY <1>7, <2>1
    <2>. HIDE DEF i
    <2>3. t[p] = Cell(kind, i, i = w)
      BY <1>2, <2>1, <2>2
    <2>4. t[p].of = kind /\ (t[p].last <=> i = w)
      <3>. DEFINE cell == t[p]
      <3>1. cell = Cell(kind, i, i = w)
        BY <2>3
      <3>. HIDE DEF cell
      <3>2. cell.of = kind
        BY <3>1 DEF Cell
      <3>3. cell.last <=> i = w
        BY <3>1 DEF Cell
      <3>. QED BY <3>2, <3>3 DEF cell
    <2>. QED BY <2>1, <2>4
  <1>10. Stream' = t /\ Stream' = Stream \o Cells(kind) /\ toBridge' \in Seq(LineCell)
    BY <1>3, <1>4, <1>5 DEF t, c
  <1>11. Len(t) \in Nat /\ Len(t) > Len(Stream)
    BY SMTT(20), <1>2, <1>6, <1>7
  <1>. QED BY <1>6, <1>8, <1>9, <1>10, <1>11

(* What a line at the end does to the invariants about the stream, if it is *)
(* not a READY.                                                             *)
LEMMA SayStep ==
    ASSUME IInv, state # "Disconnected", NEW kind \in Kinds,
           toBridge' = toBridge \o Cells(kind), conf_line' = conf_line, pc' = pc,
           state' = state, open' = open, causes # {} => causes' # {},
           kind \in Broadcasts \/ causes' # {} \/
               (kind \in {"OK", "READY"} /\ state = "Configuring" /\ ~InStream("READY"))
    PROVE  /\ Whole(Stream)' /\ CauseInv' /\ LengthInv' /\ DownInv'
           /\ kind # "READY" => (InStream("READY")' => InStream("READY"))
           /\ ErrAhead => ErrAhead'
           /\ kind = "ERR" /\ ~InStream("READY") => ErrAhead'
  <1>1. /\ Stream' = Stream \o Cells(kind)
        /\ Len(Stream) \in Nat /\ Len(Stream') \in Nat /\ Len(Stream') > Len(Stream)
        /\ \A p \in 1 .. Len(Stream) : Stream'[p] = Stream[p]
        /\ \A p \in Len(Stream) + 1 .. Len(Stream') :
              Stream'[p].of = kind /\ (Stream'[p].last => p = Len(Stream'))
    BY AppendFacts DEF IInv
  <1>2. Whole(Stream)'
    <2>1. Whole(Stream \o Cells(kind))
      BY WholeAppend, StreamBegins DEF IInv
    <2>2. Whole(Stream')
      BY <1>1, <2>1
    <2>. QED BY <2>2 DEF Whole, LineAt
  <1>. DEFINE t == Stream'
  <1>3. ASSUME NEW p \in 1 .. Len(t)
        PROVE  \/ p \in 1 .. Len(Stream) /\ t[p] = Stream[p]
               \/ /\ p \in Len(Stream) + 1 .. Len(t)
                  /\ t[p].of = kind /\ (t[p].last => p = Len(t))
    <2>. HIDE DEF t
    <2>1. CASE p <= Len(Stream)
      BY SMTT(20), <1>1, <2>1 DEF t
    <2>2. CASE ~(p <= Len(Stream))
      <3>1. p \in Len(Stream) + 1 .. Len(t)
        BY SMTT(20), <1>1, <2>2 DEF t
      <3>. QED BY <1>1, <3>1 DEF t
    <2>. QED BY <2>1, <2>2
  <1>4. CauseInv'
    <2>. HIDE DEF t
    <2>1. state' # "Disconnected" /\ ~open' => causes' # {}
      BY DEF IInv, CauseInv
    <2>2. ASSUME NEW p \in 1 .. Len(t), causes' = {}
          PROVE  /\ t[p].of \in Broadcasts \cup {"OK", "READY"}
                 /\ state = "Ready" => t[p].of \notin {"OK", "READY"}
                 /\ \A q \in p + 1 .. Len(t) :
                       ~(t[p].of = "READY" /\ t[p].last /\ t[q].of \in {"OK", "READY"})
      <3>1. \/ kind \in Broadcasts
            \/ kind \in {"OK", "READY"} /\ state = "Configuring" /\ ~InStream("READY")
        BY <2>2
      <3>2. causes = {}
        BY <2>2
      <3>3. \A i \in 1 .. Len(Stream) :
               /\ Stream[i].of \in Broadcasts \cup {"OK", "READY"}
               /\ state = "Ready" => Stream[i].of \notin {"OK", "READY"}
               /\ \A q \in i + 1 .. Len(Stream) :
                     ~(Stream[i].of = "READY" /\ Stream[i].last /\ Stream[q].of \in {"OK", "READY"})
        BY <3>2 DEF IInv, CauseInv
      <3>4. kind \in Broadcasts => kind \notin {"OK", "READY"}
        BY DEF Broadcasts
      <3>5. t[p].of \in Broadcasts \cup {"OK", "READY"}
        BY <1>3, <3>1, <3>3
      <3>6. state = "Ready" => t[p].of \notin {"OK", "READY"}
        BY <1>3, <3>1, <3>3, <3>4
      <3>7. ASSUME NEW q \in p + 1 .. Len(t),
                   t[p].of = "READY", t[p].last, t[q].of \in {"OK", "READY"}
            PROVE  FALSE
        <4>1. Len(t) \in Nat /\ q \in 1 .. Len(t) /\ p < q /\ p \in Nat /\ q <= Len(t)
          BY SMTT(20), <1>1 DEF t
        <4>2. p \in 1 .. Len(Stream) /\ t[p] = Stream[p]
          <5>1. p # Len(t)
            BY SMTT(20), <4>1
          <5>. QED BY <1>3, <3>7, <5>1
        <4>3. CASE q \in 1 .. Len(Stream) /\ t[q] = Stream[q]
          <5>1. q \in p + 1 .. Len(Stream)
            BY SMTT(20), <1>1, <4>1, <4>2, <4>3
          <5>. QED BY <3>3, <3>7, <4>2, <4>3, <5>1
        <4>4. CASE t[q].of = kind
          <5>1. InStream("READY")
            BY <3>7, <4>2 DEF InStream
          <5>. QED BY <3>1, <3>4, <3>7, <4>4, <5>1
        <4>. QED BY <1>3, <4>1, <4>3, <4>4
      <3>. QED BY <3>5, <3>6, <3>7
    <2>3. ASSUME NEW p \in 1 .. Len(t)
          PROVE  /\ t[p].of \notin Broadcasts \cup {"OK", "READY"} => causes' # {}
                 /\ state' = "Ready" /\ t[p].of \in {"OK", "READY"} => causes' # {}
                 /\ \A q \in p + 1 .. Len(t) :
                       t[p].of = "READY" /\ t[p].last /\ t[q].of \in {"OK", "READY"}
                           => causes' # {}
      BY <2>2
    <2>. QED BY <2>1, <2>3 DEF CauseInv, t
  <1>5. LengthInv' /\ DownInv'
    BY DEF IInv, LengthInv, DownInv
  <1>6. ASSUME kind # "READY", InStream("READY")' PROVE InStream("READY")
    <2>1. PICK p \in 1 .. Len(t) : t[p].of = "READY"
      BY <1>6 DEF InStream
    <2>. HIDE DEF t
    <2>2. p \in 1 .. Len(Stream) /\ Stream[p].of = "READY"
      BY <1>3, <1>6, <2>1
    <2>. QED BY <2>2 DEF InStream
  <1>7. ASSUME ErrAhead PROVE ErrAhead'
    <2>1. PICK q \in 1 .. Len(Stream) :
             /\ Stream[q].of = "ERR"
             /\ \A p \in 1 .. Len(Stream) : Stream[p].of = "READY" => q < p
      BY <1>7 DEF ErrAhead
    <2>. HIDE DEF t
    <2>2. q \in 1 .. Len(t) /\ t[q].of = "ERR"
      BY SMTT(20), <1>1, <2>1 DEF t
    <2>3. ASSUME NEW p \in 1 .. Len(t), t[p].of = "READY" PROVE q < p
      <3>1. CASE p \in 1 .. Len(Stream) /\ t[p] = Stream[p]
        BY <2>1, <2>3, <3>1
      <3>2. CASE p \in Len(Stream) + 1 .. Len(t)
        BY SMTT(20), <1>1, <2>1, <3>2 DEF t
      <3>. QED BY <1>3, <3>1, <3>2
    <2>. QED BY <2>2, <2>3 DEF ErrAhead, t
  <1>8. ASSUME kind = "ERR", ~InStream("READY") PROVE ErrAhead'
    <2>. DEFINE q == Len(Stream) + 1
    <2>. HIDE DEF t
    <2>1. q \in 1 .. Len(t) /\ q \in Len(Stream) + 1 .. Len(t)
      BY SMTT(20), <1>1 DEF t
    <2>2. t[q].of = "ERR"
      BY <1>1, <1>8, <2>1 DEF t
    <2>3. \A p \in 1 .. Len(t) : t[p].of # "READY"
      BY <1>3, <1>8 DEF InStream
    <2>. HIDE DEF q
    <2>. QED BY <2>1, <2>2, <2>3 DEF ErrAhead, t
  <1>. QED BY <1>2, <1>4, <1>5, <1>6, <1>7, <1>8

LEMMA UnaskedStep == ASSUME IInv, NEW kind \in Unasked, DaemonUnasked(kind) PROVE IInv'
  <1>1. /\ open /\ toBridge' = toBridge \o Cells(kind)
        /\ causes' = (IF kind \in Broadcasts THEN causes ELSE causes \cup {kind})
        /\ state' = state /\ requested' = requested /\ conf_line' = conf_line /\ pc' = pc
        /\ open' = open /\ settings' = settings
        /\ conf_out' = conf_out /\ toDaemon' = toDaemon
    BY DEF DaemonUnasked, Say, buffers
  <1>2. kind \in Kinds /\ kind # "READY"
    BY DaemonAssumption
  <1>3. state # "Disconnected"
    BY <1>1 DEF IInv, DownInv
  <1>4. (causes # {} => causes' # {}) /\ (kind \in Broadcasts \/ causes' # {})
    BY <1>1
  <1>5. /\ Whole(Stream)' /\ CauseInv' /\ LengthInv' /\ DownInv'
        /\ InStream("READY")' => InStream("READY")
        /\ ErrAhead => ErrAhead'
    BY <1>1, <1>2, <1>3, <1>4, SayStep
  <1>6. TypeOK'
    <2>1. toBridge' \in Seq(LineCell)
      BY <1>1, <1>2, AppendFacts DEF IInv
    <2>. QED BY <1>1, <2>1 DEF IInv, TypeOK
  <1>7. Done' = Done /\ (Applied' <=> Applied)
    <2>1. Done' = Done
      BY <1>1 DEF Done
    <2>. QED BY <1>1, <2>1, SettingsKept
  <1>8. CommandInv' /\ SettingsInv'
    BY <1>1, <1>3, <1>7, SettingsKept DEF IInv, CommandInv
  <1>9. AnswerInv'
    BY <1>1, <1>3, <1>5, <1>7 DEF IInv, AnswerInv
  <1>. QED BY <1>5, <1>6, <1>8, <1>9 DEF IInv

(* The command the daemon takes is the next one of the five. *)
LEMMA CommandTaken ==
    ASSUME IInv, DaemonCommand
    PROVE  /\ state = "Configuring" /\ ~InStream("READY")
           /\ Done \in {0, 2, 4, 6, 8} /\ Done' = Done + 2
           /\ toDaemon' = Behind(toDaemon, 2) /\ toDaemon' \in Seq(CommandCell)
           /\ CommandInv'
           /\ LET cmd == Commands[(Done + 2) \div 2] IN
              \/ /\ cmd # "STATUS" /\ Apply(cmd)
                 /\ Say("OK") \/ UNCHANGED toBridge
                 /\ UNCHANGED causes
              \/ /\ cmd # "STATUS" /\ Say("ERR") /\ causes' = causes \cup {"ERR"}
                 /\ UNCHANGED settings
              \/ cmd = "STATUS" /\ Say("READY") /\ UNCHANGED <<causes, settings>>
              \/ /\ cmd = "STATUS" /\ Say("NOTREADY") /\ causes' = causes \cup {"NOTREADY"}
                 /\ UNCHANGED settings
  <1>. DEFINE cmd == Commands[(Done + 2) \div 2]
  <1>1. /\ open /\ LineLen(toDaemon) > 0
        /\ state' = state /\ requested' = requested /\ conf_out' = conf_out
    BY DEF DaemonCommand
  <1>2. state # "Disconnected"
    BY <1>1 DEF IInv, DownInv
  <1>3. /\ Done \in {0, 2, 4, 6, 8} /\ LineLen(toDaemon) = 2
        /\ toDaemon[1].of = toDaemon[2].of /\ toDaemon[1].i = 1
        /\ toDaemon[2].of = cmd
        /\ Behind(toDaemon, 2) \in Seq(CommandCell)
        /\ Behind(toDaemon, 2) \o conf_out = SubSeq(CommandCells, Done + 3, 10)
        /\ Len(Behind(toDaemon, 2) \o conf_out) = 8 - Done
    BY <1>1, <1>2, NextCommand DEF IInv
  <1>4. toDaemon' = Behind(toDaemon, 2)
    BY <1>3 DEF DaemonCommand
  <1>5. Done' = Done + 2
    <2>1. Done' = 10 - Len(Behind(toDaemon, 2) \o conf_out)
      BY <1>1, <1>4 DEF Done
    <2>. DEFINE d == Done
    <2>2. Done' = 10 - (8 - d) /\ d \in {0, 2, 4, 6, 8}
      BY <1>3, <2>1
    <2>. HIDE DEF d
    <2>3. Done' = d + 2
      BY SMTT(20), <2>2
    <2>. QED BY <2>3 DEF d
  <1>6. state = "Configuring" /\ ~InStream("READY")
    <2>1. Done # 10
      BY SMTT(20), <1>3
    <2>. QED BY <1>2, <2>1 DEF IInv, AnswerInv, TypeOK
  <1>7. CommandInv'
    <2>1. Done' \in {0, 2, 4, 6, 8, 10} /\ Done' + 1 = Done + 3
      <3>. DEFINE d == Done
                  e == Done'
      <3>1. d \in {0, 2, 4, 6, 8} /\ e = d + 2
        BY <1>3, <1>5
      <3>. HIDE DEF d, e
      <3>2. e \in {0, 2, 4, 6, 8, 10} /\ e + 1 = d + 3
        BY SMTT(20), <3>1
      <3>. QED BY <3>2 DEF d, e
    <2>2. toDaemon' \o conf_out' = SubSeq(CommandCells, Done' + 1, 10)
      BY <1>1, <1>3, <1>4, <2>1
    <2>. QED BY <1>1, <2>1, <2>2 DEF CommandInv
  <1>8. LET c == toDaemon[2].of IN
        \/ /\ c # "STATUS" /\ Apply(c)
           /\ Say("OK") \/ UNCHANGED toBridge
           /\ UNCHANGED causes
        \/ /\ c # "STATUS" /\ Say("ERR") /\ causes' = causes \cup {"ERR"}
           /\ UNCHANGED settings
        \/ c = "STATUS" /\ Say("READY") /\ UNCHANGED <<causes, settings>>
        \/ /\ c = "STATUS" /\ Say("NOTREADY") /\ causes' = causes \cup {"NOTREADY"}
           /\ UNCHANGED settings
    BY <1>3 DEF DaemonCommand
  <1>. QED BY <1>1, <1>3, <1>4, <1>5, <1>6, <1>7, <1>8

(* A SET that is applied adds itself to those of the commands taken. *)
LEMMA ApplyNext ==
    ASSUME IInv, DaemonCommand, NEW cmd, cmd = Commands[(Done + 2) \div 2],
           cmd # "STATUS", Apply(cmd)
    PROVE  SettingsInv' /\ (Applied => Applied')
  <1>. DEFINE d == Done
              e == Done'
  <1>1. d \in {0, 2, 4, 6, 8} /\ e = d + 2 /\ requested' = requested
    BY CommandTaken DEF DaemonCommand
  <1>2. /\ d = 0 => cmd = "TXMODE"
        /\ d = 2 => cmd = "TXQUEUE"
        /\ d = 4 => cmd = "TXRESULT"
        /\ d = 6 => cmd = "RADIO"
        /\ d = 8 => cmd = "STATUS"
    <2>1. /\ d = 0 => (d + 2) \div 2 = 1
          /\ d = 2 => (d + 2) \div 2 = 2
          /\ d = 4 => (d + 2) \div 2 = 3
          /\ d = 6 => (d + 2) \div 2 = 4
          /\ d = 8 => (d + 2) \div 2 = 5
      <3>. HIDE DEF d
      <3>. QED BY SMTT(20)
    <2>. QED BY SMTT(20), <2>1 DEF Commands
  <1>3. applied' = applied \cup {cmd}
    BY DEF Apply
  <1>4. SettingsInv'
    <2>1. cmd \in {"TXMODE", "TXQUEUE", "TXRESULT", "RADIO"}
      BY <1>1, <1>2
    <2>2. CASE cmd = "RADIO"
      BY <1>1, <1>3, <2>1, <2>2 DEF IInv, SettingsInv, Apply
    <2>3. CASE cmd # "RADIO"
      <3>1. radio' = radio /\ (overtaken' <=> overtaken)
        BY <2>3 DEF Apply
      <3>. QED BY <1>1, <1>3, <2>1, <2>3, <3>1 DEF IInv, SettingsInv
    <2>. QED BY <2>2, <2>3
  <1>5. ASSUME Applied PROVE Applied'
    <2>1. /\ d >= 2 => "TXMODE" \in applied
          /\ d >= 4 => "TXQUEUE" \in applied
          /\ d >= 6 => "TXRESULT" \in applied
          /\ d >= 8 => "RADIO" \in applied
      BY <1>5 DEF Applied
    <2>. HIDE DEF d, e
    <2>2. /\ e >= 2 => "TXMODE" \in applied'
          /\ e >= 4 => "TXQUEUE" \in applied'
          /\ e >= 6 => "TXRESULT" \in applied'
          /\ e >= 8 => "RADIO" \in applied'
      BY SMTT(20), <1>1, <1>2, <1>3, <2>1
    <2>. QED BY <2>2 DEF Applied, e
  <1>. QED BY <1>4, <1>5

LEMMA CommandStep == ASSUME IInv, DaemonCommand PROVE IInv'
  <1>. DEFINE cmd == Commands[(Done + 2) \div 2]
  <1>1. /\ state' = state /\ requested' = requested /\ conf_line' = conf_line /\ pc' = pc
        /\ open' = open /\ conf_out' = conf_out
    BY DEF DaemonCommand, buffers
  <1>2. /\ state = "Configuring" /\ ~InStream("READY")
        /\ Done \in {0, 2, 4, 6, 8} /\ Done' = Done + 2
        /\ toDaemon' \in Seq(CommandCell) /\ CommandInv'
    BY CommandTaken
  <1>3. Applied \/ ErrAhead
    BY <1>2 DEF IInv, AnswerInv
  <1>4. /\ {"OK", "ERR", "READY", "NOTREADY"} \subseteq Kinds
    BY DEF Kinds, Broadcasts
  <1>5. CASE cmd # "STATUS" /\ Apply(cmd) /\ UNCHANGED <<toBridge, causes>>
    <2>1. Stream' = Stream
      BY <1>1, <1>5 DEF Stream
    <2>2. /\ Whole(Stream)' /\ CauseInv' /\ LengthInv' /\ DownInv'
          /\ (InStream("READY")' <=> InStream("READY")) /\ (ErrAhead' <=> ErrAhead)
      <3>1. Whole(Stream')
        BY <2>1 DEF IInv
      <3>2. Whole(Stream)'
        BY <3>1 DEF Whole, LineAt
      <3>3. CauseInv'
        BY <1>1, <1>5, <2>1 DEF IInv, CauseInv
      <3>4. LengthInv' /\ DownInv'
        BY <1>1, <1>2, <1>5 DEF IInv, LengthInv, DownInv
      <3>. QED BY <2>1, <3>2, <3>3, <3>4 DEF InStream, ErrAhead
    <2>3. TypeOK'
      BY <1>1, <1>2, <1>5 DEF IInv, TypeOK
    <2>4. SettingsInv' /\ (Applied => Applied')
      BY <1>5, ApplyNext
    <2>5. AnswerInv'
      BY <1>1, <1>2, <1>3, <2>2, <2>4 DEF AnswerInv
    <2>. QED BY <1>2, <2>2, <2>3, <2>4, <2>5 DEF IInv
  <1>6. CASE cmd # "STATUS" /\ Apply(cmd) /\ Say("OK") /\ UNCHANGED causes
    <2>1. /\ Whole(Stream)' /\ CauseInv' /\ LengthInv' /\ DownInv'
          /\ InStream("READY")' => InStream("READY")
          /\ ErrAhead => ErrAhead'
      BY <1>1, <1>2, <1>4, <1>6, SayStep DEF Say
    <2>2. TypeOK'
      <3>1. toBridge' \in Seq(LineCell)
        BY <1>1, <1>4, <1>6, AppendFacts DEF IInv, Say
      <3>. QED BY <1>1, <1>2, <3>1 DEF IInv, TypeOK
    <2>3. SettingsInv' /\ (Applied => Applied')
      BY <1>6, ApplyNext
    <2>4. AnswerInv'
      BY <1>1, <1>2, <1>3, <2>1, <2>3 DEF AnswerInv
    <2>. QED BY <1>2, <2>1, <2>2, <2>3, <2>4 DEF IInv
  <1>7. ASSUME Say("ERR"), causes' = causes \cup {"ERR"}, UNCHANGED settings PROVE IInv'
    <2>1. /\ Whole(Stream)' /\ CauseInv' /\ LengthInv' /\ DownInv'
          /\ InStream("READY")' => InStream("READY")
          /\ ErrAhead'
      BY <1>1, <1>2, <1>4, <1>7, SayStep DEF Say
    <2>2. TypeOK'
      <3>1. toBridge' \in Seq(LineCell)
        BY <1>1, <1>4, <1>7, AppendFacts DEF IInv, Say
      <3>. QED BY <1>1, <1>2, <1>7, <3>1 DEF IInv, TypeOK
    <2>3. AnswerInv'
      BY <1>1, <1>2, <2>1 DEF AnswerInv
    <2>. QED BY <1>1, <1>2, <1>7, <2>1, <2>2, <2>3, SettingsKept DEF IInv
  <1>8. ASSUME cmd = "STATUS", NEW kind \in {"READY", "NOTREADY"}, Say(kind),
               (kind = "READY" /\ causes' = causes) \/ causes' = causes \cup {"NOTREADY"},
               UNCHANGED settings
        PROVE  IInv'
    <2>1. /\ Whole(Stream)' /\ CauseInv' /\ LengthInv' /\ DownInv'
          /\ ErrAhead => ErrAhead'
      BY <1>1, <1>2, <1>4, <1>8, SayStep DEF Say
    <2>2. TypeOK'
      <3>1. toBridge' \in Seq(LineCell)
        BY <1>1, <1>4, <1>8, AppendFacts DEF IInv, Say
      <3>. QED BY <1>1, <1>2, <1>8, <3>1 DEF IInv, TypeOK
    <2>3. Done' = 10 /\ (Applied => Applied')
      <3>. DEFINE d == Done
                  e == Done'
      <3>1. d = 8
        <4>1. d \in {0, 2, 4, 6, 8} /\ Commands[(d + 2) \div 2] = "STATUS"
          BY <1>2, <1>8
        <4>. HIDE DEF d
        <4>2. d # 8 => (d + 2) \div 2 \in 1 .. 4
          BY SMTT(20), <4>1
        <4>3. \A j \in 1 .. 4 : Commands[j] # "STATUS"
          BY SMTT(20) DEF Commands
        <4>. QED BY <4>1, <4>2, <4>3
      <3>2. e = 10
        BY SMTT(20), <1>2, <3>1
      <3>3. ASSUME Applied PROVE Applied'
        <4>1. {"TXMODE", "TXQUEUE", "TXRESULT", "RADIO"} \subseteq applied
          BY SMTT(20), <3>1, <3>3 DEF Applied
        <4>2. applied' = applied
          BY <1>8 DEF settings
        <4>. QED BY <4>1, <4>2 DEF Applied
      <3>. QED BY <3>2, <3>3
    <2>4. AnswerInv'
      BY <1>1, <1>2, <1>3, <2>1, <2>3 DEF AnswerInv
    <2>. QED BY <1>1, <1>2, <1>8, <2>1, <2>2, <2>4, SettingsKept DEF IInv
  <1>9. \/ cmd # "STATUS" /\ Apply(cmd) /\ UNCHANGED <<toBridge, causes>>
        \/ cmd # "STATUS" /\ Apply(cmd) /\ Say("OK") /\ UNCHANGED causes
        \/ Say("ERR") /\ causes' = causes \cup {"ERR"} /\ UNCHANGED settings
        \/ cmd = "STATUS" /\ Say("READY") /\ UNCHANGED <<causes, settings>>
        \/ /\ cmd = "STATUS" /\ Say("NOTREADY") /\ causes' = causes \cup {"NOTREADY"}
           /\ UNCHANGED settings
    BY CommandTaken
  <1>. QED BY <1>5, <1>6, <1>7, <1>8, <1>9

(* A SET that an earlier connection left changes the radio, nothing else. *)
LEMMA StaleStep == ASSUME IInv, DaemonStale PROVE IInv'
  <1>1. /\ state' = state /\ requested' = requested /\ conf_line' = conf_line
        /\ pc' = pc /\ open' = open /\ conf_out' = conf_out /\ toDaemon' = toDaemon
        /\ toBridge' = toBridge /\ causes' = causes
        /\ applied' = applied /\ overtaken' = TRUE
    BY DEF DaemonStale, buffers
  <1>2. Stream' = Stream /\ Done' = Done
    BY <1>1 DEF Stream, Done
  <1>3. Whole(Stream)'
    <2>1. Whole(Stream')
      BY <1>2 DEF IInv
    <2>. QED BY <2>1 DEF Whole, LineAt
  <1>4. CauseInv' /\ LengthInv' /\ DownInv'
    <2>1. CauseInv'
      BY <1>1, <1>2 DEF IInv, CauseInv
    <2>2. LengthInv'
      BY <1>1 DEF IInv, LengthInv
    <2>3. DownInv'
      BY <1>1 DEF IInv, DownInv
    <2>. QED BY <2>1, <2>2, <2>3
  <1>5. TypeOK'
    BY <1>1 DEF IInv, TypeOK
  <1>6. CommandInv' /\ SettingsInv'
    BY <1>1, <1>2 DEF IInv, CommandInv, SettingsInv
  <1>7. AnswerInv'
    <2>1. /\ Applied' <=> Applied
          /\ ErrAhead' <=> ErrAhead
          /\ InStream("READY")' <=> InStream("READY")
      BY <1>1, <1>2 DEF Applied, ErrAhead, InStream
    <2>. QED BY <1>1, <1>2, <2>1 DEF IInv, AnswerInv
  <1>. QED BY <1>3, <1>4, <1>5, <1>6, <1>7 DEF IInv
-------------------------------------------------------------------------------
(* The theorems. *)

LEMMA IInvStep == IInv /\ [Next]_vars => IInv'
  <1>. SUFFICES ASSUME IInv, [Next]_vars PROVE IInv'
    OBVIOUS
  <1>1. CASE UNCHANGED vars
    <2>1. /\ state' = state /\ requested' = requested /\ conf_line' = conf_line /\ pc' = pc
          /\ open' = open /\ conf_out' = conf_out /\ settings' = settings
          /\ toDaemon' = toDaemon /\ toBridge' = toBridge /\ causes' = causes
      BY <1>1 DEF vars, buffers, daemon
    <2>2. TypeOK' /\ DownInv' /\ LengthInv'
      BY <2>1 DEF IInv, TypeOK, DownInv, LengthInv
    <2>3. Stream' = Stream
      BY <2>1 DEF Stream
    <2>. QED BY <2>1, <2>2, <2>3, QuietStep
  <1>2. ASSUME NEW cfg \in Requests, BeginConfigure(cfg) PROVE IInv'
    BY <1>2, BeginStep
  <1>3. CASE PollConfiguring
    BY <1>3, PollConfiguringStep
  <1>4. CASE PollOperational
    BY <1>4, PollOperationalStep
  <1>5. CASE Recv
    BY <1>5, RecvStep
  <1>6. CASE TakeLine
    BY <1>6, TakeLineStep
  <1>7. CASE LinesDone
    BY <1>7, LinesDoneStep
  <1>8. CASE DaemonCommand
    BY <1>8, CommandStep
  <1>9. CASE DaemonStale
    BY <1>9, StaleStep
  <1>10. CASE Lose \/ Late
    BY <1>10, EnvironmentStep
  <1>11. ASSUME NEW kind \in Unasked, DaemonUnasked(kind) PROVE IInv'
    BY <1>11, UnaskedStep
  <1>. QED BY <1>1, <1>2, <1>3, <1>4, <1>5, <1>6, <1>7, <1>8, <1>9, <1>10, <1>11 DEF Next

(* The inductive invariant of the CONF connection. *)
THEOREM ChannelInvariant == Spec => []IInv
  BY InitHolds, IInvStep, PTL DEF Spec

(* pump_conf() and advance_configure(): a Ready backend stands on a daemon  *)
(* that applied all the SETs of this connection, and only a SET left by an  *)
(* earlier one can have changed the radio since.                            *)
THEOREM AppliedIsExact == Spec => []AppliedExactly
  <1>1. IInv => AppliedExactly
    <2>. SUFFICES ASSUME IInv, state = "Ready"
                  PROVE  /\ applied = {"TXMODE", "TXQUEUE", "TXRESULT", "RADIO"}
                         /\ radio = requested \/ overtaken
      BY DEF AppliedExactly
    <2>1. Done = 10 /\ Applied
      BY DEF IInv, AnswerInv
    <2>2. {"TXMODE", "TXQUEUE", "TXRESULT", "RADIO"} \subseteq applied
      BY SMTT(20), <2>1 DEF Applied
    <2>. QED BY <2>2 DEF IInv, SettingsInv
  <1>. QED BY <1>1, ChannelInvariant, PTL

(* config_fail() and handle_disconnect(): the bridge gives up a connection  *)
(* only for something the daemon or the clock did.                          *)
THEOREM NoFailureWithoutCause == Spec => FailsForCause
  <1>1. ASSUME IInv, [Next]_vars, state # "Disconnected", state' = "Disconnected"
        PROVE  causes # {}
    <2>1. ASSUME PollConfiguring PROVE causes # {}
      <3>1. "late" \in causes \/ ~open
        BY <1>1, <2>1 DEF PollConfiguring
      <3>. QED BY <1>1, <3>1 DEF IInv, CauseInv
    <2>2. ASSUME Recv PROVE causes # {}
      <3>1. CASE ~open
        BY <1>1, <3>1 DEF IInv, CauseInv
      <3>2. ASSUME NEW n \in 1 .. ReadChunk, n <= Len(toBridge),
                   TooLong(conf_line \o Front(toBridge, n))
            PROVE  causes # {}
        <4>1. /\ ReadChunk \in Nat /\ Len(toBridge) \in Nat /\ Len(conf_line) \in Nat
              /\ conf_line \in Seq(LineCell) /\ toBridge \in Seq(LineCell)
          BY <1>1, WidthAssumption, LenProperties DEF IInv, TypeOK
        <4>2. n \in 0 .. Len(toBridge) /\ n \in Nat /\ n <= ReadChunk
          BY SMTT(20), <3>2, <4>1
        <4>3. Front(toBridge, n) \in Seq(LineCell) /\ Len(Front(toBridge, n)) = n
          BY <4>1, <4>2, FrontBehind
        <4>4. Len(conf_line \o Front(toBridge, n)) = Len(conf_line) + n
          BY <4>1, <4>3, ConcatProperties
        <4>5. Len(conf_line) + n > MaxConfLine
          BY <3>2, <4>4 DEF TooLong
        <4>6. ~(Len(conf_line) <= ReadChunk)
          BY SMTT(20), <4>1, <4>2, <4>5, WidthAssumption
        <4>. QED BY <2>2, <4>6, <1>1 DEF IInv, LengthInv, Recv
      <3>. QED BY <1>1, <2>2, <3>1, <3>2 DEF Recv
    <2>3. ASSUME TakeLine PROVE causes # {}
      <3>. DEFINE n == LineLen(conf_line)
                  kind == KindOf(Front(conf_line, n))
                  status == kind = "READY" /\ state = "Configuring"
      <3>1. n > 0 /\ kind \notin Tolerated /\ ~status
        BY <1>1, <2>3 DEF TakeLine
      <3>2. /\ n \in 1 .. Len(conf_line) /\ n = Width[kind] /\ kind \in Kinds
            /\ Stream = Cells(kind) \o (Behind(conf_line, n) \o toBridge)
            /\ \A p \in 1 .. n : Stream[p] = Cell(kind, p, p = n)
        BY <1>1, <3>1, FirstLine DEF IInv
      <3>3. 1 \in 1 .. Len(Stream) /\ Stream[1].of = kind
        <4>1. Len(conf_line) \in Nat /\ Len(toBridge) \in Nat
              /\ conf_line \in Seq(LineCell) /\ toBridge \in Seq(LineCell)
          BY <1>1, LenProperties DEF IInv, TypeOK
        <4>2. Len(Stream) = Len(conf_line) + Len(toBridge)
          BY <4>1, ConcatProperties DEF Stream
        <4>3. 1 \in 1 .. n /\ 1 \in 1 .. Len(Stream)
          BY SMTT(20), <3>2, <4>1, <4>2
        <4>4. Stream[1] = Cell(kind, 1, 1 = n)
          BY <3>2, <4>3
        <4>. HIDE DEF kind, n
        <4>. QED BY SMTT(20), <4>3, <4>4 DEF Cell
      <3>4. state \in {"Configuring", "Ready"}
        BY <1>1 DEF IInv, TypeOK
      <3>. HIDE DEF kind, n
      <3>. QED BY <1>1, <3>1, <3>3, <3>4 DEF IInv, CauseInv, Tolerated
    <2>. QED BY <1>1, <2>1, <2>2, <2>3 DEF Next, vars, BeginConfigure, PollOperational,
                LinesDone, DaemonCommand, DaemonStale, DaemonUnasked, Lose, Late
  <1>2. IInv /\ [Next]_vars
            => [state # "Disconnected" /\ state' = "Disconnected" => causes # {}]_vars
    BY <1>1
  <1>. QED BY <1>2, ChannelInvariant, PTL DEF Spec, FailsForCause

(* The configurations are counted. *)
LEMMA ConfigsCounted == Spec => [](configs \in Nat)
  <1>1. Init => configs \in Nat
    BY SMTT(20) DEF Init
  <1>2. configs \in Nat /\ [Next]_vars => (configs \in Nat)'
    <2>. SUFFICES ASSUME configs \in Nat, [Next]_vars PROVE configs' \in Nat
      OBVIOUS
    <2>1. CASE \E cfg \in Requests : BeginConfigure(cfg)
      BY SMTT(20), <2>1 DEF BeginConfigure, vars
    <2>2. CASE PollConfiguring
      BY <2>2 DEF PollConfiguring, Fail
    <2>3. CASE PollOperational
      BY <2>3 DEF PollOperational, Fail
    <2>4. CASE Recv
      BY <2>4 DEF Recv, Fail
    <2>5. CASE TakeLine
      BY <2>5 DEF TakeLine, Fail
    <2>6. CASE LinesDone
      BY <2>6 DEF LinesDone, Fail
    <2>7. CASE \/ DaemonCommand \/ DaemonStale \/ Lose \/ Late
               \/ \E kind \in Unasked : DaemonUnasked(kind)
      BY <2>7 DEF DaemonCommand, DaemonStale, DaemonUnasked, Lose, Late
    <2>8. CASE UNCHANGED vars
      BY <2>8 DEF vars
    <2>. QED BY <2>1, <2>2, <2>3, <2>4, <2>5, <2>6, <2>7, <2>8 DEF Next
  <1>. QED BY <1>1, <1>2, PTL DEF Spec

(* pump_conf(): however the reads cut the stream, the backend sees the      *)
(* daemon's lines whole, in order, each once, and does what each one says.  *)
THEOREM LinesArriveWhole == Spec => LineLevel
  <1>. DEFINE Level ==
          \/ UNCHANGED Stream
          \/ \E kind \in Kinds : Stream' = Stream \o Cells(kind)
          \/ \E kind \in Kinds : Stream = Cells(kind) \o Stream' /\ state' = Verdict(kind)
          \/ Stream' = <<>> /\ (state' = "Disconnected" \/ configs' # configs)
  <1>1. ASSUME Fail PROVE Level
    <2>1. conf_line' = <<>> /\ toBridge' = <<>> /\ state' = "Disconnected"
      BY <1>1 DEF Fail, CloseLink
    <2>. QED BY <2>1, EmptyStream DEF Stream
  <1>2. ASSUME conf_line' = conf_line, toBridge' = toBridge PROVE Level
    BY <1>2 DEF Stream
  <1>3. ASSUME IInv, NEW kind \in Kinds, Say(kind), conf_line' = conf_line PROVE Level
    BY <1>3, AppendFacts DEF IInv, Say
  <1>4. ASSUME configs \in Nat, NEW cfg \in Requests, BeginConfigure(cfg) PROVE Level
    <2>1. CASE UNCHANGED vars
      BY <1>2, <2>1 DEF vars, buffers
    <2>2. CASE CloseLink /\ configs' = configs + 1
      <3>1. conf_line' = <<>> /\ toBridge' = <<>>
        BY <2>2 DEF CloseLink
      <3>2. Stream' = <<>>
        BY <3>1, EmptyStream DEF Stream
      <3>3. configs' # configs
        BY SMTT(20), <1>4, <2>2
      <3>. QED BY <3>2, <3>3
    <2>. QED BY <1>4, <2>1, <2>2 DEF BeginConfigure
  <1>5. ASSUME PollConfiguring PROVE Level
    BY <1>1, <1>2, <1>5 DEF PollConfiguring
  <1>6. ASSUME IInv, Recv PROVE Level
    <2>1. ASSUME NEW n \in 1 .. ReadChunk, n <= Len(toBridge),
                 conf_line' = conf_line \o Front(toBridge, n), toBridge' = Behind(toBridge, n)
          PROVE  UNCHANGED Stream
      <3>1. conf_line \in Seq(LineCell) /\ toBridge \in Seq(LineCell) /\ Len(toBridge) \in Nat
        BY <1>6, LenProperties DEF IInv, TypeOK
      <3>2. n \in 0 .. Len(toBridge)
        BY SMTT(20), <2>1, <3>1, WidthAssumption
      <3>. DEFINE a == Front(toBridge, n)
                  b == Behind(toBridge, n)
      <3>3. a \in Seq(LineCell) /\ b \in Seq(LineCell) /\ a \o b = toBridge
        BY <3>1, <3>2, FrontBehind
      <3>4. Stream' = (conf_line \o a) \o b
        BY <2>1 DEF Stream
      <3>. HIDE DEF a, b
      <3>5. (conf_line \o a) \o b = conf_line \o (a \o b)
        <4>1. conf_line \in Seq(LineCell) /\ a \in Seq(LineCell) /\ b \in Seq(LineCell)
          BY <3>1, <3>3
        <4>. QED BY SMTT(20), <4>1, ConcatAssociative
      <3>. QED BY <3>3, <3>4, <3>5 DEF Stream
    <2>. QED BY <1>1, <1>2, <1>6, <2>1 DEF Recv
  <1>7. ASSUME IInv, TakeLine PROVE Level
    <2>. DEFINE n == LineLen(conf_line)
                kind == KindOf(Front(conf_line, n))
                status == kind = "READY" /\ state = "Configuring"
    <2>1. CASE Fail
      BY <1>1, <2>1
    <2>2. CASE /\ kind \in Tolerated \/ status
               /\ conf_line' = Erased(n) /\ toBridge' = toBridge
               /\ state' = IF status THEN "Ready" ELSE state
      <3>1. n > 0
        BY <1>7 DEF TakeLine
      <3>2. kind \in Kinds /\ Stream = Cells(kind) \o (Behind(conf_line, n) \o toBridge)
        BY <1>7, <3>1, FirstLine DEF IInv
      <3>3. Stream = Cells(kind) \o Stream'
        BY <2>2, <3>2 DEF Stream, Erased
      <3>. HIDE DEF kind, n
      <3>4. state' = Verdict(kind)
        BY <2>2 DEF Verdict, Tolerated, Broadcasts
      <3>. QED BY <3>2, <3>3, <3>4
    <2>. QED BY <1>7, <2>1, <2>2 DEF TakeLine
  <1>8. ASSUME IInv, DaemonCommand PROVE Level
    <2>1. {"OK", "ERR", "READY", "NOTREADY"} \subseteq Kinds
      BY DEF Kinds, Broadcasts
    <2>2. conf_line' = conf_line
      BY <1>8 DEF DaemonCommand, buffers
    <2>. HIDE DEF Level
    <2>. QED BY <1>2, <1>3, <1>8, <2>1, <2>2 DEF DaemonCommand
  <1>9. ASSUME IInv, NEW kind \in Unasked, DaemonUnasked(kind) PROVE Level
    <2>1. kind \in Kinds /\ conf_line' = conf_line /\ Say(kind)
      BY <1>9, DaemonAssumption DEF DaemonUnasked, buffers
    <2>. HIDE DEF Level
    <2>. QED BY <1>3, <1>9, <2>1
  <1>10. ASSUME \/ UNCHANGED vars \/ PollOperational \/ LinesDone \/ DaemonStale
                \/ Lose \/ Late
         PROVE  Level
    <2>1. conf_line' = conf_line /\ toBridge' = toBridge
      BY <1>10 DEF vars, PollOperational, LinesDone, DaemonStale, Lose, Late, buffers
    <2>. QED BY <1>2, <2>1
  <1>11. configs \in Nat /\ IInv /\ [Next]_vars => [Level]_vars
    <2>. HIDE DEF Level
    <2>. QED BY <1>4, <1>5, <1>6, <1>7, <1>8, <1>9, <1>10 DEF Next
  <1>. QED BY <1>11, ConfigsCounted, ChannelInvariant, PTL DEF Spec, LineLevel
===============================================================================
