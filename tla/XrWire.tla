-------------------------------- MODULE XrWire --------------------------------
(***************************************************************************)
(* The frames of the XR protocol as both ends see them, after the parser   *)
(* has cut the stream (external_radio_protocol.cpp; the parser itself is   *)
(* in FrameStream).  A payload is the bytes the code looks into, or an     *)
(* abstract value where it only copies; len is the length field.           *)
(***************************************************************************)
EXTENDS Integers, Sequences

kVersion == 1
kAuthNonceSize == 16
kAuthResponseSize == 32
kMaxLoraPayload == 255
kConfigPayloadSize == 17

Frame(type, seq, len, payload) ==
    [type |-> type, seq |-> seq, len |-> len, payload |-> payload]
Control(type, bytes) == Frame(type, 0, Len(bytes), bytes)

isBool(byte) == byte \in {0, 1}
radioConfigValid(cfg) == isBool(cfg.crc) /\ isBool(cfg.ldro)

(* The i-th byte of a number, big-endian: put16 and put32. *)
Byte(v, i) == (v \div 256^i) % 256
get16(p, i) == p[i] * 256 + p[i + 1]
get32(p, i) == p[i] * 256^3 + p[i + 1] * 256^2 + p[i + 2] * 256 + p[i + 3]

(* packConfig() of the codec and pack_config() of the session. *)
packConfig(cfg) ==
    <<Byte(cfg.freq_hz, 3), Byte(cfg.freq_hz, 2), Byte(cfg.freq_hz, 1), Byte(cfg.freq_hz, 0),
      Byte(cfg.bw_hz, 3), Byte(cfg.bw_hz, 2), Byte(cfg.bw_hz, 1), Byte(cfg.bw_hz, 0),
      cfg.sf, cfg.cr_denom,
      Byte(cfg.sync_word, 1), Byte(cfg.sync_word, 0),
      Byte(cfg.preamble, 1), Byte(cfg.preamble, 0),
      cfg.tx_power_dbm % 256, cfg.crc, cfg.ldro>>

(* unpackConfig() of a payload that validate() accepts. *)
unpackConfig(p) ==
    [freq_hz |-> get32(p, 1), bw_hz |-> get32(p, 5), sf |-> p[9],
     cr_denom |-> p[10], sync_word |-> get16(p, 11), preamble |-> get16(p, 13),
     tx_power_dbm |-> IF p[15] > 127 THEN p[15] - 256 ELSE p[15],
     crc |-> p[16], ldro |-> p[17]]

(* validate() returns ERR_NONE. *)
validate(f) ==
    /\ (f.seq # 0) = (f.type \in {"TX_REQUEST", "TX_RESULT"})
    /\ CASE f.type \in {"HELLO", "HELLO_ACK"} -> f.len = 1 /\ f.payload[1] = kVersion
         [] f.type = "AUTH_CHALLENGE" -> f.len = kAuthNonceSize
         [] f.type = "AUTH_RESPONSE"  -> f.len = kAuthResponseSize
         [] f.type = "AUTH_RESULT"    -> f.len = 1 /\ isBool(f.payload[1])
         [] f.type = "CONFIGURE"      ->
               f.len = kConfigPayloadSize /\ isBool(f.payload[16]) /\ isBool(f.payload[17])
         [] f.type = "CONFIG_RESULT"  ->
               \/ f.len = 1 /\ f.payload[1] # 0
               \/ /\ f.len = 1 + kConfigPayloadSize /\ f.payload[1] = 0
                  /\ isBool(f.payload[17]) /\ isBool(f.payload[18])
         [] f.type = "RX_PACKET"      ->
               /\ f.len >= 6
               /\ LET dlen == get16(f.payload, 5)
                  IN  dlen <= kMaxLoraPayload /\ f.len = 6 + dlen
         [] f.type = "TX_REQUEST"     -> f.len <= kMaxLoraPayload
         [] f.type \in {"TX_RESULT", "ERROR"} -> f.len = 1 /\ f.payload[1] <= 3
         [] f.type \in {"PING", "PONG"} -> f.len = 0
         [] OTHER                     -> FALSE
===============================================================================
