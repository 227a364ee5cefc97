------------------------------ MODULE ConfPolicy ------------------------------
(***************************************************************************)
(* The configuration policy of the LoRaHAM backend (loraham_config.cpp):   *)
(* which radio configurations of the XR client the daemon can apply, and   *)
(* the SET command that applies one.                                       *)
(*                                                                         *)
(* A command is modelled by what its text says, field by field.  A decimal *)
(* number is its integer part, the value of the digits behind the point,   *)
(* and how many they are, so that 62.5 and 62.05 differ.                   *)
(*                                                                         *)
(* A double is modelled exactly, as a multiple of a power of two.  Its 53  *)
(* bits are beyond TLC's integers: what build_set_command writes is proved *)
(* in ConfChannelProofs, and ConfChannel carries the configuration that a  *)
(* command was built from.                                                 *)
(***************************************************************************)
EXTENDS Integers

(* extradio::RadioConfig, with the widths of its fields. *)
UInt8 == 0 .. 2^8 - 1
UInt16 == 0 .. 2^16 - 1
UInt32 == 0 .. 2^32 - 1
Int8 == -128 .. 127
RadioConfig ==
    [freq_hz : UInt32, bw_hz : UInt32, sf : UInt8, cr_denom : UInt8,
     sync_word : UInt16, preamble : UInt16, tx_power_dbm : Int8,
     crc : UInt8, ldro : UInt8]

select_band(freq_hz) ==
    CASE freq_hz >= 137000000 /\ freq_hz <= 525000000 -> "433"
      [] freq_hz >= 779000000 /\ freq_hz <= 960000000 -> "868"
      [] OTHER                                        -> "none"

Decimal(int, frac, digits) == [int |-> int, frac |-> frac, digits |-> digits]

(* The bandwidths of kBwTable, and their tokens in kHz. *)
Bandwidths == {7800, 10400, 15600, 20800, 31250, 41700, 62500, 125000, 250000, 500000}
bandwidth_token(bw_hz) ==
    CASE bw_hz = 7800   -> Decimal(7, 8, 1)
      [] bw_hz = 10400  -> Decimal(10, 4, 1)
      [] bw_hz = 15600  -> Decimal(15, 6, 1)
      [] bw_hz = 20800  -> Decimal(20, 8, 1)
      [] bw_hz = 31250  -> Decimal(31, 25, 2)
      [] bw_hz = 41700  -> Decimal(41, 7, 1)
      [] bw_hz = 62500  -> Decimal(62, 5, 1)
      [] bw_hz = 125000 -> Decimal(125, 0, 0)
      [] bw_hz = 250000 -> Decimal(250, 0, 0)
      [] bw_hz = 500000 -> Decimal(500, 0, 0)

(* validate_config returns Ok. *)
validate_config(cfg) ==
    /\ select_band(cfg.freq_hz) # "none"
    /\ cfg.bw_hz \in Bandwidths
    /\ cfg.sf \in 7 .. 12
    /\ cfg.cr_denom \in 5 .. 8
    /\ cfg.sync_word <= 255
    /\ cfg.preamble >= 6
    /\ cfg.tx_power_dbm \in 0 .. 20
    /\ cfg.crc <= 1
    /\ cfg.ldro <= 1

(* a / b rounded to the nearest integer, a tie to the even one: how IEEE    *)
(* division rounds, and printf.                                             *)
Nearest(a, b) ==
    LET q == a \div b
        twice == 2 * (a % b) IN
    IF twice < b \/ (twice = b /\ q % 2 = 0) THEN q ELSE q + 1

(* The doubles near the MHz value of a valid carrier are the multiples of   *)
(* 1 / Ulps: 53 bits, of which 8, 9 or 10 are before the point.             *)
Ulps(freq_hz) ==
    CASE freq_hz < 256000000                          -> 2^20 * 2^25
      [] freq_hz >= 256000000 /\ freq_hz < 512000000  -> 2^20 * 2^24
      [] freq_hz >= 512000000                         -> 2^20 * 2^23

(* freq_mhz = freq_hz / 1000000.0, in units of 1 / Ulps. *)
freq_mhz(freq_hz) == Nearest(freq_hz * Ulps(freq_hz), 1000000)

(* Its %.6f, in units of the last digit printed. *)
Printed(freq_hz) == Nearest(freq_mhz(freq_hz) * 1000000, Ulps(freq_hz))

(* The SET MODE=LORA command of a valid configuration: the carrier in MHz   *)
(* with six digits, the low byte of the sync word.                          *)
build_set_command(cfg) ==
    LET micros == Printed(cfg.freq_hz) IN
    [FREQ |-> Decimal(micros \div 1000000, micros % 1000000, 6),
     BW |-> bandwidth_token(cfg.bw_hz), SF |-> cfg.sf, CR |-> cfg.cr_denom,
     CRC |-> cfg.crc, PREAMBLE |-> cfg.preamble, SYNC |-> cfg.sync_word % 256,
     LDRO |-> cfg.ldro, POWER |-> cfg.tx_power_dbm]
-------------------------------------------------------------------------------
(* The number a decimal denotes, in units of 10^-unit. *)
Value(decimal, unit) ==
    decimal.int * 10^unit + decimal.frac * 10^(unit - decimal.digits)

(* The configuration that the text of a SET command spells out: FREQ is in  *)
(* MHz, BW in kHz.  To what precision a daemon then keeps these numbers is  *)
(* the daemon's own affair.                                                 *)
Spelled(cmd) ==
    [freq_hz |-> Value(cmd.FREQ, 6), bw_hz |-> Value(cmd.BW, 3), sf |-> cmd.SF,
     cr_denom |-> cmd.CR, sync_word |-> cmd.SYNC, preamble |-> cmd.PREAMBLE,
     tx_power_dbm |-> cmd.POWER, crc |-> cmd.CRC, ldro |-> cmd.LDRO]

(* The text of a SET command spells out exactly the configuration that the  *)
(* session echoes to the client as effective: dividing the carrier in a     *)
(* double and printing it with six digits loses no Hz, no token of kBwTable *)
(* is off, and no field is cut.                                             *)
SaysExactly(cfg) == validate_config(cfg) => Spelled(build_set_command(cfg)) = cfg
===============================================================================
