-------------------------------- MODULE MCLink --------------------------------
(* Link for TLC: a configuration, and one that differs in the sign of a field. *)
EXTENDS Link

MCDesired ==
    [freq_hz |-> 433775000, bw_hz |-> 250000, sf |-> 11, cr_denom |-> 6,
     sync_word |-> 43, preamble |-> 32, tx_power_dbm |-> -1, crc |-> 1, ldro |-> 0]
MCOthers == {[MCDesired EXCEPT !.tx_power_dbm = 1]}
===============================================================================
