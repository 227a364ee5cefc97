---------------------------- MODULE MCConfChannel ----------------------------
(* ConfChannel for TLC: reads of two cells, a buffer of four, and the line  *)
(* widths at their limits: a broadcast of one cell more than a read.        *)
EXTENDS ConfChannel

MCWidth == [kind \in Kinds |->
    CASE kind \in {"READY", "NOTREADY"} -> 2
      [] kind = "BROADCAST"             -> 3
      [] kind = "LONG"                  -> 5
      [] OTHER                          -> 1]

(* Two configurations the policy accepts and one it refuses. *)
MCRequests == {[Base EXCEPT !.bw_hz = 31250], [Base EXCEPT !.freq_hz = 868300000],
               [Base EXCEPT !.sf = 6]}
===============================================================================
