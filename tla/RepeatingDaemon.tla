---------------------------- MODULE RepeatingDaemon ----------------------------
(***************************************************************************)
(* The LoRaHAM backend with a daemon that may answer a frame a second time *)
(* on the link the frame came from.  The sequence number of a TX_RESULT is *)
(* the daemon's own and dispatch() does not use it, so this asks what the  *)
(* backend's epoch test protects from.                                     *)
(***************************************************************************)
EXTENDS LorahamBackend

DaemonRepeat(id, answer) ==
    /\ id \in slot
    /\ fate[id] = IF answer = "OK" THEN "ok" ELSE "failed"
    /\ SendData(ResultFrame(id, answer))
    /\ UNCHANGED <<ctl, config, tx, dataSock, confSock, confIn, confDone,
                   rejected, slot, hist>>

RepeatNext ==
    \/ Next
    \/ \E id \in TxIds, answer \in Statuses \cup {"ERROR"} : DaemonRepeat(id, answer)
RepeatSpec == Init /\ [][RepeatNext]_vars
===============================================================================
