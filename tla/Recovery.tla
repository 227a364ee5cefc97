------------------------------- MODULE Recovery -------------------------------
(***************************************************************************)
(* The LoRaHAM backend over the life of several bridge processes.  The     *)
(* process may end at any moment: by a signal, between two turns of the    *)
(* event loop (main.cpp), or by a crash anywhere.  Its memory is lost, its *)
(* sockets are closed, and the daemon goes on with the frame it holds.     *)
(*                                                                         *)
(* Nothing restarts the bridge by itself.  The operator does, along the    *)
(* procedure of the README ("Safe recovery after an uncertain pending      *)
(* TX"): if the process ended when a frame may have been with the daemon,  *)
(* the daemon is stopped gracefully and restarted first.                   *)
(***************************************************************************)
EXTENDS LorahamBackend

VARIABLES
    up,         \* the bridge process runs
    uncertain,  \* it ended when a frame may have been with the daemon
    orphans     \* frames that were in tx_out_ when a process ended

process == <<up, uncertain, orphans>>
rvars == <<vars, process>>

RInit == Init /\ up = TRUE /\ uncertain = FALSE /\ orphans = {}

(* The process is gone.  On a signal run() returns, the RF log is closed    *)
(* and then the connection's destructor abandons the TX: like a crash, it   *)
(* writes no line for a frame that is still pending.                        *)
Exit ==
    /\ up /\ up' = FALSE
    /\ uncertain' = (state \in {"TxPending", "Draining", "Faulted"})
    /\ orphans' = orphans \cup ({txOut} \ {0})
    /\ state' = "Disconnected" /\ pc' = "idle" /\ attached' = FALSE
    /\ config_token' = 0 /\ confLeft' = 0 /\ cfgTimer' = 0
    /\ txOut' = 0 /\ txLeft' = 0 /\ epoch_current' = TRUE /\ drainTimer' = 0
    /\ TransportClose
    /\ UNCHANGED hist

(* The operator stops the daemon and waits for its clean exit: a frame it   *)
(* held is transmitted or dropped by then.                                  *)
RestartDaemon ==
    /\ ~up /\ uncertain
    /\ uncertain' = FALSE
    /\ \E outcome \in {"ok", "failed"} :
          fate' = [id \in TxIds |-> IF fate[id] = "held" THEN outcome ELSE fate[id]]
    /\ UNCHANGED <<ctl, config, tx, link, lastTx, rflog, delivered, up, orphans>>

RestartBridge ==
    /\ ~up /\ ~uncertain
    /\ up' = TRUE
    /\ UNCHANGED <<vars, uncertain, orphans>>

RPoll == up /\ Poll /\ UNCHANGED process
RNext ==
    \/ up /\ Caller /\ UNCHANGED process
    \/ RPoll
    \/ (Tick \/ Daemon) /\ UNCHANGED process
    \/ Exit \/ RestartDaemon \/ RestartBridge

RSpec == RInit /\ [][RNext]_rvars

(* The server calls poll() in every turn of its loop while the process runs, *)
(* and the clock runs; DataStop and ConfStop say that a read loop ends,      *)
(* because the radio cannot fill 512-byte reads faster than the bridge       *)
(* empties them.  Nothing is assumed of the daemon or the operator.          *)
RFairSpec ==
    /\ RSpec
    /\ WF_rvars(Tick /\ UNCHANGED process)
    /\ WF_rvars(RPoll)
    /\ WF_rvars(ConfStop(NoEvent) /\ UNCHANGED process)
    /\ WF_rvars(DataStop(NoEvent) /\ UNCHANGED process)
-------------------------------------------------------------------------------
(* Properties. *)

(* Over any number of crashes, shutdowns and restarts a frame is handed to  *)
(* the daemon only when the daemon holds no other: the states of the        *)
(* backend that make the operator restart the daemon are the right ones.    *)
HandedOverAlone ==
    [][\A id \in TxIds : fate[id] # "held" /\ fate'[id] = "held" =>
          \A other \in TxIds : fate[other] # "held"]_rvars

(* The RF log misses a frame that was transmitted, or may yet be, only if   *)
(* the process ended while it was waiting on that very frame.               *)
LogGapsAreOrphans ==
    \A id \in TxIds : fate[id] \in {"held", "ok"} /\ id # txOut =>
        (rflog[id] = <<>> <=> id \in orphans)
===============================================================================
