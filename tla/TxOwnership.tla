------------------------------ MODULE TxOwnership ------------------------------
(***************************************************************************)
(* What the bridge promises about the ownership of a TX frame, as          *)
(* loraham_backend.h describes it: a frame is the bridge's until it is     *)
(* completely written, then the daemon's until the daemon is known to be   *)
(* done with it.  While the daemon may still transmit a frame nobody       *)
(* submits another; if the bridge can no longer learn what became of it,   *)
(* it never transmits again.  LorahamBackend implements this.              *)
(***************************************************************************)
EXTENDS FiniteSets

CONSTANTS Frames, NoFrame

VARIABLES
    owner,      \* of the current frame: nobody, bridge, daemon, or unknown
    frame,      \* the current frame
    inDaemon    \* frames the daemon may still transmit

ovars == <<owner, frame, inDaemon>>

OwnershipInit == owner = "nobody" /\ frame = NoFrame /\ inDaemon = {}

(* The frame is written at once, or only in part. *)
Submit(f) ==
    /\ owner = "nobody" /\ inDaemon = {}
    /\ frame' = f
    /\ \/ owner' = "bridge" /\ UNCHANGED inDaemon
       \/ owner' = "daemon" /\ inDaemon' = {f}

HandOver ==
    /\ owner = "bridge" /\ inDaemon = {}
    /\ owner' = "daemon" /\ inDaemon' = {frame}
    /\ UNCHANGED frame

(* A frame that was never completely written is dropped. *)
Discard ==
    /\ owner = "bridge"
    /\ owner' = "nobody" /\ frame' = NoFrame
    /\ UNCHANGED inDaemon

(* The daemon transmits a frame or gives it up. *)
Finish(f) ==
    /\ f \in inDaemon
    /\ inDaemon' = inDaemon \ {f}
    /\ UNCHANGED <<owner, frame>>

(* The bridge learns that the daemon is done. *)
Clear ==
    /\ owner = "daemon" /\ frame \notin inDaemon
    /\ owner' = "nobody" /\ frame' = NoFrame
    /\ UNCHANGED inDaemon

(* The bridge can no longer learn it. *)
Lose ==
    /\ owner = "daemon"
    /\ owner' = "unknown" /\ frame' = NoFrame
    /\ UNCHANGED inDaemon

OwnershipNext ==
    \/ \E f \in Frames : Submit(f) \/ Finish(f)
    \/ HandOver \/ Discard \/ Clear \/ Lose

OwnershipSpec == OwnershipInit /\ [][OwnershipNext]_ovars
===============================================================================
