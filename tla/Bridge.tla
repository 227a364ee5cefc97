-------------------------------- MODULE Bridge --------------------------------
(***************************************************************************)
(* The bridge process: the event loop of XrServer (xr_server.cpp) with its *)
(* one XrConnection (xr_connection.cpp), the session of that connection    *)
(* and the LoRaHAM backend, joined as the code joins them: the session's   *)
(* calls are calls of the backend, the backend's callbacks are calls of    *)
(* the session, each in one step.                                          *)
(*                                                                         *)
(* One turn of the loop, poll_once(), is                                   *)
(*    accept -> read -> poll -> tick -> flush                              *)
(* and loop says which comes next.  The client, the daemon and the clock   *)
(* run at any time.  The client may send any frame at any time, stop       *)
(* reading, or close; it gives each frame it transmits a new XR sequence   *)
(* number, which then names the frame in every part of the model (the      *)
(* bridge only ever echoes it).  Mutants are as in LorahamBackend.         *)
(***************************************************************************)
EXTENDS LorahamBackend

CONSTANTS
    MaxOutbox, HandshakeTimeout, AuthTimeout, SessionConfigTimeout, TxTimeout,
    PingInterval, PongTimeout, PasswordConfigured

ASSUME QueueAssumption == MaxOutbox \in Nat

VARIABLES
    phase, deadline, config_op_token, tx_in_flight, tx_seq, tx_deadline,
    awaiting_pong, ping_timer, outbox,
    loop,           \* the next part of poll_once()
    socket_error,   \* socket_error_ of the connection
    firstTx         \* frames submitted before this connection was accepted

S == INSTANCE XrSession
        WITH ConfigTimeout <- SessionConfigTimeout, Seqs <- 1 .. MaxTx,
             Tokens <- 0 .. U32 - 1

server == <<loop, socket_error, firstTx>>
unattached == <<state, pc, config_token, confLeft, cfgTimer, drainTimer,
                txOut, txLeft, epoch_current, dataSock, confSock, confIn,
                dataIn, confDone, rejected, slot, fate, lastTx, rflog, delivered>>
svars == <<phase, deadline, config_op_token, tx_in_flight, tx_seq, tx_deadline,
           awaiting_pong, ping_timer, outbox>>
bridge == <<vars, svars, server>>

BridgeInit ==
    /\ Init /\ S!SessionInit
    /\ loop = "accept" /\ socket_error = FALSE /\ firstTx = 0
-------------------------------------------------------------------------------
(* try_accept: conn_ is set exactly when the backend is attached.  A       *)
(* connection accepted in this turn is not read in it; a newcomer is       *)
(* closed at once while there is a connection.                             *)
Accept ==
    /\ loop = "accept" /\ ~attached
    /\ Attach /\ S!open
    /\ loop' = "poll" /\ socket_error' = FALSE /\ firstTx' = lastTx

NoAccept ==
    /\ loop = "accept"
    /\ loop' = IF attached THEN "read" ELSE "poll"
    /\ UNCHANGED <<vars, svars, socket_error, firstTx>>

(* service_read: frames are fed one by one until the session is closed.    *)
Frame ==
    \/ S!Client /\ UNCHANGED vars
    \/ \E token \in 0 .. U32 - 1 : S!OnConfigure(token) /\ BeginConfigure(token)
    \/ /\ lastTx < MaxTx
       /\ \E validLen, ok \in BOOLEAN :
             S!OnTxRequest(lastTx + 1, ok) /\ SubmitTx(validLen, ok)

ReadFrame ==
    /\ loop = "read" /\ phase # "Closed"
    /\ Frame
    /\ UNCHANGED server

(* service_read ends: nothing more for now, the session closed, or the     *)
(* peer did (end of file, or a failed send).  Then it flushes.             *)
ReadEnd ==
    /\ loop = "read"
    /\ \E n \in 0 .. Len(outbox) : S!out_consume(n)
    /\ loop' = "poll"
    /\ socket_error' \in {socket_error, TRUE}
    /\ UNCHANGED <<vars, firstTx>>

(* Mutant: without a client the backend is not polled. *)
IdleOrHeadless == pc = "idle" /\ (state \in {"Disconnected", "Faulted"} \/ ~attached)

NothingToPoll == pc = "idle" /\ state \in {"Disconnected", "Faulted"}

(* pump_backend(), or backend_.poll() when there is no client. *)
PollBackend ==
    /\ loop = "poll"
    /\ \/ \E event \in Events : PollStep(event) /\ S!OnEvent(event)
       \/ NothingToPoll /\ UNCHANGED <<vars, svars>>
    /\ loop' = IF pc' # "idle" THEN "poll"
               ELSE IF attached THEN "tick" ELSE "accept"
    /\ UNCHANGED <<socket_error, firstTx>>

TickSession ==
    /\ loop = "tick"
    /\ \/ S!tick(TRUE) /\ AbandonPendingTx
       \/ S!tick(FALSE) /\ UNCHANGED vars
    /\ loop' = "flush"
    /\ UNCHANGED <<socket_error, firstTx>>

(* Mutants: a session that closed by itself is not finished; the connection *)
(* goes without abandon_pending_tx() and stop().                            *)
FinishedOnError(n, failed) == socket_error \/ failed
DropUntold == attached' = FALSE /\ S!discard /\ UNCHANGED unattached

(* finished(), when n frames of the outbox have been written. *)
finished(n, failed) ==
    socket_error \/ failed \/ (phase = "Closed" /\ n = Len(outbox))

(* The connection's destructor. *)
Drop == Detach /\ S!discard

(* service_write and drop_connection_if_finished. *)
Flush ==
    /\ loop = "flush"
    /\ loop' = "accept"
    /\ \E n \in 0 .. Len(outbox), failed \in BOOLEAN :
          IF finished(n, failed)
          THEN Drop /\ socket_error' = FALSE
          ELSE S!out_consume(n) /\ UNCHANGED <<vars, socket_error>>
    /\ UNCHANGED firstTx

Clock == Tick /\ S!Elapse /\ UNCHANGED server
DaemonStep == Daemon /\ UNCHANGED <<svars, server>>

Loop ==
    Accept \/ NoAccept \/ ReadFrame \/ ReadEnd \/ PollBackend \/ TickSession \/ Flush
BridgeNext == Loop \/ Clock \/ DaemonStep
BridgeSpec == BridgeInit /\ [][BridgeNext]_bridge
-------------------------------------------------------------------------------
(* Fairness: run() turns the loop forever, the clock runs, and a read loop *)
(* of the backend ends (see LorahamBackend).  Nothing is assumed of the    *)
(* daemon.                                                                 *)
StopReading ==
    PollBackend /\ pc \in {"conf", "data"} /\ UNCHANGED <<state, confIn, dataIn>>
FairBridgeSpec ==
    BridgeSpec /\ WF_bridge(Loop) /\ WF_bridge(Clock) /\ WF_bridge(StopReading)

(* A client that goes on reading what the bridge sends, or closes. *)
ReadingClient == SF_bridge(Flush /\ outbox' = <<>>)
FairClientSpec == FairBridgeSpec /\ ReadingClient
-------------------------------------------------------------------------------
(* Properties. *)

(* A TX_RESULT queued for the client tells the truth about the frame it     *)
(* names, and that frame was submitted over this very connection: a late    *)
(* result never reaches a future session.                                   *)
ResultsTrueAndOwn ==
    \A i \in 1 .. Len(outbox) : outbox[i].type = "TX_RESULT" =>
        /\ outbox[i].seq > firstTx
        /\ fate[outbox[i].seq] = IF outbox[i].result = "Success" THEN "ok" ELSE "failed"

(* The session and the backend agree: a TX in flight is the frame the       *)
(* backend is writing or waiting on, and a ready session stands on an       *)
(* operational backend configured for it.                                   *)
SessionAgrees ==
    /\ tx_in_flight => state \in {"TxWriting", "TxPending"} /\ txOut = tx_seq
    /\ phase = "Ready" => state \in Operational /\ config_token = config_op_token
    /\ phase = "Configuring" => state \in {"Connecting", "Configuring"}

(* And the other way round: the backend works for nobody but the session    *)
(* that is there.  It connects, configures or stands ready only for a       *)
(* session that waits for that or has just closed, even when the token of a *)
(* configuration it started says refusal (begin_configure's counter wraps   *)
(* to 0); and no frame is written or pending that a ready session does not  *)
(* know of.  However a client goes, it leaves nothing but a drain behind,   *)
(* so that the next client's CONFIGURE finds the backend idle or            *)
(* recovering.                                                              *)
BackendServesSession ==
    /\ state \in {"Connecting", "Configuring"} => attached /\ phase \in {"Configuring", "Closed"}
    /\ state \in Operational => attached /\ phase \in {"Ready", "Closed"}
    /\ state \in {"TxWriting", "TxPending"} => tx_in_flight \/ phase = "Closed"

(* A frame the daemon owns does not keep the backend waiting for ever: it   *)
(* is answered, or every way to lose the client hands it to the drain.      *)
PendingEnds == state = "TxPending" ~> state # "TxPending"

(* A session that closed is disconnected: the only client slot is free      *)
(* again.                                                                   *)
ClosedReleased == phase = "Closed" /\ attached ~> ~attached
===============================================================================
