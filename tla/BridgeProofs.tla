------------------------------ MODULE BridgeProofs ------------------------------
(***************************************************************************)
(* The bridge process as a whole, for every value of the constants.        *)
(* First, every step of the bridge is a step of LorahamBackend or leaves   *)
(* the backend alone, so that what is proved of the backend holds here.    *)
(* With it, that session and backend agree, that the backend works for     *)
(* nobody but the session, and that what the client is told of its frames  *)
(* is true.                                                                *)
(*                                                                         *)
(* Then Recovery, for every number of frames, crashes and restarts: while  *)
(* the process runs, the backend's own argument holds with the frames      *)
(* orphaned by earlier processes as the gaps of the log; while it is down, *)
(* a frame the daemon may hold is remembered by uncertain.                 *)
(***************************************************************************)
EXTENDS Bridge, Recovery, LorahamBackendProofs

(* Most leaves rewrite equalities and split sets: Zenon takes them, and SMT *)
(* is cited where a leaf counts, or reasons about sequences.                *)
USE Zenon

(* The bridge's steps, as the backend sees them. *)
LEMMA StepContract == ASSUME [BridgeNext]_bridge PROVE [Next]_vars
  <1>1. CASE Accept
    BY <1>1 DEF Accept, Next, Caller
  <1>2. CASE NoAccept
    BY <1>2 DEF NoAccept
  <1>3. CASE ReadFrame
    BY <1>3 DEF ReadFrame, Frame, Next, Caller
  <1>4. CASE ReadEnd
    BY <1>4 DEF ReadEnd
  <1>5. CASE PollBackend
    BY <1>5 DEF PollBackend, Next, Poll
  <1>6. CASE TickSession
    BY <1>6 DEF TickSession, Next, Caller
  <1>7. CASE Flush
    BY <1>7 DEF Flush, Drop, Next, Caller
  <1>8. CASE Clock \/ DaemonStep
    BY <1>8 DEF Clock, DaemonStep, Next
  <1>9. CASE UNCHANGED bridge
    BY <1>9 DEF bridge
  <1>. QED  BY <1>1, <1>2, <1>3, <1>4, <1>5, <1>6, <1>7, <1>8, <1>9
            DEF BridgeNext, Loop

(* So the bridge implements the specification of its backend. *)
LEMMA BackendUsed == BridgeSpec => Spec
  <1>1. BridgeInit => Init
    BY DEF BridgeInit
  <1>2. [BridgeNext]_bridge => [Next]_vars
    BY StepContract
  <1>. QED  BY <1>1, <1>2, PTL DEF BridgeSpec, Spec
-------------------------------------------------------------------------------
(* Session and backend agree. *)

(* SessionAgrees with what makes it inductive: the token is the one of the  *)
(* configuration in progress, a TX in flight belongs to a ready session,    *)
(* and a session that is not closed is the backend's sink.                  *)
AgreeInv ==
    /\ tx_in_flight => phase = "Ready" /\ state \in {"TxWriting", "TxPending"} /\ txOut = tx_seq
    /\ phase = "Ready" => state \in Operational /\ config_token = config_op_token
    /\ phase = "Configuring" =>
          state \in {"Connecting", "Configuring"} /\ config_token = config_op_token
    /\ phase # "Closed" => attached

SessionCloses == phase' = "Closed" /\ ~tx_in_flight'
SessionSame == UNCHANGED <<phase, config_op_token, tx_in_flight, tx_seq>>
BackendSame == UNCHANGED <<state, txOut, config_token, attached>>

(* A session that closed has nothing to agree on. *)
LEMMA AgreeClosed == ASSUME SessionCloses PROVE AgreeInv'
  BY DEF SessionCloses, AgreeInv

(* A step of neither of them. *)
LEMMA AgreeSame == ASSUME AgreeInv, SessionSame, BackendSame PROVE AgreeInv'
  BY DEF SessionSame, BackendSame, AgreeInv

(* A session that is closed ignores every callback. *)
LEMMA ClosedIgnores ==
    ASSUME NEW event, phase = "Closed", ~tx_in_flight, S!OnEvent(event)
    PROVE  UNCHANGED svars
  BY DEF S!OnEvent, S!on_configure_complete, S!on_rx, S!on_tx_complete,
         S!on_backend_failure, S!svars, svars

(* Frames that do not concern the backend. *)
LEMMA ClientAgrees == ASSUME AgreeInv, S!Client, UNCHANGED vars PROVE AgreeInv'
  <1>1. BackendSame
    BY DEF BackendSame, vars, ctl, config, tx
  <1>2. CASE SessionCloses
    BY <1>2, AgreeClosed
  <1>3. CASE SessionSame
    BY <1>1, <1>3, AgreeSame
  <1>4. CASE /\ phase \in {"WaitHello", "WaitAuth"} /\ phase' \in {"WaitAuth", "WaitConfigure"}
             /\ UNCHANGED tx_in_flight
    <2>1. phase \notin {"Ready", "Closed"} /\ phase' \notin {"Ready", "Configuring"}
      BY <1>4
    <2>. QED  BY <1>1, <1>4, <2>1 DEF AgreeInv, BackendSame
  <1>5. ASSUME S!close PROVE SessionCloses
    BY <1>5 DEF S!close, SessionCloses
  <1>6. CASE S!OnHello
    BY <1>2, <1>4, <1>5, <1>6 DEF S!OnHello, S!emit, S!EnterPhase
  <1>7. ASSUME NEW verified \in BOOLEAN, S!OnAuthResponse(verified) PROVE AgreeInv'
    BY <1>2, <1>4, <1>5, <1>7 DEF S!OnAuthResponse, S!emit, S!EnterPhase
  <1>8. CASE S!OnInvalidConfigure
    BY <1>2, <1>5, <1>8 DEF S!OnInvalidConfigure, S!emit
  <1>9. CASE S!OnPong
    BY <1>3, <1>9 DEF S!OnPong, SessionSame
  <1>10. ASSUME NEW type, S!OnIllegalFrame(type) PROVE AgreeInv'
    BY <1>2, <1>5, <1>10 DEF S!OnIllegalFrame, S!CloseNow
  <1>. QED  BY <1>6, <1>7, <1>8, <1>9, <1>10 DEF S!Client

(* CONFIGURE: a token that is not 0 is the one of the configuration the     *)
(* backend started.                                                         *)
LEMMA ConfigureAgrees ==
    ASSUME AgreeInv, NEW token \in 0 .. U32 - 1, S!OnConfigure(token), BeginConfigure(token)
    PROVE  AgreeInv'
  <1>1. CASE token = 0
    <2>1. SessionCloses
      BY <1>1 DEF S!OnConfigure, S!emit, S!close, SessionCloses
    <2>. QED  BY <2>1, AgreeClosed
  <1>2. CASE token # 0
    <2>1. /\ phase = "WaitConfigure" /\ phase' = "Configuring" /\ config_op_token' = token
          /\ UNCHANGED tx_in_flight
      BY <1>2 DEF S!OnConfigure
    <2>2. state' = "Connecting" /\ config_token' = token /\ UNCHANGED attached
      BY <1>2 DEF BeginConfigure, ConfigureStarted
    <2>3. ~tx_in_flight /\ attached
      BY <2>1 DEF AgreeInv
    <2>. QED  BY <2>1, <2>2, <2>3 DEF AgreeInv
  <1>. QED  BY <1>1, <1>2

(* TX_REQUEST: the sequence number names the frame the backend took. *)
LEMMA TxRequestAgrees ==
    ASSUME AgreeInv, NEW validLen, NEW ok \in BOOLEAN, S!OnTxRequest(lastTx + 1, ok),
           SubmitTx(validLen, ok)
    PROVE  AgreeInv'
  <1>1. CASE ~ok
    <2>1. SessionCloses
      BY <1>1 DEF S!OnTxRequest, SessionCloses
    <2>. QED  BY <2>1, AgreeClosed
  <1>2. CASE ok
    <2>1. /\ phase = "Ready" /\ tx_seq' = lastTx + 1
          /\ UNCHANGED <<phase, config_op_token>>
      BY <1>2 DEF S!OnTxRequest
    <2>2. SubmitAttempt(ok)
      BY <1>2 DEF SubmitTx
    <2>3. /\ txOut' = lastTx + 1 /\ pump_tx_write(lastTx', TxChunks)
          /\ UNCHANGED <<attached, config_token>>
      BY <1>2, <2>2 DEF SubmitAttempt, config
    <2>4. state' \in {"TxWriting", "TxPending"}
      BY <2>3 DEF pump_tx_write
    <2>. QED  BY <2>1, <2>3, <2>4 DEF AgreeInv, Operational
  <1>. QED  BY <1>1, <1>2
-------------------------------------------------------------------------------
(* poll(), as the session sees it: what each callback says of the backend. *)

(* States in which the backend works for no session. *)
AtRest == {"Disconnected", "Draining", "Faulted"}

Moves ==
    \/ UNCHANGED <<state, txOut>>
    \/ state = "Draining" /\ state' \in AtRest
    \/ state \in {"Connecting", "Configuring"} /\ state' \in {"Connecting", "Configuring"}
    \/ /\ state = "TxWriting" /\ state' \in {"TxWriting", "TxPending"}
       /\ UNCHANGED txOut

PollTells(event) ==
    /\ UNCHANGED <<attached, config_token>>
    /\ \/ event = NoEvent /\ Moves
       \/ event = OnRx /\ UNCHANGED <<state, txOut>>
       \/ event = OnFailure
       \/ event = OnConfigured(config_token, "failed") /\ state \in {"Connecting", "Configuring"}
       \/ /\ event = OnConfigured(config_token, "applied")
          /\ state = "Configuring" /\ state' = "Ready"
       \/ /\ \E outcome : /\ event = OnTxComplete(outcome)
                          /\ delivered' = [delivered EXCEPT ![txOut] = Append(@, outcome)]
          /\ state = "TxPending" /\ state' = "Ready"

(* Each way through poll() makes the callback its state calls for. *)
LEMMA PollCallbacks ==
    ASSUME attached, EpochCurrent, NEW event, PollStep(event)
    PROVE  PollTells(event)
  <1>. USE DEF ctl, config, tx, reset_link_unconfigured, DropLink, AtRest
  <1>1. ASSUME handle_disconnect(event) PROVE PollTells(event)
    BY <1>1 DEF handle_disconnect, enter_fault, ToSink, PollTells, Moves
  <1>2. ASSUME config_fail(event), state \in {"Connecting", "Configuring"} PROVE PollTells(event)
    BY <1>2 DEF config_fail, ToSink, PollTells
  <1>3. ASSUME event = NoEvent, UNCHANGED <<state, txOut, attached, config_token>>
        PROVE  PollTells(event)
    BY <1>3 DEF PollTells, Moves
  <1>4. ASSUME NEW data, NEW conf, advance_configure(data, conf, event),
               state \in {"Connecting", "Configuring"}
        PROVE  PollTells(event)
    BY <1>2, <1>4 DEF advance_configure, PollTells, Moves
  <1>5. CASE PollConnecting(event) \/ PollConfiguring(event)
    BY <1>2, <1>3, <1>4, <1>5 DEF PollConnecting, PollConfiguring, advance_connect
  <1>6. CASE PollOperational(event) \/ PollDraining(event)
    BY <1>3, <1>6 DEF PollOperational, PollDraining, enter_fault, PollTells, Moves
  <1>7. CASE ConfLine(event)
    <2>1. CASE config_succeed(event) /\ state = "Configuring"
      BY <2>1 DEF config_succeed, ToSink, PollTells
    <2>. QED  BY <1>1, <1>2, <1>3, <1>7, <2>1 DEF ConfLine, ConfFails
  <1>8. CASE ConfStop(event) \/ ConfClosed(event)
    BY <1>1, <1>2, <1>3, <1>8 DEF ConfStop, ConfClosed, ConfFails
  <1>9. CASE ResumeWrite(event)
    <2>1. CASE state = "TxWriting" /\ dataSock = "open"
      <3>1. /\ pump_tx_write(txOut, txLeft) /\ event = NoEvent
            /\ UNCHANGED <<attached, config_token, txOut>>
        BY <1>9, <2>1 DEF ResumeWrite
      <3>2. state' \in {"TxWriting", "TxPending"}
        BY <3>1 DEF pump_tx_write
      <3>. QED  BY <2>1, <3>1, <3>2 DEF PollTells, Moves
    <2>2. CASE state = "TxWriting" /\ dataSock # "open"
      BY <1>9, <2>2 DEF ResumeWrite, ToSink, PollTells
    <2>3. CASE state # "TxWriting"
      BY <1>3, <1>9, <2>3 DEF ResumeWrite
    <2>. QED  BY <2>1, <2>2, <2>3
  <1>10. CASE DataFrame(event)
    <2>1. ASSUME NEW frame, DispatchResult(frame, event) PROVE PollTells(event)
      <3>1. CASE state = "TxPending"
        <4>1. epoch_current
          BY <3>1 DEF EpochCurrent
        <4>2. /\ event = OnTxComplete(OutcomeOf(frame)) /\ state' = "Ready"
              /\ delivered' = [delivered EXCEPT ![txOut] = Append(@, OutcomeOf(frame))]
              /\ UNCHANGED <<attached, config_token>>
          BY <2>1, <3>1, <4>1 DEF DispatchResult, PopFrame
        <4>. QED  BY <3>1, <4>2 DEF PollTells
      <3>2. CASE state = "Draining"
        BY <2>1, <3>2 DEF DispatchResult, PollTells, Moves
      <3>3. CASE state \notin {"TxPending", "Draining"}
        BY <1>3, <2>1, <3>3 DEF DispatchResult, PopFrame
      <3>. QED  BY <3>1, <3>2, <3>3
    <2>2. ASSUME NEW frame, DispatchRx(frame, event) PROVE PollTells(event)
      BY <2>2 DEF DispatchRx, PopFrame, ToSink, PollTells, Moves
    <2>. QED  BY <1>1, <1>10, <2>1, <2>2 DEF DataFrame
  <1>11. CASE DataStop(event) \/ DataClosed(event)
    BY <1>1, <1>3, <1>11 DEF DataStop, DataClosed
  <1>. QED  BY <1>5, <1>6, <1>7, <1>8, <1>9, <1>10, <1>11 DEF PollStep

(* The callback takes the session where the backend went. *)
LEMMA PollAgrees ==
    ASSUME AgreeInv, attached, NEW event, PollTells(event), S!OnEvent(event)
    PROVE  AgreeInv'
  <1>. USE DEF Event, NoEvent, OnRx, OnFailure, OnConfigured, OnTxComplete
  <1>1. UNCHANGED <<attached, config_token>>
    BY DEF PollTells
  <1>2. CASE SessionCloses
    BY <1>2, AgreeClosed
  <1>3. CASE event = NoEvent /\ Moves
    <2>1. SessionSame
      BY <1>3 DEF S!OnEvent, S!svars, SessionSame
    <2>. QED  BY <1>1, <1>3, <2>1 DEF AgreeInv, SessionSame, Moves, Operational
  <1>4. CASE event = OnRx /\ UNCHANGED <<state, txOut>>
    <2>1. SessionSame \/ SessionCloses
      BY <1>4 DEF S!OnEvent, S!on_rx, S!emit, S!close, S!svars, SessionSame, SessionCloses
    <2>. QED  BY <1>1, <1>2, <1>4, <2>1, AgreeSame DEF BackendSame
  <1>5. CASE event = OnFailure
    <2>1. S!on_backend_failure
      BY <1>5 DEF S!OnEvent
    <2>2. phase' = "Closed"
      BY <2>1 DEF S!on_backend_failure, S!CloseNow, S!close, S!svars
    <2>3. ~tx_in_flight'
      BY <2>1 DEF S!on_backend_failure, S!CloseNow, S!close, S!svars, AgreeInv
    <2>. QED  BY <1>2, <2>2, <2>3 DEF SessionCloses
  <1>6. CASE event = OnConfigured(config_token, "failed") /\ state \in {"Connecting", "Configuring"}
    <2>1. S!on_configure_complete(config_token, "failed")
      BY <1>6 DEF S!OnEvent
    <2>2. CASE phase = "Configuring" /\ config_token = config_op_token
      BY <1>2, <2>1, <2>2 DEF S!on_configure_complete, S!emit, S!close, SessionCloses
    <2>3. CASE ~(phase = "Configuring" /\ config_token = config_op_token)
      <3>1. SessionSame
        BY <2>1, <2>3 DEF S!on_configure_complete, S!svars, SessionSame
      <3>2. phase \notin {"Ready", "Configuring"} /\ ~tx_in_flight
        BY <1>6, <2>3 DEF AgreeInv, Operational
      <3>. QED  BY <1>1, <3>1, <3>2 DEF AgreeInv, SessionSame
    <2>. QED  BY <2>2, <2>3
  <1>7. CASE /\ event = OnConfigured(config_token, "applied")
             /\ state = "Configuring" /\ state' = "Ready"
    <2>1. S!on_configure_complete(config_token, "applied")
      BY <1>7 DEF S!OnEvent
    <2>2. ~tx_in_flight /\ phase # "Ready"
      BY <1>7 DEF AgreeInv, Operational
    <2>3. CASE phase = "Configuring" /\ config_token = config_op_token
      <3>1. CASE S!close
        BY <1>2, <3>1 DEF S!close, SessionCloses
      <3>2. CASE ~S!close
        <4>1. phase' = "Ready" /\ UNCHANGED <<config_op_token, tx_in_flight>>
          BY <2>1, <2>3, <3>2 DEF S!on_configure_complete, S!emit, S!enter_ready
        <4>. QED  BY <1>1, <1>7, <2>2, <2>3, <4>1 DEF AgreeInv, Operational
      <3>. QED  BY <3>1, <3>2
    <2>4. CASE ~(phase = "Configuring" /\ config_token = config_op_token)
      <3>1. SessionSame
        BY <2>1, <2>4 DEF S!on_configure_complete, S!svars, SessionSame
      <3>2. phase # "Configuring"
        BY <2>4 DEF AgreeInv
      <3>. QED  BY <1>1, <2>2, <3>1, <3>2 DEF AgreeInv, SessionSame
    <2>. QED  BY <2>3, <2>4
  <1>8. ASSUME NEW outcome, event = OnTxComplete(outcome), state = "TxPending", state' = "Ready"
        PROVE  AgreeInv'
    <2>1. S!on_tx_complete(outcome)
      BY <1>8 DEF S!OnEvent
    <2>2. SessionCloses \/ (~tx_in_flight' /\ UNCHANGED <<phase, config_op_token>>)
      <3>1. CASE tx_in_flight
        <4>1. /\ tx_in_flight' = FALSE
              /\ phase' = "Closed" \/ UNCHANGED <<phase, config_op_token>>
          BY <2>1, <3>1 DEF S!on_tx_complete, S!emit, S!close
        <4>. QED  BY <4>1 DEF SessionCloses
      <3>2. CASE ~tx_in_flight
        BY <2>1, <3>2 DEF S!on_tx_complete, S!svars
      <3>. QED  BY <3>1, <3>2
    <2>3. phase # "Configuring"
      BY <1>8 DEF AgreeInv
    <2>. QED  BY SMTT(20), <1>1, <1>2, <1>8, <2>2, <2>3 DEF AgreeInv, Operational
  <1>. QED  BY <1>3, <1>4, <1>5, <1>6, <1>7, <1>8 DEF PollTells

(* Every step of the bridge keeps session and backend in agreement. *)
LEMMA StepAgrees ==
    ASSUME AgreeInv, EpochCurrent, [BridgeNext]_bridge
    PROVE  AgreeInv'
  <1>. USE DEF ctl, config, tx
  <1>1. ASSUME UNCHANGED vars PROVE BackendSame
    BY <1>1 DEF BackendSame, vars
  <1>2. ASSUME UNCHANGED svars PROVE SessionSame
    BY <1>2 DEF SessionSame, svars
  <1>3. ASSUME S!CloseNow PROVE AgreeInv'
    BY <1>3, AgreeClosed DEF S!CloseNow, S!close, SessionCloses
  <1>4. CASE Accept
    <2>1. phase' = "WaitHello" /\ tx_in_flight' = FALSE /\ attached' = TRUE
      BY <1>4 DEF Accept, Attach, S!open
    <2>. QED  BY <2>1 DEF AgreeInv
  <1>5. CASE NoAccept
    BY <1>1, <1>2, <1>5, AgreeSame DEF NoAccept
  <1>6. CASE ReadFrame
    BY <1>6, ClientAgrees, ConfigureAgrees, TxRequestAgrees DEF ReadFrame, Frame
  <1>7. ASSUME NEW n, S!out_consume(n) PROVE SessionSame
    BY <1>7 DEF S!out_consume, SessionSame
  <1>8. CASE ReadEnd
    BY <1>1, <1>7, <1>8, AgreeSame DEF ReadEnd
  <1>9. CASE PollBackend
    <2>1. CASE UNCHANGED <<vars, svars>>
      BY <1>1, <1>2, <2>1, AgreeSame
    <2>2. ASSUME NEW event, PollStep(event), S!OnEvent(event) PROVE AgreeInv'
      <3>1. CASE phase = "Closed"
        <4>1. ~tx_in_flight
          BY <3>1 DEF AgreeInv
        <4>2. SessionSame
          BY <1>2, <2>2, <3>1, <4>1, ClosedIgnores
        <4>. QED  BY <3>1, <4>1, <4>2, AgreeClosed DEF SessionSame, SessionCloses
      <3>2. CASE phase # "Closed"
        <4>1. attached
          BY <3>2 DEF AgreeInv
        <4>. QED  BY <2>2, <4>1, PollCallbacks, PollAgrees
      <3>. QED  BY <3>1, <3>2
    <2>. QED  BY <1>9, <2>1, <2>2 DEF PollBackend
  <1>10. CASE TickSession
    <2>1. CASE S!tick(TRUE)
      BY <1>3, <2>1 DEF S!tick, S!KeepaliveDue
    <2>2. CASE S!tick(FALSE) /\ UNCHANGED vars
      <3>1. CASE SessionSame
        BY <1>1, <2>2, <3>1, AgreeSame
      <3>2. CASE SessionCloses
        BY <3>2, AgreeClosed
      <3>. QED  BY <1>3, <2>2, <3>1, <3>2 DEF S!tick, S!emit, S!close, S!svars,
                SessionSame, SessionCloses
    <2>. QED  BY <1>10, <2>1, <2>2 DEF TickSession
  <1>11. CASE Flush
    <2>1. ASSUME S!discard PROVE AgreeInv'
      BY <2>1, AgreeClosed DEF S!discard, SessionCloses
    <2>. QED  BY <1>1, <1>7, <1>11, <2>1, AgreeSame DEF Flush, Drop
  <1>12. CASE Clock
    <2>1. SessionSame /\ BackendSame
      BY <1>12 DEF Clock, Tick, S!Elapse, SessionSame, BackendSame
    <2>. QED  BY <2>1, AgreeSame
  <1>13. CASE DaemonStep
    <2>1. BackendSame
      BY <1>13 DEF DaemonStep, Daemon, DaemonConf, DaemonResolve, DaemonUnsolicited,
         LoseLink, BackendSame
    <2>. QED  BY <1>2, <1>13, <2>1, AgreeSame DEF DaemonStep
  <1>14. CASE UNCHANGED bridge
    BY <1>1, <1>2, <1>14, AgreeSame DEF bridge
  <1>. QED  BY <1>4, <1>5, <1>6, <1>8, <1>9, <1>10, <1>11, <1>12, <1>13, <1>14
            DEF BridgeNext, Loop

(* The backend's inductive invariant holds inside the bridge. *)
THEOREM BridgeAccounting == BridgeSpec => []Accounting
  BY BackendUsed, AccountingHolds, PTL

(* AgreeInv is an invariant of the bridge: it is inductive given EpochCurrent, without which
   dispatch could keep a result from the session. *)
THEOREM AgreementHolds == BridgeSpec => []AgreeInv
  <1>1. BridgeInit => AgreeInv
    BY DEF BridgeInit, S!SessionInit, AgreeInv
  <1>2. Accounting /\ AgreeInv /\ [BridgeNext]_bridge => AgreeInv'
    BY StepAgrees DEF Accounting
  <1>. QED  BY <1>1, <1>2, BridgeAccounting, PTL DEF BridgeSpec

(* A TX in flight is the frame the backend is writing or waiting on, and a  *)
(* ready session stands on an operational backend configured for it,        *)
(* through every callback, deadline and loss of either peer.                *)
THEOREM SessionAndBackendAgree == BridgeSpec => []SessionAgrees
  <1>1. AgreeInv => SessionAgrees
    BY DEF AgreeInv, SessionAgrees
  <1>. QED  BY <1>1, AgreementHolds, PTL
-------------------------------------------------------------------------------
(* The backend works for nobody but the session that is there. *)

(* A session that closed is served by a backend that it still holds. *)
LEMMA ServesClosed ==
    ASSUME phase' = "Closed", state' \in AtRest \/ attached'
    PROVE  BackendServesSession'
  BY DEF AtRest, BackendServesSession, Operational

(* So is any session by a backend at rest. *)
LEMMA ServesAtRest == ASSUME state' \in AtRest PROVE BackendServesSession'
  BY DEF AtRest, BackendServesSession, Operational

(* A step of neither of them. *)
LEMMA ServesSame ==
    ASSUME BackendServesSession, SessionSame, BackendSame PROVE BackendServesSession'
  BY DEF SessionSame, BackendSame, BackendServesSession

(* A backend without a session is at rest. *)
LEMMA Unattended ==
    ASSUME BackendServesSession, state \in States, ~attached PROVE state \in AtRest
  BY DEF AtRest, BackendServesSession, Operational, States

(* poll() wakes no backend at rest. *)
LEMMA RestPolled ==
    ASSUME NEW event, PollStep(event), state \in AtRest
    PROVE  state' \in AtRest
  <1>. USE DEF ctl, reset_link_unconfigured, DropLink, AtRest
  <1>1. ASSUME handle_disconnect(event) PROVE state' \in AtRest
    BY <1>1 DEF handle_disconnect, enter_fault
  <1>2. CASE PollConnecting(event) \/ PollConfiguring(event) \/ PollOperational(event)
    BY <1>2 DEF PollConnecting, PollConfiguring, PollOperational, Operational
  <1>3. CASE PollDraining(event)
    BY <1>3 DEF PollDraining, enter_fault
  <1>4. CASE ConfLine(event) \/ ConfStop(event) \/ ConfClosed(event)
    BY <1>1, <1>4 DEF ConfLine, ConfStop, ConfClosed, ConfFails
  <1>5. CASE ResumeWrite(event)
    BY <1>5 DEF ResumeWrite
  <1>6. CASE DataFrame(event)
    <2>1. ASSUME NEW frame, DispatchResult(frame, event) PROVE state' \in AtRest
      BY <2>1 DEF DispatchResult, PopFrame
    <2>2. ASSUME NEW frame, DispatchRx(frame, event) PROVE state' \in AtRest
      BY <2>2 DEF DispatchRx, PopFrame
    <2>. QED  BY <1>1, <1>6, <2>1, <2>2 DEF DataFrame
  <1>7. CASE DataStop(event) \/ DataClosed(event)
    BY <1>1, <1>7 DEF DataStop, DataClosed
  <1>. QED  BY <1>2, <1>3, <1>4, <1>5, <1>6, <1>7 DEF PollStep

(* The callback tells an open session, or finds the one that closed. *)
LEMMA PollServes ==
    ASSUME BackendServesSession, AgreeInv, attached, phase # "Closed",
           NEW event, PollTells(event), S!OnEvent(event)
    PROVE  BackendServesSession'
  <1>. USE DEF Event, NoEvent, OnRx, OnFailure, OnConfigured, OnTxComplete
  <1>1. attached'
    BY DEF PollTells
  <1>2. CASE phase' = "Closed"
    BY <1>1, <1>2, ServesClosed
  <1>3. CASE event = NoEvent /\ Moves
    <2>1. SessionSame
      BY <1>3 DEF S!OnEvent, S!svars, SessionSame
    <2>2. CASE UNCHANGED <<state, txOut>>
      BY <1>1, <2>1, <2>2 DEF BackendServesSession, SessionSame
    <2>3. CASE state' \in AtRest
      BY <2>3, ServesAtRest
    <2>4. CASE state \in {"Connecting", "Configuring"} /\ state' \in {"Connecting", "Configuring"}
      BY <1>1, <2>1, <2>4 DEF BackendServesSession, SessionSame, Operational
    <2>5. CASE state = "TxWriting" /\ state' \in {"TxWriting", "TxPending"}
      BY <1>1, <2>1, <2>5 DEF BackendServesSession, SessionSame, Operational
    <2>. QED  BY <1>3, <2>2, <2>3, <2>4, <2>5 DEF Moves
  <1>4. CASE event = OnRx /\ UNCHANGED <<state, txOut>>
    <2>1. SessionSame \/ phase' = "Closed"
      BY <1>4 DEF S!OnEvent, S!on_rx, S!emit, S!close, S!svars, SessionSame
    <2>. QED  BY <1>1, <1>2, <1>4, <2>1 DEF BackendServesSession, SessionSame
  <1>5. CASE event = OnFailure
    BY <1>2, <1>5 DEF S!OnEvent, S!on_backend_failure, S!CloseNow, S!close
  <1>6. CASE event = OnConfigured(config_token, "failed") /\ state \in {"Connecting", "Configuring"}
    <2>1. phase = "Configuring" /\ config_token = config_op_token
      BY <1>6 DEF BackendServesSession, AgreeInv
    <2>. QED  BY <1>2, <1>6, <2>1 DEF S!OnEvent, S!on_configure_complete, S!emit, S!close
  <1>7. CASE /\ event = OnConfigured(config_token, "applied")
             /\ state = "Configuring" /\ state' = "Ready"
    <2>1. phase = "Configuring" /\ config_token = config_op_token
      BY <1>7 DEF BackendServesSession, AgreeInv
    <2>2. phase' \in {"Ready", "Closed"}
      BY <1>7, <2>1 DEF S!OnEvent, S!on_configure_complete, S!emit, S!close, S!enter_ready
    <2>. QED  BY <1>1, <1>7, <2>2 DEF BackendServesSession
  <1>8. ASSUME NEW outcome, event = OnTxComplete(outcome), state = "TxPending", state' = "Ready"
        PROVE  BackendServesSession'
    <2>1. phase = "Ready"
      BY <1>8 DEF BackendServesSession, Operational
    <2>2. phase' \in {"Ready", "Closed"}
      BY <1>8, <2>1 DEF S!OnEvent, S!on_tx_complete, S!emit, S!close, S!svars
    <2>. QED  BY <1>1, <1>8, <2>2 DEF BackendServesSession
  <1>. QED  BY <1>3, <1>4, <1>5, <1>6, <1>7, <1>8 DEF PollTells

(* A frame from the client: CONFIGURE and TX_REQUEST start what their       *)
(* session waits for, and a refusal closes the session.                     *)
LEMMA FrameServes ==
    ASSUME BackendServesSession, AgreeInv, phase # "Closed", Frame
    PROVE  BackendServesSession'
  <1>. USE DEF ctl, config, tx
  <1>1. attached
    BY DEF AgreeInv
  <1>2. CASE S!Client /\ UNCHANGED vars
    <2>1. BackendSame
      BY <1>2 DEF BackendSame, vars
    <2>2. CASE phase' = "Closed"
      BY <1>1, <2>1, <2>2, ServesClosed DEF BackendSame
    <2>3. CASE SessionSame
      BY <2>1, <2>3, ServesSame
    <2>4. CASE phase \in {"WaitHello", "WaitAuth"}
      BY <2>1, <2>4 DEF BackendServesSession, BackendSame, Operational
    <2>. QED  BY <1>2, <2>2, <2>3, <2>4 DEF S!Client, S!OnHello, S!OnAuthResponse,
              S!OnInvalidConfigure, S!OnPong, S!OnIllegalFrame, S!CloseNow, S!emit, S!close,
              SessionSame
  <1>3. ASSUME NEW token \in 0 .. U32 - 1, S!OnConfigure(token), BeginConfigure(token)
        PROVE  BackendServesSession'
    <2>1. attached'
      BY <1>1, <1>3 DEF BeginConfigure, ConfigureRefused, ConnectRefused, ConfigureStarted, vars
    <2>2. CASE token = 0
      BY <1>3, <2>1, <2>2, ServesClosed DEF S!OnConfigure, S!emit, S!close
    <2>3. CASE token # 0
      <3>1. phase' = "Configuring" /\ state' = "Connecting"
        BY <1>3, <2>3 DEF S!OnConfigure, BeginConfigure, ConfigureStarted
      <3>. QED  BY <2>1, <3>1 DEF BackendServesSession, Operational
    <2>. QED  BY <2>2, <2>3
  <1>4. ASSUME NEW validLen, NEW ok \in BOOLEAN, S!OnTxRequest(lastTx + 1, ok),
               SubmitTx(validLen, ok)
        PROVE  BackendServesSession'
    <2>1. attached'
      BY <1>1, <1>4 DEF SubmitTx, SubmitRefused, SubmitAttempt, reset_link_unconfigured,
         DropLink, vars
    <2>2. CASE ~ok
      BY <1>4, <2>1, <2>2, ServesClosed DEF S!OnTxRequest
    <2>3. CASE ok
      <3>1. phase' = "Ready" /\ tx_in_flight'
        BY <1>4, <2>3 DEF S!OnTxRequest
      <3>2. pump_tx_write(lastTx', TxChunks)
        BY <1>4, <2>3 DEF SubmitTx, SubmitAttempt
      <3>3. state' \in {"TxWriting", "TxPending"}
        BY <3>2 DEF pump_tx_write
      <3>. QED  BY <2>1, <3>1, <3>3 DEF BackendServesSession
    <2>. QED  BY <2>2, <2>3
  <1>. QED  BY <1>2, <1>3, <1>4 DEF Frame

(* Every step of the bridge keeps the backend at its session's service. *)
LEMMA StepServes ==
    ASSUME BackendServesSession, AgreeInv, EpochCurrent, state \in States, [BridgeNext]_bridge
    PROVE  BackendServesSession'
  <1>. USE DEF ctl, config, tx
  <1>1. ASSUME UNCHANGED vars PROVE BackendSame
    BY <1>1 DEF BackendSame, vars
  <1>2. ASSUME UNCHANGED svars PROVE SessionSame
    BY <1>2 DEF SessionSame, svars
  <1>3. ASSUME NEW n, S!out_consume(n) PROVE SessionSame
    BY <1>3 DEF S!out_consume, SessionSame
  <1>4. CASE Accept
    <2>1. state \in AtRest /\ UNCHANGED state
      BY <1>4, Unattended DEF Accept, Attach
    <2>. QED  BY <2>1, ServesAtRest
  <1>5. CASE NoAccept
    BY <1>1, <1>2, <1>5, ServesSame DEF NoAccept
  <1>6. CASE ReadFrame
    BY <1>6, FrameServes DEF ReadFrame
  <1>7. CASE ReadEnd
    BY <1>1, <1>3, <1>7, ServesSame DEF ReadEnd
  <1>8. CASE PollBackend
    <2>1. CASE UNCHANGED <<vars, svars>>
      BY <1>1, <1>2, <2>1, ServesSame
    <2>2. ASSUME NEW event, PollStep(event), S!OnEvent(event) PROVE BackendServesSession'
      <3>1. CASE ~attached
        BY <2>2, <3>1, Unattended, RestPolled, ServesAtRest
      <3>2. CASE attached /\ phase = "Closed"
        <4>1. PollTells(event)
          BY <2>2, <3>2, PollCallbacks
        <4>2. SessionSame
          BY <1>2, <2>2, <3>2, ClosedIgnores DEF AgreeInv
        <4>. QED  BY <3>2, <4>1, <4>2, ServesClosed DEF PollTells, SessionSame
      <3>3. CASE attached /\ phase # "Closed"
        BY <2>2, <3>3, PollCallbacks, PollServes
      <3>. QED  BY <3>1, <3>2, <3>3
    <2>. QED  BY <1>8, <2>1, <2>2 DEF PollBackend
  <1>9. CASE TickSession
    <2>1. CASE S!tick(TRUE) /\ AbandonPendingTx
      <3>1. phase' = "Closed"
        BY <2>1 DEF S!tick, S!KeepaliveDue, S!CloseNow, S!close
      <3>2. attached'
        BY <2>1 DEF AbandonPendingTx, reset_link_unconfigured, DropLink
      <3>. QED  BY <3>1, <3>2, ServesClosed
    <2>2. CASE S!tick(FALSE) /\ UNCHANGED vars
      <3>1. SessionSame \/ phase' = "Closed"
        BY <2>2 DEF S!tick, S!CloseNow, S!emit, S!close, S!svars, SessionSame
      <3>2. CASE phase' = "Closed"
        <4>1. state' = state /\ attached' = attached
          BY <1>1, <2>2 DEF BackendSame
        <4>2. state \in AtRest \/ attached
          BY Unattended
        <4>3. state' \in AtRest \/ attached'
          BY <4>1, <4>2
        <4>. QED  BY <3>2, <4>3, ServesClosed
      <3>. QED  BY <1>1, <2>2, <3>1, <3>2, ServesSame
    <2>. QED  BY <1>9, <2>1, <2>2 DEF TickSession
  <1>10. CASE Flush
    <2>1. ASSUME Detach PROVE state' \in AtRest
      BY <2>1 DEF Detach, StartDraining, AtRest
    <2>. QED  BY <1>1, <1>3, <1>10, <2>1, ServesAtRest, ServesSame DEF Flush, Drop
  <1>11. CASE Clock
    <2>1. SessionSame /\ BackendSame
      BY <1>11 DEF Clock, Tick, S!Elapse, SessionSame, BackendSame
    <2>. QED  BY <2>1, ServesSame
  <1>12. CASE DaemonStep
    <2>1. BackendSame
      BY <1>12 DEF DaemonStep, Daemon, DaemonConf, DaemonResolve, DaemonUnsolicited,
         LoseLink, BackendSame
    <2>. QED  BY <1>2, <1>12, <2>1, ServesSame DEF DaemonStep
  <1>13. CASE UNCHANGED bridge
    BY <1>1, <1>2, <1>13, ServesSame DEF bridge
  <1>. QED  BY <1>4, <1>5, <1>6, <1>7, <1>8, <1>9, <1>10, <1>11, <1>12, <1>13
            DEF BridgeNext, Loop

(* A backend that connects, configures, stands ready or writes does so for  *)
(* the session attached to it, whatever order the client's frames, the      *)
(* daemon's answers, the deadlines and the losses of either come in: a      *)
(* client that goes leaves nothing but a drain, a fault or an idle backend. *)
THEOREM BackendIsSessions == BridgeSpec => []BackendServesSession
  <1>1. BridgeInit => BackendServesSession
    BY DEF BridgeInit, Init, BackendServesSession, Operational
  <1>2. Accounting /\ AgreeInv /\ BackendServesSession /\ [BridgeNext]_bridge
        => BackendServesSession'
    BY StepServes DEF Accounting, TypeOK, Typed
  <1>. QED  BY <1>1, <1>2, BridgeAccounting, AgreementHolds, PTL DEF BridgeSpec
-------------------------------------------------------------------------------
(* What the client is told is true. *)

Truth(result) == IF result = "Success" THEN "ok" ELSE "failed"

(* The replies that are no lie as things stand. *)
TrueReplies ==
    {r \in S!Replies :
        r.type = "TX_RESULT" => r.seq > firstTx /\ fate[r.seq] = Truth(r.result)}

(* ResultsTrueAndOwn with what makes it inductive: the TX in flight was     *)
(* submitted over this connection.                                          *)
OwnInv ==
    /\ outbox \in Seq(TrueReplies) /\ Len(outbox) <= MaxOutbox
    /\ firstTx \in Nat /\ firstTx <= lastTx
    /\ tx_in_flight => tx_seq > firstTx

(* The daemon is done with a frame for good. *)
LEMMA FatesFinal ==
    ASSUME Accounting, [Next]_vars, NEW id \in TxIds, fate[id] \in {"ok", "failed"}
    PROVE  fate'[id] = fate[id]
  <1>. USE DEF hist, reset_link_unconfigured
  <1>1. fate \in [TxIds -> Fates] /\ lastTx \in 0 .. MaxTx
    BY DEF Accounting, TypeOK, Typed
  <1>2. CASE UNCHANGED fate
    BY <1>2
  <1>3. ASSUME NEW new, NEW left, pump_tx_write(new, left), fate[new] = "unsent"
        PROVE  fate'[id] = fate[id]
    BY <1>1, <1>3 DEF pump_tx_write
  <1>4. CASE Caller
    <2>1. ASSUME NEW token, BeginConfigure(token) PROVE UNCHANGED fate
      BY <2>1 DEF BeginConfigure, ConfigureRefused, ConnectRefused, ConfigureStarted, vars
    <2>2. ASSUME NEW validLen, NEW ok, SubmitTx(validLen, ok) PROVE fate'[id] = fate[id]
      <3>1. CASE SubmitRefused(validLen)
        BY <1>2, <3>1 DEF SubmitRefused, vars
      <3>2. CASE SubmitAttempt(ok)
        <4>1. lastTx < MaxTx /\ lastTx' = lastTx + 1
          BY <3>2 DEF SubmitAttempt
        <4>2. lastTx' \in TxIds /\ lastTx' > lastTx
          BY SMT, <1>1, <4>1, BoundsAssumption DEF TxIds
        <4>3. fate[lastTx'] = "unsent"
          BY <4>2 DEF Accounting, FrameInv
        <4>. QED  BY <1>2, <1>3, <3>2, <4>3 DEF SubmitAttempt
      <3>. QED  BY <2>2, <3>1, <3>2 DEF SubmitTx
    <2>3. CASE Attach \/ AbandonPendingTx \/ Detach
      BY <1>2, <2>3 DEF Attach, AbandonPendingTx, Detach
    <2>. QED  BY <1>2, <1>4, <2>1, <2>2, <2>3 DEF Caller
  <1>5. CASE Tick
    BY <1>2, <1>5 DEF Tick
  <1>6. CASE Daemon
    <2>1. ASSUME NEW other, NEW answer, DaemonResolve(other, answer) PROVE fate'[id] = fate[id]
      BY <1>1, <2>1 DEF DaemonResolve
    <2>. QED  BY <1>2, <1>6, <2>1 DEF Daemon, DaemonConf, LoseLink, DaemonUnsolicited
  <1>7. CASE Poll
    <2>0. PICK event : PollStep(event)
      BY <1>7 DEF Poll
    <2>1. ASSUME config_fail(event) \/ handle_disconnect(event) PROVE UNCHANGED fate
      BY <2>1 DEF config_fail, handle_disconnect
    <2>2. ASSUME NEW data, NEW conf, advance_configure(data, conf, event) PROVE UNCHANGED fate
      BY <2>1, <2>2 DEF advance_configure
    <2>3. CASE PollConnecting(event) \/ PollConfiguring(event)
      BY <1>2, <2>1, <2>2, <2>3 DEF PollConnecting, PollConfiguring, advance_connect
    <2>4. CASE PollOperational(event) \/ PollDraining(event)
      BY <1>2, <2>4 DEF PollOperational, PollDraining
    <2>5. CASE ConfLine(event) \/ ConfStop(event) \/ ConfClosed(event)
      BY <1>2, <2>1, <2>5 DEF ConfLine, ConfStop, ConfClosed, ConfFails, config_succeed
    <2>6. CASE ResumeWrite(event)
      <3>1. CASE state = "TxWriting" /\ dataSock = "open"
        <4>1. fate[txOut] = "unsent"
          BY <3>1 DEF Accounting, FrameInv
        <4>. QED  BY <1>3, <2>6, <3>1, <4>1 DEF ResumeWrite
      <3>2. CASE ~(state = "TxWriting" /\ dataSock = "open")
        BY <1>2, <2>6, <3>2 DEF ResumeWrite
      <3>. QED  BY <3>1, <3>2
    <2>7. CASE DataFrame(event)
      BY <1>2, <2>1, <2>7 DEF DataFrame, DispatchRx, DispatchResult
    <2>8. CASE DataStop(event) \/ DataClosed(event)
      BY <1>2, <2>1, <2>8 DEF DataStop, DataClosed
    <2>. QED  BY <2>0, <2>3, <2>4, <2>5, <2>6, <2>7, <2>8 DEF PollStep
  <1>8. CASE UNCHANGED vars
    BY <1>2, <1>8 DEF vars
  <1>. QED  BY <1>4, <1>5, <1>6, <1>7, <1>8 DEF Next

(* What is true stays true, on the same connection. *)
LEMMA TruthKept ==
    ASSUME Accounting, OwnInv, [Next]_vars, UNCHANGED firstTx
    PROVE  outbox \in Seq(TrueReplies')
  <1>1. TrueReplies \subseteq TrueReplies'
    <2>. SUFFICES ASSUME NEW r \in S!Replies, r.type = "TX_RESULT", r.seq > firstTx,
                         fate[r.seq] = Truth(r.result)
                  PROVE  r.seq > firstTx' /\ fate'[r.seq] = Truth(r.result)
      BY DEF TrueReplies
    <2>1. r.seq \in TxIds
      <3>1. r.seq \in 1 .. MaxTx \cup {0}
        BY DEF S!Replies
      <3>2. firstTx \in Nat
        BY DEF OwnInv
      <3>. QED  BY SMT, <3>1, <3>2 DEF TxIds
    <2>2. fate[r.seq] \in {"ok", "failed"}
      BY DEF Truth
    <2>. QED  BY <2>1, <2>2, FatesFinal
  <1>. QED  BY SMT, <1>1 DEF OwnInv

(* emit() of one frame and of two, whether they fit or not. *)
LEMMA QueueOne ==
    ASSUME NEW T, NEW q \in Seq(T), Len(q) <= MaxOutbox, NEW f \in T, NEW r,
           \/ Len(<<f>>) <= MaxOutbox - Len(q) /\ r = q \o <<f>>
           \/ Len(<<f>>) > MaxOutbox - Len(q) /\ r = q \o SubSeq(<<f>>, 1, MaxOutbox - Len(q))
    PROVE  r \in Seq(T) /\ Len(r) <= MaxOutbox
  <1>. USE QueueAssumption
  <1>1. CASE Len(<<f>>) <= MaxOutbox - Len(q) /\ r = q \o <<f>>
    BY SMT, <1>1
  <1>2. CASE /\ Len(<<f>>) > MaxOutbox - Len(q)
             /\ r = q \o SubSeq(<<f>>, 1, MaxOutbox - Len(q))
    <2>1. MaxOutbox - Len(q) = 0
      BY SMT, <1>2
    <2>2. SubSeq(<<f>>, 1, 0) = <<>>
      BY SMT
    <2>. QED  BY SMT, <1>2, <2>1, <2>2
  <1>. QED  BY <1>1, <1>2

(* The same for two frames: both, the first or none fits. *)
LEMMA QueueTwo ==
    ASSUME NEW T, NEW q \in Seq(T), Len(q) <= MaxOutbox, NEW f \in T, NEW g \in T, NEW r,
           \/ Len(<<f, g>>) <= MaxOutbox - Len(q) /\ r = q \o <<f, g>>
           \/ /\ Len(<<f, g>>) > MaxOutbox - Len(q)
              /\ r = q \o SubSeq(<<f, g>>, 1, MaxOutbox - Len(q))
    PROVE  r \in Seq(T) /\ Len(r) <= MaxOutbox
  <1>. USE QueueAssumption
  <1>1. CASE Len(<<f, g>>) <= MaxOutbox - Len(q) /\ r = q \o <<f, g>>
    BY SMT, <1>1
  <1>2. CASE /\ Len(<<f, g>>) > MaxOutbox - Len(q)
             /\ r = q \o SubSeq(<<f, g>>, 1, MaxOutbox - Len(q))
    <2>. DEFINE room == MaxOutbox - Len(q)
                sub == SubSeq(<<f, g>>, 1, room)
    <2>1. room \in {0, 1}
      BY SMT, <1>2
    <2>2. sub \in Seq(T) /\ Len(sub) = room
      BY SMT, <2>1
    <2>. QED  BY SMT, <1>2, <2>1, <2>2
  <1>. QED  BY <1>1, <1>2

(* Every session step but the report of a result, on the output queue. *)
LEMMA OtherReplies ==
    ASSUME NEW T, outbox \in Seq(T), Len(outbox) <= MaxOutbox,
           \A type \in S!ServerFrames \ {"TX_RESULT"} : S!Reply(type) \in T,
           \/ S!Client
           \/ \E token : S!OnConfigure(token)
           \/ \E seq, ok : S!OnTxRequest(seq, ok)
           \/ \E event : S!OnEvent(event) /\ event.cb # "tx_complete"
           \/ \E abandon : S!tick(abandon)
    PROVE  outbox' \in Seq(T) /\ Len(outbox') <= MaxOutbox
  <1>. DEFINE Goal == outbox' \in Seq(T) /\ Len(outbox') <= MaxOutbox
  <1>1. CASE outbox' = outbox
    BY <1>1
  <1>2. ASSUME NEW f \in T, NEW Then, S!emit(<<f>>, Then) PROVE Goal
    BY <1>2, QueueOne DEF S!emit
  <1>3. ASSUME NEW f \in T, NEW g \in T, NEW Then, S!emit(<<f, g>>, Then) PROVE Goal
    BY <1>3, QueueTwo DEF S!emit
  <1>4. /\ S!Reply("HELLO_ACK") \in T /\ S!Reply("AUTH_CHALLENGE") \in T
        /\ S!Reply("AUTH_OK") \in T /\ S!Reply("AUTH_FAIL") \in T
        /\ S!Reply("CFG_OK") \in T /\ S!Reply("CFG_INVALID") \in T
        /\ S!Reply("CFG_UNSUPPORTED") \in T /\ S!Reply("RX_PACKET") \in T
        /\ S!Reply("PING") \in T
    BY DEF S!ServerFrames
  <1>5. ASSUME S!CloseNow PROVE outbox' = outbox
    BY <1>5 DEF S!CloseNow
  <1>6. ASSUME UNCHANGED S!svars PROVE outbox' = outbox
    BY <1>6 DEF S!svars
  <1>. HIDE DEF Goal
  <1>. SUFFICES Goal
    BY DEF Goal
  <1>7. CASE outbox' = outbox
    BY <1>1, <1>7 DEF Goal
  <1>8. CASE S!Client
    <2>1. CASE S!OnHello
      BY <1>2, <1>3, <1>4, <2>1 DEF S!OnHello
    <2>2. ASSUME NEW verified, S!OnAuthResponse(verified) PROVE Goal
      BY <1>2, <1>4, <2>2 DEF S!OnAuthResponse
    <2>3. CASE S!OnInvalidConfigure
      BY <1>2, <1>4, <2>3 DEF S!OnInvalidConfigure
    <2>4. CASE S!OnPong
      BY <1>7, <2>4 DEF S!OnPong
    <2>5. ASSUME NEW type, S!OnIllegalFrame(type) PROVE Goal
      BY <1>5, <1>7, <2>5 DEF S!OnIllegalFrame
    <2>. QED  BY <1>8, <2>1, <2>2, <2>3, <2>4, <2>5 DEF S!Client
  <1>9. ASSUME NEW token, S!OnConfigure(token) PROVE Goal
    BY <1>2, <1>4, <1>7, <1>9 DEF S!OnConfigure
  <1>10. ASSUME NEW seq, NEW ok, S!OnTxRequest(seq, ok) PROVE Goal
    BY <1>7, <1>10 DEF S!OnTxRequest
  <1>11. ASSUME NEW event, S!OnEvent(event), event.cb # "tx_complete" PROVE Goal
    <2>1. \/ event.cb = "configure_complete" /\ S!on_configure_complete(event.token, event.arg)
          \/ S!on_rx \/ S!on_backend_failure \/ UNCHANGED S!svars
      BY <1>11 DEF S!OnEvent
    <2>2. ASSUME S!on_configure_complete(event.token, event.arg) PROVE Goal
      BY <1>2, <1>4, <1>6, <1>7, <2>2 DEF S!on_configure_complete
    <2>3. CASE S!on_rx
      BY <1>2, <1>4, <1>6, <1>7, <2>3 DEF S!on_rx
    <2>4. CASE S!on_backend_failure
      BY <1>5, <1>6, <1>7, <2>4 DEF S!on_backend_failure
    <2>. QED  BY <1>6, <1>7, <2>1, <2>2, <2>3, <2>4
  <1>12. ASSUME NEW abandon, S!tick(abandon) PROVE Goal
    BY <1>2, <1>4, <1>5, <1>6, <1>7, <1>12 DEF S!tick
  <1>. QED  BY <1>8, <1>9, <1>10, <1>11, <1>12

(* The step that reports a result: Accounting vouches for the outcome. *)
LEMMA ReportedResult ==
    ASSUME Accounting, Accounting', AgreeInv, OwnInv, tx_in_flight, UNCHANGED firstTx,
           NEW outcome, state = "TxPending",
           delivered' = [delivered EXCEPT ![txOut] = Append(@, outcome)]
    PROVE  S!TxReply(tx_seq, outcome) \in TrueReplies'
  <1>1. txOut = tx_seq
    BY DEF AgreeInv
  <1>2. txOut \in TxIds
    BY SMTT(20), BoundsAssumption DEF Accounting, TypeOK, Typed, FrameInv, TxIds
  <1>3. delivered[txOut] \in Seq(Outcomes) /\ delivered'[txOut] = Append(delivered[txOut], outcome)
    BY <1>2 DEF Accounting, TypeOK, Typed
  <1>. DEFINE n == Len(delivered[txOut]) + 1
  <1>4. delivered'[txOut] \in Seq(Outcomes)
    BY <1>2 DEF Accounting, TypeOK, Typed
  <1>5. n \in 1 .. Len(delivered'[txOut]) /\ delivered'[txOut][n] = outcome
    BY SMT, <1>3
  <1>6. outcome \in Outcomes
    BY SMT, <1>4, <1>5
  <1>7. fate'[txOut] = Truth(outcome)
    BY <1>2, <1>5 DEF Accounting, NoForgedResult, Truth
  <1>8. tx_seq > firstTx
    BY DEF OwnInv
  <1>9. S!TxReply(tx_seq, outcome) \in S!Replies
    BY <1>1, <1>2, <1>6 DEF S!TxReply, S!Replies, S!ServerFrames, S!TxResults, Outcomes, TxIds
  <1>. QED  BY <1>1, <1>7, <1>8, <1>9 DEF TrueReplies, S!TxReply

(* Only submit_tx counts a frame. *)
LEMMA FramesCounted == ASSUME Typed, [Next]_vars PROVE lastTx <= lastTx'
  <1>. USE DEF hist, reset_link_unconfigured
  <1>1. lastTx \in Nat
    BY SMT, BoundsAssumption DEF Typed
  <1>2. CASE UNCHANGED lastTx
    BY SMT, <1>1, <1>2
  <1>3. CASE Caller
    <2>1. ASSUME NEW token, BeginConfigure(token) PROVE UNCHANGED lastTx
      BY <2>1 DEF BeginConfigure, ConfigureRefused, ConnectRefused, ConfigureStarted, vars
    <2>2. ASSUME NEW validLen, NEW ok, SubmitTx(validLen, ok) PROVE lastTx <= lastTx'
      <3>1. UNCHANGED lastTx \/ lastTx' = lastTx + 1
        BY <2>2 DEF SubmitTx, SubmitRefused, SubmitAttempt, vars
      <3>. QED  BY SMT, <1>1, <3>1
    <2>3. CASE Attach \/ AbandonPendingTx \/ Detach
      BY <1>2, <2>3 DEF Attach, AbandonPendingTx, Detach
    <2>. QED  BY <1>2, <1>3, <2>1, <2>2, <2>3 DEF Caller
  <1>4. CASE Tick \/ Daemon
    BY <1>2, <1>4 DEF Tick, Daemon, DaemonConf, LoseLink, DaemonUnsolicited, DaemonResolve
  <1>5. CASE Poll
    <2>0. PICK event : PollStep(event)
      BY <1>5 DEF Poll
    <2>1. ASSUME config_fail(event) \/ handle_disconnect(event) PROVE UNCHANGED lastTx
      BY <2>1 DEF config_fail, handle_disconnect
    <2>2. ASSUME NEW data, NEW conf, advance_configure(data, conf, event) PROVE UNCHANGED lastTx
      BY <2>1, <2>2 DEF advance_configure
    <2>3. CASE PollConnecting(event) \/ PollConfiguring(event)
      BY <1>2, <2>1, <2>2, <2>3 DEF PollConnecting, PollConfiguring, advance_connect
    <2>4. CASE PollOperational(event) \/ PollDraining(event)
      BY <1>2, <2>4 DEF PollOperational, PollDraining
    <2>5. CASE ConfLine(event) \/ ConfStop(event) \/ ConfClosed(event)
      BY <1>2, <2>1, <2>5 DEF ConfLine, ConfStop, ConfClosed, ConfFails, config_succeed
    <2>6. CASE ResumeWrite(event)
      BY <1>2, <2>6 DEF ResumeWrite
    <2>7. CASE DataFrame(event)
      BY <1>2, <2>1, <2>7 DEF DataFrame, DispatchRx, DispatchResult
    <2>8. CASE DataStop(event) \/ DataClosed(event)
      BY <1>2, <2>1, <2>8 DEF DataStop, DataClosed
    <2>. QED  BY <2>0, <2>3, <2>4, <2>5, <2>6, <2>7, <2>8 DEF PollStep
  <1>6. CASE UNCHANGED vars
    BY <1>2, <1>6 DEF vars
  <1>. QED  BY <1>3, <1>4, <1>5, <1>6 DEF Next

(* Only TX_REQUEST puts a frame in flight. *)
LEMMA FlightKept ==
    ASSUME \/ S!Client \/ S!discard \/ S!Elapse \/ UNCHANGED svars
           \/ \E token : S!OnConfigure(token)
           \/ \E event : S!OnEvent(event)
           \/ \E abandon : S!tick(abandon)
           \/ \E n : S!out_consume(n)
    PROVE  tx_in_flight' => tx_in_flight /\ UNCHANGED tx_seq
  <1>. DEFINE Goal == tx_in_flight' => tx_in_flight /\ UNCHANGED tx_seq
  <1>1. CASE UNCHANGED <<tx_in_flight, tx_seq>>
    BY <1>1
  <1>2. CASE ~tx_in_flight'
    BY <1>2
  <1>. HIDE DEF Goal
  <1>. SUFFICES Goal
    BY DEF Goal
  <1>3. CASE UNCHANGED <<tx_in_flight, tx_seq>> \/ ~tx_in_flight'
    BY <1>1, <1>2, <1>3 DEF Goal
  <1>4. ASSUME S!close \/ S!CloseNow PROVE ~tx_in_flight'
    BY <1>4 DEF S!close, S!CloseNow
  <1>5. ASSUME UNCHANGED S!svars PROVE UNCHANGED <<tx_in_flight, tx_seq>>
    BY <1>5 DEF S!svars
  <1>6. CASE S!Client
    BY <1>3, <1>4, <1>6 DEF S!Client, S!OnHello, S!OnAuthResponse, S!OnInvalidConfigure,
       S!OnPong, S!OnIllegalFrame, S!emit, S!EnterPhase
  <1>7. CASE S!discard \/ S!Elapse \/ UNCHANGED svars
    BY <1>3, <1>7 DEF S!discard, S!Elapse, svars
  <1>8. ASSUME NEW token, S!OnConfigure(token) PROVE Goal
    BY <1>3, <1>4, <1>8 DEF S!OnConfigure, S!emit
  <1>9. ASSUME NEW event, S!OnEvent(event) PROVE Goal
    <2>1. \/ S!on_configure_complete(event.token, event.arg)
          \/ S!on_tx_complete(event.arg)
          \/ S!on_rx \/ S!on_backend_failure \/ UNCHANGED S!svars
      BY <1>9 DEF S!OnEvent
    <2>2. ASSUME S!on_configure_complete(event.token, event.arg) PROVE Goal
      BY <1>3, <1>4, <1>5, <2>2 DEF S!on_configure_complete, S!emit, S!enter_ready
    <2>3. ASSUME S!on_tx_complete(event.arg) PROVE Goal
      BY <1>3, <1>4, <1>5, <2>3 DEF S!on_tx_complete, S!emit
    <2>4. CASE S!on_rx \/ S!on_backend_failure
      BY <1>3, <1>4, <1>5, <2>4 DEF S!on_rx, S!on_backend_failure, S!emit
    <2>. QED  BY <1>3, <1>5, <2>1, <2>2, <2>3, <2>4
  <1>10. ASSUME NEW abandon, S!tick(abandon) PROVE Goal
    BY <1>3, <1>4, <1>5, <1>10 DEF S!tick, S!emit
  <1>11. ASSUME NEW n, S!out_consume(n) PROVE Goal
    BY <1>3, <1>11 DEF S!out_consume
  <1>. QED  BY <1>6, <1>7, <1>8, <1>9, <1>10, <1>11

(* Every step of the bridge keeps the queued results true. *)
LEMMA StepOwn ==
    ASSUME Accounting, Accounting', AgreeInv, OwnInv, [BridgeNext]_bridge
    PROVE  OwnInv'
  <1>1. [Next]_vars
    BY StepContract
  <1>2. /\ lastTx \in Nat /\ lastTx <= lastTx' /\ lastTx' \in Nat
        /\ firstTx \in Nat /\ firstTx <= lastTx
    <2>1. Typed /\ Typed'
      BY DEF Accounting, TypeOK
    <2>2. lastTx <= lastTx'
      BY <1>1, <2>1, FramesCounted
    <2>3. lastTx \in 0 .. MaxTx /\ lastTx' \in 0 .. MaxTx
      BY <2>1 DEF Typed
    <2>4. lastTx \in Nat /\ lastTx' \in Nat
      BY SMT, <2>3, BoundsAssumption
    <2>5. firstTx \in Nat /\ firstTx <= lastTx
      BY DEF OwnInv
    <2>. QED  BY <2>2, <2>4, <2>5
  <1>3. CASE Accept
    <2>1. outbox' = <<>> /\ tx_in_flight' = FALSE /\ firstTx' = lastTx /\ lastTx' = lastTx
      BY <1>3 DEF Accept, Attach, S!open, hist
    <2>2. outbox' \in Seq(TrueReplies') /\ Len(outbox') <= MaxOutbox
      BY SMT, <2>1, QueueAssumption
    <2>3. firstTx' \in Nat /\ firstTx' <= lastTx'
      BY <1>2, <2>1
    <2>. QED  BY <2>1, <2>2, <2>3 DEF OwnInv
  <1>4. CASE ~Accept
    <2>. DEFINE T == TrueReplies'
                Queue == outbox' \in Seq(T) /\ Len(outbox') <= MaxOutbox
                Flight == tx_in_flight' => tx_seq' > firstTx
    <2>1. UNCHANGED firstTx
      BY <1>4 DEF BridgeNext, Loop, NoAccept, ReadFrame, ReadEnd, PollBackend,
         TickSession, Flush, Clock, DaemonStep, bridge, server
    <2>2. outbox \in Seq(T) /\ Len(outbox) <= MaxOutbox
      BY <1>1, <2>1, TruthKept DEF OwnInv
    <2>3. \A type \in S!ServerFrames \ {"TX_RESULT"} : S!Reply(type) \in T
      BY DEF TrueReplies, S!Reply, S!Replies
    <2>4. ASSUME tx_in_flight' => tx_in_flight /\ UNCHANGED tx_seq PROVE Flight
      BY <2>4 DEF OwnInv
    <2>5. ASSUME NEW n \in Nat, n <= Len(outbox), S!out_consume(n) PROVE Queue
      <3>1. outbox' = SubSeq(outbox, n + 1, Len(outbox))
        BY <2>5 DEF S!out_consume
      <3>2. outbox' \in Seq(T) /\ Len(outbox') = Len(outbox) - n
        BY SMT, <2>2, <2>5, <3>1
      <3>. QED  BY SMT, <2>2, <2>5, <3>2, QueueAssumption
    <2>6. ASSUME UNCHANGED svars PROVE Queue
      BY <2>2, <2>6 DEF svars
    <2>14. firstTx' \in Nat /\ firstTx' <= lastTx'
      BY SMT, <1>2, <2>1
    <2>. SUFFICES Queue /\ Flight
      BY <2>1, <2>14 DEF OwnInv
    <2>. HIDE DEF T
    <2>7. CASE NoAccept \/ DaemonStep \/ UNCHANGED bridge
      <3>1. UNCHANGED svars
        BY <2>7 DEF NoAccept, DaemonStep, bridge
      <3>. QED  BY <2>4, <2>6, <3>1, FlightKept
    <2>8. CASE ReadFrame
      <3>1. CASE S!Client \/ \E token : S!OnConfigure(token)
        BY <2>2, <2>3, <2>4, <3>1, OtherReplies, FlightKept
      <3>2. ASSUME NEW ok, S!OnTxRequest(lastTx + 1, ok) PROVE Queue /\ Flight
        <4>1. Queue
          BY <2>2, <2>3, <3>2, OtherReplies
        <4>2. tx_seq' = lastTx + 1
          BY <3>2 DEF S!OnTxRequest
        <4>3. tx_seq' > firstTx
          BY SMT, <1>2, <4>2
        <4>. QED  BY <4>1, <4>3
      <3>. QED  BY <2>8, <3>1, <3>2 DEF ReadFrame, Frame
    <2>9. CASE ReadEnd
      <3>1. PICK n \in 0 .. Len(outbox) : S!out_consume(n)
        BY <2>9 DEF ReadEnd
      <3>2. n \in Nat /\ n <= Len(outbox)
        BY SMT, <2>2
      <3>. QED  BY <2>4, <2>5, <3>1, <3>2, FlightKept
    <2>10. CASE PollBackend
      <3>1. CASE UNCHANGED svars
        BY <2>4, <2>6, <3>1, FlightKept
      <3>2. ASSUME NEW event, PollStep(event), S!OnEvent(event) PROVE Queue /\ Flight
        <4>1. Flight
          BY <2>4, <3>2, FlightKept
        <4>2. CASE event.cb # "tx_complete"
          BY <2>2, <2>3, <3>2, <4>1, <4>2, OtherReplies
        <4>3. CASE event.cb = "tx_complete" /\ ~tx_in_flight
          <5>1. UNCHANGED S!svars
            BY <3>2, <4>3 DEF S!OnEvent, S!on_tx_complete
          <5>. QED  BY <2>6, <4>1, <5>1 DEF S!svars, svars
        <4>4. CASE event.cb = "tx_complete" /\ tx_in_flight
          <5>1. attached
            BY <4>4 DEF AgreeInv
          <5>2. PollTells(event)
            BY <3>2, <5>1, PollCallbacks DEF Accounting
          <5>3. PICK outcome : /\ event = OnTxComplete(outcome) /\ state = "TxPending"
                               /\ delivered' = [delivered EXCEPT ![txOut] = Append(@, outcome)]
            <6>1. /\ event \notin {NoEvent, OnRx, OnFailure}
                  /\ \A arg : event # OnConfigured(config_token, arg)
              <7>1. event.cb = "tx_complete"
                BY <4>4
              <7>2. /\ NoEvent.cb = "none" /\ OnRx.cb = "rx" /\ OnFailure.cb = "backend_failure"
                    /\ \A arg : OnConfigured(config_token, arg).cb = "configure_complete"
                BY DEF NoEvent, OnRx, OnFailure, OnConfigured, Event
              <7>. QED  BY <7>1, <7>2
            <6>. QED  BY <5>2, <6>1 DEF PollTells
          <5>4. S!TxReply(tx_seq, outcome) \in T
            BY <2>1, <4>4, <5>3, ReportedResult DEF T
          <5>5. S!on_tx_complete(outcome)
            BY <3>2, <5>3 DEF S!OnEvent, OnTxComplete, Event
          <5>6. Queue
            BY <2>2, <4>4, <5>4, <5>5, QueueOne DEF S!on_tx_complete, S!emit
          <5>. QED  BY <4>1, <5>6
        <4>. QED  BY <4>2, <4>3, <4>4
      <3>. QED  BY <2>10, <3>1, <3>2 DEF PollBackend
    <2>11. CASE TickSession
      <3>1. \E abandon : S!tick(abandon)
        BY <2>11 DEF TickSession
      <3>. QED  BY <2>2, <2>3, <2>4, <3>1, OtherReplies, FlightKept
    <2>12. CASE Flush
      <3>1. CASE S!discard
        <4>1. outbox' = <<>>
          BY <3>1 DEF S!discard
        <4>2. Queue
          BY SMTT(20), <4>1, QueueAssumption
        <4>. QED  BY <2>4, <3>1, <4>2, FlightKept
      <3>2. CASE ~S!discard
        <4>1. PICK n \in 0 .. Len(outbox) : S!out_consume(n)
          BY <2>12, <3>2 DEF Flush, Drop
        <4>2. n \in Nat /\ n <= Len(outbox)
          BY SMT, <2>2
        <4>. QED  BY <2>4, <2>5, <4>1, <4>2, FlightKept
      <3>. QED  BY <3>1, <3>2
    <2>13. CASE Clock
      <3>1. S!Elapse
        BY <2>13 DEF Clock
      <3>2. Queue
        BY <2>2, <3>1 DEF S!Elapse
      <3>. QED  BY <2>4, <3>1, <3>2, FlightKept
    <2>. QED  BY <1>4, <2>7, <2>8, <2>9, <2>10, <2>11, <2>12, <2>13
              DEF BridgeNext, Loop
  <1>. QED  BY <1>3, <1>4

(* OwnInv is an invariant of the bridge: what is queued for the client is true, and the
   TX in flight was submitted over this connection. *)
THEOREM OwnershipOfResults == BridgeSpec => []OwnInv
  <1>1. BridgeInit => OwnInv
    <2>. SUFFICES ASSUME BridgeInit PROVE OwnInv
      OBVIOUS
    <2>1. outbox = <<>> /\ ~tx_in_flight /\ firstTx = 0 /\ lastTx = 0
      BY DEF BridgeInit, S!SessionInit, Init
    <2>2. outbox \in Seq(TrueReplies) /\ Len(outbox) <= MaxOutbox /\ firstTx \in Nat
          /\ firstTx <= lastTx
      BY SMT, <2>1, QueueAssumption
    <2>. QED  BY <2>1, <2>2 DEF OwnInv
  <1>2. Accounting /\ Accounting' /\ AgreeInv /\ OwnInv /\ [BridgeNext]_bridge => OwnInv'
    BY StepOwn
  <1>. QED  BY <1>1, <1>2, BridgeAccounting, AgreementHolds, PTL DEF BridgeSpec

(* Every TX_RESULT queued for the client says what became of the frame it   *)
(* names, and the client submitted that frame over the same connection: a   *)
(* late answer reaches no other frame and no later session.                 *)
THEOREM ResultsTrue == BridgeSpec => []ResultsTrueAndOwn
  <1>1. OwnInv => ResultsTrueAndOwn
    <2>. SUFFICES ASSUME OwnInv, NEW i \in 1 .. Len(outbox), outbox[i].type = "TX_RESULT"
                  PROVE  /\ outbox[i].seq > firstTx
                         /\ fate[outbox[i].seq] = Truth(outbox[i].result)
      BY DEF ResultsTrueAndOwn, Truth
    <2>1. outbox[i] \in TrueReplies
      BY SMT DEF OwnInv
    <2>. QED  BY <2>1 DEF TrueReplies
  <1>. QED  BY <1>1, OwnershipOfResults, PTL
-------------------------------------------------------------------------------
(* The process ends and is started again. *)

NothingHeld == \A id \in TxIds : fate[id] # "held"

(* The inductive invariant. *)
RInv ==
    /\ TypeOK /\ LinkInv /\ FrameInv /\ ResultInv /\ NoForgedResult
    /\ LogHonest(orphans)
    /\ up => OwnershipTracked
    /\ ~up => state = "Disconnected" /\ (uncertain \/ NothingHeld)

LEMMA RInitHolds == RInit => RInv
  <1>. SUFFICES ASSUME RInit PROVE RInv
    OBVIOUS
  <1>1. Accounting /\ up /\ orphans = {}
    BY InitAccounting DEF RInit
  <1>2. Core({})
    BY <1>1, NoGaps DEF Accounting
  <1>. QED  BY <1>1, <1>2 DEF Accounting, Core, RInv

(* A step of the running bridge, of its daemon or of the clock. *)
LEMMA RunningStep ==
    ASSUME RInv, up, Caller \/ Poll \/ Tick \/ Daemon, UNCHANGED process
    PROVE  RInv'
  <1>1. PICK gaps : gaps = orphans
    OBVIOUS
  <1>2. Typed /\ LinkInv /\ Core(gaps) /\ TypeOK
    BY <1>1 DEF RInv, Core, TypeOK
  <1>3. LinkInv' /\ Core(gaps)'
    <2>1. CASE Poll
      <3>1. PICK event : PollStep(event)
        BY <2>1 DEF Poll
      <3>. QED  BY <1>2, <3>1, PollStartCore, PollConfCore, PollDataCore DEF PollStep
    <2>. QED  BY <1>2, <2>1, CallerCore, EnvironmentCore
  <1>4. TypeOK'
    <2>1. Next
      BY DEF Next
    <2>. QED  BY <1>2, <2>1, NextTyped
  <1>5. up' = up /\ orphans' = gaps
    BY <1>1 DEF process
  <1>6. LogHonest(orphans)'
    BY <1>3, <1>5 DEF Core, LogHonest
  <1>. QED  BY <1>3, <1>4, <1>5, <1>6 DEF Core, RInv

(* Without a bridge nothing is on its way. *)
LEMMA DownFacts ==
    ASSUME RInv, ~up
    PROVE  /\ state = "Disconnected" /\ txOut = 0 /\ dataSock = "closed" /\ dataIn = <<>>
           /\ pc = "idle"
  BY DEF RInv, LinkInv, FrameInv

(* What happens to the frames the daemon held when the bridge went down.    *)
LEMMA DownFates ==
    ASSUME RInv, ~up, TypeOK', UNCHANGED <<state, pc, txOut, dataSock, dataIn, lastTx, rflog>>,
           UNCHANGED <<delivered, up, orphans>>,
           \A id \in TxIds : fate'[id] = fate[id]
               \/ (fate[id] = "held" /\ fate'[id] \in {"ok", "failed"}),
           uncertain' \/ (uncertain => NothingHeld')
    PROVE  RInv'
  <1>1. /\ state = "Disconnected" /\ txOut = 0 /\ dataSock = "closed" /\ dataIn = <<>>
    BY DownFacts
  <1>2. LinkInv'
    BY DEF RInv, LinkInv
  <1>3. FrameInv'
    BY <1>1 DEF RInv, FrameInv
  <1>4. ResultInv'
    BY <1>1 DEF RInv, ResultInv
  <1>5. NoForgedResult'
    <2>1. ASSUME NEW id \in TxIds, NEW i \in 1 .. Len(delivered[id])
          PROVE  fate'[id] = fate[id]
      <3>1. fate[id] # "held"
        BY DEF RInv, NoForgedResult
      <3>. QED  BY <3>1
    <2>. QED  BY <2>1 DEF RInv, NoForgedResult
  <1>6. LogHonest(orphans)'
    <2>1. ASSUME NEW id \in TxIds
          PROVE  /\ fate'[id] \in {"held", "ok"} => fate[id] \in {"held", "ok"}
                 /\ rflog[id] = <<"ok">> => fate'[id] = "ok"
      <3>1. rflog[id] = <<"ok">> => fate[id] = "ok"
        BY DEF RInv, LogHonest
      <3>. QED  BY <3>1
    <2>. QED  BY <2>1 DEF RInv, LogHonest
  <1>7. ~up' /\ state' = "Disconnected" /\ (uncertain' \/ NothingHeld')
    BY <1>1 DEF RInv, NothingHeld
  <1>. QED  BY <1>2, <1>3, <1>4, <1>5, <1>6, <1>7 DEF RInv

(* The daemon and the clock go on without the bridge. *)
LEMMA DownStep == ASSUME RInv, ~up, Tick \/ Daemon, UNCHANGED process PROVE RInv'
  <1>1. TypeOK'
    BY NextTyped DEF RInv, Next
  <1>2. /\ state = "Disconnected" /\ txOut = 0 /\ dataSock = "closed" /\ dataIn = <<>>
    BY DownFacts
  <1>3. up' = up /\ orphans' = orphans /\ uncertain' = uncertain
    BY DEF process
  <1>4. ASSUME UNCHANGED <<state, pc, txOut, dataSock, dataIn, hist>> PROVE RInv'
    BY <1>1, <1>3, <1>4, DownFates DEF hist
  <1>5. ASSUME NEW id \in TxIds, NEW answer, DaemonResolve(id, answer) PROVE RInv'
    <2>1. /\ fate[id] = "held"
          /\ fate' = [fate EXCEPT ![id] = IF answer = "OK" THEN "ok" ELSE "failed"]
          /\ UNCHANGED <<state, pc, txOut, dataSock, dataIn, lastTx, rflog, delivered>>
      BY <1>2, <1>5 DEF DaemonResolve, ctl, tx
    <2>2. uncertain'
      BY <1>3, <2>1 DEF RInv, NothingHeld
    <2>3. ASSUME NEW other \in TxIds
          PROVE  \/ fate'[other] = fate[other]
                 \/ fate[other] = "held" /\ fate'[other] \in {"ok", "failed"}
      <3>1. fate \in [TxIds -> Fates]
        BY DEF RInv, TypeOK, Typed
      <3>. QED  BY <2>1, <3>1
    <2>. QED  BY <1>1, <1>3, <2>1, <2>2, <2>3, DownFates
  <1>6. CASE Tick
    BY <1>4, <1>6 DEF Tick, ctl, link
  <1>7. CASE DaemonConf
    BY <1>4, <1>7 DEF DaemonConf, ctl, tx
  <1>8. CASE LoseLink
    BY <1>2, <1>4, <1>8 DEF LoseLink, ctl, tx
  <1>9. ASSUME NEW what, DaemonUnsolicited(what) PROVE RInv'
    BY <1>2, <1>4, <1>9 DEF DaemonUnsolicited, SendData, ctl, tx
  <1>. QED  BY <1>5, <1>6, <1>7, <1>8, <1>9 DEF Daemon

(* The process ends: the frame it waited on is an orphan, and if the daemon *)
(* may hold one, the end is uncertain.                                      *)
LEMMA ExitStep == ASSUME RInv, Exit PROVE RInv'
  <1>1. /\ up /\ ~up' /\ orphans' = orphans \cup ({txOut} \ {0})
        /\ uncertain' = (state \in {"TxPending", "Draining", "Faulted"})
        /\ state' = "Disconnected" /\ pc' = "idle" /\ txOut' = 0 /\ txLeft' = 0
        /\ dataSock' = "closed" /\ dataIn' = <<>>
        /\ UNCHANGED <<fate, lastTx, rflog, delivered>>
    BY DEF Exit, TransportClose, FreshLink, hist
  <1>2. TypeOK'
    <2>1. Flags'
      BY DEF Exit, TransportClose, FreshLink, Flags
    <2>2. Typed'
      <3>1. /\ config_token' = 0 /\ confLeft' = 0 /\ confDone' = 0 /\ cfgTimer' = 0
            /\ drainTimer' = 0 /\ confSock' = "closed" /\ confIn' = <<>> /\ slot' = {}
        BY DEF Exit, TransportClose, FreshLink
      <3>2. /\ lastTx' \in 0 .. MaxTx /\ fate' \in [TxIds -> Fates]
            /\ rflog' \in [TxIds -> Seq({"ok", "unconfirmed"})]
            /\ delivered' \in [TxIds -> Seq(Outcomes)]
        BY <1>1 DEF RInv, TypeOK, Typed
      <3>3. Cmds \in Nat
        BY SMT, BoundsAssumption DEF Cmds
      <3>4. confIn' \in Seq(ConfLines) /\ dataIn' \in Seq(DataFrames)
        BY SMT, <1>1, <3>1
      <3>5. slot' \subseteq TxIds \cup {0}
        BY <3>1
      <3>. QED  BY SMTT(20), <1>1, <3>1, <3>2, <3>3, <3>4, <3>5, BoundsAssumption
                DEF Typed, States, Sockets
    <2>. QED  BY <2>1, <2>2 DEF TypeOK
  <1>3. LinkInv' /\ ResultInv'
    BY SMT, <1>1 DEF LinkInv, ResultInv
  <1>4. FrameInv' /\ NoForgedResult'
    BY <1>1 DEF RInv, FrameInv, NoForgedResult
  <1>5. LogHonest(orphans)'
    <2>1. \A id \in TxIds : id \in Nat /\ id # 0
      BY SMTT(20), BoundsAssumption DEF TxIds
    <2>2. txOut # 0 => txOut <= lastTx /\ rflog[txOut] = <<>>
      BY SMTT(20), BoundsAssumption DEF RInv, TypeOK, Typed, FrameInv
    <2>3. ASSUME NEW id \in TxIds
          PROVE  /\ Len(rflog[id]) <= 1 /\ (rflog[id] = <<"ok">> => fate[id] = "ok")
                 /\ fate[id] \in {"held", "ok"} => rflog[id] # <<>> \/ id \in orphans'
                 /\ id \in orphans' => id # 0 /\ id <= lastTx /\ rflog[id] = <<>>
      BY <1>1, <2>1, <2>2 DEF RInv, LogHonest
    <2>. QED  BY <1>1, <2>3 DEF LogHonest
  <1>6. uncertain' \/ NothingHeld'
    BY <1>1 DEF RInv, OwnershipTracked, NothingHeld
  <1>. QED  BY <1>1, <1>2, <1>3, <1>4, <1>5, <1>6 DEF RInv

(* The operator restarts the daemon: nothing is held any more. *)
LEMMA RestartDaemonStep == ASSUME RInv, RestartDaemon PROVE RInv'
  <1>1. PICK outcome \in {"ok", "failed"} :
          fate' = [id \in TxIds |-> IF fate[id] = "held" THEN outcome ELSE fate[id]]
    BY DEF RestartDaemon
  <1>2. /\ ~up /\ UNCHANGED <<ctl, config, tx, link, lastTx, rflog, delivered, up, orphans>>
    BY DEF RestartDaemon
  <1>3. TypeOK'
    <2>1. Flags'
      BY <1>2 DEF RInv, TypeOK, Flags, ctl, tx, link
    <2>2. fate' \in [TxIds -> Fates]
      BY <1>1 DEF RInv, TypeOK, Typed, Fates
    <2>3. Typed'
      BY <1>2, <2>2 DEF RInv, TypeOK, Typed, ctl, config, tx, link
    <2>. QED  BY <2>1, <2>3 DEF TypeOK
  <1>4. NothingHeld'
    BY <1>1 DEF NothingHeld
  <1>5. ASSUME NEW id \in TxIds
        PROVE  fate'[id] = fate[id] \/ (fate[id] = "held" /\ fate'[id] \in {"ok", "failed"})
    BY <1>1
  <1>. QED  BY <1>2, <1>3, <1>4, <1>5, DownFates DEF ctl, tx, link

(* A step of the process or of nobody leaves what the backend's invariants *)
(* speak of as it was.                                                     *)
LEMMA SameBackend ==
    ASSUME UNCHANGED <<ctl, tx, link, hist>>, orphans' = orphans
    PROVE  /\ (LinkInv => LinkInv') /\ (FrameInv => FrameInv') /\ (ResultInv => ResultInv')
           /\ (NoForgedResult => NoForgedResult') /\ (OwnershipTracked => OwnershipTracked')
           /\ (LogHonest(orphans) => LogHonest(orphans)')
  <1>1. LinkInv => LinkInv'
    BY DEF LinkInv, ctl, tx, link
  <1>2. FrameInv => FrameInv'
    BY DEF FrameInv, ctl, tx, link, hist
  <1>3. ResultInv => ResultInv'
    BY DEF ResultInv, ctl, tx, link, hist
  <1>4. NoForgedResult => NoForgedResult'
    BY DEF NoForgedResult, ctl, tx, link, hist
  <1>5. OwnershipTracked => OwnershipTracked'
    BY DEF OwnershipTracked, ctl, tx, link, hist
  <1>6. LogHonest(orphans) => LogHonest(orphans)'
    BY DEF LogHonest, ctl, tx, link, hist
  <1>. QED  BY <1>1, <1>2, <1>3, <1>4, <1>5, <1>6

(* The operator starts the bridge again, on a daemon that holds nothing. *)
LEMMA RestartBridgeStep == ASSUME RInv, RestartBridge PROVE RInv'
  <1>1. /\ ~up /\ up' /\ ~uncertain /\ UNCHANGED <<ctl, config, tx, link, hist, orphans>>
    BY DEF RestartBridge, vars
  <1>2. NothingHeld
    BY <1>1 DEF RInv
  <1>3. TypeOK'
    BY <1>1, NextTyped DEF RInv, vars
  <1>4. LinkInv' /\ FrameInv' /\ ResultInv' /\ NoForgedResult' /\ LogHonest(orphans)'
    BY <1>1, SameBackend DEF RInv
  <1>5. OwnershipTracked'
    BY <1>1, <1>2 DEF OwnershipTracked, NothingHeld, hist
  <1>. QED  BY <1>1, <1>3, <1>4, <1>5 DEF RInv

(* The invariant over any number of processes. *)
THEOREM RecoveryInvariant == RSpec => []RInv
  <1>1. ASSUME RInv, [RNext]_rvars PROVE RInv'
    <2>1. CASE RNext
      <3>1. ASSUME up, Caller \/ RPoll, UNCHANGED process PROVE RInv'
        BY <1>1, <3>1, RunningStep DEF RPoll
      <3>2. ASSUME Tick \/ Daemon, UNCHANGED process PROVE RInv'
        BY <1>1, <3>2, RunningStep, DownStep
      <3>. QED  BY <1>1, <2>1, <3>1, <3>2, ExitStep, RestartDaemonStep, RestartBridgeStep
                DEF RNext, RPoll
    <2>2. CASE UNCHANGED rvars
      <3>1. UNCHANGED <<ctl, config, tx, link, hist>> /\ UNCHANGED <<up, uncertain, orphans>>
        BY <2>2 DEF rvars, vars, process
      <3>2. TypeOK'
        BY <1>1, <3>1, NextTyped DEF RInv, vars
      <3>3. /\ LinkInv' /\ FrameInv' /\ ResultInv' /\ NoForgedResult' /\ LogHonest(orphans)'
            /\ (OwnershipTracked => OwnershipTracked')
        BY <1>1, <3>1, SameBackend DEF RInv
      <3>4. state' = state /\ (NothingHeld => NothingHeld')
        BY <3>1 DEF ctl, hist, NothingHeld
      <3>. QED  BY <1>1, <3>1, <3>2, <3>3, <3>4 DEF RInv
    <2>. QED  BY <1>1, <2>1, <2>2
  <1>. QED  BY <1>1, RInitHolds, PTL DEF RSpec

(* log_tx_outcome() over the life of several processes: the RF log misses a *)
(* frame that was or may yet be transmitted only if a process ended while   *)
(* it was waiting on that very frame.                                       *)
THEOREM OnlyOrphansUnlogged == RSpec => []LogGapsAreOrphans
  <1>1. RInv => LogGapsAreOrphans
    BY DEF RInv, LogHonest, LogGapsAreOrphans
  <1>. QED  BY <1>1, RecoveryInvariant, PTL

(* A frame is handed over by the running bridge only, in Ready or TxWriting. *)
LEMMA HandOver ==
    ASSUME TypeOK, Caller \/ Poll \/ Tick \/ Daemon,
           NEW id \in TxIds, fate[id] # "held", fate'[id] = "held"
    PROVE  (Caller \/ Poll) /\ state \in {"Ready", "TxWriting"}
  <1>1. ASSUME Caller PROVE state \in {"Ready", "TxWriting"}
    <2>1. ASSUME Attach \/ AbandonPendingTx \/ Detach PROVE fate' = fate
      BY <2>1 DEF Attach, AbandonPendingTx, Detach, hist
    <2>2. ASSUME NEW token, BeginConfigure(token) PROVE fate' = fate
      BY <2>2 DEF BeginConfigure, ConfigureRefused, ConnectRefused, ConfigureStarted,
         vars, hist
    <2>3. ASSUME NEW validLen, NEW ok, SubmitTx(validLen, ok)
          PROVE  fate' = fate \/ state = "Ready"
      BY <2>3 DEF SubmitTx, SubmitRefused, SubmitAttempt, vars, hist
    <2>4. fate' # fate
      OBVIOUS
    <2>. QED  BY <1>1, <2>1, <2>2, <2>3, <2>4 DEF Caller
  <1>2. ASSUME Tick \/ Daemon PROVE FALSE
    <2>1. fate' # fate
      OBVIOUS
    <2>2. PICK other \in TxIds, answer \in Statuses \cup {"ERROR"} :
            DaemonResolve(other, answer)
      BY ZenonT(40), <1>2, <2>1 DEF Tick, Daemon, DaemonConf, DaemonUnsolicited, LoseLink,
         hist
    <2>3. fate' = [fate EXCEPT ![other] = IF answer = "OK" THEN "ok" ELSE "failed"]
      BY <2>2 DEF DaemonResolve
    <2>. QED  BY <2>3 DEF TypeOK, Typed
  <1>3. ASSUME Poll PROVE state \in {"Ready", "TxWriting"}
    <2>1. PICK event : PollStep(event)
      BY <1>3 DEF Poll
    <2>2. CASE ResumeWrite(event)
      BY <2>2 DEF ResumeWrite, hist
    <2>3. CASE ~ResumeWrite(event)
      <3>1. fate' = fate
        BY <2>1, <2>3 DEF PollStep, PollConnecting, PollConfiguring,
           PollOperational, PollDraining, ConfLine, ConfStop, ConfClosed,
           DataFrame, DataStop, DataClosed, DispatchRx, DispatchResult, ConfFails,
           advance_connect, advance_configure, config_succeed, config_fail,
           handle_disconnect, hist
      <3>. QED  BY <3>1
    <2>. QED  BY <2>2, <2>3
  <1>. QED  BY <1>1, <1>2, <1>3

(* submit_tx() and pump_tx_write() over any number of crashes, shutdowns    *)
(* and restarts: a frame is handed to the daemon only when it holds no      *)
(* other.                                                                   *)
THEOREM OneFrameInTheDaemon == RSpec => HandedOverAlone
  <1>1. ASSUME RInv, [RNext]_rvars, NEW id \in TxIds, fate[id] # "held", fate'[id] = "held"
        PROVE  \A other \in TxIds : fate[other] # "held"
    <2>1. ~Exit /\ ~RestartDaemon /\ ~RestartBridge /\ ~UNCHANGED rvars
      <3>1. ~Exit /\ ~RestartBridge /\ ~UNCHANGED rvars
        BY <1>1 DEF Exit, RestartBridge, rvars, vars, hist
      <3>2. ASSUME RestartDaemon PROVE FALSE
        <4>1. PICK outcome \in {"ok", "failed"} :
                fate' = [i \in TxIds |-> IF fate[i] = "held" THEN outcome ELSE fate[i]]
          BY <3>2 DEF RestartDaemon
        <4>. QED  BY <1>1, <4>1
      <3>. QED  BY <3>1, <3>2
    <2>2. \/ up /\ (Caller \/ Poll)
          \/ Tick \/ Daemon
      BY <1>1, <2>1 DEF RNext, RPoll
    <2>3. TypeOK
      BY <1>1 DEF RInv
    <2>4. (Caller \/ Poll) /\ state \in {"Ready", "TxWriting"}
      BY <1>1, <2>2, <2>3, HandOver
    <2>5. up
      <3>1. ~up => state = "Disconnected"
        BY <1>1 DEF RInv
      <3>. QED  BY <2>4, <3>1
    <2>. QED  BY <1>1, <2>4, <2>5 DEF RInv, OwnershipTracked
  <1>2. RInv /\ [RNext]_rvars =>
          [\A id \in TxIds : fate[id] # "held" /\ fate'[id] = "held" =>
              \A other \in TxIds : fate[other] # "held"]_rvars
    BY <1>1
  <1>. QED  BY <1>2, RecoveryInvariant, PTL DEF RSpec, HandedOverAlone
===============================================================================
