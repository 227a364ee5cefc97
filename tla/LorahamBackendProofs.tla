------------------------- MODULE LorahamBackendProofs -------------------------
(***************************************************************************)
(* Proofs about LorahamBackend, for every number of frames, every size of  *)
(* the configuration and of the channels, and every timeout.               *)
(***************************************************************************)
EXTENDS LorahamBackend, TLAPS

(* Most leaves rewrite equalities and split sets: Zenon takes them, and SMT *)
(* is cited where a leaf counts, or reasons about sequences.                *)
USE Zenon

-------------------------------------------------------------------------------
(* Type correctness. *)

(* What the daemon adds to a channel leaves a channel of the same type. *)
LEMMA AppendTyped ==
    ASSUME NEW S, NEW s \in Seq(S), NEW e \in S
    PROVE  Append(s, e) \in Seq(S)
  BY SMT

(* The initial state of the backend, of its link and of the daemon is typed. *)
LEMMA InitTyped == Init => TypeOK
  <1>1. Init => Flags
    BY DEF Init, Flags
  <1>2. Init => Typed
    BY SMT, BoundsAssumption DEF Init, Typed, States, Sockets, Fates, TxIds, Cmds
  <1>. QED  BY <1>1, <1>2 DEF TypeOK

(* The RF log stays typed when log_tx_outcome adds a line. *)
LEMMA LogTyped ==
    ASSUME Typed, NEW outcome \in {"ok", "unconfirmed"}
    PROVE  log_tx_outcome(outcome) \in [TxIds -> Seq({"ok", "unconfirmed"})]
  BY SMT, BoundsAssumption DEF Typed, log_tx_outcome, TxIds

(* What a daemon answer means to the sink is an outcome. *)
LEMMA OutcomeTyped == \A frame : OutcomeOf(frame) \in Outcomes
  BY DEF OutcomeOf, map_tx_status, Outcomes

(* Closing the link with nothing left to send keeps the types, whatever    *)
(* the RF log becomes and however many frames there are.                   *)
LEMMA CloseTyped ==
    ASSUME Typed, TransportClose, state' \in States, pc' = "idle",
           confLeft' = 0, txOut' = 0, txLeft' = 0,
           UNCHANGED <<config_token, cfgTimer, drainTimer, fate, delivered>>,
           lastTx' \in 0 .. MaxTx,
           rflog' \in [TxIds -> Seq({"ok", "unconfirmed"})]
    PROVE  Typed'
  BY SMT, BoundsAssumption DEF TransportClose, FreshLink, Typed, Sockets, Cmds

(* So does leaving the link for the state next. *)
LEMMA DropTyped ==
    ASSUME Typed, NEW next \in States, DropLink(next),
           UNCHANGED <<drainTimer, fate, delivered>>, lastTx' \in 0 .. MaxTx,
           rflog' \in [TxIds -> Seq({"ok", "unconfirmed"})]
    PROVE  Typed'
  BY CloseTyped DEF DropLink

(* reset_link_unconfigured keeps the types. *)
LEMMA ResetTyped ==
    ASSUME Typed, reset_link_unconfigured, UNCHANGED <<drainTimer, hist>>
    PROVE  Typed'
  <1>1. rflog' \in [TxIds -> Seq({"ok", "unconfirmed"})] /\ lastTx' \in 0 .. MaxTx
    BY DEF Typed, hist
  <1>. QED  BY <1>1, DropTyped DEF reset_link_unconfigured, States, hist

(* handle_disconnect keeps the types, whether it faults or resets. *)
LEMMA DisconnectTyped ==
    ASSUME NEW event, Typed, handle_disconnect(event)
    PROVE  Typed'
  <1>1. CASE state \in {"Draining", "TxPending"}
    <2>1. rflog' \in [TxIds -> Seq({"ok", "unconfirmed"})]
      BY <1>1, LogTyped DEF handle_disconnect, enter_fault
    <2>2. lastTx' \in 0 .. MaxTx
      BY DEF handle_disconnect, Typed
    <2>. QED  BY <1>1, <2>1, <2>2, DropTyped DEF handle_disconnect, enter_fault, States
  <1>2. CASE state \notin {"Draining", "TxPending"}
    BY <1>2, ResetTyped DEF handle_disconnect, hist
  <1>. QED  BY <1>1, <1>2

(* A run of pump_tx_write over a frame keeps the types of what it changes. *)
LEMMA WriteTyped ==
    ASSUME Typed, NEW id \in TxIds \cup {0}, NEW left \in 0 .. TxChunks, pump_tx_write(id, left)
    PROVE  /\ txLeft' \in 0 .. TxChunks /\ state' \in States
           /\ fate' \in [TxIds -> Fates] /\ slot' \subseteq TxIds \cup {0}
  <1>1. PICK n \in 0 .. left :
          /\ txLeft' = n /\ state' = IF n = 0 THEN "TxPending" ELSE "TxWriting"
          /\ fate' = IF n = 0 THEN [fate EXCEPT ![id] = "held"] ELSE fate
          /\ slot' = IF n = 0 THEN slot \cup {id} ELSE slot
    BY DEF pump_tx_write
  <1>2. txLeft' \in 0 .. TxChunks /\ state' \in States
    BY SMT, <1>1, BoundsAssumption DEF States
  <1>3. fate' \in [TxIds -> Fates]
    BY <1>1 DEF Typed, Fates
  <1>4. slot' \subseteq TxIds \cup {0}
    BY <1>1 DEF Typed
  <1>. QED  BY <1>2, <1>3, <1>4

(* Every call of the bridge keeps the types. *)
LEMMA CallerTyped == ASSUME Typed, Caller PROVE Typed'
  <1>1. CASE Attach
    BY <1>1 DEF Attach, config, tx, link, hist, Typed
  <1>2. ASSUME NEW token \in 0 .. U32 - 1, BeginConfigure(token) PROVE Typed'
    <2>1. CASE ConfigureRefused
      BY <2>1 DEF ConfigureRefused, vars, ctl, config, tx, link, hist, Typed
    <2>2. CASE ConnectRefused
      BY SMT, <2>2, BoundsAssumption DEF ConnectRefused, TransportClose, FreshLink, ctl,
         config, tx, hist, Typed, Sockets, Cmds
    <2>3. CASE ConfigureStarted(token)
      BY SMT, <2>3, BoundsAssumption DEF ConfigureStarted, FreshLink, tx, hist, Typed,
         States, Sockets, Cmds
    <2>. QED  BY <1>2, <2>1, <2>2, <2>3 DEF BeginConfigure
  <1>3. ASSUME NEW validLen \in BOOLEAN, NEW ok \in BOOLEAN, SubmitTx(validLen, ok)
        PROVE  Typed'
    <2>1. CASE SubmitRefused(validLen)
      BY <2>1 DEF SubmitRefused, vars, ctl, config, tx, link, hist, Typed
    <2>2. CASE SubmitAttempt(ok) /\ dataSock = "open"
      <3>1. pump_tx_write(lastTx', TxChunks) /\ lastTx' \in TxIds /\ lastTx' = lastTx + 1
        BY SMT, <2>2, BoundsAssumption DEF SubmitAttempt, Typed, TxIds
      <3>2. /\ txLeft' \in 0 .. TxChunks /\ state' \in States
            /\ fate' \in [TxIds -> Fates] /\ slot' \subseteq TxIds \cup {0}
        BY SMT, <3>1, WriteTyped, BoundsAssumption
      <3>. QED  BY SMTT(30), <2>2, <3>1, <3>2, BoundsAssumption DEF SubmitAttempt, config, Typed,
                TxIds
    <2>3. CASE SubmitAttempt(ok) /\ dataSock # "open"
      <3>1. lastTx' \in 0 .. MaxTx
        BY SMT, <2>3, BoundsAssumption DEF SubmitAttempt, Typed
      <3>2. rflog' \in [TxIds -> Seq({"ok", "unconfirmed"})]
        BY <2>3 DEF SubmitAttempt, Typed
      <3>. QED  BY <2>3, <3>1, <3>2, DropTyped DEF SubmitAttempt,
                reset_link_unconfigured, States
    <2>. QED  BY <1>3, <2>1, <2>2, <2>3 DEF SubmitTx
  <1>4. CASE AbandonPendingTx
    <2>1. CASE StartDraining
      BY SMT, <1>4, <2>1, BoundsAssumption DEF AbandonPendingTx, StartDraining, config, link,
         hist, Typed, States
    <2>2. CASE reset_link_unconfigured /\ UNCHANGED <<epoch_current, drainTimer>>
      BY <1>4, <2>2, ResetTyped DEF AbandonPendingTx
    <2>3. CASE UNCHANGED <<ctl, config, tx, link>>
      BY <1>4, <2>3 DEF AbandonPendingTx, ctl, config, tx, link, hist, Typed
    <2>. QED  BY <1>4, <2>1, <2>2, <2>3 DEF AbandonPendingTx
  <1>5. CASE Detach
    <2>1. CASE StartDraining
      BY SMT, <1>5, <2>1, BoundsAssumption DEF Detach, StartDraining, config, link, hist,
         Typed, States
    <2>2. CASE state \in {"Draining", "Faulted"}
      BY SMTT(30), <1>5, <2>2 DEF Detach, StartDraining, config, tx, link, hist, Typed
    <2>3. CASE state \notin {"TxPending", "Draining", "Faulted"}
      <3>1. /\ TransportClose /\ state' = "Disconnected" /\ pc' = "idle"
            /\ confLeft' = 0 /\ txOut' = 0 /\ txLeft' = 0
            /\ UNCHANGED <<config_token, cfgTimer, drainTimer, hist>>
        BY <1>5, <2>3 DEF Detach, StartDraining
      <3>. QED  BY <3>1, CloseTyped DEF Typed, States, hist
    <2>. QED  BY <1>5, <2>1, <2>2, <2>3 DEF Detach
  <1>. QED  BY <1>1, <1>2, <1>3, <1>4, <1>5 DEF Caller

(* config_fail keeps the types. *)
LEMMA ConfigFailTyped == ASSUME NEW event, Typed, config_fail(event) PROVE Typed'
  BY ResetTyped DEF config_fail

(* So does advance_configure, on sockets in whatever states it finds. *)
LEMMA ConfigureTyped ==
    ASSUME NEW event, Typed, NEW data \in Sockets, NEW conf \in Sockets,
           advance_configure(data, conf, event)
    PROVE  Typed'
  <1>1. CASE config_fail(event)
    BY <1>1, ConfigFailTyped
  <1>2. CASE ~config_fail(event)
    <2>1. /\ state' = "Configuring" /\ pc' \in {"idle", "conf"}
          /\ dataSock' = data /\ confSock' = conf /\ confLeft' \in 0 .. confLeft
          /\ UNCHANGED <<config_token, cfgTimer, tx, confIn, dataIn, confDone, slot,
                         hist>>
      BY <1>2 DEF advance_configure
    <2>2. confLeft' \in 0 .. Cmds
      BY SMT, <2>1, BoundsAssumption DEF Typed, Cmds
    <2>. QED  BY <2>1, <2>2 DEF tx, hist, Typed, States
  <1>. QED  BY <1>1, <1>2 DEF advance_configure

(* The steps of poll() up to its first read. *)
LEMMA PollStartTyped ==
    ASSUME NEW event, Typed,
           \/ PollConnecting(event) \/ PollConfiguring(event)
           \/ PollOperational(event) \/ PollDraining(event)
    PROVE  Typed'
  <1>1. CASE PollConnecting(event)
    <2>1. CASE config_fail(event)
      BY <2>1, ConfigFailTyped
    <2>2. ASSUME NEW data \in check_one(dataSock), NEW conf \in check_one(confSock),
                 "failed" \notin {data, conf}
          PROVE  data \in Sockets /\ conf \in Sockets
      BY <2>2 DEF check_one, Typed, Sockets
    <2>3. ASSUME NEW data \in check_one(dataSock), NEW conf \in check_one(confSock),
                 "failed" \notin {data, conf}, dataSock' = data, confSock' = conf,
                 UNCHANGED <<ctl, config, tx, confIn, dataIn, confDone, slot, hist>>
          PROVE  Typed'
      BY <2>2, <2>3 DEF ctl, config, tx, hist, Typed
    <2>4. ASSUME NEW data \in check_one(dataSock), NEW conf \in check_one(confSock),
                 "failed" \notin {data, conf}, advance_configure(data, conf, event)
          PROVE  Typed'
      BY <2>2, <2>4, ConfigureTyped
    <2>. QED  BY <1>1, <2>1, <2>3, <2>4 DEF PollConnecting, advance_connect
  <1>2. CASE PollConfiguring(event)
    <2>1. dataSock \in Sockets /\ confSock \in Sockets
      BY DEF Typed
    <2>2. config_fail(event) \/ advance_configure(dataSock, confSock, event)
      BY <1>2 DEF PollConfiguring
    <2>. QED  BY <2>1, <2>2, ConfigFailTyped, ConfigureTyped
  <1>3. CASE PollOperational(event)
    BY <1>3 DEF PollOperational, config, tx, link, hist, Typed
  <1>4. CASE PollDraining(event)
    <2>1. CASE DrainExpired
      <3>1. lastTx' \in 0 .. MaxTx
        BY <1>4, <2>1 DEF PollDraining, Typed
      <3>. QED  BY <1>4, <2>1, <3>1, LogTyped, DropTyped DEF PollDraining, enter_fault,
                States
    <2>2. CASE ~DrainExpired
      <3>1. /\ pc' = "data" /\ confIn' = <<>>
            /\ UNCHANGED <<state, config, tx, dataSock, confSock, dataIn, confDone,
                           slot, hist>>
        BY <1>4, <2>2 DEF PollDraining
      <3>. QED  BY SMT, <3>1 DEF config, tx, hist, Typed
    <2>. QED  BY <1>4, <2>1, <2>2 DEF PollDraining
  <1>. QED  BY <1>1, <1>2, <1>3, <1>4

(* The steps of poll() that read CONF or resume a write. *)
LEMMA PollConfTyped ==
    ASSUME NEW event, Typed,
           \/ ConfLine(event) \/ ConfStop(event) \/ ConfClosed(event)
           \/ ResumeWrite(event)
    PROVE  Typed'
  <1>1. ASSUME ConfFails(event) PROVE Typed'
    BY <1>1, ConfigFailTyped, DisconnectTyped DEF ConfFails
  <1>2. CASE ConfLine(event)
    <2>1. CASE Head(confIn) \in Tolerated
      <3>1. /\ confIn' = Tail(confIn) /\ confIn # <<>>
            /\ UNCHANGED <<ctl, config, tx, dataSock, confSock, dataIn, confDone, slot,
                           hist>>
        BY <1>2, <2>1 DEF ConfLine, Tolerated
      <3>. QED  BY SMT, <3>1 DEF ctl, config, tx, hist, Typed
    <2>2. CASE config_succeed(event)
      BY SMT, <1>2, <2>2, BoundsAssumption DEF ConfLine, config_succeed, hist, Typed, States,
         Cmds
    <2>. QED  BY <1>1, <1>2, <2>1, <2>2 DEF ConfLine
  <1>3. CASE ConfStop(event)
    BY <1>3 DEF ConfStop, config, tx, link, hist, Typed
  <1>4. CASE ConfClosed(event)
    BY <1>1, <1>4 DEF ConfClosed
  <1>5. CASE ResumeWrite(event)
    <2>1. CASE state = "TxWriting" /\ dataSock = "open"
      <3>1. txOut \in TxIds \cup {0} /\ txLeft \in 0 .. TxChunks
        BY SMT, BoundsAssumption DEF Typed, TxIds
      <3>2. pump_tx_write(txOut, txLeft)
        BY <1>5, <2>1 DEF ResumeWrite
      <3>3. /\ txLeft' \in 0 .. TxChunks /\ state' \in States
            /\ fate' \in [TxIds -> Fates] /\ slot' \subseteq TxIds \cup {0}
        BY <3>1, <3>2, WriteTyped
      <3>. QED  BY <1>5, <2>1, <3>3 DEF ResumeWrite, config, Typed
    <2>2. CASE state = "TxWriting" /\ dataSock # "open"
      BY <1>5, <2>2, ResetTyped DEF ResumeWrite
    <2>3. CASE state # "TxWriting"
      BY SMTT(30), <1>5, <2>3 DEF ResumeWrite, config, tx, link, hist, Typed
    <2>. QED  BY <1>5, <2>1, <2>2, <2>3 DEF ResumeWrite
  <1>. QED  BY <1>2, <1>3, <1>4, <1>5

(* The steps of poll() that read DATA. *)
LEMMA PollDataTyped ==
    ASSUME NEW event, Typed, DataFrame(event) \/ DataStop(event) \/ DataClosed(event)
    PROVE  Typed'
  <1>1. CASE DataFrame(event)
    <2>. DEFINE frame == Head(dataIn)
    <2>1. Tail(dataIn) \in Seq(DataFrames)
      BY SMT, <1>1 DEF DataFrame, Typed
    <2>2. CASE DispatchRx(frame, event)
      BY <2>1, <2>2 DEF DispatchRx, PopFrame, config, tx, hist, Typed
    <2>3. CASE DispatchResult(frame, event)
      <3>1. rflog' \in [TxIds -> Seq({"ok", "unconfirmed"})]
        <4>1. rflog' = log_tx_outcome("ok") \/ rflog' = rflog
          BY <2>3 DEF DispatchResult
        <4>. QED  BY <4>1, LogTyped DEF Typed
      <3>2. UNCHANGED <<drainTimer, fate, lastTx>>
        BY <2>3 DEF DispatchResult
      <3>3. CASE state = "TxPending"
        <4>1. /\ state' = "Ready" /\ txOut' = 0 /\ txLeft' = 0 /\ PopFrame
              /\ UNCHANGED config
              /\ \/ delivered' = delivered
                 \/ delivered' = [delivered EXCEPT ![txOut] = Append(@, OutcomeOf(frame))]
          BY <2>3, <3>3 DEF DispatchResult
        <4>2. ASSUME NEW outcome \in Outcomes
              PROVE  [delivered EXCEPT ![txOut] = Append(@, outcome)]
                        \in [TxIds -> Seq(Outcomes)]
          <5>1. CASE txOut \in TxIds
            BY SMT, <5>1 DEF Typed
          <5>2. CASE txOut \notin TxIds
            BY <5>2 DEF Typed
          <5>. QED  BY <5>1, <5>2
        <4>3. delivered' \in [TxIds -> Seq(Outcomes)]
          BY <4>1, <4>2, OutcomeTyped DEF Typed
        <4>. QED  BY SMT, <2>1, <3>1, <3>2, <4>1, <4>3, BoundsAssumption DEF PopFrame, config,
                  Typed, States
      <3>4. CASE state = "Draining"
        <4>1. reset_link_unconfigured /\ UNCHANGED delivered
          BY <2>3, <3>4 DEF DispatchResult
        <4>2. lastTx' \in 0 .. MaxTx
          BY <3>2 DEF Typed
        <4>. QED  BY <3>1, <3>2, <4>1, <4>2, DropTyped DEF reset_link_unconfigured, States
      <3>5. CASE state \notin {"TxPending", "Draining"}
        <4>1. PopFrame /\ UNCHANGED <<state, config, txOut, txLeft, delivered>>
          BY <2>3, <3>5 DEF DispatchResult
        <4>. QED  BY <2>1, <3>1, <3>2, <4>1 DEF PopFrame, config, Typed
      <3>. QED  BY <3>3, <3>4, <3>5
    <2>4. CASE handle_disconnect(event)
      BY <2>4, DisconnectTyped
    <2>. QED  BY <1>1, <2>2, <2>3, <2>4 DEF DataFrame
  <1>2. CASE DataStop(event)
    BY <1>2 DEF DataStop, config, tx, link, hist, Typed
  <1>3. CASE DataClosed(event)
    BY <1>3, DisconnectTyped DEF DataClosed
  <1>. QED  BY <1>1, <1>2, <1>3

(* An answer of the daemon is a frame. *)
LEMMA ResultFrameTyped ==
    ASSUME NEW id \in TxIds, NEW answer \in Statuses \cup {"ERROR"}
    PROVE  ResultFrame(id, answer) \in DataFrames
  BY DaemonAssumption DEF ResultFrame, DataFrames, DataTypes

(* What the clock and the daemon do keeps the types. *)
LEMMA EnvironmentTyped == ASSUME Typed, Tick \/ Daemon PROVE Typed'
  <1>1. CASE Tick
    BY SMT, <1>1, BoundsAssumption DEF Tick, ctl, link, hist, Typed
  <1>2. CASE DaemonConf
    <2>1. confIn' \in Seq(ConfLines)
      <3>1. confIn' = confIn \/ \E line \in ConfLines : confIn' = Append(confIn, line)
        BY <1>2 DEF DaemonConf, SendConf, ConfLines
      <3>. QED  BY <3>1, AppendTyped DEF Typed
    <2>2. confDone' \in 0 .. Cmds
      <3>1. confDone < Cmds - confLeft /\ confDone' = confDone + 1
        BY <1>2 DEF DaemonConf
      <3>. QED  BY SMT, <3>1, BoundsAssumption DEF Typed, Cmds
    <2>3. UNCHANGED <<ctl, config, tx, dataSock, confSock, dataIn, slot, hist>>
      BY <1>2 DEF DaemonConf
    <2>. QED  BY <2>1, <2>2, <2>3 DEF ctl, config, tx, hist, Typed
  <1>3. CASE LoseLink
    BY <1>3 DEF LoseLink, ctl, config, tx, hist, Typed, Sockets
  <1>4. ASSUME NEW id \in TxIds, NEW answer \in Statuses \cup {"ERROR"},
               DaemonResolve(id, answer)
        PROVE  Typed'
    <2>1. dataIn' \in Seq(DataFrames)
      <3>1. dataIn' = dataIn \/ dataIn' = Append(dataIn, ResultFrame(id, answer))
        BY <1>4 DEF DaemonResolve, SendData
      <3>. QED  BY <3>1, ResultFrameTyped, AppendTyped DEF Typed
    <2>2. fate' \in [TxIds -> Fates]
      <3>1. PICK f \in Fates : fate' = [fate EXCEPT ![id] = f]
        BY <1>4 DEF DaemonResolve, Fates
      <3>. QED  BY <3>1 DEF Typed
    <2>3. UNCHANGED <<ctl, config, tx, dataSock, confSock, confIn, confDone, slot,
                      lastTx, rflog, delivered>>
      BY <1>4 DEF DaemonResolve
    <2>. QED  BY <2>1, <2>2, <2>3 DEF ctl, config, tx, Typed
  <1>5. ASSUME NEW what \in Unsolicited, DaemonUnsolicited(what) PROVE Typed'
    <2>. DEFINE frame == [type |-> what, tx |-> 0, status |-> ""]
    <2>1. dataIn' \in Seq(DataFrames)
      <3>1. CASE what \in DataTypes
        <4>1. frame \in DataFrames
          BY <3>1 DEF DataFrames
        <4>2. dataIn' = Append(dataIn, frame)
          BY <1>5, <3>1 DEF DaemonUnsolicited, SendData
        <4>. QED  BY <4>1, <4>2, AppendTyped DEF Typed
      <3>2. CASE what \notin DataTypes
        BY <1>5, <3>2 DEF DaemonUnsolicited, Typed
      <3>. QED  BY <3>1, <3>2
    <2>2. confIn' \in Seq(ConfLines)
      <3>1. what \notin DataTypes => what \in ConfLines
        BY DaemonAssumption DEF ConfLines
      <3>2. \/ confIn' = confIn
            \/ what \notin DataTypes /\ confIn' = Append(confIn, what)
        BY <1>5 DEF DaemonUnsolicited, SendConf
      <3>. QED  BY <3>1, <3>2, AppendTyped DEF Typed
    <2>. QED  BY <1>5, <2>1, <2>2 DEF DaemonUnsolicited, ctl, config, tx, hist, Typed
  <1>. QED  BY <1>1, <1>2, <1>3, <1>4, <1>5 DEF Daemon

(* The three Boolean variables keep their type. *)
LEMMA NextFlags == ASSUME Flags, Next PROVE Flags'
  <1>1. CASE Caller
    BY <1>1 DEF Caller, Attach, AbandonPendingTx, Detach, BeginConfigure, SubmitTx,
       ConfigureRefused, ConnectRefused, ConfigureStarted, SubmitRefused, SubmitAttempt,
       NewEpoch,
       StartDraining, reset_link_unconfigured, DropLink, TransportClose, FreshLink, vars,
       ctl, tx, link, Flags
  <1>2. CASE Tick \/ Daemon
    BY <1>2 DEF Tick, Daemon, DaemonConf, DaemonResolve,
       DaemonUnsolicited, LoseLink, ctl, tx, link, Flags
  <1>3. CASE Poll
    <2>. USE DEF Flags, ctl, tx, link, config_fail, handle_disconnect, enter_fault,
         reset_link_unconfigured, DropLink, TransportClose, FreshLink
    <2>0. PICK event : PollStep(event)
      BY <1>3 DEF Poll
    <2>1. CASE PollConnecting(event)
      BY <2>1, ZenonT(40) DEF PollConnecting, advance_connect, advance_configure
    <2>2. CASE PollConfiguring(event)
      BY <2>2 DEF PollConfiguring, advance_configure
    <2>3. CASE PollOperational(event) \/ PollDraining(event)
      BY <2>3 DEF PollOperational, PollDraining
    <2>4. CASE ConfLine(event)
      BY <2>4 DEF ConfLine, ConfFails, config_succeed
    <2>5. CASE ConfStop(event) \/ ConfClosed(event)
      BY <2>5 DEF ConfStop, ConfClosed, ConfFails
    <2>6. CASE ResumeWrite(event)
      BY <2>6 DEF ResumeWrite
    <2>7. CASE DataFrame(event)
      BY <2>7 DEF DataFrame, DispatchRx, DispatchResult, PopFrame
    <2>8. CASE DataStop(event) \/ DataClosed(event)
      BY <2>8 DEF DataStop, DataClosed
    <2>. QED
      BY <2>0, <2>1, <2>2, <2>3, <2>4, <2>5, <2>6, <2>7, <2>8 DEF PollStep
  <1>. QED  BY <1>1, <1>2, <1>3 DEF Next

(* Every step keeps the types. *)
LEMMA NextTyped == ASSUME TypeOK, [Next]_vars PROVE TypeOK'
  <1>1. CASE Next
    <2>1. ASSUME Typed, Poll PROVE Typed'
      <3>1. PICK event : PollStep(event)
        BY <2>1 DEF Poll
      <3>. QED  BY <2>1, <3>1, PollStartTyped, PollConfTyped, PollDataTyped DEF PollStep
    <2>. QED  BY <1>1, <2>1, NextFlags, CallerTyped, EnvironmentTyped DEF Next, TypeOK
  <1>2. CASE UNCHANGED vars
    BY <1>2 DEF vars, ctl, config, tx, link, hist, TypeOK, Flags, Typed
  <1>. QED  BY <1>1, <1>2

(* TypeOK is an invariant of the backend. *)
THEOREM TypeCorrect == Spec => []TypeOK
  BY InitTyped, NextTyped, PTL DEF Spec
-------------------------------------------------------------------------------
(* The TX ownership boundary: Accounting is inductive when the daemon       *)
(* answers a frame at most once.  Core is the part of it about frames;      *)
(* LinkInv says where poll() may be; the epoch is Boolean and proved apart. *)

(* The RF log is honest about every frame but the ones in gaps, and those   *)
(* are past frames without a line.                                          *)
LogHonest(gaps) ==
    \A id \in TxIds :
        /\ Len(rflog[id]) <= 1
        /\ rflog[id] = <<"ok">> => fate[id] = "ok"
        /\ fate[id] \in {"held", "ok"} /\ id # txOut => rflog[id] # <<>> \/ id \in gaps
        /\ id \in gaps => id # txOut /\ id <= lastTx /\ rflog[id] = <<>>

Core(gaps) ==
    FrameInv /\ ResultInv /\ OwnershipTracked /\ NoForgedResult /\ LogHonest(gaps)

NoResult(frames) == \A i \in 1 .. Len(frames) : ~IsResult(frames[i])
-------------------------------------------------------------------------------
(* Results on their way. *)

(* No result is on its way unless the backend waits for one, nor while the *)
(* daemon still holds the frame.                                           *)
LEMMA NoResultYet ==
    ASSUME ResultInv, \/ state \notin {"TxPending", "Draining"}
                      \/ fate[txOut] = "held"
    PROVE  NoResult(dataIn)
  BY DEF ResultInv, NoResult, FateOf

(* Without results on their way there is nothing to show. *)
LEMMA NoResultInv == ASSUME NoResult(dataIn)' PROVE ResultInv'
  BY DEF ResultInv, NoResult

(* parser_pop keeps what is known of the frames behind the one it takes. *)
LEMMA PopResultInv ==
    ASSUME Typed, ResultInv, dataIn # <<>>, dataIn' = Tail(dataIn),
           UNCHANGED <<state, txOut, fate>>
    PROVE  ResultInv'
  <1>1. /\ Len(dataIn') = Len(dataIn) - 1 /\ Len(dataIn) \in Nat
        /\ \A i \in 1 .. Len(dataIn') : dataIn'[i] = dataIn[i + 1]
    BY SMT DEF Typed
  <1>2. \A i \in 1 .. Len(dataIn') : i + 1 \in 1 .. Len(dataIn)
    BY SMT, <1>1
  <1>3. \A i \in 1 .. Len(dataIn') : IsResult(dataIn'[i]) =>
          /\ state' \in {"TxPending", "Draining"}
          /\ dataIn'[i].tx = txOut' /\ fate'[txOut'] = FateOf(dataIn'[i])
    BY <1>1, <1>2 DEF ResultInv
  <1>4. ASSUME NEW i \in 1 .. Len(dataIn'), NEW j \in 1 .. Len(dataIn'),
               IsResult(dataIn'[i]), IsResult(dataIn'[j])
        PROVE  i = j
    <2>1. i + 1 = j + 1
      BY <1>1, <1>2, <1>4 DEF ResultInv
    <2>. QED  BY SMT, <2>1
  <1>. QED  BY <1>3, <1>4 DEF ResultInv

(* There is one result at most: behind it, there is none. *)
LEMMA PopResult ==
    ASSUME Typed, ResultInv, dataIn # <<>>, IsResult(Head(dataIn))
    PROVE  NoResult(Tail(dataIn))
  <1>1. /\ Len(Tail(dataIn)) = Len(dataIn) - 1 /\ Len(dataIn) \in Nat \ {0}
        /\ \A i \in 1 .. Len(Tail(dataIn)) : Tail(dataIn)[i] = dataIn[i + 1]
        /\ Head(dataIn) = dataIn[1]
    BY SMT DEF Typed
  <1>2. ASSUME NEW i \in 1 .. Len(Tail(dataIn)), IsResult(Tail(dataIn)[i]) PROVE FALSE
    <2>1. i + 1 \in 1 .. Len(dataIn) /\ 1 \in 1 .. Len(dataIn) /\ i + 1 # 1
      BY SMT, <1>1
    <2>. QED  BY <1>1, <1>2, <2>1 DEF ResultInv
  <1>. QED  BY <1>2 DEF NoResult

(* The daemon sends something that is no result. *)
LEMMA AppendResultInv ==
    ASSUME Typed, ResultInv, NEW frame \in DataFrames, ~IsResult(frame),
           dataIn' = Append(dataIn, frame), UNCHANGED <<state, txOut, fate>>
    PROVE  ResultInv'
  <1>1. /\ Len(dataIn') = Len(dataIn) + 1 /\ Len(dataIn) \in Nat
        /\ \A i \in 1 .. Len(dataIn) : dataIn'[i] = dataIn[i]
        /\ dataIn'[Len(dataIn) + 1] = frame
    BY SMT DEF Typed
  <1>2. \A i \in 1 .. Len(dataIn') : IsResult(dataIn'[i]) =>
          i \in 1 .. Len(dataIn) /\ dataIn'[i] = dataIn[i]
    BY SMT, <1>1
  <1>. QED  BY <1>2 DEF ResultInv

(* The daemon answers the frame the backend waits on, for the first time. *)
LEMMA AnswerResultInv ==
    ASSUME Typed, NoResult(dataIn), NEW frame \in DataFrames,
           dataIn' = Append(dataIn, frame), state' \in {"TxPending", "Draining"},
           frame.tx = txOut', fate'[txOut'] = FateOf(frame)
    PROVE  ResultInv'
  <1>1. /\ Len(dataIn') = Len(dataIn) + 1 /\ Len(dataIn) \in Nat
        /\ \A i \in 1 .. Len(dataIn) : dataIn'[i] = dataIn[i]
        /\ dataIn'[Len(dataIn) + 1] = frame
    BY SMT DEF Typed
  <1>2. \A i \in 1 .. Len(dataIn') : IsResult(dataIn'[i]) =>
          i = Len(dataIn) + 1 /\ dataIn'[i] = frame
    BY SMT, <1>1 DEF NoResult
  <1>. QED  BY <1>2 DEF ResultInv
-------------------------------------------------------------------------------
(* What the shapes of step do to Core. *)

(* A step that leaves frames alone: most of poll(), the clock, CONF. *)
LEMMA CoreSame ==
    ASSUME NEW gaps, Core(gaps), UNCHANGED <<state, txOut, dataIn, hist>>
    PROVE  Core(gaps)'
  BY ZenonT(30) DEF Core, FrameInv, ResultInv, OwnershipTracked, NoForgedResult, LogHonest, hist

(* A step between states in which no frame is under way: configuration. *)
LEMMA CoreIdle ==
    ASSUME NEW gaps, Typed, Core(gaps),
           state \in {"Disconnected", "Connecting", "Configuring", "Ready"},
           state' \in {"Disconnected", "Connecting", "Configuring", "Ready"},
           dataIn' = dataIn \/ dataIn' = <<>>, UNCHANGED <<txOut, hist>>
    PROVE  Core(gaps)'
  <1>1. FrameInv' /\ OwnershipTracked' /\ NoForgedResult' /\ LogHonest(gaps)'
    BY SMT DEF Core, FrameInv, OwnershipTracked, NoForgedResult, LogHonest, hist
  <1>2. NoResult(dataIn)'
    <2>1. NoResult(dataIn)
      BY NoResultYet DEF Core
    <2>. QED  BY SMT, <2>1 DEF NoResult
  <1>. QED  BY <1>1, <1>2, NoResultInv DEF Core

(* reset_link_unconfigured, in a state in which the daemon owns no frame:  *)
(* a frame half written is dropped unsent.                                 *)
LEMMA CoreReset ==
    ASSUME NEW gaps, Typed, Core(gaps), state \notin {"TxPending", "Draining", "Faulted"},
           state' = "Disconnected", txOut' = 0, dataIn' = <<>>,
           lastTx' = lastTx \/ lastTx' = lastTx + 1,
           UNCHANGED <<fate, rflog, delivered>>
    PROVE  Core(gaps)'
  <1>1. \A id \in TxIds : id \in Nat /\ id # 0
    BY SMT, BoundsAssumption DEF TxIds
  <1>2. FrameInv'
    <2>1. \A id \in TxIds : id > lastTx' => id > lastTx
      BY SMT, <1>1 DEF Typed
    <2>. QED  BY <2>1 DEF Core, FrameInv
  <1>3. OwnershipTracked' /\ NoForgedResult'
    BY DEF Core, OwnershipTracked, NoForgedResult
  <1>4. LogHonest(gaps)'
    <2>1. txOut # 0 => fate[txOut] = "unsent"
      BY DEF Core, FrameInv, Typed, States
    <2>2. \A id \in TxIds : id <= lastTx => id <= lastTx'
      BY SMT, <1>1, BoundsAssumption DEF Typed
    <2>3. \A id \in TxIds : id # txOut'
      BY <1>1
    <2>4. ASSUME NEW id \in TxIds, fate[id] \in {"held", "ok"}
          PROVE  rflog[id] # <<>> \/ id \in gaps
      BY <1>1, <2>1, <2>4 DEF Core, LogHonest
    <2>. QED  BY <2>2, <2>3, <2>4 DEF Core, LogHonest
  <1>5. NoResult(dataIn)'
    BY SMT DEF NoResult
  <1>. QED  BY <1>2, <1>3, <1>4, <1>5, NoResultInv DEF Core

(* A frame the backend waits on or drains is one of the frames submitted. *)
LEMMA PendingFrame ==
    ASSUME NEW gaps, Typed, Core(gaps), state \in {"TxWriting", "TxPending", "Draining"}
    PROVE  txOut \in TxIds
  BY SMT, BoundsAssumption DEF Typed, TxIds, Core, FrameInv

(* The log line log_tx_outcome writes is the first of its frame. *)
LEMMA FirstLine ==
    ASSUME NEW gaps, Typed, Core(gaps), state \in {"TxPending", "Draining"},
           NEW outcome \in {"ok", "unconfirmed"}
    PROVE  log_tx_outcome(outcome) = [rflog EXCEPT ![txOut] = <<outcome>>]
  <1>1. txOut # 0 /\ rflog[txOut] = <<>>
    BY DEF Core, FrameInv
  <1>. QED  BY SMT, <1>1 DEF log_tx_outcome

(* Letting go of the frame the daemon owns: the fault state takes it over, *)
(* or the daemon is known to have finished with it; what was or may yet be *)
(* transmitted has been logged.                                            *)
LEMMA CoreRelease ==
    ASSUME NEW gaps, Typed, Core(gaps), state \in {"TxPending", "Draining"},
           state' = "Faulted" \/ (state' \in {"Disconnected", "Ready"} /\ fate[txOut] # "held"),
           txOut' = 0, NoResult(dataIn)', UNCHANGED <<fate, lastTx>>,
           \/ rflog' = rflog /\ fate[txOut] = "failed"
           \/ rflog' = [rflog EXCEPT ![txOut] = <<"ok">>] /\ fate[txOut] = "ok"
           \/ rflog' = [rflog EXCEPT ![txOut] = <<"unconfirmed">>],
           NoForgedResult', \A id \in TxIds : id # txOut => delivered'[id] = delivered[id]
    PROVE  Core(gaps)'
  <1>1. \A id \in TxIds : id \in Nat /\ id # 0
    BY SMT, BoundsAssumption DEF TxIds
  <1>2. txOut \in TxIds /\ ~(txOut > lastTx)
    <2>1. txOut \in TxIds
      BY PendingFrame
    <2>. QED  BY SMT, <2>1, BoundsAssumption DEF Typed
  <1>3. \A id \in TxIds \ {txOut} : rflog'[id] = rflog[id]
    BY DEF Typed
  <1>4. FrameInv'
    BY <1>2, <1>3 DEF Core, FrameInv
  <1>5. OwnershipTracked'
    BY DEF Core, OwnershipTracked
  <1>6. LogHonest(gaps)'
    <2>1. ASSUME NEW id \in TxIds, id # txOut
          PROVE  /\ Len(rflog'[id]) <= 1 /\ (rflog'[id] = <<"ok">> => fate[id] = "ok")
                 /\ (fate[id] \in {"held", "ok"} => rflog'[id] # <<>> \/ id \in gaps)
                 /\ (id \in gaps => id <= lastTx /\ rflog'[id] = <<>>)
      BY <1>3, <2>1 DEF Core, LogHonest
    <2>2. /\ Len(rflog'[txOut]) <= 1 /\ (rflog'[txOut] = <<"ok">> => fate[txOut] = "ok")
          /\ (fate[txOut] \in {"held", "ok"} => rflog'[txOut] # <<>>)
      <3>1. CASE rflog' = rflog /\ fate[txOut] = "failed"
        <4>1. rflog'[txOut] = <<>> /\ <<>> # <<"ok">>
          BY <1>2, <3>1 DEF Core, FrameInv
        <4>. QED  BY SMT, <3>1, <4>1
      <3>2. CASE rflog' = [rflog EXCEPT ![txOut] = <<"ok">>] /\ fate[txOut] = "ok"
        <4>1. rflog'[txOut] = <<"ok">>
          BY <1>2, <3>2 DEF Typed
        <4>2. Len(<<"ok">>) = 1 /\ <<"ok">> # <<>>
          OBVIOUS
        <4>3. fate[txOut] = "ok"
          BY <3>2
        <4>. QED  BY SMT, <4>1, <4>2, <4>3
      <3>3. CASE rflog' = [rflog EXCEPT ![txOut] = <<"unconfirmed">>]
        <4>1. rflog'[txOut] = <<"unconfirmed">>
          BY <1>2, <3>3 DEF Typed
        <4>2. <<"unconfirmed">> # <<"ok">>
          OBVIOUS
        <4>. QED  BY SMT, <4>1, <4>2
      <3>. QED  BY <3>1, <3>2, <3>3
    <2>3. txOut \notin gaps
      BY <1>2 DEF Core, LogHonest
    <2>. QED  BY <1>1, <2>1, <2>2, <2>3 DEF LogHonest
  <1>. QED  BY <1>4, <1>5, <1>6, NoResultInv DEF Core
-------------------------------------------------------------------------------
(* The steps of the backend, by group. *)

(* Leaving the link for Disconnected or Faulted establishes LinkInv. *)
LEMMA DropLinkInv ==
    ASSUME NEW next \in {"Disconnected", "Faulted"}, DropLink(next)
    PROVE  /\ LinkInv' /\ state' = next /\ txOut' = 0 /\ dataIn' = <<>>
           /\ NoResult(dataIn)'
  <1>1. state' = next /\ pc' = "idle" /\ txOut' = 0 /\ dataIn' = <<>> /\ dataSock' = "closed"
    BY DEF DropLink, TransportClose, FreshLink
  <1>. QED  BY SMT, <1>1 DEF LinkInv, NoResult

(* reset_link_unconfigured keeps Core where the daemon owns no frame. *)
LEMMA ResetCore ==
    ASSUME NEW gaps, Typed, Core(gaps), state \notin {"TxPending", "Draining", "Faulted"},
           reset_link_unconfigured, UNCHANGED hist
    PROVE  LinkInv' /\ Core(gaps)'
  BY DropLinkInv, CoreReset DEF reset_link_unconfigured, hist

(* enter_fault keeps Core in the two states that call it. *)
LEMMA FaultCore ==
    ASSUME NEW gaps, Typed, Core(gaps), state \in {"TxPending", "Draining"}, enter_fault,
           UNCHANGED <<fate, lastTx, delivered>>
    PROVE  LinkInv' /\ Core(gaps)'
  <1>1. rflog' = [rflog EXCEPT ![txOut] = <<"unconfirmed">>]
    BY FirstLine DEF enter_fault
  <1>2. NoForgedResult'
    BY DEF Core, NoForgedResult
  <1>. QED  BY <1>1, <1>2, DropLinkInv, CoreRelease DEF enter_fault

(* handle_disconnect, called while poll() reads. *)
LEMMA DisconnectCore ==
    ASSUME NEW gaps, NEW event, Typed, Core(gaps), LinkInv, pc # "idle",
           handle_disconnect(event)
    PROVE  LinkInv' /\ Core(gaps)'
  <1>1. state # "Faulted"
    BY DEF LinkInv
  <1>2. CASE state \in {"Draining", "TxPending"}
    BY <1>2, FaultCore DEF handle_disconnect
  <1>3. CASE state \notin {"Draining", "TxPending"}
    BY <1>1, <1>3, ResetCore DEF handle_disconnect, hist
  <1>. QED  BY <1>2, <1>3

(* config_fail, called while configuring. *)
LEMMA ConfigFailCore ==
    ASSUME NEW gaps, NEW event, Typed, Core(gaps),
           state \in {"Connecting", "Configuring"}, config_fail(event)
    PROVE  LinkInv' /\ Core(gaps)'
  BY ResetCore DEF config_fail

(* pump_tx_write sends the frame id, which nothing is known of yet: the    *)
(* frame is held by the bridge until its last chunk is out.                *)
LEMMA WriteCore ==
    ASSUME NEW gaps, Typed, Core(gaps), NEW id \in TxIds, NEW left \in 0 .. TxChunks,
           pump_tx_write(id, left), txOut' = id, id <= lastTx', lastTx <= lastTx',
           lastTx' \in Nat, state = "Ready" \/ (state = "TxWriting" /\ id = txOut),
           fate[id] = "unsent", rflog[id] = <<>>, delivered[id] = <<>>, id \notin gaps,
           UNCHANGED <<dataIn, rflog, delivered>>
    PROVE  Core(gaps)'
  <1>1. PICK n \in 0 .. left :
          /\ state' = IF n = 0 THEN "TxPending" ELSE "TxWriting"
          /\ fate' = IF n = 0 THEN [fate EXCEPT ![id] = "held"] ELSE fate
    BY DEF pump_tx_write
  <1>2. \A other \in TxIds : /\ other \in Nat /\ other # 0
                             /\ other > lastTx' => other > lastTx /\ other # id
    <2>1. lastTx \in Nat
      BY SMT, BoundsAssumption DEF Typed
    <2>2. \A other \in TxIds : other \in Nat /\ other # 0
      BY SMT, BoundsAssumption DEF TxIds
    <2>. QED  BY SMT, <2>1, <2>2
  <1>3. /\ state' \in {"TxPending", "TxWriting"}
        /\ \A other \in TxIds \ {id} : fate'[other] = fate[other]
        /\ state' = "TxPending" => fate'[id] = "held"
        /\ state' = "TxWriting" => fate'[id] = "unsent"
    BY <1>1 DEF Typed
  <1>4. FrameInv'
    <2>1. txOut' # 0 /\ state' \in {"TxWriting", "TxPending", "Draining"}
      BY <1>2, <1>3
    <2>2. /\ state' = "TxWriting" => fate'[txOut'] = "unsent"
          /\ state' \in {"TxPending", "Draining"} => fate'[txOut'] # "unsent"
      BY <1>3
    <2>3. \A other \in TxIds : other > lastTx' =>
            fate'[other] = "unsent" /\ rflog'[other] = <<>> /\ delivered'[other] = <<>>
      BY <1>2, <1>3 DEF Core, FrameInv
    <2>. QED  BY <2>1, <2>2, <2>3 DEF FrameInv
  <1>5. OwnershipTracked'
    BY <1>3 DEF Core, OwnershipTracked
  <1>6. NoForgedResult'
    <2>1. \A other \in TxIds \ {id} : /\ Len(delivered[other]) <= 1
              /\ \A i \in 1 .. Len(delivered[other]) : fate'[other] =
                    IF delivered[other][i] = "Success" THEN "ok" ELSE "failed"
      BY <1>3 DEF Core, NoForgedResult
    <2>2. Len(delivered[id]) = 0
      BY SMT
    <2>. QED  BY SMT, <2>1, <2>2 DEF NoForgedResult
  <1>7. LogHonest(gaps)'
    <2>1. \A other \in TxIds \ {id} :
             fate[other] \in {"held", "ok"} => rflog[other] # <<>> \/ other \in gaps
      <3>1. state = "Ready" => txOut = 0
        BY DEF Core, FrameInv
      <3>. QED  BY <1>2, <3>1 DEF Core, LogHonest
    <2>2. Len(rflog[id]) <= 1 /\ rflog[id] # <<"ok">>
      BY SMT
    <2>3. \A other \in TxIds : other \in gaps => other <= lastTx' /\ rflog[other] = <<>>
      <3>1. lastTx \in Nat
        BY SMT, BoundsAssumption DEF Typed
      <3>. QED  BY SMT, <1>2, <3>1 DEF Core, LogHonest
    <2>4. ASSUME NEW other \in TxIds, other # id
          PROVE  /\ Len(rflog'[other]) <= 1 /\ (rflog'[other] = <<"ok">> => fate'[other] = "ok")
                 /\ fate'[other] \in {"held", "ok"} /\ other # txOut' =>
                       rflog'[other] # <<>> \/ other \in gaps
      BY <1>3, <2>1, <2>4 DEF Core, LogHonest
    <2>. QED  BY <2>2, <2>3, <2>4 DEF LogHonest
  <1>8. NoResult(dataIn)'
    BY NoResultYet DEF Core, NoResult
  <1>. QED  BY <1>4, <1>5, <1>6, <1>7, <1>8, NoResultInv DEF Core

(* The calls of the bridge keep every frame accounted for. *)
LEMMA CallerCore ==
    ASSUME NEW gaps, Typed, LinkInv, Core(gaps), Caller
    PROVE  LinkInv' /\ Core(gaps)'
  <1>1. ASSUME UNCHANGED <<state, pc, txOut, link, hist>> PROVE LinkInv' /\ Core(gaps)'
    BY <1>1, CoreSame DEF LinkInv, link
  <1>2. ASSUME StartDraining, pc = "idle", UNCHANGED hist PROVE LinkInv' /\ Core(gaps)'
    <2>1. /\ state = "TxPending" /\ state' = "Draining"
          /\ UNCHANGED <<pc, txOut, dataSock, dataIn, fate, lastTx, rflog, delivered>>
      BY <1>2 DEF StartDraining, link, hist
    <2>2. LinkInv' /\ FrameInv' /\ OwnershipTracked' /\ NoForgedResult' /\ LogHonest(gaps)'
      BY ZenonT(30), <1>2, <2>1 DEF Core, LinkInv, FrameInv, OwnershipTracked, NoForgedResult,
         LogHonest
    <2>3. ResultInv'
      BY <2>1 DEF Core, ResultInv
    <2>. QED  BY <2>2, <2>3 DEF Core
  <1>3. CASE Attach
    BY <1>1, <1>3 DEF Attach, tx
  <1>4. ASSUME NEW token \in 0 .. U32 - 1, BeginConfigure(token) PROVE LinkInv' /\ Core(gaps)'
    <2>1. CASE ConfigureRefused
      BY <1>1, <2>1 DEF ConfigureRefused, vars, ctl, tx
    <2>2. CASE ConnectRefused
      <3>1. /\ state \in {"Disconnected", "Ready"} /\ dataIn' = <<>> /\ dataSock' = "closed"
            /\ UNCHANGED <<state, pc, txOut, hist>>
        BY <2>2 DEF ConnectRefused, MayConfigure, TransportClose, FreshLink, ctl, tx
      <3>. QED  BY <3>1, CoreIdle DEF LinkInv
    <2>3. CASE ConfigureStarted(token)
      <3>1. /\ state \in {"Disconnected", "Ready"} /\ state' = "Connecting"
            /\ dataIn' = <<>> /\ pc' = pc /\ UNCHANGED <<txOut, hist>> /\ pc = "idle"
        BY <1>4, <2>3 DEF BeginConfigure, ConfigureStarted, MayConfigure, FreshLink, tx
      <3>. QED  BY <3>1, CoreIdle DEF LinkInv
    <2>. QED  BY <1>4, <2>1, <2>2, <2>3 DEF BeginConfigure
  <1>5. ASSUME NEW validLen \in BOOLEAN, NEW ok \in BOOLEAN, SubmitTx(validLen, ok)
        PROVE  LinkInv' /\ Core(gaps)'
    <2>1. CASE SubmitRefused(validLen)
      BY <1>1, <2>1 DEF SubmitRefused, vars, ctl, tx
    <2>2. CASE SubmitAttempt(ok) /\ dataSock = "open"
      <3>1. /\ state = "Ready" /\ pc = "idle" /\ lastTx < MaxTx /\ lastTx' = lastTx + 1
            /\ txOut' = lastTx' /\ pump_tx_write(lastTx', TxChunks)
            /\ UNCHANGED <<pc, dataSock, dataIn, rflog, delivered>>
        BY <1>5, <2>2 DEF SubmitTx, SubmitAttempt
      <3>2. /\ lastTx' \in TxIds /\ lastTx' \in Nat /\ lastTx <= lastTx' /\ lastTx' > lastTx
            /\ TxChunks \in 0 .. TxChunks /\ lastTx' <= lastTx'
        BY SMT, <3>1, BoundsAssumption DEF Typed, TxIds
      <3>3. fate[lastTx'] = "unsent" /\ rflog[lastTx'] = <<>> /\ delivered[lastTx'] = <<>>
        BY <3>2 DEF Core, FrameInv
      <3>6. lastTx' \notin gaps
        BY SMT, <3>1, <3>2, BoundsAssumption DEF Core, LogHonest, Typed
      <3>4. Core(gaps)'
        BY <3>1, <3>2, <3>3, <3>6, WriteCore
      <3>5. state' \in {"TxPending", "TxWriting"}
        BY <3>1 DEF pump_tx_write
      <3>. QED  BY <3>1, <3>4, <3>5 DEF LinkInv
    <2>3. CASE SubmitAttempt(ok) /\ dataSock # "open"
      <3>1. /\ state = "Ready" /\ DropLink("Disconnected") /\ lastTx' = lastTx + 1
            /\ UNCHANGED <<fate, rflog, delivered>>
        BY <2>3 DEF SubmitAttempt, reset_link_unconfigured
      <3>. QED  BY <3>1, DropLinkInv, CoreReset
    <2>. QED  BY <1>5, <2>1, <2>2, <2>3 DEF SubmitTx
  <1>6. CASE AbandonPendingTx
    <2>1. CASE StartDraining
      BY <1>2, <1>6, <2>1 DEF AbandonPendingTx
    <2>2. CASE state = "TxWriting" /\ reset_link_unconfigured
      BY <1>6, <2>2, ResetCore DEF AbandonPendingTx
    <2>3. CASE UNCHANGED <<ctl, config, tx, link>>
      BY <1>1, <1>6, <2>3 DEF AbandonPendingTx, ctl, tx
    <2>. QED  BY <1>6, <2>1, <2>2, <2>3 DEF AbandonPendingTx
  <1>7. CASE Detach
    <2>1. CASE StartDraining
      BY <1>2, <1>7, <2>1 DEF Detach
    <2>2. CASE state \in {"Draining", "Faulted"}
      BY <1>1, <1>7, <2>2 DEF Detach, StartDraining, tx
    <2>3. CASE state \notin {"TxPending", "Draining", "Faulted"}
      <3>1. /\ state' = "Disconnected" /\ txOut' = 0 /\ dataIn' = <<>> /\ pc' = "idle"
            /\ dataSock' = "closed" /\ UNCHANGED hist
        BY <1>7, <2>3 DEF Detach, StartDraining, TransportClose, FreshLink
      <3>. QED  BY <2>3, <3>1, CoreReset DEF LinkInv, hist
    <2>. QED  BY <1>7, <2>1, <2>2, <2>3 DEF Detach
  <1>. QED  BY <1>3, <1>4, <1>5, <1>6, <1>7 DEF Caller

(* So do the steps of poll() up to its first read. *)
LEMMA PollStartCore ==
    ASSUME NEW gaps, NEW event, Typed, LinkInv, Core(gaps),
           \/ PollConnecting(event) \/ PollConfiguring(event)
           \/ PollOperational(event) \/ PollDraining(event)
    PROVE  LinkInv' /\ Core(gaps)'
  <1>1. ASSUME state \in {"Connecting", "Configuring"}, NEW data, NEW conf,
               data \in {"closed", "connecting"} => dataIn = <<>>,
               advance_configure(data, conf, event)
        PROVE  LinkInv' /\ Core(gaps)'
    <2>1. CASE config_fail(event)
      BY <1>1, <2>1, ConfigFailCore
    <2>2. CASE ~config_fail(event)
      <3>1. /\ state' = "Configuring" /\ pc' \in {"conf", "idle"} /\ dataSock' = data
            /\ UNCHANGED <<dataIn, txOut, hist>>
        BY <1>1, <2>2 DEF advance_configure, tx
      <3>. QED  BY <1>1, <3>1, CoreIdle DEF LinkInv
    <2>. QED  BY <2>1, <2>2
  <1>2. CASE PollConnecting(event)
    <2>1. CASE config_fail(event)
      BY <1>2, <2>1, ConfigFailCore DEF PollConnecting
    <2>2. CASE ~config_fail(event)
      <3>1. state = "Connecting" /\ advance_connect(event)
        BY <1>2, <2>2 DEF PollConnecting
      <3>2. PICK data \in check_one(dataSock), conf \in check_one(confSock) :
              \/ /\ dataSock' = data
                 /\ UNCHANGED <<ctl, tx, dataIn, hist>>
              \/ advance_configure(data, conf, event)
        BY <2>2, <3>1 DEF advance_connect
      <3>3. data \in {"closed", "connecting"} => dataIn = <<>>
        BY DEF LinkInv, check_one
      <3>4. CASE dataSock' = data /\ UNCHANGED <<ctl, tx, dataIn, hist>>
        BY <3>1, <3>3, <3>4, CoreSame DEF LinkInv, ctl, tx
      <3>5. CASE advance_configure(data, conf, event)
        BY <1>1, <3>1, <3>3, <3>5
      <3>. QED  BY <3>2, <3>4, <3>5
    <2>. QED  BY <2>1, <2>2
  <1>3. CASE PollConfiguring(event)
    BY <1>1, <1>3, ConfigFailCore DEF PollConfiguring, LinkInv
  <1>4. CASE PollOperational(event)
    BY <1>4, CoreSame DEF PollOperational, LinkInv, tx, link, Operational
  <1>5. CASE PollDraining(event)
    <2>1. CASE enter_fault /\ UNCHANGED <<fate, lastTx, delivered>>
      BY <1>5, <2>1, FaultCore DEF PollDraining
    <2>2. CASE pc' = "data" /\ UNCHANGED <<state, tx, dataSock, dataIn, hist>>
      BY <1>5, <2>2, CoreSame DEF PollDraining, LinkInv, tx
    <2>. QED  BY <1>5, <2>1, <2>2 DEF PollDraining
  <1>. QED  BY <1>2, <1>3, <1>4, <1>5

(* So do the steps that read CONF or resume a write. *)
LEMMA PollConfCore ==
    ASSUME NEW gaps, NEW event, Typed, LinkInv, Core(gaps),
           \/ ConfLine(event) \/ ConfStop(event) \/ ConfClosed(event)
           \/ ResumeWrite(event)
    PROVE  LinkInv' /\ Core(gaps)'
  <1>1. ASSUME pc = "conf", ConfFails(event) PROVE LinkInv' /\ Core(gaps)'
    BY <1>1, ConfigFailCore, DisconnectCore DEF ConfFails
  <1>2. CASE ConfLine(event)
    <2>1. CASE UNCHANGED <<ctl, tx, dataSock, dataIn, hist>>
      BY <2>1, CoreSame DEF LinkInv, ctl, tx
    <2>2. CASE state = "Configuring" /\ config_succeed(event)
      <3>1. state' = "Ready" /\ pc' = "idle" /\ UNCHANGED <<dataSock, dataIn, txOut, hist>>
        BY <2>2 DEF config_succeed
      <3>. QED  BY <2>2, <3>1, CoreIdle DEF LinkInv
    <2>. QED  BY <1>1, <1>2, <2>1, <2>2 DEF ConfLine
  <1>3. CASE ConfStop(event)
    BY <1>3, CoreSame DEF ConfStop, LinkInv, tx, link, Operational
  <1>4. CASE ConfClosed(event)
    BY <1>1, <1>4 DEF ConfClosed
  <1>5. CASE ResumeWrite(event)
    <2>1. CASE state = "TxWriting" /\ dataSock = "open"
      <3>1. /\ pump_tx_write(txOut, txLeft) /\ txOut' = txOut /\ lastTx' = lastTx
            /\ pc' = "data" /\ UNCHANGED <<dataSock, dataIn, rflog, delivered>>
        BY <1>5, <2>1 DEF ResumeWrite
      <3>2. /\ txOut \in TxIds /\ txLeft \in 0 .. TxChunks /\ txOut <= lastTx'
            /\ lastTx <= lastTx' /\ lastTx' \in Nat
        BY SMTT(30), <2>1, <3>1, PendingFrame, BoundsAssumption DEF Typed
      <3>3. fate[txOut] = "unsent" /\ rflog[txOut] = <<>> /\ delivered[txOut] = <<>>
        BY <2>1 DEF Core, FrameInv
      <3>6. txOut \notin gaps
        BY <3>2 DEF Core, LogHonest
      <3>4. Core(gaps)'
        BY <2>1, <3>1, <3>2, <3>3, <3>6, WriteCore
      <3>5. state' \in {"TxPending", "TxWriting"}
        BY <3>1 DEF pump_tx_write
      <3>. QED  BY <3>1, <3>4, <3>5 DEF LinkInv, Operational
    <2>2. CASE state = "TxWriting" /\ dataSock # "open"
      BY SMTT(30), <1>5, <2>2, ResetCore DEF ResumeWrite
    <2>3. CASE state # "TxWriting"
      BY <1>5, <2>3, CoreSame DEF ResumeWrite, LinkInv, tx, link, Operational
    <2>. QED  BY <1>5, <2>1, <2>2, <2>3 DEF ResumeWrite
  <1>. QED  BY <1>2, <1>3, <1>4, <1>5

(* dispatch of a result: the log line and the report it makes are true, and *)
(* the frame is let go of.                                                  *)
LEMMA DispatchResultCore ==
    ASSUME NEW gaps, NEW event, Typed, LinkInv, Core(gaps), pc = "data", dataIn # <<>>,
           IsResult(Head(dataIn)), DispatchResult(Head(dataIn), event)
    PROVE  LinkInv' /\ Core(gaps)'
  <1>. DEFINE frame == Head(dataIn)
  <1>1. state \in {"TxPending", "Draining"} /\ fate[txOut] = FateOf(frame)
    <2>1. 1 \in 1 .. Len(dataIn) /\ dataIn[1] = frame
      BY SMTT(30) DEF Typed
    <2>. QED  BY <2>1 DEF Core, ResultInv
  <1>2. txOut \in TxIds /\ delivered[txOut] = <<>> /\ txOut # 0
    BY <1>1, PendingFrame DEF Core, FrameInv
  <1>3. UNCHANGED <<fate, lastTx>>
    BY DEF DispatchResult
  <1>4. \/ rflog' = rflog /\ fate[txOut] = "failed"
        \/ rflog' = [rflog EXCEPT ![txOut] = <<"ok">>] /\ fate[txOut] = "ok"
    BY <1>1, FirstLine DEF DispatchResult, FateOf
  <1>5. CASE state = "Draining"
    <2>1. DropLink("Disconnected") /\ delivered' = delivered
      BY <1>5 DEF DispatchResult, reset_link_unconfigured
    <2>2. NoForgedResult'
      BY <1>3, <2>1 DEF Core, NoForgedResult
    <2>3. LinkInv' /\ state' = "Disconnected" /\ txOut' = 0 /\ NoResult(dataIn)'
      BY <2>1, DropLinkInv
    <2>. QED  BY <1>1, <1>3, <1>4, <2>1, <2>2, <2>3, CoreRelease DEF FateOf
  <1>6. CASE state = "TxPending"
    <2>1. /\ state' = "Ready" /\ txOut' = 0 /\ dataIn' = Tail(dataIn)
          /\ UNCHANGED <<pc, dataSock>>
          /\ \/ delivered' = delivered
             \/ delivered' = [delivered EXCEPT ![txOut] = Append(@, OutcomeOf(frame))]
      BY <1>6 DEF DispatchResult, PopFrame
    <2>2. LinkInv'
      <3>1. dataSock \notin {"closed", "connecting"}
        BY DEF LinkInv
      <3>. QED  BY <2>1, <3>1 DEF LinkInv, Operational
    <2>3. NoResult(dataIn)'
      BY <2>1, PopResult DEF Core, NoResult
    <2>4. delivered'[txOut] = <<>> \/ delivered'[txOut] = <<OutcomeOf(frame)>>
      <3>1. delivered'[txOut] = delivered[txOut]
            \/ delivered'[txOut] = Append(delivered[txOut], OutcomeOf(frame))
        <4>1. DOMAIN delivered = TxIds
          BY DEF Typed
        <4>. QED  BY <1>2, <2>1, <4>1
      <3>2. Append(<<>>, OutcomeOf(frame)) = <<OutcomeOf(frame)>>
        BY SMT
      <3>. QED  BY <1>2, <3>1, <3>2
    <2>5. \A id \in TxIds : id # txOut => delivered'[id] = delivered[id]
      BY <2>1 DEF Typed
    <2>6. fate[txOut] = IF OutcomeOf(frame) = "Success" THEN "ok" ELSE "failed"
      BY <1>1 DEF FateOf, OutcomeOf, map_tx_status, IsResult
    <2>7. NoForgedResult'
      <3>1. ASSUME NEW id \in TxIds, id # txOut
            PROVE  /\ Len(delivered'[id]) <= 1
                   /\ \A i \in 1 .. Len(delivered'[id]) : fate'[id] =
                         IF delivered'[id][i] = "Success" THEN "ok" ELSE "failed"
        BY <1>3, <2>5, <3>1 DEF Core, NoForgedResult
      <3>2. CASE delivered'[txOut] = <<>>
        BY SMT, <3>1, <3>2 DEF NoForgedResult
      <3>3. CASE delivered'[txOut] = <<OutcomeOf(frame)>>
        <4>1. /\ Len(delivered'[txOut]) = 1
              /\ \A i \in 1 .. 1 : delivered'[txOut][i] = OutcomeOf(frame)
          BY SMT, <3>3
        <4>2. /\ Len(delivered'[txOut]) <= 1
              /\ \A i \in 1 .. Len(delivered'[txOut]) : fate'[txOut] =
                    IF delivered'[txOut][i] = "Success" THEN "ok" ELSE "failed"
          BY SMT, <1>3, <2>6, <4>1
        <4>. QED  BY <3>1, <4>2 DEF NoForgedResult
      <3>. QED  BY <2>4, <3>2, <3>3
    <2>. QED  BY <1>1, <1>3, <1>4, <2>1, <2>2, <2>3, <2>5, <2>7, CoreRelease DEF FateOf
  <1>. QED  BY <1>1, <1>5, <1>6

(* The steps of poll() that read DATA keep every frame accounted for. *)
LEMMA PollDataCore ==
    ASSUME NEW gaps, NEW event, Typed, LinkInv, Core(gaps),
           DataFrame(event) \/ DataStop(event) \/ DataClosed(event)
    PROVE  LinkInv' /\ Core(gaps)'
  <1>1. CASE DataFrame(event)
    <2>1. pc = "data" /\ dataIn # <<>>
      BY SMTT(30), <1>1 DEF DataFrame
    <2>2. CASE DispatchRx(Head(dataIn), event)
      <3>1. dataIn' = Tail(dataIn) /\ UNCHANGED <<state, pc, dataSock, txOut, hist>>
        BY <2>2 DEF DispatchRx, PopFrame, tx
      <3>2. LinkInv'
        <4>1. dataSock \notin {"closed", "connecting"}
          BY <2>1 DEF LinkInv
        <4>. QED  BY <3>1, <4>1 DEF LinkInv
      <3>3. ResultInv'
        BY <2>1, <3>1, PopResultInv DEF Core, hist
      <3>. QED  BY <3>1, <3>2, <3>3 DEF Core, FrameInv, OwnershipTracked, NoForgedResult,
                LogHonest, hist
    <2>3. CASE IsResult(Head(dataIn)) /\ DispatchResult(Head(dataIn), event)
      BY <2>1, <2>3, DispatchResultCore
    <2>4. CASE handle_disconnect(event)
      BY <2>1, <2>4, DisconnectCore
    <2>. QED  BY <1>1, <2>2, <2>3, <2>4 DEF DataFrame, IsResult
  <1>2. CASE DataStop(event)
    BY <1>2, CoreSame DEF DataStop, LinkInv, tx, link
  <1>3. CASE DataClosed(event)
    BY <1>3, DisconnectCore DEF DataClosed
  <1>. QED  BY <1>1, <1>2, <1>3

(* The daemon finishes with a frame: the frame is the one the backend waits *)
(* on, or the backend is faulted and has logged it as unconfirmed.          *)
LEMMA ResolveCore ==
    ASSUME NEW gaps, Typed, LinkInv, Core(gaps), NEW id \in TxIds, NEW answer \in Statuses \cup {"ERROR"},
           DaemonResolve(id, answer)
    PROVE  LinkInv' /\ Core(gaps)'
  <1>. DEFINE frame == ResultFrame(id, answer)
  <1>1. /\ fate[id] = "held" /\ UNCHANGED <<state, pc, txOut, dataSock, lastTx, rflog, delivered>>
        /\ fate' = [fate EXCEPT ![id] = IF answer = "OK" THEN "ok" ELSE "failed"]
        /\ dataIn' = dataIn \/ (dataSock = "open" /\ dataIn' = Append(dataIn, frame))
    BY DEF DaemonResolve, SendData, ctl, tx
  <1>2. fate'[id] \in {"ok", "failed"} /\ \A other \in TxIds \ {id} : fate'[other] = fate[other]
    BY <1>1 DEF Typed
  <1>3. LinkInv'
    BY <1>1 DEF LinkInv
  <1>4. state = "Faulted" \/ (id = txOut /\ state \in {"TxPending", "Draining"})
    BY <1>1 DEF Core, OwnershipTracked
  <1>5. NoResult(dataIn)
    BY <1>1, <1>4, NoResultYet DEF Core
  <1>6. ResultInv'
    <2>1. CASE dataIn' = dataIn
      BY <1>5, <2>1, NoResultInv DEF NoResult
    <2>2. CASE dataSock = "open" /\ dataIn' = Append(dataIn, frame)
      <3>1. id = txOut /\ state \in {"TxPending", "Draining"}
        BY <1>4, <2>2 DEF LinkInv
      <3>2. frame.tx = id /\ (IF answer = "OK" THEN "ok" ELSE "failed") = FateOf(frame)
        BY DaemonAssumption DEF ResultFrame, FateOf, TxStatus
      <3>3. fate'[id] = FateOf(frame)
        BY SMTT(30), <1>1, <3>2 DEF Typed
      <3>. QED  BY <1>1, <1>5, <2>2, <3>1, <3>2, <3>3, ResultFrameTyped, AnswerResultInv
    <2>. QED  BY <1>1, <2>1, <2>2
  <1>7. FrameInv'
    <2>1. ~(id > lastTx)
      BY <1>1 DEF Core, FrameInv
    <2>2. state' = "TxWriting" => fate'[txOut'] = "unsent"
      BY <1>1, <1>4
    <2>3. state' \in {"TxPending", "Draining"} => fate'[txOut'] # "unsent"
      BY <1>1, <1>2, <1>4
    <2>. QED  BY <1>1, <1>2, <2>1, <2>2, <2>3 DEF Core, FrameInv
  <1>8. OwnershipTracked'
    BY <1>1, <1>2 DEF Core, OwnershipTracked
  <1>9. NoForgedResult'
    <2>1. Len(delivered[id]) = 0
      <3>1. Len(delivered[id]) \in Nat /\ (Len(delivered[id]) # 0 => 1 \in 1 .. Len(delivered[id]))
        BY SMTT(30) DEF Typed
      <3>. QED  BY <1>1, <3>1 DEF Core, NoForgedResult
    <2>2. ASSUME NEW other \in TxIds \ {id}
          PROVE  /\ Len(delivered'[other]) <= 1
                 /\ \A i \in 1 .. Len(delivered'[other]) : fate'[other] =
                       IF delivered'[other][i] = "Success" THEN "ok" ELSE "failed"
      BY <1>1, <1>2 DEF Core, NoForgedResult
    <2>. QED  BY SMT, <1>1, <2>1, <2>2 DEF NoForgedResult
  <1>10. LogHonest(gaps)'
    <2>1. /\ rflog[id] # <<"ok">> /\ Len(rflog[id]) <= 1
          /\ id # txOut => rflog[id] # <<>> \/ id \in gaps
      BY <1>1 DEF Core, LogHonest
    <2>. QED  BY <1>1, <1>2, <2>1 DEF Core, LogHonest
  <1>. QED  BY <1>3, <1>6, <1>7, <1>8, <1>9, <1>10 DEF Core

(* The clock and a daemon that answers each frame once keep every frame    *)
(* accounted for.                                                          *)
LEMMA EnvironmentCore ==
    ASSUME NEW gaps, Typed, LinkInv, Core(gaps), Tick \/ Daemon
    PROVE  LinkInv' /\ Core(gaps)'
  <1>1. ASSUME UNCHANGED <<state, pc, txOut, dataSock, dataIn, hist>> PROVE LinkInv' /\ Core(gaps)'
    BY <1>1, CoreSame DEF LinkInv
  <1>2. CASE Tick
    BY <1>1, <1>2 DEF Tick, ctl, link
  <1>3. CASE DaemonConf
    BY <1>1, <1>3 DEF DaemonConf, ctl, tx
  <1>4. CASE LoseLink
    <2>1. /\ dataSock' = dataSock \/ (dataSock = "open" /\ dataSock' = "lost")
          /\ UNCHANGED <<state, pc, txOut, dataIn, hist>>
      BY <1>4 DEF LoseLink, ctl, tx
    <2>. QED  BY <2>1, CoreSame DEF LinkInv
  <1>5. ASSUME NEW what \in Unsolicited, DaemonUnsolicited(what) PROVE LinkInv' /\ Core(gaps)'
    <2>. DEFINE frame == [type |-> what, tx |-> 0, status |-> ""]
    <2>1. UNCHANGED <<state, pc, txOut, dataSock, hist>>
      BY ZenonT(40), <1>5 DEF DaemonUnsolicited, ctl, tx
    <2>2. CASE what \in DataTypes
      <3>1. dataSock = "open" /\ dataIn' = Append(dataIn, frame)
        BY <1>5, <2>2 DEF DaemonUnsolicited, SendData
      <3>2. frame \in DataFrames /\ ~IsResult(frame)
        BY <2>2 DEF DataFrames, DataTypes, IsResult
      <3>3. ResultInv'
        BY <2>1, <3>1, <3>2, AppendResultInv DEF Core, hist
      <3>4. LinkInv'
        BY <2>1, <3>1 DEF LinkInv
      <3>. QED  BY <2>1, <3>3, <3>4 DEF Core, FrameInv, OwnershipTracked, NoForgedResult,
                LogHonest, hist
    <2>3. CASE what \notin DataTypes
      BY <1>1, <1>5, <2>1, <2>3 DEF DaemonUnsolicited
    <2>. QED  BY <2>2, <2>3
  <1>. QED  BY <1>2, <1>3, <1>4, <1>5, ResolveCore DEF Daemon
-------------------------------------------------------------------------------
(* The transaction epoch. *)

(* Only submit_tx starts a frame, and it makes the epoch current; only      *)
(* config_succeed moves the epoch on, and it ends in Ready.                 *)
LEMMA NextEpoch == ASSUME EpochCurrent, Next PROVE EpochCurrent'
  <1>1. ASSUME UNCHANGED <<state, epoch_current>> PROVE EpochCurrent'
    BY <1>1 DEF EpochCurrent
  <1>2. ASSUME state' \notin {"TxWriting", "TxPending"} PROVE EpochCurrent'
    BY <1>2 DEF EpochCurrent
  <1>3. ASSUME NEW next \in {"Disconnected", "Faulted"}, DropLink(next) PROVE EpochCurrent'
    BY <1>2, <1>3 DEF DropLink
  <1>. USE DEF ctl, tx, reset_link_unconfigured
  <1>4. ASSUME NEW event, config_fail(event) \/ handle_disconnect(event) PROVE EpochCurrent'
    BY <1>3, <1>4 DEF config_fail, handle_disconnect, enter_fault
  <1>5. CASE Caller
    <2>1. CASE Attach
      BY <1>1, <2>1 DEF Attach
    <2>2. ASSUME NEW token, BeginConfigure(token) PROVE EpochCurrent'
      BY <1>1, <1>2, <2>2 DEF BeginConfigure, ConfigureRefused, ConnectRefused,
         ConfigureStarted, vars
    <2>3. ASSUME NEW validLen, NEW ok, SubmitTx(validLen, ok) PROVE EpochCurrent'
      <3>1. CASE SubmitRefused(validLen)
        BY <1>1, <3>1 DEF SubmitRefused, vars
      <3>2. CASE SubmitAttempt(ok)
        BY <3>2 DEF SubmitAttempt, NewEpoch, EpochCurrent
      <3>. QED  BY <2>3, <3>1, <3>2 DEF SubmitTx
    <2>4. ASSUME StartDraining PROVE EpochCurrent'
      BY <1>2, <2>4 DEF StartDraining
    <2>5. CASE AbandonPendingTx
      BY <1>1, <1>3, <2>4, <2>5 DEF AbandonPendingTx
    <2>6. CASE Detach
      BY <1>1, <1>2, <2>4, <2>6 DEF Detach
    <2>. QED  BY <1>5, <2>1, <2>2, <2>3, <2>5, <2>6 DEF Caller
  <1>6. CASE Tick \/ Daemon
    BY <1>1, <1>6 DEF Tick, Daemon, DaemonConf, DaemonResolve,
       DaemonUnsolicited, LoseLink
  <1>7. CASE Poll
    <2>0. PICK event : PollStep(event)
      BY <1>7 DEF Poll
    <2>1. ASSUME NEW data, NEW conf, advance_configure(data, conf, event)
          PROVE  EpochCurrent'
      BY <1>2, <1>4, <2>1 DEF advance_configure
    <2>2. CASE PollConnecting(event) \/ PollConfiguring(event)
      BY <1>1, <1>4, <2>1, <2>2 DEF PollConnecting, PollConfiguring, advance_connect
    <2>3. CASE PollOperational(event) \/ PollDraining(event)
      BY <1>1, <1>3, <2>3 DEF PollOperational, PollDraining, enter_fault
    <2>4. CASE config_succeed(event)
      BY <1>2, <2>4 DEF config_succeed
    <2>5. CASE ConfLine(event) \/ ConfStop(event) \/ ConfClosed(event)
      BY <1>1, <1>4, <2>4, <2>5 DEF ConfLine, ConfStop, ConfClosed, ConfFails
    <2>6. CASE ResumeWrite(event)
      <3>1. CASE state = "TxWriting" /\ dataSock = "open"
        BY <2>6, <3>1 DEF ResumeWrite, EpochCurrent
      <3>2. CASE ~(state = "TxWriting" /\ dataSock = "open")
        BY <1>1, <1>3, <2>6, <3>2 DEF ResumeWrite
      <3>. QED  BY <3>1, <3>2
    <2>7. CASE DataFrame(event)
      <3>1. ASSUME NEW frame, DispatchResult(frame, event) PROVE EpochCurrent'
        BY <1>1, <1>2, <1>3, <3>1 DEF DispatchResult
      <3>. QED  BY <1>1, <1>4, <2>7, <3>1 DEF DataFrame, DispatchRx
    <2>8. CASE DataStop(event) \/ DataClosed(event)
      BY <1>1, <1>4, <2>8 DEF DataStop, DataClosed
    <2>. QED  BY <2>0, <2>2, <2>3, <2>5, <2>6, <2>7, <2>8 DEF PollStep
  <1>. QED  BY <1>5, <1>6, <1>7 DEF Next
-------------------------------------------------------------------------------
(* Theorems. *)

(* Accounting holds initially. *)
LEMMA InitAccounting == ASSUME Init PROVE Accounting
  <1>1. LinkInv /\ FrameInv /\ ResultInv
    BY SMT, BoundsAssumption DEF Init, LinkInv, FrameInv, ResultInv, TxIds, Operational
  <1>2. OwnershipTracked /\ NoForgedResult /\ RfLogHonest
    BY SMT DEF Init, OwnershipTracked, NoForgedResult, RfLogHonest
  <1>3. EpochCurrent
    BY DEF Init, EpochCurrent
  <1>. QED  BY SMTT(30), <1>1, <1>2, <1>3, InitTyped DEF Accounting

(* Accounting is the types, where poll() may be, the epoch and a log        *)
(* without gaps.                                                            *)
LEMMA NoGaps == Core({}) <=> /\ FrameInv /\ ResultInv /\ OwnershipTracked
                             /\ NoForgedResult /\ RfLogHonest
  BY DEF Core, LogHonest, RfLogHonest

(* Accounting is inductive. *)
LEMMA NextAccounting == ASSUME Accounting, [Next]_vars PROVE Accounting'
  <1>0. Core({})' => (FrameInv /\ ResultInv /\ OwnershipTracked /\ NoForgedResult
                        /\ RfLogHonest)'
    BY NoGaps, PTL
  <1>1. TypeOK'
    BY NextTyped DEF Accounting
  <1>2. CASE Next
    <2>1. Typed /\ LinkInv /\ Core({})
      BY NoGaps DEF Accounting, TypeOK
    <2>2. LinkInv' /\ Core({})'
      <3>1. CASE Poll
        <4>1. PICK event : PollStep(event)
          BY <3>1 DEF Poll
        <4>. QED  BY <2>1, <4>1, PollStartCore, PollConfCore, PollDataCore DEF PollStep
      <3>. QED  BY <1>2, <2>1, <3>1, CallerCore, EnvironmentCore DEF Next
    <2>3. EpochCurrent'
      BY <1>2, NextEpoch DEF Accounting
    <2>. QED  BY <1>1, <2>1, <2>2, <2>3, <1>0 DEF Accounting
  <1>3. CASE UNCHANGED vars
    <2>1. LinkInv' /\ Core({})'
      BY <1>3, CoreSame, NoGaps DEF Accounting, LinkInv, vars, ctl, tx, link
    <2>2. EpochCurrent'
      BY <1>3 DEF Accounting, EpochCurrent, vars, ctl, tx
    <2>. QED  BY <1>1, <2>1, <2>2, <1>0 DEF Accounting
  <1>. QED  BY <1>2, <1>3

(* With a daemon that answers each frame at most once, every frame it holds *)
(* is accounted for and every reported outcome is true, in every state.     *)
THEOREM AccountingHolds == Spec => []Accounting
  BY InitAccounting, NextAccounting, PTL DEF Spec

(* The TX ownership boundary of loraham_backend.h: a frame the daemon may   *)
(* still transmit is the one waited on or drained, or the backend is        *)
(* faulted.                                                                 *)
THEOREM OwnershipBoundary == Spec => []OwnershipTracked
  <1>1. Accounting => OwnershipTracked
    BY DEF Accounting
  <1>. QED  BY <1>1, AccountingHolds, PTL

(* on_tx_complete reports at most one outcome per frame, and a true one. *)
THEOREM ResultsAreTrue == Spec => []NoForgedResult
  <1>1. Accounting => NoForgedResult
    BY DEF Accounting
  <1>. QED  BY <1>1, AccountingHolds, PTL

(* The RF log has at most one line per frame, a true one, and leaves out no *)
(* frame that was or may yet be transmitted.                                *)
THEOREM RfLogIsHonest == Spec => []RfLogHonest
  <1>1. Accounting => RfLogHonest
    BY DEF Accounting
  <1>. QED  BY <1>1, AccountingHolds, PTL

(* The epoch test in dispatch never suppresses the result of the frame in   *)
(* flight, whatever the daemon sends.                                       *)
THEOREM EpochNeverSuppresses == Spec => []EpochCurrent
  <1>1. Init => EpochCurrent
    BY DEF Init, EpochCurrent
  <1>2. EpochCurrent /\ [Next]_vars => EpochCurrent'
    <2>1. ASSUME EpochCurrent, UNCHANGED vars PROVE EpochCurrent'
      BY <2>1 DEF EpochCurrent, vars, ctl, tx
    <2>. QED  BY <2>1, NextEpoch
  <1>. QED  BY <1>1, <1>2, PTL DEF Spec

(* submit_tx takes a frame only when the daemon holds none. *)
THEOREM OneTxAtATime == Spec => NoSecondTx
  <1>1. ASSUME Accounting, [Next]_vars, lastTx' # lastTx
        PROVE  state # "Faulted" /\ \A id \in TxIds : fate[id] # "held"
    <2>1. state = "Ready"
      <3>1. ASSUME Caller PROVE state = "Ready"
        BY SMTT(30), <1>1, <3>1 DEF Caller, Attach, AbandonPendingTx, Detach, BeginConfigure,
           ConfigureRefused, ConnectRefused, ConfigureStarted, SubmitTx, SubmitRefused,
           SubmitAttempt, vars, hist
      <3>2. ASSUME Tick \/ Daemon PROVE FALSE
        BY ZenonT(40), <1>1, <3>2 DEF Tick, Daemon, DaemonConf, DaemonResolve,
           DaemonUnsolicited, LoseLink, hist
      <3>3. ASSUME Poll PROVE FALSE
        <4>1. PICK event : PollStep(event)
          BY <3>3 DEF Poll
        <4>. QED
          BY <1>1, <4>1 DEF PollStep, PollConnecting, PollConfiguring,
             PollOperational, PollDraining, ConfLine, ConfStop, ConfClosed, ResumeWrite,
             DataFrame, DataStop, DataClosed, DispatchRx, DispatchResult, ConfFails,
             advance_connect, advance_configure, config_succeed, config_fail,
             handle_disconnect, hist
      <3>. QED  BY SMTT(30), <1>1, <3>1, <3>2, <3>3 DEF Next, vars, hist
    <2>. QED  BY <1>1, <2>1 DEF Accounting, OwnershipTracked
  <1>. QED  BY <1>1, AccountingHolds, PTL DEF Spec, NoSecondTx

(* In the fault state poll() does nothing and every call is refused; the    *)
(* fault state is entered at the end of poll().                             *)
LEMMA FaultStep ==
    ASSUME state = "Faulted", pc = "idle", [Next]_vars
    PROVE  state' = "Faulted" /\ pc' = "idle"
  <1>1. CASE Caller
    BY SMTT(30), <1>1 DEF Caller, Attach, AbandonPendingTx, Detach, StartDraining, BeginConfigure,
       ConfigureRefused, ConnectRefused, ConfigureStarted, MayConfigure, SubmitTx,
       SubmitRefused, SubmitAttempt, vars, ctl
  <1>2. CASE Tick \/ Daemon
    BY ZenonT(40), <1>2 DEF Tick, Daemon, DaemonConf, DaemonResolve,
       DaemonUnsolicited, LoseLink, ctl
  <1>3. CASE Poll
    <2>1. PICK event : PollStep(event)
      BY <1>3 DEF Poll
    <2>. QED
      BY <2>1 DEF PollStep, PollConnecting, PollConfiguring, PollOperational,
         PollDraining, ConfLine, ConfStop, ConfClosed, ResumeWrite, DataFrame, DataStop,
         DataClosed, Operational
  <1>4. CASE UNCHANGED vars
    BY <1>4 DEF vars, ctl
  <1>. QED  BY SMTT(30), <1>1, <1>2, <1>3, <1>4 DEF Next

(* The fault state is entered by enter_fault only, which ends poll(). *)
LEMMA FaultEntry ==
    ASSUME state # "Faulted", [Next]_vars, state' = "Faulted"
    PROVE  pc' = "idle"
  <1>. USE DEF ctl, reset_link_unconfigured, DropLink, enter_fault
  <1>1. CASE Caller
    <2>1. CASE Attach \/ AbandonPendingTx \/ Detach
      BY <2>1 DEF Attach, AbandonPendingTx, Detach, StartDraining
    <2>2. ASSUME NEW token, BeginConfigure(token) PROVE pc' = "idle"
      BY <2>2 DEF BeginConfigure, ConfigureRefused, ConnectRefused, ConfigureStarted,
         vars
    <2>3. ASSUME NEW validLen, NEW ok, SubmitTx(validLen, ok) PROVE pc' = "idle"
      BY SMTT(20), <2>3 DEF SubmitTx, SubmitRefused, SubmitAttempt, pump_tx_write, vars
    <2>. QED  BY <1>1, <2>1, <2>2, <2>3 DEF Caller
  <1>2. CASE Tick \/ Daemon
    BY ZenonT(40), <1>2 DEF Tick, Daemon, DaemonConf, DaemonResolve,
       DaemonUnsolicited, LoseLink
  <1>3. CASE Poll
    <2>1. PICK event : PollStep(event)
      BY <1>3 DEF Poll
    <2>. QED
      BY <2>1 DEF PollStep, PollConnecting, PollConfiguring, PollOperational,
         PollDraining, ConfLine, ConfStop, ConfClosed, ResumeWrite, DataFrame, DataStop,
         DataClosed, DispatchRx, DispatchResult, ConfFails, advance_connect,
         advance_configure, config_succeed, config_fail, handle_disconnect, pump_tx_write
  <1>. QED  BY SMTT(30), <1>1, <1>2, <1>3 DEF Next, vars

(* No call, no daemon and no passage of time leads out of the fault state:  *)
(* only a restart of the process does.                                      *)
THEOREM FaultIsFinal == Spec => FaultedForGood
  <1>. DEFINE Idle == state = "Faulted" => pc = "idle"
  <1>1. Init => Idle
    BY DEF Init
  <1>2. Idle /\ [Next]_vars => Idle'
    BY FaultStep, FaultEntry
  <1>3. Idle /\ [Next]_vars => [state = "Faulted" => state' = "Faulted"]_vars
    BY FaultStep
  <1>. HIDE DEF Idle
  <1>. QED  BY <1>1, <1>2, <1>3, PTL DEF Spec, FaultedForGood
-------------------------------------------------------------------------------
(* The backend implements TxOwnership, with a daemon that answers each      *)
(* frame at most once.                                                      *)

Quiet == UNCHANGED <<Owner, txOut, InDaemon>>
OwnershipStep == O!OwnershipNext \/ UNCHANGED O!ovars

(* A step that changes neither the owner, nor the frame, nor what the      *)
(* daemon holds is a stuttering step of the ownership protocol.            *)
LEMMA QuietStep == ASSUME Quiet PROVE OwnershipStep
  BY DEF Quiet, OwnershipStep, O!ovars

(* So is one that keeps state_, tx_out_ and the fates. *)
LEMMA SameStep == ASSUME UNCHANGED <<state, txOut, fate>> PROVE OwnershipStep
  BY QuietStep DEF Quiet, Owner, InDaemon

(* So is one between the states in which nobody owns a frame. *)
LEMMA IdleStep ==
    ASSUME state \in {"Disconnected", "Connecting", "Configuring", "Ready"},
           state' \in {"Disconnected", "Connecting", "Configuring", "Ready"},
           UNCHANGED <<txOut, fate>>
    PROVE  OwnershipStep
  BY QuietStep DEF Quiet, Owner, InDaemon

(* Where nobody or the bridge owns a frame, the daemon holds none. *)
LEMMA DaemonEmpty ==
    ASSUME Accounting, state \notin {"TxPending", "Draining", "Faulted"}
    PROVE  InDaemon = {}
  BY DEF Accounting, OwnershipTracked, InDaemon

(* reset_link_unconfigured discards a frame that was half written. *)
LEMMA ResetStep ==
    ASSUME Accounting, state \notin {"TxPending", "Draining", "Faulted"},
           state' = "Disconnected", txOut' = 0, fate' = fate
    PROVE  OwnershipStep
  <1>1. InDaemon' = InDaemon /\ Owner' = "nobody"
    BY DEF InDaemon, Owner
  <1>2. CASE state = "TxWriting"
    <2>1. Owner = "bridge"
      BY <1>2 DEF Owner
    <2>2. O!Discard
      BY <1>1, <2>1 DEF O!Discard
    <2>. QED  BY <2>2 DEF OwnershipStep, O!OwnershipNext
  <1>3. CASE state # "TxWriting"
    <2>1. txOut = 0
      BY <1>3 DEF Accounting, FrameInv
    <2>2. Owner = "nobody"
      BY <1>3 DEF Owner
    <2>. QED  BY <1>1, <2>1, <2>2, QuietStep DEF Quiet
  <1>. QED  BY <1>2, <1>3

(* enter_fault gives the frame up. *)
LEMMA LoseStep ==
    ASSUME state \in {"TxPending", "Draining"}, state' = "Faulted", txOut' = 0, fate' = fate
    PROVE  OwnershipStep
  <1>1. InDaemon' = InDaemon /\ Owner' = "unknown" /\ Owner = "daemon"
    BY DEF InDaemon, Owner
  <1>2. O!Lose
    BY <1>1 DEF O!Lose
  <1>. QED  BY <1>2 DEF OwnershipStep, O!OwnershipNext

(* A result clears the frame: the daemon no longer holds it. *)
LEMMA ClearStep ==
    ASSUME state \in {"TxPending", "Draining"}, state' \in {"Ready", "Disconnected"},
           txOut' = 0, fate' = fate, fate[txOut] # "held"
    PROVE  OwnershipStep
  <1>1. /\ InDaemon' = InDaemon /\ Owner' = "nobody" /\ Owner = "daemon"
        /\ txOut \notin InDaemon
    BY DEF InDaemon, Owner
  <1>2. O!Clear
    BY <1>1 DEF O!Clear
  <1>. QED  BY <1>2 DEF OwnershipStep, O!OwnershipNext

(* pump_tx_write starts a frame, or hands one over with its last chunk. *)
LEMMA WriteStep ==
    ASSUME Accounting, NEW id \in TxIds, NEW left, pump_tx_write(id, left), txOut' = id,
           state = "Ready" \/ (state = "TxWriting" /\ id = txOut)
    PROVE  OwnershipStep
  <1>1. InDaemon = {}
    BY DaemonEmpty
  <1>2. fate \in [TxIds -> Fates]
    BY DEF Accounting, TypeOK, Typed
  <1>3. CASE state' = "TxPending" /\ fate' = [fate EXCEPT ![id] = "held"]
    <2>1. InDaemon' = {id}
      BY <1>1, <1>2, <1>3 DEF InDaemon
    <2>2. Owner' = "daemon"
      BY <1>3 DEF Owner
    <2>3. CASE state = "Ready"
      <3>1. Owner = "nobody"
        BY <2>3 DEF Owner
      <3>2. O!Submit(id)
        BY <1>1, <2>1, <2>2, <3>1 DEF O!Submit
      <3>. QED  BY <3>2 DEF OwnershipStep, O!OwnershipNext
    <2>4. CASE state = "TxWriting" /\ id = txOut
      <3>1. Owner = "bridge"
        BY <2>4 DEF Owner
      <3>2. O!HandOver
        BY <1>1, <2>1, <2>2, <2>4, <3>1 DEF O!HandOver
      <3>. QED  BY <3>2 DEF OwnershipStep, O!OwnershipNext
    <2>. QED  BY <2>3, <2>4
  <1>4. CASE state' = "TxWriting" /\ fate' = fate
    <2>1. InDaemon' = InDaemon
      BY <1>4 DEF InDaemon
    <2>2. Owner' = "bridge"
      BY <1>4 DEF Owner
    <2>3. CASE state = "Ready"
      <3>1. Owner = "nobody"
        BY <2>3 DEF Owner
      <3>2. O!Submit(id)
        BY <1>1, <2>1, <2>2, <3>1 DEF O!Submit
      <3>. QED  BY <3>2 DEF OwnershipStep, O!OwnershipNext
    <2>4. CASE state = "TxWriting" /\ id = txOut
      BY <1>4, <2>4, SameStep
    <2>. QED  BY <2>3, <2>4
  <1>. QED  BY <1>3, <1>4 DEF pump_tx_write

(* Every call of the bridge is a step of the ownership protocol. *)
LEMMA CallerStep == ASSUME Accounting, Caller PROVE OwnershipStep
  <1>. USE DEF ctl, tx, hist
  <1>1. ASSUME StartDraining, UNCHANGED hist PROVE OwnershipStep
    BY <1>1, QuietStep DEF StartDraining, Quiet, Owner, InDaemon
  <1>2. CASE Attach
    BY <1>2, SameStep DEF Attach
  <1>3. ASSUME NEW token \in 0 .. U32 - 1, BeginConfigure(token) PROVE OwnershipStep
    BY <1>3, SameStep, IdleStep DEF BeginConfigure, ConfigureRefused, ConnectRefused,
       ConfigureStarted, MayConfigure, vars
  <1>4. ASSUME NEW validLen, NEW ok, SubmitTx(validLen, ok) PROVE OwnershipStep
    <2>1. CASE SubmitRefused(validLen)
      BY <2>1, SameStep DEF SubmitRefused, vars
    <2>2. CASE SubmitAttempt(ok) /\ dataSock = "open"
      <3>1. /\ state = "Ready" /\ lastTx < MaxTx /\ lastTx' = lastTx + 1
            /\ txOut' = lastTx' /\ pump_tx_write(lastTx', TxChunks)
        BY <2>2 DEF SubmitAttempt
      <3>2. lastTx' \in TxIds
        BY SMT, <3>1, BoundsAssumption DEF Accounting, TypeOK, Typed, TxIds
      <3>. QED  BY <3>1, <3>2, WriteStep
    <2>3. CASE SubmitAttempt(ok) /\ dataSock # "open"
      BY <2>3, ResetStep DEF SubmitAttempt, reset_link_unconfigured, DropLink
    <2>. QED  BY <1>4, <2>1, <2>2, <2>3 DEF SubmitTx
  <1>5. CASE AbandonPendingTx
    BY <1>1, <1>5, SameStep, ResetStep DEF AbandonPendingTx, reset_link_unconfigured,
       DropLink
  <1>6. CASE Detach
    BY <1>1, <1>6, SameStep, ResetStep DEF Detach
  <1>. QED  BY <1>2, <1>3, <1>4, <1>5, <1>6 DEF Caller

(* So is every step of the clock and of the daemon. *)
LEMMA EnvironmentStep == ASSUME Accounting, Tick \/ Daemon PROVE OwnershipStep
  <1>. USE DEF ctl, tx, hist
  <1>1. ASSUME NEW id \in TxIds, NEW answer, DaemonResolve(id, answer) PROVE OwnershipStep
    <2>1. /\ fate[id] = "held" /\ UNCHANGED <<state, txOut>>
          /\ fate' = [fate EXCEPT ![id] = IF answer = "OK" THEN "ok" ELSE "failed"]
      BY <1>1 DEF DaemonResolve
    <2>2. fate'[id] # "held" /\ \A other \in TxIds \ {id} : fate'[other] = fate[other]
      BY <2>1 DEF Accounting, TypeOK, Typed
    <2>3. id \in InDaemon /\ InDaemon' = InDaemon \ {id}
      BY <2>1, <2>2 DEF InDaemon
    <2>4. Owner' = Owner
      BY <2>1 DEF Owner
    <2>5. O!Finish(id)
      BY <2>1, <2>3, <2>4 DEF O!Finish
    <2>. QED  BY <2>5 DEF OwnershipStep, O!OwnershipNext
  <1>. QED
    BY <1>1, SameStep DEF Tick, Daemon, DaemonConf, DaemonUnsolicited,
       LoseLink

(* So is every step of poll(). *)
LEMMA PollingStep == ASSUME Accounting, Poll PROVE OwnershipStep
  <1>. USE DEF ctl, tx, hist
  <1>0. PICK event : PollStep(event)
    BY DEF Poll
  <1>1. state = "Faulted" => pc = "idle"
    BY DEF Accounting, LinkInv
  <1>2. ASSUME config_fail(event), state \in {"Connecting", "Configuring"}
        PROVE  OwnershipStep
    BY <1>2, ResetStep DEF config_fail, reset_link_unconfigured, DropLink
  <1>3. ASSUME handle_disconnect(event), pc # "idle" PROVE OwnershipStep
    BY <1>1, <1>3, ResetStep, LoseStep DEF handle_disconnect, enter_fault,
       reset_link_unconfigured, DropLink
  <1>4. ASSUME NEW data, NEW conf, advance_configure(data, conf, event),
               state \in {"Connecting", "Configuring"}
        PROVE  OwnershipStep
    BY <1>2, <1>4, IdleStep DEF advance_configure
  <1>5. CASE PollConnecting(event) \/ PollConfiguring(event)
    BY <1>2, <1>4, <1>5, SameStep DEF PollConnecting, PollConfiguring, advance_connect
  <1>6. CASE PollOperational(event) \/ PollDraining(event)
    BY <1>6, SameStep, LoseStep DEF PollOperational, PollDraining, enter_fault, DropLink
  <1>7. CASE ConfLine(event) \/ ConfStop(event) \/ ConfClosed(event)
    BY <1>2, <1>3, <1>7, SameStep, IdleStep DEF ConfLine, ConfStop, ConfClosed, ConfFails,
       config_succeed
  <1>8. CASE ResumeWrite(event)
    <2>1. CASE state = "TxWriting" /\ dataSock = "open"
      <3>1. pump_tx_write(txOut, txLeft) /\ txOut' = txOut
        BY <1>8, <2>1 DEF ResumeWrite
      <3>2. txOut \in TxIds
        BY <2>1, PendingFrame, NoGaps DEF Accounting, TypeOK
      <3>. QED  BY <2>1, <3>1, <3>2, WriteStep
    <2>2. CASE state = "TxWriting" /\ dataSock # "open"
      BY <1>8, <2>2, ResetStep DEF ResumeWrite, reset_link_unconfigured, DropLink
    <2>3. CASE state # "TxWriting"
      BY <1>8, <2>3, SameStep DEF ResumeWrite
    <2>. QED  BY <2>1, <2>2, <2>3
  <1>9. CASE DataFrame(event)
    <2>1. CASE IsResult(Head(dataIn)) /\ DispatchResult(Head(dataIn), event)
      <3>1. 1 \in 1 .. Len(dataIn) /\ dataIn[1] = Head(dataIn)
        BY SMT, <1>9 DEF DataFrame, Accounting, TypeOK, Typed
      <3>2. state \in {"TxPending", "Draining"} /\ fate[txOut] # "held"
        BY <2>1, <3>1 DEF Accounting, ResultInv, FateOf
      <3>3. /\ state' \in {"Ready", "Disconnected"} /\ txOut' = 0 /\ fate' = fate
        BY <2>1, <3>2 DEF DispatchResult, reset_link_unconfigured, DropLink
      <3>. QED  BY <3>2, <3>3, ClearStep
    <2>. QED  BY <1>3, <1>9, <2>1, SameStep DEF DataFrame, DispatchRx, IsResult
  <1>10. CASE DataStop(event) \/ DataClosed(event)
    BY <1>3, <1>10, SameStep DEF DataStop, DataClosed
  <1>. QED  BY <1>5, <1>6, <1>7, <1>8, <1>9, <1>10, <1>0 DEF PollStep

(* The backend, its callers and a daemon that answers each frame at most    *)
(* once implement the ownership protocol of loraham_backend.h.              *)
THEOREM Refinement == Spec => OwnershipProtocol
  <1>1. Init => O!OwnershipInit
    BY DEF Init, O!OwnershipInit, Owner, InDaemon
  <1>2. Accounting /\ [Next]_vars => [O!OwnershipNext]_O!ovars
    <2>1. ASSUME UNCHANGED vars PROVE OwnershipStep
      BY <2>1, SameStep DEF vars, ctl, tx, hist
    <2>. QED  BY <2>1, CallerStep, EnvironmentStep, PollingStep DEF Next, OwnershipStep
  <1>. QED  BY <1>1, <1>2, AccountingHolds, PTL DEF Spec, OwnershipProtocol, O!OwnershipSpec
-------------------------------------------------------------------------------
(* A ready backend stands on a configuration the daemon applied, whatever   *)
(* the daemon sends unasked, and however its answers and the bridge's reads *)
(* interleave.                                                              *)

InUse == Operational \cup {"Draining"}
Opening == {"Connecting", "Configuring"}

(* The status comes last: it is on its way only when the daemon has         *)
(* processed every command.                                                 *)
StatusIsLast ==
    \A i \in 1 .. Len(confIn) : confIn[i] \in {"READY", "NOTREADY"} => confDone = Cmds

(* An ERR is on its way, and no READY ahead of it. *)
ErrAhead(lines) ==
    \E i \in 1 .. Len(lines) :
        lines[i] = "ERR" /\ \A j \in 1 .. i - 1 : lines[j] # "READY"

(* Why READY can be trusted: pump_conf meets the ERR of a rejected SET      *)
(* first.                                                                   *)
ReadyInv ==
    /\ StatusIsLast
    /\ rejected => state \in Opening /\ ErrAhead(confIn)
    /\ state \in InUse => dataSock = "closed" \/ confDone = Cmds
    /\ dataSock = "closed" => confSock = "closed"

(* A step that touches none of it. *)
LEMMA ReadySame ==
    ASSUME ReadyInv, UNCHANGED <<confIn, confDone, rejected, dataSock, confSock>>,
           \/ state' = state \/ (state \in InUse /\ state' \in InUse)
           \/ state' \in Opening
    PROVE  ReadyInv'
  <1>1. StatusIsLast'
    BY DEF ReadyInv, StatusIsLast
  <1>2. rejected' => state' \in Opening /\ ErrAhead(confIn')
    BY DEF ReadyInv, InUse, Operational, Opening
  <1>3. state' \in InUse => dataSock' = "closed" \/ confDone' = Cmds
    BY DEF ReadyInv, InUse, Operational, Opening
  <1>. QED  BY <1>1, <1>2, <1>3 DEF ReadyInv

(* A new link, or none. *)
LEMMA ReadyFresh ==
    ASSUME NEW data, NEW conf, FreshLink(data, conf), data = "closed" => conf = "closed",
           data = "closed" \/ state' \in Opening
    PROVE  ReadyInv'
  <1>1. StatusIsLast'
    BY SMT DEF FreshLink, StatusIsLast
  <1>2. rejected' = FALSE
    BY DEF FreshLink
  <1>3. state' \in InUse => dataSock' = "closed"
    BY DEF FreshLink, InUse, Operational, Opening
  <1>4. dataSock' = "closed" => confSock' = "closed"
    BY DEF FreshLink
  <1>. QED  BY <1>1, <1>2, <1>3, <1>4 DEF ReadyInv

(* enter_fault and reset_link_unconfigured close both sockets. *)
LEMMA ReadyDrop == ASSUME NEW next, DropLink(next) PROVE ReadyInv'
  BY ReadyFresh DEF DropLink, TransportClose

(* The sockets of a link that is being opened, or that the daemon closes. *)
LEMMA ReadySockets ==
    ASSUME ReadyInv, UNCHANGED <<confIn, confDone, rejected>>,
           dataSock' = "closed" <=> dataSock = "closed",
           confSock' = "closed" <=> confSock = "closed",
           state' = state \/ state' \in Opening
    PROVE  ReadyInv'
  <1>1. StatusIsLast'
    BY DEF ReadyInv, StatusIsLast
  <1>2. rejected' => state' \in Opening /\ ErrAhead(confIn')
    BY DEF ReadyInv
  <1>3. state' \in InUse => dataSock' = "closed" \/ confDone' = Cmds
    BY DEF ReadyInv, InUse, Operational, Opening
  <1>. QED  BY <1>1, <1>2, <1>3 DEF ReadyInv

(* What the rest of the CONF input is. *)
LEMMA ConfTail ==
    ASSUME Typed, confIn # <<>>
    PROVE  /\ Len(Tail(confIn)) = Len(confIn) - 1 /\ Len(confIn) \in Nat \ {0}
           /\ \A i \in 1 .. Len(Tail(confIn)) : Tail(confIn)[i] = confIn[i + 1]
           /\ Head(confIn) = confIn[1]
  BY SMT DEF Typed

(* Taking a line leaves the status last. *)
LEMMA TailStatus ==
    ASSUME Typed, StatusIsLast, confIn # <<>>, confIn' = Tail(confIn), confDone' = confDone
    PROVE  StatusIsLast'
  BY SMT, ConfTail DEF StatusIsLast

(* pump_conf skips a line. *)
LEMMA ReadySkip ==
    ASSUME Typed, ReadyInv, confIn # <<>>, confIn' = Tail(confIn), Head(confIn) # "ERR",
           UNCHANGED <<state, confDone, rejected, dataSock, confSock>>
    PROVE  ReadyInv'
  <1>1. StatusIsLast'
    BY TailStatus DEF ReadyInv
  <1>2. ErrAhead(confIn) => ErrAhead(confIn')
    <2>. SUFFICES ASSUME NEW i \in 1 .. Len(confIn), confIn[i] = "ERR",
                         \A j \in 1 .. i - 1 : confIn[j] # "READY"
                  PROVE  ErrAhead(confIn')
      BY DEF ErrAhead
    <2>1. i # 1 /\ Len(confIn) \in Nat
      BY ConfTail
    <2>2. i - 1 \in 1 .. Len(confIn') /\ confIn'[i - 1] = "ERR"
      BY SMT, <2>1, ConfTail
    <2>3. ASSUME NEW j \in 1 .. (i - 1) - 1 PROVE confIn'[j] # "READY"
      <3>1. j \in 1 .. Len(confIn') /\ j + 1 \in 1 .. i - 1
        BY SMT, <2>1, <2>2
      <3>. QED  BY <3>1, ConfTail
    <2>. QED  BY <2>2, <2>3 DEF ErrAhead
  <1>. QED  BY <1>1, <1>2 DEF ReadyInv

(* READY is the first line: every command was processed, none rejected. *)
LEMMA ReadySucceed ==
    ASSUME Typed, ReadyInv, confIn # <<>>, Head(confIn) = "READY", NEW event,
           config_succeed(event)
    PROVE  ReadyInv'
  <1>1. UNCHANGED <<confDone, rejected, dataSock, confSock>> /\ confIn' = Tail(confIn)
    BY DEF config_succeed
  <1>2. StatusIsLast'
    BY <1>1, TailStatus DEF ReadyInv
  <1>3. confDone = Cmds
    BY SMT, ConfTail DEF ReadyInv, StatusIsLast
  <1>4. ~ErrAhead(confIn)
    <2>. SUFFICES ASSUME NEW i \in 1 .. Len(confIn), confIn[i] = "ERR",
                         \A j \in 1 .. i - 1 : confIn[j] # "READY"
                  PROVE  FALSE
      BY DEF ErrAhead
    <2>1. i # 1
      BY ConfTail
    <2>2. 1 \in 1 .. i - 1
      BY SMT, <2>1, ConfTail
    <2>. QED  BY <2>2, ConfTail
  <1>5. ~rejected
    BY <1>4 DEF ReadyInv
  <1>. QED  BY <1>1, <1>2, <1>3, <1>5 DEF ReadyInv

(* A drain throws CONF input away. *)
LEMMA ReadyDiscard ==
    ASSUME ReadyInv, state = "Draining", confIn' = <<>>,
           UNCHANGED <<state, confDone, rejected, dataSock, confSock>>
    PROVE  ReadyInv'
  <1>1. StatusIsLast'
    BY SMT DEF StatusIsLast
  <1>2. ~rejected
    BY DEF ReadyInv, Opening
  <1>. QED  BY <1>1, <1>2 DEF ReadyInv

(* A line behind the others puts nothing ahead of an ERR. *)
LEMMA AppendErr ==
    ASSUME Typed, NEW line, ErrAhead(confIn)
    PROVE  ErrAhead(Append(confIn, line))
  <1>1. PICK i \in 1 .. Len(confIn) :
           confIn[i] = "ERR" /\ \A j \in 1 .. i - 1 : confIn[j] # "READY"
    BY DEF ErrAhead
  <1>2. /\ Len(Append(confIn, line)) = Len(confIn) + 1 /\ Len(confIn) \in Nat
        /\ \A j \in 1 .. Len(confIn) : Append(confIn, line)[j] = confIn[j]
    BY SMT DEF Typed
  <1>3. i \in 1 .. Len(Append(confIn, line)) /\ i - 1 <= Len(confIn)
    BY SMT, <1>2
  <1>4. ASSUME NEW j \in 1 .. i - 1 PROVE Append(confIn, line)[j] # "READY"
    BY SMT, <1>1, <1>2, <1>3
  <1>. QED  BY <1>1, <1>2, <1>3, <1>4 DEF ErrAhead

(* A line the daemon adds leaves the status last. *)
LEMMA AppendStatus ==
    ASSUME Typed, StatusIsLast, NEW line, confIn' = Append(confIn, line),
           \/ confDone' = confDone \/ confDone # Cmds,
           line \in {"READY", "NOTREADY"} => confDone' = Cmds
    PROVE  StatusIsLast'
  <1>1. /\ Len(confIn') = Len(confIn) + 1 /\ Len(confIn) \in Nat
        /\ \A j \in 1 .. Len(confIn) : confIn'[j] = confIn[j]
        /\ confIn'[Len(confIn) + 1] = line
    BY SMT DEF Typed
  <1>. SUFFICES ASSUME NEW i \in 1 .. Len(confIn'), confIn'[i] \in {"READY", "NOTREADY"}
                PROVE  confDone' = Cmds
    BY DEF StatusIsLast
  <1>2. CASE i = Len(confIn) + 1
    BY <1>1, <1>2
  <1>3. CASE i # Len(confIn) + 1
    <2>1. i \in 1 .. Len(confIn)
      BY SMT, <1>1, <1>3
    <2>. QED  BY <1>1, <2>1 DEF StatusIsLast
  <1>. QED  BY <1>2, <1>3
-------------------------------------------------------------------------------
(* The daemon, and the clock. *)

(* The daemon answers a command: an ERR falls in before any READY. *)
LEMMA DaemonConfReady == ASSUME TypeOK, LinkInv, ReadyInv, DaemonConf PROVE ReadyInv'
  <1>1. /\ confDone \in 0 .. Cmds /\ confLeft \in 0 .. Cmds /\ Cmds \in Nat /\ NSets \in Nat
        /\ Cmds = NSets + 1 /\ Typed /\ state \in States
    BY SMT, BoundsAssumption DEF TypeOK, Typed, Cmds
  <1>2. /\ confDone # Cmds /\ confDone' = confDone + 1 /\ confSock = "open"
        /\ UNCHANGED <<state, dataSock, confSock>>
    BY SMT, <1>1 DEF DaemonConf, SendConf, ctl
  <1>3. state \in Opening
    <2>1. dataSock # "closed" /\ state \notin InUse
      BY <1>2 DEF ReadyInv
    <2>. QED  BY <1>1, <2>1 DEF LinkInv, States, InUse, Operational, Opening
  <1>4. \A i \in 1 .. Len(confIn) : confIn[i] # "READY"
    BY <1>2 DEF ReadyInv, StatusIsLast
  <1>5. StatusIsLast'
    <2>1. CASE confIn' = confIn
      BY <1>2, <2>1 DEF ReadyInv, StatusIsLast
    <2>2. CASE confIn' # confIn
      <3>1. PICK line : /\ confIn' = Append(confIn, line)
                        /\ line \in {"READY", "NOTREADY"} => confDone = NSets
        BY SMT, <2>2 DEF DaemonConf, SendConf
      <3>. QED  BY <1>1, <1>2, <3>1, AppendStatus DEF ReadyInv
    <2>. QED  BY <2>1, <2>2
  <1>6. rejected' => ErrAhead(confIn')
    <2>1. CASE rejected
      <3>1. ErrAhead(confIn)
        BY <2>1 DEF ReadyInv
      <3>2. CASE confIn' = confIn
        BY <3>1, <3>2
      <3>3. CASE confIn' # confIn
        <4>1. PICK line : confIn' = Append(confIn, line)
          BY <3>3 DEF DaemonConf, SendConf
        <4>. QED  BY <1>1, <3>1, <4>1, AppendErr
      <3>. QED  BY <3>2, <3>3
    <2>2. CASE ~rejected /\ confIn' = Append(confIn, "ERR")
      <3>1. /\ Len(confIn') = Len(confIn) + 1 /\ Len(confIn) \in Nat
            /\ \A j \in 1 .. Len(confIn) : confIn'[j] = confIn[j]
            /\ confIn'[Len(confIn) + 1] = "ERR"
        BY SMT, <1>1, <2>2 DEF Typed
      <3>2. Len(confIn) + 1 \in 1 .. Len(confIn')
        BY SMT, <3>1
      <3>3. ASSUME NEW j \in 1 .. (Len(confIn) + 1) - 1 PROVE confIn'[j] # "READY"
        BY SMT, <1>4, <3>1
      <3>. QED  BY <3>1, <3>2, <3>3 DEF ErrAhead
    <2>3. CASE ~rejected /\ confIn' # Append(confIn, "ERR")
      BY <2>3 DEF DaemonConf, SendConf
    <2>. QED  BY <2>1, <2>2, <2>3
  <1>. QED  BY <1>2, <1>3, <1>5, <1>6 DEF ReadyInv, InUse, Operational, Opening

(* The steps of the daemon and of the clock. *)
LEMMA EnvironmentReady ==
    ASSUME TypeOK, LinkInv, ReadyInv, Tick \/ Daemon
    PROVE  ReadyInv'
  <1>. USE DEF ctl, link
  <1>1. CASE Tick
    BY <1>1, ReadySame DEF Tick
  <1>2. CASE LoseLink
    <2>1. /\ UNCHANGED <<state, confIn, confDone, rejected>>
          /\ dataSock' = "closed" <=> dataSock = "closed"
          /\ confSock' = "closed" <=> confSock = "closed"
      BY <1>2 DEF LoseLink
    <2>. QED  BY <2>1, ReadySockets
  <1>3. ASSUME NEW id, NEW answer, DaemonResolve(id, answer) PROVE ReadyInv'
    BY <1>3, ReadySame DEF DaemonResolve
  <1>4. ASSUME NEW what \in Unsolicited, DaemonUnsolicited(what) PROVE ReadyInv'
    <2>1. UNCHANGED <<state, confDone, rejected, dataSock, confSock>>
      BY <1>4 DEF DaemonUnsolicited
    <2>2. CASE confIn' = confIn
      BY <2>1, <2>2, ReadySame
    <2>3. CASE confIn' # confIn
      <3>1. confIn' = Append(confIn, what) /\ what \notin {"READY", "NOTREADY"}
        BY <1>4, <2>3, DaemonAssumption DEF DaemonUnsolicited, SendConf, DataTypes
      <3>2. StatusIsLast'
        BY <2>1, <3>1, AppendStatus DEF ReadyInv, TypeOK
      <3>3. ErrAhead(confIn) => ErrAhead(confIn')
        BY <3>1, AppendErr DEF TypeOK
      <3>. QED  BY <2>1, <3>2, <3>3 DEF ReadyInv
    <2>. QED  BY <2>2, <2>3
  <1>. QED  BY <1>1, <1>2, <1>3, <1>4, DaemonConfReady DEF Daemon
-------------------------------------------------------------------------------
(* The bridge. *)

(* The interface calls. *)
LEMMA CallerReady == ASSUME ReadyInv, Caller PROVE ReadyInv'
  <1>. USE DEF ctl, link
  <1>1. CASE Attach
    BY <1>1, ReadySame DEF Attach
  <1>2. ASSUME NEW token, BeginConfigure(token) PROVE ReadyInv'
    <2>1. CASE ConfigureRefused
      BY <2>1, ReadySame DEF ConfigureRefused, vars
    <2>2. CASE ConnectRefused
      BY <2>2, ReadyFresh DEF ConnectRefused, TransportClose
    <2>3. CASE ConfigureStarted(token)
      <3>1. PICK data, conf \in {"connecting", "open"} : FreshLink(data, conf)
        BY <2>3 DEF ConfigureStarted
      <3>2. state' \in Opening
        BY <2>3 DEF ConfigureStarted, Opening
      <3>. QED  BY <3>1, <3>2, ReadyFresh
    <2>. QED  BY <1>2, <2>1, <2>2, <2>3 DEF BeginConfigure
  <1>3. ASSUME NEW validLen, NEW ok, SubmitTx(validLen, ok) PROVE ReadyInv'
    <2>1. CASE SubmitRefused(validLen)
      BY <2>1, ReadySame DEF SubmitRefused, vars
    <2>2. CASE SubmitAttempt(ok) /\ dataSock = "open"
      <3>1. UNCHANGED <<confIn, confDone, rejected, dataSock, confSock>>
        BY <2>2 DEF SubmitAttempt
      <3>2. pump_tx_write(lastTx', TxChunks) /\ state = "Ready"
        BY <2>2 DEF SubmitAttempt
      <3>3. state \in InUse /\ state' \in InUse
        BY <3>2 DEF pump_tx_write, InUse, Operational
      <3>. QED  BY <3>1, <3>3, ReadySame
    <2>3. CASE SubmitAttempt(ok) /\ dataSock # "open"
      BY <2>3, ReadyDrop DEF SubmitAttempt, reset_link_unconfigured
    <2>. QED  BY <1>3, <2>1, <2>2, <2>3 DEF SubmitTx
  <1>4. ASSUME StartDraining PROVE ReadyInv'
    BY <1>4, ReadySame DEF StartDraining, InUse, Operational
  <1>5. CASE AbandonPendingTx
    BY <1>4, <1>5, ReadySame, ReadyDrop DEF AbandonPendingTx, reset_link_unconfigured
  <1>6. CASE Detach
    BY <1>4, <1>6, ReadySame, ReadyFresh DEF Detach, TransportClose
  <1>. QED  BY <1>1, <1>2, <1>3, <1>5, <1>6 DEF Caller

(* The steps of poll(). *)
LEMMA PollReady == ASSUME TypeOK, ReadyInv, NEW event, PollStep(event) PROVE ReadyInv'
  <1>. USE DEF ctl, link, reset_link_unconfigured
  <1>1. ASSUME config_fail(event) \/ handle_disconnect(event) PROVE ReadyInv'
    BY <1>1, ReadyDrop DEF config_fail, handle_disconnect, enter_fault
  <1>2. ASSUME NEW data, NEW conf, advance_configure(data, conf, event),
               data = "closed" <=> dataSock = "closed",
               conf = "closed" <=> confSock = "closed"
        PROVE  ReadyInv'
    <2>1. CASE config_fail(event)
      BY <1>1, <2>1
    <2>2. CASE ~config_fail(event)
      <3>1. /\ state' = "Configuring" /\ dataSock' = data /\ confSock' = conf
            /\ UNCHANGED <<confIn, confDone, rejected>>
        BY <1>2, <2>2 DEF advance_configure
      <3>. QED  BY <1>2, <3>1, ReadySockets DEF Opening
    <2>. QED  BY <2>1, <2>2
  <1>3. CASE PollConnecting(event)
    <2>1. CASE config_fail(event)
      BY <1>1, <2>1
    <2>2. CASE ~config_fail(event)
      <3>1. PICK data \in check_one(dataSock), conf \in check_one(confSock) :
               \/ /\ "connecting" \in {data, conf} /\ "failed" \notin {data, conf}
                  /\ dataSock' = data /\ confSock' = conf
                  /\ UNCHANGED <<ctl, confIn, confDone, rejected>>
               \/ advance_configure(data, conf, event)
        BY <1>3, <2>2 DEF PollConnecting, advance_connect
      <3>2. /\ data = "closed" <=> dataSock = "closed"
            /\ conf = "closed" <=> confSock = "closed"
        BY DEF check_one
      <3>. QED  BY <1>2, <3>1, <3>2, ReadySockets
    <2>. QED  BY <2>1, <2>2
  <1>4. CASE PollConfiguring(event)
    BY <1>1, <1>2, <1>4 DEF PollConfiguring
  <1>5. CASE PollOperational(event)
    BY <1>5, ReadySame DEF PollOperational
  <1>6. CASE PollDraining(event)
    BY <1>6, ReadyDrop, ReadyDiscard DEF PollDraining, enter_fault
  <1>7. CASE ConfLine(event)
    <2>1. CASE Head(confIn) \in Tolerated /\ confIn' = Tail(confIn)
               /\ UNCHANGED <<ctl, dataSock, confSock, confDone, rejected>>
      <3>1. Head(confIn) # "ERR"
        BY <2>1 DEF Tolerated
      <3>2. confIn # <<>>
        BY <1>7 DEF ConfLine
      <3>. QED  BY <2>1, <3>1, <3>2, ReadySkip DEF TypeOK
    <2>2. CASE Head(confIn) = "READY" /\ config_succeed(event)
      BY <1>7, <2>2, ReadySucceed DEF ConfLine, TypeOK
    <2>. QED  BY <1>1, <1>7, <2>1, <2>2 DEF ConfLine, ConfFails
  <1>8. CASE ConfStop(event) \/ ConfClosed(event)
    BY <1>1, <1>8, ReadySame DEF ConfStop, ConfClosed, ConfFails
  <1>9. CASE ResumeWrite(event)
    <2>1. CASE state = "TxWriting" /\ dataSock = "open"
      <3>1. UNCHANGED <<confIn, confDone, rejected, dataSock, confSock>>
        BY <1>9, <2>1 DEF ResumeWrite
      <3>2. pump_tx_write(txOut, txLeft)
        BY <1>9, <2>1 DEF ResumeWrite
      <3>3. state \in InUse /\ state' \in InUse
        BY <2>1, <3>2 DEF pump_tx_write, InUse, Operational
      <3>. QED  BY <3>1, <3>3, ReadySame
    <2>2. CASE ~(state = "TxWriting" /\ dataSock = "open")
      BY <1>9, <2>2, ReadyDrop, ReadySame DEF ResumeWrite
    <2>. QED  BY <2>1, <2>2
  <1>10. CASE DataFrame(event)
    <2>1. ASSUME NEW frame, DispatchResult(frame, event) PROVE ReadyInv'
      <3>1. CASE state = "TxPending"
        <4>1. PopFrame /\ state' = "Ready"
          BY <2>1, <3>1 DEF DispatchResult
        <4>. QED  BY <3>1, <4>1, ReadySame DEF PopFrame, InUse, Operational
      <3>2. CASE state = "Draining"
        BY <2>1, <3>2, ReadyDrop DEF DispatchResult
      <3>3. CASE state \notin {"TxPending", "Draining"}
        BY <2>1, <3>3, ReadySame DEF DispatchResult, PopFrame
      <3>. QED  BY <3>1, <3>2, <3>3
    <2>2. ASSUME NEW frame, DispatchRx(frame, event) PROVE ReadyInv'
      BY <2>2, ReadySame DEF DispatchRx, PopFrame
    <2>. QED  BY <1>1, <1>10, <2>1, <2>2 DEF DataFrame
  <1>11. CASE DataStop(event) \/ DataClosed(event)
    BY <1>1, <1>11, ReadySame DEF DataStop, DataClosed
  <1>. QED  BY <1>3, <1>4, <1>5, <1>6, <1>7, <1>8, <1>9, <1>10, <1>11 DEF PollStep
-------------------------------------------------------------------------------
(* Theorems. *)

(* ReadyInv is inductive relative to Accounting, which says where poll() may *)
(* be and that a link exists in the states that use one.                    *)
THEOREM ReadyInvariant == Spec => []ReadyInv
  <1>1. Init => ReadyInv
    <2>. SUFFICES ASSUME Init PROVE ReadyInv
      OBVIOUS
    <2>1. StatusIsLast
      BY SMT DEF Init, StatusIsLast
    <2>2. ~rejected /\ state = "Disconnected" /\ dataSock = "closed" /\ confSock = "closed"
      BY DEF Init
    <2>. QED  BY <2>1, <2>2 DEF ReadyInv
  <1>2. ReadyInv /\ Accounting /\ [Next]_vars => ReadyInv'
    <2>. SUFFICES ASSUME ReadyInv, TypeOK, LinkInv, [Next]_vars PROVE ReadyInv'
      BY DEF Accounting
    <2>1. CASE Poll
      <3>1. PICK event : PollStep(event)
        BY <2>1 DEF Poll
      <3>. QED  BY <3>1, PollReady
    <2>2. CASE UNCHANGED vars
      BY <2>2, ReadySame DEF vars, ctl, link
    <2>. QED  BY <2>1, <2>2, CallerReady, EnvironmentReady DEF Next
  <1>. QED  BY <1>1, <1>2, AccountingHolds, PTL DEF Spec

(* config_succeed is reached only when the daemon has processed every SET   *)
(* and rejected none: an operational or draining backend that still has its *)
(* link stands on an applied configuration.                                 *)
THEOREM ReadyIsApplied == Spec => []ReadyMeansApplied
  <1>1. ReadyInv => ReadyMeansApplied
    BY DEF ReadyInv, ReadyMeansApplied, InUse, Operational, Opening
  <1>. QED  BY <1>1, ReadyInvariant, PTL
===============================================================================
