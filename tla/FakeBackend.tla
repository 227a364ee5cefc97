----------------------------- MODULE FakeBackend -----------------------------
(***************************************************************************)
(* The radio backend without a radio (fake_backend.cpp): main uses it for  *)
(* --backend fake, the tests script it.  poll() is a sequence of steps,    *)
(* one callback each, the parameter ev; polling says that it is not done.  *)
(* The received packets are only counted.  Mutants are as in               *)
(* LorahamBackend.                                                         *)
(***************************************************************************)
EXTENDS Integers, Sequences

CONSTANTS
    U32,       \* 2^32, the values of next_token_
    NoConfig

VARIABLES
    sink,               \* sink_ is set
    started,            \* started_
    configured,         \* configured_
    effective,          \* what the last configuration was reported to be
    config_mode,        \* config_mode_
    forced_effective,   \* forced_effective_
    config_pending,     \* config_pending_
    pending_requested,  \* pending_requested_
    config_token,       \* config_token_, which is next_token_
    tx_pending,         \* tx_pending_
    next_tx_outcome,    \* next_tx_outcome_
    pending_tx_result,  \* pending_tx_result_
    stale_completions,  \* stale_completions_
    rx_queue,           \* the length of rx_queue_
    fail_pending,       \* fail_pending_
    polling

link == <<sink, started>>
config == <<configured, effective, config_pending, pending_requested, config_token>>
script == <<config_mode, forced_effective, next_tx_outcome>>
tx == <<tx_pending, pending_tx_result>>
queues == <<stale_completions, rx_queue, fail_pending>>
kvars == <<link, config, script, tx, queues, polling>>

Results == {"Success", "ChannelBusy", "Timeout", "RadioError"}

Init ==
    /\ sink = FALSE /\ started = FALSE
    /\ configured = FALSE /\ effective = NoConfig
    /\ config_pending = FALSE /\ pending_requested = NoConfig /\ config_token = 0
    /\ config_mode = "Exact" /\ forced_effective = NoConfig /\ next_tx_outcome = "none"
    /\ tx_pending = FALSE /\ pending_tx_result = "none"
    /\ stale_completions = <<>> /\ rx_queue = 0 /\ fail_pending = FALSE
    /\ polling = FALSE

Idle == ~polling
-------------------------------------------------------------------------------
(* Scripting, between two calls. *)

script_config(mode, eff) ==
    /\ Idle
    /\ config_mode' = mode
    /\ forced_effective' = IF mode = "Mismatch" THEN eff ELSE forced_effective
    /\ UNCHANGED <<link, config, next_tx_outcome, tx, queues, polling>>

script_tx_outcome(outcome) ==
    /\ Idle
    /\ next_tx_outcome' = outcome
    /\ UNCHANGED <<link, config, config_mode, forced_effective, tx, queues, polling>>

script_stale_tx_complete(outcome) ==
    /\ Idle
    /\ stale_completions' = Append(stale_completions, outcome)
    /\ UNCHANGED <<link, config, script, tx, rx_queue, fail_pending, polling>>

script_rx ==
    /\ Idle
    /\ rx_queue' = rx_queue + 1
    /\ UNCHANGED <<link, config, script, tx, stale_completions, fail_pending, polling>>

script_backend_failure ==
    /\ Idle
    /\ fail_pending' = TRUE
    /\ UNCHANGED <<link, config, script, tx, stale_completions, rx_queue, polling>>
-------------------------------------------------------------------------------
(* The calls of the connection and the session. *)

(* set_sink() and start(), in the constructor of a connection. *)
Attach ==
    /\ Idle
    /\ sink' = TRUE /\ started' = TRUE
    /\ UNCHANGED <<config, script, tx, queues, polling>>

abandon_pending_tx ==
    /\ Idle
    /\ tx_pending' = FALSE /\ pending_tx_result' = "none"
    /\ UNCHANGED <<link, config, script, queues, polling>>

(* abandon_pending_tx(), set_sink(nullptr), stop(), in its destructor. *)
Detach ==
    /\ Idle
    /\ tx_pending' = FALSE /\ pending_tx_result' = "none"
    /\ sink' = FALSE /\ started' = FALSE
    /\ UNCHANGED <<config, script, queues, polling>>

begin_configure(requested, token) ==
    /\ Idle
    /\ token = (config_token + 1) % U32
    /\ config_token' = token
    /\ config_pending' = TRUE /\ pending_requested' = requested
    /\ UNCHANGED <<link, configured, effective, script, tx, queues, polling>>

(* validate() has refused a frame longer than kMaxLoraPayload. *)
submit_tx(ok) ==
    /\ Idle
    /\ ok = (started /\ configured /\ ~tx_pending)
    /\ IF ok
       THEN /\ tx_pending' = TRUE /\ next_tx_outcome' = "none"
            /\ pending_tx_result' = IF next_tx_outcome = "none" THEN "Success"
                                    ELSE next_tx_outcome
       ELSE UNCHANGED <<tx, next_tx_outcome>>
    /\ UNCHANGED <<link, config, config_mode, forced_effective, queues, polling>>
-------------------------------------------------------------------------------
(* poll(). *)

PollConfig(ev) ==
    /\ Idle /\ sink /\ config_pending
    /\ config_pending' = FALSE
    /\ configured' = (config_mode # "Failure")
    /\ effective' = CASE config_mode = "Exact"    -> pending_requested
                      [] config_mode = "Mismatch" -> forced_effective
                      [] OTHER                    -> NoConfig
    /\ ev = [cb |-> "configure_complete", token |-> config_token,
             applied |-> configured', effective |-> effective']
    /\ UNCHANGED <<link, pending_requested, config_token, script, tx, queues, polling>>

PollFailure(ev) ==
    /\ Idle /\ sink /\ ~config_pending /\ fail_pending
    /\ fail_pending' = FALSE
    /\ tx_pending' = FALSE /\ pending_tx_result' = "none"
    /\ ev = [cb |-> "backend_failure"]
    /\ UNCHANGED <<link, config, script, stale_completions, rx_queue, polling>>

(* Mutant: the scripted completions come first. *)
TxDueLast ==
    tx_pending /\ pending_tx_result # "none" /\ stale_completions = <<>>

TxDue == tx_pending /\ pending_tx_result # "none"

Serving == polling \/ (sink /\ ~config_pending /\ ~fail_pending)

PollRx(ev) ==
    /\ Serving /\ rx_queue > 0
    /\ rx_queue' = rx_queue - 1
    /\ polling' = (rx_queue > 1 \/ TxDue \/ stale_completions # <<>>)
    /\ ev = [cb |-> "rx"]
    /\ UNCHANGED <<link, config, script, tx, stale_completions, fail_pending>>

PollTx(ev) ==
    /\ Serving /\ rx_queue = 0 /\ TxDue
    /\ tx_pending' = FALSE /\ pending_tx_result' = "none"
    /\ polling' = (stale_completions # <<>>)
    /\ ev = [cb |-> "tx_complete", arg |-> pending_tx_result]
    /\ UNCHANGED <<link, config, script, queues>>

PollStale(ev) ==
    /\ Serving /\ rx_queue = 0 /\ ~TxDue /\ stale_completions # <<>>
    /\ stale_completions' = Tail(stale_completions)
    /\ polling' = (Len(stale_completions) > 1)
    /\ ev = [cb |-> "tx_complete", arg |-> Head(stale_completions)]
    /\ UNCHANGED <<link, config, script, tx, rx_queue, fail_pending>>

poll(ev) == PollConfig(ev) \/ PollFailure(ev) \/ PollRx(ev) \/ PollTx(ev) \/ PollStale(ev)
===============================================================================
