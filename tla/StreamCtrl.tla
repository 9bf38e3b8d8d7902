----------------------------- MODULE StreamCtrl -----------------------------
(***************************************************************************)
(* The per-stream control job of src/code/bngblaster/src/bbl_stream.c:    *)
(* bbl_stream_ctrl, run once per second for every stream by its            *)
(* bbl_stream_ctrl_job timer on the main loop.  It marks a stream verified *)
(* once the RX side accepted a first packet, counts verified flows and     *)
(* announces "ALL STREAM TRAFFIC FLOWS VERIFIED", stops verified streams   *)
(* when traffic_stop_verified is set, and folds the per-stream counters    *)
(* into the interface counters through the last_sync shadows              *)
(* (bbl_stream_tx_stats, bbl_stream_rx_stats, bbl_stream_rx_wrong_session).*)
(*                                                                         *)
(* The streams are raw downstream streams, the ones bbl_stream_init        *)
(* creates (lines 1562-1583): no session, stream->network_interface set    *)
(* and stream->access_interface left NULL.  They are counted in            *)
(* stream_traffic_flows / stream_traffic_flows_verified.  For such a       *)
(* stream bbl_stream_tx_stats adds the TX delta to the network interface,  *)
(* while bbl_stream_rx_stats adds the RX and loss deltas only              *)
(* if(access_interface) (line 1086): the shadows move and no interface     *)
(* counter changes.  stream->wrong_session is only counted when            *)
(* stream->session_traffic and a session are set (line 1852), never for    *)
(* these streams, so bbl_stream_rx_wrong_session is never called.  The TX  *)
(* and RX hot paths are abstracted to the counter increments they make.    *)
(***************************************************************************)
EXTENDS Naturals, FiniteSets, Functions

CONSTANTS
    Streams,              \* the streams (model values)
    MaxCount              \* bound on each stream counter (model bound)

VARIABLES
    traffic_stop_verified,    \* g_ctx->config.traffic_stop_verified
    packets_tx,               \* stream->packets_tx
    packets_rx,               \* stream->packets_rx
    loss,                     \* stream->loss
    rx_first_seq,             \* stream->rx_first_seq # 0
    verified,                 \* stream->verified
    stop,                     \* stream->stop
    last_sync_packets_tx,     \* stream->last_sync_packets_tx
    last_sync_packets_rx,     \* stream->last_sync_packets_rx
    last_sync_loss,           \* stream->last_sync_loss
    flows_verified,           \* g_ctx->stats.stream_traffic_flows_verified
    if_stream_tx,             \* network_interface->stats.stream_tx
    announced                 \* history: verified sets at each "ALL ... VERIFIED"

ctrl_vars == <<traffic_stop_verified, packets_tx, packets_rx, loss, rx_first_seq, verified, stop,
               last_sync_packets_tx, last_sync_packets_rx, last_sync_loss,
               flows_verified, if_stream_tx, announced>>

counter_vars == <<packets_tx, packets_rx, loss>>
sync_vars == <<last_sync_packets_tx, last_sync_packets_rx, last_sync_loss,
               if_stream_tx>>

(* g_ctx->stats.stream_traffic_flows: one per stream added.                *)
StreamTrafficFlows == Cardinality(Streams)

(* The sum of a per-stream counter over all streams.                       *)
Total(f) == FoldFunctionOnSet(+, 0, f, Streams)

-----------------------------------------------------------------------------
(* Hot-path increments, made by bbl_stream_tx_job / bbl_stream_rx.         *)

(* The TX job sends a packet; a stopped stream's send window is closed.    *)
StreamTxPacket(s) ==
    /\ ~stop[s] /\ packets_tx[s] < MaxCount
    /\ packets_tx' = [packets_tx EXCEPT ![s] = @ + 1]
    /\ UNCHANGED <<traffic_stop_verified, packets_rx, loss, rx_first_seq,
                   verified, stop, flows_verified, sync_vars, announced>>

(* bbl_stream_rx accepts a packet: the first one sets rx_first_seq, a      *)
(* later one may add a sequence gap to loss.                               *)
StreamRxPacket(s) ==
    /\ packets_rx[s] < MaxCount
    /\ packets_rx' = [packets_rx EXCEPT ![s] = @ + 1]
    /\ rx_first_seq' = [rx_first_seq EXCEPT ![s] = TRUE]
    /\ \E gap \in IF rx_first_seq[s] /\ loss[s] < MaxCount THEN {0, 1} ELSE {0} :
          loss' = [loss EXCEPT ![s] = @ + gap]
    /\ UNCHANGED <<traffic_stop_verified, packets_tx, verified, stop,
                   flows_verified, sync_vars, announced>>

-----------------------------------------------------------------------------
(* Folding the delta with its operands swapped (mutant).                   *)
SyncSwapped(cnt, shadow, ifc, s, on) ==
    /\ shadow' = IF on THEN [shadow EXCEPT ![s] = cnt[s]] ELSE shadow
    /\ ifc' = IF on THEN ifc + (shadow[s] - cnt[s]) ELSE ifc

(* Folding a counter's delta since the last sync into an interface counter *)
(* with the shadow moved before the delta is taken (mutant).               *)
SyncShadowFirst(cnt, shadow, ifc, s, on) ==
    /\ shadow' = IF on THEN [shadow EXCEPT ![s] = cnt[s]] ELSE shadow
    /\ ifc' = ifc

(* Folding a counter's delta since the last sync into an interface        *)
(* counter: delta = current - last_sync, last_sync = current.              *)
Sync(cnt, shadow, ifc, s, on) ==
    /\ shadow' = IF on THEN [shadow EXCEPT ![s] = cnt[s]] ELSE shadow
    /\ ifc' = IF on THEN ifc + (cnt[s] - shadow[s]) ELSE ifc

(* bbl_stream_tx_stats for a downstream stream: the TX delta goes to its   *)
(* network interface.                                                      *)
TxStats(s, on) == Sync(packets_tx, last_sync_packets_tx, if_stream_tx, s, on)

(* bbl_stream_ctrl's RX and loss deltas with bbl_stream_rx_stats for a     *)
(* downstream stream without access_interface: last_sync_packets_rx and    *)
(* last_sync_loss move to the counters, nothing is added anywhere.         *)
RxStats(s, on) ==
    /\ last_sync_packets_rx' =
          IF on THEN [last_sync_packets_rx EXCEPT ![s] = packets_rx[s]]
          ELSE last_sync_packets_rx
    /\ last_sync_loss' =
          IF on THEN [last_sync_loss EXCEPT ![s] = loss[s]] ELSE last_sync_loss

(* Verification without the !stream->verified guard (mutant).             *)
NewlyUnguarded(s) == rx_first_seq[s]

(* The stream is not yet verified and its RX side accepted a packet.       *)
Newly(s) == ~verified[s] /\ rx_first_seq[s]

(***************************************************************************)
(* bbl_stream_ctrl with the stats sync done only on the call that          *)
(* verifies the stream, as if it sat inside the !verified block (mutant).  *)
(***************************************************************************)
StreamCtrlJobSyncOnce(s) ==
    LET newly == Newly(s)
        count == IF newly THEN flows_verified + 1 ELSE flows_verified
    IN  /\ verified' = [verified EXCEPT ![s] = verified[s] \/ newly]
        /\ flows_verified' = count
        /\ announced' = IF newly /\ count = StreamTrafficFlows
                        THEN announced \cup {{t \in Streams : verified'[t]}}
                        ELSE announced
        /\ stop' = [stop EXCEPT ![s] = @ \/ (newly /\ traffic_stop_verified)]
        /\ TxStats(s, newly)
        /\ RxStats(s, newly)
        /\ UNCHANGED <<traffic_stop_verified, counter_vars, rx_first_seq>>

(***************************************************************************)
(* bbl_stream_ctrl.  An unverified stream whose RX side accepted a packet  *)
(* becomes verified, is counted, may complete the announcement, and is     *)
(* stopped when traffic_stop_verified; an unverified stream returns        *)
(* before the TX / RX / loss sync (line 1249).                             *)
(***************************************************************************)
StreamCtrlJob(s) ==
    LET newly == Newly(s)
        isVerified == verified[s] \/ newly
        count == IF newly THEN flows_verified + 1 ELSE flows_verified
    IN  /\ verified' = [verified EXCEPT ![s] = isVerified]
        /\ flows_verified' = count
        /\ announced' = IF newly /\ count = StreamTrafficFlows
                        THEN announced \cup {{t \in Streams : verified'[t]}}
                        ELSE announced
        /\ stop' = [stop EXCEPT ![s] = @ \/ (newly /\ traffic_stop_verified)]
        /\ TxStats(s, isVerified)
        /\ RxStats(s, isVerified)
        /\ UNCHANGED <<traffic_stop_verified, counter_vars, rx_first_seq>>

(* bbl_stream_reset: clears the RX first/last sequence, verified and stop; *)
(* the counters, their last_sync shadows and the global                    *)
(* stream_traffic_flows_verified are kept.                                 *)
StreamReset(s) ==
    /\ rx_first_seq' = [rx_first_seq EXCEPT ![s] = FALSE]
    /\ verified' = [verified EXCEPT ![s] = FALSE]
    /\ stop' = [stop EXCEPT ![s] = FALSE]
    /\ UNCHANGED <<traffic_stop_verified, counter_vars, flows_verified,
                   sync_vars, announced>>

-----------------------------------------------------------------------------
CtrlInit ==
    /\ traffic_stop_verified \in BOOLEAN
    /\ packets_tx = [s \in Streams |-> 0] /\ packets_rx = [s \in Streams |-> 0]
    /\ loss = [s \in Streams |-> 0]
    /\ rx_first_seq = [s \in Streams |-> FALSE]
    /\ verified = [s \in Streams |-> FALSE] /\ stop = [s \in Streams |-> FALSE]
    /\ last_sync_packets_tx = [s \in Streams |-> 0]
    /\ last_sync_packets_rx = [s \in Streams |-> 0]
    /\ last_sync_loss = [s \in Streams |-> 0]
    /\ flows_verified = 0
    /\ if_stream_tx = 0
    /\ announced = {}

CtrlNext ==
    \E s \in Streams :
        \/ StreamTxPacket(s) \/ StreamRxPacket(s) \/ StreamCtrlJob(s)
        \/ StreamReset(s)

(* The control timers fire periodically on the main loop.                  *)
CtrlFairness == \A s \in Streams : WF_ctrl_vars(StreamCtrlJob(s))

CtrlSpec == CtrlInit /\ [][CtrlNext]_ctrl_vars /\ CtrlFairness

-----------------------------------------------------------------------------
CtrlTypeOK ==
    /\ \A f \in {packets_tx, packets_rx, loss, last_sync_packets_tx,
                  last_sync_packets_rx, last_sync_loss} :
          f \in [Streams -> 0..MaxCount]
    /\ \A f \in {rx_first_seq, verified, stop} : f \in [Streams -> BOOLEAN]
    /\ traffic_stop_verified \in BOOLEAN
    /\ {flows_verified, if_stream_tx} \subseteq Nat
    /\ announced \subseteq SUBSET Streams

StatsConserved ==
    /\ if_stream_tx = Total(last_sync_packets_tx)
    /\ \A s \in Streams :
          /\ last_sync_packets_tx[s] <= packets_tx[s]
          /\ last_sync_packets_rx[s] <= packets_rx[s]
          /\ last_sync_loss[s] <= loss[s]

(* Spec 4.H, bbl_stream_ctrl: once the streams stop sending, every packet  *)
(* a verified stream sent is eventually in the interface TX counter: the   *)
(* sync runs on every control job of a verified stream, not only on the   *)
(* one that verified it.                                                   *)
VerifiedTxReported ==
    \A s \in Streams :
        <>[](verified[s] => last_sync_packets_tx[s] = packets_tx[s])

(* Spec 4.H, bbl_stream_ctrl: once the streams stop sending, the interface *)
(* TX counter eventually includes every packet the streams sent.           *)
TxReported == <>[](if_stream_tx = Total(packets_tx))

====
