----------------------------- MODULE StreamFlow -----------------------------
(***************************************************************************)
(* One stream end to end: the TX side (StreamTx) hands packets to the      *)
(* ring, the network between the two BNG Blaster interfaces carries them   *)
(* in order and may lose some, and the RX side (StreamRx) matches them.    *)
(* bbl_stream_reset (src/code/bngblaster/src/bbl_stream.c) acts on both    *)
(* halves in one call on the main thread: it raises the TX reset flag that *)
(* bbl_stream_can_send applies on the next TX job, and clears the RX state *)
(* at once.                                                                *)
(*                                                                         *)
(* In this module StreamTx's wire is the channel: the frames handed to the *)
(* ring and not yet received, oldest first.  The network may deliver a     *)
(* frame ahead of older ones still in flight (several paths, several RX    *)
(* threads): bbl_stream_rx then sees the sequence go backwards.  The      *)
(* receiving interface decodes a frame of this stream as a packet with the *)
(* stream's own type, direction and session; the network between the two  *)
(* interfaces (the device under test) may push any outer MPLS label of     *)
(* Labels or none, the expected one or a wrong one.                        *)
(***************************************************************************)
EXTENDS StreamTx, StreamRx, FiniteSets

LOCAL INSTANCE SequencesExt

VARIABLES
    dropped,    \* history: flow_seq values the network lost
    overtaken,  \* history: a frame was delivered ahead of an older one
    rx_max      \* history: the highest flow_seq received since the reset

net_vars == <<dropped, overtaken, rx_max>>
flow_vars == <<tx_vars, rx_vars, net_vars>>

(* The flow_seq values still in flight.                                    *)
InFlight == {wire[i].seq : i \in DOMAIN wire}

(* What bbl_stream_rx sees of a frame of this stream arriving with outer   *)
(* label l.                                                                *)
Received(f, l) == [seq |-> f.seq, label1 |-> l, label2 |-> NoLabel,
                kind_ok |-> TRUE, session_ok |-> TRUE]

(* A step of the TX side or of its environment (Reset excluded: it is      *)
(* FlowReset here).                                                        *)
FlowTx ==
    /\ \/ TxJob \/ Tick \/ EndInitPhase \/ ToggleTraffic \/ SessionChange
       \/ KernelDrain \/ StopVerified
    /\ UNCHANGED <<rx_vars, net_vars>>

(* The k-th frame in flight reaches the receiving interface and is        *)
(* handed to bbl_stream_rx.  A frame it rejects before the stream is       *)
(* verified (rx_first_seq stays 0) is lost to the stream: the histories    *)
(* count it with the dropped frames and not in rx_max.                     *)
DeliverAt(k) ==
    /\ \E l \in Labels \cup {NoLabel} : StreamRx(Received(wire[k], l))
    /\ wire' = RemoveAt(wire, k)
    /\ overtaken' = (overtaken \/ k > 1)
    /\ IF rx_first_seq' = 0
       THEN /\ dropped' = dropped \cup {wire[k].seq}
            /\ UNCHANGED rx_max
       ELSE /\ rx_max' = IF wire[k].seq > rx_max THEN wire[k].seq ELSE rx_max
            /\ UNCHANGED dropped
    /\ UNCHANGED <<now, tx_timer_fired, g_init_phase, g_traffic, session_ready,
                   session_active, reset, stop, buf, flow_seq, packets_tx,
                   send_window_packets, send_window_start, wait, wait_start,
                   ring_free, tx_epoch, first_sendable>>

(* The oldest frame in flight reaches the receiving interface.             *)
Deliver == wire # << >> /\ DeliverAt(1)

(* A younger frame overtakes the oldest one in flight.                     *)
Overtake == \E k \in 2..Len(wire) : DeliverAt(k)

(* The network loses the oldest frame in flight.                           *)
Drop ==
    /\ wire # << >>
    /\ dropped' = dropped \cup {Head(wire).seq}
    /\ wire' = Tail(wire)
    /\ UNCHANGED <<now, tx_timer_fired, g_init_phase, g_traffic, session_ready,
                   session_active, reset, stop, buf, flow_seq, packets_tx,
                   send_window_packets, send_window_start, wait, wait_start,
                   ring_free, tx_epoch, first_sendable, rx_vars, overtaken,
                   rx_max>>

(* bbl_stream_reset: both halves in one step; frames already in flight     *)
(* stay in flight.                                                         *)
FlowReset ==
    /\ ResetTx /\ ResetRx
    /\ rx_max' = 0
    /\ UNCHANGED <<now, tx_timer_fired, g_init_phase, g_traffic, session_ready,
                   session_active, buf, packets_tx,
                   send_window_packets, send_window_start, wait, wait_start,
                   ring_free, wire, tx_epoch, first_sendable,
                   wrong_session, dropped, overtaken>>

FlowInit == TxInit /\ RxInit /\ dropped = {} /\ overtaken = FALSE /\ rx_max = 0

(* A run of a stream that is never reset.                                  *)
FlowNextNoReset == FlowTx \/ Deliver \/ Overtake \/ Drop

FlowNext == FlowNextNoReset \/ FlowReset

FlowSpec == FlowInit /\ [][FlowNext]_flow_vars

-----------------------------------------------------------------------------
FlowTypeOK(maxSeq) ==
    /\ TxTypeOK /\ RxTypeOK(maxSeq)
    /\ dropped \subseteq 1..maxSeq
    /\ overtaken \in BOOLEAN /\ rx_max \in 0..maxSeq

(* Spec 8.2, bbl_stream_rx: received + loss = last_seq - first_seq + 1,    *)
(* counted since the last bbl_stream_reset (the reset_* snapshots), as    *)
(* long as the network keeps the frames in order.                         *)
LossEquation ==
    rx_first_seq # 0 /\ ~overtaken =>
        (packets_rx - reset_packets_rx) + (loss - reset_loss)
            = rx_last_seq - rx_first_seq + 1

(* Spec scenario S3, bbl_stream_rx with bbl_stream_tx_job: the loss        *)
(* counter is exactly the number of frames the network lost between the    *)
(* first and the last received sequence: no phantom loss from ring         *)
(* back-pressure, io_send failures, timer lateness or stops, and none      *)
(* missed, as long as the network keeps the frames in order.              *)
LossAccounts ==
    rx_first_seq # 0 /\ ~overtaken =>
        loss = Cardinality({s \in dropped : rx_first_seq < s /\ s < rx_last_seq})

(* Spec section 5 and S3, bbl_stream_rx: with frames reordered, the loss  *)
(* counter may count too much (a late frame moves rx_last_seq backwards   *)
(* and the gap behind it is counted again) but never too little: every    *)
(* sequence between the first and the highest received that was lost or   *)
(* is still in flight has been counted as loss.                           *)
LossNeverUndercounts ==
    rx_first_seq # 0 =>
        loss >= Cardinality({s \in dropped \cup InFlight :
                                rx_first_seq < s /\ s < rx_max})

====
