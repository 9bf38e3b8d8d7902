------------------------------ MODULE StreamRx ------------------------------
(***************************************************************************)
(* The receive-side matcher of one stream, bbl_stream_rx in                *)
(* src/code/bngblaster/src/bbl_stream.c, and the RX half of                *)
(* bbl_stream_reset.  A received test packet is already decoded and its    *)
(* flow_id found in the flow dictionary; what the matcher sees of it is    *)
(* the embedded flow_seq, the MPLS labels it arrived with (NoLabel when    *)
(* the stack is shorter), whether its sub_type and direction equal the     *)
(* stream's, and whether its outer/inner VLAN and session id equal those   *)
(* of the session it was received on.                                      *)
(***************************************************************************)
EXTENDS Naturals

CONSTANTS
    Labels,          \* MPLS labels the network may deliver
    NoLabel,         \* no label at this depth of the received stack
    RxMpls1Label,    \* config->rx_mpls1_label, NoLabel = not configured
    RxMpls2Label,    \* config->rx_mpls2_label, NoLabel = not configured
    SessionTraffic   \* session != NULL && stream->session_traffic

ASSUME /\ NoLabel \notin Labels
       /\ RxMpls1Label \in Labels \cup {NoLabel}
       /\ RxMpls2Label \in Labels \cup {NoLabel}
       /\ SessionTraffic \in BOOLEAN

VARIABLES
    rx_first_seq,      \* stream->rx_first_seq, 0 = not yet accepted
    rx_last_seq,       \* stream->rx_last_seq
    packets_rx,        \* stream->packets_rx
    loss,              \* stream->loss
    wrong_session,     \* stream->wrong_session
    rx_mpls1,          \* stream->rx_mpls1
    rx_mpls1_label,    \* stream->rx_mpls1_label
    rx_mpls2,          \* stream->rx_mpls2
    rx_mpls2_label,    \* stream->rx_mpls2_label
    reset_packets_rx,  \* stream->reset_packets_rx
    reset_loss,        \* stream->reset_loss
    rx_first_pkt       \* history: the packet that set rx_first_seq

rx_vars == <<rx_first_seq, rx_last_seq, packets_rx, loss, wrong_session,
             rx_mpls1, rx_mpls1_label, rx_mpls2, rx_mpls2_label,
             reset_packets_rx, reset_loss, rx_first_pkt>>

RxPacket(maxSeq) ==
    {p \in [seq : 1..maxSeq, label1 : Labels \cup {NoLabel},
            label2 : Labels \cup {NoLabel}, kind_ok : BOOLEAN,
            session_ok : BOOLEAN] : p.label1 = NoLabel => p.label2 = NoLabel}

NoPacket == [seq |-> 0, label1 |-> NoLabel, label2 |-> NoLabel,
             kind_ok |-> FALSE, session_ok |-> FALSE]

-----------------------------------------------------------------------------
(* The MPLS fields after the verify path copied the received stack: a      *)
(* packet without labels leaves the fields of an earlier packet in place.  *)
Mpls1After(p) == IF p.label1 # NoLabel THEN p.label1 ELSE rx_mpls1_label
Mpls2After(p) == IF p.label1 # NoLabel /\ p.label2 # NoLabel
                 THEN p.label2 ELSE rx_mpls2_label

(* The label checks without the outer label comparison (mutant).          *)
LabelsMatchInnerOnly(p) ==
    RxMpls1Label # NoLabel =>
        (RxMpls2Label # NoLabel => Mpls2After(p) = RxMpls2Label)

(* The expectation checks of the verify path, in the code's order.         *)
LabelsMatch(p) ==
    RxMpls1Label # NoLabel =>
        /\ Mpls1After(p) = RxMpls1Label
        /\ RxMpls2Label # NoLabel => Mpls2After(p) = RxMpls2Label

SessionMatch(p) == SessionTraffic => p.session_ok

(* Loss accounting without the forward-gap guard (mutant).                 *)
LossOfUnguarded(p) == p.seq - (rx_last_seq + 1)

(* Loss accounting counting the gap one too high (mutant).                *)
LossOfOffByOne(p) == IF rx_last_seq < p.seq THEN p.seq - rx_last_seq ELSE 0

(* Loss accounting of an already verified flow: only a forward gap counts. *)
LossOf(p) == IF rx_last_seq + 1 < p.seq THEN p.seq - (rx_last_seq + 1) ELSE 0

(***************************************************************************)
(* bbl_stream_rx.  A verified flow counts the forward gap as loss and      *)
(* accepts the packet.  Otherwise the received length, priority and MPLS   *)
(* stack are stored first, then the label, type/direction and session      *)
(* checks may reject the packet (only the session check is counted, as     *)
(* wrong_session); a packet passing them becomes the first sequence.       *)
(***************************************************************************)
StreamRxVerified(p) ==
    /\ rx_first_seq # 0
    /\ loss' = loss + LossOf(p)
    /\ packets_rx' = packets_rx + 1
    /\ rx_last_seq' = p.seq
    /\ UNCHANGED <<rx_first_seq, wrong_session, rx_mpls1, rx_mpls1_label,
                   rx_mpls2, rx_mpls2_label, reset_packets_rx, reset_loss,
                   rx_first_pkt>>

StreamRxVerify(p) ==
    /\ rx_first_seq = 0
    /\ rx_mpls1' = (rx_mpls1 \/ p.label1 # NoLabel)
    /\ rx_mpls1_label' = Mpls1After(p)
    /\ rx_mpls2' = (rx_mpls2 \/ (p.label1 # NoLabel /\ p.label2 # NoLabel))
    /\ rx_mpls2_label' = Mpls2After(p)
    /\ \/ /\ ~(LabelsMatch(p) /\ p.kind_ok)
          /\ UNCHANGED <<rx_first_seq, rx_last_seq, packets_rx, wrong_session,
                         rx_first_pkt>>
       \/ /\ LabelsMatch(p) /\ p.kind_ok /\ ~SessionMatch(p)
          /\ wrong_session' = wrong_session + 1
          /\ UNCHANGED <<rx_first_seq, rx_last_seq, packets_rx, rx_first_pkt>>
       \/ /\ LabelsMatch(p) /\ p.kind_ok /\ SessionMatch(p)
          /\ rx_first_seq' = p.seq
          /\ rx_first_pkt' = p
          /\ packets_rx' = packets_rx + 1
          /\ rx_last_seq' = p.seq
          /\ UNCHANGED wrong_session
    /\ UNCHANGED <<loss, reset_packets_rx, reset_loss>>

StreamRx(p) == StreamRxVerified(p) \/ StreamRxVerify(p)

(* The RX half of bbl_stream_reset: snapshot the counters, clear the       *)
(* first/last sequence and the observed MPLS stack.                        *)
ResetRx ==
    /\ reset_packets_rx' = packets_rx
    /\ reset_loss' = loss
    /\ rx_first_seq' = 0 /\ rx_last_seq' = 0
    /\ rx_mpls1' = FALSE /\ rx_mpls1_label' = NoLabel
    /\ rx_mpls2' = FALSE /\ rx_mpls2_label' = NoLabel
    /\ rx_first_pkt' = NoPacket
    /\ UNCHANGED <<packets_rx, loss, wrong_session>>

RxInit ==
    /\ rx_first_seq = 0 /\ rx_last_seq = 0
    /\ packets_rx = 0 /\ loss = 0 /\ wrong_session = 0
    /\ rx_mpls1 = FALSE /\ rx_mpls1_label = NoLabel
    /\ rx_mpls2 = FALSE /\ rx_mpls2_label = NoLabel
    /\ reset_packets_rx = 0 /\ reset_loss = 0
    /\ rx_first_pkt = NoPacket

RxTypeOK(maxSeq) ==
    /\ {rx_first_seq, rx_last_seq} \subseteq 0..maxSeq
    /\ {packets_rx, loss, wrong_session, reset_packets_rx, reset_loss} \subseteq Nat
    /\ {rx_mpls1, rx_mpls2} \subseteq BOOLEAN
    /\ {rx_mpls1_label, rx_mpls2_label} \subseteq Labels \cup {NoLabel}
    /\ rx_first_pkt \in RxPacket(maxSeq) \cup {NoPacket}

-----------------------------------------------------------------------------
(* Spec S5: a stream expecting rx_mpls1_label is never verified by a      *)
(* packet whose outer label is a different one, whatever packets with     *)
(* wrong labels, types or sessions arrived before it (bbl_stream_rx).     *)
NoVerifyByWrongLabel ==
    rx_first_seq # 0 /\ RxMpls1Label # NoLabel =>
        rx_first_pkt.label1 \in {RxMpls1Label, NoLabel}

(* Spec 4.F and S5: a stream expecting rx_mpls1_label becomes verified    *)
(* only through a packet that arrived with that outer label.               *)
VerifiedByExpectedLabel ==
    rx_first_seq # 0 /\ RxMpls1Label # NoLabel =>
        rx_first_pkt.label1 = RxMpls1Label

====
