----------------------------- MODULE MC_StreamRx -----------------------------
(* The matcher of one session stream that expects outer label L1, fed by  *)
(* a network that delivers any test packet of this flow: any flow_seq up   *)
(* to MaxSeq, any label stack, right or wrong type and session, in any     *)
(* order, with stream resets in between.                                   *)
EXTENDS StreamRx

CONSTANTS L1, L2, NL

MaxSeq == 3
MaxRx == 3

RxEnvNext ==
    \/ \E p \in RxPacket(MaxSeq) : StreamRx(p)
    \/ ResetRx

RxEnvSpec == RxInit /\ [][RxEnvNext]_rx_vars

(* Bound: at most MaxRx packets matched or rejected as wrong session.     *)
RxBound == packets_rx + wrong_session <= MaxRx

MC_TypeOK == RxTypeOK(MaxSeq)
====
