---------------------------- MODULE MC_StreamFlow ----------------------------
(* Model-checking instance of StreamFlow: a raw stream at 1 pps without    *)
(* start delay, max_packets 6, io_stream_max_ppi 2 and a two-slot TX ring, *)
(* over 5 timer periods, received expecting outer label L1 of {L1, L2}.   *)
EXTENDS StreamFlow

CONSTANTS NL, L1, L2

MC_PPS == 1
MC_TicksPerSec == 1
MC_Period == 1
MC_MaxPackets == 6
MC_MaxPpi == 2
MC_RingSize == 2
MC_MaxTime == 5
MaxSeq == 7

MC_FlowTypeOK == FlowTypeOK(MaxSeq)

MC_FlowSpecNoReset == FlowInit /\ [][FlowNextNoReset]_flow_vars
====
