----------------------------- MODULE MC_StreamTx -----------------------------
(* Model-checking instance of StreamTxThread: a session stream at 1 pps    *)
(* with a one-second start delay, max_packets 4, io_stream_max_ppi 2 and a *)
(* two-slot TX ring, over 6 timer periods of two clock units each (so a    *)
(* job may run early or late in its period), sent from the main loop or    *)
(* from a TX thread.                                                       *)
EXTENDS StreamTxThread

MC_PPS == 1
MC_TicksPerSec == 2
MC_Period == 2
MC_StartDelay == 1
MC_MaxPackets == 4
MC_MaxPpi == 2
MC_RingSize == 2
MC_MaxTime == 12
====
