----------------------------- MODULE MC_IoMmapTx -----------------------------
(* Model-checking instance of IoMmapTx: a 3-frame TX ring, io_burst 2, up  *)
(* to 2 control packets and 3 stream packets.                              *)
EXTENDS IoMmapTx

MC_FrameNr == 3
MC_IoBurst == 2
MC_MaxCtrl == 2
MC_MaxStream == 3
====
