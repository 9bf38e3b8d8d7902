---------------------------- MODULE MC_IoRxThread ----------------------------
EXTENDS IoRxThread

MC_FrameNr == 2
MC_TxqSize == 1
MC_MaxFrames == 3
MC_MaxCount == 2
====
