---------------------------- MODULE MC_StreamCtrl ----------------------------
(* Model-checking instance of StreamCtrl: two raw downstream streams, each *)
(* counter bounded by 2, resets allowed, traffic_stop_verified either way.*)
EXTENDS StreamCtrl

CONSTANTS s1, s2

MC_Streams == {s1, s2}
MC_MaxCount == 2
====
