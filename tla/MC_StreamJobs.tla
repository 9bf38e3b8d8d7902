----------------------------- MODULE MC_StreamJobs -----------------------------
EXTENDS StreamJobs

CONSTANTS a1, a2, n1, n2, n3, acc, net

(* The access interface has two TX threads, the network interface three.  *)
MC_IfThreads == [i \in {acc, net} |-> IF i = acc THEN <<a1, a2>>
                                                 ELSE <<n1, n2, n3>>]

(* 0.5, 1.5 and 2 packets per second.                                      *)
MC_PpsValues == {1, 3, 4}

====
