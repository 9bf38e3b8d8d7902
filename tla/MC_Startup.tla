------------------------------ MODULE MC_Startup ------------------------------
(* Startup with an access port of two TX threads and a network port of    *)
(* three, up to three network configurations: untagged or VLAN 1 or 2 on   *)
(* either port, with or without a configured MAC (only its first byte, or  *)
(* its others, non-zero), with IS-IS instance 1 (configured) or 2 (not),   *)
(* or naming an unknown port; then up to four streams at 0.5, 1.5 or 2 pps. *)
EXTENDS Startup

CONSTANTS a1, a2, n1, n2, n3, acc, net

MC_IfThreads == [i \in {acc, net} |-> IF i = acc THEN <<a1, a2>>
                                                 ELSE <<n1, n2, n3>>]
MC_PpsValues == {1, 3, 4}
MC_PortMac == [i \in {acc, net} |-> IF i = acc THEN <<0, 3>> ELSE <<0, 4>>]
MC_PortOrder == <<acc, net>>

Cfg(p, v, m, i) ==
    [port |-> p, vlan |-> v, mac |-> m, ipv4 |-> TRUE, ipv6 |-> TRUE, isis |-> i]

MC_NetConfigs ==
    {Cfg(p, v, <<0, 0>>, 0) : p \in {acc, net}, v \in {0, 1, 2}}
    \cup {Cfg(net, 1, m, 0) : m \in {<<1, 0>>, <<0, 1>>}}
    \cup {Cfg(net, 2, <<0, 0>>, i) : i \in {1, 2}}
    \cup {Cfg("none", 1, <<0, 0>>, 0)}

StartupTypeOK == NetAdd!NetAddTypeOK /\ Jobs!JobsTypeOK
MC_NetIfUnique == NetAdd!NetIfUnique
MC_ReservedBalanced == Jobs!ReservedBalanced
MC_MacDefaulted == NetAdd!MacDefaulted
====
