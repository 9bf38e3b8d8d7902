----------------------------- MODULE NetworkIfAdd -----------------------------
(***************************************************************************)
(* The creation of the network interfaces at startup:                      *)
(* bbl_network_interfaces_add in src/code/bngblaster/src/bbl_network.c,    *)
(* one step per network configuration of the walk, with its early returns, *)
(* and the two lookups on the result, bbl_network_interfaces_duplicate and *)
(* bbl_network_interface_get.  A physical interface keeps its network     *)
(* interfaces in interface->network, a list to which a new one is linked   *)
(* at the head; the global network_interface_qhead gets it at the tail.    *)
(*                                                                         *)
(* A MAC is a pair <<b0, rest>>: whether its first byte is non-zero and a  *)
(* value standing for its bytes 1..5 (0 = all zero).  The "is a MAC        *)
(* configured" test of line 101 reads eight bytes at network_config->mac: *)
(* bytes 1..6 are under the mask, byte 6 lying past the six-byte array.    *)
(* That byte belongs to whatever follows the array in bbl_network_config_s *)
(* (its header is not under src/), so its value is a nondeterministic     *)
(* choice.  bbl_tcp_network_interface_init and isis_adjacency_init are not *)
(* under src/: each may succeed or fail.                                   *)
(***************************************************************************)
EXTENDS Naturals, Sequences, FiniteSets

CONSTANTS
    Ports,        \* the physical interfaces bbl_interface_get knows
    AccessPorts,  \* those with interface->access set
    PortMac,      \* port -> interface->mac
    NetConfigs,   \* the network configurations a list may hold
    IsisIds,      \* the ids of the configured IS-IS instances
    MaxNetIfs     \* network configurations in the list (model bound)

NoPort == "none"     \* an interface name bbl_interface_get does not find
ZeroMac == <<0, 0>>

ASSUME AccessPorts \subseteq Ports /\ NoPort \notin Ports
ASSUME \A c \in NetConfigs : c.port \in Ports \cup {NoPort}

VARIABLES
    network,    \* port -> interface->network, head first
    qhead,      \* g_ctx->network_interface_qhead, in insertion order
    walked,     \* network configurations taken by the walk so far
    add_result  \* "running", then the return value: "ok" or "failed"

netadd_vars == <<network, qhead, walked, add_result>>

(* A network interface: its configuration, its name (the port and VLAN     *)
(* snprintf writes into ifname), its MAC, the send requests and the IS-IS  *)
(* and rate-job set-up it reached.                                         *)
Name(c) == <<c.port, c.vlan>>

(* The test of line 101, the eight bytes at mac as a uint64_t masked with  *)
(* 0xffffffffffff00: non-zero when one of bytes 1..6 is.                 *)
MacConfigured(m, b6) == m[2] # 0 \/ b6 # 0

(* The duplicate check looking at the head of the list only (mutant).     *)
DuplicateHeadOnly(p, vlan) == network[p] # << >> /\ network[p][1].vlan = vlan

(* bbl_network_interfaces_duplicate: a network interface on the port       *)
(* already has the VLAN.                                                   *)
Duplicate(p, vlan) == \E k \in DOMAIN network[p] : network[p][k].vlan = vlan

(* bbl_network_interface_get: the ports in interface_qhead order and, on   *)
(* each, its list from the head; the first whose name matches, or the      *)
(* first of all when no name is given.  NoNetIf when none.                 *)
NoNetIf == [port |-> NoPort, vlan |-> 0]
NetIfGet(order, name, none) ==
    LET found == [i \in 1..Len(order) |->
                    SelectSeq(network[order[i]],
                              LAMBDA ni : name = none \/ Name(ni) = name)]
        hits == SelectSeq(found, LAMBDA s : s # << >>)
    IN  IF hits = << >> THEN NoNetIf ELSE hits[1][1]

(* One pass of the loop for configuration c.  The interface must exist,    *)
(* an access interface takes no untagged network interface, and the VLAN   *)
(* must be new on the port; the new network interface is then linked at    *)
(* the head of the port's list and the tail of the global queue, takes     *)
(* the configured MAC if the test of line 101 says one is configured, and  *)
(* requests an ARP request / a NS when IPv4 / IPv6 are configured.  TCP    *)
(* init and the IS-IS instance lookup and adjacency init may then fail,    *)
(* leaving it linked; on success the rate job is added.                    *)
AddNetIf(c, b6, tcp_ok, isis_ok) ==
    LET ni == [port |-> c.port, vlan |-> c.vlan, cfg_mac |-> c.mac,
               mac |-> IF MacConfigured(c.mac, b6) THEN c.mac
                       ELSE PortMac[c.port],
               arp |-> c.ipv4, ns |-> c.ipv6,
               isis |-> tcp_ok /\ c.isis \in IsisIds /\ isis_ok,
               rate_job |-> tcp_ok /\ (c.isis # 0 => c.isis \in IsisIds /\ isis_ok)]
        early == \/ c.port = NoPort
                 \/ c.port \in AccessPorts /\ c.vlan = 0
                 \/ Duplicate(c.port, c.vlan)
    IN  /\ add_result = "running" /\ walked < MaxNetIfs
        /\ walked' = walked + 1
        /\ IF early
           THEN /\ add_result' = "failed"
                /\ UNCHANGED <<network, qhead>>
           ELSE /\ network' = [network EXCEPT ![c.port] = <<ni>> \o @]
                /\ qhead' = Append(qhead, ni)
                /\ add_result' = IF ni.rate_job THEN "running" ELSE "failed"

(* The walk: the next configuration, or the end of the list.              *)
NetAddStep ==
    \E c \in NetConfigs, b6 \in {0, 1}, tcp_ok, isis_ok \in BOOLEAN :
        AddNetIf(c, b6, tcp_ok, isis_ok)

NetAddDone ==
    /\ add_result = "running"
    /\ add_result' = "ok"
    /\ UNCHANGED <<network, qhead, walked>>

NetAddInit ==
    /\ network = [p \in Ports |-> << >>]
    /\ qhead = << >>
    /\ walked = 0
    /\ add_result = "running"

-----------------------------------------------------------------------------
NetIfs == {qhead[k] : k \in DOMAIN qhead}

NetAddTypeOK ==
    /\ network \in [Ports -> Seq(NetIfs)]
    /\ walked \in 0..MaxNetIfs /\ Len(qhead) <= walked
    /\ add_result \in {"running", "ok", "failed"}

(* Spec 2 (NetworkInterface invariants): no two network interfaces of a    *)
(* port share a VLAN, and an access port has no untagged one               *)
(* (bbl_network_interfaces_add with bbl_network_interfaces_duplicate),     *)
(* whatever order the configurations come in.                              *)
NetIfUnique ==
    /\ \A i, j \in DOMAIN qhead :
          i # j => Name(qhead[i]) # Name(qhead[j])
    /\ \A ni \in NetIfs : ni.port \in AccessPorts => ni.vlan # 0

(* Spec 2 (NetworkInterface lifecycle): a network interface's MAC is its   *)
(* configured MAC, and the port's MAC when none is configured (the test    *)
(* of bbl_network_interfaces_add, line 101).                               *)
MacDefaulted ==
    \A ni \in NetIfs :
        ni.mac = IF ni.cfg_mac # ZeroMac THEN ni.cfg_mac ELSE PortMac[ni.port]

====
