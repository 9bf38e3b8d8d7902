------------------------------ MODULE NetworkIf ------------------------------
(***************************************************************************)
(* The control plane of one network interface: bbl_network_rx_handler and  *)
(* the ARP / ICMP / ICMPv6 handlers in src/code/bngblaster/src/           *)
(* bbl_network.c.  A received frame is a record of the fields the         *)
(* handlers test; a MAC address is a pair <<hi, lo>> of its first four and *)
(* its last two bytes, since the code tests "unset" on the first four      *)
(* bytes only.  A reply is built in place and put into the interface TXQ   *)
(* (bbl_txq_to_buffer, bbl_txq.c, not under src/: a bounded FIFO whose     *)
(* full result the handlers ignore); the IO TX job drains the TXQ.         *)
(* Hand-offs to the L2TP, QMX-LI, TCP and IS-IS engines keep no state     *)
(* here.                                                                   *)
(***************************************************************************)
EXTENDS Naturals, Sequences

CONSTANTS
    Macs,              \* MAC addresses frames may carry, as <<hi, lo>>
    ConfigGatewayMac,  \* network_config->gateway_mac (zero if not set)
    TxqSize,           \* capacity of the interface TXQ
    MaxRx              \* frames received in a behaviour (model bound)

(* The unset test of the handlers: the first four bytes are zero.         *)
MacUnset(m) == m[1] = 0

NoMac == <<0, 0>>

(* Frames as the handlers see them.  sip: the ARP sender IP / IPv6 source  *)
(* is the configured gateway ("gw") or not; tip: the ARP target IP / NS    *)
(* target is our address, our link-local, a configured secondary, or       *)
(* other; to_us: the Ethernet destination is our MAC.                      *)
ArpFrames ==
    [eth : {"arp"}, smac : Macs, code : {"request", "reply"},
     sip : {"gw", "host"}, tip : {"me", "sec", "other"},
     proto : {"-"}, icmp : {"-"}, to_us : {TRUE}]
Icmp6Frames ==
    [eth : {"ipv6"}, smac : Macs, code : {"-"}, sip : {"gw", "host"},
     tip : {"me", "ll", "sec", "other"}, proto : {"icmpv6"},
     icmp : {"ns", "echo", "other"}, to_us : {TRUE}]
Ipv4Frames ==
    [eth : {"ipv4"}, smac : Macs, code : {"-"}, sip : {"host"}, tip : {"me"},
     proto : {"udp_li", "udp_l2tp", "udp", "icmp_echo", "icmp", "tcp", "other"},
     icmp : {"-"}, to_us : BOOLEAN]
OtherFrames ==
    [eth : {"ipv6", "isis", "other"}, smac : Macs, code : {"-"},
     sip : {"host"}, tip : {"other"}, proto : {"other"}, icmp : {"-"},
     to_us : {TRUE}]
Frames == ArpFrames \cup Icmp6Frames \cup Ipv4Frames \cup OtherFrames

Replies ==
    [kind : {"arp", "echo", "na", "echo6"}, dst : Macs, tmac : Macs \cup {NoMac}]

VARIABLES
    gateway_mac,      \* interface->gateway_mac
    arp_resolved,     \* interface->arp_resolved
    nd_resolved,      \* interface->icmpv6_nd_resolved
    txq,              \* interface->txq: replies waiting for the IO TX job
    unknown,          \* interface->interface->stats.unknown
    icmp_rx,          \* interface->stats.icmp_rx
    tcp_rx,           \* interface->stats.tcp_rx
    rx,               \* frames received so far
    gw_macs,          \* history: source MACs of frames from a gateway
    requests,         \* history: frames spec 4.G says to answer
    replies_sent,     \* history: replies put into the TXQ
    replies_dropped   \* history: replies lost to a full TXQ

net_vars == <<gateway_mac, arp_resolved, nd_resolved, txq, unknown, icmp_rx,
              tcp_rx, rx, gw_macs, requests, replies_sent, replies_dropped>>

-----------------------------------------------------------------------------
(* Queueing a reply without the capacity check (mutant).                   *)
EnqueueUnbounded(r) ==
    /\ txq' = Append(txq, r)
    /\ replies_sent' = replies_sent + 1
    /\ UNCHANGED replies_dropped

(* bbl_txq_to_buffer: the reply is queued, or lost if the TXQ is full.     *)
Enqueue(r) ==
    IF Len(txq) < TxqSize
    THEN /\ txq' = Append(txq, r)
         /\ replies_sent' = replies_sent + 1
         /\ UNCHANGED replies_dropped
    ELSE /\ replies_dropped' = replies_dropped + 1
         /\ UNCHANGED <<txq, replies_sent>>

NoReply == UNCHANGED <<txq, replies_sent, replies_dropped>>

(* bbl_network_update_eth: the reply goes back to the frame's source.      *)
(* bbl_network_arp_reply additionally sets the ARP target MAC.             *)
Reply(f, kind, tmac) == Enqueue([kind |-> kind, dst |-> f.smac, tmac |-> tmac])

(* Learning "if unset", applied to the stored MAC.                        *)
Learn(m) == IF MacUnset(gateway_mac) THEN m ELSE gateway_mac

(* The ARP handler learning from a frame whatever its sender IP (mutant).  *)
RxArpAnyGateway(f) ==
    /\ f.eth = "arp"
    /\ arp_resolved' = (arp_resolved \/ f.sip = "gw")
    /\ gateway_mac' = Learn(f.smac)
    /\ IF f.sip = "gw" /\ f.code = "request" /\ f.tip \in {"me", "sec"}
       THEN Reply(f, "arp", gateway_mac')
       ELSE NoReply
    /\ UNCHANGED <<nd_resolved, unknown, icmp_rx, tcp_rx>>

(* bbl_network_rx_arp: an ARP from the gateway resolves it and teaches an  *)
(* unset gateway MAC; a request from it for our address or a secondary is  *)
(* answered with the (just updated) gateway_mac as target MAC.            *)
RxArp(f) ==
    /\ f.eth = "arp"
    /\ IF f.sip = "gw"
       THEN /\ arp_resolved' = TRUE
            /\ gateway_mac' = Learn(f.smac)
            /\ IF f.code = "request" /\ f.tip \in {"me", "sec"}
               THEN Reply(f, "arp", gateway_mac')
               ELSE NoReply
       ELSE UNCHANGED <<arp_resolved, gateway_mac>> /\ NoReply
    /\ UNCHANGED <<nd_resolved, unknown, icmp_rx, tcp_rx>>

(* An NS handler without the link-local branch (mutant).                  *)
NsAnsweredNoLinkLocal(f) == f.tip \in {"me", "sec"}

(* The NS targets answered: global address, link-local, a secondary.       *)
NsAnswered(f) == f.tip \in {"me", "ll", "sec"}

(* bbl_network_rx_icmpv6: a frame from the IPv6 gateway resolves ND and    *)
(* teaches an unset gateway MAC (from the Ethernet source); an NS for one  *)
(* of our addresses gets an NA, any echo request an echo reply.            *)
RxIcmpv6(f) ==
    /\ f.eth = "ipv6" /\ f.proto = "icmpv6"
    /\ IF f.sip = "gw"
       THEN nd_resolved' = TRUE /\ gateway_mac' = Learn(f.smac)
       ELSE UNCHANGED <<nd_resolved, gateway_mac>>
    /\ CASE f.icmp = "ns" /\ NsAnswered(f) -> Reply(f, "na", NoMac)
         [] f.icmp = "echo"                -> Reply(f, "echo6", NoMac)
         [] OTHER                          -> NoReply
    /\ UNCHANGED <<arp_resolved, unknown, icmp_rx, tcp_rx>>

(* IPv4 to another MAC: dropped, not counted.                             *)
RxIpv4WrongMac(f) ==
    /\ f.eth = "ipv4" /\ ~f.to_us
    /\ NoReply
    /\ UNCHANGED <<gateway_mac, arp_resolved, nd_resolved, unknown, icmp_rx,
                   tcp_rx>>

(* IPv4 ICMP: counted; bbl_network_rx_icmp answers an echo request.        *)
RxIcmp(f) ==
    /\ f.eth = "ipv4" /\ f.to_us /\ f.proto \in {"icmp_echo", "icmp"}
    /\ icmp_rx' = icmp_rx + 1
    /\ IF f.proto = "icmp_echo" THEN Reply(f, "echo", NoMac) ELSE NoReply
    /\ UNCHANGED <<gateway_mac, arp_resolved, nd_resolved, unknown, tcp_rx>>

(* IPv4 TCP: counted and handed to bbl_tcp_ipv4_rx.                       *)
RxTcp(f) ==
    /\ f.eth = "ipv4" /\ f.to_us /\ f.proto = "tcp"
    /\ tcp_rx' = tcp_rx + 1
    /\ NoReply
    /\ UNCHANGED <<gateway_mac, arp_resolved, nd_resolved, unknown, icmp_rx>>

(* QMX-LI and L2TP over UDP, and IS-IS: handed to their engines.           *)
RxHandedOff(f) ==
    /\ \/ f.eth = "ipv4" /\ f.to_us /\ f.proto \in {"udp_li", "udp_l2tp"}
       \/ f.eth = "isis"
    /\ NoReply
    /\ UNCHANGED <<gateway_mac, arp_resolved, nd_resolved, unknown, icmp_rx,
                   tcp_rx>>

(* Everything else reaches the end of the switch: stats.unknown++.         *)
RxUnknown(f) ==
    /\ \/ f.eth = "ipv4" /\ f.to_us /\ f.proto \in {"udp", "other"}
       \/ f.eth = "ipv6" /\ f.proto # "icmpv6"
       \/ f.eth = "other"
    /\ unknown' = unknown + 1
    /\ NoReply
    /\ UNCHANGED <<gateway_mac, arp_resolved, nd_resolved, icmp_rx, tcp_rx>>

(* bbl_network_rx_handler: the switch on the ethertype and, for IPv4, on   *)
(* the destination MAC, protocol and UDP port.                             *)
NetRxHandler(f) ==
    \/ RxArp(f) \/ RxIcmpv6(f) \/ RxIpv4WrongMac(f) \/ RxIcmp(f) \/ RxTcp(f)
    \/ RxHandedOff(f) \/ RxUnknown(f)

(* Spec 4.G: the frames the interface answers.                            *)
SpecAnswers(f) ==
    \/ f.eth = "arp" /\ f.sip = "gw" /\ f.code = "request"
       /\ f.tip \in {"me", "sec"}
    \/ f.eth = "ipv4" /\ f.to_us /\ f.proto = "icmp_echo"
    \/ f.eth = "ipv6" /\ f.proto = "icmpv6"
       /\ \/ f.icmp = "echo"
          \/ f.icmp = "ns" /\ f.tip \in {"me", "ll", "sec"}

(* Frame f arrives on the interface.                                     *)
NetRxFrame(f) ==
    /\ rx < MaxRx
    /\ NetRxHandler(f)
    /\ gw_macs' = IF f.sip = "gw" THEN gw_macs \cup {f.smac} ELSE gw_macs
    /\ requests' = requests + (IF SpecAnswers(f) THEN 1 ELSE 0)
    /\ rx' = rx + 1

NetRx == \E f \in Frames : NetRxFrame(f)

(* The IO TX job takes the oldest reply (control traffic first).           *)
TxqDrain ==
    /\ txq # << >>
    /\ txq' = Tail(txq)
    /\ UNCHANGED <<gateway_mac, arp_resolved, nd_resolved, unknown, icmp_rx,
                   tcp_rx, rx, gw_macs, requests, replies_sent, replies_dropped>>

(* bbl_network_interfaces_add: the gateway MAC from the configuration.     *)
NetInit ==
    /\ gateway_mac = ConfigGatewayMac
    /\ arp_resolved = FALSE /\ nd_resolved = FALSE
    /\ txq = << >>
    /\ unknown = 0 /\ icmp_rx = 0 /\ tcp_rx = 0 /\ rx = 0
    /\ gw_macs = {} /\ requests = 0 /\ replies_sent = 0 /\ replies_dropped = 0

NetNext == NetRx \/ TxqDrain

NetSpec == NetInit /\ [][NetNext]_net_vars

-----------------------------------------------------------------------------
NetTypeOK ==
    /\ gateway_mac \in Macs \cup {ConfigGatewayMac}
    /\ arp_resolved \in BOOLEAN /\ nd_resolved \in BOOLEAN
    /\ txq \in Seq(Replies) /\ Len(txq) <= TxqSize
    /\ {unknown, icmp_rx, tcp_rx, requests, replies_sent, replies_dropped}
           \subseteq 0..MaxRx
    /\ rx \in 0..MaxRx /\ gw_macs \subseteq Macs

(* Spec 4.G: the gateway MAC is the configured one or was learned from an  *)
(* ARP or ICMPv6 frame the configured gateway sent, whatever hosts on the  *)
(* link sent before or after (bbl_network_rx_arp, bbl_network_rx_icmpv6).  *)
GatewayMacFromGateway == gateway_mac \in {ConfigGatewayMac} \cup gw_macs

(* Spec 4.G and 8.7: every ARP request, NS and echo request the interface  *)
(* must answer produces exactly one reply, or one reply lost to a full     *)
(* TXQ; nothing else produces a reply (bbl_network_rx_handler and the      *)
(* reply builders).                                                        *)
RequestsAnswered == requests = replies_sent + replies_dropped

====
