------------------------------- MODULE NetIsis -------------------------------
(***************************************************************************)
(* One network interface with an IS-IS P2P adjacency: NetworkIf and        *)
(* IsisP2pHello composed at the point where they meet.  The ISIS case of   *)
(* bbl_network_rx_handler calls isis_handler_rx (isis.c, not under src/),  *)
(* which hands a P2P hello PDU to isis_p2p_hello_handler_rx; an IS-IS      *)
(* frame arriving on the interface is therefore one step of both modules.  *)
(* Every other frame, the TXQ drain and the hello timer and encoder are    *)
(* steps of one module that leave the other alone.  While the peer is      *)
(* silent no IS-IS frame arrives.                                          *)
(***************************************************************************)
EXTENDS Naturals, Sequences

CONSTANTS Macs, ConfigGatewayMac, TxqSize, MaxRx,
          Levels, LevelConfigs, PeerTlvs, EncodeResults

VARIABLES
    gateway_mac, arp_resolved, nd_resolved, txq, unknown, icmp_rx, tcp_rx, rx,
    gw_macs, requests, replies_sent, replies_dropped,
    state, timeout, levels, levels_up, send_req, timer_armed, silent,
    encode_ok

Net == INSTANCE NetworkIf
Isis == INSTANCE IsisP2pHello

net_vars == <<gateway_mac, arp_resolved, nd_resolved, txq, unknown, icmp_rx,
              tcp_rx, rx, gw_macs, requests, replies_sent, replies_dropped>>
isis_vars == <<state, timeout, levels, levels_up, send_req, timer_armed, silent,
               encode_ok>>
vars == <<net_vars, isis_vars>>

IsisFrame(f) == f.eth = "isis"

(* A frame other than IS-IS: the network handlers only.                   *)
RxOther ==
    /\ \E f \in Net!Frames : ~IsisFrame(f) /\ Net!NetRxFrame(f)
    /\ UNCHANGED isis_vars

(* An IS-IS hello: demuxed by bbl_network_rx_handler and handled by        *)
(* isis_p2p_hello_handler_rx in the same call.                             *)
RxHello ==
    /\ \E f \in Net!Frames : IsisFrame(f) /\ Net!NetRxFrame(f)
    /\ Isis!HelloRx

NetIsisInit == Net!NetInit /\ Isis!IsisInit

NetIsisNext ==
    \/ RxOther
    \/ RxHello
    \/ Net!TxqDrain /\ UNCHANGED isis_vars
    \/ Isis!HelloTimeout /\ UNCHANGED net_vars
    \/ Isis!HelloEncode /\ UNCHANGED net_vars
    \/ Isis!PeerStops /\ UNCHANGED net_vars

(* The hello timer and the interface TX run whenever the main loop runs.   *)
NetIsisSpec ==
    /\ NetIsisInit /\ [][NetIsisNext]_vars
    /\ WF_vars(Isis!HelloTimeout /\ UNCHANGED net_vars)
    /\ WF_vars(Isis!HelloEncode /\ UNCHANGED net_vars)

====
