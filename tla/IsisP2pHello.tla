---------------------------- MODULE IsisP2pHello ----------------------------
(***************************************************************************)
(* The IS-IS point-to-point hello of one interface, from                   *)
(* src/code/bngblaster/src/isis/isis_p2p_hello.c: the hello timer, the     *)
(* hello encoder with its hold counter (adjacency->timeout), and the       *)
(* receive handler with the three-way adjacency state (RFC 5303 TLV 240).  *)
(* The level adjacencies of the interface (interface->isis_adjacency[i],  *)
(* NULL for a level not configured) are a set, levels_up, that            *)
(* isis_adjacency_up and isis_adjacency_down (isis_adjacency.c, not under  *)
(* src/) enter and leave, one level at a time.  The peer is                *)
(* the environment: it sends hellos with any adjacency-state TLV, or none, *)
(* and may fall silent for good.                                           *)
(***************************************************************************)
EXTENDS Naturals

CONSTANTS
    Levels,        \* the IS-IS levels, 1..ISIS_LEVELS
    LevelConfigs,  \* the sets of levels an interface may have adjacencies on
    PeerTlvs,      \* TLV 240 states a peer hello may carry ("none": no TLV)
    EncodeResults  \* whether encode_ethernet succeeds for the hello frame

ASSUME PeerTlvs \subseteq {"up", "init", "down", "none", "other"}
ASSUME \A c \in LevelConfigs : c \subseteq Levels
ASSUME EncodeResults \subseteq BOOLEAN /\ EncodeResults # {}

(* The code takes the adjacency down once more than 3 hellos went out      *)
(* without one coming back (line 42).                                      *)
HoldHellos == 3

(* adjacency->timeout above HoldHellos behaves like HoldHellos + 1 for     *)
(* every test the code makes, so the model saturates it there.             *)
TimeoutCap == HoldHellos + 1

States == {"up", "init", "down"}

VARIABLES
    state,        \* adjacency->state
    timeout,      \* adjacency->timeout: hellos sent since one was received
    levels,       \* levels i with interface->isis_adjacency[i] # NULL
    levels_up,    \* levels whose adjacency is up
    send_req,     \* BBL_IF_SEND_ISIS_P2P_HELLO in interface->send_requests
    timer_armed,  \* interface->timer_isis_hello is pending
    silent,       \* the peer sends no more hellos
    encode_ok     \* encode_ethernet succeeds for this interface's hello

isis_vars == <<state, timeout, levels, levels_up, send_req, timer_armed, silent,
               encode_ok>>

(* isis_hello_timeout: the timer asks the interface TX for a hello.        *)
HelloTimeout ==
    /\ timer_armed
    /\ timer_armed' = FALSE
    /\ send_req' = TRUE
    /\ UNCHANGED <<state, timeout, levels, levels_up, silent, encode_ok>>

(* The hold test at the start of isis_p2p_hello_encode.                   *)
Expired == timeout > HoldHellos /\ state # "down"

HelloEncodeKeepLevels ==
    /\ send_req
    /\ send_req' = FALSE
    /\ state' = IF Expired THEN "down" ELSE state
    /\ timer_armed' = TRUE
    /\ timeout' = IF encode_ok /\ timeout < TimeoutCap THEN timeout + 1
                                                      ELSE timeout
    /\ UNCHANGED <<levels, levels_up, silent, encode_ok>>

HelloEncodeNoRearm ==
    /\ send_req
    /\ send_req' = FALSE
    /\ state' = IF Expired THEN "down" ELSE state
    /\ levels_up' = IF Expired THEN {} ELSE levels_up
    /\ timeout' = IF encode_ok /\ timeout < TimeoutCap THEN timeout + 1
                                                      ELSE timeout
    /\ UNCHANGED <<levels, timer_armed, silent, encode_ok>>

(* The interface TX takes the send request and calls                      *)
(* isis_p2p_hello_encode: on expiry the adjacency and its levels go down; *)
(* the timer is re-armed; a hello that encodes counts in timeout.         *)
HelloEncode ==
    /\ send_req
    /\ send_req' = FALSE
    /\ state' = IF Expired THEN "down" ELSE state
    /\ levels_up' = IF Expired THEN {} ELSE levels_up
    /\ timer_armed' = TRUE
    /\ timeout' = IF encode_ok /\ timeout < TimeoutCap THEN timeout + 1
                                                      ELSE timeout
    /\ UNCHANGED <<levels, silent, encode_ok>>

(* The three-way state the handler moves to for the peer's TLV 240: UP or  *)
(* INIT from the peer means we are UP, DOWN means INIT, and no TLV or an   *)
(* unknown value leaves the initial new_state, UP.                         *)
NewState(tlv) == IF tlv = "down" THEN "init" ELSE "up"

(* isis_adjacency_up runs for every level when the state changes to UP.    *)
LevelsRaised(new) == state # new /\ new = "up"

HelloRxAllLevels ==
    /\ ~silent
    /\ \E tlv \in PeerTlvs :
          LET new == NewState(tlv) IN
          /\ timeout' = 0
          /\ levels_up' = IF LevelsRaised(new) THEN Levels ELSE levels_up
          /\ state' = new
    /\ UNCHANGED <<levels, send_req, timer_armed, silent, encode_ok>>

(* isis_p2p_hello_handler_rx: a hello from the peer (the authentication    *)
(* result is only logged) resets the hold counter and sets the state.      *)
HelloRx ==
    /\ ~silent
    /\ \E tlv \in PeerTlvs :
          LET new == NewState(tlv) IN
          /\ timeout' = 0
          /\ levels_up' = IF LevelsRaised(new) THEN levels ELSE levels_up
          /\ state' = new
    /\ UNCHANGED <<levels, send_req, timer_armed, silent, encode_ok>>

(* The peer stops sending hellos (link loss, peer restart).                *)
PeerStops ==
    /\ ~silent
    /\ silent' = TRUE
    /\ UNCHANGED <<state, timeout, levels, levels_up, send_req, timer_armed,
                   encode_ok>>

(* The adjacency starts DOWN with the first hello requested.              *)
IsisInit ==
    /\ state = "down"
    /\ timeout = 0
    /\ levels \in LevelConfigs
    /\ levels_up = {}
    /\ send_req = TRUE
    /\ timer_armed = FALSE
    /\ silent = FALSE
    /\ encode_ok \in EncodeResults

IsisNext == HelloTimeout \/ HelloEncode \/ HelloRx \/ PeerStops

(* The timer wheel fires a pending timer and the TX job serves a send      *)
(* request whenever the main loop runs; the peer gets no fairness.         *)
IsisSpec == IsisInit /\ [][IsisNext]_isis_vars
            /\ WF_isis_vars(HelloTimeout) /\ WF_isis_vars(HelloEncode)

-----------------------------------------------------------------------------
IsisTypeOK ==
    /\ state \in States
    /\ timeout \in 0..TimeoutCap
    /\ levels \subseteq Levels /\ levels_up \subseteq levels
    /\ {send_req, timer_armed, silent, encode_ok} \subseteq BOOLEAN

(* The level adjacencies follow the three-way state: UP has them up        *)
(* (handler_rx raises them on every change to UP) and DOWN has them down   *)
(* (the expiry in hello_encode lowers them with the state).               *)
LevelsTrackState ==
    /\ state = "up" => levels_up = levels
    /\ state = "down" => levels_up = {}

(* A peer that stops sending hellos is eventually declared DOWN, provided  *)
(* our own hellos encode: the hold counter only counts hellos sent         *)
(* (isis_hello_timeout, isis_p2p_hello_encode).                           *)
SilentPeerGoesDown == (silent /\ encode_ok) ~> (state = "down")

====
