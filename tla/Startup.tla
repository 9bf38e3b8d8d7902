------------------------------- MODULE Startup -------------------------------
(***************************************************************************)
(* Startup of the traffic core: bbl_network_interfaces_add walks the       *)
(* network configurations (NetworkIfAdd), then the streams are created     *)
(* (StreamJobs).  A stream names the network interface it is sent from;    *)
(* bbl_stream_add and the RAW loop of bbl_stream_init look it up with      *)
(* bbl_network_interface_get before anything else and fail when it is not *)
(* found, and the downstream stream goes to the TX threads of the port     *)
(* the lookup returns.  A RAW stream that names no network interface gets  *)
(* the lookup's default.  The caller (not under src/) stops at the first   *)
(* step that returns false: the failed states have no successor.           *)
(***************************************************************************)
EXTENDS Naturals, Sequences

CONSTANTS
    Threads, Interfaces, IfThreads, AccessIf, Den, PpsValues, MaxStreams,
    PortMac, NetConfigs, IsisIds, MaxNetIfs,
    PortOrder   \* g_ctx->interface_qhead: the ports in the order they were added

VARIABLES
    network, qhead, walked, add_result,
    reserved, load, flows,
    init_result  \* "running", or "failed" once a stream could not be added

NetAdd == INSTANCE NetworkIfAdd WITH Ports <- Interfaces, AccessPorts <- {AccessIf}
Jobs == INSTANCE StreamJobs

netadd_vars == <<network, qhead, walked, add_result>>
jobs_vars == <<reserved, load, flows>>
vars == <<netadd_vars, jobs_vars, init_result>>

NoName == <<"null", 0>>   \* config->network_interface not set

(* The network interface names a stream configuration may give.            *)
StreamNames == {NetAdd!Name(c) : c \in NetConfigs} \cup {NoName}

(* A stream configuration: StreamJobs' rate and direction and the name of  *)
(* its network interface.  Only a RAW (downstream) stream may leave the    *)
(* name unset: a session stream without it takes the session's network     *)
(* interface, which the session code (not under src/) chooses.             *)
StreamConfigs ==
    {s \in [pps : PpsValues, direction : Jobs!Directions, name : StreamNames] :
        s.name = NoName => s.direction = "down"}

(* One stream configuration through bbl_stream_add / bbl_stream_init: the *)
(* lookup, then StreamJobs' AddStream on the port it returned.             *)
AddConfigured(s) ==
    LET ni == NetAdd!NetIfGet(PortOrder, s.name, NoName)
    IN  /\ add_result = "ok" /\ init_result = "running"
        /\ IF ni.port = NetAdd!NoPort
           THEN /\ init_result' = "failed"
                /\ UNCHANGED jobs_vars
           ELSE /\ Jobs!AddStream([pps |-> s.pps, direction |-> s.direction,
                                   interface |-> ni.port])
                /\ UNCHANGED init_result
        /\ UNCHANGED netadd_vars

StartupInit == NetAdd!NetAddInit /\ Jobs!JobsInit /\ init_result = "running"

StartupNext ==
    \/ (NetAdd!NetAddStep \/ NetAdd!NetAddDone) /\ UNCHANGED <<jobs_vars, init_result>>
    \/ \E s \in StreamConfigs : AddConfigured(s)

StartupSpec == StartupInit /\ [][StartupNext]_vars

====
