------------------------------ MODULE MC_NetIsis ------------------------------
EXTENDS NetIsis

(* A MAC with a non-zero first four bytes, and one whose first four bytes  *)
(* are zero (the case the handlers' unset test reads as unset).            *)
MC_Macs == {<<1, 0>>, <<0, 1>>}
MC_NoGatewayMac == <<0, 0>>
MC_LevelConfigs == {{1}, {1, 2}}
MC_PeerTlvs == {"up", "init", "down", "none", "other"}
MC_EncodeResults == {TRUE, FALSE}

(* The properties of both components.                                     *)
NetTypeOK == Net!NetTypeOK
GatewayMacFromGateway == Net!GatewayMacFromGateway
RequestsAnswered == Net!RequestsAnswered
IsisTypeOK == Isis!IsisTypeOK
LevelsTrackState == Isis!LevelsTrackState
SilentPeerGoesDown == Isis!SilentPeerGoesDown

====
