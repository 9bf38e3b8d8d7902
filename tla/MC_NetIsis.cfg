CONSTANTS
    Macs <- MC_Macs
    ConfigGatewayMac <- MC_NoGatewayMac
    TxqSize = 1
    MaxRx = 3
    Levels = {1, 2}
    LevelConfigs <- MC_LevelConfigs
    PeerTlvs <- MC_PeerTlvs
    EncodeResults <- MC_EncodeResults

SPECIFICATION NetIsisSpec

INVARIANTS
    NetTypeOK
    GatewayMacFromGateway
    RequestsAnswered
    IsisTypeOK
    LevelsTrackState

PROPERTY
    SilentPeerGoesDown

