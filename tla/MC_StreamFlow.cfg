CONSTANTS
    PPS <- MC_PPS
    TicksPerSec <- MC_TicksPerSec
    Period <- MC_Period
    StartDelay = 0
    MaxPackets <- MC_MaxPackets
    MaxPpi <- MC_MaxPpi
    RawStream = TRUE
    RingSize <- MC_RingSize
    MaxTime <- MC_MaxTime
    NL = NL
    L1 = L1
    L2 = L2
    Labels = {L1, L2}
    NoLabel = NL
    RxMpls1Label = L1
    RxMpls2Label = NL
    SessionTraffic = FALSE
INIT FlowInit
NEXT FlowNextNoReset
INVARIANTS
    MC_FlowTypeOK
    LossEquation
    LossAccounts
    LossNeverUndercounts
