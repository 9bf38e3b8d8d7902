\* Both a stream on the main loop's timer and one on a TX thread.
CONSTANTS
    PPS <- MC_PPS
    TicksPerSec <- MC_TicksPerSec
    Period <- MC_Period
    StartDelay <- MC_StartDelay
    MaxPackets <- MC_MaxPackets
    MaxPpi <- MC_MaxPpi
    RawStream = FALSE
    RingSize <- MC_RingSize
    MaxTime <- MC_MaxTime
    Modes = {FALSE, TRUE}
INIT ThreadInit
NEXT ThreadNext
INVARIANTS
    ThreadTxTypeOK
    
    RateBound
    MaxPacketsCap
    StartDelayRespected
    StaleAfterResetBounded
