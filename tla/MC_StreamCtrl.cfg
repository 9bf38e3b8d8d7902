\* Two raw downstream streams with TX, RX, resets and control jobs interleaved,
\* with and without traffic_stop_verified.
CONSTANTS
    s1 = s1
    s2 = s2
    Streams <- MC_Streams
    MaxCount <- MC_MaxCount
SPECIFICATION CtrlSpec
INVARIANTS
    CtrlTypeOK
    StatsConserved
PROPERTY
    VerifiedTxReported
