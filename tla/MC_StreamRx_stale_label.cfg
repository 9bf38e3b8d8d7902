CONSTANTS
    L1 = L1
    L2 = L2
    NL = NL
    Labels = {L1, L2}
    NoLabel = NL
    RxMpls1Label = L1
    RxMpls2Label = NL
    SessionTraffic = TRUE
INIT RxInit
NEXT RxEnvNext
CONSTRAINT RxBound
INVARIANT VerifiedByExpectedLabel
