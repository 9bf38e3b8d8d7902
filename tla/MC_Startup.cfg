CONSTANTS
    a1 = a1
    a2 = a2
    n1 = n1
    n2 = n2
    n3 = n3
    acc = acc
    net = net
    Threads = {a1, a2, n1, n2, n3}
    Interfaces = {acc, net}
    IfThreads <- MC_IfThreads
    AccessIf = acc
    Den = 2
    PpsValues <- MC_PpsValues
    MaxStreams = 3
    PortMac <- MC_PortMac
    NetConfigs <- MC_NetConfigs
    IsisIds = {1}
    MaxNetIfs = 3
    PortOrder <- MC_PortOrder

SPECIFICATION StartupSpec

INVARIANTS
    StartupTypeOK
    MC_NetIfUnique
    MC_ReservedBalanced

CHECK_DEADLOCK FALSE
