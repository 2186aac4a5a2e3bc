SPECIFICATION FairSpec
CONSTANTS
    Addr <- MCAddr
    Garbage = {0}
    NumBreakpoints = 1
    Programs <- FairPrograms
    SystemAddrStart = 64512
    Quantum = 2
    DepthModulus = 4
    Commands = {"time", "a", "o", "c"}
    UserAddr = {0, 4}
    UserIndex = {0}
    MaxStack = 2
    MaxInput = 2
PROPERTIES
    EscReachesMonitor
