SPECIFICATION Spec
CONSTANTS
    Addr <- MCAddr
    Garbage = {0}
    NumBreakpoints = 1
    Programs <- NestedOnly
    SystemAddrStart = 64512
    Quantum = 8
    DepthModulus = 4
    Commands = {"r", "c", "b"}
    UserAddr = {0, 5}
    UserIndex = {0}
    MaxStack = 2
    MaxInput = 0
INVARIANTS
    ContinueRunsNormally
