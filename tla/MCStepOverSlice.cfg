SPECIFICATION Spec
CONSTANTS
    Addr <- MCAddr
    Garbage = {0}
    NumBreakpoints = 1
    Programs <- NestedOnly
    SystemAddrStart = 64512
    Quantum = 2
    DepthModulus = 4
    Commands = {"n"}
    UserAddr = {0}
    UserIndex = {0}
    MaxStack = 2
    MaxInput = 0
INVARIANTS
    StepOverReturns
