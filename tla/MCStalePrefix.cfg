SPECIFICATION Spec
CONSTANTS
    Addr <- MCAddr
    Garbage = {0}
    NumBreakpoints = 1
    Programs <- IllegalOnly
    SystemAddrStart = 64512
    Quantum = 8
    DepthModulus = 4
    Commands = {"r"}
    UserAddr = {0}
    UserIndex = {0}
    MaxStack = 2
    MaxInput = 0
INVARIANTS
    PrefixAppliesToNext
