SPECIFICATION Spec
CONSTANTS
    Addr <- MCAddr
    Garbage = {0}
    NumBreakpoints = 1
    Programs <- SafePrograms
    SystemAddrStart = 64512
    Quantum = 5
    DepthModulus = 4
    Commands = {"r", "c", "s", "n", "o", "b", "bc", "bd", "be"}
    UserAddr = {0, 4}
    UserIndex = {0}
    MaxStack = 2
    MaxInput = 1
INVARIANTS
    TypeOK
    ErrorStops
    StepInStops
    StepOverReturnsInSlice
    StepOutLeavesInSlice
PROPERTIES
    BreakpointsHonoured
