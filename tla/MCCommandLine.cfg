SPECIFICATION CommandSpec
CONSTANTS
    Addr <- MCAddr
    Garbage = {1}
    NumBreakpoints = 4
    Users <- MCUsers
    MaxLine = 6
    Registers <- MCRegisters
    LongMax = 1023
    NumModulus = 256
    AddrModulus <- MCAddrModulus
    IndexModulus = 16
INVARIANTS
    CommandTypeOK
    SplitsBySpace
    NumbersExact
    Compact
    FlagExact
    StopsExact
PROPERTIES
    ListSpec
