SPECIFICATION Spec
CONSTANTS
    SystemAddrStart = 64512
    StartAddr = 512
    Inputs <- MCInputs
    Texts <- MCTexts
    Records <- MCRecords
    Starts <- MCStarts
    Code <- CodeAddresses
    MaxCycles = 100
INVARIANTS
    CpuTypeOK
PROPERTIES
    PagesAsDocumented
    ListingFollows
    RegistersComeBack
    MemoryKept
    CallsReturn
    QuotientsAreRight
CHECK_DEADLOCK FALSE
