SPECIFICATION LoaderSpec
CONSTANTS
    RamAddr <- MCRamAddr
    Byte = {0, 1, 2}
    Blank = {0}
    Records <- MCRecords
    MaxRecords = 4
INVARIANTS
    ImageIsRecords
    StartRecordWins
    SegmentsCoverData
