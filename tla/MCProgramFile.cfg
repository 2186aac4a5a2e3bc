SPECIFICATION FileSpec
CONSTANTS
    RamAddr <- MCRamAddr
    Byte <- MCByte
    Blank = {0}
    Records = {}
    MaxRecords = 12
    Sources <- MCSources
    Starts = {0, 1025}
    HeaderText <- MCHeaderText
    StaleFile <- MCStaleFile
    Damageable <- MCShort
    Typo <- MCDigits
INVARIANTS
    ProgramArrives
    RecordFits
    DamageStopsLoad
CHECK_DEADLOCK FALSE
