SPECIFICATION ConsoleSpec
CONSTANTS
    RamAddr <- MCRamAddr
    Byte = {0, 1}
    Blank = {0}
    Records <- MCRecords
    MaxRecords = 2
    Char <- MCChar
    CmdBufSize = 4
    CommandLines <- MCCommandLines
    RecordLines <- MCRecordLines
    Extra = {1}
    MaxInput = 1
PROPERTIES
    LoadErrorKeepsStart
