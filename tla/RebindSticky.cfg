\* A binding of a library of the program before one of a system library.
SPECIFICATION Spec
CONSTANTS
    Symbol = {"open", "malloc"}
    NoSymbol = "none"
    ShimApis = {"open"}
    Special <- MCSpecial
    BIND_IMMEDIATE_MASK = 3
    MaxOrdinal = 6
    UlebLen <- MCUlebLen
    Loads <- MCLoads
    MaxSize = 6
    Tables <- MCTables
    MAX_LIBRARY_ORDINAL = 4
    SymtabField = 6
    MaxChained = 3
    ChainedField = 5
    FileSize = 10
    TailSize = 3
    PageSize = 4
INVARIANTS OnlySystemLibraries
CHECK_DEADLOCK FALSE
