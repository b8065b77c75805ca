CONSTANTS
    LapicIds = {0, 1}
    All = All
    None = None
    AllProcessors <- All
    NoId <- None
    Tables <- MCTables
SPECIFICATION Spec
INVARIANTS
    TypeOK
    LegacyIrqsMatchTable
CHECK_DEADLOCK FALSE
