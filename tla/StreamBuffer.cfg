CONSTANTS
    MaxReaders = 2
    Total = 3
    Lookahead = 1
    StallCycles = 2
    MaxReconnects = 1
    None = None
    Sessions <- MCSessions
SPECIFICATION FairSpec
CHECK_DEADLOCK FALSE
INVARIANTS TypeOK HoldsTheFile
PROPERTIES ReadsTheFile ReadAnswered
