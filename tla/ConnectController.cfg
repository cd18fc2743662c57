SPECIFICATION Spec
CONSTANTS
    Requests = {1, 2, 3}
    d1 = d1
    d2 = d2
    Devices <- TwoDevices
    Histories <- Mishaps
CHECK_DEADLOCK FALSE
INVARIANTS TypeOK PageIsTold
PROPERTIES SessionKeepsItsSocket EachAnsweredOnce
