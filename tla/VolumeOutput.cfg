SPECIFICATION Spec
CONSTANTS
    Devices = {d1, d2}
    Levels = {Low, Mid, Full}
    Full = Full
    None = None
    MaxMoves = 2
    Launches <- MCLaunches
INVARIANTS TypeOK PlaysOnce OnlyChosenPlays
PROPERTIES SwitchKeepsLevel
CHECK_DEADLOCK FALSE
