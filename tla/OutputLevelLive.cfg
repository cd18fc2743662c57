SPECIFICATION FairSpec
CONSTANTS
    Silent = Silent
    Full = Full
    Levels = {Silent, Half, Full}
    MaxPages = 2
    MaxMoves = 1
    NoPair = NoPair
    NotHeld = NotHeld
PROPERTIES
    EventuallySaved
CHECK_DEADLOCK FALSE
