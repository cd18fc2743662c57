SPECIFICATION LevelSpec
CONSTANTS
    Silent = Silent
    Full = Full
    Levels = {Silent, Half, Full}
    MaxPages = 2
    MaxMoves = 2
    NoPair = NoPair
    NotHeld = NotHeld
INVARIANTS LevelTypeOK LevelNotLost PageFollows
CHECK_DEADLOCK FALSE
