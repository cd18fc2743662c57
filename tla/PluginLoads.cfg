SPECIFICATION Spec
CONSTANTS
    Plugins <- Two
    Needs <- Built
    Calls = {"enable", "disable", "restart"}
    Passes = {"pass", "another"}
    Asks = {1, 2}
    MaxEpoch = 1
    Worlds <- Histories
    None = None
INVARIANTS TypeOK NothingOutlives FlagsHold
PROPERTIES AskedIsAnswered
CHECK_DEADLOCK FALSE
