SPECIFICATION Spec
CONSTANTS
    Paths = {1, 2, 3, 4, 5}
    Exe = 4
    Front = 1
    Newest = 3
    Release <- MCRelease
    Bundled = 1
    Incidents = {"crash", "fail", "keep", "launch"}
    MaxIncidents = 3
INVARIANTS TypeOK NothingLost LaunchIsSettled
PROPERTIES MovesAtCommit
CHECK_DEADLOCK FALSE
