CONSTANTS
    Starts <- Launches
    Clicks <- TwoLinks
    Quitting <- Leaving
    Failing <- Broken
    Histories <- Mishaps
SPECIFICATION Spec
INVARIANTS TypeOK OneRuns LinksAreKept
PROPERTIES LaunchIsPatient
CHECK_DEADLOCK FALSE
