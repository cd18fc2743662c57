CONSTANTS
    Tracks <- TwoTracks
    Stores = {1, 2}
    CacheReaders = {r1}
    Applier = Applier
    Opener = Opener
    NoFile = NoFile
    Sizes <- DownloadSizes
    Caps <- UserCaps
    Batch = 1
    MaxChanges = 1
    MaxReads = 1
    MaxKills = 1
    Launches <- Histories
SPECIFICATION CacheSpec
INVARIANTS CacheTypeOK IndexIsTrue
PROPERTIES RemovesWhatItMeant ChangesEnd
CHECK_DEADLOCK FALSE
