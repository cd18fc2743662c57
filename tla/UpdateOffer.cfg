SPECIFICATION Spec
CONSTANTS
    s1 = s1
    d1 = d1
    None = None
    Releases <- Both
    Prereleases <- Dev
    Tasks = {1, 2, 3}
    Histories <- Requested
CHECK_DEADLOCK FALSE
INVARIANTS TypeOK OfferStands PhaseIsTheFolder
PROPERTIES ClaimEnds
