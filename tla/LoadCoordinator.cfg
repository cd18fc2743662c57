SPECIFICATION Spec
CONSTANTS
    a = a
    b = b
    Tracks = {a, b}
    Dash = dash
    None = None
    MaxGen = 3
    MaxAsks = 1
    MaxCmds = 2
    Sessions <- MCSessions
INVARIANTS TypeOK LoadingIsLive CarriesItsLoadOn
PROPERTIES ReplacedStaysSo
SYMMETRY Symmetry
CHECK_DEADLOCK FALSE
