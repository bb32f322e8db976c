SPECIFICATION TrunkSpec
CONSTANTS
    Convs = {a}
    Changes = {w1, w2}
    Gated = {w1, w2}
    Faulty = {w2}
    Markers = Markers
    MaxLog = 2
    MaxRevs = 5
INVARIANT TrunkIsJudged
CHECK_DEADLOCK FALSE
