SPECIFICATION ServicesSpec
CONSTANTS
    Working = {good1, good2, good3}
    First = good1
    Twin = good2
    Crashing = {crash}
    Broken = {broken}
    Gone = gone
    NoSource = NoSource
    Threshold = 2
    MaxEdits = 2
    MaxResets = 1
    Convs = {a, b}
    Changes = {w1, w2}
    Gated = {w1}
    Faulty = {}
    Markers = Markers
    MaxLog = 2
    MaxRevs = 5
    f1 = f1
    f2 = f2
    f3 = f3
    ask1 = ask1
    ask2 = ask2
    Followers = {f1, f2, f3}
    AskCalls = {ask1, ask2}
    CallOf <- FollowersCall
    Presses = {p1, p2}
    Replies = {x}
    Questions = 2
    MaxRefusals = 1
SYMMETRY ServicesSymmetry
INVARIANTS
    ServicesTypeOK
    OnlyTestedServes NoChangeForgotten
    NothingUnreachable
    OneFormPerCall AnsweredOnce
PROPERTIES
    TrunkKeepsWork RevertsStayOff
CHECK_DEADLOCK FALSE
