SPECIFICATION LiveSpec
CONSTANTS
    IpcCallers = {c1, c2}
    IpcRoom = 1
    MaxCalls = 3
    Kids = {k1, k2}
    NoKid = NoKid
    MaxChildren = 1
    MaxKidFaults = 1
    MaxFleetDeaths = 1
    MaxCommands = 3
    MaxSends = 1
    MaxFloods = 1
INVARIANTS
    LiveTypeOK  ToldIsOver
PROPERTIES
    ClosedWakes
    VerdictStands WaitSeesTheEnd KidsSettle
CHECK_DEADLOCK FALSE
