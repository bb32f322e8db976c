SPECIFICATION FleetSpec
CONSTANTS
    Callers = {c1, c2}
    Stoppers = {s1}
    MaxWorkers = 2
    MaxStalls = 1
SYMMETRY FleetSymmetry
INVARIANTS OneOpenWorker RestartSparesReplacement
PROPERTY LiveEntryStays
CHECK_DEADLOCK FALSE
