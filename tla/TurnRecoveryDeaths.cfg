SPECIFICATION FairSpec
CONSTANTS
    Calls = {c1}
    MaxResumeAttempts = 1
    SlowScan = FALSE
    MaxMessages = 1
    MaxSays = 1
    MaxDeaths = 3
    MaxEvents = 4
    MaxRestarts = 0
    MaxNotices = 1
    MaxFailures = 1
INVARIANT
    FruitlessBounded
PROPERTY
    ClosedOrGivenUp
CHECK_DEADLOCK FALSE
