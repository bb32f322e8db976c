SPECIFICATION Spec
CONSTANTS
    Calls = {c1}
    MaxResumeAttempts = 1
    SlowScan = FALSE
    MaxMessages = 2
    MaxSays = 2
    MaxDeaths = 2
    MaxEvents = 3
    MaxRestarts = 1
    MaxNotices = 0
    MaxFailures = 1
INVARIANTS
    TypeOK
    StrandedOnlyByFailure
    OneTerminator
    LedgerExact
PROPERTY
    RepairedBeforeResume
CHECK_DEADLOCK FALSE
