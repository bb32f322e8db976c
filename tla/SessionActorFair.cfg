SPECIFICATION FairSpec
CONSTANTS
    Accounts = {alice}
    NoOne = NoOne
    MaxMsgs = 2
    MaxStops = 1
    MaxFaults = 1
INVARIANTS
    NotRunningMeansSettled
    OneTerminator
PROPERTIES
    ImplementsConversation
CHECK_DEADLOCK FALSE
