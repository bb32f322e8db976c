SPECIFICATION FairSpec
CONSTANTS
    Accounts = {alice}
    NoOne = NoOne
    MaxMsgs = 1
    MaxStops = 1
    MaxFaults = 0
PROPERTY
    AcknowledgedStopLands
CHECK_DEADLOCK FALSE
