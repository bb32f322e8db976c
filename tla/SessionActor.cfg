SPECIFICATION BoundedSpec
CONSTANTS
    Accounts = {alice, bob}
    NoOne = NoOne
    MaxMsgs = 3
    MaxStops = 2
    MaxFaults = 1
SYMMETRY Symmetry
INVARIANTS
    TypeOK
    SteeredBySpeaker
    PublishedIsSpeaker
    NothingTwice
    AbandonedOnlyByStop
    OneStopOneTurn
CHECK_DEADLOCK FALSE
