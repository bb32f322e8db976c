SPECIFICATION TerminalSpec
CONSTANTS
    MaxCommands = 2
    MaxSends = 0
    MaxFloods = 0
INVARIANT NoStrandedSession
CHECK_DEADLOCK FALSE
