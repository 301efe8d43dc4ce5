SPECIFICATION TrustSpec
CONSTANTS
    MaxEpoch = 2
    FormatOf <- MCFormatOf
    Launch = 1
    Ranges <- MCRanges
    MaxFails = 2
INVARIANTS
    ConfirmedIsReached
PROPERTIES
    RolloutConfirmed
    PushingEnds
CHECK_DEADLOCK FALSE
