\* A handler that may drop one next_chunk future, a sender that may overrun.
SPECIFICATION Spec
CONSTANTS
    Size = 2
    Bytes = {0, 1, 2}
    MaxChunks = 3
    Drops = 1
INVARIANTS
    WholePackage
    BoundedBySize
PROPERTY
    TransferEnds
CHECK_DEADLOCK FALSE
