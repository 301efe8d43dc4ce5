\* A handler that may drop one next_chunk future before it is ready.
SPECIFICATION Spec
CONSTANTS
    Size = 2
    Bytes = {0, 1, 2}
    MaxChunks = 3
    Drops = 1
INVARIANT
    CannotOverRead
CHECK_DEADLOCK FALSE
