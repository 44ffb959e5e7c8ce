\* Chunk sizes and a Content-Length that are not numbers.
CONSTANTS
    Width = 5
    Streams <- MCBadSizes
SPECIFICATION Spec
CHECK_DEADLOCK FALSE
INVARIANTS
    BadSizeRejected
