\* Replies and requests of o2chat and a chunked reply, pipelined on one
\* connection and received a byte at a time.  The reader stops when the
\* peer has nothing more to write, so deadlock is not checked.
CONSTANTS
    Width = 5
    Streams <- MCStreams
SPECIFICATION Spec
CHECK_DEADLOCK FALSE
INVARIANTS
    DecodedAsSent
    AtBoundary
    AllDelivered
