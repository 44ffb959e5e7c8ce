\* Two workers; overlapping idle writes may complete in any order (the data race on the idle socket).
CONSTANTS
    a = a  b = b  c = c  w1 = w1  w2 = w2
    NoName = NoName
    Names <- MCNames
    Users <- MCUsers
    Senders <- MCSenders
    Listeners <- MCListeners
    Workers <- MCWorkers2
    Epoch = 100
    MaxTime = 1
    MaxSends = 1
    MaxQueue = 1
    MaxBreaks = 1
    StalePassword = TRUE
    ReorderWrites = TRUE
SPECIFICATION Spec
INVARIANT TypeOK
INVARIANT NoDuplicateDisplay
PROPERTY ResponseEventually
PROPERTY SessionReleased
