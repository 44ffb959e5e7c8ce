\* Four messages to a from two senders, two workers, and idle writes that may complete in any order.
CONSTANTS
    a = a  b = b  c = c  w1 = w1  w2 = w2
    NoName = NoName
    Names <- MCNames
    Users <- MCUsers
    Senders <- MCUsers
    Listeners <- MCListeners
    Workers <- MCWorkers2
    Epoch = 100
    MaxTime = 1
    MaxSends = 4
    MaxQueue = 2
    MaxBreaks = 1
    StalePassword = FALSE
    ReorderWrites = TRUE
SPECIFICATION Spec
INVARIANT NoLostBelowWatermark
