\* Two IDLE tasks queued with the same watermark both push the same message.
CONSTANTS
    a = a  b = b  c = c  w1 = w1  w2 = w2
    NoName = NoName
    Names <- MCNames
    Users <- MCUsers
    Senders <- MCSenders
    Listeners <- MCListeners
    Workers <- MCWorkers1
    Epoch = 100
    MaxTime = 1
    MaxSends = 1
    MaxQueue = 2
    MaxBreaks = 0
    StalePassword = FALSE
    ReorderWrites = FALSE
SPECIFICATION Spec
INVARIANT NoDuplicateDisplay
