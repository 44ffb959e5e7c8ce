\* Three connections and three workers: messages from a to x and to a itself, histories of x
\* asking for one and for five (with a 3-bit max_count), and of a itself.
CONSTANTS
    a = a  x = x  c1 = c1  c2 = c2  c3 = c3  w1 = w1  w2 = w2  w3 = w3
    NoName = NoName
    Names <- MCNames
    Clients <- MCClients3
    Requests <- MCRequestsHistory
    MaxRequests = 8
    Now = 100
    MaxTime = 1
    CountWidth = 3
    Workers <- MCWorkers3
SPECIFICATION Spec
INVARIANT HistoryNewest
