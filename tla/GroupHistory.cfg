\* /v1/group/history is routed to a task no worker branch answers.
CONSTANTS
    a = a  x = x  c1 = c1  c2 = c2  c3 = c3  w1 = w1  w2 = w2  w3 = w3
    NoName = NoName
    Names <- MCNames
    Clients <- MCClients
    Requests <- MCRequestsGroupHistory
    MaxRequests = 2
    Now = 100
    MaxTime = 1
    CountWidth = 3
    Workers <- MCWorkers1
SPECIFICATION Spec
PROPERTY ResponseEventually
