\* Two connections send up to five requests between them, on every route.
CONSTANTS
    a = a  x = x  c1 = c1  c2 = c2  c3 = c3  w1 = w1  w2 = w2  w3 = w3
    NoName = NoName
    Names <- MCNames
    Clients <- MCClients
    Requests <- MCRequestsGroupHistory
    MaxRequests = 5
    Now = 100
    MaxTime = 1
    CountWidth = 3
    Workers <- MCWorkers2
SPECIFICATION Spec
INVARIANT TypeOK
INVARIANT UserNamesUnique
INVARIANT IdsIncrease
INVARIANT MembershipSound
INVARIANT AnswersAgree
PROPERTY TaskAnswered
