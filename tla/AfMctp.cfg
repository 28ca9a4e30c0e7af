\* Two TIDs, one endpoint ID on two networks and three requests: two that are to
\* be answered may collide, with a third after one of them was.
SPECIFICATION AfMctpSpec
CONSTANTS
    TIDs = {0, 1}
    Networks = {1, 2}
    EIDs = {9}
    Tags = {0, 1}
    Ids = {a}
    MaxRequests = 3
INVARIANTS
    ResponseReachesAsker
    CookiesAreTodo
