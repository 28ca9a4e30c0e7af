\* A drain of at most three turns, two messages in the socket, which are enough for
\* the flow never to end, and a deadline of two and a half milliseconds in half
\* milliseconds.
SPECIFICATION FairSpec
CONSTANTS
    DRAIN_MAX = 2
    MSEC = 2
    MAX_RESPONSE_INTERVAL = 5
    QueueMax = 2
INVARIANTS
    OwnResponse
    NoEarlyTimeout
PROPERTIES
    ResponseNotDiscarded
    CallReturns
