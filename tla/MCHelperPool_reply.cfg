\* The helper's answer against the socket deadline.
CONSTANTS
    Calls = {c1}
    Conns = {n1}
    NoConn = NoConn
    MaxInFlight = 1
    MaxConns = 2
    Timeout = 2
    Budget = 1
    OpDefault = 2
    MinOpDeadline = 1
    MaxOpDeadline = 2
    PerMS = 1
    BackoffMin = 1
    BackoffMax = 3
SPECIFICATION PromptSpec
INVARIANT ReplyDrained
