\* Liveness of calls and of slots: nothing makes a handler return.
CONSTANTS
    Calls = {c1, c2}
    Conns = {n1, n2}
    NoConn = NoConn
    MaxInFlight = 1
    MaxConns = 1
    Timeout = 1
    Budget = 0
    OpDefault = 1
    MinOpDeadline = 1
    MaxOpDeadline = 1
    PerMS = 1
    BackoffMin = 1
    BackoffMax = 3
SPECIFICATION LiveSpec
INVARIANT TypeOK
PROPERTIES EveryCallReturns SlotsComeBack
