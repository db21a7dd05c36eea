\* A child that writes twice what is kept and what the pipe holds; two overlapping
\* polls of the mounts; two clients for one slot and a bucket of one token.
CONSTANTS
    Cap = 2
    PipeCap = 2
    MaxOut = 4
    Polls = {p1, p2}
    Table <- MCTable
    Conns = {c1, c2}
    MaxConns = 1
    Burst = 1
    MaxRefills = 1
SPECIFICATION AllSpec
INVARIANTS
    TypeOK OutcomeTrue NoKillPending
    OneProbePerMount DiskListComplete
    SlotsAreConnections
PROPERTIES ChildCallReturns DisksSettle SlotsReturn
CHECK_DEADLOCK FALSE
