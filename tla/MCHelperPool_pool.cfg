\* Two calls whose budgets differ, three connections; time passes while everybody
\* is blocked.
CONSTANTS
    Calls = {c1, c2}
    Conns = {n1, n2, n3}
    NoConn = NoConn
    MaxInFlight = 1
    MaxConns = 2
    Timeout = 4
    Budget = 1
    OpDefault = 5
    MinOpDeadline = 2
    MaxOpDeadline = 6
    PerMS = 2
    BackoffMin = 1
    BackoffMax = 3
SYMMETRY Symmetric
SPECIFICATION PromptSpec
INVARIANTS SlotsExact FanoutBounded TrackedExact OpEndsWithCaller
