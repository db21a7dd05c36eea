\* A late Forget against a newer flight.
CONSTANTS
    Callers = {c1, c2}
    Keys = {k1}
    Flights = {f1, f2}
    NoKey = NoKey
    NoFlight = NoFlight
    Timeout = 1
    TTL = 1
    AgeCap = 2
    MaxEntries = 1
    MaxInFlightPerKey = 2
    MaxInFlightTotal = 3
SPECIFICATION PromptSpec
INVARIANT OverlapOnlyPastWedged
