\* Two connections, one key, two flights: every interleaving with time passing
\* anywhere, and nothing makes a tool return.
CONSTANTS
    Callers = {c1, c2}
    Keys = {k1}
    Flights = {f1, f2}
    NoKey = NoKey
    NoFlight = NoFlight
    Timeout = 1
    TTL = 0
    AgeCap = 1
    MaxEntries = 1
    MaxInFlightPerKey = 2
    MaxInFlightTotal = 3

SPECIFICATION LiveSpec
INVARIANTS TypeOK InFlightExact StalledExact TimeoutIsOwn
PROPERTIES DroppedOnlyByDeadline EveryRequestAnswered
