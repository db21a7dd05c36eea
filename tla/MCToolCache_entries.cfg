\* One connection that may give up and ask again, more keys than entries, and
\* limits low enough to refuse: a key at its own limit while the total has
\* room, and a key without an invocation because the other one fills the total.
CONSTANTS
    Callers = {c1}
    Keys = {k1, k2}
    Flights = {f1, f2}
    NoKey = NoKey
    NoFlight = NoFlight
    Timeout = 1
    TTL = 1
    AgeCap = 2
    MaxEntries = 1
    MaxInFlightPerKey = 1
    MaxInFlightTotal = 2
SPECIFICATION LiveSpec
INVARIANTS HitFresh CapacityHeld
PROPERTIES EvictOnlyExpired StallClears
