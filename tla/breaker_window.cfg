SPECIFICATION WindowSpec
CONSTANTS
    c1 = c1
    Caller = {c1}
    FailureThreshold = 2
    HalfOpenProbes = 1
INVARIANTS WindowTrips
