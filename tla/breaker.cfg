SPECIFICATION MCSpec
CONSTANTS
    c1 = c1  c2 = c2  c3 = c3
    Caller = {c1, c2, c3}
    FailureThreshold = 2
    HalfOpenProbes = 2
INVARIANTS ThresholdTrips ProbesNeverLeak
PROPERTIES Recovers CooldownRespected ClosedByProbes TripsOnStreak
