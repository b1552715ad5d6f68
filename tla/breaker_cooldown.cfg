SPECIFICATION Spec
CONSTANTS
    c1 = c1  c2 = c2  c3 = c3
    Caller = {c1, c2}
    FailureThreshold = 1
    HalfOpenProbes = 1
PROPERTIES CooldownAlways
