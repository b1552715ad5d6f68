SPECIFICATION MCSpec
CONSTANTS
    m1 = m1  m2 = m2  c1 = c1  c2 = c2  w1 = w1  u1 = u1  u2 = u2  nobody = nobody
    Body = {m1, m2}
    Poison = {m2}
    Consumer = {c1, c2}
    MaxAttempts = 2
    MaxFaults = 2
    MaxSize = 1
    Writer = {w1}
    Request <- TwoEvents
    Unstamped = {u1}
    Slots = 1
    Nobody = nobody
CHECK_DEADLOCK FALSE
INVARIANTS AckMeansLogged NothingLost LoggedOnce NobodyForgotten DeadLettersEarned
PROPERTIES AuditSettles
