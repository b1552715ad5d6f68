INIT Init
NEXT Next
CONSTANTS
    t1 = t1  t2 = t2  p1 = p1  w1 = w1  w2 = w2  w3 = w3  None = None
    Task = {t1, t2}
    Permanent = {p1}
    Transient = {w1}
    PoolMax = 2
    QueueSize = 1
CHECK_DEADLOCK FALSE
INVARIANTS NeverDropped
