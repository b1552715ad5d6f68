SPECIFICATION ProcessSpec
CONSTANTS
    t1 = t1  t2 = t2  p1 = p1  w1 = w1  w2 = w2  w3 = w3  None = None
    Task = {t1, t2}
    Permanent = {p1}
    Transient = {w1, w2, w3}
    PoolMax = 3
    QueueSize = 1
    Text <- Texts
    MaxLength = 7
    MaxDepth = 2
    MaxTasks = 3
    MaxArith = 7
    MaxMixed = 4
    Nil = Nil
    MessageType <- Types
    Samples <- SampleMessages
    NewerField <- NewerFields
    MaxHops = 2
CHECK_DEADLOCK FALSE
INVARIANTS RunsOnce WithinLimits DrainsEarlier
INVARIANTS ParsesTheGrammar PlanComputesTheText RoundTrips NothingMisread
PROPERTIES NothingHangs
