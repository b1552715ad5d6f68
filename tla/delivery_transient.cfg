SPECIFICATION MCSpec
CONSTANTS
    e1 = e1  e2 = e2  t1 = t1  t2 = t2  t3 = t3
    none = none  err = err  inf = inf  r1 = r1  w1 = w1
    Limit = 3
    Expr <- TwoExpr
    Task <- PlanTask
    ExprOf <- PlanOf
    Op <- PlanOp
    Arg1 <- PlanArg1
    Arg2 <- PlanArg2
    Root <- PlanRoot
    Value <- Numbers
    Zero = 0
    Arith <- Arithmetic
    NoValue = none
    Error = err
    NonFinite = inf
    Replica = {r1}
    Batch = 4
    Agent = {w1}
    MaxAttempts = 2
    MaxFaults = 1
CHECK_DEADLOCK FALSE
INVARIANTS TransientFailuresRide
