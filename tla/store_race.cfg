SPECIFICATION MCSpec
CONSTANTS
    e1 = e1  e2 = e2  e3 = e3  e4 = e4
    t1 = t1  t2 = t2  t3 = t3  t4 = t4  t5 = t5  t6 = t6  t7 = t7  t8 = t8
    none = none  err = err  inf = inf  r1 = r1  r2 = r2  h1 = h1  h2 = h2  nowork = nowork
    Limit = 2
    Expr <- FourExpr
    Task <- PlanTask
    ExprOf <- PlanOf
    Op <- PlanOp
    Arg1 <- PlanArg1
    Arg2 <- PlanArg2
    Root <- PlanRoot
    Value <- Numbers
    Zero = 0
    Arith <- Arithmetic
    NoValue = none
    Error = err
    NonFinite = inf
    Replica = {r1, r2}
    Batch = 2
    Handler = {h1, h2}
    NoWork = nowork
INVARIANTS AuditTrailFaithful ClaimsExclusive NoDeadlock
PROPERTIES KeepsPromise ImplementsAtomic
