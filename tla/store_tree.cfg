SPECIFICATION Spec
CONSTANTS
    e1 = e1  e2 = e2  t1 = t1  t2 = t2  t3 = t3  none = none  err = err  inf = inf  r1 = r1
    Limit = 6
    Expr <- TreeExpr
    Task <- TreeTask
    ExprOf <- TreeOf
    Op <- TreeOp
    Arg1 <- TreeArg1
    Arg2 <- TreeArg2
    Root <- TreeRoot
    Value <- Numbers
    Zero = 0
    Arith <- Arithmetic
    NoValue = none
    Error = err
    NonFinite = inf
    Replica = {r1}
    Batch = 2
CONSTRAINT OneExpression
INVARIANTS TypeOK FanInConsistent MessagesAgree NeverForgotten AnswersCorrect
PROPERTIES SettledForever
