------------------------- MODULE MCExpressionStore --------------------------
(***************************************************************************)
(* Small plans for ExpressionStore.  Numbers are 0..Limit; anything        *)
(* beyond stands for an infinity.                                          *)
(***************************************************************************)
EXTENDS ExpressionStore, TLC

CONSTANTS Limit, e1, e2, t1, t2, t3, none, err, inf, r1

Numbers == 0 .. Limit

Arithmetic(op, x, y) ==
    LET z == CASE op = "+" -> x + y
               [] op = "-" -> x - y
               [] op = "*" -> x * y
               [] op = "/" -> IF y = 0 THEN 0 ELSE x \div y
    IN  IF z \in Numbers THEN z ELSE inf

(* e1  (1 + 2) * (3 - 1)  two leaves that may finish in either order       *)
(* e2  2                  a lone literal                                   *)
TreeExpr  == {e1, e2}
TreeTask  == {t1, t2, t3}
TreeOf    == [t \in TreeTask |-> e1]
TreeOp    == t1 :> "+" @@ t2 :> "-" @@ t3 :> "*"
TreeArg1  == t1 :> 1 @@ t2 :> 3 @@ t3 :> t1
TreeArg2  == t1 :> 2 @@ t2 :> 1 @@ t3 :> t2
TreeRoot  == e1 :> t3 @@ e2 :> 2

(* One expression per behaviour.                                           *)
OneExpression == \E e \in Expr : \A d \in Expr \ {e} : exprStatus[d] = "absent"
=============================================================================
