----------------------------- MODULE MCDelivery ------------------------------
(***************************************************************************)
(* Two expressions for Delivery.  Numbers are 0..Limit; anything beyond    *)
(* stands for an infinity.                                                 *)
(*   e1  1 + 2          one task, under MaxFaults faults                   *)
(*   e2  (1 + 2) * 3    a hand-over to a task whose result overflows       *)
(*                      Limit, under one fault                             *)
(***************************************************************************)
EXTENDS Delivery, TLC

CONSTANTS Limit, e1, e2, t1, t2, t3, none, err, inf, r1, w1

Numbers == 0 .. Limit

Arithmetic(op, x, y) ==
    LET z == CASE op = "+" -> x + y
               [] op = "-" -> x - y
               [] op = "*" -> x * y
               [] op = "/" -> IF y = 0 THEN 0 ELSE x \div y
    IN  IF z \in Numbers THEN z ELSE inf

TwoExpr  == {e1, e2}
PlanTask == {t1, t2, t3}
PlanOf   == t1 :> e1 @@ t2 :> e2 @@ t3 :> e2
PlanOp   == t1 :> "+" @@ t2 :> "+" @@ t3 :> "*"
PlanArg1 == t1 :> 1 @@ t2 :> 1 @@ t3 :> t2
PlanArg2 == t1 :> 2 @@ t2 :> 2 @@ t3 :> 3
PlanRoot == e1 :> t1 @@ e2 :> t3

(* One expression per behaviour, and nobody prunes the outbox while e2 is  *)
(* under way.  Only submissions, pruning and faults are barred, to none of *)
(* which anybody is obliged.                                               *)
Accepted == {e \in Expr : exprStatus[e] # "absent"}
OneAtATime == /\ Cardinality(Accepted) < 2
              /\ e2 \in Accepted => faults < 2
NotPruned == e2 \in Accepted => ~Prune

MCSpec ==
    DeliveryInit /\ [][DeliveryNext /\ OneAtATime' /\ NotPruned]_vars /\ DeliveryFairness
=============================================================================
