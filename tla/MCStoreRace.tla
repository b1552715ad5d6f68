---------------------------- MODULE MCStoreRace ----------------------------
(***************************************************************************)
(* Transactions that meet in the database.  Numbers are 0..Limit.          *)
(*                                                                         *)
(*   e1  (1 + 1 - 1) * (2 - 0)  once t1 has opened the expression, t2 and  *)
(*                              t3 fill the two arguments of t4 together   *)
(*   e2  1 / 0 + (2 - 1)        a failure meets a result                   *)
(*   e3  2 * 2                  overflows Limit                            *)
(*   e4  1                      a lone literal                             *)
(***************************************************************************)
EXTENDS FanInTransactions, TLC

CONSTANTS Limit, e1, e2, e3, e4, t1, t2, t3, t4, t5, t6, t7, t8,
          none, err, inf, r1, r2, h1, h2, nowork

VARIABLE mode    \* which transactions are taken apart into their statements

Numbers == 0 .. Limit

Arithmetic(op, x, y) ==
    LET z == CASE op = "+" -> x + y
               [] op = "-" -> x - y
               [] op = "*" -> x * y
               [] op = "/" -> IF y = 0 THEN 0 ELSE x \div y
    IN  IF z \in Numbers THEN z ELSE inf

FourExpr == {e1, e2, e3, e4}
PlanTask == {t1, t2, t3, t4, t5, t6, t7, t8}
PlanOf   == [t \in PlanTask |-> IF t = t8 THEN e3 ELSE IF t \in {t5, t6, t7} THEN e2 ELSE e1]
PlanOp   == t1 :> "+" @@ t2 :> "-" @@ t3 :> "-" @@ t4 :> "*"
            @@ t5 :> "/" @@ t6 :> "-" @@ t7 :> "+" @@ t8 :> "*"
PlanArg1 == t1 :> 1 @@ t2 :> t1 @@ t3 :> 2 @@ t4 :> t2 @@ t5 :> 1 @@ t6 :> 2 @@ t7 :> t5 @@ t8 :> 2
PlanArg2 == t1 :> 1 @@ t2 :> 1 @@ t3 :> 0 @@ t4 :> t3 @@ t5 :> 0 @@ t6 :> 1 @@ t7 :> t6 @@ t8 :> 2
PlanRoot == e1 :> t4 @@ e2 :> t7 @@ e3 :> t8 @@ e4 :> 1

Accepted == {e \in Expr : exprStatus[e] # "absent"}

(* Results are handled statement by statement, while one relay does its    *)
(* work undisturbed and nobody prunes.  Agents announce the tasks of e2    *)
(* only.                                                                   *)
RelaySucceeds ==
    /\ published \subseteq published'
    /\ claimed'[r2] = {}
    /\ \A row \in todo[r1] \ todo'[r1] : row.id \in acked'[r1]
    /\ claimed[r1] # {} /\ claimed'[r1] = {} =>
           {row.id : row \in claimed[r1]} \subseteq published'
Results ==
    /\ mode = "results"
    /\ TxNext
    /\ \/ Accepted' \subseteq {e1} /\ \A m \in reported' : m.kind # "started"
       \/ Accepted' \subseteq {e2}
    /\ RelaySucceeds
    /\ UNCHANGED mode

(* Relays with all their faults, results in single steps.  The failing     *)
(* expression has one relay, the other two share the outbox and two.       *)
Relays ==
    /\ mode = "relays"
    /\ Next
    /\ UNCHANGED <<txVars, mode>>
    /\ \/ Accepted' \subseteq {e2} /\ claimed'[r2] = {}
       \/ Accepted' \subseteq {e3, e4}

MCInit == TxInit /\ mode \in {"results", "relays"}
MCNext == Relays \/ Results
MCSpec == MCInit /\ [][MCNext]_<<allVars, mode>>
=============================================================================
