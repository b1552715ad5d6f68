-------------------------------- MODULE Plan --------------------------------
(***************************************************************************)
(* The task plan of the submitted expressions: what expression.Plan makes  *)
(* of a syntax tree (usecase/expression/planner.go), the arithmetic the    *)
(* agents perform (usecase/worker/worker.go), and what an expression means *)
(* independently of how the system computes it.                            *)
(*                                                                         *)
(* A plan is a constant: it never changes once Submit has stored it.  The  *)
(* planner emits trees; nothing below needs more than a well-founded graph *)
(* whose tasks are all reachable from the root.                            *)
(***************************************************************************)
EXTENDS Integers, FiniteSets

CONSTANTS Expr,        \* expressions clients may submit
          Task,        \* tasks of all their plans
          Value,       \* finite numbers: literals and encodable results
          Zero,        \* the number 0
          ExprOf,      \* the expression a task belongs to
          Op,          \* the operator of a task
          Arg1, Arg2,  \* operand of a task: a literal, or the task it waits for
          Root,        \* the root task of an expression, or its single literal
          Arith(_,_,_),\* floating-point arithmetic: operator, left, right
          NoValue,     \* SQL NULL in a value column
          Error,       \* a permanent computation failure
          NonFinite    \* an infinity: a float64 that JSON cannot encode

Operator == {"+", "-", "*", "/"}
Outcome  == Value \cup {Error, NonFinite}
TasksOf(e) == {t \in Task : ExprOf[t] = e}
Operands(t) == {Arg1[t], Arg2[t]} \cap Task

(* What planner.go guarantees about the tasks it returns.  The last two    *)
(* conjuncts are its post-order: a task is appended after the tasks it     *)
(* waits for, so of any set of tasks the first one appended waits for none *)
(* of the others; and every task but the root is built for another one.    *)
ASSUME PlanAssumption ==
    /\ IsFiniteSet(Task)
    /\ Task \cap Value = {}
    /\ Zero \in Value
    /\ NoValue \notin Value \cup {Error, NonFinite}
    /\ Error # NonFinite /\ Error \notin Value /\ NonFinite \notin Value
    /\ ExprOf \in [Task -> Expr]
    /\ Op \in [Task -> Operator]
    /\ Arg1 \in [Task -> Task \cup Value]
    /\ Arg2 \in [Task -> Task \cup Value]
    /\ Root \in [Expr -> Task \cup Value]
    /\ \A t \in Task : \A u \in Operands(t) : ExprOf[u] = ExprOf[t]
    /\ \A e \in Expr : IF Root[e] \in Task THEN ExprOf[Root[e]] = e
                                           ELSE TasksOf(e) = {}
    /\ \A S \in (SUBSET Task) \ {{}} : \E t \in S : Operands(t) \cap S = {}
    /\ \A t \in Task : \/ Root[ExprOf[t]] = t
                       \/ \E u \in Task : t \in Operands(u)

(* IEEE arithmetic on two finite numbers gives a number or an infinity.    *)
ASSUME ArithAssumption ==
    \A op \in Operator, a, b \in Value : Arith(op, a, b) \in Value \cup {NonFinite}

-----------------------------------------------------------------------------
(* worker.Compute: division by zero is the one permanent failure a planned *)
(* task can meet; the other results are whatever the arithmetic yields.    *)
Compute(t, a, b) ==
    IF Op[t] = "/" /\ b = Zero THEN Error ELSE Arith(Op[t], a, b)

(* Number of operands of t that are tasks: planner.go's UnmetDeps.         *)
UnmetDeps(t) == (IF Arg1[t] \in Task THEN 1 ELSE 0)
              + (IF Arg2[t] \in Task THEN 1 ELSE 0)

-----------------------------------------------------------------------------
(* The meaning of an expression, by its defining equations: a valuation    *)
(* gives every task the value of its operation on the values of its        *)
(* operands.  A division by zero anywhere makes everything above it an     *)
(* error; an infinity nowhere reported makes everything above it unknown.  *)
ValueOf(v, x) == IF x \in Task THEN v[x] ELSE x

IsValuation(v) ==
    \A t \in Task :
        LET a == ValueOf(v, Arg1[t])
            b == ValueOf(v, Arg2[t])
        IN  v[t] = IF a = Error \/ b = Error THEN Error
                   ELSE IF a = NonFinite \/ b = NonFinite THEN NonFinite
                   ELSE Compute(t, a, b)

Valuations == {v \in [Task -> Outcome] : IsValuation(v)}

(* A well-founded plan has exactly one valuation (ExpressionStoreProofs    *)
(* proves that there is one).                                              *)
Meaning == LET v == CHOOSE v \in Valuations : TRUE
           IN  [e \in Expr |-> ValueOf(v, Root[e])]
=============================================================================
