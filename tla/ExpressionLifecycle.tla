------------------------ MODULE ExpressionLifecycle -------------------------
(***************************************************************************)
(* What the service promises a client about the expressions it accepts,    *)
(* with no task, queue, replica or retry in sight: an expression is        *)
(* accepted once, moves through pending and in_progress, and settles at    *)
(* most once, on the one answer its arithmetic has.                        *)
(***************************************************************************)
CONSTANTS Expr, Value, NoValue, Error,
          Meaning,     \* the answer of each expression: a value, Error, ...
          Immediate    \* expressions that are a single literal

VARIABLES status, result

lifecycleVars == <<status, result>>

Open == {"pending", "in_progress"}

Init == /\ status = [e \in Expr |-> "absent"]
        /\ result = [e \in Expr |-> NoValue]

Settle(e) ==
    \/ /\ Meaning[e] \in Value
       /\ status' = [status EXCEPT ![e] = "done"]
       /\ result' = [result EXCEPT ![e] = Meaning[e]]
    \/ /\ Meaning[e] = Error
       /\ status' = [status EXCEPT ![e] = "failed"]
       /\ UNCHANGED result

Accept(e) == /\ status[e] = "absent"
             /\ e \notin Immediate
             /\ status' = [status EXCEPT ![e] = "pending"]
             /\ UNCHANGED result

Answer(e) == status[e] = "absent" /\ e \in Immediate /\ Settle(e)

Begin(e) == /\ status[e] = "pending"
            /\ status' = [status EXCEPT ![e] = "in_progress"]
            /\ UNCHANGED result

Finish(e) == status[e] \in Open /\ Settle(e)

Next == \E e \in Expr : Accept(e) \/ Answer(e) \/ Begin(e) \/ Finish(e)

Spec == Init /\ [][Next]_lifecycleVars
=============================================================================
