----------------------------- MODULE FanInProofs -----------------------------
(***************************************************************************)
(* The transactions of HandleResult, run statement by statement and side   *)
(* by side, do what ExpressionStore's single steps do, and never wait for  *)
(* each other in a ring: for every plan that is a forest, any number of    *)
(* consumers, replicas and redelivered results.                            *)
(*                                                                         *)
(* Neither is inductive.  What is (TxInv): a transaction holds just the    *)
(* rows of its task, of the tasks it has filled so far and of its          *)
(* expression, no row is held twice, and what it has written in each is    *)
(* the committed row with the columns of its own results changed.          *)
(***************************************************************************)
EXTENDS FanInTransactions, ExpressionStoreProofs

-----------------------------------------------------------------------------
(* The inductive invariant.                                                *)
T(h) == work[h].task
V(h) == work[h].value
E(h) == ExprOf[T(h)]
Ok(h) == work[h].kind = "ok"

(* The tasks that wait for t, pending or not.                              *)
Parents(arg, t) == {u \in Task : arg[u] = t}

(* Those the transaction of h has given their argument.                    *)
FirstDone == {"fill2", "finalize", "commit"}
Filled1(h) == IF ~ Ok(h) THEN {}
              ELSE IF stage[h] = "fill1" THEN Parents(Arg1, T(h)) \ left[h]
              ELSE IF stage[h] \in FirstDone THEN Parents(Arg1, T(h)) ELSE {}
Filled2(h) == IF ~ Ok(h) THEN {}
              ELSE IF stage[h] = "fill2" THEN Parents(Arg2, T(h)) \ left[h]
              ELSE IF stage[h] \in {"finalize", "commit"} THEN Parents(Arg2, T(h)) ELSE {}
Writes(h) == {T(h)} \cup Filled1(h) \cup Filled2(h)

(* What it has written.                                                    *)
UnmetOf(h, u) == unmet[u] - (IF u \in Filled1(h) THEN 1 ELSE 0)
                          - (IF u \in Filled2(h) THEN 1 ELSE 0)
StatusOf(h, u) ==
    IF u = T(h) THEN (IF Ok(h) THEN "done" ELSE "failed")
    ELSE IF stage[h] \in {"finalize", "commit"} /\ UnmetOf(h, u) = 0 THEN "ready"
    ELSE status[u]
RowOf(h, u) == [status |-> StatusOf(h, u), unmet |-> UnmetOf(h, u),
                arg1 |-> IF u \in Filled1(h) THEN V(h) ELSE arg1[u],
                arg2 |-> IF u \in Filled2(h) THEN V(h) ELSE arg2[u],
                result |-> IF u = T(h) /\ Ok(h) THEN V(h) ELSE result[u]]
RowsOK(h) == /\ DOMAIN version[h] = Writes(h)
             /\ \A u \in Writes(h) : version[h][u] = RowOf(h, u)

(* The row of its expression: not written yet, or moved on, or closed.     *)
MovedOn(h) == [status |-> IF exprStatus[E(h)] = "pending" THEN "in_progress"
                          ELSE exprStatus[E(h)],
               result |-> exprResult[E(h)]]
Closed(h) == IF ~ Ok(h) THEN [status |-> "failed", result |-> exprResult[E(h)]]
             ELSE [status |-> StatusAfter(T(h)),
                   result |-> IF IsRoot(T(h)) /\ exprStatus[E(h)] \in Open
                              THEN V(h) ELSE exprResult[E(h)]]
Touches(h) == E(h) \in DOMAIN exprVersion[h]
ExprOK(h) ==
    /\ DOMAIN exprVersion[h] \subseteq {E(h)}
    /\ stage[h] = "progress" \/ (stage[h] = "finalize" /\ ~ Ok(h)) => ~ Touches(h)
    /\ stage[h] \in {"scan", "fill1", "fill2", "finalize"} /\ Ok(h) =>
          IF Touches(h) THEN exprVersion[h][E(h)] = MovedOn(h)
                        ELSE exprStatus[E(h)] # "pending"
    /\ stage[h] = "commit" =>
          IF Touches(h) THEN exprVersion[h][E(h)] = Closed(h)
                             /\ (~ Ok(h) => exprStatus[E(h)] \in Open)
          ELSE /\ Ok(h) => exprStatus[E(h)] # "pending"
               /\ Finalizes(h) => exprStatus[E(h)] \notin Open

(* What it is about to look at, and what it has queued.                    *)
LeftOK(h) == /\ stage[h] = "fill1" => left[h] \subseteq Parents(Arg1, T(h))
             /\ stage[h] = "fill2" => left[h] \subseteq Parents(Arg2, T(h))
Messages(h) == {TaskBody(u, version[h][u].arg1, version[h][u].arg2) : u \in Ready(h)}
QueuedOK(h) ==
    /\ stage[h] \notin {"finalize", "commit"} => queued[h] = {}
    /\ stage[h] = "finalize" => queued[h] = IF Ok(h) THEN Messages(h) ELSE {}
    /\ stage[h] = "commit" => queued[h] = (IF Ok(h) THEN Messages(h) ELSE {}) \cup Audits(h)
    /\ stage[h] \in {"finalize", "commit"} /\ Ok(h) =>
          \A u \in Ready(h) : version[h][u].arg1 # NoValue /\ version[h][u].arg2 # NoValue

Holding(h) == /\ status[T(h)] \notin Settled
              /\ Ok(h) \/ stage[h] \in {"finalize", "commit"}
              /\ RowsOK(h) /\ ExprOK(h) /\ LeftOK(h) /\ QueuedOK(h)
Resting(h) == DOMAIN version[h] = {} /\ DOMAIN exprVersion[h] = {} /\ queued[h] = {}

HandlerOK(h) ==
    /\ stage[h] # "idle" => work[h] \in reported /\ work[h].kind \in {"ok", "error"}
    /\ IF stage[h] \in {"idle", "settle"} THEN Resting(h) ELSE Holding(h)

Apart(g, h) == /\ DOMAIN version[g] \cap DOMAIN version[h] = {}
               /\ DOMAIN exprVersion[g] \cap DOMAIN exprVersion[h] = {}

TxFunctions == /\ DOMAIN work = Handler /\ stage \in [Handler -> Stage]
               /\ DOMAIN version = Handler /\ DOMAIN exprVersion = Handler
               /\ DOMAIN left = Handler /\ DOMAIN queued = Handler

TxInv == /\ TxFunctions
         /\ \A h \in Handler : HandlerOK(h)
         /\ \A g, h \in Handler : g # h => Apart(g, h)

-----------------------------------------------------------------------------
(* Facts about plans.                                                      *)

LEMMA ParentsFacts ==
  ASSUME NEW t \in Task
  PROVE  /\ t \notin Parents(Arg1, t) /\ t \notin Parents(Arg2, t)
         /\ \A u \in Parents(Arg1, t) \cup Parents(Arg2, t) :
               u \in Task /\ t \in Operands(u) /\ ExprOf[u] = ExprOf[t]
<1>1. \E x \in {t} : Operands(x) \cap {t} = {}
  <2>1. {t} \in (SUBSET Task) \ {{}}
    OBVIOUS
  <2> QED
    BY <2>1, PlanAssumption
<1>2. t \notin Operands(t)
  BY <1>1
<1>3. \A u \in Parents(Arg1, t) \cup Parents(Arg2, t) : u \in Task /\ t \in Operands(u)
  BY DEF Parents, Operands
<1>4. \A u \in Parents(Arg1, t) \cup Parents(Arg2, t) : ExprOf[t] = ExprOf[u]
  BY <1>3, PlanAssumption
<1> QED
  BY <1>2, <1>3, <1>4

(* Nothing waits for the root.                                             *)
LEMMA RootTop ==
  ASSUME NEW t \in Task, IsRoot(t)
  PROVE  Parents(Arg1, t) = {} /\ Parents(Arg2, t) = {}
<1> DEFINE e == ExprOf[t]
           S == TasksOf(e)
<1>1. SUFFICES ASSUME NEW u \in Parents(Arg1, t) \cup Parents(Arg2, t) PROVE FALSE
  OBVIOUS
<1>2. u \in S /\ t \in Operands(u)
  BY <1>1, ParentsFacts DEF TasksOf
<1>3. PICK x \in S : \A w \in S : x \notin Operands(w)
  <2>1. S \in SUBSET Task /\ S # {}
    BY <1>2 DEF TasksOf
  <2> HIDE DEF S
  <2> QED
    BY <2>1, LastTask
<1>4. x \in Task /\ ExprOf[x] = e /\ x # t
  BY <1>2, <1>3 DEF TasksOf
<1>5. PICK w \in Task : x \in Operands(w)
  BY <1>4, PlanAssumption DEF IsRoot
<1>6. ExprOf[x] = ExprOf[w]
  BY <1>5, PlanAssumption
<1> QED
  BY <1>3, <1>4, <1>5, <1>6 DEF TasksOf

(* What waits for a launched task that is not done is pending: an UPDATE   *)
(* finds the same rows whenever it looks.                                  *)
LEMMA DependentsKnown ==
  ASSUME TypeOK, FanInInv, NEW t \in Task, Launched(t), status[t] # "done"
  PROVE  /\ Dependents(Arg1, t) = Parents(Arg1, t)
         /\ Dependents(Arg2, t) = Parents(Arg2, t)
         /\ \A u \in Parents(Arg1, t) \cup Parents(Arg2, t) : status[u] = "pending"
<1>1. ASSUME NEW u \in Parents(Arg1, t) \cup Parents(Arg2, t) PROVE status[u] = "pending"
  <2>1. u \in Task /\ ExprOf[u] = ExprOf[t] /\ (Arg1[u] = t \/ Arg2[u] = t)
    BY <1>1, ParentsFacts DEF Parents
  <2>2. status[u] # "absent"
    BY <2>1 DEF FanInInv, StoredTogether, Launched
  <2>3. unmet[u] = Unfinished(Arg1[u]) + Unfinished(Arg2[u])
        /\ (status[u] = "pending" <=> unmet[u] > 0)
    BY <2>1, <2>2 DEF FanInInv, FanInConsistent
  <2>4. /\ Unfinished(Arg1[u]) \in {0, 1} /\ Unfinished(Arg2[u]) \in {0, 1}
        /\ Unfinished(t) = 1
    BY DEF Unfinished
  <2> QED
    BY <2>1, <2>3, <2>4
<1> QED
  BY <1>1 DEF Dependents, Parents

-----------------------------------------------------------------------------
(* The invariant of a transaction survives every step that leaves its own  *)
(* variables and the rows it holds alone, and closes or moves on an        *)
(* expression it does not hold at most.                                    *)
LEMMA Frame ==
  ASSUME TxFunctions, NEW h \in Handler, HandlerOK(h),
         work'[h] = work[h], stage'[h] = stage[h], version'[h] = version[h],
         exprVersion'[h] = exprVersion[h], left'[h] = left[h], queued'[h] = queued[h],
         reported \subseteq reported',
         T(h) \in DOMAIN version[h] => status'[T(h)] = status[T(h)],
         \A u \in DOMAIN version[h] :
            /\ status'[u] = status[u] /\ unmet'[u] = unmet[u] /\ arg1'[u] = arg1[u]
            /\ arg2'[u] = arg2[u] /\ result'[u] = result[u],
         Touches(h) => exprStatus'[E(h)] = exprStatus[E(h)]
                       /\ exprResult'[E(h)] = exprResult[E(h)],
         stage[h] \notin {"idle", "settle"} =>
            /\ exprStatus[E(h)] # "pending" => exprStatus'[E(h)] # "pending"
            /\ exprStatus[E(h)] \notin Open => exprStatus'[E(h)] \notin Open
  PROVE  HandlerOK(h)'
<1>1. /\ T(h)' = T(h) /\ V(h)' = V(h) /\ E(h)' = E(h) /\ Ok(h)' = Ok(h)
      /\ Filled1(h)' = Filled1(h) /\ Filled2(h)' = Filled2(h) /\ Writes(h)' = Writes(h)
      /\ Touches(h)' = Touches(h) /\ Finalizes(h)' = Finalizes(h)
      /\ Ready(h)' = Ready(h) /\ Messages(h)' = Messages(h) /\ Audits(h)' = Audits(h)
  <2>1. T(h)' = T(h) /\ V(h)' = V(h) /\ E(h)' = E(h) /\ Ok(h)' = Ok(h)
        /\ Finalizes(h)' = Finalizes(h)
    BY DEF T, V, E, Ok, Finalizes, IsRoot
  <2>2. Filled1(h)' = Filled1(h) /\ Filled2(h)' = Filled2(h)
    BY <2>1 DEF Filled1, Filled2
  <2>3. Writes(h)' = Writes(h) /\ Touches(h)' = Touches(h)
    BY <2>1, <2>2 DEF Writes, Touches
  <2>4. Ready(h)' = Ready(h)
    BY DEF Ready
  <2>5. Messages(h)' = Messages(h)
    BY <2>4 DEF Messages
  <2>6. Audits(h)' = Audits(h)
    BY <2>1 DEF Audits, IsRoot
  <2> QED
    BY <2>1, <2>2, <2>3, <2>4, <2>5, <2>6
<1>2. CASE stage[h] \in {"idle", "settle"}
  BY <1>2 DEF HandlerOK, Resting
<1>3. CASE stage[h] \notin {"idle", "settle"}
  <2>1. Holding(h)
    BY <1>3 DEF HandlerOK
  <2>2. RowsOK(h)'
    <3>1. \A u \in Writes(h) : RowOf(h, u)' = RowOf(h, u)
      BY <1>1, <2>1 DEF Holding, RowsOK, RowOf, StatusOf, UnmetOf
    <3> QED
      BY <1>1, <2>1, <3>1 DEF Holding, RowsOK
  <2>3. status'[T(h)] \notin Settled
    BY <2>1 DEF Holding, RowsOK, Writes
  <2>4. ExprOK(h)'
    <3>1. Touches(h) => MovedOn(h)' = MovedOn(h) /\ Closed(h)' = Closed(h)
      BY <1>1 DEF MovedOn, Closed, StatusAfter, IsRoot, E, T
    <3> QED
      BY <1>1, <1>3, <2>1, <3>1 DEF Holding, ExprOK
  <2>5. LeftOK(h)' /\ QueuedOK(h)'
    BY <1>1, <2>1 DEF Holding, LeftOK, QueuedOK
  <2> QED
    BY <1>1, <1>3, <2>1, <2>2, <2>3, <2>4, <2>5 DEF HandlerOK, Holding
<1> QED
  BY <1>2, <1>3

-----------------------------------------------------------------------------
(* One statement: the handler's own part of the invariant, what it leaves  *)
(* alone, and that it has taken no row another one holds.                  *)
Others(h) ==
    \A g \in Handler \ {h} :
        /\ work'[g] = work[g] /\ stage'[g] = stage[g] /\ version'[g] = version[g]
        /\ exprVersion'[g] = exprVersion[g] /\ left'[g] = left[g] /\ queued'[g] = queued[g]
StepOK(h) == /\ TxFunctions' /\ Others(h) /\ HandlerOK(h)'
             /\ \A g \in Handler \ {h} : Apart(g, h)'

(* What a handler at work knows of its task.                               *)
LEMMA WorkFacts ==
  ASSUME StoreInv, NEW h \in Handler, HandlerOK(h), stage[h] # "idle"
  PROVE  /\ work[h] \in reported /\ T(h) \in Task /\ E(h) \in Expr /\ Launched(T(h))
         /\ exprStatus[E(h)] # "absent"
         /\ Ok(h) => V(h) \in Value
         /\ ~ Ok(h) => work[h].kind = "error"
<1>1. work[h] \in reported /\ work[h].kind \in {"ok", "error"} /\ TypeOK
  BY DEF HandlerOK, StoreInv, OutboxInv
<1>2. work[h] \in ResultMessage
  BY <1>1 DEF TypeOK
<1>3. T(h) \in Task /\ V(h) \in Value \cup {NoValue} /\ E(h) \in Expr
  BY <1>2, PlanAssumption DEF T, V, E, ResultMessage
<1>4. ReportAgrees(work[h])
  BY <1>1, MessagesAgreeUnfolded DEF StoreInv, FanInInv
<1>5. Launched(T(h))
  BY <1>4 DEF ReportAgrees, T
<1>6. exprStatus[E(h)] # "absent"
  BY <1>3, <1>5 DEF StoreInv, FanInInv, StoredTogether, Launched, E
<1>7. ASSUME Ok(h) PROVE V(h) \in Value
  <2>1. V(h) = Compute(T(h), arg1[T(h)], arg2[T(h)])
    BY <1>4, <1>7 DEF ReportAgrees, Ok, V, T
  <2>2. arg1[T(h)] \in Value /\ arg2[T(h)] \in Value
    BY <1>1, <1>3, <1>5, LaunchedReady DEF StoreInv
  <2>3. V(h) \in Value \cup {Error, NonFinite}
    BY <1>3, <2>1, <2>2, ComputeType DEF Outcome
  <2> QED
    BY <1>3, <2>3, PlanAssumption
<1> QED
  BY <1>1, <1>3, <1>5, <1>6, <1>7 DEF Ok

(* A transaction that ends holds nothing.                                  *)
LEMMA ReleaseStep ==
  ASSUME TxInv, NEW h \in Handler, Release(h)
  PROVE  StepOK(h)
<1>1. /\ stage' = [stage EXCEPT ![h] = "idle"] /\ version' = [version EXCEPT ![h] = NoRows]
      /\ exprVersion' = [exprVersion EXCEPT ![h] = NoRows]
      /\ work' = [work EXCEPT ![h] = NoWork] /\ left' = [left EXCEPT ![h] = {}]
      /\ queued' = [queued EXCEPT ![h] = {}]
  BY DEF Release, Goto
<1>2. TxFunctions
  BY DEF TxInv
<1>3. TxFunctions' /\ Others(h)
  BY <1>1, <1>2 DEF TxFunctions, Others, Stage
<1>4. /\ stage'[h] = "idle" /\ DOMAIN version'[h] = {} /\ DOMAIN exprVersion'[h] = {}
      /\ queued'[h] = {}
  BY <1>1, <1>2 DEF TxFunctions, NoRows
<1>5. HandlerOK(h)'
  BY <1>4 DEF HandlerOK, Resting
<1>6. \A g \in Handler \ {h} : Apart(g, h)'
  BY <1>4 DEF Apart
<1> QED
  BY <1>3, <1>5, <1>6 DEF StepOK

LEMMA BeginStep ==
  ASSUME TxInv, NEW h \in Handler, NEW m \in reported, Begin(h, m)
  PROVE  StepOK(h)
<1>1. /\ stage[h] = "idle" /\ stage' = [stage EXCEPT ![h] = "settle"]
      /\ work' = [work EXCEPT ![h] = m] /\ m.kind \in {"ok", "error"}
      /\ UNCHANGED <<version, exprVersion, left, queued, reported>>
  BY DEF Begin, Goto, storeVars
<1>2. TxFunctions /\ HandlerOK(h) /\ \A g \in Handler \ {h} : Apart(g, h)
  BY DEF TxInv
<1>3. TxFunctions' /\ Others(h)
  BY <1>1, <1>2 DEF TxFunctions, Others, Stage
<1>4. stage'[h] = "settle" /\ work'[h] = m
  BY <1>1, <1>2 DEF TxFunctions
<1>5. HandlerOK(h)'
  BY <1>1, <1>2, <1>4 DEF HandlerOK, Resting
<1>6. \A g \in Handler \ {h} : Apart(g, h)'
  BY <1>1, <1>2 DEF Apart
<1> QED
  BY <1>3, <1>5, <1>6 DEF StepOK

LEMMA SettleStep ==
  ASSUME StoreInv, TxInv, NEW h \in Handler, Settle(h)
  PROVE  StepOK(h)
<1>1. CASE status[T(h)] \in Settled
  BY <1>1, ReleaseStep DEF Settle, T
<1>2. CASE status[T(h)] \notin Settled
  <2> DEFINE t == T(h)
             row == IF Ok(h) THEN [Committed(t) EXCEPT !.status = "done", !.result = V(h)]
                             ELSE [Committed(t) EXCEPT !.status = "failed"]
  <2>1. /\ stage[h] = "settle" /\ ~ Held(h, t)
        /\ version' = [version EXCEPT ![h] = With(version[h], t, row)]
        /\ stage' = [stage EXCEPT ![h] = IF Ok(h) THEN "progress" ELSE "finalize"]
        /\ UNCHANGED <<work, exprVersion, left, queued, storeVars>>
    BY <1>2 DEF Settle, Write, Goto, T, V, Ok
  <2>2. TxFunctions /\ HandlerOK(h) /\ \A g \in Handler \ {h} : Apart(g, h)
    BY DEF TxInv
  <2>3. /\ work[h] \in reported /\ work[h].kind \in {"ok", "error"}
        /\ DOMAIN version[h] = {} /\ DOMAIN exprVersion[h] = {} /\ queued[h] = {}
    BY <2>1, <2>2 DEF HandlerOK, Resting
  <2>4. TxFunctions' /\ Others(h)
    BY <2>1, <2>2 DEF TxFunctions, Others, Stage
  <2>5. /\ stage'[h] = IF Ok(h) THEN "progress" ELSE "finalize"
        /\ version'[h] = With(version[h], t, row)
        /\ DOMAIN version'[h] = {t} /\ version'[h][t] = row
    BY <2>1, <2>2, <2>3 DEF TxFunctions, With
  <2>6. /\ t' = t /\ V(h)' = V(h) /\ E(h)' = E(h) /\ Ok(h)' = Ok(h)
        /\ status'[t] = status[t]
    BY <2>1 DEF T, V, E, Ok, storeVars, taskVars
  <2>7. RowsOK(h)'
    <3>1. Filled1(h)' = {} /\ Filled2(h)' = {} /\ Writes(h)' = {t}
      <4>1. stage'[h] \notin {"fill1", "fill2"} /\ (Ok(h) => stage'[h] \notin FirstDone)
        BY <2>5 DEF FirstDone
      <4> QED
        BY <2>6, <4>1 DEF Filled1, Filled2, Writes, FirstDone
    <3>2. unmet[t] \in Int
      BY <2>1, <2>2, WorkFacts DEF TypeOK, StoreInv, OutboxInv
    <3>3. UNCHANGED taskVars
      BY <2>1 DEF storeVars
    <3>4. ASSUME NEW u, u = t PROVE RowOf(h, u)' = row
      <4>1. StatusOf(h, u)' = (IF Ok(h) THEN "done" ELSE "failed")
            /\ UnmetOf(h, u)' = unmet[t]
        BY <2>6, <3>1, <3>2, <3>3, <3>4 DEF StatusOf, UnmetOf, taskVars
      <4>2. RowOf(h, u)' = [status |-> IF Ok(h) THEN "done" ELSE "failed", unmet |-> unmet[t],
                            arg1 |-> arg1[t], arg2 |-> arg2[t],
                            result |-> IF Ok(h) THEN V(h) ELSE result[t]]
        BY <2>6, <3>1, <3>3, <3>4, <4>1 DEF RowOf, taskVars
      <4>3. row = [status |-> IF Ok(h) THEN "done" ELSE "failed", unmet |-> unmet[t],
                   arg1 |-> arg1[t], arg2 |-> arg2[t],
                   result |-> IF Ok(h) THEN V(h) ELSE result[t]]
        BY DEF Committed
      <4> QED
        BY <4>2, <4>3
    <3> HIDE DEF row, t
    <3> QED
      BY <2>5, <3>1, <3>4 DEF RowsOK
  <2>8. ExprOK(h)' /\ LeftOK(h)' /\ Ready(h)' = {}
    BY <2>1, <2>3, <2>5, <2>6 DEF ExprOK, LeftOK, Ready, Touches, T
  <2>9. QueuedOK(h)'
    BY <2>1, <2>3, <2>5, <2>6 DEF QueuedOK
  <2>10. HandlerOK(h)'
    BY <1>2, <2>1, <2>3, <2>5, <2>6, <2>7, <2>8, <2>9 DEF HandlerOK, Holding, storeVars
  <2>11. \A g \in Handler \ {h} : Apart(g, h)'
    BY <2>1, <2>2, <2>3, <2>4, <2>5 DEF Apart, Held, Others
  <2> QED
    BY <2>4, <2>10, <2>11 DEF StepOK
<1> QED
  BY <1>1, <1>2

(* A statement that writes no task row.                                    *)
LEMMA SameRows ==
  ASSUME NEW h \in Handler, RowsOK(h), UNCHANGED <<storeVars, work>>, version'[h] = version[h],
         Filled1(h)' = Filled1(h), Filled2(h)' = Filled2(h),
         stage'[h] \in {"finalize", "commit"} <=> stage[h] \in {"finalize", "commit"}
  PROVE  RowsOK(h)'
<1>1. T(h)' = T(h) /\ V(h)' = V(h) /\ Ok(h)' = Ok(h)
  BY DEF T, V, Ok
<1>2. Writes(h)' = Writes(h)
  BY <1>1 DEF Writes
<1>3. UNCHANGED taskVars
  BY DEF storeVars
<1>4. \A u \in Writes(h) : RowOf(h, u)' = RowOf(h, u)
  BY <1>1, <1>2, <1>3 DEF RowOf, StatusOf, UnmetOf, taskVars
<1> QED
  BY <1>2, <1>4 DEF RowsOK

LEMMA ProgressStep ==
  ASSUME StoreInv, TxInv, NEW h \in Handler, Progress(h)
  PROVE  StepOK(h)
<1> DEFINE e == E(h)
<1>1. /\ stage[h] = "progress" /\ stage' = [stage EXCEPT ![h] = "scan"]
      /\ UNCHANGED <<storeVars, work, version, left, queued>>
      /\ \/ /\ exprStatus[e] = "pending" /\ ~ HeldExpr(h, e)
            /\ WriteExpr(h, e, [CommittedExpr(e) EXCEPT !.status = "in_progress"])
         \/ /\ exprStatus[e] # "pending" /\ ~ HeldExpr(h, e)
            /\ WriteExpr(h, e, CommittedExpr(e))
         \/ exprStatus[e] # "pending" /\ UNCHANGED exprVersion
  BY DEF Progress, Goto, E, T
<1>2. TxFunctions /\ HandlerOK(h) /\ \A g \in Handler \ {h} : Apart(g, h)
  BY DEF TxInv
<1>3. Holding(h) /\ Ok(h) /\ DOMAIN exprVersion[h] = {}
  BY <1>1, <1>2 DEF HandlerOK, Holding, ExprOK, Touches
<1>4. \/ exprStatus[e] # "pending" /\ exprVersion' = exprVersion
      \/ /\ ~ HeldExpr(h, e)
         /\ exprVersion' = [exprVersion EXCEPT ![h] = With(exprVersion[h], e, MovedOn(h))]
  <2>1. ASSUME exprStatus[e] = "pending"
        PROVE  [CommittedExpr(e) EXCEPT !.status = "in_progress"] = MovedOn(h)
    BY <2>1 DEF CommittedExpr, MovedOn
  <2>2. ASSUME exprStatus[e] # "pending" PROVE CommittedExpr(e) = MovedOn(h)
    BY <2>2 DEF CommittedExpr, MovedOn
  <2> QED
    BY <1>1, <2>1, <2>2 DEF WriteExpr
<1>5. TxFunctions' /\ Others(h)
  BY <1>1, <1>2, <1>4 DEF TxFunctions, Others, Stage
<1>6. stage'[h] = "scan" /\ version'[h] = version[h]
  BY <1>1, <1>2 DEF TxFunctions
<1>7. /\ T(h)' = T(h) /\ V(h)' = V(h) /\ E(h)' = E(h) /\ Ok(h)' = Ok(h)
      /\ UNCHANGED <<exprVars, taskVars, reported>>
  BY <1>1 DEF T, V, E, Ok, storeVars
<1>8. RowsOK(h)'
  <2>1. Filled1(h)' = Filled1(h) /\ Filled2(h)' = Filled2(h)
    BY <1>1, <1>6, <1>7 DEF Filled1, Filled2, FirstDone
  <2> QED
    BY <1>1, <1>3, <1>6, <2>1, SameRows DEF Holding
<1>9. ExprOK(h)'
  <2>1. MovedOn(h)' = MovedOn(h)
    BY <1>7 DEF MovedOn, exprVars
  <2>2. \/ exprStatus[e] # "pending" /\ DOMAIN exprVersion'[h] = {}
        \/ DOMAIN exprVersion'[h] = {e} /\ exprVersion'[h][e] = MovedOn(h)
    BY <1>2, <1>3, <1>4 DEF TxFunctions, With
  <2> QED
    BY <1>6, <1>7, <2>1, <2>2 DEF ExprOK, Touches, exprVars
<1>10. LeftOK(h)' /\ QueuedOK(h)'
  BY <1>1, <1>3, <1>6 DEF LeftOK, QueuedOK, Holding
<1>11. HandlerOK(h)'
  BY <1>1, <1>2, <1>3, <1>6, <1>7, <1>8, <1>9, <1>10 DEF HandlerOK, Holding, taskVars
<1>12. \A g \in Handler \ {h} : Apart(g, h)'
  BY <1>1, <1>2, <1>3, <1>4, <1>5 DEF Apart, HeldExpr, Others, TxFunctions, With
<1> QED
  BY <1>5, <1>11, <1>12 DEF StepOK

LEMMA ScanStep ==
  ASSUME StoreInv, TxInv, NEW h \in Handler, ScanFirst(h) \/ ScanSecond(h)
  PROVE  StepOK(h)
<1> DEFINE next == IF stage[h] = "scan" THEN "fill1" ELSE "fill2"
           found == IF stage[h] = "scan" THEN Dependents(Arg1, T(h)) ELSE Dependents(Arg2, T(h))
<1>1. /\ stage[h] = "scan" \/ (stage[h] = "fill1" /\ left[h] = {})
      /\ stage' = [stage EXCEPT ![h] = next] /\ left' = [left EXCEPT ![h] = found]
      /\ UNCHANGED <<storeVars, work, version, exprVersion, queued>>
  BY DEF ScanFirst, ScanSecond, Scan, Goto, T
<1>2. TxFunctions /\ HandlerOK(h) /\ \A g \in Handler \ {h} : Apart(g, h)
  BY DEF TxInv
<1>3. Holding(h) /\ Ok(h)
  BY <1>1, <1>2 DEF HandlerOK, Holding
<1>4. TxFunctions' /\ Others(h)
  BY <1>1, <1>2 DEF TxFunctions, Others, Stage
<1>5. stage'[h] = next /\ left'[h] = found /\ version'[h] = version[h]
  BY <1>1, <1>2 DEF TxFunctions
<1>6. /\ T(h)' = T(h) /\ V(h)' = V(h) /\ E(h)' = E(h) /\ Ok(h)' = Ok(h)
      /\ Touches(h)' = Touches(h) /\ UNCHANGED <<exprVars, taskVars, reported>>
  BY <1>1 DEF T, V, E, Ok, Touches, storeVars
<1>7. found = IF stage[h] = "scan" THEN Parents(Arg1, T(h)) ELSE Parents(Arg2, T(h))
  <2>1. TypeOK /\ FanInInv /\ T(h) \in Task /\ Launched(T(h)) /\ status[T(h)] # "done"
    BY <1>1, <1>2, <1>3, WorkFacts DEF StoreInv, OutboxInv, Holding, Settled
  <2> QED
    BY <2>1, DependentsKnown
<1> HIDE DEF found, next
<1>8. RowsOK(h)'
  <2>1. Filled1(h)' = Filled1(h) /\ Filled2(h)' = Filled2(h)
    <3>1. CASE stage[h] = "scan"
      BY <1>3, <1>5, <1>6, <1>7, <3>1 DEF Filled1, Filled2, FirstDone, next
    <3>2. CASE stage[h] = "fill1" /\ left[h] = {}
      BY <1>3, <1>5, <1>6, <1>7, <3>2 DEF Filled1, Filled2, FirstDone, next
    <3> QED
      BY <1>1, <3>1, <3>2
  <2>2. stage'[h] \notin {"finalize", "commit"} /\ stage[h] \notin {"finalize", "commit"}
    BY <1>1, <1>5 DEF next
  <2> QED
    BY <1>1, <1>3, <1>5, <2>1, <2>2, SameRows DEF Holding
<1>9. ExprOK(h)'
  <2>1. MovedOn(h)' = MovedOn(h)
    BY <1>6 DEF MovedOn, exprVars
  <2> QED
    BY <1>1, <1>3, <1>5, <1>6, <2>1 DEF ExprOK, exprVars, Holding, next
<1>10. LeftOK(h)' /\ QueuedOK(h)'
  BY <1>1, <1>3, <1>5, <1>6, <1>7 DEF LeftOK, QueuedOK, Holding, next
<1>11. HandlerOK(h)'
  BY <1>1, <1>2, <1>3, <1>5, <1>6, <1>8, <1>9, <1>10 DEF HandlerOK, Holding, taskVars, next
<1>12. \A g \in Handler \ {h} : Apart(g, h)'
  BY <1>1, <1>2 DEF Apart
<1> QED
  BY <1>4, <1>11, <1>12 DEF StepOK

(* A row it has not filled looks to a transaction as it is committed.      *)
LEMMA SeenRow ==
  ASSUME TypeOK, NEW h \in Handler, RowsOK(h), stage[h] \notin {"finalize", "commit"},
         NEW u \in Task, u # T(h)
  PROVE  Seen(h, u) = RowOf(h, u)
<1>1. CASE u \in Writes(h)
  BY <1>1 DEF RowsOK, Seen
<1>2. CASE u \notin Writes(h)
  <2>1. Seen(h, u) = Committed(u)
    BY <1>2 DEF RowsOK, Seen
  <2>2. u \notin Filled1(h) /\ u \notin Filled2(h) /\ unmet[u] \in Int
    BY <1>2 DEF Writes, TypeOK
  <2>3. RowOf(h, u) = Committed(u)
    BY <2>2 DEF RowOf, StatusOf, UnmetOf, Committed
  <2> QED
    BY <2>1, <2>3
<1> QED
  BY <1>1, <1>2

LEMMA FillStep ==
  ASSUME StoreInv, TxInv, NEW h \in Handler, NEW u \in left[h], Fill(h, u)
  PROVE  StepOK(h)
<1> DEFINE row == Filled(h, RowOf(h, u))
<1>1. TxFunctions /\ HandlerOK(h) /\ (\A g \in Handler \ {h} : Apart(g, h)) /\ TypeOK
  BY DEF TxInv, StoreInv, OutboxInv
<1>2. stage[h] \in {"fill1", "fill2"}
  BY DEF Fill
<1>3. Holding(h) /\ Ok(h) /\ V(h) \in Value /\ T(h) \in Task
  BY <1>1, <1>2, WorkFacts DEF HandlerOK, Holding
<1>4. /\ u \in Task /\ u # T(h) /\ status[u] = "pending"
      /\ stage[h] = "fill1" => u \in Parents(Arg1, T(h))
      /\ stage[h] = "fill2" => u \in Parents(Arg2, T(h))
  <2>1. u \in Parents(Arg1, T(h)) \cup Parents(Arg2, T(h))
        /\ (stage[h] = "fill1" => u \in Parents(Arg1, T(h)))
        /\ (stage[h] = "fill2" => u \in Parents(Arg2, T(h)))
    BY <1>2, <1>3 DEF Holding, LeftOK
  <2>2. u \in Task /\ u # T(h)
    BY <1>3, <2>1, ParentsFacts
  <2>3. Launched(T(h)) /\ status[T(h)] # "done"
    BY <1>1, <1>2, <1>3, WorkFacts DEF Holding, Settled
  <2>4. status[u] = "pending"
    BY <1>1, <1>3, <2>1, <2>3, DependentsKnown DEF StoreInv
  <2> QED
    BY <2>1, <2>2, <2>4
<1>5. Seen(h, u) = RowOf(h, u)
  BY <1>1, <1>2, <1>3, <1>4, SeenRow DEF Holding
<1>6. RowOf(h, u).status = "pending"
  BY <1>2, <1>4 DEF RowOf, StatusOf
<1>7. /\ ~ Held(h, u) /\ left' = [left EXCEPT ![h] = left[h] \ {u}]
      /\ version' = [version EXCEPT ![h] = With(version[h], u, row)]
      /\ UNCHANGED <<storeVars, work, stage, exprVersion, queued>>
  BY <1>5, <1>6 DEF Fill, Write
<1>8. TxFunctions' /\ Others(h)
  BY <1>1, <1>7 DEF TxFunctions, Others
<1>9. /\ left'[h] = left[h] \ {u} /\ version'[h] = With(version[h], u, row)
      /\ DOMAIN version'[h] = DOMAIN version[h] \cup {u} /\ version'[h][u] = row
      /\ \A y \in DOMAIN version[h] : y # u => version'[h][y] = version[h][y]
  BY <1>1, <1>7 DEF TxFunctions, With
<1>10. /\ T(h)' = T(h) /\ V(h)' = V(h) /\ E(h)' = E(h) /\ Ok(h)' = Ok(h) /\ stage' = stage
       /\ Touches(h)' = Touches(h) /\ UNCHANGED <<exprVars, taskVars, reported>>
  BY <1>7 DEF T, V, E, Ok, Touches, storeVars
<1>11. /\ Filled1(h)' = IF stage[h] = "fill1" THEN Filled1(h) \cup {u} ELSE Filled1(h)
       /\ Filled2(h)' = IF stage[h] = "fill2" THEN Filled2(h) \cup {u} ELSE Filled2(h)
       /\ stage[h] = "fill1" => u \notin Filled1(h)
       /\ stage[h] = "fill2" => u \notin Filled2(h)
  BY <1>2, <1>3, <1>4, <1>9, <1>10 DEF Filled1, Filled2, FirstDone
<1>12. Writes(h)' = Writes(h) \cup {u}
  BY <1>2, <1>10, <1>11 DEF Writes
<1>13. ASSUME NEW y \in Writes(h), y # u PROVE RowOf(h, y)' = RowOf(h, y)
  <2>1. (y \in Filled1(h)' <=> y \in Filled1(h)) /\ (y \in Filled2(h)' <=> y \in Filled2(h))
    BY <1>11, <1>13
  <2> QED
    BY <1>10, <2>1 DEF RowOf, StatusOf, UnmetOf, taskVars
<1>14. RowOf(h, u)' = row
  <2>1. unmet[u] \in Int
    BY <1>1, <1>4 DEF TypeOK
  <2>2. CASE stage[h] = "fill1"
    <3>1. /\ u \in Filled1(h)' /\ u \notin Filled1(h)
          /\ (u \in Filled2(h)' <=> u \in Filled2(h))
      BY <1>11, <2>2
    <3>2. UnmetOf(h, u)' = UnmetOf(h, u) - 1 /\ StatusOf(h, u)' = StatusOf(h, u)
      BY <1>4, <1>10, <2>1, <2>2, <3>1 DEF UnmetOf, StatusOf, taskVars
    <3>3. RowOf(h, u)' = [status |-> StatusOf(h, u), unmet |-> UnmetOf(h, u) - 1,
                          arg1 |-> V(h),
                          arg2 |-> IF u \in Filled2(h) THEN V(h) ELSE arg2[u], result |-> result[u]]
      BY <1>4, <1>10, <3>1, <3>2 DEF RowOf, taskVars
    <3>4. row = [status |-> StatusOf(h, u), unmet |-> UnmetOf(h, u) - 1,
                 arg1 |-> V(h),
                 arg2 |-> IF u \in Filled2(h) THEN V(h) ELSE arg2[u], result |-> result[u]]
      BY <1>4, <2>2 DEF Filled, V, RowOf
    <3> QED
      BY <3>3, <3>4
  <2>3. CASE stage[h] = "fill2"
    <3>1. /\ u \in Filled2(h)' /\ u \notin Filled2(h)
          /\ (u \in Filled1(h)' <=> u \in Filled1(h))
      BY <1>11, <2>3
    <3>2. UnmetOf(h, u)' = UnmetOf(h, u) - 1 /\ StatusOf(h, u)' = StatusOf(h, u)
      BY <1>4, <1>10, <2>1, <2>3, <3>1 DEF UnmetOf, StatusOf, taskVars
    <3>3. RowOf(h, u)' = [status |-> StatusOf(h, u), unmet |-> UnmetOf(h, u) - 1,
                          arg1 |-> IF u \in Filled1(h) THEN V(h) ELSE arg1[u],
                          arg2 |-> V(h), result |-> result[u]]
      BY <1>4, <1>10, <3>1, <3>2 DEF RowOf, taskVars
    <3>4. row = [status |-> StatusOf(h, u), unmet |-> UnmetOf(h, u) - 1,
                 arg1 |-> IF u \in Filled1(h) THEN V(h) ELSE arg1[u],
                 arg2 |-> V(h), result |-> result[u]]
      BY <1>4, <2>3 DEF Filled, V, RowOf
    <3> QED
      BY <3>3, <3>4
  <2> QED
    BY <1>2, <2>2, <2>3
<1> HIDE DEF row
<1>15. RowsOK(h)'
  <2>1. DOMAIN version'[h] = Writes(h)'
    BY <1>3, <1>9, <1>12 DEF Holding, RowsOK
  <2>2. ASSUME NEW y \in Writes(h)' PROVE version'[h][y] = RowOf(h, y)'
    <3>1. CASE y = u
      BY <1>9, <1>14, <3>1
    <3>2. CASE y # u
      BY <1>3, <1>9, <1>12, <1>13, <2>2, <3>2 DEF Holding, RowsOK
    <3> QED
      BY <3>1, <3>2
  <2> QED
    BY <2>1, <2>2 DEF RowsOK
<1>16. ExprOK(h)'
  <2>1. MovedOn(h)' = MovedOn(h) /\ exprVersion' = exprVersion
    BY <1>7, <1>10 DEF MovedOn, exprVars
  <2> QED
    BY <1>2, <1>3, <1>10, <2>1 DEF ExprOK, exprVars, Holding
<1>17. LeftOK(h)' /\ QueuedOK(h)'
  BY <1>2, <1>3, <1>7, <1>9, <1>10 DEF LeftOK, QueuedOK, Holding
<1>18. HandlerOK(h)'
  BY <1>1, <1>2, <1>3, <1>7, <1>10, <1>15, <1>16, <1>17 DEF HandlerOK, Holding, taskVars
<1>19. \A g \in Handler \ {h} : Apart(g, h)'
  BY <1>1, <1>7, <1>8, <1>9 DEF Apart, Held, Others
<1> QED
  BY <1>8, <1>18, <1>19 DEF StepOK

LEMMA UnlockStep ==
  ASSUME StoreInv, TxInv, NEW h \in Handler, Unlock(h)
  PROVE  StepOK(h)
<1> DEFINE rows == version[h]
           marked == [u \in DOMAIN rows |->
                        IF u \in Ready(h) /\ rows[u].status = "pending"
                        THEN [rows[u] EXCEPT !.status = "ready"] ELSE rows[u]]
<1>1. /\ stage[h] = "fill2" /\ left[h] = {} /\ stage' = [stage EXCEPT ![h] = "finalize"]
      /\ \A u \in Ready(h) : rows[u].arg1 # NoValue /\ rows[u].arg2 # NoValue
      /\ version' = [version EXCEPT ![h] = marked]
      /\ queued' = [queued EXCEPT ![h] = Messages(h)]
      /\ UNCHANGED <<storeVars, work, exprVersion, left>>
  BY DEF Unlock, Goto, T, Messages
<1>2. TxFunctions /\ HandlerOK(h) /\ (\A g \in Handler \ {h} : Apart(g, h)) /\ TypeOK
  BY DEF TxInv, StoreInv, OutboxInv
<1>3. Holding(h) /\ RowsOK(h) /\ Ok(h) /\ V(h) \in Value /\ T(h) \in Task
  BY <1>1, <1>2, WorkFacts DEF HandlerOK, Holding
<1>4. TxFunctions' /\ Others(h)
  BY <1>1, <1>2 DEF TxFunctions, Others, Stage
<1>5. stage'[h] = "finalize" /\ version'[h] = marked /\ queued'[h] = Messages(h)
  BY <1>1, <1>2 DEF TxFunctions
<1>6. /\ T(h)' = T(h) /\ V(h)' = V(h) /\ E(h)' = E(h) /\ Ok(h)' = Ok(h)
      /\ Touches(h)' = Touches(h) /\ UNCHANGED <<exprVars, taskVars, reported>>
  BY <1>1 DEF T, V, E, Ok, Touches, storeVars
<1>7. Filled1(h)' = Filled1(h) /\ Filled2(h)' = Filled2(h) /\ Writes(h)' = Writes(h)
  <2>1. Filled1(h)' = Filled1(h)
    BY <1>1, <1>5, <1>6 DEF Filled1, FirstDone
  <2>2. Filled2(h)' = Filled2(h)
    BY <1>1, <1>5, <1>6 DEF Filled2
  <2> QED
    BY <1>6, <2>1, <2>2 DEF Writes
<1>8. \A u \in Writes(h) : u # T(h) => u \in Task /\ status[u] = "pending"
  <2>1. Launched(T(h)) /\ status[T(h)] # "done"
    BY <1>1, <1>2, <1>3, WorkFacts DEF Holding, Settled
  <2>2. \A u \in Parents(Arg1, T(h)) \cup Parents(Arg2, T(h)) :
            status[u] = "pending" /\ u \in Task
    BY <1>2, <1>3, <2>1, DependentsKnown, ParentsFacts DEF StoreInv
  <2>3. Writes(h) \subseteq {T(h)} \cup Parents(Arg1, T(h)) \cup Parents(Arg2, T(h))
    BY <1>1 DEF Writes, Filled1, Filled2
  <2> QED
    BY <2>2, <2>3
<1>9. \A u \in Writes(h) : rows[u] = RowOf(h, u) /\ rows[u].unmet = UnmetOf(h, u)
  BY <1>3 DEF RowsOK, RowOf
<1>10. \A u \in Writes(h) : u \in Ready(h) <=> u # T(h) /\ UnmetOf(h, u) = 0
  BY <1>3, <1>9 DEF Ready, RowsOK, T
<1>11. ASSUME NEW u \in Writes(h)
       PROVE  /\ marked[u] = RowOf(h, u)' /\ marked[u].unmet = rows[u].unmet
              /\ marked[u].arg1 = rows[u].arg1 /\ marked[u].arg2 = rows[u].arg2
  <2>1. UnmetOf(h, u)' = UnmetOf(h, u)
    BY <1>6, <1>7 DEF UnmetOf, taskVars
  <2>2. rows[u] = [status |-> StatusOf(h, u), unmet |-> UnmetOf(h, u),
                   arg1 |-> IF u \in Filled1(h) THEN V(h) ELSE arg1[u],
                   arg2 |-> IF u \in Filled2(h) THEN V(h) ELSE arg2[u],
                   result |-> IF u = T(h) /\ Ok(h) THEN V(h) ELSE result[u]]
    BY <1>9 DEF RowOf
  <2>3. RowOf(h, u)' = [status |-> StatusOf(h, u)', unmet |-> UnmetOf(h, u),
                        arg1 |-> IF u \in Filled1(h) THEN V(h) ELSE arg1[u],
                        arg2 |-> IF u \in Filled2(h) THEN V(h) ELSE arg2[u],
                        result |-> IF u = T(h) /\ Ok(h) THEN V(h) ELSE result[u]]
    BY <1>6, <1>7, <2>1 DEF RowOf, taskVars
  <2>4. u \in DOMAIN rows
    BY <1>3 DEF RowsOK
  <2>5. CASE u # T(h) /\ UnmetOf(h, u) = 0
    <3>1. u \in Ready(h) /\ StatusOf(h, u) = "pending" /\ StatusOf(h, u)' = "ready"
      BY <1>1, <1>5, <1>6, <1>8, <1>10, <2>1, <2>5 DEF StatusOf
    <3>2. marked[u] = [rows[u] EXCEPT !.status = "ready"]
      BY <2>2, <2>4, <3>1
    <3>3. marked[u] = [status |-> "ready", unmet |-> UnmetOf(h, u),
                       arg1 |-> IF u \in Filled1(h) THEN V(h) ELSE arg1[u],
                       arg2 |-> IF u \in Filled2(h) THEN V(h) ELSE arg2[u],
                       result |-> IF u = T(h) /\ Ok(h) THEN V(h) ELSE result[u]]
      <4> HIDE DEF marked, rows
      <4> QED
        BY <2>2, <3>2
    <3> HIDE DEF marked, rows
    <3> QED
      BY <2>2, <2>3, <3>1, <3>3
  <2>6. CASE u = T(h) \/ UnmetOf(h, u) # 0
    <3>1. u \notin Ready(h) /\ StatusOf(h, u)' = StatusOf(h, u)
      BY <1>1, <1>5, <1>6, <1>10, <2>1, <2>6 DEF StatusOf, taskVars
    <3>2. marked[u] = rows[u]
      BY <2>4, <3>1
    <3> HIDE DEF marked, rows
    <3> QED
      BY <2>2, <2>3, <3>1, <3>2
  <2> QED
    BY <2>5, <2>6
<1>12. DOMAIN marked = Writes(h) /\ DOMAIN rows = Writes(h)
  BY <1>3 DEF RowsOK
<1> HIDE DEF marked, rows
<1>13. RowsOK(h)'
  BY <1>5, <1>7, <1>11, <1>12 DEF RowsOK
<1>14. Ready(h)' = Ready(h)
  <2>1. Ready(h) = {u \in Writes(h) \ {T(h)} : rows[u].unmet = 0}
    BY <1>12 DEF Ready, T, rows
  <2>2. Ready(h)' = {u \in Writes(h) \ {T(h)} : marked[u].unmet = 0}
    BY <1>5, <1>6, <1>12 DEF Ready, T
  <2> QED
    BY <1>11, <2>1, <2>2
<1>15. \A u \in Ready(h) : /\ version'[h][u].arg1 = version[h][u].arg1
                           /\ version'[h][u].arg2 = version[h][u].arg2
  BY <1>5, <1>11, <1>12 DEF Ready, rows
<1>16. Messages(h)' = Messages(h)
  BY <1>14, <1>15 DEF Messages
<1>17. QueuedOK(h)' /\ LeftOK(h)'
  <2>1. LeftOK(h)'
    BY <1>5 DEF LeftOK
  <2>2. \A u \in Ready(h)' : version'[h][u].arg1 # NoValue /\ version'[h][u].arg2 # NoValue
    BY <1>1, <1>14, <1>15 DEF rows
  <2>3. queued'[h] = Messages(h)'
    BY <1>5, <1>16
  <2> QED
    BY <1>3, <1>5, <1>6, <2>1, <2>2, <2>3 DEF QueuedOK
<1>18. ExprOK(h)'
  <2>1. MovedOn(h)' = MovedOn(h) /\ exprVersion' = exprVersion
    BY <1>1, <1>6 DEF MovedOn, exprVars
  <2> QED
    BY <1>1, <1>3, <1>5, <1>6, <2>1 DEF ExprOK, exprVars, Holding
<1>19. HandlerOK(h)'
  BY <1>1, <1>2, <1>3, <1>5, <1>6, <1>13, <1>17, <1>18 DEF HandlerOK, Holding, taskVars
<1>20. \A g \in Handler \ {h} : Apart(g, h)'
  BY <1>1, <1>2, <1>4, <1>5, <1>12 DEF Apart, Others, rows
<1> QED
  BY <1>4, <1>19, <1>20 DEF StepOK

LEMMA FinalizeStep ==
  ASSUME StoreInv, TxInv, NEW h \in Handler, Finalize(h)
  PROVE  StepOK(h)
<1> DEFINE e == E(h)
           row == Final(h, SeenExpr(h, e))
<1>1. /\ stage[h] = "finalize" /\ stage' = [stage EXCEPT ![h] = "commit"]
      /\ \/ /\ Finalizes(h) /\ SeenExpr(h, e).status \in Open /\ ~ HeldExpr(h, e)
            /\ exprVersion' = [exprVersion EXCEPT ![h] = With(exprVersion[h], e, row)]
         \/ /\ ~ (Finalizes(h) /\ SeenExpr(h, e).status \in Open)
            /\ exprVersion' = exprVersion
      /\ queued' = [queued EXCEPT ![h] = queued[h] \cup Audits(h)]
      /\ UNCHANGED <<storeVars, work, version, left>>
  BY DEF Finalize, Goto, E, T, WriteExpr
<1>2. TxFunctions /\ HandlerOK(h) /\ (\A g \in Handler \ {h} : Apart(g, h)) /\ TypeOK
  BY DEF TxInv, StoreInv, OutboxInv
<1>3. /\ Holding(h) /\ RowsOK(h) /\ ExprOK(h) /\ QueuedOK(h)
      /\ Finalizes(h) <=> ~ Ok(h) \/ IsRoot(T(h))
      /\ E(h) \in Expr /\ exprStatus[e] # "absent"
  BY <1>1, <1>2, WorkFacts DEF HandlerOK, Holding, Finalizes, Ok, T
<1>4. TxFunctions' /\ Others(h)
  BY <1>1, <1>2 DEF TxFunctions, Others, Stage
<1>5. /\ stage'[h] = "commit" /\ version'[h] = version[h]
      /\ queued'[h] = queued[h] \cup Audits(h)
  BY <1>1, <1>2 DEF TxFunctions
<1>6. /\ T(h)' = T(h) /\ V(h)' = V(h) /\ E(h)' = E(h) /\ Ok(h)' = Ok(h)
      /\ Finalizes(h)' = Finalizes(h) /\ Audits(h)' = Audits(h)
      /\ UNCHANGED <<exprVars, taskVars, reported>>
  BY <1>1 DEF T, V, E, Ok, Finalizes, Audits, storeVars
<1>7. RowsOK(h)'
  <2>1. Filled1(h)' = Filled1(h) /\ Filled2(h)' = Filled2(h)
    BY <1>1, <1>5, <1>6 DEF Filled1, Filled2, FirstDone
  <2> QED
    BY <1>1, <1>3, <1>5, <2>1, SameRows
<1>8. Ready(h)' = Ready(h) /\ Messages(h)' = Messages(h)
  <2>1. Ready(h)' = Ready(h)
    BY <1>1 DEF Ready
  <2> QED
    BY <1>1, <2>1 DEF Messages
<1>9. QueuedOK(h)' /\ LeftOK(h)'
  BY <1>1, <1>3, <1>5, <1>6, <1>8 DEF QueuedOK, LeftOK
<1>10. SeenExpr(h, e) = IF Ok(h) /\ Touches(h) THEN MovedOn(h) ELSE CommittedExpr(e)
  BY <1>1, <1>3 DEF SeenExpr, ExprOK, Touches
<1>11. Closed(h)' = Closed(h)
  BY <1>6 DEF Closed, StatusAfter, IsRoot, exprVars, E
<1>12. CASE Finalizes(h) /\ SeenExpr(h, e).status \in Open
  <2>1. exprStatus[e] \in Open
    BY <1>3, <1>10, <1>12 DEF MovedOn, CommittedExpr, Open
  <2>2. row = Closed(h)
    <3>1. CASE ~ Ok(h)
      <4>1. SeenExpr(h, e) = CommittedExpr(e) /\ work[h].kind = "error"
        BY <1>1, <1>2, <1>10, <3>1, WorkFacts
      <4>2. row = [CommittedExpr(e) EXCEPT !.status = "failed"]
        BY <4>1 DEF Final
      <4>3. row = [status |-> "failed", result |-> exprResult[e]]
        BY <4>2 DEF CommittedExpr
      <4> QED
        BY <3>1, <4>3 DEF Closed
    <3>2. CASE Ok(h)
      <4>1. IsRoot(T(h)) /\ StatusAfter(T(h)) = "done"
        BY <1>3, <1>12, <2>1, <3>2 DEF StatusAfter, E
      <4>2. Closed(h) = [status |-> "done", result |-> V(h)]
        BY <2>1, <3>2, <4>1 DEF Closed
      <4>3. row = [SeenExpr(h, e) EXCEPT !.status = "done", !.result = V(h)]
        BY <3>2 DEF Final, Ok, V
      <4>4. CASE Touches(h)
        <5>1. row = [MovedOn(h) EXCEPT !.status = "done", !.result = V(h)]
          BY <1>10, <3>2, <4>3, <4>4
        <5> QED
          BY <4>2, <5>1 DEF MovedOn
      <4>5. CASE ~ Touches(h)
        <5>1. row = [CommittedExpr(e) EXCEPT !.status = "done", !.result = V(h)]
          BY <1>10, <4>3, <4>5
        <5> QED
          BY <4>2, <5>1 DEF CommittedExpr
      <4> QED
        BY <4>4, <4>5
    <3> QED
      BY <3>1, <3>2
  <2>3. exprVersion'[h] = With(exprVersion[h], e, row)
    BY <1>1, <1>2, <1>12 DEF TxFunctions
  <2>4. DOMAIN exprVersion'[h] = {e} /\ exprVersion'[h][e] = Closed(h)
    <3> HIDE DEF row
    <3> QED
      BY <1>3, <2>2, <2>3 DEF With, ExprOK
  <2>5. ExprOK(h)'
    BY <1>5, <1>6, <1>11, <2>1, <2>4 DEF ExprOK, Touches, exprVars
  <2>6. \A g \in Handler \ {h} : Apart(g, h)'
    BY <1>1, <1>2, <1>4, <1>12, <2>4 DEF Apart, HeldExpr, Others
  <2> QED
    BY <1>1, <1>2, <1>3, <1>4, <1>5, <1>6, <1>7, <1>9, <2>5, <2>6
    DEF StepOK, HandlerOK, Holding, taskVars
<1>13. CASE ~ (Finalizes(h) /\ SeenExpr(h, e).status \in Open)
  <2>1. exprVersion' = exprVersion /\ Touches(h)' = Touches(h)
    BY <1>1, <1>6, <1>13 DEF Touches
  <2>2. ASSUME Touches(h) PROVE exprVersion[h][e] = Closed(h) /\ Ok(h)
    <3>1. Ok(h) /\ exprVersion[h][e] = MovedOn(h)
      BY <1>1, <1>3, <2>2 DEF ExprOK
    <3>2. ~ (IsRoot(T(h)) /\ exprStatus[e] \in Open)
      BY <1>3, <1>10, <1>13, <2>2, <3>1 DEF MovedOn, Open
    <3> QED
      BY <3>1, <3>2 DEF MovedOn, Closed, StatusAfter, E
  <2>3. ASSUME ~ Touches(h)
        PROVE  /\ Ok(h) => exprStatus[e] # "pending"
               /\ Finalizes(h) => exprStatus[e] \notin Open
    BY <1>1, <1>3, <1>10, <1>13, <2>3 DEF ExprOK, CommittedExpr
  <2>4. ExprOK(h)'
    BY <1>3, <1>5, <1>6, <1>11, <2>1, <2>2, <2>3 DEF ExprOK, exprVars
  <2>5. \A g \in Handler \ {h} : Apart(g, h)'
    BY <1>1, <1>2, <2>1 DEF Apart
  <2> QED
    BY <1>1, <1>2, <1>3, <1>4, <1>5, <1>6, <1>7, <1>9, <2>4, <2>5
    DEF StepOK, HandlerOK, Holding, taskVars
<1> QED
  BY <1>12, <1>13

-----------------------------------------------------------------------------
(* A commit is one step of ExpressionStore.                                *)

(* What a handler that is about to commit has in its hands.                *)
LEMMA CommitFacts ==
  ASSUME StoreInv, TxInv, NEW h \in Handler, stage[h] = "commit"
  PROVE  /\ TypeOK /\ FanInInv /\ T(h) \in Task /\ E(h) \in Expr /\ Launched(T(h))
         /\ work[h] \in reported /\ status[T(h)] \notin Settled
         /\ Ok(h) => V(h) \in Value
         /\ ~ Ok(h) => work[h].kind = "error"
         /\ exprStatus[E(h)] # "absent"
         /\ RowsOK(h) /\ ExprOK(h) /\ QueuedOK(h)
         /\ T(h) \in Writes(h) /\ Writes(h) \subseteq Task
<1>1. TxFunctions /\ HandlerOK(h) /\ TypeOK /\ FanInInv
  BY DEF TxInv, StoreInv, OutboxInv
<1>2. Holding(h)
  BY <1>1 DEF HandlerOK
<1>3. /\ work[h] \in reported /\ T(h) \in Task /\ E(h) \in Expr /\ Launched(T(h))
      /\ exprStatus[E(h)] # "absent"
      /\ Ok(h) => V(h) \in Value
      /\ ~ Ok(h) => work[h].kind = "error"
  BY <1>1, WorkFacts
<1>4. T(h) \in Writes(h) /\ Writes(h) \subseteq Task
  BY <1>3 DEF Writes, Filled1, Filled2, Parents
<1> QED
  BY <1>1, <1>2, <1>3, <1>4 DEF Holding

LEMMA CommitColumns ==
  ASSUME StoreInv, TxInv, NEW h \in Handler, Commit(h)
  PROVE  /\ \A u \in Task :
               LET row == IF u \in Writes(h) THEN RowOf(h, u) ELSE Committed(u)
               IN  /\ status'[u] = row.status /\ unmet'[u] = row.unmet
                   /\ arg1'[u] = row.arg1 /\ arg2'[u] = row.arg2 /\ result'[u] = row.result
         /\ \A e \in Expr :
               LET row == IF e = E(h) /\ Touches(h) THEN Closed(h) ELSE CommittedExpr(e)
               IN  exprStatus'[e] = row.status /\ exprResult'[e] = row.result
<1>1. stage[h] = "commit"
  BY DEF Commit
<1>2. RowsOK(h) /\ ExprOK(h)
  BY <1>1, CommitFacts
<1>3. ASSUME NEW u \in Task
      PROVE  Seen(h, u) = IF u \in Writes(h) THEN RowOf(h, u) ELSE Committed(u)
  BY <1>2 DEF RowsOK, Seen
<1>4. ASSUME NEW e \in Expr
      PROVE  SeenExpr(h, e) = IF e = E(h) /\ Touches(h) THEN Closed(h) ELSE CommittedExpr(e)
  BY <1>1, <1>2 DEF ExprOK, SeenExpr, Touches
<1>5. /\ status' = [u \in Task |-> Seen(h, u).status]
      /\ unmet'  = [u \in Task |-> Seen(h, u).unmet]
      /\ arg1'   = [u \in Task |-> Seen(h, u).arg1]
      /\ arg2'   = [u \in Task |-> Seen(h, u).arg2]
      /\ result' = [u \in Task |-> Seen(h, u).result]
      /\ exprStatus' = [e \in Expr |-> SeenExpr(h, e).status]
      /\ exprResult' = [e \in Expr |-> SeenExpr(h, e).result]
  BY DEF Commit
<1>6. ASSUME NEW u \in Task
      PROVE  LET row == IF u \in Writes(h) THEN RowOf(h, u) ELSE Committed(u)
             IN  /\ status'[u] = row.status /\ unmet'[u] = row.unmet
                 /\ arg1'[u] = row.arg1 /\ arg2'[u] = row.arg2 /\ result'[u] = row.result
  BY <1>3, <1>5
<1>7. ASSUME NEW e \in Expr
      PROVE  LET row == IF e = E(h) /\ Touches(h) THEN Closed(h) ELSE CommittedExpr(e)
             IN  exprStatus'[e] = row.status /\ exprResult'[e] = row.result
  BY <1>4, <1>5
<1> QED
  BY <1>6, <1>7

(* The commit of a failure.                                                *)
LEMMA CommitFailure ==
  ASSUME StoreInv, TxInv, NEW h \in Handler, Commit(h), ~ Ok(h)
  PROVE  ApplyFailure(work[h])
<1> DEFINE t == T(h)
           e == E(h)
<1>1. stage[h] = "commit" /\ InsertOutbox(queued[h])
  BY DEF Commit
<1>2. /\ TypeOK /\ t \in Task /\ e \in Expr /\ status[t] \notin Settled
      /\ work[h].kind = "error" /\ ExprOK(h) /\ QueuedOK(h) /\ exprStatus[e] # "absent"
  BY <1>1, CommitFacts
<1>3. Filled1(h) = {} /\ Filled2(h) = {} /\ Writes(h) = {t}
  BY DEF Filled1, Filled2, Writes
<1>4. ASSUME NEW u \in Task
      PROVE  /\ status'[u] = IF u = t THEN "failed" ELSE status[u]
             /\ unmet'[u] = unmet[u] /\ arg1'[u] = arg1[u] /\ arg2'[u] = arg2[u]
             /\ result'[u] = result[u]
  <2>1. unmet[u] \in Int
    BY <1>2 DEF TypeOK
  <2>2. CASE u = t
    <3>1. RowOf(h, u) = [status |-> "failed", unmet |-> unmet[u], arg1 |-> arg1[u],
                         arg2 |-> arg2[u], result |-> result[u]]
      BY <1>3, <2>1, <2>2 DEF RowOf, StatusOf, UnmetOf
    <3> QED
      BY <1>3, <2>2, <3>1, CommitColumns
  <2>3. CASE u # t
    BY <1>3, <2>3, CommitColumns DEF Committed
  <2> QED
    BY <2>2, <2>3
<1>5. /\ status' = [status EXCEPT ![t] = "failed"]
      /\ UNCHANGED <<unmet, arg1, arg2, result>>
  <2>1. /\ DOMAIN status' = Task /\ DOMAIN unmet' = Task /\ DOMAIN arg1' = Task
        /\ DOMAIN arg2' = Task /\ DOMAIN result' = Task
        /\ status' = [u \in Task |-> status'[u]] /\ unmet' = [u \in Task |-> unmet'[u]]
        /\ arg1' = [u \in Task |-> arg1'[u]] /\ arg2' = [u \in Task |-> arg2'[u]]
        /\ result' = [u \in Task |-> result'[u]]
    BY DEF Commit
  <2>2. /\ unmet = [u \in Task |-> unmet[u]] /\ arg1 = [u \in Task |-> arg1[u]]
        /\ arg2 = [u \in Task |-> arg2[u]] /\ result = [u \in Task |-> result[u]]
        /\ DOMAIN status = Task
    BY <1>2 DEF TypeOK
  <2>3. status' = [status EXCEPT ![t] = "failed"]
    BY <1>4, <2>1, <2>2
  <2> QED
    BY <1>4, <2>1, <2>2, <2>3
<1>6. /\ exprStatus' = [exprStatus EXCEPT ![e] = IF exprStatus[e] \in Open THEN "failed"
                                                 ELSE exprStatus[e]]
      /\ exprResult' = exprResult
  <2>1. ASSUME NEW d \in Expr
        PROVE  /\ exprStatus'[d] = IF d = e /\ exprStatus[e] \in Open THEN "failed"
                                   ELSE exprStatus[d]
               /\ exprResult'[d] = exprResult[d]
    <3>1. CASE d = e /\ Touches(h)
      BY <1>1, <1>2, <3>1, CommitColumns DEF ExprOK, Closed
    <3>2. CASE d = e /\ ~ Touches(h)
      BY <1>1, <1>2, <3>2, CommitColumns DEF ExprOK, CommittedExpr, Finalizes
    <3>3. CASE d # e
      BY <3>3, CommitColumns DEF CommittedExpr
    <3> QED
      BY <3>1, <3>2, <3>3
  <2>2. /\ exprStatus' = [d \in Expr |-> exprStatus'[d]]
        /\ exprResult' = [d \in Expr |-> exprResult'[d]]
    BY DEF Commit
  <2>3. DOMAIN exprStatus = Expr /\ exprResult = [d \in Expr |-> exprResult[d]]
    BY <1>2 DEF TypeOK
  <2> QED
    BY <2>1, <2>2, <2>3
<1>7. queued[h] = {AuditBody("task.failed", t), AuditBody("expression.failed", e)}
  BY <1>1, <1>2 DEF QueuedOK, Audits, T, E
<1>8. t = work[h].task /\ e = ExprOf[t]
  BY DEF T, E
<1> HIDE DEF t, e
<1> QED
  BY <1>1, <1>2, <1>5, <1>6, <1>7, <1>8 DEF ApplyFailure

(* The commit of a result.                                                 *)
LEMMA CommitResult ==
  ASSUME StoreInv, TxInv, NEW h \in Handler, Commit(h), Ok(h)
  PROVE  ApplyResult(work[h])
<1> DEFINE t == T(h)
           v == V(h)
           e == E(h)
<1>1. stage[h] = "commit" /\ InsertOutbox(queued[h])
  BY DEF Commit
<1>2. /\ TypeOK /\ FanInInv /\ t \in Task /\ e \in Expr /\ status[t] \notin Settled
      /\ Launched(t) /\ v \in Value /\ ExprOK(h) /\ QueuedOK(h) /\ RowsOK(h)
      /\ exprStatus[e] # "absent"
  BY <1>1, CommitFacts
<1>3. /\ Filled1(h) = Dependents(Arg1, t) /\ Filled2(h) = Dependents(Arg2, t)
      /\ Writes(h) = {t} \cup Dependents(Arg1, t) \cup Dependents(Arg2, t)
      /\ \A u \in Dependents(Arg1, t) \cup Dependents(Arg2, t) : u \in Task /\ u # t
  <2>1. /\ Dependents(Arg1, t) = Parents(Arg1, t) /\ Dependents(Arg2, t) = Parents(Arg2, t)
        /\ \A u \in Parents(Arg1, t) \cup Parents(Arg2, t) : u \in Task /\ u # t
    BY <1>2, DependentsKnown, ParentsFacts DEF Settled
  <2>2. Filled1(h) = Parents(Arg1, t) /\ Filled2(h) = Parents(Arg2, t)
    BY <1>1 DEF Filled1, Filled2, FirstDone
  <2> QED
    BY <2>1, <2>2 DEF Writes
<1>4. ASSUME NEW u \in Task
      PROVE  /\ UnmetOf(h, u) = UnmetAfter(t, u) /\ UnmetOf(h, u) \in Int
             /\ u \notin Writes(h) => UnmetOf(h, u) = unmet[u]
             /\ u \in Unlocked(t) <=> u \in Writes(h) /\ u # t /\ UnmetOf(h, u) = 0
  <2>1. unmet[u] \in Int
    BY <1>2 DEF TypeOK
  <2>2. UnmetOf(h, u) = UnmetAfter(t, u) /\ UnmetOf(h, u) \in Int
    BY <1>3, <2>1 DEF UnmetOf, UnmetAfter
  <2>3. u \notin Writes(h) => UnmetOf(h, u) = unmet[u]
    BY <1>3, <2>1 DEF UnmetOf
  <2>4. u \in Unlocked(t) <=> u \in Writes(h) /\ u # t /\ UnmetOf(h, u) = 0
    BY <1>3, <2>2 DEF Unlocked
  <2> QED
    BY <2>2, <2>3, <2>4
<1>5. ASSUME NEW u \in Task
      PROVE  /\ status'[u] = IF u = t THEN "done"
                             ELSE IF u \in Unlocked(t) THEN "ready" ELSE status[u]
             /\ unmet'[u] = UnmetAfter(t, u)
             /\ arg1'[u] = IF u \in Dependents(Arg1, t) THEN v ELSE arg1[u]
             /\ arg2'[u] = IF u \in Dependents(Arg2, t) THEN v ELSE arg2[u]
             /\ result'[u] = IF u = t THEN v ELSE result[u]
  <2>1. CASE u \in Writes(h)
    <3>1. /\ status'[u] = StatusOf(h, u) /\ unmet'[u] = UnmetOf(h, u)
          /\ arg1'[u] = IF u \in Filled1(h) THEN V(h) ELSE arg1[u]
          /\ arg2'[u] = IF u \in Filled2(h) THEN V(h) ELSE arg2[u]
          /\ result'[u] = IF u = T(h) /\ Ok(h) THEN V(h) ELSE result[u]
      BY <2>1, CommitColumns DEF RowOf
    <3>2. StatusOf(h, u) = IF u = t THEN "done"
                           ELSE IF u \in Unlocked(t) THEN "ready" ELSE status[u]
      BY <1>1, <1>4, <2>1 DEF StatusOf
    <3> QED
      BY <1>3, <1>4, <3>1, <3>2
  <2>2. CASE u \notin Writes(h)
    <3>1. /\ status'[u] = status[u] /\ unmet'[u] = unmet[u]
          /\ arg1'[u] = arg1[u] /\ arg2'[u] = arg2[u] /\ result'[u] = result[u]
      BY <2>2, CommitColumns DEF Committed
    <3>2. /\ u # t /\ u \notin Unlocked(t)
          /\ u \notin Dependents(Arg1, t) /\ u \notin Dependents(Arg2, t)
      BY <1>3, <1>4, <2>2
    <3> QED
      BY <1>4, <2>2, <3>1, <3>2
  <2> QED
    BY <2>1, <2>2
<1>6. /\ status' = [u \in Task |-> IF u = t THEN "done"
                                   ELSE IF u \in Unlocked(t) THEN "ready" ELSE status[u]]
      /\ unmet' = [u \in Task |-> UnmetAfter(t, u)]
      /\ arg1' = [u \in Task |-> IF u \in Dependents(Arg1, t) THEN v ELSE arg1[u]]
      /\ arg2' = [u \in Task |-> IF u \in Dependents(Arg2, t) THEN v ELSE arg2[u]]
      /\ result' = [result EXCEPT ![t] = v]
  <2>1. /\ status' = [u \in Task |-> status'[u]] /\ unmet' = [u \in Task |-> unmet'[u]]
        /\ arg1' = [u \in Task |-> arg1'[u]] /\ arg2' = [u \in Task |-> arg2'[u]]
        /\ result' = [u \in Task |-> result'[u]]
    BY DEF Commit
  <2>2. DOMAIN result = Task
    BY <1>2 DEF TypeOK
  <2>3. result' = [result EXCEPT ![t] = v]
    BY <1>5, <2>1, <2>2
  <2>4. status' = [u \in Task |-> IF u = t THEN "done"
                                  ELSE IF u \in Unlocked(t) THEN "ready" ELSE status[u]]
    BY <1>5, <2>1
  <2>5. unmet' = [u \in Task |-> UnmetAfter(t, u)]
    BY <1>5, <2>1
  <2>6. /\ arg1' = [u \in Task |-> IF u \in Dependents(Arg1, t) THEN v ELSE arg1[u]]
        /\ arg2' = [u \in Task |-> IF u \in Dependents(Arg2, t) THEN v ELSE arg2[u]]
    BY <1>5, <2>1
  <2> QED
    BY <2>3, <2>4, <2>5, <2>6
<1>7. /\ exprStatus' = [exprStatus EXCEPT ![e] = StatusAfter(t)]
      /\ exprResult' = [exprResult EXCEPT ![e] =
                           IF IsRoot(t) /\ exprStatus[e] \in Open THEN v ELSE exprResult[e]]
  <2>1. ASSUME NEW d \in Expr
        PROVE  /\ exprStatus'[d] = IF d = e THEN StatusAfter(t) ELSE exprStatus[d]
               /\ exprResult'[d] = IF d = e
                                   THEN IF IsRoot(t) /\ exprStatus[e] \in Open
                                        THEN v ELSE exprResult[e]
                                   ELSE exprResult[d]
    <3>1. CASE d = e /\ Touches(h)
      BY <3>1, CommitColumns DEF Closed
    <3>2. CASE d = e /\ ~ Touches(h)
      <4>1. exprStatus[e] # "pending" /\ ~ (IsRoot(t) /\ exprStatus[e] \in Open)
        BY <1>1, <1>2, <3>2 DEF ExprOK, Finalizes, T
      <4>2. StatusAfter(t) = exprStatus[e]
        BY <4>1 DEF StatusAfter, E
      <4> QED
        BY <3>2, <4>1, <4>2, CommitColumns DEF CommittedExpr
    <3>3. CASE d # e
      BY <3>3, CommitColumns DEF CommittedExpr
    <3> QED
      BY <3>1, <3>2, <3>3
  <2>2. /\ exprStatus' = [d \in Expr |-> exprStatus'[d]]
        /\ exprResult' = [d \in Expr |-> exprResult'[d]]
    BY DEF Commit
  <2>3. DOMAIN exprStatus = Expr /\ DOMAIN exprResult = Expr
    BY <1>2 DEF TypeOK
  <2>4. exprStatus' = [exprStatus EXCEPT ![e] = StatusAfter(t)]
    BY <2>1, <2>2, <2>3
  <2>5. exprResult' = [exprResult EXCEPT ![e] =
                          IF IsRoot(t) /\ exprStatus[e] \in Open THEN v ELSE exprResult[e]]
    BY <2>1, <2>2, <2>3
  <2> QED
    BY <2>4, <2>5
<1>8. Ready(h) = Unlocked(t) /\ Unlocked(t) \subseteq Task
  <2>1. \A u \in Writes(h) : version[h][u].unmet = UnmetOf(h, u) /\ u \in Task
    <3>1. \A u \in Writes(h) : version[h][u] = RowOf(h, u)
      BY <1>2 DEF RowsOK
    <3>2. \A u \in Writes(h) : RowOf(h, u).unmet = UnmetOf(h, u)
      BY DEF RowOf
    <3>3. \A u \in Writes(h) : u \in Task
      BY <1>1, CommitFacts
    <3> QED
      BY <3>1, <3>2, <3>3
  <2>2. Ready(h) = {u \in Writes(h) \ {t} : UnmetOf(h, u) = 0}
    BY <1>2, <2>1 DEF Ready, RowsOK, T
  <2>3. Unlocked(t) \subseteq Task
    BY <1>3 DEF Unlocked
  <2> QED
    BY <1>4, <2>1, <2>2, <2>3
<1>9. ASSUME NEW u \in Unlocked(t)
      PROVE  version[h][u].arg1 = arg1'[u] /\ version[h][u].arg2 = arg2'[u]
  <2>1. u \in Writes(h) /\ u \in Task
    BY <1>4, <1>8
  <2> QED
    BY <1>2, <2>1, CommitColumns DEF RowsOK
<1>10. \A u \in Unlocked(t) : arg1'[u] # NoValue /\ arg2'[u] # NoValue
  BY <1>1, <1>2, <1>8, <1>9 DEF QueuedOK
<1>11. queued[h] = {TaskBody(u, arg1'[u], arg2'[u]) : u \in Unlocked(t)}
                   \cup {AuditBody("task.done", t)}
                   \cup (IF IsRoot(t) THEN {AuditBody("expression.done", e)} ELSE {})
  <2>1. Messages(h) = {TaskBody(u, arg1'[u], arg2'[u]) : u \in Unlocked(t)}
    BY <1>8, <1>9 DEF Messages
  <2>2. Audits(h) = {AuditBody("task.done", t)}
                    \cup (IF IsRoot(t) THEN {AuditBody("expression.done", e)} ELSE {})
    BY DEF Audits, Ok, T, E
  <2>3. queued[h] = Messages(h) \cup Audits(h)
    BY <1>1, <1>2 DEF QueuedOK
  <2> QED
    BY <2>1, <2>2, <2>3
<1>12. t = work[h].task /\ v = work[h].value /\ e = ExprOf[t] /\ work[h].kind = "ok"
  BY DEF T, V, E, Ok
<1> HIDE DEF t, e, v
<1>13. FanIn(t, v)
  BY <1>1, <1>6, <1>7, <1>10, <1>11, <1>12 DEF FanIn
<1> QED
  BY <1>2, <1>12, <1>13 DEF ApplyResult

-----------------------------------------------------------------------------
(* Every step is one of ExpressionStore's, or leaves its tables alone.     *)
LEMMA CommitStep ==
  ASSUME StoreInv, TxInv, NEW h \in Handler, Commit(h)
  PROVE  work[h] \in reported /\ HandleResult(work[h])
<1>1. stage[h] = "commit" /\ UNCHANGED <<relayVars, dispatched, reported>>
  BY DEF Commit
<1>2. work[h] \in reported
  BY <1>1, CommitFacts
<1>3. ApplyResult(work[h]) \/ ApplyFailure(work[h])
  BY CommitResult, CommitFailure
<1> QED
  BY <1>1, <1>2, <1>3 DEF HandleResult

LEMMA StatementQuiet ==
  ASSUME NEW h \in Handler, Statement(h)
  PROVE  UNCHANGED storeVars
BY DEF Statement, Settle, Progress, ScanFirst, ScanSecond, Scan, Fill, Unlock, Finalize

LEMMA StepRefines ==
  ASSUME StoreInv, TxInv, [TxNext]_allVars
  PROVE  [Next]_storeVars
<1>1. CASE UNCHANGED allVars
  BY <1>1 DEF allVars
<1>2. ASSUME NEW h \in Handler,
             (\E m \in reported : Begin(h, m)) \/ Statement(h) \/ Abort(h)
      PROVE  UNCHANGED storeVars
  <2>1. CASE Statement(h)
    BY <2>1, StatementQuiet
  <2> QED
    BY <1>2, <2>1 DEF Begin, Abort
<1>3. ASSUME NEW h \in Handler, Commit(h) PROVE Next
  BY <1>3, CommitStep DEF Next
<1>4. ASSUME NEW m \in reported, Started(m) PROVE Next
  BY <1>4 DEF Next, Started, HandleResult
<1>5. CASE \/ \E e \in Expr : Submit(e)
           \/ \E m \in Assigned : \E sent \in AgentReports(m) : AgentReport(m, sent)
           \/ \E r \in Replica : Relay(r)
           \/ PruneOutbox
  BY <1>5 DEF Next
<1> QED
  BY <1>1, <1>2, <1>3, <1>4, <1>5 DEF TxNext

-----------------------------------------------------------------------------
(* The invariant is inductive.                                             *)

LEMMA TxInitial == TxInit => TxInv
<1> SUFFICES ASSUME TxInit PROVE TxInv
  OBVIOUS
<1>1. TxFunctions
  BY DEF TxInit, TxFunctions, Stage
<1>2. ASSUME NEW h \in Handler PROVE HandlerOK(h)
  BY DEF TxInit, HandlerOK, Resting, NoRows
<1>3. ASSUME NEW g \in Handler, NEW h \in Handler PROVE Apart(g, h)
  BY DEF TxInit, Apart, NoRows
<1> QED
  BY <1>1, <1>2, <1>3 DEF TxInv

(* One handler's step, if it leaves the others in order.                   *)
LEMMA Together ==
  ASSUME TxInv, NEW h \in Handler, StepOK(h), \A g \in Handler \ {h} : HandlerOK(g)'
  PROVE  TxInv'
<1>1. ASSUME NEW g \in Handler, NEW k \in Handler, g # k PROVE Apart(g, k)'
  <2>1. CASE g = h \/ k = h
    BY <1>1, <2>1 DEF StepOK, Apart
  <2>2. CASE g # h /\ k # h
    BY <1>1, <2>2 DEF StepOK, Others, Apart, TxInv
  <2> QED
    BY <2>1, <2>2
<1>2. \A g \in Handler : HandlerOK(g)'
  BY DEF StepOK
<1> QED
  BY <1>1, <1>2 DEF StepOK, TxInv

(* A step that leaves the committed state alone.                           *)
LEMMA Quiet ==
  ASSUME TxInv, NEW h \in Handler, StepOK(h), UNCHANGED storeVars
  PROVE  TxInv'
<1>1. ASSUME NEW g \in Handler \ {h} PROVE HandlerOK(g)'
  <2>1. TxFunctions /\ HandlerOK(g) /\ g \in Handler
    BY DEF TxInv
  <2>2. /\ work'[g] = work[g] /\ stage'[g] = stage[g] /\ version'[g] = version[g]
        /\ exprVersion'[g] = exprVersion[g] /\ left'[g] = left[g] /\ queued'[g] = queued[g]
    BY DEF StepOK, Others
  <2>3. UNCHANGED <<exprStatus, exprResult, status, unmet, arg1, arg2, result, reported>>
    BY DEF storeVars, exprVars, taskVars
  <2> QED
    BY <2>1, <2>2, <2>3, Frame
<1> QED
  BY <1>1, Together

(* A commit closes or moves on an expression at most.                      *)
LEMMA ExpressionsAdvance ==
  ASSUME StoreInv, StoreInv', [Next]_storeVars, NEW e \in Expr, exprStatus[e] # "absent"
  PROVE  /\ exprStatus[e] # "pending" => exprStatus'[e] # "pending"
         /\ exprStatus[e] \notin Open => exprStatus'[e] \notin Open
<1>1. TypeOK /\ FanInInv /\ e \in Expr
  BY DEF StoreInv, OutboxInv
<1>2. CASE UNCHANGED exprVars
  BY <1>2 DEF exprVars
<1>3. ASSUME NEW d \in Expr, Submit(d) PROVE d # e /\ exprStatus'[e] = exprStatus[e]
  BY <1>1, <1>3 DEF Submit, CreateExpression, FinalizeImmediate, TypeOK
<1>4. ASSUME NEW m \in reported, HandleResult(m)
      PROVE  exprStatus'[e] = exprStatus[e] \/ exprStatus'[e] \in {"in_progress"} \cup Settled
  <2>1. CASE ApplyStarted(m)
    BY <2>1 DEF ApplyStarted, exprVars
  <2>2. CASE ApplyResult(m)
    BY <1>1, <2>2 DEF ApplyResult, FanIn, StatusAfter, exprVars, TypeOK, Settled
  <2>3. CASE ApplyFailure(m)
    BY <1>1, <2>3 DEF ApplyFailure, exprVars, TypeOK, Settled
  <2> QED
    BY <1>4, <2>1, <2>2, <2>3 DEF HandleResult
<1>5. exprStatus[e] \in Settled => exprStatus'[e] = exprStatus[e]
  BY <1>1, SettledStep
<1>6. exprStatus[e] \in Open \cup Settled
  BY <1>1 DEF TypeOK
<1>7. \/ UNCHANGED exprVars
      \/ \E d \in Expr : Submit(d)
      \/ \E m \in reported : HandleResult(m)
  BY DEF Next, storeVars, AgentReport, Relay, RelayClaim, RelayPublish, RelayCommit, RelayAbort,
         PruneOutbox
<1> QED
  BY <1>2, <1>3, <1>4, <1>5, <1>6, <1>7 DEF Open, Settled

(* What a transaction holds is of the expression its task belongs to.      *)
LEMMA HeldFacts ==
  ASSUME StoreInv, TxInv, NEW h \in Handler
  PROVE  /\ \A u \in DOMAIN version[h] : u \in Task /\ ExprOf[u] = E(h)
         /\ stage[h] \in {"idle", "settle"} => ~ Touches(h) /\ DOMAIN version[h] = {}
         /\ stage[h] \notin {"idle", "settle"} =>
               /\ E(h) \in Expr /\ exprStatus[E(h)] # "absent"
               /\ T(h) \in Task /\ T(h) \in DOMAIN version[h]
<1>1. TxFunctions /\ HandlerOK(h)
  BY DEF TxInv
<1>2. CASE stage[h] \in {"idle", "settle"}
  BY <1>1, <1>2 DEF HandlerOK, Resting, Touches
<1>3. CASE stage[h] \notin {"idle", "settle"}
  <2>1. E(h) \in Expr /\ exprStatus[E(h)] # "absent" /\ T(h) \in Task
    BY <1>1, <1>3, WorkFacts
  <2>2. DOMAIN version[h] = Writes(h)
    BY <1>1, <1>3 DEF HandlerOK, Holding, RowsOK
  <2>3. Writes(h) \subseteq {T(h)} \cup Parents(Arg1, T(h)) \cup Parents(Arg2, T(h))
        /\ T(h) \in Writes(h)
    BY DEF Writes, Filled1, Filled2
  <2>4. \A u \in DOMAIN version[h] : u \in Task /\ ExprOf[u] = ExprOf[T(h)]
    BY <2>1, <2>2, <2>3, ParentsFacts
  <2> QED
    BY <1>3, <2>1, <2>2, <2>3, <2>4 DEF E
<1> QED
  BY <1>2, <1>3

(* Steps that are no handler's.                                            *)
LEMMA OutsideStep ==
  ASSUME StoreInv, TxInv, StoreInv', [Next]_storeVars, UNCHANGED txVars,
         reported \subseteq reported',
         \A h \in Handler : \A u \in DOMAIN version[h] :
            /\ status'[u] = status[u] /\ unmet'[u] = unmet[u] /\ arg1'[u] = arg1[u]
            /\ arg2'[u] = arg2[u] /\ result'[u] = result[u],
         \A h \in Handler : Touches(h) => exprStatus'[E(h)] = exprStatus[E(h)]
                                          /\ exprResult'[E(h)] = exprResult[E(h)]
  PROVE  TxInv'
<1>1. TxFunctions' /\ \A g, h \in Handler : g # h => Apart(g, h)'
  BY DEF TxInv, TxFunctions, Apart, txVars
<1>2. ASSUME NEW h \in Handler PROVE HandlerOK(h)'
  <2>1. TxFunctions /\ HandlerOK(h)
    BY DEF TxInv
  <2>2. /\ work'[h] = work[h] /\ stage'[h] = stage[h] /\ version'[h] = version[h]
        /\ exprVersion'[h] = exprVersion[h] /\ left'[h] = left[h] /\ queued'[h] = queued[h]
    BY DEF txVars
  <2>3. stage[h] \notin {"idle", "settle"} =>
            /\ exprStatus[E(h)] # "pending" => exprStatus'[E(h)] # "pending"
            /\ exprStatus[E(h)] \notin Open => exprStatus'[E(h)] \notin Open
    BY HeldFacts, ExpressionsAdvance
  <2>4. T(h) \in DOMAIN version[h] => status'[T(h)] = status[T(h)]
    OBVIOUS
  <2> QED
    BY <2>1, <2>2, <2>3, <2>4, Frame
<1> QED
  BY <1>1, <1>2 DEF TxInv

LEMMA StartedStep ==
  ASSUME StoreInv, TxInv, StoreInv', [Next]_storeVars, NEW m \in reported, Started(m)
  PROVE  TxInv'
<1>1. /\ UNCHANGED <<txVars, reported, exprVars, unmet, arg1, arg2, result>>
      /\ status[m.task] \in Runnable => \A h \in Handler : m.task \notin DOMAIN version[h]
      /\ status' = IF status[m.task] \in Runnable
                   THEN [status EXCEPT ![m.task] = "running"] ELSE status
  BY DEF Started, ApplyStarted
<1>2. DOMAIN status = Task
  BY DEF StoreInv, OutboxInv, TypeOK
<1>3. ASSUME NEW h \in Handler, NEW u \in DOMAIN version[h] PROVE status'[u] = status[u]
  <2>1. u \in Task
    BY HeldFacts
  <2> QED
    BY <1>1, <1>2, <2>1
<1>4. \A h \in Handler : \A u \in DOMAIN version[h] :
            /\ status'[u] = status[u] /\ unmet'[u] = unmet[u] /\ arg1'[u] = arg1[u]
            /\ arg2'[u] = arg2[u] /\ result'[u] = result[u]
  BY <1>1, <1>3
<1> QED
  BY <1>1, <1>4, OutsideStep DEF exprVars

LEMMA SubmitStep ==
  ASSUME StoreInv, TxInv, StoreInv', [Next]_storeVars, UNCHANGED txVars,
         NEW d \in Expr, Submit(d)
  PROVE  TxInv'
<1>1. TypeOK /\ exprStatus[d] = "absent" /\ UNCHANGED reported
  BY DEF Submit, CreateExpression, FinalizeImmediate, StoreInv, OutboxInv
<1>2. ASSUME NEW h \in Handler, NEW u \in DOMAIN version[h]
      PROVE  u \in Task /\ u \notin TasksOf(d)
  <2>1. u \in Task /\ ExprOf[u] = E(h) /\ E(h) # d
    BY <1>1, <1>2, HeldFacts
  <2> QED
    BY <2>1 DEF TasksOf
<1>3. \A u \in Task \ TasksOf(d) :
            /\ status'[u] = status[u] /\ unmet'[u] = unmet[u] /\ arg1'[u] = arg1[u]
            /\ arg2'[u] = arg2[u] /\ result'[u] = result[u]
  BY DEF Submit, CreateExpression, FinalizeImmediate, taskVars
<1>4. ASSUME NEW h \in Handler, Touches(h)
      PROVE  exprStatus'[E(h)] = exprStatus[E(h)] /\ exprResult'[E(h)] = exprResult[E(h)]
  <2>1. E(h) \in Expr /\ E(h) # d
    BY <1>1, <1>4, HeldFacts
  <2> QED
    BY <1>1, <2>1 DEF Submit, CreateExpression, FinalizeImmediate, TypeOK
<1>5. \A h \in Handler : \A u \in DOMAIN version[h] :
            /\ status'[u] = status[u] /\ unmet'[u] = unmet[u] /\ arg1'[u] = arg1[u]
            /\ arg2'[u] = arg2[u] /\ result'[u] = result[u]
  BY <1>2, <1>3
<1> QED
  BY <1>1, <1>4, <1>5, OutsideStep

(* The rows another transaction commits are not those one holds.           *)
LEMMA CommitKeeps ==
  ASSUME StoreInv, TxInv, StoreInv', [Next]_storeVars, NEW h \in Handler, Commit(h)
  PROVE  TxInv'
<1>1. stage[h] = "commit" /\ reported' = reported
  BY DEF Commit
<1>2. StepOK(h)
  BY ReleaseStep DEF Commit
<1>3. RowsOK(h) /\ ExprOK(h) /\ TypeOK
  BY <1>1, CommitFacts
<1>4. ASSUME NEW g \in Handler \ {h} PROVE HandlerOK(g)'
  <2>1. TxFunctions /\ HandlerOK(g) /\ Apart(g, h) /\ g \in Handler
    BY DEF TxInv
  <2>2. /\ work'[g] = work[g] /\ stage'[g] = stage[g] /\ version'[g] = version[g]
        /\ exprVersion'[g] = exprVersion[g] /\ left'[g] = left[g] /\ queued'[g] = queued[g]
    BY <1>2 DEF StepOK, Others
  <2>3. ASSUME NEW u \in DOMAIN version[g]
        PROVE  /\ status'[u] = status[u] /\ unmet'[u] = unmet[u] /\ arg1'[u] = arg1[u]
               /\ arg2'[u] = arg2[u] /\ result'[u] = result[u]
    <3>1. u \in Task /\ u \notin Writes(h)
      BY <1>3, <2>1, HeldFacts DEF Apart, RowsOK
    <3> QED
      BY <3>1, CommitColumns DEF Committed
  <2>4. ASSUME Touches(g)
        PROVE  exprStatus'[E(g)] = exprStatus[E(g)] /\ exprResult'[E(g)] = exprResult[E(g)]
    <3>1. E(g) \in Expr /\ ~ (E(g) = E(h) /\ Touches(h))
      BY <2>1, <2>4, HeldFacts DEF Apart, Touches
    <3> QED
      BY <3>1, CommitColumns DEF CommittedExpr
  <2>5. stage[g] \notin {"idle", "settle"} =>
            /\ exprStatus[E(g)] # "pending" => exprStatus'[E(g)] # "pending"
            /\ exprStatus[E(g)] \notin Open => exprStatus'[E(g)] \notin Open
    BY <2>1, HeldFacts, ExpressionsAdvance
  <2>6. T(g) \in DOMAIN version[g] => status'[T(g)] = status[T(g)]
    BY <2>3
  <2> QED
    BY <1>1, <2>1, <2>2, <2>3, <2>4, <2>5, <2>6, Frame
<1> QED
  BY <1>2, <1>4, Together

LEMMA TxStep ==
  ASSUME StoreInv, TxInv, [TxNext]_allVars
  PROVE  StoreInv' /\ TxInv'
<1>1. [Next]_storeVars
  BY StepRefines
<1>2. StoreInv'
  BY <1>1, StoreStep
<1>3. CASE UNCHANGED allVars
  <2>1. UNCHANGED <<txVars, storeVars>>
    BY <1>3 DEF allVars
  <2> QED
    BY <1>1, <1>2, <2>1, OutsideStep DEF storeVars, taskVars, exprVars
<1>4. ASSUME NEW h \in Handler, NEW m \in reported, Begin(h, m) PROVE TxInv'
  BY <1>4, BeginStep, Quiet DEF Begin
<1>5. ASSUME NEW h \in Handler, Statement(h) PROVE TxInv'
  <2>1. UNCHANGED storeVars
    BY <1>5, StatementQuiet
  <2>2. StepOK(h)
    BY <1>5, SettleStep, ProgressStep, ScanStep, FillStep, UnlockStep, FinalizeStep DEF Statement
  <2> QED
    BY <2>1, <2>2, Quiet
<1>6. ASSUME NEW h \in Handler, Commit(h) PROVE TxInv'
  BY <1>1, <1>2, <1>6, CommitKeeps
<1>7. ASSUME NEW h \in Handler, Abort(h) PROVE TxInv'
  BY <1>7, ReleaseStep, Quiet DEF Abort
<1>8. ASSUME NEW m \in reported, Started(m) PROVE TxInv'
  BY <1>1, <1>2, <1>8, StartedStep
<1>9. ASSUME NEW d \in Expr, Submit(d), UNCHANGED txVars PROVE TxInv'
  BY <1>1, <1>2, <1>9, SubmitStep
<1>10. ASSUME UNCHANGED txVars,
              \/ \E m \in Assigned : \E sent \in AgentReports(m) : AgentReport(m, sent)
              \/ \E r \in Replica : Relay(r)
              \/ PruneOutbox
       PROVE  TxInv'
  <2>1. UNCHANGED <<exprVars, taskVars>> /\ reported \subseteq reported'
    BY <1>10 DEF AgentReport, Relay, RelayClaim, RelayPublish, RelayCommit, RelayAbort, PruneOutbox
  <2> QED
    BY <1>1, <1>2, <1>10, <2>1, OutsideStep DEF taskVars, exprVars
<1> QED
  BY <1>2, <1>3, <1>4, <1>5, <1>6, <1>7, <1>8, <1>9, <1>10 DEF TxNext

LEMMA TxInvariant == TxSpec => [](StoreInv /\ TxInv)
<1>1. TxInit => StoreInv /\ TxInv
  BY TxInitial, OutboxInit, FanInInit DEF TxInit, StoreInv
<1>2. StoreInv /\ TxInv /\ [TxNext]_allVars => (StoreInv /\ TxInv)'
  BY TxStep
<1> QED
  BY <1>1, <1>2, PTL DEF TxSpec

(* Whatever statements of concurrent transactions fall between those of    *)
(* one, READ COMMITTED and its row locks make HandleResult the single step *)
(* ExpressionStore takes it for: what is proved of the store holds of the  *)
(* transactions as they are.                                               *)
THEOREM TransactionsAreAtomic == TxSpec => ImplementsAtomic
<1>1. TxInit => Init
  BY DEF TxInit
<1>2. StoreInv /\ TxInv /\ [TxNext]_allVars => [Next]_storeVars
  BY StepRefines
<1> QED
  BY <1>1, <1>2, TxInvariant, PTL DEF TxSpec, ImplementsAtomic, Spec

-----------------------------------------------------------------------------
(* No ring of waiting transactions: one that waits is waited for by those  *)
(* only that want an earlier row, and after three of them the chain ends.  *)

LEMMA RingFacts ==
  ASSUME StoreInv, TxInv, NEW h \in Handler
  PROVE  /\ TypeOK /\ FanInInv /\ HandlerOK(h)
         /\ stage[h] \in {"idle", "settle"} =>
               DOMAIN version[h] = {} /\ DOMAIN exprVersion[h] = {}
         /\ stage[h] \notin {"idle", "settle"} =>
               /\ T(h) \in Task /\ Launched(T(h)) /\ status[T(h)] # "done"
               /\ DOMAIN version[h] = Writes(h) /\ T(h) \in Writes(h)
               /\ ExprOK(h) /\ LeftOK(h)
               /\ Ok(h) \/ stage[h] \in {"finalize", "commit"}
<1>1. TypeOK /\ FanInInv /\ HandlerOK(h)
  BY DEF TxInv, StoreInv, OutboxInv
<1>2. CASE stage[h] \in {"idle", "settle"}
  BY <1>1, <1>2 DEF HandlerOK, Resting
<1>3. CASE stage[h] \notin {"idle", "settle"}
  BY <1>1, <1>3, WorkFacts DEF HandlerOK, Holding, RowsOK, Writes, Settled
<1> QED
  BY <1>1, <1>2, <1>3

(* Who is waited for holds a row.                                          *)
LEMMA WaitedForHolds ==
  ASSUME StoreInv, TxInv, NEW h \in Handler, NEW g \in Handler, WaitsFor(h, g)
  PROVE  stage[g] \notin {"idle", "settle"}
BY RingFacts DEF WaitsFor

(* The row a fill waits for is one its holder has filled, and the last it  *)
(* fills: the holder waits for nobody.                                     *)
LEMMA FillEndsChain ==
  ASSUME StoreInv, TxInv, NEW h \in Handler, NEW g \in Handler, NEW k \in Handler,
         stage[h] \in {"fill1", "fill2"}, WaitsFor(h, g), WaitsFor(g, k)
  PROVE  FALSE
<1>1. g # h /\ k # g /\ stage[g] \notin {"idle", "settle"} /\ stage[k] \notin {"idle", "settle"}
  BY WaitedForHolds DEF WaitsFor
<1>2. PICK u \in left[h] : u \in DOMAIN version[g]
  BY DEF WaitsFor
<1>3. u \in Parents(Arg1, T(h)) \cup Parents(Arg2, T(h)) /\ T(h) \in Task
      /\ Launched(T(h)) /\ status[T(h)] # "done"
  BY RingFacts DEF LeftOK
<1>4. u \in Task /\ T(h) \in Operands(u) /\ status[u] = "pending"
  BY <1>3, RingFacts, ParentsFacts, DependentsKnown
<1>5. u # T(g)
  BY <1>1, <1>4, RingFacts DEF Launched
<1>6. Ok(g) /\ T(g) \in Task /\ u \in Parents(Arg1, T(g)) \cup Parents(Arg2, T(g))
  BY <1>1, <1>2, <1>5, RingFacts DEF Writes, Filled1, Filled2
<1>7. T(g) \in Operands(u) /\ ~ IsRoot(T(g))
  BY <1>6, ParentsFacts, RootTop
<1>8. stage[g] \notin {"progress", "scan"}
  BY <1>1, <1>2, <1>5, RingFacts DEF Writes, Filled1, Filled2, FirstDone
<1>9. stage[g] \in {"fill1", "fill2"}
  <2>1. ~ Finalizes(g)
    BY <1>1, <1>6, <1>7 DEF Finalizes, Ok, T
  <2> QED
    BY <1>1, <1>8, <2>1 DEF WaitsFor
<1>10. PICK w \in left[g] : w \in DOMAIN version[k]
  BY <1>9 DEF WaitsFor
<1>11. w \in Task /\ T(g) \in Operands(w)
  BY <1>1, <1>6, <1>9, <1>10, RingFacts, ParentsFacts DEF LeftOK
<1>12. w = u
  BY <1>4, <1>6, <1>7, <1>11, TreeAssumption
<1> QED
  BY <1>1, <1>2, <1>10, <1>12 DEF TxInv, Apart

(* So does the holder of an expression nothing has moved on yet.           *)
LEMMA ProgressEndsChain ==
  ASSUME StoreInv, TxInv, NEW h \in Handler, NEW g \in Handler, NEW k \in Handler,
         stage[h] = "progress", WaitsFor(h, g), WaitsFor(g, k)
  PROVE  FALSE
<1>1. g # h /\ k # g /\ stage[g] \notin {"idle", "settle"} /\ stage[k] \notin {"idle", "settle"}
  BY WaitedForHolds DEF WaitsFor
<1>2. exprStatus[E(h)] = "pending" /\ E(h) \in DOMAIN exprVersion[g]
  BY DEF WaitsFor, E, T
<1>3. E(g) = E(h) /\ Touches(g) /\ exprStatus[E(g)] = "pending"
  BY <1>1, <1>2, RingFacts DEF ExprOK, Touches
<1>4. E(g) \notin DOMAIN exprVersion[k]
  BY <1>1, <1>3 DEF TxInv, Apart, Touches
<1>5. stage[g] \in {"fill1", "fill2"}
  BY <1>1, <1>3, <1>4, RingFacts DEF WaitsFor, ExprOK, E, T
<1>6. PICK u \in left[g] : u \in DOMAIN version[k]
  BY <1>5 DEF WaitsFor
<1>7. u \in Task /\ ExprOf[u] = E(g) /\ status[u] = "pending"
  <2>1. u \in Parents(Arg1, T(g)) \cup Parents(Arg2, T(g)) /\ T(g) \in Task
        /\ Launched(T(g)) /\ status[T(g)] # "done"
    BY <1>5, RingFacts DEF LeftOK
  <2> QED
    BY <2>1, RingFacts, ParentsFacts, DependentsKnown DEF E
<1>8. ExprOf[u] = E(k)
  BY <1>6, HeldFacts
<1>9. u # T(k)
  BY <1>1, <1>7, RingFacts DEF Launched
<1>10. Ok(k) /\ stage[k] \in {"fill1", "fill2", "finalize", "commit"}
  BY <1>1, <1>6, <1>9, RingFacts DEF Writes, Filled1, Filled2, FirstDone
<1>11. ~ Touches(k) /\ exprStatus[E(k)] = "pending"
  BY <1>3, <1>4, <1>7, <1>8 DEF Touches
<1> QED
  BY <1>1, <1>10, <1>11, RingFacts DEF ExprOK

(* Who waits to close an expression waits for one that fills, if for one   *)
(* that waits at all.                                                      *)
LEMMA FinalizeMeetsFill ==
  ASSUME StoreInv, TxInv, NEW h \in Handler, NEW g \in Handler, NEW k \in Handler,
         stage[h] = "finalize", WaitsFor(h, g), WaitsFor(g, k)
  PROVE  stage[g] \in {"fill1", "fill2"}
<1>1. g # h /\ k # g /\ stage[g] \notin {"idle", "settle"}
  BY WaitedForHolds DEF WaitsFor
<1>2. Touches(g) /\ stage[g] # "progress"
  BY <1>1, RingFacts DEF WaitsFor, ExprOK, Touches, E, T
<1>3. E(g) \notin DOMAIN exprVersion[k]
  BY <1>1, <1>2 DEF TxInv, Apart, Touches
<1> QED
  BY <1>1, <1>2, <1>3 DEF WaitsFor, E, T

(* Results of one expression may be handled side by side: no consumers     *)
(* ever wait for each other in a ring, however many there are.             *)
THEOREM ConsumersNeverDeadlock == TxSpec => []NoDeadlock
<1>1. StoreInv /\ TxInv => NoDeadlock
  <2> SUFFICES ASSUME StoreInv, TxInv, NEW ring \in (SUBSET Handler) \ {{}},
                      \A h \in ring : \E g \in ring : WaitsFor(h, g)
               PROVE  FALSE
    BY DEF NoDeadlock
  <2>1. ring \subseteq Handler /\ ring # {}
    OBVIOUS
  <2>2. ASSUME NEW h \in ring PROVE stage[h] \notin {"fill1", "fill2"}
    <3>1. PICK g \in ring : WaitsFor(h, g)
      OBVIOUS
    <3>2. PICK k \in ring : WaitsFor(g, k)
      OBVIOUS
    <3> QED
      BY <2>1, <3>1, <3>2, FillEndsChain
  <2>3. ASSUME NEW h \in ring PROVE stage[h] \notin {"progress", "finalize"}
    <3>1. PICK g \in ring : WaitsFor(h, g)
      OBVIOUS
    <3>2. PICK k \in ring : WaitsFor(g, k)
      OBVIOUS
    <3> QED
      BY <2>1, <2>2, <3>1, <3>2, ProgressEndsChain, FinalizeMeetsFill
  <2>4. PICK h \in ring : TRUE
    BY <2>1
  <2>5. PICK g \in ring : WaitsFor(h, g)
    OBVIOUS
  <2>6. stage[g] \notin {"idle", "settle"}
    BY <2>1, <2>5, WaitedForHolds
  <2>7. \E k \in ring : WaitsFor(g, k)
    OBVIOUS
  <2> QED
    BY <2>2, <2>3, <2>6, <2>7 DEF WaitsFor
<1> QED
  BY <1>1, TxInvariant, PTL DEF TxSpec

(* So the store's theorems are about the transactions as they are: in      *)
(* particular, a done expression has the one answer its arithmetic has,    *)
(* however the statements of the consumers' transactions interleave.       *)
THEOREM AnswersCorrectSideBySide == TxSpec => []AnswersCorrect
  BY TransactionsAreAtomic, AnswersAreCorrect, PTL DEF ImplementsAtomic
=============================================================================
