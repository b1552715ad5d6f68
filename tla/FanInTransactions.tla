------------------------- MODULE FanInTransactions --------------------------
(***************************************************************************)
(* The transactions of HandleResult, statement by statement.               *)
(*                                                                         *)
(* ExpressionStore takes ApplyResult and ApplyFailure for single steps.    *)
(* In the code they are up to seven statements of a READ COMMITTED         *)
(* transaction, and the results of one expression are handled by several   *)
(* consumers at once: two of them may fill the two arguments of one task.  *)
(* Here every statement is a step.  An UPDATE finds its rows in what was   *)
(* committed when it started, waits for a row another transaction has      *)
(* written, and looks at the row again before it writes it.                *)
(*                                                                         *)
(* The variables of ExpressionStore are the committed state.  What an open *)
(* transaction has written is its own until it commits.                    *)
(***************************************************************************)
EXTENDS ExpressionStore

CONSTANTS Handler,   \* result consumers of all orchestrator processes
          NoWork     \* what an idle one handles

(* A task is waited for by one task only, as one of its arguments: plans   *)
(* are trees (planner.go builds the task of a node once).                  *)
ASSUME TreeAssumption ==
    \A t \in Task : \A u, w \in {x \in Task : t \in Operands(x)} : u = w

VARIABLES
    work,         \* the result message each handler is at
    stage,        \* the statement it executes next
    version,      \* the task rows its transaction has written
    exprVersion,  \* the expression row it has written or locked
    left,         \* rows its UPDATE has found and not yet looked at again
    queued        \* bodies of the outbox rows it has inserted

txVars == <<work, stage, version, exprVersion, left, queued>>
allVars == <<storeVars, txVars>>

Stage == {"idle", "settle", "progress", "scan", "fill1", "fill2", "finalize", "commit"}
TaskRow == [status : {"absent", "pending"} \cup Runnable \cup Settled, unmet : Int,
            arg1 : Value \cup {NoValue}, arg2 : Value \cup {NoValue},
            result : Value \cup {NoValue}]
ExprRow == [status : {"absent"} \cup Open \cup Settled, result : Value \cup {NoValue}]

NoRows == [x \in {} |-> NoWork]

TxInit ==
    /\ Init
    /\ work = [h \in Handler |-> NoWork]
    /\ stage = [h \in Handler |-> "idle"]
    /\ version = [h \in Handler |-> NoRows]
    /\ exprVersion = [h \in Handler |-> NoRows]
    /\ left = [h \in Handler |-> {}]
    /\ queued = [h \in Handler |-> {}]

-----------------------------------------------------------------------------
(* Rows: as committed, as a transaction sees them, and who holds them.     *)
Committed(u) == [status |-> status[u], unmet |-> unmet[u], arg1 |-> arg1[u],
                 arg2 |-> arg2[u], result |-> result[u]]
CommittedExpr(e) == [status |-> exprStatus[e], result |-> exprResult[e]]

Seen(h, u) == IF u \in DOMAIN version[h] THEN version[h][u] ELSE Committed(u)
SeenExpr(h, e) == IF e \in DOMAIN exprVersion[h] THEN exprVersion[h][e] ELSE CommittedExpr(e)

\* Faulty variant: nobody waits for a row that has been written.
NeverHeld(h, u) == FALSE
Held(h, u) == \E g \in Handler \ {h} : u \in DOMAIN version[g]
HeldExpr(h, e) == \E g \in Handler \ {h} : e \in DOMAIN exprVersion[g]

With(rows, x, row) == [y \in DOMAIN rows \cup {x} |-> IF y = x THEN row ELSE rows[y]]
Write(h, u, row) == version' = [version EXCEPT ![h] = With(version[h], u, row)]
WriteExpr(h, e, row) == exprVersion' = [exprVersion EXCEPT ![h] = With(exprVersion[h], e, row)]

Goto(h, next) == stage' = [stage EXCEPT ![h] = next]

-----------------------------------------------------------------------------
(* ACTION: Begin.   WHO: a consumer that takes a result off the queue      *)
(* The same result may be at several consumers, once per delivery.         *)
Begin(h, m) ==
    /\ stage[h] = "idle"
    /\ m.kind \in {"ok", "error"}
    /\ work' = [work EXCEPT ![h] = m]
    /\ Goto(h, "settle")
    /\ UNCHANGED <<storeVars, version, exprVersion, left, queued>>

Release(h) ==
    /\ work' = [work EXCEPT ![h] = NoWork]
    /\ Goto(h, "idle")
    /\ version' = [version EXCEPT ![h] = NoRows]
    /\ exprVersion' = [exprVersion EXCEPT ![h] = NoRows]
    /\ left' = [left EXCEPT ![h] = {}]
    /\ queued' = [queued EXCEPT ![h] = {}]

(* STATEMENT: CompleteTask, FailTask.  No row of a settled task: the       *)
(* transaction commits nothing.                                            *)
Settle(h) ==
    LET m == work[h]
        t == m.task
    IN  /\ stage[h] = "settle"
        /\ IF status[t] \in Settled THEN Release(h)
           ELSE /\ ~ Held(h, t)
                /\ IF m.kind = "ok"
                   THEN /\ Write(h, t, [Committed(t) EXCEPT !.status = "done",
                                                            !.result = m.value])
                        /\ Goto(h, "progress")
                   ELSE /\ Write(h, t, [Committed(t) EXCEPT !.status = "failed"])
                        /\ Goto(h, "finalize")
                /\ UNCHANGED <<work, exprVersion, left, queued>>
        /\ UNCHANGED storeVars

(* STATEMENT: MarkExpressionInProgress.  A row that was pending when the   *)
(* statement started and is not when its holder has committed is left      *)
(* alone, but stays locked.                                                *)
Progress(h) ==
    LET e == ExprOf[work[h].task]
    IN  /\ stage[h] = "progress"
        /\ \/ /\ exprStatus[e] = "pending" /\ ~ HeldExpr(h, e)
              /\ WriteExpr(h, e, [CommittedExpr(e) EXCEPT !.status = "in_progress"])
           \/ /\ exprStatus[e] # "pending" /\ ~ HeldExpr(h, e)
              /\ WriteExpr(h, e, CommittedExpr(e))
           \/ /\ exprStatus[e] # "pending"
              /\ UNCHANGED exprVersion
        /\ Goto(h, "scan")
        /\ UNCHANGED <<storeVars, work, version, left, queued>>

\* Faulty variant: every open task of the expression is updated.
ScanExpression(h, arg, next) ==
    /\ left' = [left EXCEPT ![h] = {u \in TasksOf(ExprOf[work[h].task]) :
                                      u # work[h].task /\ status[u] \notin Settled}]
    /\ Goto(h, next)
    /\ UNCHANGED <<storeVars, work, version, exprVersion, queued>>

(* STATEMENT: FillArg1FromResult, FillArg2FromResult.  The rows it will    *)
(* look at are those its snapshot shows.                                   *)
Scan(h, arg, next) ==
    /\ left' = [left EXCEPT ![h] = Dependents(arg, work[h].task)]
    /\ Goto(h, next)
    /\ UNCHANGED <<storeVars, work, version, exprVersion, queued>>

ScanFirst(h)  == stage[h] = "scan" /\ Scan(h, Arg1, "fill1")
ScanSecond(h) == stage[h] = "fill1" /\ left[h] = {} /\ Scan(h, Arg2, "fill2")

(* One row of it, once nobody else holds the row; its WHERE is asked again.*)
Filled(h, row) ==
    IF stage[h] = "fill1" THEN [row EXCEPT !.arg1 = work[h].value, !.unmet = row.unmet - 1]
                          ELSE [row EXCEPT !.arg2 = work[h].value, !.unmet = row.unmet - 1]

Fill(h, u) ==
    /\ stage[h] \in {"fill1", "fill2"}
    /\ u \in left[h] /\ ~ Held(h, u)
    /\ left' = [left EXCEPT ![h] = left[h] \ {u}]
    /\ IF Seen(h, u).status = "pending" THEN Write(h, u, Filled(h, Seen(h, u)))
                                        ELSE UNCHANGED version
    /\ UNCHANGED <<storeVars, work, stage, exprVersion, queued>>

(* unlockReadyDependents: the rows returned with no unmet dependency are   *)
(* queued and marked ready.  All of them are the transaction's already. A  *)
(* NULL argument is an error (Abort).                                      *)
Ready(h) == {u \in DOMAIN version[h] \ {work[h].task} : version[h][u].unmet = 0}

Unlock(h) ==
    LET rows == version[h]
    IN  /\ stage[h] = "fill2" /\ left[h] = {}
        /\ \A u \in Ready(h) : rows[u].arg1 # NoValue /\ rows[u].arg2 # NoValue
        /\ version' = [version EXCEPT ![h] =
                          [u \in DOMAIN rows |->
                              IF u \in Ready(h) /\ rows[u].status = "pending"
                              THEN [rows[u] EXCEPT !.status = "ready"] ELSE rows[u]]]
        /\ queued' = [queued EXCEPT ![h] =
                          {TaskBody(u, rows[u].arg1, rows[u].arg2) : u \in Ready(h)}]
        /\ Goto(h, "finalize")
        /\ UNCHANGED <<storeVars, work, exprVersion, left>>

(* STATEMENT: FinalizeExpressionDone, FinalizeExpressionFailed, and the    *)
(* audit rows.                                                             *)
Finalizes(h) == work[h].kind = "error" \/ IsRoot(work[h].task)
Final(h, row) ==
    IF work[h].kind = "error" THEN [row EXCEPT !.status = "failed"]
                              ELSE [row EXCEPT !.status = "done", !.result = work[h].value]
Audits(h) ==
    LET t == work[h].task
        e == ExprOf[t]
    IN  IF work[h].kind = "error"
        THEN {AuditBody("task.failed", t), AuditBody("expression.failed", e)}
        ELSE {AuditBody("task.done", t)}
             \cup (IF IsRoot(t) THEN {AuditBody("expression.done", e)} ELSE {})

Finalize(h) ==
    LET e == ExprOf[work[h].task]
    IN  /\ stage[h] = "finalize"
        /\ IF Finalizes(h) /\ SeenExpr(h, e).status \in Open
           THEN ~ HeldExpr(h, e) /\ WriteExpr(h, e, Final(h, SeenExpr(h, e)))
           ELSE UNCHANGED exprVersion
        /\ queued' = [queued EXCEPT ![h] = queued[h] \cup Audits(h)]
        /\ Goto(h, "commit")
        /\ UNCHANGED <<storeVars, work, version, left>>

(* ACTION: Commit.   WHO: inTx                                             *)
(* What the transaction has written becomes the committed state.           *)
Commit(h) ==
    /\ stage[h] = "commit"
    /\ status' = [u \in Task |-> Seen(h, u).status]
    /\ unmet'  = [u \in Task |-> Seen(h, u).unmet]
    /\ arg1'   = [u \in Task |-> Seen(h, u).arg1]
    /\ arg2'   = [u \in Task |-> Seen(h, u).arg2]
    /\ result' = [u \in Task |-> Seen(h, u).result]
    /\ exprStatus' = [e \in Expr |-> SeenExpr(h, e).status]
    /\ exprResult' = [e \in Expr |-> SeenExpr(h, e).result]
    /\ InsertOutbox(queued[h])
    /\ Release(h)
    /\ UNCHANGED <<relayVars, dispatched, reported>>

(* ACTION: Abort.   WHO: inTx's Rollback, a crash or a lost connection     *)
(* Nothing remains; the message is delivered again.                        *)
Abort(h) ==
    /\ stage[h] # "idle"
    /\ Release(h)
    /\ UNCHANGED storeVars

(* STATEMENT: MarkTaskRunning, a transaction by itself.                    *)
Started(m) ==
    /\ status[m.task] \in Runnable => \A h \in Handler : m.task \notin DOMAIN version[h]
    /\ ApplyStarted(m)
    /\ UNCHANGED <<relayVars, dispatched, reported, txVars>>

-----------------------------------------------------------------------------
Statement(h) ==
    \/ Settle(h) \/ Progress(h) \/ ScanFirst(h) \/ ScanSecond(h)
    \/ \E u \in left[h] : Fill(h, u)
    \/ Unlock(h) \/ Finalize(h)

TxNext ==
    \/ \E h \in Handler : \/ \E m \in reported : Begin(h, m)
                          \/ Statement(h) \/ Commit(h) \/ Abort(h)
    \/ \E m \in reported : Started(m)
    \/ /\ \/ \E e \in Expr : Submit(e)
          \/ \E m \in Assigned : \E sent \in AgentReports(m) : AgentReport(m, sent)
          \/ \E r \in Replica : Relay(r)
          \/ PruneOutbox
       /\ UNCHANGED txVars

TxSpec == TxInit /\ [][TxNext]_allVars

-----------------------------------------------------------------------------
(* Read committed and its row locks are enough: whatever statements of     *)
(* concurrent transactions fall between those of one, its commit does what *)
(* the single step ApplyResult or ApplyFailure does to the state it finds. *)
ImplementsAtomic == Spec

(* Who holds the row a transaction's next statement must write.            *)
WaitsFor(h, g) ==
    LET t == work[h].task
        e == ExprOf[t]
    IN  /\ g # h
        /\ \/ stage[h] = "settle" /\ status[t] \notin Settled /\ t \in DOMAIN version[g]
           \/ stage[h] = "progress" /\ exprStatus[e] = "pending" /\ e \in DOMAIN exprVersion[g]
           \/ stage[h] \in {"fill1", "fill2"} /\ left[h] \cap DOMAIN version[g] # {}
           \/ /\ stage[h] = "finalize" /\ Finalizes(h)
              /\ SeenExpr(h, e).status \in Open /\ e \in DOMAIN exprVersion[g]

(* The rows are taken in one order, the task, its expression, the task it  *)
(* is an argument of, and the root's expression last: no transactions ever *)
(* wait for each other in a ring, and PostgreSQL has no deadlock to break. *)
NoDeadlock ==
    \A ring \in (SUBSET Handler) \ {{}} :
        \E h \in ring : \A g \in ring : ~ WaitsFor(h, g)
=============================================================================
