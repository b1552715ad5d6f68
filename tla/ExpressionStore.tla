-------------------------- MODULE ExpressionStore ---------------------------
(***************************************************************************)
(* The orchestrator's database and everything that writes to it: the       *)
(* expression, task and outbox tables (internal/repo/persistent), the      *)
(* transactions of Submit and HandleResult, and the relay transactions of  *)
(* any number of orchestrator replicas.                                    *)
(*                                                                         *)
(* Each transaction that commits is one action; one that does not commit   *)
(* leaves no trace.  The relay is the exception: it talks to the broker    *)
(* inside its transaction, so it is split where a crash can separate what  *)
(* the broker has from what the database remembers.                        *)
(*                                                                         *)
(* The broker and the agents are the weakest that at-least-once delivery   *)
(* allows: `dispatched' and `reported' hold every message ever accepted by *)
(* the broker, and any of them may be handled at any time, again and       *)
(* again, in any order, or never.  Module Delivery says which copies there *)
(* really are.                                                             *)
(***************************************************************************)
EXTENDS Plan, Functions

CONSTANTS Replica,     \* orchestrator processes
          Batch        \* rows one relay transaction claims (RelayBatch)

ASSUME BatchAssumption == Batch \in Nat \ {0}

VARIABLES
    exprStatus,   \* expressions.status
    exprResult,   \* expressions.result
    status,       \* tasks.status
    unmet,        \* tasks.unmet_deps
    arg1, arg2,   \* tasks.arg1_value, tasks.arg2_value
    result,       \* tasks.result
    outbox,       \* rows of the outbox table
    published,    \* ids of the rows whose published_at is set
    lastId,       \* bigserial of the outbox
    claimed,      \* rows locked by each replica's open relay transaction
    todo,         \* those it has not yet tried to publish
    acked,        \* ids of those the broker confirmed
    dispatched,   \* message bodies the broker has accepted from the relay
    reported      \* result messages the broker has accepted from agents

exprVars  == <<exprStatus, exprResult>>
taskVars  == <<status, unmet, arg1, arg2, result>>
outboxVars == <<outbox, published, lastId>>
relayVars == <<claimed, todo, acked>>
storeVars == <<exprVars, taskVars, outboxVars, relayVars, dispatched, reported>>

-----------------------------------------------------------------------------
(* Messages.  A task message carries its arguments, a result message the   *)
(* kind of report and, for an "ok", the value.                             *)
\* Faulty variants: the message quotes the plan's operand instead of the filled
\* column; the arguments are swapped.
TaskBodyFromPlan(t, a, b) == [kind |-> "task", task |-> t, arg1 |-> a, arg2 |-> Arg2[t]]
TaskBodySwapped(t, a, b)  == [kind |-> "task", task |-> t, arg1 |-> b, arg2 |-> a]
TaskBody(t, a, b)   == [kind |-> "task", task |-> t, arg1 |-> a, arg2 |-> b]
AuditBody(event, x) == [kind |-> "audit", event |-> event, subject |-> x]
Report(kind, t, v)  == [kind |-> kind, task |-> t, value |-> v]

AuditEvents == {"expression.submitted", "expression.done", "expression.failed",
                "task.done", "task.failed"}
TaskMessage   == [kind : {"task"}, task : Task, arg1 : Value, arg2 : Value]
AuditMessage  == [kind : {"audit"}, event : AuditEvents, subject : Expr \cup Task]
ResultMessage == [kind : {"started", "ok", "error"}, task : Task,
                  value : Value \cup {NoValue}]
OutboxRow     == [id : Nat, body : TaskMessage \cup AuditMessage]

Settled == {"done", "failed"}
Open    == {"pending", "in_progress"}
Runnable == {"ready", "running"}

Init ==
    /\ exprStatus = [e \in Expr |-> "absent"]
    /\ exprResult = [e \in Expr |-> NoValue]
    /\ status = [t \in Task |-> "absent"]
    /\ unmet  = [t \in Task |-> 0]
    /\ arg1   = [t \in Task |-> NoValue]
    /\ arg2   = [t \in Task |-> NoValue]
    /\ result = [t \in Task |-> NoValue]
    /\ outbox = {} /\ published = {} /\ lastId = 0
    /\ claimed = [r \in Replica |-> {}]
    /\ todo    = [r \in Replica |-> {}]
    /\ acked   = [r \in Replica |-> {}]
    /\ dispatched = {} /\ reported = {}

(* The rows one transaction inserts, numbered from the serial in an order  *)
(* fixed by the code.                                                      *)
Numbering(bodies) ==
    CHOOSE f \in Bijection(1 .. Cardinality(bodies), bodies) : TRUE

InsertOutbox(bodies) ==
    LET f == Numbering(bodies)
        n == Cardinality(bodies)
    IN  /\ outbox' = outbox \cup {[id |-> lastId + i, body |-> f[i]] : i \in 1 .. n}
        /\ lastId' = lastId + n
        /\ UNCHANGED published

-----------------------------------------------------------------------------
(* ACTION: CreateExpression.   WHO: expression.Submit                      *)
(* One transaction stores the expression and its whole plan; the tasks     *)
(* that wait for nothing are queued and marked ready in the same breath.   *)
CreateExpression(e) ==
    LET tasks == TasksOf(e)
        ready == {t \in tasks : UnmetDeps(t) = 0}
        Literal(x) == IF x \in Value THEN x ELSE NoValue
    IN  /\ exprStatus[e] = "absent"
        /\ Root[e] \in Task
        /\ exprStatus' = [exprStatus EXCEPT ![e] = "pending"]
        /\ status' = [t \in Task |-> IF t \notin tasks THEN status[t]
                                     ELSE IF t \in ready THEN "ready" ELSE "pending"]
        /\ unmet' = [t \in Task |-> IF t \in tasks THEN UnmetDeps(t) ELSE unmet[t]]
        /\ arg1' = [t \in Task |-> IF t \in tasks THEN Literal(Arg1[t]) ELSE arg1[t]]
        /\ arg2' = [t \in Task |-> IF t \in tasks THEN Literal(Arg2[t]) ELSE arg2[t]]
        /\ InsertOutbox({TaskBody(t, Arg1[t], Arg2[t]) : t \in ready}
                        \cup {AuditBody("expression.submitted", e)})
        /\ UNCHANGED <<exprResult, result, relayVars, dispatched, reported>>

(* ACTION: FinalizeImmediate.   WHO: expression.Submit                     *)
(* A lone literal needs no task: it is stored as done.                     *)
FinalizeImmediate(e) ==
    /\ exprStatus[e] = "absent"
    /\ Root[e] \in Value
    /\ exprStatus' = [exprStatus EXCEPT ![e] = "done"]
    /\ exprResult' = [exprResult EXCEPT ![e] = Root[e]]
    /\ InsertOutbox({AuditBody("expression.submitted", e), AuditBody("expression.done", e)})
    /\ UNCHANGED <<taskVars, relayVars, dispatched, reported>>

-----------------------------------------------------------------------------
\* Faulty variant: no guard on the task's status.
ApplyStartedAnyStatus(m) ==
    /\ m.kind = "started"
    /\ status' = [status EXCEPT ![m.task] = "running"]
    /\ UNCHANGED <<exprVars, unmet, arg1, arg2, result, outboxVars>>

(* ACTION: ApplyStarted.   WHO: scheduler.HandleResult, kind started       *)
(* A started report can arrive late or twice: it moves a runnable task.    *)
ApplyStarted(m) ==
    /\ m.kind = "started"
    /\ status' = IF status[m.task] \in Runnable
                 THEN [status EXCEPT ![m.task] = "running"] ELSE status
    /\ UNCHANGED <<exprVars, unmet, arg1, arg2, result, outboxVars>>

(* The pending tasks a finished task t is an argument of, and what is left *)
(* of their unmet dependencies once it has been filled in.                 *)
Dependents(arg, t) == {u \in Task : arg[u] = t /\ status[u] = "pending"}
\* Faulty variant: filling the second argument forgets the decrement.
UnmetAfterFirstOnly(t, u) == unmet[u] - (IF u \in Dependents(Arg1, t) THEN 1 ELSE 0)
UnmetAfter(t, u) == unmet[u] - (IF u \in Dependents(Arg1, t) THEN 1 ELSE 0)
                             - (IF u \in Dependents(Arg2, t) THEN 1 ELSE 0)
Unlocked(t) == {u \in Dependents(Arg1, t) \cup Dependents(Arg2, t) : UnmetAfter(t, u) = 0}

(* The root's result closes an expression that is still open (FinalizeDone)*)
(* and any other moves a pending one on (MarkInProgress).                  *)
\* Faulty variants: a task that is nobody's first argument is taken for the root;
\* the expression's status is overwritten whatever it is.
IsRootEager(t) == \A u \in Task : Arg1[u] # t
IsRoot(t) == Root[ExprOf[t]] = t
StatusAfterUnguarded(t) == IF IsRoot(t) THEN "done" ELSE "in_progress"
StatusAfter(t) ==
    LET now == exprStatus[ExprOf[t]]
    IN  IF IsRoot(t) /\ now \in Open THEN "done"
        ELSE IF now = "pending" THEN "in_progress" ELSE now

(* ACTION: ApplyResult.   WHO: scheduler.HandleResult, kind ok             *)
(* The fan-in.  Complete the task, fill its value into the tasks waiting   *)
(* for it, queue those whose last dependency this was, and close the       *)
(* expression when the task is the root.  A result for a task that is      *)
(* already settled changes nothing.                                        *)
FanIn(t, v) ==
    LET e == ExprOf[t]
        body(u) == TaskBody(u, arg1'[u], arg2'[u])
    IN  /\ status' = [u \in Task |-> IF u = t THEN "done"
                                     ELSE IF u \in Unlocked(t) THEN "ready" ELSE status[u]]
        /\ result' = [result EXCEPT ![t] = v]
        /\ arg1' = [u \in Task |-> IF u \in Dependents(Arg1, t) THEN v ELSE arg1[u]]
        /\ arg2' = [u \in Task |-> IF u \in Dependents(Arg2, t) THEN v ELSE arg2[u]]
        /\ unmet' = [u \in Task |-> UnmetAfter(t, u)]
        \* enqueueTask refuses a task with a NULL argument and rolls back
        /\ \A u \in Unlocked(t) : arg1'[u] # NoValue /\ arg2'[u] # NoValue
        /\ exprStatus' = [exprStatus EXCEPT ![e] = StatusAfter(t)]
        /\ exprResult' = [exprResult EXCEPT ![e] =
                            IF IsRoot(t) /\ exprStatus[e] \in Open THEN v ELSE @]
        /\ InsertOutbox({body(u) : u \in Unlocked(t)}
                        \cup {AuditBody("task.done", t)}
                        \cup (IF IsRoot(t) THEN {AuditBody("expression.done", e)} ELSE {}))

ApplyResult(m) ==
    /\ m.kind = "ok"
    /\ IF status[m.task] \in Settled
       THEN UNCHANGED <<exprVars, taskVars, outboxVars>>
       ELSE FanIn(m.task, m.value)

(* ACTION: ApplyFailure.   WHO: scheduler.HandleResult, kind error         *)
(* One failed task fails the whole expression.  Its audit pair is written  *)
(* even if another task had failed the expression before.                  *)
ApplyFailure(m) ==
    LET t == m.task
        e == ExprOf[t]
    IN  /\ m.kind = "error"
        /\ IF status[t] \in Settled
           THEN UNCHANGED <<exprVars, taskVars, outboxVars>>
           ELSE /\ status' = [status EXCEPT ![t] = "failed"]
                /\ exprStatus' = [exprStatus EXCEPT ![e] = IF @ \in Open THEN "failed" ELSE @]
                /\ InsertOutbox({AuditBody("task.failed", t), AuditBody("expression.failed", e)})
                /\ UNCHANGED <<exprResult, unmet, arg1, arg2, result>>

HandleResult(m) ==
    /\ ApplyStarted(m) \/ ApplyResult(m) \/ ApplyFailure(m)
    /\ UNCHANGED <<relayVars, dispatched, reported>>

-----------------------------------------------------------------------------
(* The relay transaction.  FOR UPDATE SKIP LOCKED: a row another replica   *)
(* holds is passed over, so the rest of the outbox is never waited for.    *)
Lowest(S, n) ==
    {row \in S : Cardinality({o \in S : o.id < row.id}) < n}

\* Faulty variant: FOR UPDATE is missing, so a held row is selected again.
UnclaimedNoLock == {row \in outbox : row.id \notin published}
Unclaimed == {row \in outbox : /\ row.id \notin published
                               /\ \A r \in Replica : row \notin claimed[r]}

(* ACTION: RelayClaim.   WHO: RunOutboxRelay, at a tick or while draining  *)
RelayClaim(r) ==
    /\ claimed[r] = {}
    /\ Unclaimed # {}
    /\ claimed' = [claimed EXCEPT ![r] = Lowest(Unclaimed, Batch)]
    /\ todo' = [todo EXCEPT ![r] = Lowest(Unclaimed, Batch)]
    /\ UNCHANGED <<exprVars, taskVars, outboxVars, acked, dispatched, reported>>

(* ACTION: RelayPublish.   WHO: relayOnce, one row of the batch            *)
(* The broker may have the message although its confirm was lost; the row  *)
(* is remembered as published only if the confirm came.                    *)
PublishOutcome == {"confirmed", "unconfirmed", "refused"}

\* Faulty variant: the confirm is not awaited.
RelayPublishNoConfirm(r, row, outcome) ==
    /\ row \in Lowest(todo[r], 1)
    /\ todo' = [todo EXCEPT ![r] = @ \ {row}]
    /\ dispatched' = IF outcome = "refused" THEN dispatched ELSE dispatched \cup {row.body}
    /\ acked' = [acked EXCEPT ![r] = @ \cup {row.id}]
    /\ UNCHANGED <<exprVars, taskVars, outboxVars, claimed, reported>>

RelayPublish(r, row, outcome) ==
    /\ row \in Lowest(todo[r], 1)
    /\ todo' = [todo EXCEPT ![r] = @ \ {row}]
    /\ dispatched' = IF outcome = "refused" THEN dispatched ELSE dispatched \cup {row.body}
    /\ acked' = IF outcome = "confirmed" THEN [acked EXCEPT ![r] = @ \cup {row.id}] ELSE acked
    /\ UNCHANGED <<exprVars, taskVars, outboxVars, claimed, reported>>

EndRelay(r) ==
    /\ claimed' = [claimed EXCEPT ![r] = {}]
    /\ todo'    = [todo EXCEPT ![r] = {}]
    /\ acked'   = [acked EXCEPT ![r] = {}]

\* Faulty variant: the whole batch is marked, not what was confirmed.
RelayCommitWholeBatch(r) ==
    /\ claimed[r] # {} /\ todo[r] = {}
    /\ published' = published \cup {row.id : row \in claimed[r]}
    /\ EndRelay(r)
    /\ UNCHANGED <<exprVars, taskVars, outbox, lastId, dispatched, reported>>

(* ACTION: RelayCommit.   WHO: RelayOutbox, when the batch has been tried  *)
RelayCommit(r) ==
    /\ claimed[r] # {} /\ todo[r] = {}
    /\ published' = published \cup acked[r]
    /\ EndRelay(r)
    /\ UNCHANGED <<exprVars, taskVars, outbox, lastId, dispatched, reported>>

(* ACTION: RelayAbort.   WHO: a crash, a shutdown or a failed commit       *)
(* What was published stays published; the rows do not remember it.        *)
RelayAbort(r) ==
    /\ claimed[r] # {}
    /\ EndRelay(r)
    /\ UNCHANGED <<exprVars, taskVars, outboxVars, dispatched, reported>>

(* ACTION: PruneOutbox.   WHO: RunOutboxRelay's prune ticker               *)
PruneOutbox ==
    \E old \in (SUBSET published) \ {{}} :
        /\ outbox' = {row \in outbox : row.id \notin old}
        /\ published' = published \ old
        /\ UNCHANGED <<exprVars, taskVars, lastId, relayVars, dispatched, reported>>

-----------------------------------------------------------------------------
(* ACTION: AgentReport.   WHO: an agent holding a task message             *)
(* It announces itself and reports the outcome; either message may be all  *)
(* that reaches the broker.  An infinite result cannot be encoded, so      *)
(* nothing but the announcement leaves the agent.                          *)
OutcomeReports(m) ==
    LET v == Compute(m.task, m.arg1, m.arg2)
    IN  IF v = Error THEN {Report("error", m.task, NoValue)}
        ELSE IF v = NonFinite THEN {}
        ELSE {Report("ok", m.task, v)}

AgentReports(m) == {Report("started", m.task, NoValue)} \cup OutcomeReports(m)

Assigned == {m \in dispatched : m.kind = "task"}

AgentReport(m, sent) ==
    /\ m \in Assigned
    /\ sent \in AgentReports(m)
    /\ reported' = reported \cup {sent}
    /\ UNCHANGED <<exprVars, taskVars, outboxVars, relayVars, dispatched>>

-----------------------------------------------------------------------------
Submit(e) == CreateExpression(e) \/ FinalizeImmediate(e)

Relay(r) ==
    \/ RelayClaim(r)
    \/ \E row \in todo[r], outcome \in PublishOutcome : RelayPublish(r, row, outcome)
    \/ RelayCommit(r)
    \/ RelayAbort(r)

Next ==
    \/ \E e \in Expr : Submit(e)
    \/ \E m \in reported : HandleResult(m)
    \/ \E m \in Assigned : \E sent \in AgentReports(m) : AgentReport(m, sent)
    \/ \E r \in Replica : Relay(r)
    \/ PruneOutbox

Spec == Init /\ [][Next]_storeVars

-----------------------------------------------------------------------------
(* Every column, message and relay variable keeps its type; in particular *)
(* every queued task message carries two numbers (enqueueTask).            *)
TypeOK ==
    /\ exprStatus \in [Expr -> {"absent"} \cup Open \cup Settled]
    /\ exprResult \in [Expr -> Value \cup {NoValue}]
    /\ status \in [Task -> {"absent", "pending"} \cup Runnable \cup Settled]
    /\ unmet \in [Task -> Int]
    /\ arg1 \in [Task -> Value \cup {NoValue}]
    /\ arg2 \in [Task -> Value \cup {NoValue}]
    /\ result \in [Task -> Value \cup {NoValue}]
    /\ outbox \subseteq OutboxRow
    /\ published \subseteq Nat
    /\ lastId \in Nat
    /\ claimed \in [Replica -> SUBSET OutboxRow]
    /\ todo \in [Replica -> SUBSET OutboxRow]
    /\ acked \in [Replica -> SUBSET Nat]
    /\ dispatched \subseteq TaskMessage \cup AuditMessage
    /\ reported \subseteq ResultMessage

(* Fan-in bookkeeping.  However results arrive, each argument column holds *)
(* its literal or the result of its finished operand and nothing before,   *)
(* unmet_deps counts exactly the operands not yet done, and a task is      *)
(* pending exactly while that count is positive: FillArg1/2FromResult and  *)
(* unlockReadyDependents never lose or double a decrement.                 *)
Unfinished(x) == IF x \in Task THEN (IF status[x] = "done" THEN 0 ELSE 1) ELSE 0
Available(x)  == IF x \in Task THEN (IF status[x] = "done" THEN result[x] ELSE NoValue)
                               ELSE x
FanInConsistent ==
    \A t \in Task : status[t] # "absent" =>
        /\ arg1[t] = Available(Arg1[t])
        /\ arg2[t] = Available(Arg2[t])
        /\ unmet[t] = Unfinished(Arg1[t]) + Unfinished(Arg2[t])
        /\ status[t] = "pending" <=> unmet[t] > 0

(* Every message that exists names a task whose arguments are complete and *)
(* carries exactly those arguments, every ok report carries their value,   *)
(* and every error report is of a division by zero: redelivery cannot make *)
(* two copies of one task disagree.                                        *)
MessagesAgree ==
    /\ \A b \in {row.body : row \in outbox} \cup dispatched : b.kind = "task" =>
          /\ status[b.task] \notin {"absent", "pending"}
          /\ b.arg1 = arg1[b.task] /\ b.arg2 = arg2[b.task]
    /\ \A m \in reported :
          LET v == Compute(m.task, arg1[m.task], arg2[m.task])
          IN  /\ status[m.task] \notin {"absent", "pending"}
              /\ m.kind = "ok" => m.value = v
              /\ m.kind = "error" => v = Error

(* A task that may run is never forgotten: its message is with the broker  *)
(* or in an outbox row some relay will still claim.  Only rows the broker  *)
(* confirmed are marked, and only marked rows are pruned.                  *)
NeverForgotten ==
    \A t \in Task : status[t] \in Runnable \cup Settled =>
        LET body == TaskBody(t, arg1[t], arg2[t])
        IN  \/ body \in dispatched
            \/ \E row \in outbox : row.body = body /\ row.id \notin published

(* The audit trail tells what happened, through crashes, pruning and       *)
(* duplicate results: an outcome has its audit event, in the outbox or     *)
(* with the broker, exactly when it is the outcome.                        *)
Audited(event, x) ==
    AuditBody(event, x) \in {row.body : row \in outbox} \cup dispatched
AuditTrailFaithful ==
    /\ \A t \in Task : /\ Audited("task.done", t) <=> status[t] = "done"
                       /\ Audited("task.failed", t) <=> status[t] = "failed"
    /\ \A e \in Expr : /\ Audited("expression.submitted", e) <=> exprStatus[e] # "absent"
                       /\ Audited("expression.done", e) <=> exprStatus[e] = "done"
                       /\ Audited("expression.failed", e) <=> exprStatus[e] = "failed"

(* SKIP LOCKED partitions the outbox: no two relays hold the same row, and *)
(* none holds a row that is already marked or pruned.                      *)
ClaimsExclusive ==
    \A r \in Replica : \A row \in claimed[r] :
        /\ row \in outbox /\ row.id \notin published
        /\ \A s \in Replica \ {r} : row \notin claimed[s]

(* A done expression has the one answer its arithmetic has and every one   *)
(* of its tasks is done; a failed one really divides by zero somewhere.    *)
AnswersCorrect ==
    \A e \in Expr :
        /\ exprStatus[e] = "done" => /\ exprResult[e] = Meaning[e]
                                     /\ \A t \in TasksOf(e) : status[t] = "done"
        /\ exprStatus[e] = "failed" => Meaning[e] = Error

(* A settled task or expression never changes again, whatever duplicate or *)
(* late report is handled (CompleteTask, FailTask and the Finalize guards).*)
SettledForever ==
    [][ /\ \A t \in Task : status[t] \in Settled =>
              status'[t] = status[t] /\ result'[t] = result[t]
        /\ \A e \in Expr : exprStatus[e] \in Settled =>
              exprStatus'[e] = exprStatus[e] /\ exprResult'[e] = exprResult[e]
      ]_storeVars

(* The store keeps the promise made to clients.                            *)
Lifecycle == INSTANCE ExpressionLifecycle WITH
    status <- exprStatus, result <- exprResult,
    Immediate <- {e \in Expr : Root[e] \in Value}
KeepsPromise == Lifecycle!Spec
=============================================================================
