----------------------- MODULE ExpressionStoreProofs ------------------------
(***************************************************************************)
(* Proofs about ExpressionStore, for every plan, every number of replicas  *)
(* and every batch size.                                                   *)
(***************************************************************************)
EXTENDS ExpressionStore, FiniteSetTheorems, TLAPS

-----------------------------------------------------------------------------
(* Facts about the operators the store is built from.                      *)

(* What one transaction's insertion does to the outbox: it keeps every row,*)
(* adds exactly one row for every body, and numbers it freshly.            *)
NewRows == outbox' \ outbox

LEMMA InsertOutboxFacts ==
  ASSUME NEW bodies, IsFiniteSet(bodies), lastId \in Nat, InsertOutbox(bodies)
  PROVE  /\ lastId' \in Nat /\ lastId <= lastId'
         /\ published' = published
         /\ outbox \subseteq outbox'
         /\ \A row \in NewRows :
               /\ row.id \in Nat /\ lastId < row.id /\ row.id <= lastId'
               /\ row.body \in bodies
               /\ row = [id |-> row.id, body |-> row.body]
         /\ \A row1, row2 \in NewRows :
               row1.id = row2.id \/ row1.body = row2.body => row1 = row2
         /\ \A body \in bodies : \E row \in outbox' : row.body = body /\ lastId < row.id
<1> DEFINE n == Cardinality(bodies)
           f == Numbering(bodies)
<1>1. n \in Nat /\ ExistsBijection(1 .. n, bodies)
  BY FS_CardinalityType
<1>2. f \in Bijection(1 .. n, bodies)
  BY <1>1 DEF Numbering, ExistsBijection
<1>3. /\ f \in [1 .. n -> bodies]
      /\ \A i, j \in 1 .. n : f[i] = f[j] => i = j
      /\ \A b \in bodies : \E i \in 1 .. n : f[i] = b
  BY <1>2 DEF Bijection, Injection, Surjection, IsInjective
<1>4. /\ outbox' = outbox \cup {[id |-> lastId + i, body |-> f[i]] : i \in 1 .. n}
      /\ lastId' = lastId + n
      /\ published' = published
  BY DEF InsertOutbox
<1> HIDE DEF n, f
<1>5. \A row \in NewRows : \E i \in 1 .. n : row = [id |-> lastId + i, body |-> f[i]]
  BY <1>4 DEF NewRows
<1>6. \A row \in NewRows :
               /\ row.id \in Nat /\ lastId < row.id /\ row.id <= lastId'
               /\ row.body \in bodies
               /\ row = [id |-> row.id, body |-> row.body]
  <2> SUFFICES ASSUME NEW row \in NewRows
               PROVE  /\ row.id \in Nat /\ lastId < row.id /\ row.id <= lastId'
                      /\ row.body \in bodies
                      /\ row = [id |-> row.id, body |-> row.body]
    OBVIOUS
  <2>1. PICK i \in 1 .. n : row = [id |-> lastId + i, body |-> f[i]]
    BY <1>5
  <2> QED
    BY <2>1, <1>1, <1>3, <1>4
<1>7. \A row1, row2 \in NewRows :
               row1.id = row2.id \/ row1.body = row2.body => row1 = row2
  <2> SUFFICES ASSUME NEW row1 \in NewRows, NEW row2 \in NewRows,
                      row1.id = row2.id \/ row1.body = row2.body
               PROVE  row1 = row2
    OBVIOUS
  <2>1. PICK i \in 1 .. n : row1 = [id |-> lastId + i, body |-> f[i]]
    BY <1>5
  <2>2. PICK j \in 1 .. n : row2 = [id |-> lastId + j, body |-> f[j]]
    BY <1>5
  <2>3. lastId + i = lastId + j \/ f[i] = f[j]
    BY <2>1, <2>2
  <2>4. i = j
    BY <2>3, <1>3, <1>1
  <2> QED
    BY <2>1, <2>2, <2>4
<1>8. \A body \in bodies : \E row \in outbox' : row.body = body /\ lastId < row.id
  <2> SUFFICES ASSUME NEW body \in bodies
               PROVE  \E row \in outbox' : row.body = body /\ lastId < row.id
    OBVIOUS
  <2>1. PICK i \in 1 .. n : f[i] = body
    BY <1>3
  <2>2. [id |-> lastId + i, body |-> f[i]] \in outbox'
    BY <1>4
  <2> QED
    BY <2>1, <2>2, <1>1
<1> QED
  BY <1>1, <1>4, <1>6, <1>7, <1>8

(* The image of a finite set under a function is finite.                   *)
LEMMA ImageFinite ==
  ASSUME NEW S, IsFiniteSet(S), NEW f
  PROVE  IsFiniteSet({f[x] : x \in S})
<1> DEFINE T == {f[x] : x \in S}
           g == [x \in S |-> f[x]]
<1>1. g \in Surjection(S, T)
  BY DEF Surjection
<1> QED
  BY <1>1, FS_Surjection

(* Sets of one or two elements are finite.                                 *)
LEMMA PairFinite ==
  ASSUME NEW x, NEW y
  PROVE  IsFiniteSet({x}) /\ IsFiniteSet({x, y}) /\ IsFiniteSet({x} \cup {y})
<1>1. IsFiniteSet({x}) /\ IsFiniteSet({y})
  BY FS_Singleton
<1>2. IsFiniteSet({x} \cup {y}) /\ {x, y} = {x} \cup {y}
  BY <1>1, FS_Union
<1> QED
  BY <1>1, <1>2

(* Insertion preserves the type of the outbox.                             *)
LEMMA InsertOutboxType ==
  ASSUME NEW bodies, IsFiniteSet(bodies), bodies \subseteq TaskMessage \cup AuditMessage,
         outbox \subseteq OutboxRow, lastId \in Nat, published \subseteq Nat,
         InsertOutbox(bodies)
  PROVE  outbox' \subseteq OutboxRow /\ lastId' \in Nat /\ published' \subseteq Nat
<1>1. \A row \in NewRows : row.id \in Nat /\ row.body \in bodies
                           /\ row = [id |-> row.id, body |-> row.body]
  BY InsertOutboxFacts
<1>2. NewRows \subseteq OutboxRow
  BY <1>1 DEF OutboxRow
<1> QED
  BY <1>2, InsertOutboxFacts DEF NewRows

(* A task whose unmet count is zero has literal operands only.             *)
LEMMA NoDepsLiteral ==
  ASSUME NEW t \in Task, UnmetDeps(t) = 0
  PROVE  Arg1[t] \in Value /\ Arg2[t] \in Value
BY PlanAssumption DEF UnmetDeps

(* The outcome of a computation on two values is one of the outcomes.      *)
LEMMA ComputeType ==
  ASSUME NEW t \in Task, NEW a \in Value, NEW b \in Value
  PROVE  Compute(t, a, b) \in Outcome /\ (Compute(t, a, b) # NonFinite
            /\ Compute(t, a, b) # Error => Compute(t, a, b) \in Value)
BY PlanAssumption, ArithAssumption DEF Compute, Outcome

-----------------------------------------------------------------------------
(* What each transaction's insertion is, with its bodies known to be       *)
(* messages.                                                               *)
LEMMA CreateBodies ==
  ASSUME NEW e \in Expr
  PROVE  LET ready == {t \in TasksOf(e) : UnmetDeps(t) = 0}
             bodies == {TaskBody(t, Arg1[t], Arg2[t]) : t \in ready}
                       \cup {AuditBody("expression.submitted", e)}
         IN  IsFiniteSet(bodies) /\ bodies \subseteq TaskMessage \cup AuditMessage
<1> DEFINE ready == {t \in TasksOf(e) : UnmetDeps(t) = 0}
           audit == AuditBody("expression.submitted", e)
<1>1. ready \subseteq Task
  BY DEF TasksOf
<1>2. IsFiniteSet({TaskBody(t, Arg1[t], Arg2[t]) : t \in ready} \cup {audit})
  <2> DEFINE g == [t \in ready |-> TaskBody(t, Arg1[t], Arg2[t])]
  <2>1. IsFiniteSet(ready)
    BY <1>1, PlanAssumption, FS_Subset
  <2>2. {TaskBody(t, Arg1[t], Arg2[t]) : t \in ready} = {g[t] : t \in ready}
    OBVIOUS
  <2>3. IsFiniteSet({g[t] : t \in ready})
    BY <2>1, ImageFinite
  <2> QED
    BY <2>2, <2>3, PairFinite, FS_Union
<1>3. \A t \in ready : TaskBody(t, Arg1[t], Arg2[t]) \in TaskMessage
  BY <1>1, NoDepsLiteral DEF TaskBody, TaskMessage
<1>4. audit \in AuditMessage
  BY DEF AuditBody, AuditMessage, AuditEvents
<1> QED
  BY <1>2, <1>3, <1>4

LEMMA FanInBodies ==
  ASSUME TypeOK, NEW t \in Task, NEW v \in Value \cup {NoValue}, FanIn(t, v)
  PROVE  LET e == ExprOf[t]
             bodies == {TaskBody(u, arg1'[u], arg2'[u]) : u \in Unlocked(t)}
                        \cup {AuditBody("task.done", t)}
                        \cup (IF IsRoot(t) THEN {AuditBody("expression.done", e)} ELSE {})
         IN  /\ IsFiniteSet(bodies) /\ bodies \subseteq TaskMessage \cup AuditMessage
             /\ InsertOutbox(bodies)
<1> DEFINE e == ExprOf[t]
           done == {AuditBody("task.done", t)}
           final == IF IsRoot(t) THEN {AuditBody("expression.done", e)} ELSE {}
           tasks == {TaskBody(u, arg1'[u], arg2'[u]) : u \in Unlocked(t)}
<1>1. Unlocked(t) \subseteq Task /\ e \in Expr
  BY PlanAssumption DEF Unlocked, Dependents
<1>2. IsFiniteSet(done) /\ IsFiniteSet(final)
  BY PairFinite, FS_EmptySet
<1>3. IsFiniteSet(done \cup final)
  BY <1>2, FS_Union
<1>4. IsFiniteSet(tasks \cup (done \cup final))
  <2> DEFINE g == [u \in Unlocked(t) |-> TaskBody(u, arg1'[u], arg2'[u])]
  <2>1. IsFiniteSet(Unlocked(t))
    BY <1>1, PlanAssumption, FS_Subset
  <2>2. tasks = {g[u] : u \in Unlocked(t)}
    OBVIOUS
  <2>3. IsFiniteSet({g[u] : u \in Unlocked(t)})
    BY <2>1, ImageFinite
  <2> HIDE DEF done, final
  <2> QED
    BY <1>3, <2>2, <2>3, FS_Union
<1>5. \A u \in Unlocked(t) : TaskBody(u, arg1'[u], arg2'[u]) \in TaskMessage
  <2> SUFFICES ASSUME NEW u \in Unlocked(t)
               PROVE  TaskBody(u, arg1'[u], arg2'[u]) \in TaskMessage
    OBVIOUS
  <2>1. arg1'[u] \in Value \cup {NoValue} /\ arg2'[u] \in Value \cup {NoValue}
    BY <1>1 DEF FanIn, TypeOK
  <2>2. arg1'[u] # NoValue /\ arg2'[u] # NoValue
    BY DEF FanIn
  <2> QED
    BY <1>1, <2>1, <2>2 DEF TaskBody, TaskMessage
<1>6. done \cup final \subseteq AuditMessage
  BY <1>1 DEF AuditBody, AuditMessage, AuditEvents
<1>7. tasks \cup done \cup final = tasks \cup (done \cup final)
  OBVIOUS
<1>8. InsertOutbox(tasks \cup done \cup final)
  BY DEF FanIn
<1> QED
  BY <1>4, <1>5, <1>6, <1>7, <1>8

-----------------------------------------------------------------------------
(* Type correctness.  TypeOK is inductive by itself: the one value that    *)
(* could leave its type is a NULL argument, which enqueueTask refuses.     *)
LEMMA InitType == Init => TypeOK
BY DEF Init, TypeOK, Open, Settled, Runnable

LEMMA CreateType ==
  ASSUME TypeOK, NEW e \in Expr, CreateExpression(e)
  PROVE  TypeOK'
<1> DEFINE ready == {t \in TasksOf(e) : UnmetDeps(t) = 0}
           bodies == {TaskBody(t, Arg1[t], Arg2[t]) : t \in ready}
                      \cup {AuditBody("expression.submitted", e)}
<1>1. outbox' \subseteq OutboxRow /\ lastId' \in Nat /\ published' \subseteq Nat
  <2>1. IsFiniteSet(bodies) /\ bodies \subseteq TaskMessage \cup AuditMessage
    BY CreateBodies
  <2>2. InsertOutbox(bodies)
    BY DEF CreateExpression
  <2> HIDE DEF bodies
  <2> QED
    BY <2>1, <2>2, InsertOutboxType DEF TypeOK
<1>2. \A t \in Task : UnmetDeps(t) \in Int
  BY DEF UnmetDeps
<1>3. /\ exprStatus' \in [Expr -> {"absent"} \cup Open \cup Settled]
      /\ status' \in [Task -> {"absent", "pending"} \cup Runnable \cup Settled]
      /\ unmet' \in [Task -> Int]
      /\ arg1' \in [Task -> Value \cup {NoValue}]
      /\ arg2' \in [Task -> Value \cup {NoValue}]
  BY <1>2 DEF CreateExpression, TypeOK, Open, Settled, Runnable
<1> QED
  BY <1>1, <1>3 DEF CreateExpression, TypeOK, relayVars

LEMMA ImmediateType ==
  ASSUME TypeOK, NEW e \in Expr, FinalizeImmediate(e)
  PROVE  TypeOK'
<1> DEFINE bodies == {AuditBody("expression.submitted", e), AuditBody("expression.done", e)}
<1>1. IsFiniteSet(bodies) /\ bodies \subseteq TaskMessage \cup AuditMessage
  <2>1. bodies \subseteq AuditMessage
    BY DEF AuditBody, AuditMessage, AuditEvents
  <2>2. IsFiniteSet(bodies)
    BY PairFinite, Zenon
  <2> QED
    BY <2>1, <2>2
<1>2. InsertOutbox(bodies)
  BY DEF FinalizeImmediate
<1>3. outbox' \subseteq OutboxRow /\ lastId' \in Nat /\ published' \subseteq Nat
  <2> HIDE DEF bodies
  <2> QED
    BY <1>1, <1>2, InsertOutboxType DEF TypeOK
<1> QED
  BY <1>3 DEF FinalizeImmediate, TypeOK, taskVars, relayVars, Open, Settled

LEMMA HandleType ==
  ASSUME TypeOK, NEW m \in reported, HandleResult(m)
  PROVE  TypeOK'
<1>0. m.task \in Task /\ ExprOf[m.task] \in Expr /\ m.value \in Value \cup {NoValue}
  BY PlanAssumption DEF TypeOK, ResultMessage
<1>1. CASE ApplyStarted(m)
  BY <1>0, <1>1 DEF ApplyStarted, HandleResult, TypeOK, exprVars, outboxVars, relayVars,
     Runnable
<1>2. CASE ApplyResult(m)
  <2>1. CASE status[m.task] \in Settled
    BY <1>2, <2>1 DEF ApplyResult, HandleResult, TypeOK, exprVars, taskVars,
       outboxVars, relayVars
  <2>2. CASE status[m.task] \notin Settled
    <3> DEFINE t == m.task
               v == m.value
    <3>1. FanIn(t, v)
      BY <1>2, <2>2 DEF ApplyResult
    <3>3. outbox' \subseteq OutboxRow /\ lastId' \in Nat /\ published' \subseteq Nat
      <4> DEFINE e == ExprOf[t]
                 bodies == {TaskBody(u, arg1'[u], arg2'[u]) : u \in Unlocked(t)}
                           \cup {AuditBody("task.done", t)}
                           \cup (IF IsRoot(t) THEN {AuditBody("expression.done", e)} ELSE {})
      <4>1. /\ IsFiniteSet(bodies) /\ bodies \subseteq TaskMessage \cup AuditMessage
            /\ InsertOutbox(bodies)
        <5> HIDE DEF t, v
        <5> QED
          BY <1>0, <3>1, FanInBodies DEF t, v
      <4> HIDE DEF bodies
      <4> QED
        BY <4>1, InsertOutboxType DEF TypeOK
    <3>4. /\ exprStatus' \in [Expr -> {"absent"} \cup Open \cup Settled]
          /\ exprResult' \in [Expr -> Value \cup {NoValue}]
      <4>1. StatusAfter(t) \in {"absent"} \cup Open \cup Settled
        BY <1>0 DEF StatusAfter, TypeOK, Settled, Open
      <4> QED
        BY <1>0, <3>1, <4>1 DEF FanIn, TypeOK
    <3>5. \A u \in Task : UnmetAfter(t, u) \in Int
      BY DEF UnmetAfter, TypeOK
    <3>6. /\ status' \in [Task -> {"absent", "pending"} \cup Runnable \cup Settled]
          /\ unmet' \in [Task -> Int]
          /\ arg1' \in [Task -> Value \cup {NoValue}]
          /\ arg2' \in [Task -> Value \cup {NoValue}]
          /\ result' \in [Task -> Value \cup {NoValue}]
      BY <1>0, <3>1, <3>5 DEF FanIn, TypeOK, Runnable, Settled
    <3> QED
      BY <3>3, <3>4, <3>6 DEF HandleResult, TypeOK, relayVars
  <2> QED
    BY <2>1, <2>2
<1>3. CASE ApplyFailure(m)
  <2>1. CASE status[m.task] \in Settled
    BY <1>3, <2>1 DEF ApplyFailure, HandleResult, TypeOK, exprVars, taskVars,
       outboxVars, relayVars
  <2>2. CASE status[m.task] \notin Settled
    <3> DEFINE bodies == {AuditBody("task.failed", m.task),
                          AuditBody("expression.failed", ExprOf[m.task])}
    <3>1. IsFiniteSet(bodies) /\ bodies \subseteq TaskMessage \cup AuditMessage
      <4>1. bodies \subseteq AuditMessage
        BY <1>0 DEF AuditBody, AuditMessage, AuditEvents
      <4>2. IsFiniteSet(bodies)
        BY PairFinite, Zenon
      <4> QED
        BY <4>1, <4>2
    <3>2. InsertOutbox(bodies)
      BY <1>3, <2>2 DEF ApplyFailure
    <3>3. outbox' \subseteq OutboxRow /\ lastId' \in Nat /\ published' \subseteq Nat
      <4> HIDE DEF bodies
      <4> QED
        BY <3>1, <3>2, InsertOutboxType DEF TypeOK
    <3> QED
      BY <1>0, <1>3, <2>2, <3>3 DEF ApplyFailure, HandleResult, TypeOK, relayVars,
         Open, Settled
  <2> QED
    BY <2>1, <2>2
<1> QED
  BY <1>1, <1>2, <1>3 DEF HandleResult

LEMMA AgentType ==
  ASSUME TypeOK, NEW m, NEW sent, AgentReport(m, sent)
  PROVE  TypeOK'
<1>1. m \in TaskMessage
  BY DEF AgentReport, Assigned, TypeOK, AuditMessage
<1>2. OutcomeReports(m) \subseteq ResultMessage
  <2>1. m.task \in Task /\ m.arg1 \in Value /\ m.arg2 \in Value
    BY <1>1 DEF TaskMessage
  <2> QED
    BY <2>1, ComputeType DEF OutcomeReports, Report, ResultMessage
<1>3. Report("started", m.task, NoValue) \in ResultMessage
  BY <1>1 DEF Report, ResultMessage, TaskMessage
<1>4. reported' \subseteq ResultMessage
  BY <1>2, <1>3 DEF AgentReport, AgentReports, TypeOK
<1> QED
  BY <1>4 DEF AgentReport, TypeOK, exprVars, taskVars, outboxVars, relayVars

LEMMA RelayType ==
  ASSUME TypeOK, NEW r \in Replica, Relay(r)
  PROVE  TypeOK'
<1>1. CASE RelayClaim(r)
  <2>1. Lowest(Unclaimed, Batch) \subseteq OutboxRow
    BY DEF Lowest, Unclaimed, TypeOK
  <2> QED
    BY <1>1, <2>1 DEF RelayClaim, TypeOK, exprVars, taskVars, outboxVars
<1>2. ASSUME NEW row \in todo[r], NEW outcome, RelayPublish(r, row, outcome)
      PROVE  TypeOK'
  <2>1. row.id \in Nat /\ row.body \in TaskMessage \cup AuditMessage
    BY DEF TypeOK, OutboxRow
  <2> QED
    BY <1>2, <2>1 DEF RelayPublish, TypeOK, exprVars, taskVars, outboxVars
<1>3. CASE RelayCommit(r)
  BY <1>3 DEF RelayCommit, EndRelay, TypeOK, exprVars, taskVars
<1>4. CASE RelayAbort(r)
  BY <1>4 DEF RelayAbort, EndRelay, TypeOK, exprVars, taskVars, outboxVars
<1> QED
  BY <1>1, <1>2, <1>3, <1>4 DEF Relay

LEMMA PruneType == TypeOK /\ PruneOutbox => TypeOK'
BY DEF PruneOutbox, TypeOK, exprVars, taskVars, relayVars

LEMMA StutterType == TypeOK /\ UNCHANGED storeVars => TypeOK'
BY DEF storeVars, exprVars, taskVars, outboxVars, relayVars, TypeOK

LEMMA TypeStep == TypeOK /\ [Next]_storeVars => TypeOK'
BY CreateType, ImmediateType, HandleType, AgentType, RelayType, PruneType, StutterType
   DEF Next, Submit

(* The database never holds a value outside its column's type, and no      *)
(* message outside the message types is ever sent.                         *)
THEOREM TypeCorrect == Spec => []TypeOK
BY InitType, TypeStep, PTL DEF Spec

-----------------------------------------------------------------------------
(* The outbox and its relays: rows are claimed by one relay at a time, and *)
(* nothing is marked that the broker does not have.                        *)

(* Row ids are the serial's, so an id stands for one row for ever.         *)
Numbered ==
    /\ \A row \in outbox : row.id <= lastId
    /\ \A row1, row2 \in outbox : row1.id = row2.id => row1 = row2
    /\ \A id \in published : id <= lastId

(* What a relay believes the broker has, and what the table says it has,   *)
(* the broker has.                                                         *)
MarksTrue ==
    /\ \A r \in Replica :
          /\ todo[r] \subseteq claimed[r]
          /\ \A id \in acked[r] :
                \E row \in claimed[r] : row.id = id /\ row.body \in dispatched
    /\ \A row \in outbox : row.id \in published => row.body \in dispatched

OutboxInv == TypeOK /\ Numbered /\ MarksTrue /\ ClaimsExclusive

-----------------------------------------------------------------------------
(* A transaction that inserts rows and leaves the relays alone.            *)
LEMMA InsertKeepsOutbox ==
  ASSUME OutboxInv, TypeOK', NEW bodies, IsFiniteSet(bodies), InsertOutbox(bodies),
         UNCHANGED <<relayVars, dispatched>>
  PROVE  OutboxInv'
<1>1. /\ lastId' \in Nat /\ lastId <= lastId' /\ published' = published
      /\ outbox \subseteq outbox'
      /\ \A row \in NewRows : row.id \in Nat /\ lastId < row.id /\ row.id <= lastId'
      /\ \A row1, row2 \in NewRows : row1.id = row2.id => row1 = row2
  BY InsertOutboxFacts DEF OutboxInv, TypeOK
<1>2. \A row \in outbox' : row \in outbox \/ row \in NewRows
  BY DEF NewRows
<1>3. \A row \in outbox : row.id \in Nat /\ row.id <= lastId
  BY DEF OutboxInv, TypeOK, Numbered, OutboxRow
<1>4. published \subseteq Nat /\ lastId \in Nat /\ \A id \in published : id <= lastId
  BY DEF OutboxInv, TypeOK, Numbered
<1>5. Numbered'
  <2>1. \A row \in outbox' : row.id <= lastId'
    BY <1>1, <1>2, <1>3, <1>4
  <2>2. \A row1, row2 \in outbox' : row1.id = row2.id => row1 = row2
    <3> SUFFICES ASSUME NEW row1 \in outbox', NEW row2 \in outbox', row1.id = row2.id
                 PROVE  row1 = row2
      OBVIOUS
    <3>1. CASE row1 \in outbox /\ row2 \in outbox
      BY <3>1 DEF OutboxInv, Numbered
    <3>2. CASE row1 \in NewRows /\ row2 \in NewRows
      BY <3>2, <1>1
    <3>3. ~ (row1 \in outbox /\ row2 \in NewRows) /\ ~ (row1 \in NewRows /\ row2 \in outbox)
      BY <1>1, <1>3, <1>4
    <3> QED
      BY <1>2, <3>1, <3>2, <3>3
  <2>3. \A id \in published' : id <= lastId'
    BY <1>1, <1>4
  <2> QED
    BY <2>1, <2>2, <2>3 DEF Numbered
<1>6. MarksTrue'
  <2>1. \A row \in outbox' : row.id \in published' => row.body \in dispatched'
    <3>1. \A row \in NewRows : row.id \notin published
      BY <1>1, <1>4
    <3> QED
      BY <1>1, <1>2, <3>1 DEF OutboxInv, MarksTrue
  <2> QED
    BY <2>1 DEF OutboxInv, MarksTrue, relayVars
<1>7. ClaimsExclusive'
  BY <1>1 DEF OutboxInv, ClaimsExclusive, relayVars
<1> QED
  BY <1>5, <1>6, <1>7 DEF OutboxInv

(* Nothing the outbox depends on changes, except that the broker may       *)
(* accept more.                                                            *)
LEMMA IdleKeepsOutbox ==
  ASSUME OutboxInv, TypeOK', UNCHANGED <<outboxVars, relayVars>>,
         dispatched \subseteq dispatched'
  PROVE  OutboxInv'
<1>1. Numbered'
  BY DEF OutboxInv, Numbered, outboxVars
<1>2. MarksTrue'
  BY DEF OutboxInv, MarksTrue, outboxVars, relayVars
<1>3. ClaimsExclusive'
  BY DEF OutboxInv, ClaimsExclusive, outboxVars, relayVars
<1> QED
  BY <1>1, <1>2, <1>3 DEF OutboxInv

-----------------------------------------------------------------------------
LEMMA OutboxInit == Init => OutboxInv
<1> SUFFICES ASSUME Init PROVE OutboxInv
  OBVIOUS
<1>1. TypeOK
  BY InitType
<1>2. Numbered /\ MarksTrue /\ ClaimsExclusive
  BY DEF Init, Numbered, MarksTrue, ClaimsExclusive
<1> QED
  BY <1>1, <1>2 DEF OutboxInv

LEMMA SubmitOutbox ==
  ASSUME OutboxInv, TypeOK', NEW e \in Expr, Submit(e)
  PROVE  OutboxInv'
<1>1. CASE CreateExpression(e)
  <2> DEFINE ready == {t \in TasksOf(e) : UnmetDeps(t) = 0}
             bodies == {TaskBody(t, Arg1[t], Arg2[t]) : t \in ready}
                        \cup {AuditBody("expression.submitted", e)}
  <2>1. IsFiniteSet(bodies)
    BY CreateBodies
  <2>2. InsertOutbox(bodies) /\ UNCHANGED <<relayVars, dispatched>>
    BY <1>1 DEF CreateExpression
  <2> HIDE DEF bodies
  <2> QED
    BY <2>1, <2>2, InsertKeepsOutbox
<1>2. CASE FinalizeImmediate(e)
  <2> DEFINE bodies == {AuditBody("expression.submitted", e), AuditBody("expression.done", e)}
  <2>1. IsFiniteSet(bodies)
    BY PairFinite, Zenon
  <2>2. InsertOutbox(bodies) /\ UNCHANGED <<relayVars, dispatched>>
    BY <1>2 DEF FinalizeImmediate
  <2> HIDE DEF bodies
  <2> QED
    BY <2>1, <2>2, InsertKeepsOutbox
<1> QED
  BY <1>1, <1>2 DEF Submit

LEMMA HandleOutbox ==
  ASSUME OutboxInv, TypeOK', NEW m \in reported, HandleResult(m)
  PROVE  OutboxInv'
<1>0. /\ m.task \in Task /\ m.value \in Value \cup {NoValue}
      /\ UNCHANGED <<relayVars, dispatched>>
  BY DEF HandleResult, OutboxInv, TypeOK, ResultMessage
<1>1. CASE UNCHANGED outboxVars
  BY <1>0, <1>1, IdleKeepsOutbox
<1>2. CASE ApplyResult(m) /\ status[m.task] \notin Settled
  <2> DEFINE t == m.task
             bodies == {TaskBody(u, arg1'[u], arg2'[u]) : u \in Unlocked(t)}
                        \cup {AuditBody("task.done", t)}
                        \cup (IF IsRoot(t) THEN {AuditBody("expression.done", ExprOf[t])} ELSE {})
  <2>1. FanIn(t, m.value)
    BY <1>2 DEF ApplyResult
  <2>2. IsFiniteSet(bodies) /\ InsertOutbox(bodies)
    <3> HIDE DEF t
    <3>1. TypeOK /\ t \in Task /\ m.value \in Value \cup {NoValue}
      BY <1>0 DEF OutboxInv, t
    <3> QED
      BY <2>1, <3>1, FanInBodies
  <2> HIDE DEF bodies
  <2> QED
    BY <1>0, <2>2, InsertKeepsOutbox
<1>3. CASE ApplyFailure(m) /\ status[m.task] \notin Settled
  <2> DEFINE bodies == {AuditBody("task.failed", m.task),
                        AuditBody("expression.failed", ExprOf[m.task])}
  <2>1. IsFiniteSet(bodies)
    BY PairFinite, Zenon
  <2>2. InsertOutbox(bodies)
    BY <1>3 DEF ApplyFailure
  <2> HIDE DEF bodies
  <2> QED
    BY <1>0, <2>1, <2>2, InsertKeepsOutbox
<1>4. UNCHANGED outboxVars \/ (ApplyResult(m) /\ status[m.task] \notin Settled)
                           \/ (ApplyFailure(m) /\ status[m.task] \notin Settled)
  BY DEF HandleResult, ApplyStarted, ApplyResult, ApplyFailure
<1> QED
  BY <1>1, <1>2, <1>3, <1>4

LEMMA RelayOutbox ==
  ASSUME OutboxInv, TypeOK', NEW r \in Replica, Relay(r)
  PROVE  OutboxInv'
<1>0. /\ claimed \in [Replica -> SUBSET OutboxRow] /\ todo \in [Replica -> SUBSET OutboxRow]
      /\ acked \in [Replica -> SUBSET Nat]
  BY DEF OutboxInv, TypeOK
<1>1. CASE RelayClaim(r)
  <2>1. Lowest(Unclaimed, Batch) \subseteq Unclaimed
    BY DEF Lowest
  <2>2. acked[r] = {}
    BY <1>0, <1>1 DEF OutboxInv, MarksTrue, RelayClaim
  <2>3. Numbered'
    BY <1>1 DEF OutboxInv, Numbered, RelayClaim, outboxVars
  <2>4. MarksTrue'
    BY <1>0, <1>1, <2>2 DEF OutboxInv, MarksTrue, RelayClaim, outboxVars
  <2>5. ClaimsExclusive'
    BY <1>0, <1>1, <2>1 DEF OutboxInv, ClaimsExclusive, RelayClaim, outboxVars, Unclaimed
  <2> QED
    BY <2>3, <2>4, <2>5 DEF OutboxInv
<1>2. ASSUME NEW row \in todo[r], NEW outcome \in PublishOutcome, RelayPublish(r, row, outcome)
      PROVE  OutboxInv'
  <2>1. Numbered' /\ ClaimsExclusive'
    BY <1>2 DEF OutboxInv, Numbered, ClaimsExclusive, RelayPublish, outboxVars
  <2>2. dispatched \subseteq dispatched'
        /\ (outcome = "confirmed" => row.body \in dispatched')
    BY <1>2 DEF RelayPublish
  <2>3. MarksTrue'
    BY <1>0, <1>2, <2>2 DEF OutboxInv, MarksTrue, RelayPublish, outboxVars
  <2> QED
    BY <2>1, <2>3 DEF OutboxInv
<1>3. CASE RelayCommit(r)
  <2>0. /\ published' = published \cup acked[r]
        /\ UNCHANGED <<outbox, lastId, dispatched>>
        /\ claimed' = [claimed EXCEPT ![r] = {}]
        /\ todo' = [todo EXCEPT ![r] = {}] /\ acked' = [acked EXCEPT ![r] = {}]
    BY <1>3 DEF RelayCommit, EndRelay
  <2>1. \A id \in acked[r] :
           \E row \in claimed[r] : row.id = id /\ row \in outbox /\ row.body \in dispatched
    BY DEF OutboxInv, MarksTrue, ClaimsExclusive
  <2>2. Numbered'
    BY <2>0, <2>1 DEF OutboxInv, Numbered
  <2>3. \A row \in outbox : row.id \in acked[r] => row \in claimed[r] /\ row.body \in dispatched
    BY <2>1 DEF OutboxInv, Numbered
  <2>4. MarksTrue'
    BY <1>0, <2>0, <2>3 DEF OutboxInv, MarksTrue
  <2>5. ClaimsExclusive'
    BY <1>0, <2>0, <2>3 DEF OutboxInv, ClaimsExclusive
  <2> QED
    BY <2>2, <2>4, <2>5 DEF OutboxInv
<1>4. CASE RelayAbort(r)
  <2>0. /\ UNCHANGED <<outboxVars, dispatched>>
        /\ claimed' = [claimed EXCEPT ![r] = {}]
        /\ todo' = [todo EXCEPT ![r] = {}] /\ acked' = [acked EXCEPT ![r] = {}]
    BY <1>4 DEF RelayAbort, EndRelay
  <2>1. Numbered' /\ ClaimsExclusive'
    BY <1>0, <2>0 DEF OutboxInv, Numbered, ClaimsExclusive, outboxVars
  <2>2. MarksTrue'
    BY <1>0, <2>0 DEF OutboxInv, MarksTrue, outboxVars
  <2> QED
    BY <2>1, <2>2 DEF OutboxInv
<1> QED
  BY <1>1, <1>2, <1>3, <1>4 DEF Relay

LEMMA PruneOutboxInv ==
  ASSUME OutboxInv, TypeOK', PruneOutbox
  PROVE  OutboxInv'
<1> PICK old \in (SUBSET published) \ {{}} :
        /\ outbox' = {row \in outbox : row.id \notin old}
        /\ published' = published \ old
        /\ UNCHANGED <<lastId, relayVars, dispatched>>
  BY DEF PruneOutbox
<1>1. Numbered' /\ MarksTrue'
  BY DEF OutboxInv, Numbered, MarksTrue, relayVars
<1>2. ClaimsExclusive'
  BY DEF OutboxInv, ClaimsExclusive, relayVars
<1> QED
  BY <1>1, <1>2 DEF OutboxInv

LEMMA OutboxStep == OutboxInv /\ [Next]_storeVars => OutboxInv'
<1> SUFFICES ASSUME OutboxInv, [Next]_storeVars PROVE OutboxInv'
  OBVIOUS
<1>0. TypeOK'
  BY TypeStep DEF OutboxInv
<1>1. ASSUME NEW m \in Assigned, NEW sent \in AgentReports(m), AgentReport(m, sent)
      PROVE  OutboxInv'
  BY <1>0, <1>1, IdleKeepsOutbox DEF AgentReport
<1>2. CASE UNCHANGED storeVars
  BY <1>0, <1>2, IdleKeepsOutbox DEF storeVars, outboxVars, relayVars
<1> QED
  BY <1>0, <1>1, <1>2, SubmitOutbox, HandleOutbox, RelayOutbox, PruneOutboxInv DEF Next

(* Two relays never hold the same row, and a row that is held is neither   *)
(* marked nor pruned: FOR UPDATE SKIP LOCKED, for any number of replicas.  *)
THEOREM ClaimsAreExclusive == Spec => []ClaimsExclusive
<1>1. OutboxInv => ClaimsExclusive
  BY DEF OutboxInv
<1> QED
  BY OutboxInit, OutboxStep, <1>1, PTL DEF Spec

-----------------------------------------------------------------------------
(* The fan-in: however results arrive, the columns and the messages are    *)
(* right, and no task is forgotten.                                        *)

(* An expression and its tasks are stored by one transaction.              *)
StoredTogether ==
    \A t \in Task : status[t] = "absent" <=> exprStatus[ExprOf[t]] = "absent"

(* A settled task settled on the outcome of its own arguments.             *)
OutcomesRight ==
    \A t \in Task :
        /\ status[t] = "done" => /\ result[t] \in Value
                                 /\ result[t] = Compute(t, arg1[t], arg2[t])
        /\ status[t] = "failed" => Compute(t, arg1[t], arg2[t]) = Error

FanInInv == StoredTogether /\ FanInConsistent /\ MessagesAgree /\ OutcomesRight

StoreInv == OutboxInv /\ FanInInv

(* MessagesAgree, one message at a time.                                   *)
Launched(t) == status[t] \notin {"absent", "pending"}
Bodies == {row.body : row \in outbox} \cup dispatched
TaskAgrees(b) == Launched(b.task) /\ b.arg1 = arg1[b.task] /\ b.arg2 = arg2[b.task]
ReportAgrees(m) ==
    /\ Launched(m.task)
    /\ m.kind = "ok" => m.value = Compute(m.task, arg1[m.task], arg2[m.task])
    /\ m.kind = "error" => Compute(m.task, arg1[m.task], arg2[m.task]) = Error

LEMMA MessagesAgreeUnfolded ==
  MessagesAgree <=> /\ \A b \in Bodies : b.kind = "task" => TaskAgrees(b)
                    /\ \A m \in reported : ReportAgrees(m)
BY DEF MessagesAgree, Bodies, TaskAgrees, ReportAgrees, Launched

-----------------------------------------------------------------------------
(* A launched task has both its arguments, and its operands are done.      *)
LEMMA LaunchedReady ==
  ASSUME TypeOK, FanInInv, NEW t \in Task, Launched(t)
  PROVE  /\ Unfinished(Arg1[t]) = 0 /\ Unfinished(Arg2[t]) = 0
         /\ arg1[t] = Available(Arg1[t]) /\ arg1[t] \in Value
         /\ arg2[t] = Available(Arg2[t]) /\ arg2[t] \in Value
<1>1. /\ arg1[t] = Available(Arg1[t]) /\ arg2[t] = Available(Arg2[t])
      /\ unmet[t] = Unfinished(Arg1[t]) + Unfinished(Arg2[t])
      /\ ~ (unmet[t] > 0)
  BY DEF FanInInv, FanInConsistent, Launched
<1>2. /\ Unfinished(Arg1[t]) \in {0, 1} /\ Unfinished(Arg2[t]) \in {0, 1}
  BY DEF Unfinished
<1>3. Unfinished(Arg1[t]) = 0 /\ Unfinished(Arg2[t]) = 0
  BY <1>1, <1>2
<1>4. \A x \in Task \cup Value : Unfinished(x) = 0 => Available(x) \in Value
  BY DEF Unfinished, Available, FanInInv, OutcomesRight
<1>5. Arg1[t] \in Task \cup Value /\ Arg2[t] \in Task \cup Value
  BY PlanAssumption
<1> QED
  BY <1>1, <1>3, <1>4, <1>5

(* Rows are inserted, launched tasks keep their arguments: the messages    *)
(* go on agreeing if the new ones do.                                      *)
LEMMA MessagesKept ==
  ASSUME TypeOK, MessagesAgree, UNCHANGED reported,
         \A t \in Task : Launched(t) =>
            Launched(t)' /\ arg1'[t] = arg1[t] /\ arg2'[t] = arg2[t],
         \A b \in Bodies' : b.kind = "task" => b \in Bodies \/ TaskAgrees(b)'
  PROVE  MessagesAgree'
<1>1. \A b \in Bodies : b.kind = "task" => b.task \in Task
  BY DEF Bodies, TypeOK, OutboxRow, TaskMessage, AuditMessage
<1>2. \A b \in Bodies' : b.kind = "task" => TaskAgrees(b)'
  BY <1>1, MessagesAgreeUnfolded DEF TaskAgrees
<1>3. \A m \in reported : m.task \in Task
  BY DEF TypeOK, ResultMessage
<1>4. \A m \in reported : ReportAgrees(m)'
  BY <1>3, MessagesAgreeUnfolded DEF ReportAgrees
<1>5. MessagesAgree' <=> /\ \A b \in Bodies' : b.kind = "task" => TaskAgrees(b)'
                         /\ \A m \in reported' : ReportAgrees(m)'
  BY DEF MessagesAgree, Bodies, TaskAgrees, ReportAgrees, Launched
<1> QED
  BY <1>2, <1>4, <1>5

LEMMA InsertBodies ==
  ASSUME TypeOK, NEW bodies, IsFiniteSet(bodies), InsertOutbox(bodies), UNCHANGED dispatched
  PROVE  \A b \in Bodies' : b \in Bodies \/ b \in bodies
<1>1. \A row \in outbox' : row \in outbox \/ row.body \in bodies
  BY InsertOutboxFacts DEF NewRows, TypeOK
<1> QED
  BY <1>1 DEF Bodies

(* An action that leaves the tables alone but for settled or running       *)
(* statuses of one launched task that is not done.                         *)
LEMMA StatusOnly ==
  ASSUME TypeOK, FanInInv, NEW t \in Task, NEW s \in {"running", "failed"},
         Launched(t), status[t] \notin Settled,
         status' = [status EXCEPT ![t] = s],
         UNCHANGED <<unmet, arg1, arg2, result>>,
         s = "failed" => Compute(t, arg1[t], arg2[t]) = Error,
         \A e \in Expr : exprStatus'[e] = "absent" <=> exprStatus[e] = "absent"
  PROVE  /\ StoredTogether' /\ FanInConsistent' /\ OutcomesRight'
         /\ \A u \in Task : Launched(u) => Launched(u)'
<1>1. /\ status'[t] = s /\ s \notin {"absent", "pending", "done"}
      /\ \A u \in Task : u # t => status'[u] = status[u]
  BY DEF TypeOK
<1>2. StoredTogether'
  BY <1>1, PlanAssumption DEF FanInInv, StoredTogether, Launched
<1>3. \A x : Unfinished(x)' = Unfinished(x) /\ Available(x)' = Available(x)
  BY <1>1 DEF Unfinished, Available, Settled
<1>4. FanInConsistent'
  <2> SUFFICES ASSUME NEW u \in Task, status'[u] # "absent"
               PROVE  /\ arg1'[u] = Available(Arg1[u])'
                      /\ arg2'[u] = Available(Arg2[u])'
                      /\ unmet'[u] = Unfinished(Arg1[u])' + Unfinished(Arg2[u])'
                      /\ status'[u] = "pending" <=> unmet'[u] > 0
    BY DEF FanInConsistent, Available, Unfinished
  <2>1. status[u] # "absent" /\ (status'[u] = "pending" <=> status[u] = "pending")
    BY <1>1 DEF Launched
  <2> QED
    BY <1>3, <2>1 DEF FanInInv, FanInConsistent
<1>5. OutcomesRight'
  BY <1>1 DEF FanInInv, OutcomesRight
<1>6. \A u \in Task : Launched(u) => Launched(u)'
  BY <1>1 DEF Launched
<1> QED
  BY <1>2, <1>4, <1>5, <1>6

-----------------------------------------------------------------------------
(* What the completion of t does to an operand arg[u] of a stored task u.  *)
LEMMA OperandStep ==
  ASSUME TypeOK, NEW t \in Task, NEW v \in Value, FanIn(t, v), status[t] \notin Settled,
         NEW arg \in [Task -> Task \cup Value], NEW u \in Task,
         arg[u] = t => status[u] = "pending"
  PROVE  /\ Unfinished(arg[u])' =
               Unfinished(arg[u]) - (IF u \in Dependents(arg, t) THEN 1 ELSE 0)
         /\ Available(arg[u])' = IF u \in Dependents(arg, t) THEN v ELSE Available(arg[u])
<1>1. /\ \A w \in Task : (status'[w] = "done") <=> (w = t \/ status[w] = "done")
      /\ result'[t] = v /\ \A w \in Task : w # t => result'[w] = result[w]
  BY DEF FanIn, TypeOK, Unlocked, Dependents
<1>2. u \in Dependents(arg, t) <=> arg[u] = t
  BY DEF Dependents
<1>3. CASE arg[u] = t
  BY <1>1, <1>2, <1>3 DEF Unfinished, Available, Settled
<1>4. CASE arg[u] # t
  BY <1>1, <1>2, <1>4 DEF Unfinished, Available
<1> QED
  BY <1>3, <1>4

LEMMA FanInStep ==
  ASSUME TypeOK, TypeOK', FanInInv, NEW t \in Task, NEW v \in Value, FanIn(t, v),
         Launched(t), status[t] \notin Settled, v = Compute(t, arg1[t], arg2[t]),
         UNCHANGED <<dispatched, reported>>
  PROVE  FanInInv'
<1>1. /\ Arg1 \in [Task -> Task \cup Value] /\ Arg2 \in [Task -> Task \cup Value]
      /\ ExprOf[t] \in Expr
  BY PlanAssumption
<1>2. \A u \in Unlocked(t) : u \in Task /\ status[u] = "pending" /\ u # t
  BY DEF Unlocked, Dependents, Launched
<1>3. /\ status'[t] = "done"
      /\ \A u \in Unlocked(t) : status'[u] = "ready"
      /\ \A u \in Task \ Unlocked(t) : u # t => status'[u] = status[u]
  BY <1>2 DEF FanIn, TypeOK
<1>4. \A u \in Task : status'[u] = "absent" <=> status[u] = "absent"
  BY <1>2, <1>3 DEF Launched
<1>5. /\ exprStatus' = [exprStatus EXCEPT ![ExprOf[t]] = StatusAfter(t)]
      /\ exprStatus[ExprOf[t]] # "absent" /\ StatusAfter(t) # "absent"
  BY DEF FanIn, FanInInv, StoredTogether, Launched, StatusAfter
<1>6. StoredTogether'
  BY <1>1, <1>4, <1>5, PlanAssumption DEF FanInInv, StoredTogether, TypeOK
<1>7. \A u \in Task : /\ Launched(u) => u \notin Dependents(Arg1, t) /\ u \notin Dependents(Arg2, t)
                      /\ Launched(u) => arg1'[u] = arg1[u] /\ arg2'[u] = arg2[u]
                      /\ Launched(u) => Launched(u)'
  BY <1>2, <1>3 DEF FanIn, Launched, Dependents
<1>8. FanInConsistent'
  <2> SUFFICES ASSUME NEW u \in Task, status'[u] # "absent"
               PROVE  /\ arg1'[u] = Available(Arg1[u])'
                      /\ arg2'[u] = Available(Arg2[u])'
                      /\ unmet'[u] = Unfinished(Arg1[u])' + Unfinished(Arg2[u])'
                      /\ status'[u] = "pending" <=> unmet'[u] > 0
    BY DEF FanInConsistent, Available, Unfinished
  <2>1. /\ arg1[u] = Available(Arg1[u])
        /\ arg2[u] = Available(Arg2[u])
        /\ unmet[u] = Unfinished(Arg1[u]) + Unfinished(Arg2[u])
        /\ status[u] = "pending" <=> unmet[u] > 0
    BY <1>4 DEF FanInInv, FanInConsistent
  <2>2. Unfinished(Arg1[u]) \in {0, 1} /\ Unfinished(Arg2[u]) \in {0, 1}
    BY DEF Unfinished
  <2>3. (Arg1[u] = t => status[u] = "pending") /\ (Arg2[u] = t => status[u] = "pending")
    <3>1. Unfinished(t) = 1
      BY DEF Unfinished, Settled
    <3> QED
      BY <2>1, <2>2, <3>1
  <2>4. /\ Unfinished(Arg1[u])' =
              Unfinished(Arg1[u]) - (IF u \in Dependents(Arg1, t) THEN 1 ELSE 0)
        /\ Available(Arg1[u])' = IF u \in Dependents(Arg1, t) THEN v ELSE Available(Arg1[u])
    BY <1>1, <2>3, OperandStep
  <2>5. /\ Unfinished(Arg2[u])' =
              Unfinished(Arg2[u]) - (IF u \in Dependents(Arg2, t) THEN 1 ELSE 0)
        /\ Available(Arg2[u])' = IF u \in Dependents(Arg2, t) THEN v ELSE Available(Arg2[u])
    BY <1>1, <2>3, OperandStep
  <2>6. /\ arg1'[u] = IF u \in Dependents(Arg1, t) THEN v ELSE arg1[u]
        /\ arg2'[u] = IF u \in Dependents(Arg2, t) THEN v ELSE arg2[u]
        /\ unmet'[u] = UnmetAfter(t, u)
    BY DEF FanIn
  <2>7. arg1'[u] = Available(Arg1[u])' /\ arg2'[u] = Available(Arg2[u])'
    BY <2>1, <2>4, <2>5, <2>6
  <2>8. unmet'[u] = Unfinished(Arg1[u])' + Unfinished(Arg2[u])'
    BY <2>1, <2>2, <2>4, <2>5, <2>6 DEF UnmetAfter
  <2>9. /\ Unfinished(Arg1[u])' \in {0, 1} /\ Unfinished(Arg2[u])' \in {0, 1}
    BY DEF Unfinished
  <2>10. status'[u] = "pending" <=> unmet'[u] > 0
    <3>1. CASE u \in Unlocked(t)
      BY <1>3, <2>6, <3>1 DEF Unlocked
    <3>2. CASE u \in Dependents(Arg1, t) \cup Dependents(Arg2, t) /\ u \notin Unlocked(t)
      <4>1. unmet'[u] # 0 /\ status[u] = "pending" /\ u # t
        BY <2>6, <3>2 DEF Unlocked, Dependents, Launched
      <4> QED
        BY <1>3, <2>8, <2>9, <3>2, <4>1
    <3>3. CASE u \notin Dependents(Arg1, t) /\ u \notin Dependents(Arg2, t)
      <4>1. unmet'[u] = unmet[u] /\ u \notin Unlocked(t)
        BY <2>1, <2>2, <2>6, <3>3 DEF UnmetAfter, Unlocked
      <4>2. CASE u = t
        BY <1>3, <2>1, <4>1, <4>2 DEF Launched
      <4>3. CASE u # t
        BY <1>3, <2>1, <4>1, <4>3
      <4> QED
        BY <4>2, <4>3
    <3> QED
      BY <3>1, <3>2, <3>3
  <2> QED
    BY <2>7, <2>8, <2>10
<1>9. OutcomesRight'
  <2>1. result' = [result EXCEPT ![t] = v] /\ result \in [Task -> Value \cup {NoValue}]
    BY DEF FanIn, TypeOK
  <2>2. \A u \in Task : u # t /\ status'[u] \in Settled => status[u] = status'[u] /\ Launched(u)
    BY <1>3 DEF Settled, Launched
  <2> SUFFICES ASSUME NEW u \in Task
               PROVE  /\ status'[u] = "done" => /\ result'[u] \in Value
                                                /\ result'[u] = Compute(u, arg1'[u], arg2'[u])
                      /\ status'[u] = "failed" => Compute(u, arg1'[u], arg2'[u]) = Error
    BY DEF OutcomesRight, Compute
  <2>3. CASE u = t
    BY <1>3, <1>7, <2>1, <2>3
  <2>4. CASE u # t
    BY <1>7, <2>1, <2>2, <2>4 DEF FanInInv, OutcomesRight, Settled
  <2> QED
    BY <2>3, <2>4
<1>10. MessagesAgree'
  <2> DEFINE tasks == {TaskBody(u, arg1'[u], arg2'[u]) : u \in Unlocked(t)}
             audits == {AuditBody("task.done", t)}
                        \cup (IF IsRoot(t) THEN {AuditBody("expression.done", ExprOf[t])} ELSE {})
             bodies == {TaskBody(u, arg1'[u], arg2'[u]) : u \in Unlocked(t)}
                        \cup {AuditBody("task.done", t)}
                        \cup (IF IsRoot(t) THEN {AuditBody("expression.done", ExprOf[t])} ELSE {})
  <2>1. IsFiniteSet(bodies) /\ InsertOutbox(bodies)
    BY FanInBodies
  <2>2. \A b \in audits : b.kind # "task"
    BY DEF AuditBody
  <2>3. \A b \in tasks : TaskAgrees(b)'
    <3> SUFFICES ASSUME NEW b \in tasks PROVE TaskAgrees(b)'
      OBVIOUS
    <3>1. PICK u \in Unlocked(t) : b = TaskBody(u, arg1'[u], arg2'[u])
      OBVIOUS
    <3> QED
      BY <1>3, <3>1 DEF TaskAgrees, TaskBody, Launched
  <2>4. \A b \in bodies : b \in tasks \/ b \in audits
    OBVIOUS
  <2>5. \A b \in Bodies' : b \in Bodies \/ b \in bodies
    <3> HIDE DEF bodies
    <3> QED
      BY <2>1, InsertBodies
  <2>6. \A b \in Bodies' : b.kind = "task" => b \in Bodies \/ TaskAgrees(b)'
    <3> HIDE DEF bodies, tasks, audits
    <3> QED
      BY <2>2, <2>3, <2>4, <2>5
  <2> QED
    BY <1>7, <2>6, MessagesKept DEF FanInInv
<1> QED
  BY <1>6, <1>8, <1>9, <1>10 DEF FanInInv

-----------------------------------------------------------------------------
(* The remaining actions.                                                  *)
LEMMA CreateStep ==
  ASSUME TypeOK, FanInInv, NEW e \in Expr, CreateExpression(e)
  PROVE  FanInInv'
<1> DEFINE tasks == TasksOf(e)
           ready == {t \in TasksOf(e) : UnmetDeps(t) = 0}
           bodies == {TaskBody(t, Arg1[t], Arg2[t]) : t \in ready}
                      \cup {AuditBody("expression.submitted", e)}
<1>1. /\ \A t \in Task : t \in tasks <=> ExprOf[t] = e
      /\ \A t \in tasks : status[t] = "absent"
  BY DEF TasksOf, FanInInv, StoredTogether, CreateExpression
<1>2. /\ \A t \in tasks : status'[t] = IF UnmetDeps(t) = 0 THEN "ready" ELSE "pending"
      /\ \A t \in tasks : unmet'[t] = UnmetDeps(t)
      /\ \A t \in tasks : arg1'[t] = IF Arg1[t] \in Value THEN Arg1[t] ELSE NoValue
      /\ \A t \in tasks : arg2'[t] = IF Arg2[t] \in Value THEN Arg2[t] ELSE NoValue
      /\ \A t \in Task \ tasks : /\ status'[t] = status[t] /\ unmet'[t] = unmet[t]
                                 /\ arg1'[t] = arg1[t] /\ arg2'[t] = arg2[t]
      /\ result' = result
  <2>1. \A t \in Task : /\ status'[t] = IF t \notin tasks THEN status[t]
                                        ELSE IF t \in ready THEN "ready" ELSE "pending"
                        /\ unmet'[t] = IF t \in tasks THEN UnmetDeps(t) ELSE unmet[t]
    BY DEF CreateExpression
  <2>2. \A t \in Task : /\ arg1'[t] = IF t \in tasks THEN (IF Arg1[t] \in Value THEN Arg1[t] ELSE NoValue)
                                                     ELSE arg1[t]
                        /\ arg2'[t] = IF t \in tasks THEN (IF Arg2[t] \in Value THEN Arg2[t] ELSE NoValue)
                                                     ELSE arg2[t]
    BY DEF CreateExpression
  <2>3. result' = result
    BY DEF CreateExpression
  <2>4. tasks \subseteq Task
    BY DEF TasksOf
  <2>5. \A t \in tasks : t \in ready <=> UnmetDeps(t) = 0
    OBVIOUS
  <2> HIDE DEF ready, tasks
  <2> QED
    BY <2>1, <2>2, <2>3, <2>4, <2>5
<1>3. StoredTogether'
  BY <1>1, <1>2, PlanAssumption DEF CreateExpression, TypeOK, FanInInv, StoredTogether
<1>4. FanInConsistent'
  <2> SUFFICES ASSUME NEW t \in Task, status'[t] # "absent"
               PROVE  /\ arg1'[t] = Available(Arg1[t])'
                      /\ arg2'[t] = Available(Arg2[t])'
                      /\ unmet'[t] = Unfinished(Arg1[t])' + Unfinished(Arg2[t])'
                      /\ status'[t] = "pending" <=> unmet'[t] > 0
    BY DEF FanInConsistent, Available, Unfinished
  <2>1. /\ Arg1[t] \in Task => (Arg1[t] \in tasks <=> t \in tasks)
        /\ Arg2[t] \in Task => (Arg2[t] \in tasks <=> t \in tasks)
    BY PlanAssumption DEF TasksOf, Operands
  <2>2. Arg1[t] \in Task \cup Value /\ Arg2[t] \in Task \cup Value /\ Task \cap Value = {}
    BY PlanAssumption
  <2>3. CASE t \in tasks
    <3>1. \A x \in Task \cup Value : (x \in Task => x \in tasks) =>
             /\ Unfinished(x)' = IF x \in Task THEN 1 ELSE 0
             /\ Available(x)' = IF x \in Value THEN x ELSE NoValue
      BY <1>2, <2>2 DEF Unfinished, Available
    <3>2. /\ Unfinished(Arg1[t])' = IF Arg1[t] \in Task THEN 1 ELSE 0
          /\ Unfinished(Arg2[t])' = IF Arg2[t] \in Task THEN 1 ELSE 0
          /\ arg1'[t] = Available(Arg1[t])'
          /\ arg2'[t] = Available(Arg2[t])'
      BY <1>2, <2>1, <2>2, <2>3, <3>1
    <3> QED
      BY <1>2, <2>3, <3>2 DEF UnmetDeps
  <2>4. CASE t \notin tasks
    <3>1. \A x \in Task \cup Value : (x \in Task => x \notin tasks) =>
             Unfinished(x)' = Unfinished(x) /\ Available(x)' = Available(x)
      BY <1>2 DEF Unfinished, Available
    <3>2. /\ Unfinished(Arg1[t])' = Unfinished(Arg1[t])
          /\ Unfinished(Arg2[t])' = Unfinished(Arg2[t])
          /\ Available(Arg1[t])' = Available(Arg1[t])
          /\ Available(Arg2[t])' = Available(Arg2[t])
      BY <2>1, <2>2, <2>4, <3>1
    <3> QED
      BY <1>2, <2>4, <3>2 DEF FanInInv, FanInConsistent
  <2> QED
    BY <2>3, <2>4
<1>5. OutcomesRight'
  <2> SUFFICES ASSUME NEW t \in Task
               PROVE  /\ status'[t] = "done" => /\ result'[t] \in Value
                                                /\ result'[t] = Compute(t, arg1'[t], arg2'[t])
                      /\ status'[t] = "failed" => Compute(t, arg1'[t], arg2'[t]) = Error
    BY DEF OutcomesRight, Compute
  <2> QED
    BY <1>2 DEF FanInInv, OutcomesRight
<1>6. MessagesAgree'
  <2>1. IsFiniteSet(bodies) /\ InsertOutbox(bodies) /\ UNCHANGED <<dispatched, reported>>
    BY CreateBodies DEF CreateExpression
  <2>2. \A b \in Bodies' : b \in Bodies \/ b \in bodies
    <3> HIDE DEF bodies
    <3> QED
      BY <2>1, InsertBodies
  <2>3. \A b \in bodies : b.kind = "task" => TaskAgrees(b)'
    <3> SUFFICES ASSUME NEW b \in bodies, b.kind = "task" PROVE TaskAgrees(b)'
      OBVIOUS
    <3>1. PICK t \in ready : b = TaskBody(t, Arg1[t], Arg2[t])
      BY DEF AuditBody
    <3>2. t \in tasks /\ t \in Task /\ Arg1[t] \in Value /\ Arg2[t] \in Value /\ UnmetDeps(t) = 0
      BY NoDepsLiteral DEF TasksOf
    <3>3. status'[t] = "ready" /\ arg1'[t] = Arg1[t] /\ arg2'[t] = Arg2[t]
      BY <1>2, <3>2
    <3> QED
      BY <3>1, <3>3 DEF TaskAgrees, TaskBody, Launched
  <2>4. \A t \in Task : Launched(t) =>
            Launched(t)' /\ arg1'[t] = arg1[t] /\ arg2'[t] = arg2[t]
    BY <1>1, <1>2 DEF Launched
  <2> QED
    BY <2>1, <2>2, <2>3, <2>4, MessagesKept DEF FanInInv
<1> QED
  BY <1>3, <1>4, <1>5, <1>6 DEF FanInInv

(* Task columns and reports stay as they are, and no message is new but    *)
(* for audit events.                                                       *)
LEMMA TablesKept ==
  ASSUME TypeOK, FanInInv, UNCHANGED <<taskVars, reported>>, StoredTogether',
         \A b \in Bodies' : b \in Bodies \/ b.kind # "task"
  PROVE  FanInInv'
<1>1. FanInConsistent' /\ OutcomesRight'
  BY DEF FanInInv, FanInConsistent, Available, Unfinished, OutcomesRight, Compute, taskVars
<1>2. MessagesAgree'
  BY MessagesKept DEF FanInInv, Launched, taskVars
<1> QED
  BY <1>1, <1>2 DEF FanInInv

LEMMA ImmediateStep ==
  ASSUME TypeOK, FanInInv, NEW e \in Expr, FinalizeImmediate(e)
  PROVE  FanInInv'
<1> DEFINE bodies == {AuditBody("expression.submitted", e), AuditBody("expression.done", e)}
<1>1. IsFiniteSet(bodies)
  BY PairFinite, Zenon
<1>2. InsertOutbox(bodies) /\ UNCHANGED <<taskVars, dispatched, reported>>
  BY DEF FinalizeImmediate
<1>3. \A b \in Bodies' : b \in Bodies \/ b \in bodies
  <2> HIDE DEF bodies
  <2> QED
    BY <1>1, <1>2, InsertBodies
<1>4. \A t \in Task : ExprOf[t] # e
  BY PlanAssumption DEF FinalizeImmediate, TasksOf
<1>5. StoredTogether'
  BY <1>4, PlanAssumption DEF FanInInv, StoredTogether, FinalizeImmediate, TypeOK, taskVars
<1>6. \A b \in bodies : b.kind # "task"
  BY DEF AuditBody
<1> HIDE DEF bodies
<1> QED
  BY <1>2, <1>3, <1>5, <1>6, TablesKept

LEMMA HandleStep ==
  ASSUME TypeOK, TypeOK', FanInInv, NEW m \in reported, HandleResult(m)
  PROVE  FanInInv'
<1> DEFINE t == m.task
<1>1. /\ t \in Task /\ m.value \in Value \cup {NoValue} /\ Launched(t) /\ ReportAgrees(m)
      /\ UNCHANGED <<relayVars, dispatched, reported>>
  BY MessagesAgreeUnfolded DEF FanInInv, TypeOK, ResultMessage, HandleResult, ReportAgrees
<1> HIDE DEF t
<1>2. CASE ApplyStarted(m) /\ status[t] \in Runnable
  <2>1. /\ status' = [status EXCEPT ![t] = "running"]
        /\ UNCHANGED <<exprVars, unmet, arg1, arg2, result, outboxVars>>
    BY <1>2 DEF ApplyStarted, t
  <2>2. status[t] \notin Settled
    BY <1>2 DEF Runnable, Settled
  <2>3. /\ StoredTogether' /\ FanInConsistent' /\ OutcomesRight'
        /\ \A u \in Task : Launched(u) => Launched(u)'
    BY <1>1, <2>1, <2>2, StatusOnly DEF exprVars
  <2>4. MessagesAgree'
    BY <1>1, <2>1, <2>3, MessagesKept DEF FanInInv, Bodies, outboxVars
  <2> QED
    BY <2>3, <2>4 DEF FanInInv
<1>3. CASE ApplyResult(m) /\ status[t] \notin Settled
  <2>1. FanIn(t, m.value) /\ m.value = Compute(t, arg1[t], arg2[t])
    BY <1>1, <1>3 DEF ApplyResult, ReportAgrees, t
  <2>2. m.value \in Value
    BY <1>1, <2>1, LaunchedReady, ComputeType, PlanAssumption DEF Outcome
  <2> QED
    BY <1>1, <1>3, <2>1, <2>2, FanInStep
<1>4. CASE ApplyFailure(m) /\ status[t] \notin Settled
  <2> DEFINE bodies == {AuditBody("task.failed", t), AuditBody("expression.failed", ExprOf[t])}
  <2>1. /\ status' = [status EXCEPT ![t] = "failed"]
        /\ UNCHANGED <<unmet, arg1, arg2, result>>
        /\ exprStatus' = [exprStatus EXCEPT ![ExprOf[t]] = IF @ \in Open THEN "failed" ELSE @]
        /\ InsertOutbox(bodies)
    BY <1>4 DEF ApplyFailure, t
  <2>2. Compute(t, arg1[t], arg2[t]) = Error
    BY <1>1, <1>4 DEF ReportAgrees, ApplyFailure, t
  <2>3. \A e \in Expr : exprStatus'[e] = "absent" <=> exprStatus[e] = "absent"
    BY <2>1 DEF TypeOK, Open
  <2>4. /\ StoredTogether' /\ FanInConsistent' /\ OutcomesRight'
        /\ \A u \in Task : Launched(u) => Launched(u)'
    <3> HIDE DEF bodies
    <3> QED
      BY <1>1, <1>4, <2>1, <2>2, <2>3, StatusOnly
  <2>5. IsFiniteSet(bodies)
    BY PairFinite, Zenon
  <2>6. \A b \in Bodies' : b \in Bodies \/ b \in bodies
    <3> HIDE DEF bodies
    <3> QED
      BY <1>1, <2>1, <2>5, InsertBodies
  <2>7. \A b \in bodies : b.kind # "task"
    BY DEF AuditBody
  <2>8. MessagesAgree'
    <3> HIDE DEF bodies
    <3> QED
      BY <1>1, <2>1, <2>4, <2>6, <2>7, MessagesKept DEF FanInInv
  <2> QED
    BY <2>4, <2>8 DEF FanInInv
<1>5. CASE UNCHANGED <<exprVars, taskVars, outboxVars>>
  <2>1. StoredTogether'
    BY <1>5 DEF FanInInv, StoredTogether, exprVars, taskVars
  <2>2. Bodies' = Bodies
    BY <1>1, <1>5 DEF Bodies, outboxVars
  <2> QED
    BY <1>1, <1>5, <2>1, <2>2, TablesKept
<1> QED
  BY <1>2, <1>3, <1>4, <1>5
     DEF HandleResult, ApplyStarted, ApplyResult, ApplyFailure, taskVars, t

LEMMA AgentStep ==
  ASSUME TypeOK, FanInInv, NEW m \in Assigned, NEW sent \in AgentReports(m),
         AgentReport(m, sent)
  PROVE  FanInInv'
<1>1. TaskAgrees(m) /\ m.task \in Task
  BY MessagesAgreeUnfolded DEF FanInInv, Assigned, Bodies, TypeOK, TaskMessage, AuditMessage
<1>2. ReportAgrees(sent)
  BY <1>1 DEF TaskAgrees, ReportAgrees, AgentReports, OutcomeReports, Report
<1>3. /\ UNCHANGED <<exprVars, taskVars, outbox, dispatched>>
      /\ reported' = reported \cup {sent}
  BY DEF AgentReport, outboxVars
<1>4. StoredTogether' /\ FanInConsistent' /\ OutcomesRight'
  BY <1>3 DEF FanInInv, StoredTogether, FanInConsistent, Available, Unfinished,
     OutcomesRight, Compute, taskVars, exprVars
<1>5. Bodies' = Bodies /\ \A b : TaskAgrees(b)' <=> TaskAgrees(b)
  BY <1>3 DEF Bodies, TaskAgrees, Launched, taskVars
<1>6. \A x : ReportAgrees(x)' <=> ReportAgrees(x)
  BY <1>3 DEF ReportAgrees, Launched, taskVars
<1>7. MessagesAgree' <=> /\ \A b \in Bodies' : b.kind = "task" => TaskAgrees(b)'
                         /\ \A x \in reported' : ReportAgrees(x)'
  BY DEF MessagesAgree, Bodies, TaskAgrees, ReportAgrees, Launched
<1>8. MessagesAgree'
  BY <1>2, <1>3, <1>5, <1>6, <1>7, MessagesAgreeUnfolded DEF FanInInv
<1> QED
  BY <1>4, <1>8 DEF FanInInv

LEMMA RelayStep ==
  ASSUME OutboxInv, FanInInv, NEW r \in Replica, Relay(r)
  PROVE  FanInInv'
<1>1. UNCHANGED <<exprVars, taskVars, reported, outbox>>
  BY DEF Relay, RelayClaim, RelayPublish, RelayCommit, RelayAbort, outboxVars
<1>2. Bodies' \subseteq Bodies
  <2>1. \A row \in todo[r] : row.body \in Bodies
    BY DEF OutboxInv, MarksTrue, ClaimsExclusive, Bodies
  <2>2. dispatched' \subseteq dispatched \cup Bodies
    BY <2>1 DEF Relay, RelayClaim, RelayPublish, RelayCommit, RelayAbort
  <2> QED
    BY <1>1, <2>2 DEF Bodies
<1>3. StoredTogether'
  BY <1>1 DEF FanInInv, StoredTogether, exprVars, taskVars
<1> QED
  BY <1>1, <1>2, <1>3, TablesKept DEF OutboxInv

LEMMA PruneStep ==
  ASSUME TypeOK, FanInInv, PruneOutbox
  PROVE  FanInInv'
<1>1. /\ UNCHANGED <<exprVars, taskVars, reported, dispatched>>
      /\ outbox' \subseteq outbox
  BY DEF PruneOutbox
<1>2. StoredTogether' /\ Bodies' \subseteq Bodies
  BY <1>1 DEF FanInInv, StoredTogether, Bodies, exprVars, taskVars
<1> QED
  BY <1>1, <1>2, TablesKept

LEMMA FanInInit == Init => FanInInv
<1> SUFFICES ASSUME Init PROVE FanInInv
  OBVIOUS
<1>1. StoredTogether /\ OutcomesRight
  BY PlanAssumption DEF Init, StoredTogether, OutcomesRight
<1>2. FanInConsistent /\ MessagesAgree
  BY DEF Init, FanInConsistent, MessagesAgree
<1> QED
  BY <1>1, <1>2 DEF FanInInv

LEMMA StoreStep == StoreInv /\ [Next]_storeVars => StoreInv'
<1> SUFFICES ASSUME StoreInv, [Next]_storeVars PROVE StoreInv'
  OBVIOUS
<1>1. OutboxInv' /\ TypeOK' /\ TypeOK /\ OutboxInv /\ FanInInv
  BY OutboxStep DEF StoreInv, OutboxInv
<1>2. CASE UNCHANGED storeVars
  <2>1. Bodies' = Bodies /\ UNCHANGED <<taskVars, reported>> /\ StoredTogether'
    BY <1>1, <1>2 DEF Bodies, storeVars, outboxVars, exprVars, taskVars, FanInInv, StoredTogether
  <2> QED
    BY <1>1, <2>1, TablesKept DEF StoreInv
<1>3. CASE Next
  BY <1>1, <1>3, CreateStep, ImmediateStep, HandleStep, AgentStep, RelayStep, PruneStep
     DEF Next, Submit, StoreInv
<1> QED
  BY <1>2, <1>3

LEMMA StoreInvariant == Spec => []StoreInv
<1>1. Init => StoreInv
  BY OutboxInit, FanInInit DEF StoreInv
<1> QED
  BY <1>1, StoreStep, PTL DEF Spec

(* However results arrive, columns hold literals or results of operands    *)
(* that are done, and unmet_deps counts the others.                        *)
THEOREM FanInIsConsistent == Spec => []FanInConsistent
<1>1. StoreInv => FanInConsistent
  BY DEF StoreInv, FanInInv
<1> QED
  BY StoreInvariant, <1>1, PTL

(* All copies of a task's message, and all reports on it, agree.           *)
THEOREM AllMessagesAgree == Spec => []MessagesAgree
<1>1. StoreInv => MessagesAgree
  BY DEF StoreInv, FanInInv
<1> QED
  BY StoreInvariant, <1>1, PTL

-----------------------------------------------------------------------------
(* No task is forgotten: a message, once accounted for, stays so, and a    *)
(* task is launched together with its message.                             *)
Accounted(b) ==
    b \in dispatched \/ \E row \in outbox : row.body = b /\ row.id \notin published

LEMMA RowsKept ==
  ASSUME OutboxInv, [Next]_storeVars
  PROVE  /\ dispatched \subseteq dispatched'
         /\ \A row \in outbox :
               \/ row \in outbox' /\ (row.id \in published' => row.id \in published)
               \/ row.body \in dispatched'
<1>1. CASE dispatched \subseteq dispatched' /\ outbox \subseteq outbox' /\ published' = published
  BY <1>1
<1>2. ASSUME NEW r \in Replica, RelayCommit(r)
      PROVE  /\ dispatched \subseteq dispatched'
             /\ \A row \in outbox : row \in outbox' /\
                  (row.id \in published' => row.id \in published \/ row.body \in dispatched')
  <2>1. \A id \in acked[r] :
           \E row \in claimed[r] : row.id = id /\ row \in outbox /\ row.body \in dispatched
    BY DEF OutboxInv, MarksTrue, ClaimsExclusive
  <2>2. \A row \in outbox : row.id \in acked[r] => row.body \in dispatched
    BY <2>1 DEF OutboxInv, Numbered
  <2> QED
    BY <1>2, <2>2 DEF RelayCommit
<1>3. CASE PruneOutbox
  BY <1>3 DEF PruneOutbox, OutboxInv, MarksTrue
<1>4. CASE UNCHANGED storeVars
  BY <1>1, <1>4 DEF storeVars, outboxVars
<1>5. ASSUME NEW e \in Expr, Submit(e)
      PROVE  dispatched' = dispatched /\ outbox \subseteq outbox' /\ published' = published
  BY <1>5 DEF Submit, CreateExpression, FinalizeImmediate, InsertOutbox
<1>6. ASSUME NEW m \in reported, HandleResult(m)
      PROVE  dispatched' = dispatched /\ outbox \subseteq outbox' /\ published' = published
  BY <1>6 DEF HandleResult, ApplyStarted, ApplyResult, FanIn, ApplyFailure, InsertOutbox, outboxVars
<1>7. ASSUME NEW m, NEW sent, AgentReport(m, sent)
      PROVE  dispatched' = dispatched /\ outbox \subseteq outbox' /\ published' = published
  BY <1>7 DEF AgentReport, outboxVars
<1>8. ASSUME NEW r \in Replica, Relay(r), ~ RelayCommit(r)
      PROVE  dispatched \subseteq dispatched' /\ outbox \subseteq outbox' /\ published' = published
  BY <1>8 DEF Relay, RelayClaim, RelayPublish, RelayAbort, outboxVars
<1> QED
  BY <1>1, <1>2, <1>3, <1>4, <1>5, <1>6, <1>7, <1>8 DEF Next

(* A body inserted by this very transaction is accounted for.              *)
LEMMA InsertedAccounted ==
  ASSUME OutboxInv, NEW bodies, IsFiniteSet(bodies), InsertOutbox(bodies)
  PROVE  \A b \in bodies : Accounted(b)'
<1>1. /\ \A b \in bodies : \E row \in outbox' : row.body = b /\ lastId < row.id
      /\ published' = published
  BY InsertOutboxFacts DEF OutboxInv, TypeOK
<1>2. lastId \in Nat /\ \A id \in published : id \in Nat /\ id <= lastId
  BY DEF OutboxInv, TypeOK, Numbered
<1>3. TypeOK' => \A row \in outbox' : row.id \in Nat
  BY DEF TypeOK, OutboxRow
<1>4. \A row \in outbox' : row \in outbox \/ (row.id \in Nat /\ lastId < row.id)
  BY InsertOutboxFacts DEF NewRows, OutboxInv, TypeOK
<1>5. \A row \in outbox : row.id \in Nat /\ row.id <= lastId
  BY DEF OutboxInv, TypeOK, OutboxRow, Numbered
<1> QED
  BY <1>1, <1>2, <1>4, <1>5 DEF Accounted

(* What an action does to the set of launched tasks.                       *)
LEMMA LaunchStep ==
  ASSUME StoreInv, [Next]_storeVars, NEW t \in Task, Launched(t)'
  PROVE  \/ Launched(t) /\ arg1'[t] = arg1[t] /\ arg2'[t] = arg2[t]
         \/ \E b : b = TaskBody(t, arg1'[t], arg2'[t]) /\ Accounted(b)'
<1>0. OutboxInv /\ FanInInv /\ TypeOK
  BY DEF StoreInv, OutboxInv
<1>1. CASE UNCHANGED taskVars
  BY <1>1 DEF Launched, taskVars
<1>2. ASSUME NEW e \in Expr, CreateExpression(e), t \in TasksOf(e)
      PROVE  \E b : b = TaskBody(t, arg1'[t], arg2'[t]) /\ Accounted(b)'
  <2> DEFINE ready == {u \in TasksOf(e) : UnmetDeps(u) = 0}
             bodies == {TaskBody(u, Arg1[u], Arg2[u]) : u \in ready}
                        \cup {AuditBody("expression.submitted", e)}
  <2>1. IsFiniteSet(bodies) /\ InsertOutbox(bodies)
    BY <1>2, CreateBodies DEF CreateExpression
  <2>2. \A b \in bodies : Accounted(b)'
    <3> HIDE DEF bodies
    <3> QED
      BY <1>0, <2>1, InsertedAccounted
  <2>3. UnmetDeps(t) = 0
    BY <1>2 DEF CreateExpression, Launched
  <2>4. arg1'[t] = Arg1[t] /\ arg2'[t] = Arg2[t]
    BY <1>2, <2>3, NoDepsLiteral DEF CreateExpression
  <2>5. TaskBody(t, arg1'[t], arg2'[t]) \in bodies
    BY <1>2, <2>3, <2>4
  <2> QED
    BY <2>2, <2>5
<1>3. ASSUME NEW e \in Expr, CreateExpression(e), t \notin TasksOf(e)
      PROVE  Launched(t) /\ arg1'[t] = arg1[t] /\ arg2'[t] = arg2[t]
  BY <1>3 DEF CreateExpression, Launched
<1>4. ASSUME NEW m \in reported, HandleResult(m), ApplyResult(m), status[m.task] \notin Settled
      PROVE  \/ Launched(t) /\ arg1'[t] = arg1[t] /\ arg2'[t] = arg2[t]
             \/ \E b : b = TaskBody(t, arg1'[t], arg2'[t]) /\ Accounted(b)'
  <2> DEFINE done == m.task
             bodies == {TaskBody(u, arg1'[u], arg2'[u]) : u \in Unlocked(done)}
                        \cup {AuditBody("task.done", done)}
                        \cup (IF IsRoot(done) THEN {AuditBody("expression.done", ExprOf[done])} ELSE {})
  <2>1. /\ done \in Task /\ m.value \in Value \cup {NoValue} /\ Launched(done)
        /\ FanIn(done, m.value)
    BY <1>0, <1>4, MessagesAgreeUnfolded
       DEF FanInInv, TypeOK, ResultMessage, ReportAgrees, ApplyResult
  <2> HIDE DEF done
  <2>2. IsFiniteSet(bodies) /\ InsertOutbox(bodies)
    BY <1>0, <2>1, FanInBodies
  <2>3. \A b \in bodies : Accounted(b)'
    <3> HIDE DEF bodies
    <3> QED
      BY <1>0, <2>2, InsertedAccounted
  <2>4. CASE t \in Unlocked(done)
    BY <2>3, <2>4
  <2>5. CASE t \notin Unlocked(done)
    <3>1. Launched(t)
      BY <2>1, <2>5 DEF FanIn, Launched
    <3> QED
      BY <2>1, <3>1 DEF FanIn, Launched, Dependents
  <2> QED
    BY <2>4, <2>5
<1>5. ASSUME NEW m \in reported, HandleResult(m),
             ~ (ApplyResult(m) /\ status[m.task] \notin Settled)
      PROVE  Launched(t) /\ arg1'[t] = arg1[t] /\ arg2'[t] = arg2[t]
  <2>1. Launched(m.task)
    BY <1>0, MessagesAgreeUnfolded DEF FanInInv, ReportAgrees
  <2>2. /\ UNCHANGED <<arg1, arg2>>
        /\ t # m.task => status'[t] = status[t]
    BY <1>0, <1>5 DEF HandleResult, ApplyStarted, ApplyResult, ApplyFailure, taskVars, TypeOK
  <2> QED
    BY <2>1, <2>2 DEF Launched
<1>6. \/ UNCHANGED taskVars
      \/ \E e \in Expr : CreateExpression(e)
      \/ \E m \in reported : HandleResult(m)
  BY DEF Next, Submit, FinalizeImmediate, AgentReport, Relay, RelayClaim, RelayPublish,
     RelayCommit, RelayAbort, PruneOutbox, storeVars
<1> QED
  BY <1>1, <1>2, <1>3, <1>4, <1>5, <1>6

LEMMA NeverForgottenUnfolded ==
  ASSUME TypeOK
  PROVE  NeverForgotten <=>
           \A t \in Task : Launched(t) =>
              \E b : b = TaskBody(t, arg1[t], arg2[t]) /\ Accounted(b)
<1>1. \A t \in Task : Launched(t) <=> status[t] \in Runnable \cup Settled
  BY DEF TypeOK, Launched, Runnable, Settled
<1> QED
  BY <1>1 DEF NeverForgotten, Accounted

(* A task that may run, or has run, has its message with the broker or in  *)
(* a row some relay will still claim, whatever crashes and is pruned.      *)
THEOREM NoTaskForgotten == Spec => []NeverForgotten
<1>1. Init => NeverForgotten
  BY DEF Init, NeverForgotten, Runnable, Settled
<1>2. StoreInv /\ StoreInv' /\ NeverForgotten /\ [Next]_storeVars => NeverForgotten'
  <2> SUFFICES ASSUME StoreInv, StoreInv', NeverForgotten, [Next]_storeVars
               PROVE  NeverForgotten'
    OBVIOUS
  <2>1. TypeOK /\ TypeOK' /\ OutboxInv
    BY DEF StoreInv, OutboxInv
  <2>2. \A b : Accounted(b) => Accounted(b)'
    BY <2>1, RowsKept DEF Accounted
  <2>3. \A t \in Task : Launched(t)' =>
              \E b : b = TaskBody(t, arg1'[t], arg2'[t]) /\ Accounted(b)'
    BY <2>1, <2>2, LaunchStep, NeverForgottenUnfolded DEF TaskBody
  <2>4. \A t \in Task : Launched(t)' <=> status'[t] \in Runnable \cup Settled
    BY <2>1 DEF TypeOK, Launched, Runnable, Settled
  <2> QED
    BY <2>3, <2>4 DEF NeverForgotten, Accounted
<1> QED
  BY <1>1, <1>2, StoreInvariant, PTL DEF Spec

-----------------------------------------------------------------------------
(* What a client sees: a settled expression never changes, its answer is   *)
(* the one its arithmetic has, and the store implements the lifecycle      *)
(* promised to clients.                                                    *)

(* Every nonempty set of natural numbers has a least element: the one      *)
(* induction all others here are reduced to.                               *)
LEMMA LeastNat ==
  ASSUME NEW S \in SUBSET Nat, S # {}
  PROVE  \E n \in S : \A m \in S : n <= m
<1>1. PICK n \in S : \A m \in S : ~ (<<m, n>> \in OpToRel(<, Nat))
  BY WFMin, NatLessThanWellFounded, Zenon
<1>2. \A m \in S : ~ (m < n)
  BY <1>1, Zenon DEF OpToRel
<1> QED
  BY <1>2

(* A set of tasks has a member that is no operand of another member: take  *)
(* the smallest set without one, and from it the task that waits for none. *)
LEMMA LastTask ==
  ASSUME NEW S \in SUBSET Task, S # {}
  PROVE  \E t \in S : \A u \in S : t \notin Operands(u)
<1> DEFINE Topless(X) == X # {} /\ \A t \in X : \E u \in X : t \in Operands(u)
           sizes == {n \in Nat : \E X \in SUBSET Task : Topless(X) /\ Cardinality(X) = n}
<1>1. \A X \in SUBSET Task : IsFiniteSet(X) /\ Cardinality(X) \in Nat
  BY PlanAssumption, FS_Subset, FS_CardinalityType
<1>2. SUFFICES ASSUME sizes # {} PROVE FALSE
  BY <1>1
<1>3. PICK n \in sizes : \A m \in sizes : n <= m
  <2>1. sizes \in SUBSET Nat
    OBVIOUS
  <2> HIDE DEF sizes
  <2> QED
    BY <1>2, <2>1, LeastNat
<1>4. PICK X \in SUBSET Task : Topless(X) /\ Cardinality(X) = n
  BY <1>3
<1>5. PICK t \in X : Operands(t) \cap X = {}
  BY <1>4, PlanAssumption
<1> DEFINE Y == X \ {t}
<1>6. Topless(Y)
  <2>1. \A w \in X : \E u \in Y : w \in Operands(u)
    BY <1>4, <1>5
  <2> QED
    BY <1>4, <2>1
<1>7. Cardinality(Y) = n - 1
  BY <1>1, <1>4, FS_RemoveElement
<1>8. Cardinality(Y) \in sizes
  <2> HIDE DEF Topless
  <2> QED
    BY <1>1, <1>6
<1>9. n \in Nat
  BY <1>3
<1>10. n <= n - 1
  <2> HIDE DEF sizes, Y
  <2> QED
    BY <1>3, <1>7, <1>8
<1> QED
  BY <1>9, <1>10

(* The two induction principles of a plan, each for one set of tasks: from *)
(* the operands up, and from the root down.                                *)
LEMMA Bottomup ==
  ASSUME NEW S \in SUBSET Task, \A t \in Task : Operands(t) \subseteq S => t \in S
  PROVE  S = Task
<1>1. SUFFICES ASSUME Task \ S # {} PROVE FALSE
  OBVIOUS
<1>2. PICK t \in Task \ S : Operands(t) \cap (Task \ S) = {}
  BY <1>1, PlanAssumption
<1>3. Operands(t) \subseteq S
  BY <1>2 DEF Operands
<1> QED
  BY <1>2, <1>3

LEMMA Topdown ==
  ASSUME NEW e \in Expr, NEW S \in SUBSET Task, Root[e] \in S,
         \A t \in S : Operands(t) \subseteq S
  PROVE  TasksOf(e) \subseteq S
<1> DEFINE rest == TasksOf(e) \ S
<1>1. SUFFICES ASSUME rest # {} PROVE FALSE
  OBVIOUS
<1>2. PICK t \in rest : \A u \in rest : t \notin Operands(u)
  <2>1. rest \in SUBSET Task
    BY DEF TasksOf
  <2> HIDE DEF rest
  <2> QED
    BY <1>1, <2>1, LastTask
<1>3. t \in Task /\ ExprOf[t] = e /\ t \notin S
  BY DEF TasksOf
<1>4. PICK u \in Task : t \in Operands(u)
  BY <1>3, PlanAssumption
<1>5. ExprOf[u] = e /\ u \notin S
  BY <1>3, <1>4, PlanAssumption
<1> QED
  BY <1>2, <1>4, <1>5 DEF TasksOf

(* There is a valuation: a solution of the equations for a set of tasks    *)
(* that holds their operands extends to one task more.                     *)
OutcomeOf(v, t) ==
    LET a == ValueOf(v, Arg1[t])
        b == ValueOf(v, Arg2[t])
    IN  IF a = Error \/ b = Error THEN Error
        ELSE IF a = NonFinite \/ b = NonFinite THEN NonFinite
        ELSE Compute(t, a, b)

LEMMA OutcomeOfType ==
  ASSUME NEW v \in [Task -> Outcome], NEW t \in Task
  PROVE  OutcomeOf(v, t) \in Outcome
<1>1. ValueOf(v, Arg1[t]) \in Outcome /\ ValueOf(v, Arg2[t]) \in Outcome
  BY PlanAssumption DEF ValueOf, Outcome
<1>2. \A a, b \in Value : Compute(t, a, b) \in Outcome
  BY ComputeType
<1> QED
  BY <1>1, <1>2 DEF OutcomeOf, Outcome

LEMMA OutcomeOfOperands ==
  ASSUME NEW v, NEW w, NEW t \in Task, \A u \in Operands(t) : v[u] = w[u]
  PROVE  OutcomeOf(v, t) = OutcomeOf(w, t)
<1>1. /\ ValueOf(v, Arg1[t]) = ValueOf(w, Arg1[t])
      /\ ValueOf(v, Arg2[t]) = ValueOf(w, Arg2[t])
  BY DEF ValueOf, Operands
<1> QED
  BY <1>1 DEF OutcomeOf

LEMMA ValuationUnfolded ==
  ASSUME NEW v
  PROVE  IsValuation(v) <=> \A t \in Task : v[t] = OutcomeOf(v, t)
BY DEF IsValuation, OutcomeOf

LEMMA ValuationExists == Valuations # {}
<1> DEFINE Solves(v, X) == \A t \in X : Operands(t) \subseteq X /\ v[t] = OutcomeOf(v, t)
           Solved(X) == \E v \in [Task -> Outcome] : Solves(v, X)
           open == {n \in Nat : \E X \in SUBSET Task : Solved(X) /\ Cardinality(Task \ X) = n}
<1>1. Solved({})
  <2>1. [t \in Task |-> Error] \in [Task -> Outcome]
    BY DEF Outcome
  <2> QED
    BY <2>1
<1>2. ASSUME NEW X \in SUBSET Task, Solved(X), X # Task
      PROVE  \E t \in Task \ X : Solved(X \cup {t})
  <2>1. PICK v \in [Task -> Outcome] : Solves(v, X)
    BY <1>2
  <2>2. PICK t \in Task \ X : Operands(t) \cap (Task \ X) = {}
    <3>1. Task \ X \in (SUBSET Task) \ {{}}
      BY <1>2
    <3> QED
      BY <3>1, PlanAssumption
  <2> DEFINE w == [v EXCEPT ![t] = OutcomeOf(v, t)]
  <2>3. w \in [Task -> Outcome]
    BY OutcomeOfType
  <2>4. Operands(t) \subseteq X
    BY <2>2 DEF Operands
  <2>5. \A u \in X \cup {t} : Operands(u) \subseteq X
    BY <2>1, <2>4
  <2>6. \A u \in X \cup {t} : OutcomeOf(w, u) = OutcomeOf(v, u)
    <3>1. ASSUME NEW u \in X \cup {t} PROVE OutcomeOf(w, u) = OutcomeOf(v, u)
      <4>1. \A x \in Operands(u) : w[x] = v[x]
        BY <2>2, <2>5
      <4> HIDE DEF w
      <4> QED
        BY <4>1, OutcomeOfOperands
    <3> HIDE DEF w
    <3> QED
      BY <3>1
  <2>7. \A u \in X \cup {t} : w[u] = OutcomeOf(v, u)
    BY <2>1, <2>2
  <2>8. Solves(w, X \cup {t})
    <3> HIDE DEF w
    <3> QED
      BY <2>5, <2>6, <2>7
  <2> HIDE DEF Solves, w
  <2> QED
    BY <2>2, <2>3, <2>8
<1>3. \A X \in SUBSET Task : IsFiniteSet(Task \ X) /\ Cardinality(Task \ X) \in Nat
  BY PlanAssumption, FS_Subset, FS_CardinalityType
<1> HIDE DEF Solves
<1>4. PICK n \in open : \A m \in open : n <= m
  <2>1. open \in SUBSET Nat /\ open # {}
    <3>1. {} \in SUBSET Task
      OBVIOUS
    <3> HIDE DEF Solved
    <3>2. Cardinality(Task \ {}) \in open
      BY <1>1, <1>3, <3>1
    <3> QED
      BY <3>2
  <2> HIDE DEF open
  <2> QED
    BY <2>1, LeastNat
<1>5. PICK X \in SUBSET Task : Solved(X) /\ Cardinality(Task \ X) = n
  BY <1>4
<1>6. ASSUME X # Task PROVE FALSE
  <2> HIDE DEF Solved
  <2>1. PICK t \in Task \ X : Solved(X \cup {t})
    BY <1>2, <1>5, <1>6
  <2>2. Task \ (X \cup {t}) = (Task \ X) \ {t} /\ X \cup {t} \in SUBSET Task
    BY <2>1
  <2>3. Cardinality(Task \ (X \cup {t})) = n - 1
    <3>1. IsFiniteSet(Task \ X) /\ t \in Task \ X
      BY <1>3, <2>1
    <3>2. Cardinality((Task \ X) \ {t}) = Cardinality(Task \ X) - 1
      BY <3>1, FS_RemoveElement, Zenon
    <3> QED
      BY <1>5, <2>2, <3>2
  <2>4. Cardinality(Task \ (X \cup {t})) \in open
    BY <1>3, <2>1, <2>2
  <2>5. n \in Nat
    BY <1>4
  <2> QED
    BY <1>4, <2>3, <2>4, <2>5
<1>7. PICK v \in [Task -> Outcome] : \A t \in Task : v[t] = OutcomeOf(v, t)
  BY <1>5, <1>6 DEF Solves
<1> QED
  BY <1>7, ValuationUnfolded DEF Valuations

(* And only one: an expression means one thing.                            *)
THEOREM MeaningIsUnique == \E v : Valuations = {v}
<1>1. ASSUME NEW v \in Valuations, NEW w \in Valuations PROVE v = w
  <2> DEFINE S == {t \in Task : v[t] = w[t]}
  <2>1. /\ v \in [Task -> Outcome] /\ w \in [Task -> Outcome]
        /\ \A t \in Task : v[t] = OutcomeOf(v, t) /\ w[t] = OutcomeOf(w, t)
    BY ValuationUnfolded DEF Valuations
  <2>2. ASSUME NEW t \in Task, Operands(t) \subseteq S PROVE t \in S
    <3>1. OutcomeOf(v, t) = OutcomeOf(w, t)
      BY <2>2, OutcomeOfOperands
    <3> QED
      BY <2>1, <3>1
  <2>3. S = Task
    <3>1. S \in SUBSET Task
      OBVIOUS
    <3> HIDE DEF S
    <3> QED
      BY <2>2, <3>1, Bottomup
  <2> QED
    BY <2>1, <2>3
<1> QED
  BY <1>1, ValuationExists

(* One valuation is enough: what the meaning of every expression is.       *)
Val == CHOOSE v \in Valuations : TRUE

LEMMA ValuationFacts ==
  /\ Val \in [Task -> Outcome]
  /\ \A t \in Task :
        LET a == ValueOf(Val, Arg1[t])
            b == ValueOf(Val, Arg2[t])
        IN  Val[t] = IF a = Error \/ b = Error THEN Error
                     ELSE IF a = NonFinite \/ b = NonFinite THEN NonFinite
                     ELSE Compute(t, a, b)
  /\ \A e \in Expr : Meaning[e] = ValueOf(Val, Root[e])
<1>1. Val \in Valuations
  BY ValuationExists DEF Val
<1>2. \A e \in Expr : Meaning[e] = ValueOf(Val, Root[e])
  BY DEF Meaning, Val
<1>3. Val \in [Task -> Outcome] /\ IsValuation(Val)
  BY <1>1 DEF Valuations
<1> QED
  BY <1>2, <1>3 DEF IsValuation

(* A launched task was launched on the values of its operands.             *)
LEMMA DoneValues ==
  ASSUME TypeOK, FanInInv
  PROVE  \A t \in Task : status[t] = "done" => result[t] = Val[t]
<1> DEFINE S == {t \in Task : status[t] = "done" => result[t] = Val[t]}
<1>1. ASSUME NEW t \in Task, Operands(t) \subseteq S, status[t] = "done"
      PROVE  result[t] = Val[t]
  <2>1. /\ Unfinished(Arg1[t]) = 0 /\ Unfinished(Arg2[t]) = 0
        /\ arg1[t] = Available(Arg1[t]) /\ arg1[t] \in Value
        /\ arg2[t] = Available(Arg2[t]) /\ arg2[t] \in Value
    BY <1>1, LaunchedReady DEF Launched
  <2>2. arg1[t] = ValueOf(Val, Arg1[t]) /\ arg2[t] = ValueOf(Val, Arg2[t])
    BY <1>1, <2>1 DEF Operands, Unfinished, Available, ValueOf
  <2>3. result[t] = Compute(t, arg1[t], arg2[t])
    BY <1>1 DEF FanInInv, OutcomesRight
  <2> QED
    BY <2>1, <2>2, <2>3, ValuationFacts, PlanAssumption
<1>2. \A t \in Task : Operands(t) \subseteq S => t \in S
  BY <1>1
<1>3. S \in SUBSET Task
  OBVIOUS
<1>4. S = Task
  <2> HIDE DEF S
  <2> QED
    BY <1>2, <1>3, Bottomup
<1> QED
  BY <1>4

LEMMA LaunchedValues ==
  ASSUME TypeOK, FanInInv, NEW t \in Task, Launched(t)
  PROVE  Val[t] = Compute(t, arg1[t], arg2[t])
<1>1. /\ Unfinished(Arg1[t]) = 0 /\ Unfinished(Arg2[t]) = 0
      /\ arg1[t] = Available(Arg1[t]) /\ arg1[t] \in Value
      /\ arg2[t] = Available(Arg2[t]) /\ arg2[t] \in Value
  BY LaunchedReady
<1>2. arg1[t] = ValueOf(Val, Arg1[t]) /\ arg2[t] = ValueOf(Val, Arg2[t])
  BY <1>1, DoneValues DEF Unfinished, Available, ValueOf
<1> QED
  BY <1>1, <1>2, ValuationFacts, PlanAssumption

(* A division by zero anywhere in a plan is one at its root.               *)
LEMMA ErrorRises ==
  ASSUME NEW e \in Expr, NEW t \in TasksOf(e), Val[t] = Error
  PROVE  Root[e] \in Task /\ Val[Root[e]] = Error
<1>1. Root[e] \in Task
  BY PlanAssumption DEF TasksOf
<1> DEFINE S == {u \in Task : Val[u] # Error}
<1>2. ASSUME NEW u \in S PROVE Operands(u) \subseteq S
  BY <1>2, ValuationFacts DEF Operands, ValueOf
<1>3. S \in SUBSET Task
  OBVIOUS
<1>4. Root[e] \in S => TasksOf(e) \subseteq S
  <2> HIDE DEF S
  <2> QED
    BY <1>2, <1>3, Topdown
<1> QED
  BY <1>1, <1>4

-----------------------------------------------------------------------------
(* An expression is done with its root, and failed with one of its tasks.  *)
ExpressionsFollow ==
    \A e \in Expr :
        /\ exprStatus[e] = "done" => /\ Unfinished(Root[e]) = 0
                                     /\ exprResult[e] = Available(Root[e])
        /\ exprStatus[e] = "failed" => \E t \in TasksOf(e) : status[t] = "failed"
        /\ exprStatus[e] # "done" => exprResult[e] = NoValue
        /\ exprStatus[e] \in Open => Root[e] \in Task

LEMMA AnswersFollow ==
  ASSUME TypeOK, FanInInv, ExpressionsFollow
  PROVE  AnswersCorrect
<1> SUFFICES ASSUME NEW e \in Expr
             PROVE  /\ exprStatus[e] = "done" => /\ exprResult[e] = Meaning[e]
                                                 /\ \A t \in TasksOf(e) : status[t] = "done"
                    /\ exprStatus[e] = "failed" => Meaning[e] = Error
  BY DEF AnswersCorrect
<1>1. ASSUME exprStatus[e] = "done" PROVE exprResult[e] = Meaning[e]
  <2>1. Unfinished(Root[e]) = 0 /\ exprResult[e] = Available(Root[e])
    BY <1>1 DEF ExpressionsFollow
  <2> QED
    BY <2>1, DoneValues, ValuationFacts DEF Unfinished, Available, ValueOf
<1>2. ASSUME exprStatus[e] = "done" PROVE \A t \in TasksOf(e) : status[t] = "done"
  <2> DEFINE S == {t \in Task : status[t] = "done"}
  <2>1. Unfinished(Root[e]) = 0
    BY <1>2 DEF ExpressionsFollow
  <2>2. ASSUME NEW t \in S PROVE Operands(t) \subseteq S
    BY LaunchedReady DEF Launched, Unfinished, Operands
  <2>3. CASE Root[e] \in Task
    <3>1. Root[e] \in S /\ S \in SUBSET Task
      BY <2>1, <2>3 DEF Unfinished
    <3>2. TasksOf(e) \subseteq S
      <4> HIDE DEF S
      <4> QED
        BY <2>2, <3>1, Topdown
    <3> QED
      BY <3>2
  <2>4. CASE Root[e] \notin Task
    BY <2>4, PlanAssumption
  <2> QED
    BY <2>3, <2>4
<1>3. ASSUME exprStatus[e] = "failed" PROVE Meaning[e] = Error
  <2>1. PICK t \in TasksOf(e) : status[t] = "failed"
    BY <1>3 DEF ExpressionsFollow
  <2>2. Val[t] = Error
    BY <2>1, LaunchedValues DEF Launched, TasksOf, FanInInv, OutcomesRight
  <2> QED
    BY <2>2, ErrorRises, ValuationFacts DEF ValueOf
<1> QED
  BY <1>1, <1>2, <1>3

-----------------------------------------------------------------------------
(* What is settled stays settled.                                          *)
LEMMA SettledStep ==
  ASSUME TypeOK, FanInInv, [Next]_storeVars
  PROVE  /\ \A t \in Task : status[t] \in Settled =>
               status'[t] = status[t] /\ result'[t] = result[t]
         /\ \A e \in Expr : exprStatus[e] \in Settled =>
               exprStatus'[e] = exprStatus[e] /\ exprResult'[e] = exprResult[e]
<1> DEFINE Kept == /\ \A t \in Task : status[t] \in Settled =>
                         status'[t] = status[t] /\ result'[t] = result[t]
                   /\ \A e \in Expr : exprStatus[e] \in Settled =>
                         exprStatus'[e] = exprStatus[e] /\ exprResult'[e] = exprResult[e]
<1>1. CASE UNCHANGED <<exprVars, taskVars>>
  BY <1>1 DEF exprVars, taskVars
<1>2. ASSUME NEW e \in Expr, CreateExpression(e) PROVE Kept
  <2>1. \A t \in TasksOf(e) : status[t] = "absent"
    BY <1>2 DEF FanInInv, StoredTogether, CreateExpression, TasksOf
  <2> QED
    BY <1>2, <2>1 DEF CreateExpression, Settled, TypeOK
<1>3. ASSUME NEW e \in Expr, FinalizeImmediate(e) PROVE Kept
  BY <1>3 DEF FinalizeImmediate, Settled, TypeOK, taskVars
<1>4. ASSUME NEW m \in reported, HandleResult(m) PROVE Kept
  <2>1. m.task \in Task
    BY DEF TypeOK, ResultMessage
  <2>2. CASE ApplyStarted(m)
    BY <2>1, <2>2 DEF ApplyStarted, Runnable, Settled, TypeOK, exprVars
  <2>3. CASE ApplyResult(m) /\ status[m.task] \notin Settled
    <3>1. FanIn(m.task, m.value)
      BY <2>3 DEF ApplyResult
    <3>2. exprStatus[ExprOf[m.task]] \in Settled =>
            StatusAfter(m.task) = exprStatus[ExprOf[m.task]]
      BY DEF StatusAfter, Settled, Open
    <3>3. \A t \in Task : status[t] \in Settled => t # m.task /\ t \notin Unlocked(m.task)
      BY <2>3 DEF Unlocked, Dependents, Settled
    <3>4. Settled \cap Open = {}
      BY DEF Settled, Open
    <3> QED
      BY <2>1, <3>1, <3>2, <3>3, <3>4 DEF FanIn, TypeOK
  <2>4. CASE ApplyFailure(m) /\ status[m.task] \notin Settled
    <3>1. Settled \cap Open = {}
      BY DEF Settled, Open
    <3> QED
      BY <2>1, <2>4, <3>1 DEF ApplyFailure, TypeOK
  <2>5. CASE UNCHANGED <<exprVars, taskVars>>
    BY <1>1, <2>5
  <2> QED
    BY <1>4, <2>2, <2>3, <2>4, <2>5 DEF HandleResult, ApplyResult, ApplyFailure
<1>5. \/ UNCHANGED <<exprVars, taskVars>>
      \/ \E e \in Expr : Submit(e)
      \/ \E m \in reported : HandleResult(m)
  BY DEF Next, AgentReport, Relay, RelayClaim, RelayPublish, RelayCommit, RelayAbort,
     PruneOutbox, storeVars
<1> QED
  BY <1>1, <1>2, <1>3, <1>4, <1>5 DEF Submit

(* A settled task or expression never changes again.                       *)
THEOREM WhatSettlesStays == Spec => SettledForever
<1>1. StoreInv /\ [Next]_storeVars =>
        [ /\ \A t \in Task : status[t] \in Settled =>
                status'[t] = status[t] /\ result'[t] = result[t]
          /\ \A e \in Expr : exprStatus[e] \in Settled =>
                exprStatus'[e] = exprStatus[e] /\ exprResult'[e] = exprResult[e]
        ]_storeVars
  BY SettledStep DEF StoreInv, OutboxInv
<1> QED
  BY <1>1, StoreInvariant, PTL DEF Spec, SettledForever

-----------------------------------------------------------------------------
LEMMA FollowStep ==
  ASSUME TypeOK, FanInInv, ExpressionsFollow, [Next]_storeVars
  PROVE  ExpressionsFollow'
<1>0. /\ \A t \in Task : status[t] \in Settled =>
            status'[t] = status[t] /\ result'[t] = result[t]
      /\ \A e \in Expr : exprStatus[e] \in Settled =>
            exprStatus'[e] = exprStatus[e] /\ exprResult'[e] = exprResult[e]
  BY SettledStep
<1>1. ASSUME NEW e \in Expr, exprStatus[e] \in Settled
      PROVE  /\ exprStatus'[e] = "done" => /\ Unfinished(Root[e])' = 0
                                           /\ exprResult'[e] = Available(Root[e])'
             /\ exprStatus'[e] = "failed" => \E t \in TasksOf(e) : status'[t] = "failed"
             /\ exprStatus'[e] # "done" => exprResult'[e] = NoValue
             /\ exprStatus'[e] \notin Open
  <2>1. exprStatus'[e] = exprStatus[e] /\ exprResult'[e] = exprResult[e]
    BY <1>0, <1>1
  <2>2. Unfinished(Root[e]) = 0 => Unfinished(Root[e])' = 0 /\ Available(Root[e])' = Available(Root[e])
    BY <1>0 DEF Unfinished, Available, Settled
  <2>3. \A t \in TasksOf(e) : status[t] = "failed" => status'[t] = "failed"
    BY <1>0 DEF TasksOf, Settled
  <2> QED
    BY <1>1, <2>1, <2>2, <2>3 DEF ExpressionsFollow, Settled, Open
<1>2. ASSUME NEW e \in Expr, exprStatus[e] \notin Settled
      PROVE  /\ exprStatus'[e] = "done" => /\ Unfinished(Root[e])' = 0
                                           /\ exprResult'[e] = Available(Root[e])'
             /\ exprStatus'[e] = "failed" => \E t \in TasksOf(e) : status'[t] = "failed"
             /\ exprStatus'[e] # "done" => exprResult'[e] = NoValue
             /\ exprStatus'[e] \in Open => Root[e] \in Task
  <2>1. /\ exprResult[e] = NoValue /\ (exprStatus[e] \in Open => Root[e] \in Task)
        /\ exprStatus[e] \in {"absent"} \cup Open
    BY <1>2 DEF ExpressionsFollow, TypeOK, Settled
  <2>2. CASE exprStatus'[e] = exprStatus[e] /\ exprResult'[e] = exprResult[e]
    BY <1>2, <2>1, <2>2 DEF Settled
  <2>3. ASSUME CreateExpression(e)
        PROVE  exprStatus'[e] = "pending" /\ exprResult'[e] = NoValue /\ Root[e] \in Task
    BY <2>1, <2>3 DEF CreateExpression, TypeOK
  <2>4. ASSUME FinalizeImmediate(e)
        PROVE  /\ exprStatus'[e] = "done" /\ Unfinished(Root[e])' = 0
               /\ exprResult'[e] = Available(Root[e])'
    <3>1. exprStatus'[e] = "done" /\ exprResult'[e] = Root[e] /\ Root[e] \in Value
      BY <2>4 DEF FinalizeImmediate, TypeOK
    <3>2. Root[e] \notin Task
      BY <3>1, PlanAssumption
    <3> QED
      BY <3>1, <3>2 DEF Unfinished, Available
  <2>5. ASSUME NEW t \in Task, NEW v, FanIn(t, v), ExprOf[t] = e
        PROVE  \/ /\ exprStatus'[e] = "done" /\ Unfinished(Root[e])' = 0
                  /\ exprResult'[e] = Available(Root[e])'
               \/ exprStatus'[e] \in Open \cup {"absent"} /\ exprResult'[e] = NoValue
                    /\ (exprStatus'[e] \in Open => exprStatus[e] \in Open)
    <3>1. /\ exprStatus'[e] = StatusAfter(t)
          /\ exprResult'[e] = IF IsRoot(t) /\ exprStatus[e] \in Open THEN v ELSE exprResult[e]
          /\ status'[t] = "done" /\ result'[t] = v
      BY <2>5 DEF FanIn, TypeOK
    <3>2. CASE IsRoot(t) /\ exprStatus[e] \in Open
      BY <2>5, <3>1, <3>2 DEF StatusAfter, IsRoot, Unfinished, Available
    <3>3. CASE ~ (IsRoot(t) /\ exprStatus[e] \in Open)
      BY <2>1, <2>5, <3>1, <3>3 DEF StatusAfter, Open
    <3> QED
      BY <3>2, <3>3
  <2>6. ASSUME NEW t \in Task, ExprOf[t] = e, status' = [status EXCEPT ![t] = "failed"],
               exprStatus' = [exprStatus EXCEPT ![ExprOf[t]] = IF @ \in Open THEN "failed" ELSE @],
               exprResult' = exprResult
        PROVE  /\ exprStatus'[e] \in {"absent", "failed"} /\ exprResult'[e] = NoValue
               /\ \E u \in TasksOf(e) : status'[u] = "failed"
    BY <2>1, <2>6 DEF TypeOK, TasksOf
  <2>7. \/ exprStatus'[e] = exprStatus[e] /\ exprResult'[e] = exprResult[e]
        \/ CreateExpression(e)
        \/ FinalizeImmediate(e)
        \/ \E t \in Task, v \in Value \cup {NoValue} : FanIn(t, v) /\ ExprOf[t] = e
        \/ \E t \in Task :
              /\ ExprOf[t] = e /\ status' = [status EXCEPT ![t] = "failed"]
              /\ exprStatus' = [exprStatus EXCEPT ![ExprOf[t]] = IF @ \in Open THEN "failed" ELSE @]
              /\ exprResult' = exprResult
    <3>1. CASE UNCHANGED exprVars
      BY <3>1 DEF exprVars
    <3>2. ASSUME NEW d \in Expr, Submit(d), d # e
          PROVE  exprStatus'[e] = exprStatus[e] /\ exprResult'[e] = exprResult[e]
      BY <3>2 DEF Submit, CreateExpression, FinalizeImmediate, TypeOK
    <3>3. ASSUME NEW m \in reported, HandleResult(m)
          PROVE  \/ exprStatus'[e] = exprStatus[e] /\ exprResult'[e] = exprResult[e]
                 \/ \E t \in Task, v \in Value \cup {NoValue} : FanIn(t, v) /\ ExprOf[t] = e
                 \/ \E t \in Task :
                       /\ ExprOf[t] = e /\ status' = [status EXCEPT ![t] = "failed"]
                       /\ exprStatus' =
                            [exprStatus EXCEPT ![ExprOf[t]] = IF @ \in Open THEN "failed" ELSE @]
                       /\ exprResult' = exprResult
      <4>1. m.task \in Task /\ m.value \in Value \cup {NoValue} /\ ExprOf[m.task] \in Expr
        BY PlanAssumption DEF TypeOK, ResultMessage
      <4>2. CASE UNCHANGED exprVars
        BY <4>2 DEF exprVars
      <4>3. CASE FanIn(m.task, m.value)
        BY <4>1, <4>3 DEF FanIn, TypeOK
      <4>4. CASE ApplyFailure(m) /\ status[m.task] \notin Settled
        <5>1. /\ status' = [status EXCEPT ![m.task] = "failed"]
              /\ exprStatus' = [exprStatus EXCEPT ![ExprOf[m.task]] =
                                  IF @ \in Open THEN "failed" ELSE @]
              /\ exprResult' = exprResult
          BY <4>4 DEF ApplyFailure
        <5>2. CASE ExprOf[m.task] = e
          BY <4>1, <5>1, <5>2
        <5>3. CASE ExprOf[m.task] # e
          BY <4>1, <5>1, <5>3 DEF TypeOK
        <5> QED
          BY <5>2, <5>3
      <4> QED
        BY <3>3, <4>2, <4>3, <4>4 DEF HandleResult, ApplyStarted, ApplyResult, ApplyFailure
    <3>4. \/ UNCHANGED exprVars
          \/ \E d \in Expr : Submit(d)
          \/ \E m \in reported : HandleResult(m)
      BY DEF Next, AgentReport, Relay, RelayClaim, RelayPublish, RelayCommit, RelayAbort,
         PruneOutbox, storeVars
    <3> QED
      BY <3>1, <3>2, <3>3, <3>4 DEF Submit
  <2> QED
    BY <2>1, <2>2, <2>3, <2>4, <2>5, <2>6, <2>7 DEF Open
<1> QED
  BY <1>1, <1>2 DEF ExpressionsFollow, Available, Unfinished

AnswerInv == StoreInv /\ ExpressionsFollow

LEMMA AnswerInvariant == Spec => []AnswerInv
<1>1. Init => ExpressionsFollow
  BY DEF Init, ExpressionsFollow, Open
<1>2. StoreInv /\ ExpressionsFollow /\ [Next]_storeVars => ExpressionsFollow'
  BY FollowStep DEF StoreInv, OutboxInv
<1>3. StoreInv /\ ExpressionsFollow => AnswerInv
  BY DEF AnswerInv
<1> QED
  BY <1>1, <1>2, <1>3, StoreInvariant, PTL DEF Spec

LEMMA AnswerInvCorrect == AnswerInv => AnswersCorrect
BY AnswersFollow DEF AnswerInv, StoreInv, OutboxInv

(* A done expression has the one answer its arithmetic has, and a failed   *)
(* one divides by zero, for every plan and every order of reports.         *)
THEOREM AnswersAreCorrect == Spec => []AnswersCorrect
BY AnswerInvariant, AnswerInvCorrect, PTL

-----------------------------------------------------------------------------
(* The store implements the lifecycle: every transaction is one step of it *)
(* or none.                                                                *)
LEMMA LifecycleStep ==
  ASSUME AnswerInv, AnswersCorrect', [Next]_storeVars
  PROVE  [Lifecycle!Next]_(Lifecycle!lifecycleVars)
<1>0. TypeOK /\ FanInInv /\ ExpressionsFollow
  BY DEF AnswerInv, StoreInv, OutboxInv
<1> USE DEF Lifecycle!lifecycleVars
<1>1. CASE UNCHANGED exprVars
  BY <1>1 DEF exprVars
<1>2. ASSUME NEW e \in Expr, CreateExpression(e) PROVE Lifecycle!Accept(e)
  BY <1>2, PlanAssumption DEF CreateExpression, Lifecycle!Accept
<1>3. ASSUME NEW e \in Expr, FinalizeImmediate(e) PROVE Lifecycle!Answer(e)
  <2>1. Meaning[e] = Root[e]
    BY <1>3, ValuationFacts, PlanAssumption DEF FinalizeImmediate, ValueOf
  <2> QED
    BY <1>3, <2>1 DEF FinalizeImmediate, Lifecycle!Answer, Lifecycle!Settle
<1>4. ASSUME NEW m \in reported, HandleResult(m)
      PROVE  UNCHANGED exprVars \/ \E e \in Expr : Lifecycle!Begin(e) \/ Lifecycle!Finish(e)
  <2> DEFINE t == m.task
             e == ExprOf[m.task]
  <2>1. t \in Task /\ m.value \in Value \cup {NoValue} /\ e \in Expr
    BY <1>0, PlanAssumption DEF TypeOK, ResultMessage
  <2>2. CASE FanIn(t, m.value)
    <3>1. /\ exprStatus' = [exprStatus EXCEPT ![e] = StatusAfter(t)]
          /\ exprResult' = [exprResult EXCEPT ![e] =
                              IF IsRoot(t) /\ exprStatus[e] \in Open THEN m.value ELSE @]
      BY <2>2 DEF FanIn
    <3>2. CASE IsRoot(t) /\ exprStatus[e] \in Open
      <4>1. /\ exprStatus' = [exprStatus EXCEPT ![e] = "done"]
            /\ exprResult' = [exprResult EXCEPT ![e] = m.value]
        BY <3>1, <3>2 DEF StatusAfter
      <4>2. Meaning[e] = m.value /\ m.value \in Value
        <5>1. exprStatus'[e] = "done" /\ exprResult'[e] = m.value
          BY <1>0, <2>1, <4>1 DEF TypeOK
        <5>2. Meaning[e] = m.value
          BY <1>0, <2>1, <5>1 DEF AnswersCorrect
        <5>3. Meaning[e] \in Outcome \cup Value
          BY <2>1, ValuationFacts, PlanAssumption DEF ValueOf
        <5> QED
          BY <2>1, <5>2, <5>3, PlanAssumption DEF Outcome
      <4>3. exprStatus[e] \in Lifecycle!Open
        BY <3>2 DEF Open, Lifecycle!Open
      <4> QED
        BY <2>1, <4>1, <4>2, <4>3 DEF Lifecycle!Finish, Lifecycle!Settle
    <3>3. CASE ~ (IsRoot(t) /\ exprStatus[e] \in Open)
      <4>1. exprResult' = exprResult
        BY <1>0, <3>1, <3>3 DEF TypeOK
      <4>2. CASE exprStatus[e] = "pending"
        BY <2>1, <3>1, <3>3, <4>1, <4>2 DEF StatusAfter, Lifecycle!Begin
      <4>3. CASE exprStatus[e] # "pending"
        BY <1>0, <3>1, <3>3, <4>1, <4>3 DEF StatusAfter, TypeOK, exprVars
      <4> QED
        BY <4>2, <4>3
    <3> QED
      BY <3>2, <3>3
  <2>3. CASE ApplyFailure(m) /\ status[m.task] \notin Settled
    <3>1. /\ exprStatus' = [exprStatus EXCEPT ![e] = IF @ \in Open THEN "failed" ELSE @]
          /\ exprResult' = exprResult
      BY <2>3 DEF ApplyFailure
    <3>2. CASE exprStatus[e] \in Open
      <4>1. exprStatus'[e] = "failed"
        BY <1>0, <2>1, <3>1, <3>2 DEF TypeOK
      <4>2. Meaning[e] = Error
        BY <1>0, <2>1, <4>1 DEF AnswersCorrect
      <4> QED
        BY <2>1, <3>1, <3>2, <4>2 DEF Open, Lifecycle!Finish, Lifecycle!Settle, Lifecycle!Open
    <3>3. CASE exprStatus[e] \notin Open
      BY <1>0, <3>1, <3>3 DEF TypeOK, exprVars
    <3> QED
      BY <3>2, <3>3
  <2>4. CASE UNCHANGED exprVars
    BY <2>4
  <2> QED
    BY <1>4, <2>2, <2>3, <2>4 DEF HandleResult, ApplyStarted, ApplyResult, ApplyFailure
<1>5. \/ UNCHANGED exprVars
      \/ \E e \in Expr : Submit(e)
      \/ \E m \in reported : HandleResult(m)
  BY DEF Next, AgentReport, Relay, RelayClaim, RelayPublish, RelayCommit, RelayAbort,
     PruneOutbox, storeVars
<1> QED
  BY <1>1, <1>2, <1>3, <1>4, <1>5 DEF Submit, Lifecycle!Next

(* The store keeps the promise made to clients.                            *)
THEOREM StoreKeepsPromise == Spec => KeepsPromise
<1>1. Init => Lifecycle!Init
  BY DEF Init, Lifecycle!Init
<1>2. AnswerInv /\ AnswersCorrect' /\ [Next]_storeVars
        => [Lifecycle!Next]_(Lifecycle!lifecycleVars)
  BY LifecycleStep
<1> QED
  BY <1>1, <1>2, AnswerInvariant, AnswersAreCorrect, PTL DEF Spec, KeepsPromise, Lifecycle!Spec

-----------------------------------------------------------------------------
(* The audit trail.  Events appear with the rows of their transaction and  *)
(* are never lost again.                                                   *)
LEMMA AuditedUnfolded ==
  \A event, x : Audited(event, x) <=> AuditBody(event, x) \in Bodies
BY DEF Audited, Bodies

LEMMA AuditedStays ==
  ASSUME OutboxInv, [Next]_storeVars
  PROVE  Bodies \subseteq Bodies'
BY RowsKept DEF Bodies

LEMMA AuditedInserted ==
  ASSUME OutboxInv, [Next]_storeVars, NEW bodies, IsFiniteSet(bodies), InsertOutbox(bodies),
         UNCHANGED dispatched
  PROVE  \A event, x : Audited(event, x)' <=> Audited(event, x) \/ AuditBody(event, x) \in bodies
<1>1. \A b \in bodies : b \in Bodies'
  BY InsertedAccounted DEF Accounted, Bodies
<1>2. \A b \in Bodies' : b \in Bodies \/ b \in bodies
  BY InsertBodies DEF OutboxInv
<1>3. \A b : b \in Bodies' <=> b \in Bodies \/ b \in bodies
  BY <1>1, <1>2, AuditedStays
<1> QED
  BY <1>3 DEF Audited, Bodies

(* The root of an expression finds it open, and a failing task does not    *)
(* find it done.                                                           *)
LEMMA RootFindsOpen ==
  ASSUME AnswerInv, NEW t \in Task, Launched(t), status[t] \notin Settled
  PROVE  /\ exprStatus[ExprOf[t]] \in Open \cup {"failed"}
         /\ IsRoot(t) /\ Compute(t, arg1[t], arg2[t]) # Error => exprStatus[ExprOf[t]] \in Open
<1> DEFINE e == ExprOf[t]
<1>1. /\ TypeOK /\ FanInInv /\ ExpressionsFollow /\ AnswersCorrect
      /\ e \in Expr /\ t \in TasksOf(e)
  BY AnswerInvCorrect, PlanAssumption DEF AnswerInv, StoreInv, OutboxInv, TasksOf
<1>2. exprStatus[e] # "absent"
  BY DEF AnswerInv, StoreInv, FanInInv, StoredTogether, Launched
<1>3. exprStatus[e] # "done"
  BY <1>1 DEF AnswersCorrect, Settled
<1>4. exprStatus[e] \in Open \cup {"failed"}
  BY <1>1, <1>2, <1>3 DEF TypeOK, Settled
<1>5. ASSUME IsRoot(t), Compute(t, arg1[t], arg2[t]) # Error PROVE exprStatus[e] # "failed"
  <2>1. Meaning[e] = Compute(t, arg1[t], arg2[t])
    BY <1>1, <1>5, LaunchedValues, ValuationFacts DEF IsRoot, ValueOf
  <2> QED
    BY <1>1, <1>5, <2>1 DEF AnswersCorrect
<1> QED
  BY <1>4, <1>5

LEMMA AuditStep ==
  ASSUME AnswerInv, AuditTrailFaithful, [Next]_storeVars
  PROVE  AuditTrailFaithful'
<1> DEFINE Trail ==
      /\ \A t \in Task : /\ Audited("task.done", t)' <=> status'[t] = "done"
                         /\ Audited("task.failed", t)' <=> status'[t] = "failed"
      /\ \A e \in Expr : /\ Audited("expression.submitted", e)' <=> exprStatus'[e] # "absent"
                         /\ Audited("expression.done", e)' <=> exprStatus'[e] = "done"
                         /\ Audited("expression.failed", e)' <=> exprStatus'[e] = "failed"
<1>1. Trail => AuditTrailFaithful'
  BY DEF AuditTrailFaithful, Audited
<1>2. /\ TypeOK /\ OutboxInv /\ FanInInv
      /\ \A t \in Task : /\ Audited("task.done", t) <=> status[t] = "done"
                         /\ Audited("task.failed", t) <=> status[t] = "failed"
      /\ \A e \in Expr : /\ Audited("expression.submitted", e) <=> exprStatus[e] # "absent"
                         /\ Audited("expression.done", e) <=> exprStatus[e] = "done"
                         /\ Audited("expression.failed", e) <=> exprStatus[e] = "failed"
  BY DEF AnswerInv, StoreInv, OutboxInv, AuditTrailFaithful
<1>3. \A b1, b2, x1, x2 : AuditBody(b1, x1) = AuditBody(b2, x2) <=> b1 = b2 /\ x1 = x2
  BY DEF AuditBody
<1>4. ASSUME Bodies' = Bodies,
             exprStatus' = exprStatus,
             \A t \in Task : /\ status'[t] = "done" <=> status[t] = "done"
                             /\ status'[t] = "failed" <=> status[t] = "failed"
      PROVE  Trail
  <2>1. \A event, x : Audited(event, x)' <=> Audited(event, x)
    BY <1>4 DEF Audited, Bodies
  <2> QED
    BY <1>2, <1>4, <2>1
<1>5. ASSUME NEW e \in Expr, CreateExpression(e) PROVE Trail
  <2> DEFINE ready == {t \in TasksOf(e) : UnmetDeps(t) = 0}
             bodies == {TaskBody(t, Arg1[t], Arg2[t]) : t \in ready}
                        \cup {AuditBody("expression.submitted", e)}
  <2>1. \A event, x : AuditBody(event, x) \in bodies <=> event = "expression.submitted" /\ x = e
    BY <1>3 DEF AuditBody, TaskBody
  <2>2. IsFiniteSet(bodies) /\ InsertOutbox(bodies) /\ UNCHANGED dispatched
    BY <1>5, CreateBodies DEF CreateExpression
  <2>3. \A event, x : Audited(event, x)' <=> Audited(event, x) \/ AuditBody(event, x) \in bodies
    <3> HIDE DEF bodies
    <3> QED
      BY <1>2, <2>2, AuditedInserted
  <2>4. \A t \in Task : /\ status'[t] = "done" <=> status[t] = "done"
                        /\ status'[t] = "failed" <=> status[t] = "failed"
    <3>1. \A t \in TasksOf(e) : status[t] = "absent" /\ status'[t] \in {"ready", "pending"}
      BY <1>2, <1>5 DEF FanInInv, StoredTogether, CreateExpression, TasksOf
    <3> QED
      BY <1>5, <3>1 DEF CreateExpression
  <2>5. exprStatus[e] = "absent" /\ exprStatus' = [exprStatus EXCEPT ![e] = "pending"]
    BY <1>5 DEF CreateExpression
  <2> HIDE DEF bodies
  <2> QED
    BY <1>2, <2>1, <2>3, <2>4, <2>5 DEF TypeOK
<1>6. ASSUME NEW e \in Expr, FinalizeImmediate(e) PROVE Trail
  <2> DEFINE bodies == {AuditBody("expression.submitted", e), AuditBody("expression.done", e)}
  <2>1. \A event, x : AuditBody(event, x) \in bodies <=>
           event \in {"expression.submitted", "expression.done"} /\ x = e
    BY <1>3
  <2>2. IsFiniteSet(bodies)
    BY PairFinite, Zenon
  <2>3. /\ InsertOutbox(bodies) /\ UNCHANGED dispatched /\ status' = status
        /\ exprStatus[e] = "absent" /\ exprStatus' = [exprStatus EXCEPT ![e] = "done"]
    BY <1>6 DEF FinalizeImmediate, taskVars
  <2>4. \A event, x : Audited(event, x)' <=> Audited(event, x) \/ AuditBody(event, x) \in bodies
    <3> HIDE DEF bodies
    <3> QED
      BY <1>2, <2>2, <2>3, AuditedInserted
  <2> HIDE DEF bodies
  <2> QED
    BY <1>2, <2>1, <2>3, <2>4 DEF TypeOK
<1>7. ASSUME NEW m \in reported, HandleResult(m) PROVE Trail
  <2> DEFINE t == m.task
             e == ExprOf[t]
  <2>1. /\ t \in Task /\ m.value \in Value \cup {NoValue} /\ e \in Expr
        /\ Launched(t) /\ ReportAgrees(m)
        /\ UNCHANGED <<relayVars, dispatched, reported>>
    BY <1>2, <1>7, MessagesAgreeUnfolded, PlanAssumption
       DEF FanInInv, TypeOK, ResultMessage, HandleResult, ReportAgrees
  <2> HIDE DEF t, e
  <2>2. CASE ApplyResult(m) /\ status[t] \notin Settled
    <3> DEFINE tasks == {TaskBody(u, arg1'[u], arg2'[u]) : u \in Unlocked(t)}
               bodies == {TaskBody(u, arg1'[u], arg2'[u]) : u \in Unlocked(t)}
                          \cup {AuditBody("task.done", t)}
                          \cup (IF IsRoot(t) THEN {AuditBody("expression.done", ExprOf[t])} ELSE {})
    <3>1. FanIn(t, m.value) /\ m.value = Compute(t, arg1[t], arg2[t])
      BY <2>1, <2>2 DEF ApplyResult, ReportAgrees, t
    <3>2. IsFiniteSet(bodies) /\ InsertOutbox(bodies)
      BY <1>2, <2>1, <3>1, FanInBodies
    <3>3. \A event, x : AuditBody(event, x) \in bodies <=>
             (event = "task.done" /\ x = t) \/ (event = "expression.done" /\ x = e /\ IsRoot(t))
      <4>1. \A event, x : AuditBody(event, x) \notin tasks
        BY DEF AuditBody, TaskBody
      <4> HIDE DEF tasks
      <4> QED
        BY <1>3, <4>1 DEF e, tasks
    <3>4. \A event, x : Audited(event, x)' <=> Audited(event, x) \/ AuditBody(event, x) \in bodies
      <4> HIDE DEF bodies
      <4> QED
        BY <1>2, <2>1, <3>2, AuditedInserted
    <3>5. \A u \in Task : /\ status'[u] = "done" <=> (u = t \/ status[u] = "done")
                          /\ status'[u] = "failed" <=> status[u] = "failed"
      BY <2>1, <2>2, <3>1 DEF FanIn, Unlocked, Dependents, Launched, Settled
    <3>6. m.value # Error
      BY <2>1, PlanAssumption
    <3>7. exprStatus[e] \in Open \cup {"failed"} /\ (IsRoot(t) => exprStatus[e] \in Open)
      BY <2>1, <2>2, <3>1, <3>6, RootFindsOpen DEF e
    <3>8. exprStatus' = [exprStatus EXCEPT ![e] = StatusAfter(t)]
      BY <3>1 DEF FanIn, e
    <3>9. /\ StatusAfter(t) = "done" <=> IsRoot(t)
          /\ StatusAfter(t) = "failed" <=> exprStatus[e] = "failed"
          /\ StatusAfter(t) # "absent"
      BY <3>7 DEF StatusAfter, Open, e
    <3> HIDE DEF bodies
    <3>10. \A u \in Task : /\ Audited("task.done", u)' <=> status'[u] = "done"
                           /\ Audited("task.failed", u)' <=> status'[u] = "failed"
      BY <1>2, <3>3, <3>4, <3>5
    <3>11. \A d \in Expr :
              /\ Audited("expression.submitted", d)' <=> exprStatus'[d] # "absent"
              /\ Audited("expression.done", d)' <=> exprStatus'[d] = "done"
              /\ Audited("expression.failed", d)' <=> exprStatus'[d] = "failed"
      <4> SUFFICES ASSUME NEW d \in Expr
                   PROVE  /\ Audited("expression.submitted", d)' <=> exprStatus'[d] # "absent"
                          /\ Audited("expression.done", d)' <=> exprStatus'[d] = "done"
                          /\ Audited("expression.failed", d)' <=> exprStatus'[d] = "failed"
        OBVIOUS
      <4>1. CASE d = e
        BY <1>2, <2>1, <3>3, <3>4, <3>7, <3>8, <3>9, <4>1 DEF TypeOK, Open
      <4>2. CASE d # e
        BY <1>2, <2>1, <3>3, <3>4, <3>8, <4>2 DEF TypeOK
      <4> QED
        BY <4>1, <4>2
    <3> QED
      BY <3>10, <3>11
  <2>3. CASE ApplyFailure(m) /\ status[t] \notin Settled
    <3> DEFINE bodies == {AuditBody("task.failed", t), AuditBody("expression.failed", e)}
    <3>1. /\ status' = [status EXCEPT ![t] = "failed"]
          /\ exprStatus' = [exprStatus EXCEPT ![e] = IF @ \in Open THEN "failed" ELSE @]
          /\ InsertOutbox(bodies)
      BY <2>3 DEF ApplyFailure, t, e
    <3>2. IsFiniteSet(bodies)
      BY PairFinite, Zenon
    <3>3. \A event, x : AuditBody(event, x) \in bodies <=>
             (event = "task.failed" /\ x = t) \/ (event = "expression.failed" /\ x = e)
      BY <1>3
    <3>4. \A event, x : Audited(event, x)' <=> Audited(event, x) \/ AuditBody(event, x) \in bodies
      <4> HIDE DEF bodies
      <4> QED
        BY <1>2, <2>1, <3>1, <3>2, AuditedInserted
    <3>5. exprStatus[e] \in Open \cup {"failed"}
      BY <2>1, <2>3, RootFindsOpen DEF e
    <3>6. exprStatus' = [exprStatus EXCEPT ![e] = "failed"]
      BY <3>1, <3>5
    <3>7. status[t] # "done" /\ status[t] # "failed"
      BY <2>3 DEF Settled
    <3> HIDE DEF bodies
    <3>8. \A u \in Task : /\ Audited("task.done", u)' <=> status'[u] = "done"
                          /\ Audited("task.failed", u)' <=> status'[u] = "failed"
      BY <1>2, <2>1, <3>1, <3>3, <3>4, <3>7 DEF TypeOK
    <3>9. \A d \in Expr :
              /\ Audited("expression.submitted", d)' <=> exprStatus'[d] # "absent"
              /\ Audited("expression.done", d)' <=> exprStatus'[d] = "done"
              /\ Audited("expression.failed", d)' <=> exprStatus'[d] = "failed"
      BY <1>2, <2>1, <3>3, <3>4, <3>5, <3>6 DEF TypeOK, Open
    <3> QED
      BY <3>8, <3>9
  <2>4. CASE UNCHANGED <<exprVars, outboxVars>> /\
             (status' = status \/ (status' = [status EXCEPT ![t] = "running"]
                                   /\ status[t] \in Runnable))
    <3>1. Bodies' = Bodies /\ exprStatus' = exprStatus
      BY <2>1, <2>4 DEF Bodies, outboxVars, exprVars
    <3>2. \A u \in Task : /\ status'[u] = "done" <=> status[u] = "done"
                          /\ status'[u] = "failed" <=> status[u] = "failed"
      BY <1>2, <2>1, <2>4 DEF TypeOK, Runnable
    <3> QED
      BY <1>4, <3>1, <3>2
  <2> QED
    BY <1>7, <2>2, <2>3, <2>4
       DEF HandleResult, ApplyStarted, ApplyResult, ApplyFailure, taskVars, t
<1>8. ASSUME UNCHANGED <<exprVars, taskVars>>, Bodies' \subseteq Bodies PROVE Trail
  BY <1>2, <1>4, <1>8, AuditedStays DEF exprVars, taskVars
<1>9. ASSUME UNCHANGED storeVars PROVE Trail
  BY <1>8, <1>9 DEF storeVars, outboxVars, Bodies
<1>10. ASSUME NEW m, NEW sent, AgentReport(m, sent) PROVE Trail
  BY <1>8, <1>10 DEF AgentReport, outboxVars, Bodies
<1>11. ASSUME NEW r \in Replica, Relay(r) PROVE Trail
  <2>1. \A row \in todo[r] : row.body \in Bodies
    BY <1>2 DEF OutboxInv, MarksTrue, ClaimsExclusive, Bodies
  <2>2. dispatched' \subseteq dispatched \cup Bodies /\ UNCHANGED <<exprVars, taskVars, outbox>>
    BY <1>11, <2>1 DEF Relay, RelayClaim, RelayPublish, RelayCommit, RelayAbort, outboxVars
  <2> QED
    BY <1>8, <2>2 DEF Bodies
<1>12. ASSUME PruneOutbox PROVE Trail
  <2>1. UNCHANGED <<exprVars, taskVars, dispatched>> /\ outbox' \subseteq outbox
    BY <1>12 DEF PruneOutbox
  <2> QED
    BY <1>8, <2>1 DEF Bodies
<1> QED
  BY <1>1, <1>5, <1>6, <1>7, <1>9, <1>10, <1>11, <1>12 DEF Next, Submit

(* An outcome has its audit event, in the outbox or with the broker,       *)
(* exactly when it is the outcome.                                         *)
THEOREM AuditIsFaithful == Spec => []AuditTrailFaithful
<1>1. Init => AuditTrailFaithful
  BY DEF Init, AuditTrailFaithful, Audited
<1>2. AnswerInv /\ AuditTrailFaithful /\ [Next]_storeVars => AuditTrailFaithful'
  BY AuditStep
<1> QED
  BY <1>1, <1>2, AnswerInvariant, PTL DEF Spec
=============================================================================
