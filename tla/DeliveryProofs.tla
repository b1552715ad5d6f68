--------------------------- MODULE DeliveryProofs ----------------------------
(***************************************************************************)
(* Proofs about the system end to end: the flows, the agents and the       *)
(* results consumers implement the store's specification, so that all its  *)
(* theorems hold of the composed system; no runnable task is lost on its   *)
(* way through the queues; and a task is dead only for a reason.           *)
(***************************************************************************)
EXTENDS Delivery, ExpressionStoreProofs, FlowFacts

-----------------------------------------------------------------------------
(* What may be in a queue or in a consumer's hands: tasks the relay has    *)
(* sent, reports the agents have sent.                                     *)
Attempts   == 0 .. MaxAttempts - 1
TaskCopy   == [body : Assigned, attempt : Attempts]
ResultCopy == [body : reported, attempt : Attempts]

TaskFlow   == [ready |-> DOMAIN taskReady, waiting |-> DOMAIN taskWaiting,
               dead |-> DOMAIN taskDead, hand |-> agentHand]
ResultFlow == [ready |-> DOMAIN resultReady, waiting |-> DOMAIN resultWaiting,
               dead |-> DOMAIN resultDead, hand |-> resultHand]

TaskTypes   == Typed(TaskFlow, Agent, TaskCopy)
ResultTypes == Typed(ResultFlow, Replica, ResultCopy)
FlowTypes   == TaskTypes /\ ResultTypes

(* The message of a runnable task that has left the outbox is kept in the  *)
(* tasks flow, or has become a report that is kept in the results flow.    *)
Driven(b) == \/ Kept(TaskFlow, Agent, b)
             \/ \E m \in OutcomeReports(b) : Kept(ResultFlow, Replica, m)
SentDriven ==
    \A t \in Task : status[t] \in Runnable /\ Message(t) \in dispatched => Driven(Message(t))

(* An agent buries what never succeeds or has used its attempts.           *)
Hopeless(copy) == OutcomeReports(copy.body) = {} \/ copy.attempt + 1 = MaxAttempts
DoomEarned == \A copy \in Doomed(TaskFlow, Agent) : Hopeless(copy)

-----------------------------------------------------------------------------
(* The actions of the tasks flow are steps of module FlowFacts.            *)
LEMMA TaskBags ==
  ASSUME NEW q, NEW copy
  PROVE  /\ Added(DOMAIN q, DOMAIN Tasks!BagAdd(q, copy), copy)
         /\ copy \in DOMAIN q =>
               Lessened(DOMAIN q, DOMAIN Tasks!BagRemove(q, copy), copy)
BY DEF Tasks!BagAdd, Tasks!BagRemove, Added, Lessened

LEMMA TaskAccept ==
  ASSUME NEW q, NEW copy, NEW outcome
  PROVE  IF outcome = "refused" THEN Tasks!Accept(q, copy, outcome) = q
         ELSE Added(DOMAIN q, DOMAIN Tasks!Accept(q, copy, outcome), copy)
BY TaskBags DEF Tasks!Accept

LEMMA TaskEnqueued ==
  ASSUME NEW copy, NEW outcome, Tasks!Enqueue(copy, outcome)
  PROVE  IF outcome = "refused" THEN TaskFlow' = TaskFlow
         ELSE Arrive(TaskFlow, TaskFlow', copy) /\ copy \in DOMAIN taskReady'
<1>1. /\ taskReady' = Tasks!Accept(taskReady, copy, outcome)
      /\ UNCHANGED <<taskWaiting, taskDead, agentHand>>
  BY DEF Tasks!Enqueue
<1>2. IF outcome = "refused" THEN taskReady' = taskReady
      ELSE Added(DOMAIN taskReady, DOMAIN taskReady', copy)
  BY <1>1, TaskAccept
<1> QED
  BY <1>1, <1>2 DEF Arrive, Added, TaskFlow

LEMMA TaskReturned ==
  ASSUME NEW c, NEW code, Tasks!Return(c, code)
  PROVE  /\ agentHand[c].stage = "handling"
         /\ Decide(TaskFlow, TaskFlow', c, Tasks!Route(code, Tasks!Held(c).attempt))
BY DEF Tasks!Return, Decide, Restage, TaskFlow, Stage

LEMMA TaskHop ==
  ASSUME TaskTypes, NEW c \in Agent,
         \/ \E copy \in DOMAIN taskReady : Tasks!Deliver(c, copy)
         \/ \E outcome : Tasks!Park(c, outcome) \/ Tasks!Bury(c, outcome)
         \/ Tasks!Ack(c) \/ Tasks!Nack(c) \/ Tasks!Shed(c)
         \/ Tasks!Drop(c) \/ Tasks!Disconnect(c)
  PROVE  Hop(TaskFlow, TaskFlow', c)
<1>1. /\ Tasks!Idle = AtRest /\ AtRest.stage = "idle"
      /\ TaskFlow.hand = agentHand /\ TaskFlow'.hand = agentHand'
  BY DEF Tasks!Idle, AtRest, TaskFlow
<1>2. agentHand[c] # AtRest => agentHand[c].stage \in Stage
  BY DEF TaskTypes, Typed, HandsTyped, TaskFlow, Busy
<1>3. ASSUME NEW copy \in DOMAIN taskReady, Tasks!Deliver(c, copy)
      PROVE  Deliver1(TaskFlow, TaskFlow', c)
  BY <1>1, <1>3, TaskBags DEF Tasks!Deliver, Deliver1, TaskFlow
<1>4. ASSUME NEW outcome, Tasks!Park(c, outcome) PROVE Park1(TaskFlow, TaskFlow', c)
  <2>1. Tasks!Copy(Tasks!Held(c).body, Tasks!Held(c).attempt + 1) = Again(agentHand[c].copy)
    BY DEF Tasks!Copy, Tasks!Held, Again
  <2>2. /\ agentHand[c].stage = "park" /\ agentHand[c].stage \in Stage
        /\ taskWaiting' = Tasks!Accept(taskWaiting, Again(agentHand[c].copy), outcome)
        /\ agentHand' = [agentHand EXCEPT ![c].stage =
                               IF outcome = "confirmed" THEN "ack" ELSE "nack"]
        /\ UNCHANGED <<taskReady, taskDead>>
    BY <1>4, <2>1 DEF Tasks!Park, Tasks!AfterPublish, Stage
  <2>3. \/ outcome = "refused" /\ taskWaiting' = taskWaiting
        \/ /\ outcome # "refused"
           /\ Added(DOMAIN taskWaiting, DOMAIN taskWaiting', Again(agentHand[c].copy))
    BY <2>2, TaskAccept
  <2> QED
    BY <2>2, <2>3 DEF Park1, Restage, TaskFlow
<1>5. ASSUME NEW outcome, Tasks!Bury(c, outcome) PROVE Bury1(TaskFlow, TaskFlow', c)
  <2>1. /\ agentHand[c].stage = "bury" /\ agentHand[c].stage \in Stage
        /\ taskDead' = Tasks!Accept(taskDead, agentHand[c].copy, outcome)
        /\ agentHand' = [agentHand EXCEPT ![c].stage =
                               IF outcome = "confirmed" THEN "ack" ELSE "nack"]
        /\ UNCHANGED <<taskReady, taskWaiting>>
    BY <1>5 DEF Tasks!Bury, Tasks!AfterPublish, Tasks!Held, Stage
  <2>2. \/ outcome = "refused" /\ taskDead' = taskDead
        \/ outcome # "refused" /\ Added(DOMAIN taskDead, DOMAIN taskDead', agentHand[c].copy)
    BY <2>1, TaskAccept
  <2> QED
    BY <2>1, <2>2 DEF Bury1, Restage, TaskFlow
<1>6. ASSUME Tasks!Ack(c) PROVE Settle1(TaskFlow, TaskFlow', c)
  BY <1>1, <1>6 DEF Tasks!Ack, Settle1, Rest, TaskFlow
<1>7. ASSUME Tasks!Shed(c) PROVE Decide(TaskFlow, TaskFlow', c, "nack")
  BY <1>7 DEF Tasks!Shed, Decide, Restage, Stage, TaskFlow
<1>8. ASSUME Tasks!Nack(c) \/ Tasks!Drop(c) \/ Tasks!Disconnect(c)
      PROVE  Release(TaskFlow, TaskFlow', c)
  <2>1. agentHand[c].stage \in Stage
    BY <1>1, <1>2, <1>8 DEF Tasks!Nack, Tasks!Drop, Tasks!Disconnect, Stage
  <2>2. IF agentHand[c].owned THEN Added(DOMAIN taskReady, DOMAIN taskReady', agentHand[c].copy)
                            ELSE taskReady' = taskReady
    BY <1>8, TaskBags
       DEF Tasks!Nack, Tasks!Drop, Tasks!Disconnect, Tasks!Returned, Tasks!Held
  <2>3. \/ agentHand' = [agentHand EXCEPT ![c] = AtRest]
        \/ agentHand' = [agentHand EXCEPT ![c].owned = FALSE]
    BY <1>1, <1>8 DEF Tasks!Nack, Tasks!Drop, Tasks!Disconnect
  <2>4. UNCHANGED <<taskWaiting, taskDead>>
    BY <1>8 DEF Tasks!Nack, Tasks!Drop, Tasks!Disconnect
  <2> QED
    BY <2>1, <2>2, <2>3, <2>4 DEF Release, Rest, TaskFlow
<1> QED
  BY <1>3, <1>4, <1>5, <1>6, <1>7, <1>8 DEF Hop

LEMMA TaskMove ==
  ASSUME \/ \E copy \in DOMAIN taskWaiting : Tasks!Expire(copy)
         \/ \E copy \in DOMAIN taskDead, outcome \in PublishOutcome :
               Tasks!Redrive(copy, outcome)
  PROVE  Move(TaskFlow, TaskFlow')
<1>1. ASSUME NEW copy \in DOMAIN taskWaiting, Tasks!Expire(copy)
      PROVE  Move(TaskFlow, TaskFlow')
  BY <1>1, TaskBags DEF Tasks!Expire, Move, TaskFlow
<1>2. ASSUME NEW copy \in DOMAIN taskDead, NEW outcome \in PublishOutcome,
             Tasks!Redrive(copy, outcome)
      PROVE  Move(TaskFlow, TaskFlow')
  <2>1. Tasks!Copy(copy.body, 0) = Afresh(copy)
    BY DEF Tasks!Copy, Afresh
  <2>2. IF outcome = "refused" THEN taskReady' = taskReady
        ELSE Added(DOMAIN taskReady, DOMAIN taskReady', Afresh(copy))
    BY <1>2, <2>1, TaskAccept DEF Tasks!Redrive
  <2>3. IF outcome = "confirmed" THEN Lessened(DOMAIN taskDead, DOMAIN taskDead', copy)
                                 ELSE taskDead' = taskDead
    BY <1>2, TaskBags DEF Tasks!Redrive
  <2>4. UNCHANGED <<taskWaiting, agentHand>>
    BY <1>2 DEF Tasks!Redrive
  <2> QED
    BY <2>2, <2>3, <2>4 DEF Move, TaskFlow
<1> QED
  BY <1>1, <1>2

-----------------------------------------------------------------------------
(* The actions of the results flow are steps of module FlowFacts.          *)
LEMMA ResultBags ==
  ASSUME NEW q, NEW copy
  PROVE  /\ Added(DOMAIN q, DOMAIN Results!BagAdd(q, copy), copy)
         /\ copy \in DOMAIN q =>
               Lessened(DOMAIN q, DOMAIN Results!BagRemove(q, copy), copy)
BY DEF Results!BagAdd, Results!BagRemove, Added, Lessened

LEMMA ResultAccept ==
  ASSUME NEW q, NEW copy, NEW outcome
  PROVE  IF outcome = "refused" THEN Results!Accept(q, copy, outcome) = q
         ELSE Added(DOMAIN q, DOMAIN Results!Accept(q, copy, outcome), copy)
BY ResultBags DEF Results!Accept

LEMMA ResultEnqueued ==
  ASSUME NEW copy, NEW outcome, Results!Enqueue(copy, outcome)
  PROVE  IF outcome = "refused" THEN ResultFlow' = ResultFlow
         ELSE Arrive(ResultFlow, ResultFlow', copy) /\ copy \in DOMAIN resultReady'
<1>1. /\ resultReady' = Results!Accept(resultReady, copy, outcome)
      /\ UNCHANGED <<resultWaiting, resultDead, resultHand>>
  BY DEF Results!Enqueue
<1>2. IF outcome = "refused" THEN resultReady' = resultReady
      ELSE Added(DOMAIN resultReady, DOMAIN resultReady', copy)
  BY <1>1, ResultAccept
<1> QED
  BY <1>1, <1>2 DEF Arrive, Added, ResultFlow

LEMMA ResultReturned ==
  ASSUME NEW c, NEW code, Results!Return(c, code)
  PROVE  /\ resultHand[c].stage = "handling"
         /\ Decide(ResultFlow, ResultFlow', c, Results!Route(code, Results!Held(c).attempt))
BY DEF Results!Return, Decide, Restage, ResultFlow, Stage

LEMMA ResultHop ==
  ASSUME ResultTypes, NEW c \in Replica,
         \/ \E copy \in DOMAIN resultReady : Results!Deliver(c, copy)
         \/ \E outcome : Results!Park(c, outcome) \/ Results!Bury(c, outcome)
         \/ Results!Ack(c) \/ Results!Nack(c) \/ Results!Shed(c)
         \/ Results!Drop(c) \/ Results!Disconnect(c)
  PROVE  Hop(ResultFlow, ResultFlow', c)
<1>1. /\ Results!Idle = AtRest /\ AtRest.stage = "idle"
      /\ ResultFlow.hand = resultHand /\ ResultFlow'.hand = resultHand'
  BY DEF Results!Idle, AtRest, ResultFlow
<1>2. resultHand[c] # AtRest => resultHand[c].stage \in Stage
  BY DEF ResultTypes, Typed, HandsTyped, ResultFlow, Busy
<1>3. ASSUME NEW copy \in DOMAIN resultReady, Results!Deliver(c, copy)
      PROVE  Deliver1(ResultFlow, ResultFlow', c)
  BY <1>1, <1>3, ResultBags DEF Results!Deliver, Deliver1, ResultFlow
<1>4. ASSUME NEW outcome, Results!Park(c, outcome) PROVE Park1(ResultFlow, ResultFlow', c)
  <2>1. Results!Copy(Results!Held(c).body, Results!Held(c).attempt + 1) = Again(resultHand[c].copy)
    BY DEF Results!Copy, Results!Held, Again
  <2>2. /\ resultHand[c].stage = "park" /\ resultHand[c].stage \in Stage
        /\ resultWaiting' = Results!Accept(resultWaiting, Again(resultHand[c].copy), outcome)
        /\ resultHand' = [resultHand EXCEPT ![c].stage =
                               IF outcome = "confirmed" THEN "ack" ELSE "nack"]
        /\ UNCHANGED <<resultReady, resultDead>>
    BY <1>4, <2>1 DEF Results!Park, Results!AfterPublish, Stage
  <2>3. \/ outcome = "refused" /\ resultWaiting' = resultWaiting
        \/ /\ outcome # "refused"
           /\ Added(DOMAIN resultWaiting, DOMAIN resultWaiting', Again(resultHand[c].copy))
    BY <2>2, ResultAccept
  <2> QED
    BY <2>2, <2>3 DEF Park1, Restage, ResultFlow
<1>5. ASSUME NEW outcome, Results!Bury(c, outcome) PROVE Bury1(ResultFlow, ResultFlow', c)
  <2>1. /\ resultHand[c].stage = "bury" /\ resultHand[c].stage \in Stage
        /\ resultDead' = Results!Accept(resultDead, resultHand[c].copy, outcome)
        /\ resultHand' = [resultHand EXCEPT ![c].stage =
                               IF outcome = "confirmed" THEN "ack" ELSE "nack"]
        /\ UNCHANGED <<resultReady, resultWaiting>>
    BY <1>5 DEF Results!Bury, Results!AfterPublish, Results!Held, Stage
  <2>2. \/ outcome = "refused" /\ resultDead' = resultDead
        \/ outcome # "refused" /\ Added(DOMAIN resultDead, DOMAIN resultDead', resultHand[c].copy)
    BY <2>1, ResultAccept
  <2> QED
    BY <2>1, <2>2 DEF Bury1, Restage, ResultFlow
<1>6. ASSUME Results!Ack(c) PROVE Settle1(ResultFlow, ResultFlow', c)
  BY <1>1, <1>6 DEF Results!Ack, Settle1, Rest, ResultFlow
<1>7. ASSUME Results!Shed(c) PROVE Decide(ResultFlow, ResultFlow', c, "nack")
  BY <1>7 DEF Results!Shed, Decide, Restage, Stage, ResultFlow
<1>8. ASSUME Results!Nack(c) \/ Results!Drop(c) \/ Results!Disconnect(c)
      PROVE  Release(ResultFlow, ResultFlow', c)
  <2>1. resultHand[c].stage \in Stage
    BY <1>1, <1>2, <1>8 DEF Results!Nack, Results!Drop, Results!Disconnect, Stage
  <2>2. IF resultHand[c].owned
        THEN Added(DOMAIN resultReady, DOMAIN resultReady', resultHand[c].copy)
        ELSE resultReady' = resultReady
    BY <1>8, ResultBags
       DEF Results!Nack, Results!Drop, Results!Disconnect, Results!Returned, Results!Held
  <2>3. \/ resultHand' = [resultHand EXCEPT ![c] = AtRest]
        \/ resultHand' = [resultHand EXCEPT ![c].owned = FALSE]
    BY <1>1, <1>8 DEF Results!Nack, Results!Drop, Results!Disconnect
  <2>4. UNCHANGED <<resultWaiting, resultDead>>
    BY <1>8 DEF Results!Nack, Results!Drop, Results!Disconnect
  <2> QED
    BY <2>1, <2>2, <2>3, <2>4 DEF Release, Rest, ResultFlow
<1> QED
  BY <1>3, <1>4, <1>5, <1>6, <1>7, <1>8 DEF Hop

LEMMA ResultMove ==
  ASSUME \/ \E copy \in DOMAIN resultWaiting : Results!Expire(copy)
         \/ \E copy \in DOMAIN resultDead, outcome \in PublishOutcome :
               Results!Redrive(copy, outcome)
  PROVE  Move(ResultFlow, ResultFlow')
<1>1. ASSUME NEW copy \in DOMAIN resultWaiting, Results!Expire(copy)
      PROVE  Move(ResultFlow, ResultFlow')
  BY <1>1, ResultBags DEF Results!Expire, Move, ResultFlow
<1>2. ASSUME NEW copy \in DOMAIN resultDead, NEW outcome \in PublishOutcome,
             Results!Redrive(copy, outcome)
      PROVE  Move(ResultFlow, ResultFlow')
  <2>1. Results!Copy(copy.body, 0) = Afresh(copy)
    BY DEF Results!Copy, Afresh
  <2>2. IF outcome = "refused" THEN resultReady' = resultReady
        ELSE Added(DOMAIN resultReady, DOMAIN resultReady', Afresh(copy))
    BY <1>2, <2>1, ResultAccept DEF Results!Redrive
  <2>3. IF outcome = "confirmed" THEN Lessened(DOMAIN resultDead, DOMAIN resultDead', copy)
                                 ELSE resultDead' = resultDead
    BY <1>2, ResultBags DEF Results!Redrive
  <2>4. UNCHANGED <<resultWaiting, resultHand>>
    BY <1>2 DEF Results!Redrive
  <2> QED
    BY <2>2, <2>3, <2>4 DEF Move, ResultFlow
<1> QED
  BY <1>1, <1>2

-----------------------------------------------------------------------------
(* The system implements the store: what a consumer handles has been       *)
(* reported, what an agent reports on has been dispatched.                 *)
LEMMA StoreStepOf ==
  ASSUME FlowTypes, [DeliveryNext]_vars
  PROVE  [Next]_storeVars
<1>1. ASSUME NEW r \in Replica, RunRelay(r) \/ StopRelay(r) PROVE Relay(r)
  BY <1>1 DEF RunRelay, StopRelay, RelayRow, Relay
<1>2. ASSUME NEW w, NEW sent, NEW outcome, PublishReport(w, sent, outcome)
      PROVE  [Next]_storeVars
  BY <1>2 DEF PublishReport, AgentReport, Next
<1>3. ASSUME NEW w \in Agent, RunAgent(w) \/ Cancel(w) PROVE [Next]_storeVars
  BY <1>2, <1>3 DEF RunAgent, AgentTake, Announce, Answer, TaskPolicy, Cancel
<1>4. ASSUME NEW r \in Replica, RunResults(r) \/ ApplyFails(r) PROVE [Next]_storeVars
  <2>1. ASSUME resultHand[r].stage = "handling" PROVE Results!Held(r).body \in reported
    <3>1. ResultFlow.hand = resultHand /\ resultHand[r].stage \in Stage
      BY <2>1 DEF ResultFlow, Stage
    <3>2. resultHand[r] \in Busy(ResultCopy)
      BY <3>1, HandOf DEF FlowTypes, ResultTypes
    <3> QED
      BY <3>2 DEF Busy, ResultCopy, Results!Held
  <2>2. \/ UNCHANGED storeVars
        \/ resultHand[r].stage = "handling" /\ HandleResult(Results!Held(r).body)
    BY <1>4 DEF RunResults, ResultTake, Apply, ApplyFails, ResultPolicy
  <2> QED
    BY <2>1, <2>2 DEF Next
<1>5. UNCHANGED vars \/ TaskBackoff \/ TaskDisturbance \/ ResultDisturbance
        => UNCHANGED storeVars
  BY DEF vars, TaskBackoff, TaskDisturbance, ResultDisturbance
<1>6. Client \/ Prune => Next
  BY DEF Client, Prune, Next
<1> QED
  BY <1>1, <1>3, <1>4, <1>5, <1>6 DEF DeliveryNext, Next

(* What was sent stays sent, so the flows may only see more of it.         *)
LEMMA SentGrows ==
  ASSUME [Next]_storeVars
  PROVE  dispatched \subseteq dispatched' /\ reported \subseteq reported'
<1>1. ASSUME NEW r \in Replica, Relay(r)
      PROVE  dispatched \subseteq dispatched' /\ reported \subseteq reported'
  BY <1>1 DEF Relay, RelayClaim, RelayPublish, RelayCommit, RelayAbort
<1>2. ASSUME NEW e \in Expr, Submit(e)
      PROVE  dispatched \subseteq dispatched' /\ reported \subseteq reported'
  BY <1>2 DEF Submit, CreateExpression, FinalizeImmediate
<1>3. CASE PruneOutbox \/ UNCHANGED storeVars
  BY <1>3 DEF PruneOutbox, storeVars
<1>4. ASSUME NEW m, HandleResult(m)
      PROVE  dispatched \subseteq dispatched' /\ reported \subseteq reported'
  BY <1>4 DEF HandleResult
<1>5. ASSUME NEW m, NEW sent, AgentReport(m, sent)
      PROVE  dispatched \subseteq dispatched' /\ reported \subseteq reported'
  BY <1>5 DEF AgentReport
<1> QED
  BY <1>1, <1>2, <1>3, <1>4, <1>5 DEF Next

LEMMA CopiesGrow ==
  ASSUME [Next]_storeVars
  PROVE  /\ TaskCopy \subseteq TaskCopy' /\ ResultCopy \subseteq ResultCopy'
         /\ \A copy \in TaskCopy' : Afresh(copy) \in TaskCopy'
         /\ \A copy \in ResultCopy' : Afresh(copy) \in ResultCopy'
<1>1. Attempts' = Attempts /\ 0 \in Attempts
  BY DeliveryAssumption DEF Attempts
<1> QED
  BY <1>1, SentGrows DEF TaskCopy, ResultCopy, Assigned, Afresh

-----------------------------------------------------------------------------
(* What a step of the system is for the tasks flow, and for the results    *)
(* flow: nothing, the arrival of what was sent, the decision of a handler, *)
(* or one of the steps no handler decides.                                 *)
TaskArrives == \E b \in Assigned' : Arrive(TaskFlow, TaskFlow', Tasks!Copy(b, 0))
TaskDecided(w, s) ==
    /\ agentHand[w].stage = "handling"
    /\ Decide(TaskFlow, TaskFlow', w, s)
    /\ s = "ack"  => \E m \in OutcomeReports(Tasks!Held(w).body) : Kept(ResultFlow', Replica, m)
    /\ s = "park" => Tasks!Held(w).attempt + 1 < MaxAttempts
    /\ s = "bury" => Hopeless(Tasks!Held(w))

ResultArrives == \E copy \in ResultCopy' : Arrive(ResultFlow, ResultFlow', copy)
ResultDecided(r, s) ==
    /\ resultHand[r].stage = "handling"
    /\ Decide(ResultFlow, ResultFlow', r, s)
    /\ s = "ack" => HandleResult(Results!Held(r).body)

LEMMA TaskHeld ==
  ASSUME TaskTypes, NEW w \in Agent, agentHand[w].stage \in Stage
  PROVE  /\ Tasks!Held(w) \in TaskCopy /\ agentHand[w].copy = Tasks!Held(w)
         /\ Tasks!Held(w).attempt \in Attempts
<1>1. TaskFlow.hand = agentHand
  BY DEF TaskFlow
<1>2. agentHand[w] \in Busy(TaskCopy)
  BY <1>1, HandOf DEF TaskTypes
<1> QED
  BY <1>2 DEF Busy, TaskCopy, Tasks!Held

LEMMA ResultHeld ==
  ASSUME ResultTypes, NEW r \in Replica, resultHand[r].stage \in Stage
  PROVE  Results!Held(r) \in ResultCopy /\ resultHand[r].copy = Results!Held(r)
<1>1. ResultFlow.hand = resultHand
  BY DEF ResultFlow
<1>2. resultHand[r] \in Busy(ResultCopy)
  BY <1>1, HandOf DEF ResultTypes
<1> QED
  BY <1>2 DEF Busy, Results!Held

(* A published report is in the results flow, if it was not refused.       *)
LEMMA ReportArrives ==
  ASSUME FlowTypes, NEW w \in Agent, agentHand[w].stage = "handling",
         NEW sent, NEW outcome, PublishReport(w, sent, outcome)
  PROVE  IF outcome = "refused" THEN ResultFlow' = ResultFlow
         ELSE ResultArrives /\ Kept(ResultFlow', Replica, sent)
<1> DEFINE copy == Results!Copy(sent, Tasks!Held(w).attempt)
<1>1. Results!Enqueue(copy, outcome)
  BY DEF PublishReport
<1>2. outcome # "refused" => sent \in reported'
  BY DEF PublishReport, AgentReport
<1>3. Tasks!Held(w).attempt \in Attempts /\ Attempts' = Attempts
  BY TaskHeld DEF Stage, FlowTypes, Attempts
<1>4. outcome # "refused" => copy \in ResultCopy'
  BY <1>2, <1>3 DEF ResultCopy, Results!Copy
<1>5. copy.body = sent
  BY DEF Results!Copy
<1> HIDE DEF copy
<1>6. outcome # "refused" =>
         Arrive(ResultFlow, ResultFlow', copy) /\ copy \in DOMAIN resultReady'
  BY <1>1, ResultEnqueued
<1>7. copy \in DOMAIN resultReady' => Kept(ResultFlow', Replica, sent)
  BY <1>5 DEF Kept, ResultFlow
<1> QED
  BY <1>1, <1>4, <1>6, <1>7, ResultEnqueued DEF ResultArrives

(* A worker returns: it acks what it answered, and buries only what has    *)
(* failed for good.                                                        *)
LEMMA WorkerDecides ==
  ASSUME TaskTypes, NEW w \in Agent, NEW code, Tasks!Return(w, code),
         \/ code = "none" /\ \E m \in OutcomeReports(Tasks!Held(w).body) :
                                Kept(ResultFlow', Replica, m)
         \/ code = "UNAVAILABLE"
         \/ code = "INTERNAL" /\ OutcomeReports(Tasks!Held(w).body) = {}
  PROVE  \E s \in Stage : TaskDecided(w, s)
<1> DEFINE s == Tasks!Route(code, Tasks!Held(w).attempt)
<1>1. agentHand[w].stage = "handling" /\ Decide(TaskFlow, TaskFlow', w, s)
  BY TaskReturned
<1>2. Tasks!Held(w).attempt \in 0 .. MaxAttempts - 1
  BY <1>1, TaskHeld DEF Stage, Attempts
<1>3. /\ s \in {"ack", "park", "bury"}
      /\ s = "ack" <=> code = "none"
      /\ s = "park" => Tasks!Held(w).attempt + 1 < MaxAttempts
  BY DEF Tasks!Route
<1>4. s = "bury" => Hopeless(Tasks!Held(w))
  <2>1. CASE code = "UNAVAILABLE"
    <3>1. s = "bury" => ~ (Tasks!Held(w).attempt + 1 < MaxAttempts)
      BY <2>1 DEF Tasks!Route, Tasks!Retryable
    <3>2. s = "bury" => Tasks!Held(w).attempt + 1 = MaxAttempts
      BY <1>2, <3>1, DeliveryAssumption
    <3> QED
      BY <3>2 DEF Hopeless
  <2>2. CASE code # "UNAVAILABLE"
    BY <1>3, <2>2 DEF Hopeless
  <2> QED
    BY <2>1, <2>2
<1> HIDE DEF s
<1>5. TaskDecided(w, s) /\ s \in Stage
  BY <1>1, <1>3, <1>4 DEF TaskDecided, Stage
<1> QED
  BY <1>5

LEMMA TaskSteps ==
  ASSUME FlowTypes, [DeliveryNext]_vars
  PROVE  \/ TaskFlow' = TaskFlow \/ TaskArrives \/ Move(TaskFlow, TaskFlow')
         \/ \E w \in Agent : Hop(TaskFlow, TaskFlow', w)
         \/ \E w \in Agent, s \in Stage : TaskDecided(w, s)
<1>1. UNCHANGED tasksVars => TaskFlow' = TaskFlow
  BY DEF tasksVars, TaskFlow
<1>2. ASSUME NEW r \in Replica, RelayRow(r) PROVE TaskFlow' = TaskFlow \/ TaskArrives
  <2>1. PICK row \in todo[r], outcome \in PublishOutcome :
           /\ RelayPublish(r, row, outcome)
           /\ IF row.body.kind = "task"
              THEN Tasks!Enqueue(Tasks!Copy(row.body, 0), outcome)
              ELSE UNCHANGED tasksVars
    BY <1>2 DEF RelayRow
  <2>2. outcome # "refused" => row.body \in dispatched'
    BY <2>1 DEF RelayPublish
  <2>3. outcome # "refused" /\ row.body.kind = "task" => row.body \in Assigned'
    BY <2>2 DEF Assigned
  <2> QED
    BY <1>1, <2>1, <2>3, TaskEnqueued DEF TaskArrives
<1>3. ASSUME NEW w \in Agent, AgentTake(w) \/ TaskPolicy(w) PROVE Hop(TaskFlow, TaskFlow', w)
  BY <1>3, TaskHop DEF AgentTake, TaskPolicy, FlowTypes
<1>4. ASSUME NEW w \in Agent, Answer(w) PROVE \E s \in Stage : TaskDecided(w, s)
  <2>1. agentHand[w].stage = "handling"
    BY <1>4 DEF Answer, Handling
  <2>2. CASE OutcomeReports(Tasks!Held(w).body) = {} /\ Tasks!Return(w, "INTERNAL")
    BY <2>2, WorkerDecides DEF FlowTypes
  <2>3. ASSUME NEW sent \in OutcomeReports(Tasks!Held(w).body), NEW outcome \in PublishOutcome,
               PublishReport(w, sent, outcome),
               Tasks!Return(w, IF outcome = "confirmed" THEN "none" ELSE "UNAVAILABLE")
        PROVE  \E s \in Stage : TaskDecided(w, s)
    <3>1. outcome = "confirmed" => Kept(ResultFlow', Replica, sent)
      BY <2>1, <2>3, ReportArrives
    <3>2. outcome = "confirmed" => Tasks!Return(w, "none")
      BY <2>3
    <3>3. outcome # "confirmed" => Tasks!Return(w, "UNAVAILABLE")
      BY <2>3
    <3> QED
      BY <2>3, <3>1, <3>2, <3>3, WorkerDecides DEF FlowTypes
  <2> QED
    BY <1>4, <2>2, <2>3 DEF Answer
<1>5. ASSUME NEW w \in Agent, Cancel(w) PROVE \E s \in Stage : TaskDecided(w, s)
  BY <1>5, WorkerDecides DEF Cancel, FlowTypes
<1>6. CASE TaskBackoff \/ TaskDisturbance
  <2>1. ASSUME NEW w \in Agent, Tasks!Drop(w) \/ Tasks!Disconnect(w) \/ Tasks!Shed(w)
        PROVE  Hop(TaskFlow, TaskFlow', w)
    BY <2>1, TaskHop DEF FlowTypes
  <2>2. ASSUME \/ \E copy \in DOMAIN taskWaiting : Tasks!Expire(copy)
               \/ \E copy \in DOMAIN taskDead, outcome \in PublishOutcome :
                     Tasks!Redrive(copy, outcome)
        PROVE  Move(TaskFlow, TaskFlow')
    BY <2>2, TaskMove
  <2> QED
    BY <1>6, <2>1, <2>2 DEF TaskBackoff, TaskDisturbance
<1>7. CASE UNCHANGED tasksVars
  BY <1>1, <1>7
<1>8. \/ UNCHANGED tasksVars \/ TaskBackoff \/ TaskDisturbance
      \/ \E r \in Replica : RelayRow(r)
      \/ \E w \in Agent : AgentTake(w) \/ TaskPolicy(w) \/ Answer(w) \/ Cancel(w)
  <2>1. ASSUME NEW r \in Replica, RunRelay(r) \/ StopRelay(r) \/ RunResults(r) \/ ApplyFails(r)
        PROVE  UNCHANGED tasksVars \/ RelayRow(r)
    BY <2>1 DEF RunRelay, StopRelay, RunResults, ApplyFails, ResultTake, Apply, ResultPolicy
  <2>2. ASSUME NEW w \in Agent, RunAgent(w)
        PROVE  UNCHANGED tasksVars \/ AgentTake(w) \/ TaskPolicy(w) \/ Answer(w)
    BY <2>2 DEF RunAgent, Announce
  <2>3. Client \/ Prune \/ ResultDisturbance \/ UNCHANGED vars => UNCHANGED tasksVars
    BY DEF Client, Prune, ResultDisturbance, vars
  <2> QED
    BY <2>1, <2>2, <2>3 DEF DeliveryNext
<1> QED
  BY <1>2, <1>3, <1>4, <1>5, <1>6, <1>7, <1>8

LEMMA ResultSteps ==
  ASSUME FlowTypes, [DeliveryNext]_vars
  PROVE  \/ ResultFlow' = ResultFlow \/ ResultArrives \/ Move(ResultFlow, ResultFlow')
         \/ \E r \in Replica : Hop(ResultFlow, ResultFlow', r)
         \/ \E r \in Replica : ResultDecided(r, "ack") \/ ResultDecided(r, "bury")
<1>1. UNCHANGED resultsVars => ResultFlow' = ResultFlow
  BY DEF resultsVars, ResultFlow
<1>2. ASSUME NEW w \in Agent, RunAgent(w) \/ Cancel(w)
      PROVE  ResultFlow' = ResultFlow \/ ResultArrives
  <2>1. \/ UNCHANGED resultsVars
        \/ /\ agentHand[w].stage = "handling"
           /\ \E sent, outcome : PublishReport(w, sent, outcome)
    BY <1>2 DEF RunAgent, AgentTake, Announce, Answer, TaskPolicy, Cancel, Handling
  <2> QED
    BY <1>1, <2>1, ReportArrives
<1>3. ASSUME NEW r \in Replica, ResultTake(r) \/ ResultPolicy(r)
      PROVE  Hop(ResultFlow, ResultFlow', r)
  BY <1>3, ResultHop DEF ResultTake, ResultPolicy, FlowTypes
<1>4. ASSUME NEW r \in Replica, Apply(r) PROVE ResultDecided(r, "ack")
  <2>1. Results!Route("none", Results!Held(r).attempt) = "ack"
    BY DEF Results!Route
  <2>2. Results!Return(r, "none") /\ HandleResult(Results!Held(r).body)
    BY <1>4 DEF Apply
  <2> QED
    BY <2>1, <2>2, ResultReturned DEF ResultDecided
<1>5. ASSUME NEW r \in Replica, ApplyFails(r) PROVE ResultDecided(r, "bury")
  <2>1. Results!Route("INTERNAL", Results!Held(r).attempt) = "bury"
    BY DEF Results!Route, Results!Retryable
  <2>2. Results!Return(r, "INTERNAL")
    BY <1>5 DEF ApplyFails
  <2> QED
    BY <2>1, <2>2, ResultReturned DEF ResultDecided
<1>6. CASE ResultDisturbance
  <2>1. ASSUME NEW r \in Replica, Results!Drop(r) \/ Results!Disconnect(r)
        PROVE  Hop(ResultFlow, ResultFlow', r)
    BY <2>1, ResultHop DEF FlowTypes
  <2>2. ASSUME NEW copy \in DOMAIN resultDead, NEW outcome \in PublishOutcome,
               Results!Redrive(copy, outcome)
        PROVE  Move(ResultFlow, ResultFlow')
    BY <2>2, ResultMove
  <2> QED
    BY <1>6, <2>1, <2>2 DEF ResultDisturbance
<1>7. CASE UNCHANGED resultsVars
  BY <1>1, <1>7
<1>8. \/ UNCHANGED resultsVars \/ ResultDisturbance
      \/ \E r \in Replica : ResultTake(r) \/ ResultPolicy(r) \/ Apply(r) \/ ApplyFails(r)
      \/ \E w \in Agent : RunAgent(w) \/ Cancel(w)
  <2>1. ASSUME NEW r \in Replica, RunRelay(r) \/ StopRelay(r)
        PROVE  UNCHANGED resultsVars
    BY <2>1 DEF RunRelay, StopRelay
  <2>2. Client \/ Prune \/ TaskBackoff \/ TaskDisturbance \/ UNCHANGED vars
           => UNCHANGED resultsVars
    BY DEF Client, Prune, TaskBackoff, TaskDisturbance, vars
  <2> QED
    BY <2>1, <2>2 DEF DeliveryNext, RunResults
<1> QED
  BY <1>2, <1>3, <1>4, <1>5, <1>6, <1>7, <1>8

-----------------------------------------------------------------------------
(* What these steps leave in the flows.                                    *)
LEMMA TasksKept ==
  ASSUME FlowTypes, [DeliveryNext]_vars
  PROVE  /\ Typed(TaskFlow', Agent, TaskCopy')
         /\ \A b : Kept(TaskFlow, Agent, b) =>
               \/ Kept(TaskFlow', Agent, b)
               \/ \E m \in OutcomeReports(b) : Kept(ResultFlow', Replica, m)
         /\ \A copy \in Doomed(TaskFlow', Agent) :
               copy \in Doomed(TaskFlow, Agent) \/ Hopeless(copy)
<1>1. /\ TaskCopy \subseteq TaskCopy'
      /\ \A copy \in TaskCopy' : Afresh(copy) \in TaskCopy'
  BY StoreStepOf, CopiesGrow
<1>2. Typed(TaskFlow, Agent, TaskCopy')
  BY <1>1, TypedWider DEF FlowTypes, TaskTypes
<1>3. Sound(TaskFlow, TaskFlow', Agent, TaskCopy') =>
        /\ Typed(TaskFlow', Agent, TaskCopy')
        /\ \A b : Kept(TaskFlow, Agent, b) => Kept(TaskFlow', Agent, b)
        /\ \A copy \in Doomed(TaskFlow', Agent) : copy \in Doomed(TaskFlow, Agent)
  BY DEF Sound
<1>4. CASE TaskFlow' = TaskFlow
  BY <1>2, <1>4
<1>5. CASE TaskArrives
  <2>1. PICK b \in Assigned' : Arrive(TaskFlow, TaskFlow', Tasks!Copy(b, 0))
    BY <1>5 DEF TaskArrives
  <2>2. Tasks!Copy(b, 0) \in TaskCopy'
    BY DeliveryAssumption DEF Tasks!Copy, TaskCopy, Attempts
  <2>3. Sound(TaskFlow, TaskFlow', Agent, TaskCopy')
    BY <1>2, <2>1, <2>2, ArriveSound
  <2> QED
    BY <1>3, <2>3
<1>6. CASE Move(TaskFlow, TaskFlow')
  BY <1>1, <1>2, <1>3, <1>6, MoveSound
<1>7. ASSUME NEW w \in Agent, Hop(TaskFlow, TaskFlow', w)
      PROVE  Sound(TaskFlow, TaskFlow', Agent, TaskCopy')
  BY <1>2, <1>7, HopSound
<1>8. ASSUME NEW w \in Agent, NEW s \in Stage, TaskDecided(w, s)
      PROVE  /\ Typed(TaskFlow', Agent, TaskCopy')
             /\ \A b : Kept(TaskFlow, Agent, b) =>
                   \/ Kept(TaskFlow', Agent, b)
                   \/ \E m \in OutcomeReports(b) : Kept(ResultFlow', Replica, m)
             /\ \A copy \in Doomed(TaskFlow', Agent) :
                   copy \in Doomed(TaskFlow, Agent) \/ Hopeless(copy)
  <2>1. /\ TaskFlow.hand[w].copy = Tasks!Held(w)
        /\ Tasks!Held(w) \in TaskCopy /\ Tasks!Held(w).attempt \in 0 .. MaxAttempts - 1
    BY <1>8, TaskHeld DEF TaskDecided, TaskFlow, Stage, FlowTypes, Attempts
  <2>2. s = "park" => Again(TaskFlow.hand[w].copy) \in TaskCopy
    <3>1. s = "park" => Tasks!Held(w).attempt + 1 \in 0 .. MaxAttempts - 1
      BY <1>8, <2>1, DeliveryAssumption DEF TaskDecided
    <3> QED
      BY <2>1, <3>1 DEF Again, TaskCopy, Attempts
  <2>3. Decide(TaskFlow, TaskFlow', w, s)
    BY <1>8 DEF TaskDecided
  <2>4. /\ Typed(TaskFlow', Agent, TaskCopy')
        /\ \A b : Kept(TaskFlow, Agent, b) => \/ Kept(TaskFlow', Agent, b)
                                              \/ /\ s = "ack"
                                                 /\ b = TaskFlow.hand[w].copy.body
        /\ Doomed(TaskFlow', Agent) \subseteq Doomed(TaskFlow, Agent) \cup
              (IF s = "bury" THEN {TaskFlow.hand[w].copy} ELSE {})
    BY <1>1, <1>2, <2>2, <2>3, DecideSound
  <2>5. \A b : s = "ack" /\ b = TaskFlow.hand[w].copy.body =>
           \E m \in OutcomeReports(b) : Kept(ResultFlow', Replica, m)
    BY <1>8, <2>1 DEF TaskDecided
  <2>6. s = "bury" => Hopeless(TaskFlow.hand[w].copy)
    BY <1>8, <2>1 DEF TaskDecided
  <2> QED
    BY <2>4, <2>5, <2>6
<1> QED
  BY <1>3, <1>4, <1>5, <1>6, <1>7, <1>8, TaskSteps

LEMMA ResultsKept ==
  ASSUME FlowTypes, [DeliveryNext]_vars
  PROVE  /\ Typed(ResultFlow', Replica, ResultCopy')
         /\ \A m : Kept(ResultFlow, Replica, m) =>
               Kept(ResultFlow', Replica, m) \/ HandleResult(m)
<1>1. /\ ResultCopy \subseteq ResultCopy'
      /\ \A copy \in ResultCopy' : Afresh(copy) \in ResultCopy'
  BY StoreStepOf, CopiesGrow
<1>2. Typed(ResultFlow, Replica, ResultCopy')
  BY <1>1, TypedWider DEF FlowTypes, ResultTypes
<1>3. Sound(ResultFlow, ResultFlow', Replica, ResultCopy') =>
        /\ Typed(ResultFlow', Replica, ResultCopy')
        /\ \A m : Kept(ResultFlow, Replica, m) => Kept(ResultFlow', Replica, m)
  BY DEF Sound
<1>4. CASE ResultFlow' = ResultFlow
  BY <1>2, <1>4
<1>5. CASE ResultArrives
  <2>1. PICK copy \in ResultCopy' : Arrive(ResultFlow, ResultFlow', copy)
    BY <1>5 DEF ResultArrives
  <2>2. Sound(ResultFlow, ResultFlow', Replica, ResultCopy')
    BY <1>2, <2>1, ArriveSound
  <2> QED
    BY <1>3, <2>2
<1>6. CASE Move(ResultFlow, ResultFlow')
  BY <1>1, <1>2, <1>3, <1>6, MoveSound
<1>7. ASSUME NEW r \in Replica, Hop(ResultFlow, ResultFlow', r)
      PROVE  Sound(ResultFlow, ResultFlow', Replica, ResultCopy')
  BY <1>2, <1>7, HopSound
<1>8. ASSUME NEW r \in Replica, NEW s \in {"ack", "bury"}, ResultDecided(r, s)
      PROVE  /\ Typed(ResultFlow', Replica, ResultCopy')
             /\ \A m : Kept(ResultFlow, Replica, m) =>
                   Kept(ResultFlow', Replica, m) \/ HandleResult(m)
  <2>1. ResultFlow.hand[r].copy = Results!Held(r)
    BY DEF ResultFlow, Results!Held
  <2>2. Decide(ResultFlow, ResultFlow', r, s) /\ s \in Stage /\ s # "park"
    BY <1>8 DEF ResultDecided, Stage
  <2>3. /\ Typed(ResultFlow', Replica, ResultCopy')
        /\ \A m : Kept(ResultFlow, Replica, m) => \/ Kept(ResultFlow', Replica, m)
                                                  \/ /\ s = "ack"
                                                     /\ m = ResultFlow.hand[r].copy.body
    BY <1>2, <2>2, DecideSound
  <2>4. s = "ack" => HandleResult(ResultFlow.hand[r].copy.body)
    BY <1>8, <2>1 DEF ResultDecided
  <2> QED
    BY <2>3, <2>4
<1> QED
  BY <1>3, <1>4, <1>5, <1>6, <1>7, <1>8, ResultSteps

-----------------------------------------------------------------------------
LEMMA FlowsInit == DeliveryInit => Init /\ FlowTypes /\ DoomEarned
<1> SUFFICES ASSUME DeliveryInit PROVE Init /\ FlowTypes /\ DoomEarned
  OBVIOUS
<1>1. /\ DOMAIN taskReady = {} /\ DOMAIN taskWaiting = {} /\ DOMAIN taskDead = {}
      /\ agentHand = [w \in Agent |-> AtRest]
  BY DEF DeliveryInit, Tasks!FlowInit, Tasks!NoCopies, Tasks!Idle, AtRest
<1>2. /\ DOMAIN resultReady = {} /\ DOMAIN resultWaiting = {} /\ DOMAIN resultDead = {}
      /\ resultHand = [r \in Replica |-> AtRest]
  BY DEF DeliveryInit, Results!FlowInit, Results!NoCopies, Results!Idle, AtRest
<1>3. TaskTypes
  BY <1>1 DEF TaskTypes, Typed, HandsTyped, TaskFlow, AtRest
<1>4. ResultTypes
  BY <1>2 DEF ResultTypes, Typed, HandsTyped, ResultFlow, AtRest
<1>5. Doomed(TaskFlow, Agent) = {}
  BY <1>1 DEF Doomed, TaskFlow, AtRest
<1> QED
  BY <1>3, <1>4, <1>5 DEF DeliveryInit, FlowTypes, DoomEarned

LEMMA FlowTypesStep == FlowTypes /\ [DeliveryNext]_vars => FlowTypes'
BY TasksKept, ResultsKept DEF FlowTypes, TaskTypes, ResultTypes

LEMMA FlowTypesInvariant == DeliverySpec => []FlowTypes
BY FlowsInit, FlowTypesStep, PTL DEF DeliverySpec

(* The composed system, with its crashes, lost confirms and retries, is an *)
(* implementation of the store's specification.                            *)
THEOREM DeliveryImplementsStore == DeliverySpec => ImplementsStore
<1>1. FlowTypes /\ [DeliveryNext]_vars => [Next]_storeVars
  BY StoreStepOf
<1> QED
  BY FlowsInit, FlowTypesInvariant, <1>1, PTL DEF DeliverySpec, ImplementsStore, Spec

(* So whatever was proved of the store holds end to end: the answers are   *)
(* right and final, the promise to clients is kept, the audit trail is     *)
(* faithful.                                                               *)
THEOREM AnswersEndToEnd ==
  DeliverySpec => []AnswersCorrect /\ SettledForever /\ KeepsPromise /\ []AuditTrailFaithful
BY DeliveryImplementsStore, AnswersAreCorrect, WhatSettlesStays, StoreKeepsPromise,
   AuditIsFaithful, PTL DEF ImplementsStore

-----------------------------------------------------------------------------
LEMMA DoomStep == FlowTypes /\ DoomEarned /\ [DeliveryNext]_vars => DoomEarned'
<1> SUFFICES ASSUME FlowTypes, DoomEarned, [DeliveryNext]_vars,
                    NEW copy \in Doomed(TaskFlow', Agent)
             PROVE  Hopeless(copy)
  BY DEF DoomEarned, Hopeless, OutcomeReports
<1> QED
  BY TasksKept DEF DoomEarned

(* A dead task is one that never succeeds or that has used its attempts.   *)
THEOREM DeadTasksAreEarned == DeliverySpec => []DeadTasksEarned
<1>1. DoomEarned => DeadTasksEarned
  BY DEF DoomEarned, Doomed, TaskFlow, DeadTasksEarned, Hopeless
<1> QED
  BY FlowsInit, FlowTypesInvariant, DoomStep, <1>1, PTL DEF DeliverySpec

-----------------------------------------------------------------------------
(* A step of the store that sends a message changes no task.               *)
LEMMA SendsOrWrites == [Next]_storeVars => dispatched' = dispatched \/ UNCHANGED taskVars
BY DEF Next, Submit, CreateExpression, FinalizeImmediate, HandleResult, AgentReport, Relay,
   RelayClaim, RelayPublish, RelayCommit, RelayAbort, PruneOutbox, storeVars

(* A runnable task whose message has been sent was runnable before, with   *)
(* the same message.                                                       *)
LEMMA RunnableBefore ==
  ASSUME StoreInv, [Next]_storeVars, NEW t \in Task,
         status'[t] \in Runnable, Message(t)' \in dispatched'
  PROVE  status[t] \in Runnable /\ Message(t)' = Message(t)
<1>1. TypeOK /\ FanInInv
  BY DEF StoreInv, OutboxInv
<1>2. CASE UNCHANGED taskVars
  BY <1>2 DEF taskVars, Message
<1>3. CASE dispatched' = dispatched
  <2> DEFINE b == TaskBody(t, arg1'[t], arg2'[t])
  <2>1. b \in dispatched
    BY <1>3 DEF Message
  <2>2. b.kind = "task" /\ b.task = t /\ b.arg1 = arg1'[t] /\ b.arg2 = arg2'[t]
    BY DEF TaskBody
  <2>3. TaskAgrees(b)
    BY <1>1, <2>1, <2>2, MessagesAgreeUnfolded DEF FanInInv, Bodies
  <2>4. Launched(t) /\ arg1'[t] = arg1[t] /\ arg2'[t] = arg2[t]
    BY <2>2, <2>3 DEF TaskAgrees
  <2>5. status[t] \notin Settled
    BY <1>1, SettledStep DEF Settled, Runnable
  <2>6. status[t] \in Runnable
    BY <1>1, <2>4, <2>5 DEF TypeOK, Launched
  <2> QED
    BY <2>4, <2>6 DEF Message
<1> QED
  BY <1>2, <1>3, SendsOrWrites

(* What is sent is in the tasks flow when it is sent.                      *)
LEMMA SentArrives ==
  ASSUME FlowTypes, [DeliveryNext]_vars, NEW b \in dispatched' \ dispatched, b.kind = "task"
  PROVE  Kept(TaskFlow', Agent, b)
<1>1. PICK r \in Replica : RelayRow(r)
  <2>1. ASSUME NEW r \in Replica, RunRelay(r) \/ StopRelay(r)
        PROVE  RelayRow(r) \/ UNCHANGED dispatched
    BY <2>1 DEF RunRelay, StopRelay, RelayClaim, RelayCommit, RelayAbort
  <2>2. ASSUME NEW w \in Agent, RunAgent(w) \/ Cancel(w) PROVE UNCHANGED dispatched
    BY <2>2 DEF RunAgent, AgentTake, Announce, Answer, TaskPolicy, Cancel, PublishReport,
       AgentReport, storeVars
  <2>3. ASSUME NEW r \in Replica, RunResults(r) \/ ApplyFails(r) PROVE UNCHANGED dispatched
    BY <2>3 DEF RunResults, ResultTake, Apply, ResultPolicy, ApplyFails, HandleResult, storeVars
  <2>4. Client \/ Prune \/ TaskBackoff \/ TaskDisturbance \/ ResultDisturbance
          \/ UNCHANGED vars => UNCHANGED dispatched
    BY DEF Client, Submit, CreateExpression, FinalizeImmediate, Prune, PruneOutbox, TaskBackoff,
       TaskDisturbance, ResultDisturbance, vars, storeVars
  <2> QED
    BY <2>1, <2>2, <2>3, <2>4 DEF DeliveryNext
<1>2. PICK row \in todo[r], outcome \in PublishOutcome :
         /\ RelayPublish(r, row, outcome)
         /\ IF row.body.kind = "task"
            THEN Tasks!Enqueue(Tasks!Copy(row.body, 0), outcome)
            ELSE UNCHANGED tasksVars
  BY <1>1 DEF RelayRow
<1>3. b = row.body /\ outcome # "refused"
  BY <1>2 DEF RelayPublish
<1>4. Tasks!Copy(b, 0) \in DOMAIN taskReady' /\ Tasks!Copy(b, 0).body = b
  BY <1>2, <1>3, TaskEnqueued DEF Tasks!Copy
<1> QED
  BY <1>4 DEF Kept, TaskFlow

(* Once the outcome of a task is handled, the task is settled.             *)
LEMMA OutcomeSettles ==
  ASSUME TypeOK, NEW t \in Task, NEW m \in OutcomeReports(Message(t)), HandleResult(m)
  PROVE  status'[t] \in Settled
<1>1. m.task = t /\ m.kind \in {"ok", "error"}
  BY DEF OutcomeReports, Message, TaskBody, Report
<1>2. CASE ApplyResult(m)
  BY <1>1, <1>2 DEF ApplyResult, FanIn, taskVars, Settled
<1>3. CASE ApplyFailure(m)
  BY <1>1, <1>3 DEF ApplyFailure, taskVars, Settled, TypeOK
<1> QED
  BY <1>1, <1>2, <1>3 DEF HandleResult, ApplyStarted

LEMMA DrivenStep ==
  StoreInv /\ FlowTypes /\ SentDriven /\ [DeliveryNext]_vars => SentDriven'
<1> SUFFICES ASSUME StoreInv, FlowTypes, SentDriven, [DeliveryNext]_vars,
                    NEW t \in Task, status'[t] \in Runnable, Message(t)' \in dispatched'
             PROVE  Driven(Message(t))'
  BY DEF SentDriven
<1>1. [Next]_storeVars
  BY StoreStepOf
<1>2. status[t] \in Runnable /\ Message(t)' = Message(t)
  BY <1>1, RunnableBefore
<1> DEFINE b == Message(t)
           Still == \/ Kept(TaskFlow', Agent, b)
                    \/ \E m \in OutcomeReports(b) : Kept(ResultFlow', Replica, m)
<1>3. Still => Driven(Message(t))'
  BY <1>2 DEF Driven, OutcomeReports
<1>4. CASE b \notin dispatched
  <2>1. b \in dispatched' \ dispatched /\ b.kind = "task"
    BY <1>2, <1>4 DEF Message, TaskBody
  <2> QED
    BY <1>3, <2>1, SentArrives
<1>5. CASE Kept(TaskFlow, Agent, b)
  BY <1>3, <1>5, TasksKept
<1>6. ASSUME NEW m \in OutcomeReports(b), Kept(ResultFlow, Replica, m) PROVE Still
  <2>1. ~HandleResult(m)
    BY OutcomeSettles DEF StoreInv, OutboxInv, Settled, Runnable
  <2> QED
    BY <1>6, <2>1, ResultsKept
<1>7. b \in dispatched => Driven(b)
  BY <1>2 DEF SentDriven
<1> QED
  BY <1>3, <1>4, <1>5, <1>6, <1>7 DEF Driven

(* What is kept is somewhere.                                              *)
LEMMA KeptSomewhere ==
  /\ \A b : Kept(TaskFlow, Agent, b) => Tasks!Somewhere(b)
  /\ \A m : Kept(ResultFlow, Replica, m) => Results!Somewhere(m)
<1>1. ASSUME NEW b, Kept(TaskFlow, Agent, b) PROVE Tasks!Somewhere(b)
  BY <1>1 DEF Kept, Firm, Stage, TaskFlow, Tasks!Somewhere, Tasks!Queued, Tasks!Unacked,
     Tasks!Held, Tasks!Idle
<1>2. ASSUME NEW m, Kept(ResultFlow, Replica, m) PROVE Results!Somewhere(m)
  BY <1>2 DEF Kept, Firm, Stage, ResultFlow, Results!Somewhere, Results!Queued,
     Results!Unacked, Results!Held, Results!Idle
<1> QED
  BY <1>1, <1>2

(* A task that may run and is not settled is always on somebody's list: in *)
(* the outbox, in the tasks flow, or as a report in the results flow.      *)
THEOREM RunnableTasksStayDriven == DeliverySpec => []StillDriven
<1>1. DeliveryInit => SentDriven
  BY DEF DeliveryInit, Init, SentDriven, Runnable
<1>2. DeliverySpec => []StoreInv /\ []NeverForgotten
  BY DeliveryImplementsStore, StoreInvariant, NoTaskForgotten, PTL DEF ImplementsStore
<1>3. NeverForgotten /\ SentDriven => StillDriven
  <2> SUFFICES ASSUME NeverForgotten, SentDriven, NEW t \in Task, status[t] \in Runnable
               PROVE  \/ \E row \in outbox : row.body = Message(t) /\ row.id \notin published
                      \/ Tasks!Somewhere(Message(t))
                      \/ \E m \in OutcomeReports(Message(t)) : Results!Somewhere(m)
    BY DEF StillDriven
  <2>1. \/ Message(t) \in dispatched
        \/ \E row \in outbox : row.body = Message(t) /\ row.id \notin published
    BY DEF NeverForgotten, Message
  <2>2. Message(t) \in dispatched => Driven(Message(t))
    BY DEF SentDriven
  <2> QED
    BY <2>1, <2>2, KeptSomewhere DEF Driven
<1>4. DeliverySpec => []SentDriven
  BY <1>1, <1>2, FlowTypesInvariant, DrivenStep, PTL DEF DeliverySpec
<1> QED
  BY <1>2, <1>3, <1>4, PTL
=============================================================================
