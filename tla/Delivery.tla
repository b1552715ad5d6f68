------------------------------ MODULE Delivery -------------------------------
(***************************************************************************)
(* The calculator end to end: the orchestrators' store, the tasks flow     *)
(* with the agents behind it, and the results flow that comes back.  Each  *)
(* step of a handler is an action, so that crashes, closed channels, lost  *)
(* confirms and failed transactions fall between any two of them.          *)
(*                                                                         *)
(* The audit flow has consumers of its own (the audit service); here a row *)
(* of kind audit is published and forgotten.                               *)
(***************************************************************************)
EXTENDS ExpressionStore

CONSTANTS Agent,       \* workers of the agents' pools
          MaxAttempts, \* of both consumers
          MaxFaults    \* bound on faults and operator interventions

ASSUME DeliveryAssumption == MaxAttempts \in Nat \ {0} /\ MaxFaults \in Nat

VARIABLES
    taskReady, taskWaiting, taskDead, agentHand,          \* the tasks flow
    announced,                                            \* agents past "started"
    resultReady, resultWaiting, resultDead, resultHand,   \* the results flow
    faults

tasksVars   == <<taskReady, taskWaiting, taskDead, agentHand>>
resultsVars == <<resultReady, resultWaiting, resultDead, resultHand>>
vars == <<storeVars, tasksVars, announced, resultsVars, faults>>

Tasks == INSTANCE Flow WITH
    Body <- TaskMessage, Consumer <- Agent,
    ready <- taskReady, waiting <- taskWaiting, dead <- taskDead, hand <- agentHand

(* RunResultsConsumer handles one delivery at a time, in every replica.    *)
Results == INSTANCE Flow WITH
    Body <- ResultMessage, Consumer <- Replica,
    ready <- resultReady, waiting <- resultWaiting, dead <- resultDead, hand <- resultHand

DeliveryInit == /\ Init
                /\ Tasks!FlowInit /\ Results!FlowInit
                /\ announced = {}
                /\ faults = 0

Spend(n) == faults' = faults + n /\ faults' <= MaxFaults
SpendOn(outcome) == Spend(IF outcome = "confirmed" THEN 0 ELSE 1)
Unspent == UNCHANGED faults

-----------------------------------------------------------------------------
(* The orchestrator's API and its relay.                                   *)
Client == /\ \E e \in Expr : Submit(e)
          /\ UNCHANGED <<tasksVars, announced, resultsVars, faults>>

RelayRow(r) ==
    \E row \in todo[r], outcome \in PublishOutcome :
        /\ RelayPublish(r, row, outcome)
        /\ IF row.body.kind = "task"
           THEN Tasks!Enqueue(Tasks!Copy(row.body, 0), outcome)
           ELSE UNCHANGED tasksVars
        /\ SpendOn(outcome)

RunRelay(r) == /\ RelayRow(r) \/ ((RelayClaim(r) \/ RelayCommit(r)) /\ UNCHANGED <<tasksVars, faults>>)
               /\ UNCHANGED <<announced, resultsVars>>

StopRelay(r) == RelayAbort(r) /\ Spend(1) /\ UNCHANGED <<tasksVars, announced, resultsVars>>
Prune == PruneOutbox /\ UNCHANGED <<tasksVars, announced, resultsVars, faults>>

-----------------------------------------------------------------------------
(* An agent worker: AgentConsumer.handle.                                  *)
AgentTake(w) ==
    /\ \E copy \in DOMAIN taskReady : Tasks!Deliver(w, copy)
    /\ announced' = announced \ {w}
    /\ UNCHANGED <<storeVars, resultsVars, faults>>

(* A report is published to the results flow with the task's own attempt   *)
(* number in its header.                                                   *)
PublishReport(w, sent, outcome) ==
    /\ Results!Enqueue(Results!Copy(sent, Tasks!Held(w).attempt), outcome)
    /\ IF outcome = "refused" THEN sent \in AgentReports(Tasks!Held(w).body) /\ UNCHANGED storeVars
                              ELSE AgentReport(Tasks!Held(w).body, sent)
    /\ SpendOn(outcome)

Handling(w) == agentHand[w].stage = "handling"

(* The announcement is best effort: its failure is ignored.                *)
Announce(w) ==
    /\ Handling(w) /\ w \notin announced
    /\ \E outcome \in PublishOutcome :
          PublishReport(w, Report("started", Tasks!Held(w).body.task, NoValue), outcome)
    /\ announced' = announced \cup {w}
    /\ UNCHANGED tasksVars

(* A result that cannot be published is a retryable failure of the task,   *)
(* one that cannot be encoded a permanent one.                             *)
Answer(w) ==
    /\ Handling(w) /\ w \in announced
    /\ \/ \E sent \in OutcomeReports(Tasks!Held(w).body), outcome \in PublishOutcome :
             /\ PublishReport(w, sent, outcome)
             /\ Tasks!Return(w, IF outcome = "confirmed" THEN "none" ELSE "UNAVAILABLE")
       \/ /\ OutcomeReports(Tasks!Held(w).body) = {}
          /\ Tasks!Return(w, "INTERNAL")
          /\ UNCHANGED <<storeVars, resultsVars, faults>>
    /\ UNCHANGED announced

(* Shutdown cancels a computation in progress.                             *)
Cancel(w) ==
    /\ w \in announced
    /\ Tasks!Return(w, "UNAVAILABLE")
    /\ Spend(1)
    /\ UNCHANGED <<storeVars, announced, resultsVars>>

TaskPolicy(w) ==
    /\ \/ \E outcome \in PublishOutcome :
             (Tasks!Park(w, outcome) \/ Tasks!Bury(w, outcome)) /\ SpendOn(outcome)
       \/ (Tasks!Ack(w) \/ Tasks!Nack(w)) /\ Unspent
    /\ UNCHANGED <<storeVars, announced, resultsVars>>

TaskDisturbance ==
    /\ \/ \E w \in Agent : Tasks!Drop(w) \/ Tasks!Disconnect(w)
                              \/ (w \notin announced /\ Tasks!Shed(w))
       \/ \E copy \in DOMAIN taskDead, outcome \in PublishOutcome : Tasks!Redrive(copy, outcome)
    /\ Spend(1)
    /\ UNCHANGED <<storeVars, announced, resultsVars>>

TaskBackoff == /\ \E copy \in DOMAIN taskWaiting : Tasks!Expire(copy)
               /\ UNCHANGED <<storeVars, announced, resultsVars, faults>>

RunAgent(w) == AgentTake(w) \/ Announce(w) \/ Answer(w) \/ TaskPolicy(w)

-----------------------------------------------------------------------------
(* A results consumer: scheduler.HandleResult.                             *)
ResultTake(r) ==
    /\ \E copy \in DOMAIN resultReady : Results!Deliver(r, copy)
    /\ UNCHANGED <<storeVars, tasksVars, announced, faults>>

(* The transaction commits and the handler returns nil.                    *)
Apply(r) ==
    /\ resultHand[r].stage = "handling"
    /\ HandleResult(Results!Held(r).body)
    /\ Results!Return(r, "none")
    /\ UNCHANGED <<tasksVars, announced, faults>>

\* Faulty variant: the task is completed outside the transaction that fails.
ApplyFailsHalfway(r) ==
    /\ resultHand[r].stage = "handling"
    /\ LET m == Results!Held(r).body
       IN  IF m.kind = "ok" /\ status[m.task] \notin Settled
           THEN /\ status' = [status EXCEPT ![m.task] = "done"]
                /\ result' = [result EXCEPT ![m.task] = m.value]
                /\ UNCHANGED <<exprVars, unmet, arg1, arg2, outboxVars, relayVars,
                               dispatched, reported>>
           ELSE UNCHANGED storeVars
    /\ Results!Return(r, "INTERNAL")
    /\ Spend(1)
    /\ UNCHANGED <<tasksVars, announced>>

(* The transaction fails, or commits without the answer coming back.  The  *)
(* repository returns the driver's error as it is, which is INTERNAL.      *)
ApplyFails(r) ==
    /\ resultHand[r].stage = "handling"
    /\ HandleResult(Results!Held(r).body) \/ UNCHANGED storeVars
    /\ Results!Return(r, "INTERNAL")
    /\ Spend(1)
    /\ UNCHANGED <<tasksVars, announced>>

(* No error of HandleResult is retryable, so nothing is ever parked and    *)
(* the retry queue of this flow stays empty.                               *)
ResultPolicy(r) ==
    /\ \/ \E outcome \in PublishOutcome : Results!Bury(r, outcome) /\ SpendOn(outcome)
       \/ (Results!Ack(r) \/ Results!Nack(r)) /\ Unspent
    /\ UNCHANGED <<storeVars, tasksVars, announced>>

ResultDisturbance ==
    /\ \/ \E r \in Replica : Results!Drop(r) \/ Results!Disconnect(r)
       \/ \E copy \in DOMAIN resultDead, outcome \in PublishOutcome : Results!Redrive(copy, outcome)
    /\ Spend(1)
    /\ UNCHANGED <<storeVars, tasksVars, announced>>

RunResults(r) == ResultTake(r) \/ Apply(r) \/ ResultPolicy(r)

-----------------------------------------------------------------------------
DeliveryNext ==
    \/ Client
    \/ \E r \in Replica : RunRelay(r) \/ StopRelay(r)
    \/ Prune
    \/ \E w \in Agent : RunAgent(w) \/ Cancel(w)
    \/ TaskBackoff \/ TaskDisturbance
    \/ \E r \in Replica : RunResults(r) \/ ApplyFails(r)
    \/ ResultDisturbance

(* Relays tick, workers and consumers loop until they are stopped, TTLs    *)
(* expire.  Nobody is obliged to submit, to prune or to redrive.           *)
DeliveryFairness ==
    /\ \A r \in Replica : WF_vars(RunRelay(r)) /\ WF_vars(RunResults(r))
    /\ \A w \in Agent : WF_vars(RunAgent(w))
    /\ WF_vars(TaskBackoff)

DeliverySpec == DeliveryInit /\ [][DeliveryNext]_vars /\ DeliveryFairness

-----------------------------------------------------------------------------
Message(t) == TaskBody(t, arg1[t], arg2[t])

(* A task that may run and is not settled is always on somebody's list: in *)
(* the outbox, in the tasks flow, or as a report in the results flow.      *)
StillDriven ==
    \A t \in Task : status[t] \in Runnable =>
        \/ \E row \in outbox : row.body = Message(t) /\ row.id \notin published
        \/ Tasks!Somewhere(Message(t))
        \/ \E m \in OutcomeReports(Message(t)) : Results!Somewhere(m)

(* What is in the queues came from the store and from the agents: the      *)
(* system is an implementation of the store's specification, in which any  *)
(* message ever sent may be handled at any time.                           *)
ImplementsStore == Spec

(* A dead task is one that never succeeds or that has used its attempts.   *)
DeadTasksEarned ==
    \A copy \in DOMAIN taskDead :
        OutcomeReports(copy.body) = {} \/ copy.attempt + 1 = MaxAttempts

Parked(e) == \/ \E copy \in DOMAIN taskDead : ExprOf[copy.body.task] = e
             \/ \E copy \in DOMAIN resultDead : ExprOf[copy.body.task] = e

(* Every accepted expression settles, or one of its messages waits in a    *)
(* dead-letter queue for an operator.                                      *)
EventuallySettled ==
    \A e \in Expr : exprStatus[e] \in Open ~> exprStatus[e] \in Settled \/ Parked(e)

(* "Transient failures ride the loop" (README): a report, which no handler *)
(* can reject for good, is dead only when its attempts are used up.        *)
TransientFailuresRide ==
    \A copy \in DOMAIN resultDead : copy.attempt + 1 = MaxAttempts
=============================================================================
