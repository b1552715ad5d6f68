----------------------------- MODULE AtLeastOnce -----------------------------
(***************************************************************************)
(* One flow with its producers, its operator and the faults around it, and *)
(* what pkg/rabbitmq guarantees its handler: a message the broker accepted *)
(* is handled, or it is in the dead-letter queue, or it is on its way to   *)
(* one of them, through lost confirms, crashed consumers, closed channels  *)
(* and redrives.  The handler is the extending module's (AuditIngest).     *)
(***************************************************************************)
EXTENDS Flow

CONSTANT MaxFaults     \* bound on faults and operator interventions

VARIABLES accepted,    \* bodies the broker accepted on the main exchange
          verdicts,    \* what handlers returned: pairs <<body, code>>
          faults       \* faults and interventions so far

vars == <<flowVars, accepted, verdicts, faults>>

Init == /\ FlowInit
        /\ accepted = {} /\ verdicts = {} /\ faults = 0

Spend(n) == faults' = faults + n /\ faults' <= MaxFaults
SpendOn(outcome) == Spend(IF outcome = "confirmed" THEN 0 ELSE 1)
Unspent == UNCHANGED faults
History == UNCHANGED <<accepted, verdicts>>

(* A producer publishes a message, or publishes it again because it does   *)
(* not know that it already has.                                           *)
Publish(b, outcome) ==
    /\ Enqueue(Copy(b, 0), outcome)
    /\ accepted' = IF outcome = "refused" THEN accepted ELSE accepted \cup {b}
    /\ Spend((IF outcome = "confirmed" THEN 0 ELSE 1) + (IF b \in accepted THEN 1 ELSE 0))
    /\ UNCHANGED verdicts

Take(c) == (\E copy \in DOMAIN ready : Deliver(c, copy)) /\ Unspent /\ History

(* The handler returns.                                                    *)
Handle(c, code) ==
    /\ Return(c, code)
    /\ verdicts' = verdicts \cup {<<Held(c).body, code>>}
    /\ UNCHANGED accepted

Dispatch(c) ==
    /\ \/ \E outcome \in PublishOutcome :
             (Park(c, outcome) \/ Bury(c, outcome)) /\ SpendOn(outcome)
       \/ (Ack(c) \/ Nack(c)) /\ Unspent
    /\ History

Backoff == (\E copy \in DOMAIN waiting : Expire(copy)) /\ Unspent /\ History

Operator == /\ \E copy \in DOMAIN dead, outcome \in PublishOutcome : Redrive(copy, outcome)
            /\ Spend(1) /\ History

-----------------------------------------------------------------------------
Handled(b) == <<b, "none">> \in verdicts

(* No accepted message vanishes before a handler succeeded on it: every    *)
(* ack follows a success or a confirmed copy elsewhere.                    *)
NothingLost == \A b \in accepted : Handled(b) \/ Somewhere(b)

(* A dead letter is there because a handler called it permanent or because *)
(* its attempts are used up; and no attempt is used up without a retryable *)
(* failure.                                                                *)
DeadLettersEarned ==
    /\ \A copy \in DOMAIN dead :
          \E code \in Code \ {"none"} :
             /\ <<copy.body, code>> \in verdicts
             /\ code \notin Retryable \/ copy.attempt + 1 = MaxAttempts
    /\ \A copy \in DOMAIN waiting :
          copy.attempt > 0 /\ \E code \in Retryable : <<copy.body, code>> \in verdicts

Drained == /\ ready = NoCopies /\ waiting = NoCopies
           /\ \A c \in Consumer : hand[c] = Idle
=============================================================================
