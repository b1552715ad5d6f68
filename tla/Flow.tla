-------------------------------- MODULE Flow --------------------------------
(***************************************************************************)
(* One RabbitMQ flow as pkg/rabbitmq declares and drives it: a main queue, *)
(* a retry queue whose messages return when their TTL expires, a           *)
(* dead-letter queue, and consumers that apply one policy to every         *)
(* delivery (Client.dispatch).                                             *)
(*                                                                         *)
(* A queue is a bag of copies: the order in which consumers see messages   *)
(* is left open, because redelivery and the retry queue destroy it anyway. *)
(* The module has no behaviour of its own: AtLeastOnce closes it with an   *)
(* arbitrary handler, Delivery with the real ones.                         *)
(***************************************************************************)
EXTENDS Integers, BagsExt

CONSTANTS Body,        \* message bodies
          Consumer,    \* goroutines that handle one delivery at a time
          MaxAttempts  \* ConsumeConfig.MaxAttempts

ASSUME AttemptsAssumption == MaxAttempts \in Nat \ {0}

VARIABLES ready,       \* the main queue F.q
          waiting,     \* the retry queue F.retry.q
          dead,        \* the dead-letter queue F.dlq
          hand         \* what each consumer is doing

flowVars == <<ready, waiting, dead, hand>>

Copy(b, n) == [body |-> b, attempt |-> n]

(* A consumer's stage is what it does next with its delivery: "handling",  *)
(* "park", "bury", "ack" or "nack".  It owns the delivery until the channel*)
(* closes: then the broker hands the copy to someone else while the        *)
(* consumer works on.                                                      *)
Idle    == [stage |-> "idle"]
Held(c) == hand[c].copy

NoCopies == [copy \in {} |-> 0]
FlowInit == /\ ready = NoCopies /\ waiting = NoCopies /\ dead = NoCopies
            /\ hand = [c \in Consumer |-> Idle]

(* How a confirmed publish may end: the broker has the message and said    *)
(* so, has it but the confirm was lost, or does not have it.               *)
PublishOutcome == {"confirmed", "unconfirmed", "refused"}
Accept(queue, copy, outcome) ==
    IF outcome = "refused" THEN queue ELSE BagAdd(queue, copy)

-----------------------------------------------------------------------------
(* apperrors: the classes of handler results, and those safe to retry.     *)
Code      == {"none", "UNAVAILABLE", "RATE_LIMITED", "OVERLOADED", "INVALID_INPUT",
              "NOT_FOUND", "CONFLICT", "DIVISION_BY_ZERO", "INTERNAL"}
Retryable == {"UNAVAILABLE", "RATE_LIMITED", "OVERLOADED"}

\* Faulty variant: no retry loop.
RouteNoRetry(code, attempt) == IF code = "none" THEN "ack" ELSE "bury"

(* dispatch: nil acks, a retryable error with attempts left parks a copy,  *)
(* everything else is dead-lettered.                                       *)
Route(code, attempt) ==
    IF code = "none" THEN "ack"
    ELSE IF code \in Retryable /\ attempt + 1 < MaxAttempts THEN "park" ELSE "bury"

-----------------------------------------------------------------------------
(* ACTION: Enqueue.   WHO: Publisher.Publish to the flow's exchange        *)
Enqueue(copy, outcome) ==
    /\ ready' = Accept(ready, copy, outcome)
    /\ UNCHANGED <<waiting, dead, hand>>

(* ACTION: Deliver.   WHO: the broker, to a consumer with room             *)
Deliver(c, copy) ==
    /\ hand[c] = Idle
    /\ copy \in DOMAIN ready
    /\ ready' = BagRemove(ready, copy)
    /\ hand' = [hand EXCEPT ![c] = [stage |-> "handling", copy |-> copy, owned |-> TRUE]]
    /\ UNCHANGED <<waiting, dead>>

(* ACTION: Return.   WHO: dispatch, when the handler returns               *)
Return(c, code) ==
    /\ hand[c].stage = "handling"
    /\ hand' = [hand EXCEPT ![c].stage = Route(code, Held(c).attempt)]
    /\ UNCHANGED <<ready, waiting, dead>>

(* ACTION: Shed.   WHO: consumeOnce, when the pool no longer accepts work  *)
Shed(c) ==
    /\ hand[c].stage = "handling"
    /\ hand' = [hand EXCEPT ![c].stage = "nack"]
    /\ UNCHANGED <<ready, waiting, dead>>

AfterPublish(outcome) == IF outcome = "confirmed" THEN "ack" ELSE "nack"

\* Faulty variant: the delivery is acked before its retry copy is confirmed.
ParkThenAck(c, outcome) ==
    /\ hand[c].stage = "park"
    /\ waiting' = Accept(waiting, Copy(Held(c).body, Held(c).attempt + 1), outcome)
    /\ hand' = [hand EXCEPT ![c].stage = "ack"]
    /\ UNCHANGED <<ready, dead>>

(* ACTION: Park.   WHO: dispatch, PublishRetry                             *)
(* A copy with the next attempt number waits out its backoff.              *)
Park(c, outcome) ==
    /\ hand[c].stage = "park"
    /\ waiting' = Accept(waiting, Copy(Held(c).body, Held(c).attempt + 1), outcome)
    /\ hand' = [hand EXCEPT ![c].stage = AfterPublish(outcome)]
    /\ UNCHANGED <<ready, dead>>

(* ACTION: Bury.   WHO: dispatch, PublishDLQ                               *)
Bury(c, outcome) ==
    /\ hand[c].stage = "bury"
    /\ dead' = Accept(dead, Held(c), outcome)
    /\ hand' = [hand EXCEPT ![c].stage = AfterPublish(outcome)]
    /\ UNCHANGED <<ready, waiting>>

(* ACTION: Ack.   WHO: dispatch; on a dead channel it has no effect        *)
Ack(c) ==
    /\ hand[c].stage = "ack"
    /\ hand' = [hand EXCEPT ![c] = Idle]
    /\ UNCHANGED <<ready, waiting, dead>>

Returned(c) == IF hand[c].owned THEN BagAdd(ready, Held(c)) ELSE ready

\* Faulty variant: nack without requeue.
NackDiscard(c) ==
    /\ hand[c].stage = "nack"
    /\ hand' = [hand EXCEPT ![c] = Idle]
    /\ UNCHANGED <<ready, waiting, dead>>

(* ACTION: Nack.   WHO: dispatch and consumeOnce, requeue = true           *)
Nack(c) ==
    /\ hand[c].stage = "nack"
    /\ ready' = Returned(c)
    /\ hand' = [hand EXCEPT ![c] = Idle]
    /\ UNCHANGED <<waiting, dead>>

(* ACTION: Drop.   WHO: a crash of the consumer's process                  *)
Drop(c) ==
    /\ hand[c] # Idle
    /\ ready' = Returned(c)
    /\ hand' = [hand EXCEPT ![c] = Idle]
    /\ UNCHANGED <<waiting, dead>>

(* ACTION: Disconnect.   WHO: the channel or the connection closes         *)
(* The broker requeues what was unacknowledged; the handler runs on.       *)
Disconnect(c) ==
    /\ hand[c] # Idle
    /\ hand[c].owned
    /\ ready' = Returned(c)
    /\ hand' = [hand EXCEPT ![c].owned = FALSE]
    /\ UNCHANGED <<waiting, dead>>

(* ACTION: Expire.   WHO: the broker, TTL of a parked copy                 *)
Expire(copy) ==
    /\ copy \in DOMAIN waiting
    /\ waiting' = BagRemove(waiting, copy)
    /\ ready' = BagAdd(ready, copy)
    /\ UNCHANGED <<dead, hand>>

(* ACTION: Redrive.   WHO: RequeueDLQ, on an operator's request            *)
(* The attempt counter starts again; without a confirm the dead letter     *)
(* stays where it is.                                                      *)
Redrive(copy, outcome) ==
    /\ copy \in DOMAIN dead
    /\ ready' = Accept(ready, Copy(copy.body, 0), outcome)
    /\ dead' = IF outcome = "confirmed" THEN BagRemove(dead, copy) ELSE dead
    /\ UNCHANGED <<waiting, hand>>

-----------------------------------------------------------------------------
Queued == DOMAIN ready \cup DOMAIN waiting \cup DOMAIN dead
Unacked == {Held(c) : c \in {c \in Consumer : hand[c] # Idle /\ hand[c].owned}}

(* The broker still has a copy of b, queued or handed out.                 *)
Somewhere(b) == \E copy \in Queued \cup Unacked : copy.body = b
Buried(b)    == \E copy \in DOMAIN dead : copy.body = b
=============================================================================
