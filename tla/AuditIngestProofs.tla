-------------------------- MODULE AuditIngestProofs --------------------------
(***************************************************************************)
(* Proofs about the audit service's write path: what was accepted is not   *)
(* lost, what is dead is dead for a reason, what was acknowledged is       *)
(* stored, and no caller is forgotten in the batcher's pipeline.           *)
(***************************************************************************)
EXTENDS FiniteSets, AuditIngest, FlowFacts, FiniteSetTheorems

-----------------------------------------------------------------------------
(* The audit flow as module FlowFacts sees it.                             *)
Attempts  == 0 .. MaxAttempts - 1
AuditCopy == [body : Body, attempt : Attempts]
AuditFlow == [ready |-> DOMAIN ready, waiting |-> DOMAIN waiting,
              dead |-> DOMAIN dead, hand |-> hand]
AuditTypes == Typed(AuditFlow, Consumer, AuditCopy)

(* What was accepted is handled, or kept.                                  *)
AcceptedKept == \A b \in accepted : Handled(b) \/ Kept(AuditFlow, Consumer, b)

(* A dead or dying copy has the verdict that condemned it, a parked one    *)
(* the verdict that spared it.                                             *)
Condemned(copy) ==
    \E code \in Code \ {"none"} :
       /\ <<copy.body, code>> \in verdicts
       /\ code \notin Retryable \/ copy.attempt + 1 = MaxAttempts
Spared(copy) ==
    copy.attempt > 0 /\ \E code \in Retryable : <<copy.body, code>> \in verdicts
DoomEarned     == \A copy \in Doomed(AuditFlow, Consumer) : Condemned(copy)
DeferralEarned == \A copy \in Deferred(AuditFlow, Consumer) : Spared(copy)

FlowInv == AuditTypes /\ AcceptedKept /\ DoomEarned /\ DeferralEarned

-----------------------------------------------------------------------------
(* The actions of the audit flow are steps of module FlowFacts.            *)
LEMMA AuditBags ==
  ASSUME NEW q, NEW copy
  PROVE  /\ Added(DOMAIN q, DOMAIN BagAdd(q, copy), copy)
         /\ copy \in DOMAIN q =>
               Lessened(DOMAIN q, DOMAIN BagRemove(q, copy), copy)
BY DEF BagAdd, BagRemove, Added, Lessened

LEMMA AuditAccept ==
  ASSUME NEW q, NEW copy, NEW outcome
  PROVE  IF outcome = "refused" THEN Accept(q, copy, outcome) = q
         ELSE Added(DOMAIN q, DOMAIN Accept(q, copy, outcome), copy)
BY AuditBags DEF Accept

LEMMA AuditEnqueued ==
  ASSUME NEW copy, NEW outcome, Enqueue(copy, outcome)
  PROVE  IF outcome = "refused" THEN AuditFlow' = AuditFlow
         ELSE Arrive(AuditFlow, AuditFlow', copy) /\ copy \in DOMAIN ready'
<1>1. /\ ready' = Accept(ready, copy, outcome)
      /\ UNCHANGED <<waiting, dead, hand>>
  BY DEF Enqueue
<1>2. IF outcome = "refused" THEN ready' = ready
      ELSE Added(DOMAIN ready, DOMAIN ready', copy)
  BY <1>1, AuditAccept
<1> QED
  BY <1>1, <1>2 DEF Arrive, Added, AuditFlow

LEMMA AuditReturned ==
  ASSUME NEW c, NEW code, Return(c, code)
  PROVE  /\ hand[c].stage = "handling"
         /\ Decide(AuditFlow, AuditFlow', c, Route(code, Held(c).attempt))
BY DEF Return, Decide, Restage, AuditFlow, Stage

LEMMA AuditHop ==
  ASSUME AuditTypes, NEW c \in Consumer,
         \/ \E copy \in DOMAIN ready : Deliver(c, copy)
         \/ \E outcome : Park(c, outcome) \/ Bury(c, outcome)
         \/ Ack(c) \/ Nack(c) \/ Shed(c)
         \/ Drop(c) \/ Disconnect(c)
  PROVE  Hop(AuditFlow, AuditFlow', c)
<1>1. /\ Idle = AtRest /\ AtRest.stage = "idle"
      /\ AuditFlow.hand = hand /\ AuditFlow'.hand = hand'
  BY DEF Idle, AtRest, AuditFlow
<1>2. hand[c] # AtRest => hand[c].stage \in Stage
  BY DEF AuditTypes, Typed, HandsTyped, AuditFlow, Busy
<1>3. ASSUME NEW copy \in DOMAIN ready, Deliver(c, copy)
      PROVE  Deliver1(AuditFlow, AuditFlow', c)
  BY <1>1, <1>3, AuditBags DEF Deliver, Deliver1, AuditFlow
<1>4. ASSUME NEW outcome, Park(c, outcome) PROVE Park1(AuditFlow, AuditFlow', c)
  <2>1. Copy(Held(c).body, Held(c).attempt + 1) = Again(hand[c].copy)
    BY DEF Copy, Held, Again
  <2>2. /\ hand[c].stage = "park" /\ hand[c].stage \in Stage
        /\ waiting' = Accept(waiting, Again(hand[c].copy), outcome)
        /\ hand' = [hand EXCEPT ![c].stage =
                               IF outcome = "confirmed" THEN "ack" ELSE "nack"]
        /\ UNCHANGED <<ready, dead>>
    BY <1>4, <2>1 DEF Park, AfterPublish, Stage
  <2>3. \/ outcome = "refused" /\ waiting' = waiting
        \/ /\ outcome # "refused"
           /\ Added(DOMAIN waiting, DOMAIN waiting', Again(hand[c].copy))
    BY <2>2, AuditAccept
  <2> QED
    BY <2>2, <2>3 DEF Park1, Restage, AuditFlow
<1>5. ASSUME NEW outcome, Bury(c, outcome) PROVE Bury1(AuditFlow, AuditFlow', c)
  <2>1. /\ hand[c].stage = "bury" /\ hand[c].stage \in Stage
        /\ dead' = Accept(dead, hand[c].copy, outcome)
        /\ hand' = [hand EXCEPT ![c].stage =
                               IF outcome = "confirmed" THEN "ack" ELSE "nack"]
        /\ UNCHANGED <<ready, waiting>>
    BY <1>5 DEF Bury, AfterPublish, Held, Stage
  <2>2. \/ outcome = "refused" /\ dead' = dead
        \/ outcome # "refused" /\ Added(DOMAIN dead, DOMAIN dead', hand[c].copy)
    BY <2>1, AuditAccept
  <2> QED
    BY <2>1, <2>2 DEF Bury1, Restage, AuditFlow
<1>6. ASSUME Ack(c) PROVE Settle1(AuditFlow, AuditFlow', c)
  BY <1>1, <1>6 DEF Ack, Settle1, Rest, AuditFlow
<1>7. ASSUME Shed(c) PROVE Decide(AuditFlow, AuditFlow', c, "nack")
  BY <1>7 DEF Shed, Decide, Restage, Stage, AuditFlow
<1>8. ASSUME Nack(c) \/ Drop(c) \/ Disconnect(c)
      PROVE  Release(AuditFlow, AuditFlow', c)
  <2>1. hand[c].stage \in Stage
    BY <1>1, <1>2, <1>8 DEF Nack, Drop, Disconnect, Stage
  <2>2. IF hand[c].owned THEN Added(DOMAIN ready, DOMAIN ready', hand[c].copy)
                            ELSE ready' = ready
    BY <1>8, AuditBags
       DEF Nack, Drop, Disconnect, Returned, Held
  <2>3. \/ hand' = [hand EXCEPT ![c] = AtRest]
        \/ hand' = [hand EXCEPT ![c].owned = FALSE]
    BY <1>1, <1>8 DEF Nack, Drop, Disconnect
  <2>4. UNCHANGED <<waiting, dead>>
    BY <1>8 DEF Nack, Drop, Disconnect
  <2> QED
    BY <2>1, <2>2, <2>3, <2>4 DEF Release, Rest, AuditFlow
<1> QED
  BY <1>3, <1>4, <1>5, <1>6, <1>7, <1>8 DEF Hop

LEMMA AuditMove ==
  ASSUME \/ \E copy \in DOMAIN waiting : Expire(copy)
         \/ \E copy \in DOMAIN dead, outcome \in PublishOutcome :
               Redrive(copy, outcome)
  PROVE  Move(AuditFlow, AuditFlow')
<1>1. ASSUME NEW copy \in DOMAIN waiting, Expire(copy)
      PROVE  Move(AuditFlow, AuditFlow')
  BY <1>1, AuditBags DEF Expire, Move, AuditFlow
<1>2. ASSUME NEW copy \in DOMAIN dead, NEW outcome \in PublishOutcome,
             Redrive(copy, outcome)
      PROVE  Move(AuditFlow, AuditFlow')
  <2>1. Copy(copy.body, 0) = Afresh(copy)
    BY DEF Copy, Afresh
  <2>2. IF outcome = "refused" THEN ready' = ready
        ELSE Added(DOMAIN ready, DOMAIN ready', Afresh(copy))
    BY <1>2, <2>1, AuditAccept DEF Redrive
  <2>3. IF outcome = "confirmed" THEN Lessened(DOMAIN dead, DOMAIN dead', copy)
                                 ELSE dead' = dead
    BY <1>2, AuditBags DEF Redrive
  <2>4. UNCHANGED <<waiting, hand>>
    BY <1>2 DEF Redrive
  <2> QED
    BY <2>2, <2>3, <2>4 DEF Move, AuditFlow
<1> QED
  BY <1>1, <1>2

-----------------------------------------------------------------------------
(* What a step of the service is for the audit flow: nothing, the arrival  *)
(* of an event, the decision of a handler, or one of the steps no handler  *)
(* decides.                                                                *)
Quiet    == UNCHANGED <<flowVars, accepted, verdicts>>
Arrived  == \E b \in Body :
               /\ Arrive(AuditFlow, AuditFlow', Copy(b, 0))
               /\ accepted' \subseteq accepted \cup {b}
               /\ b \in accepted' \ accepted => Kept(AuditFlow', Consumer, b)
               /\ verdicts' = verdicts
HandlerReturns == \E c \in Consumer, code \in Code : Handle(c, code)
Moved    == /\ Move(AuditFlow, AuditFlow') \/ \E c \in Consumer : Hop(AuditFlow, AuditFlow', c)
            /\ UNCHANGED <<accepted, verdicts>>
FlowStep == Quiet \/ Arrived \/ HandlerReturns \/ Moved

LEMMA QuietVars ==
  /\ UNCHANGED vars => Quiet
  /\ UNCHANGED <<flowVars, accepted, verdicts>> => Quiet
  /\ UNCHANGED auditVars => Quiet
BY DEF vars, auditVars, Quiet

LEMMA LeaveFlow ==
  ASSUME NEW c, NEW code \in Code, Leave(c, code)
  PROVE  Quiet \/ HandlerReturns
BY DEF Leave, ReturnToConsumer, ReturnToWriter, Quiet, HandlerReturns

LEMMA IngestFlow ==
  ASSUME NEW c, Ingest(c)
  PROVE  Quiet \/ HandlerReturns
<1>1. {"none", "INTERNAL", "UNAVAILABLE", "OVERLOADED"} \subseteq Code
  BY DEF Code
<1>2. CASE TakeSlot(c)
  BY <1>1, <1>2, LeaveFlow, QuietVars DEF TakeSlot
<1>3. CASE Dedup(c)
  BY <1>1, <1>3, LeaveFlow DEF Dedup, Quiet
<1>4. CASE HandOver(c)
  BY <1>4, QuietVars DEF HandOver
<1>5. CASE Answered(c)
  BY <1>1, <1>5, LeaveFlow DEF Answered
<1>6. CASE GiveUp(c)
  BY <1>1, <1>6, LeaveFlow DEF GiveUp
<1>7. CASE SlotWaitCancelled(c)
  BY <1>1, <1>7, LeaveFlow DEF SlotWaitCancelled
<1> QED
  BY <1>2, <1>3, <1>4, <1>5, <1>6, <1>7 DEF Ingest

LEMMA PublishFlow ==
  ASSUME NEW b \in Body, NEW outcome, Publish(b, outcome)
  PROVE  Quiet \/ Arrived
<1>1. Enqueue(Copy(b, 0), outcome) /\ verdicts' = verdicts
  BY DEF Publish
<1>2. CASE outcome = "refused"
  BY <1>1, <1>2 DEF Publish, Enqueue, Accept, Quiet, flowVars
<1>3. CASE outcome # "refused"
  <2>1. /\ Arrive(AuditFlow, AuditFlow', Copy(b, 0))
        /\ Copy(b, 0) \in DOMAIN ready'
    BY <1>1, <1>3, AuditEnqueued
  <2>2. Kept(AuditFlow', Consumer, b)
    BY <2>1 DEF Kept, AuditFlow, Copy
  <2>3. accepted' = accepted \cup {b}
    BY <1>3 DEF Publish
  <2> QED
    BY <1>1, <2>1, <2>2, <2>3 DEF Arrived
<1> QED
  BY <1>2, <1>3

LEMMA DeliveriesFlow ==
  ASSUME AuditTypes, NEW c \in Consumer,
         Deliveries(c) \/ ChannelLost(c) \/ ChannelCloses(c) \/ TakeBack(c)
  PROVE  FlowStep
<1>1. CASE Take(c)
  BY <1>1, AuditHop DEF Take, History, Moved, FlowStep
<1>2. CASE Dispatch(c)
  BY <1>2, AuditHop DEF Dispatch, History, Moved, FlowStep
<1>3. CASE ConsumerEnters(c)
  BY <1>3, QuietVars DEF ConsumerEnters, FlowStep
<1>4. CASE Ingest(c)
  BY <1>4, IngestFlow DEF FlowStep
<1>5. CASE ChannelLost(c) \/ ChannelCloses(c) \/ TakeBack(c)
  BY <1>5, AuditHop DEF ChannelLost, ChannelCloses, TakeBack, Moved, FlowStep
<1> QED
  BY <1>1, <1>2, <1>3, <1>4, <1>5 DEF Deliveries

LEMMA AuditStepOfFlow ==
  ASSUME AuditTypes, [AuditNext]_auditVars
  PROVE  FlowStep
<1>1. ASSUME NEW b \in Body, NEW outcome \in PublishOutcome, Publish(b, outcome)
      PROVE  FlowStep
  BY <1>1, PublishFlow DEF FlowStep
<1>2. ASSUME NEW c \in Consumer,
             Deliveries(c) \/ ChannelLost(c) \/ ChannelCloses(c) \/ TakeBack(c)
      PROVE  FlowStep
  BY <1>2, DeliveriesFlow
<1>3. ASSUME NEW w \in Writer, WriterEnters(w) \/ Ingest(w)
      PROVE  FlowStep
  BY <1>3, IngestFlow DEF WriterEnters, Quiet, FlowStep
<1>4. CASE Backoff \/ Operator
  <2>1. Move(AuditFlow, AuditFlow') /\ UNCHANGED <<accepted, verdicts>>
    BY <1>4, AuditMove DEF Backoff, Operator, History
  <2> QED
    BY <2>1 DEF Moved, FlowStep
<1>5. CASE Loop \/ Cancel \/ CloseIngestor \/ Exit \/ Restart \/ Expired
  BY <1>5 DEF Loop, Flush, InsertBatch, MarkSeen, Cancel, CloseIngestor, Exit, Restart, Expired,
     Quiet, FlowStep, vars
<1>6. CASE UNCHANGED auditVars
  BY <1>6, QuietVars DEF FlowStep
<1> QED
  BY <1>1, <1>2, <1>3, <1>4, <1>5, <1>6 DEF AuditNext

-----------------------------------------------------------------------------
(* What the handler decides is what its verdict deserves.                  *)
LEMMA AuditHeld ==
  ASSUME AuditTypes, NEW c \in Consumer, hand[c].stage \in Stage
  PROVE  /\ Held(c) \in AuditCopy /\ hand[c].copy = Held(c)
         /\ Held(c).attempt \in Attempts /\ Held(c).body \in Body
<1>1. AuditFlow.hand = hand
  BY DEF AuditFlow
<1>2. hand[c] \in Busy(AuditCopy)
  BY <1>1, HandOf DEF AuditTypes
<1> QED
  BY <1>2 DEF Busy, AuditCopy, Held

LEMMA HandlerDecides ==
  ASSUME AuditTypes, NEW c \in Consumer, NEW code \in Code, Handle(c, code),
         NEW copy, copy = Held(c)
  PROVE  \E s \in Stage :
            /\ Decide(AuditFlow, AuditFlow', c, s)
            /\ s = "ack"  => Handled(copy.body)'
            /\ s = "park" => Again(copy) \in AuditCopy /\ Spared(Again(copy))'
            /\ s = "bury" => Condemned(copy)'
<1> DEFINE s == Route(code, copy.attempt)
<1>1. /\ hand[c].stage = "handling" /\ Decide(AuditFlow, AuditFlow', c, s)
      /\ <<copy.body, code>> \in verdicts'
  BY AuditReturned DEF Handle
<1>2. copy.attempt \in 0 .. MaxAttempts - 1 /\ copy \in AuditCopy
  BY <1>1, AuditHeld DEF Stage, Attempts
<1>3. s \in Stage
  BY DEF Route, Stage
<1>4. s = "ack" => Handled(copy.body)'
  BY <1>1 DEF Route, Handled
<1>5. s = "park" => Again(copy) \in AuditCopy /\ Spared(Again(copy))'
  <2>1. s = "park" => code \in Retryable /\ copy.attempt + 1 < MaxAttempts
    BY DEF Route
  <2>2. s = "park" => copy.attempt + 1 \in 1 .. MaxAttempts - 1
    BY <1>2, <2>1, AttemptsAssumption
  <2>3. s = "park" => Again(copy) \in AuditCopy
    BY <1>2, <2>2 DEF Again, AuditCopy, Attempts
  <2> QED
    BY <1>1, <2>1, <2>2, <2>3 DEF Again, Spared
<1>6. s = "bury" => Condemned(copy)'
  <2>1. s = "bury" => /\ code \in Code \ {"none"}
                      /\ code \notin Retryable \/ copy.attempt + 1 = MaxAttempts
    BY <1>2, AttemptsAssumption DEF Route
  <2> QED
    BY <1>1, <2>1 DEF Condemned
<1> QED
  BY <1>1, <1>3, <1>4, <1>5, <1>6

(* Verdicts are only ever added, so what is earned stays earned.           *)
LEMMA VerdictsStay ==
  ASSUME verdicts \subseteq verdicts'
  PROVE  /\ \A b : Handled(b) => Handled(b)'
         /\ \A copy : Condemned(copy) => Condemned(copy)'
         /\ \A copy : Spared(copy) => Spared(copy)'
BY DEF Handled, Condemned, Spared

LEMMA FlowSteps ==
  ASSUME FlowInv, FlowStep
  PROVE  FlowInv'
<1>1. AuditCopy' = AuditCopy /\ \A b \in Body : Copy(b, 0) \in AuditCopy
  BY AttemptsAssumption DEF AuditCopy, Attempts, Copy
<1>2. \A copy \in AuditCopy : Afresh(copy) \in AuditCopy
  BY AttemptsAssumption DEF AuditCopy, Attempts, Afresh
<1>3. /\ Typed(AuditFlow, Consumer, AuditCopy)
      /\ \A b \in accepted : Handled(b) \/ Kept(AuditFlow, Consumer, b)
      /\ \A copy \in Doomed(AuditFlow, Consumer) : Condemned(copy)
      /\ \A copy \in Deferred(AuditFlow, Consumer) : Spared(copy)
  BY DEF FlowInv, AuditTypes, AcceptedKept, DoomEarned, DeferralEarned
<1>4. verdicts \subseteq verdicts'
  BY DEF FlowStep, Quiet, Arrived, HandlerReturns, Moved, Handle
<1>5. ASSUME Sound(AuditFlow, AuditFlow', Consumer, AuditCopy),
             \A b \in accepted' \ accepted : Kept(AuditFlow', Consumer, b)
      PROVE  FlowInv'
  BY <1>1, <1>3, <1>4, <1>5, VerdictsStay
     DEF Sound, FlowInv, AuditTypes, AcceptedKept, DoomEarned, DeferralEarned
<1>6. CASE Quiet
  <2>1. AuditFlow' = AuditFlow /\ accepted' = accepted
    BY <1>6 DEF Quiet, flowVars, AuditFlow
  <2>2. Sound(AuditFlow, AuditFlow', Consumer, AuditCopy)
    BY <1>3, <2>1 DEF Sound
  <2> QED
    BY <1>5, <2>1, <2>2
<1>7. CASE Arrived
  <2>1. PICK b \in Body :
               /\ Arrive(AuditFlow, AuditFlow', Copy(b, 0))
               /\ accepted' \subseteq accepted \cup {b}
               /\ b \in accepted' \ accepted => Kept(AuditFlow', Consumer, b)
    BY <1>7 DEF Arrived
  <2>2. Sound(AuditFlow, AuditFlow', Consumer, AuditCopy)
    BY <1>1, <1>3, <2>1, ArriveSound
  <2> QED
    BY <1>5, <2>1, <2>2
<1>8. CASE Moved
  <2>1. Sound(AuditFlow, AuditFlow', Consumer, AuditCopy) /\ accepted' = accepted
    BY <1>2, <1>3, <1>8, MoveSound, HopSound DEF Moved
  <2> QED
    BY <1>5, <2>1
<1>9. CASE HandlerReturns
  <2>1. PICK c \in Consumer, code \in Code : Handle(c, code)
    BY <1>9 DEF HandlerReturns
  <2>2. PICK copy : copy = Held(c)
    OBVIOUS
  <2>3. PICK s \in Stage :
               /\ Decide(AuditFlow, AuditFlow', c, s)
               /\ s = "ack"  => Handled(copy.body)'
               /\ s = "park" => Again(copy) \in AuditCopy /\ Spared(Again(copy))'
               /\ s = "bury" => Condemned(copy)'
    BY <2>1, <2>2, HandlerDecides DEF FlowInv
  <2>4. accepted' = accepted /\ AuditFlow.hand[c].copy = copy
    BY <2>1, <2>2 DEF Handle, AuditFlow, Held
  <2>5. /\ Typed(AuditFlow', Consumer, AuditCopy)
        /\ \A b : Kept(AuditFlow, Consumer, b) => \/ Kept(AuditFlow', Consumer, b)
                                                  \/ s = "ack" /\ b = copy.body
        /\ Doomed(AuditFlow', Consumer) \subseteq
              Doomed(AuditFlow, Consumer) \cup (IF s = "bury" THEN {copy} ELSE {})
        /\ Deferred(AuditFlow', Consumer) \subseteq
              Deferred(AuditFlow, Consumer) \cup (IF s = "park" THEN {Again(copy)} ELSE {})
    BY <1>3, <2>3, <2>4, DecideSound
  <2>6. AuditTypes' /\ AcceptedKept'
    BY <1>1, <1>3, <1>4, <2>3, <2>4, <2>5, VerdictsStay DEF AuditTypes, AcceptedKept
  <2>7. DoomEarned'
    BY <1>3, <1>4, <2>3, <2>5, VerdictsStay DEF DoomEarned
  <2>8. DeferralEarned'
    BY <1>3, <1>4, <2>3, <2>5, VerdictsStay DEF DeferralEarned
  <2> QED
    BY <2>6, <2>7, <2>8 DEF FlowInv
<1> QED
  BY <1>6, <1>7, <1>8, <1>9 DEF FlowStep

LEMMA FlowInvariant == AuditSpec => []FlowInv
<1>1. AuditInit => FlowInv
  <2> SUFFICES ASSUME AuditInit PROVE FlowInv
    OBVIOUS
  <2>1. /\ DOMAIN ready = {} /\ DOMAIN waiting = {} /\ DOMAIN dead = {}
        /\ hand = [c \in Consumer |-> AtRest] /\ accepted = {} /\ verdicts = {}
    BY DEF AuditInit, Init, FlowInit, NoCopies, Idle, AtRest
  <2>2. AuditTypes
    BY <2>1 DEF AuditTypes, Typed, HandsTyped, AuditFlow, AtRest
  <2>3. Doomed(AuditFlow, Consumer) = {} /\ Deferred(AuditFlow, Consumer) = {}
    BY <2>1 DEF Doomed, Deferred, AuditFlow, AtRest
  <2> QED
    BY <2>1, <2>2, <2>3 DEF FlowInv, AcceptedKept, DoomEarned, DeferralEarned
<1>2. FlowInv /\ [AuditNext]_auditVars => FlowInv'
  BY AuditStepOfFlow, FlowSteps DEF FlowInv
<1> QED
  BY <1>1, <1>2, PTL DEF AuditSpec

-----------------------------------------------------------------------------
(* An event the broker accepted was handled with success, or the broker    *)
(* still has a copy of it: the deliveries of AuditIngest keep the promise  *)
(* of AtLeastOnce for every number of consumers, attempts and faults.      *)
THEOREM AcceptedEventsSurvive == AuditSpec => []NothingLost
<1>1. ASSUME NEW b, Kept(AuditFlow, Consumer, b) PROVE Somewhere(b)
  BY <1>1 DEF Kept, Firm, Stage, AuditFlow, Somewhere, Queued, Unacked, Held, Idle
<1>2. FlowInv => NothingLost
  BY <1>1 DEF FlowInv, AcceptedKept, NothingLost
<1> QED
  BY <1>2, FlowInvariant, PTL

(* Every dead letter has a verdict that condemned it, every parked copy a  *)
(* retryable one: dispatch never buries or parks on its own account.       *)
THEOREM DeadEventsAreEarned == AuditSpec => []DeadLettersEarned
<1>1. FlowInv => DeadLettersEarned
  BY DEF FlowInv, DoomEarned, DeferralEarned, Condemned, Spared, Doomed, Deferred, AuditFlow,
     DeadLettersEarned
<1> QED
  BY <1>1, FlowInvariant, PTL
-----------------------------------------------------------------------------
(* The batcher's pipeline, from its old end to its new one, as one         *)
(* sequence: what a swap, a chunk, an insert and an answer do to it is to  *)
(* take items off its front; a producer appends to it, one that gives up   *)
(* lets go of its item.                                                    *)
Entry    == [event : Event, owner : Caller \cup {Nobody}]
Line(s, t, u) == s \o t \o u
Pipeline == Line(marking, batch, active)

Shift(p, q, k) ==
    k \in 0 .. Len(p) /\ Len(q) = Len(p) - k /\ \A i \in 1 .. Len(q) : q[i] = p[i + k]
Joined(p, q, item) ==
    /\ Len(q) = Len(p) + 1 /\ q[Len(q)] = item
    /\ \A i \in 1 .. Len(p) : q[i] = p[i]
Released(p, q, c) ==
    /\ Len(q) = Len(p)
    /\ \A i \in 1 .. Len(p) : q[i] = IF p[i].owner = c THEN [p[i] EXCEPT !.owner = Nobody]
                                                       ELSE p[i]

(* p is the items of s, t and u, in this order.                            *)
Lists(p, s, t, u) ==
    /\ Len(s) \in Nat /\ Len(t) \in Nat /\ Len(u) \in Nat
    /\ Len(p) = Len(s) + Len(t) + Len(u)
    /\ \A i \in 1 .. Len(p) : p[i] = IF i <= Len(s) THEN s[i]
                                     ELSE IF i <= Len(s) + Len(t) THEN t[i - Len(s)]
                                     ELSE u[i - (Len(s) + Len(t))]

LEMMA LineLists ==
  ASSUME NEW S, NEW s \in Seq(S), NEW t \in Seq(S), NEW u \in Seq(S)
  PROVE  Line(s, t, u) \in Seq(S) /\ Lists(Line(s, t, u), s, t, u)
BY DEF Line, Lists

LEMMA SwapShifts ==
  ASSUME NEW S, NEW s \in Seq(S), NEW u \in Seq(S)
  PROVE  Shift(Line(s, <<>>, u), Line(s, u, <<>>), 0)
BY DEF Line, Shift

(* The front k items of the batch are moved to the front of the pipeline,  *)
(* or leave it.                                                            *)
LEMMA SegmentShifts ==
  ASSUME NEW t, NEW u, NEW none, NEW front, NEW back, NEW p, NEW q, NEW r,
         NEW k \in 0 .. Len(t), Len(t) \in Nat, Len(u) \in Nat,
         Len(none) = 0, Len(front) = k, Len(back) = Len(t) - k,
         \A i \in 1 .. k : front[i] = t[i],
         \A i \in 1 .. Len(t) - k : back[i] = t[i + k],
         Lists(p, none, t, u), Lists(q, front, back, u), Lists(r, none, back, u)
  PROVE  Shift(p, q, 0) /\ Shift(p, r, k)
<1>1. Len(p) = Len(t) + Len(u) /\ Len(q) = Len(t) + Len(u) /\ Len(r) = Len(t) + Len(u) - k
  BY DEF Lists
<1>2. \A i \in 1 .. Len(p) : p[i] = IF i <= Len(t) THEN t[i] ELSE u[i - Len(t)]
  BY DEF Lists
<1>3. \A i \in 1 .. Len(q) : q[i] = IF i <= Len(t) THEN t[i] ELSE u[i - Len(t)]
  <2> SUFFICES ASSUME NEW i \in 1 .. Len(q)
               PROVE  q[i] = IF i <= Len(t) THEN t[i] ELSE u[i - Len(t)]
    OBVIOUS
  <2>1. q[i] = IF i <= k THEN front[i] ELSE IF i <= Len(t) THEN back[i - k] ELSE u[i - Len(t)]
    BY DEF Lists
  <2>2. ~(i <= k) /\ i <= Len(t) => back[i - k] = t[(i - k) + k] /\ (i - k) + k = i
    BY <1>1
  <2>3. i <= k => front[i] = t[i]
    BY <1>1
  <2> QED
    BY <2>1, <2>2, <2>3
<1>4. \A i \in 1 .. Len(r) : r[i] = IF i + k <= Len(t) THEN t[i + k] ELSE u[(i + k) - Len(t)]
  <2> SUFFICES ASSUME NEW i \in 1 .. Len(r)
               PROVE  r[i] = IF i + k <= Len(t) THEN t[i + k] ELSE u[(i + k) - Len(t)]
    OBVIOUS
  <2>1. r[i] = IF i <= Len(t) - k THEN back[i] ELSE u[i - (Len(t) - k)]
    BY DEF Lists
  <2>2. i <= Len(t) - k => back[i] = t[i + k]
    BY <1>1
  <2>3. i - (Len(t) - k) = (i + k) - Len(t) /\ (i <= Len(t) - k <=> i + k <= Len(t))
    BY <1>1
  <2> QED
    BY <2>1, <2>2, <2>3
<1>5. Shift(p, q, 0)
  BY <1>1, <1>2, <1>3 DEF Shift
<1>6. Shift(p, r, k)
  <2>1. \A i \in 1 .. Len(r) : i + k \in 1 .. Len(p)
    BY <1>1
  <2>2. \A i \in 1 .. Len(r) : r[i] = p[i + k]
    BY <1>2, <1>4, <2>1
  <2> QED
    BY <1>1, <2>2 DEF Shift
<1> QED
  BY <1>5, <1>6

LEMMA ChunkShifts ==
  ASSUME NEW S, NEW t \in Seq(S), NEW u \in Seq(S), NEW k \in 0 .. Len(t)
  PROVE  /\ Shift(Line(<<>>, t, u), Line(SubSeq(t, 1, k), SubSeq(t, k + 1, Len(t)), u), 0)
         /\ Shift(Line(<<>>, t, u), Line(<<>>, SubSeq(t, k + 1, Len(t)), u), k)
         /\ SubSeq(t, 1, k) \in Seq(S) /\ SubSeq(t, k + 1, Len(t)) \in Seq(S)
         /\ Len(SubSeq(t, 1, k)) = k /\ \A i \in 1 .. k : SubSeq(t, 1, k)[i] = t[i]
<1> DEFINE none == <<>>
           front == SubSeq(t, 1, k)
           back  == SubSeq(t, k + 1, Len(t))
<1>1. /\ front \in Seq(S) /\ back \in Seq(S)
      /\ Len(front) = k /\ Len(back) = Len(t) - k
      /\ \A i \in 1 .. k : front[i] = t[i]
      /\ \A i \in 1 .. Len(t) - k : back[i] = t[i + k]
  OBVIOUS
<1>2. none \in Seq(S) /\ Len(none) = 0 /\ Len(t) \in Nat /\ Len(u) \in Nat
  OBVIOUS
<1> HIDE DEF none, front, back
<1>3. /\ Lists(Line(none, t, u), none, t, u)
      /\ Lists(Line(front, back, u), front, back, u)
      /\ Lists(Line(none, back, u), none, back, u)
  BY <1>1, <1>2, LineLists
<1>4. /\ Shift(Line(none, t, u), Line(front, back, u), 0)
      /\ Shift(Line(none, t, u), Line(none, back, u), k)
  BY <1>1, <1>2, <1>3, SegmentShifts
<1> QED
  BY <1>1, <1>4 DEF none, front, back

LEMMA TailShifts ==
  ASSUME NEW S, NEW s \in Seq(S), NEW t \in Seq(S), NEW u \in Seq(S), s # <<>>
  PROVE  /\ Shift(Line(s, t, u), Line(Tail(s), t, u), 1)
         /\ Tail(s) \in Seq(S) /\ Head(s) = s[1] /\ Len(s) \in Nat \ {0}
         /\ Len(Tail(s)) = Len(s) - 1 /\ \A i \in 1 .. Len(s) - 1 : Tail(s)[i] = s[i + 1]
BY DEF Line, Shift

LEMMA AppendJoins ==
  ASSUME NEW S, NEW s \in Seq(S), NEW t \in Seq(S), NEW u \in Seq(S), NEW item \in S
  PROVE  Joined(Line(s, t, u), Line(s, t, Append(u, item)), item) /\ Append(u, item) \in Seq(S)
<1> DEFINE v == Append(u, item)
<1>1. /\ v \in Seq(S) /\ Len(v) = Len(u) + 1
      /\ v[Len(u) + 1] = item /\ \A i \in 1 .. Len(u) : v[i] = u[i]
  OBVIOUS
<1> HIDE DEF v
<1> DEFINE p == Line(s, t, u)
           q == Line(s, t, v)
<1>2. Lists(p, s, t, u) /\ Lists(q, s, t, v)
  BY <1>1, LineLists
<1> HIDE DEF p, q
<1>3. Len(q) = Len(p) + 1 /\ Len(p) = Len(s) + Len(t) + Len(u)
      /\ Len(s) \in Nat /\ Len(t) \in Nat /\ Len(u) \in Nat
  BY <1>1, <1>2 DEF Lists
<1>4. q[Len(q)] = item
  <2>1. q[Len(q)] = v[Len(q) - (Len(s) + Len(t))]
    BY <1>2, <1>3 DEF Lists
  <2>2. Len(q) - (Len(s) + Len(t)) = Len(u) + 1
    BY <1>3
  <2> QED
    BY <1>1, <2>1, <2>2
<1>5. \A i \in 1 .. Len(p) : q[i] = p[i]
  <2> SUFFICES ASSUME NEW i \in 1 .. Len(p) PROVE q[i] = p[i]
    OBVIOUS
  <2>1. q[i] = IF i <= Len(s) THEN s[i] ELSE IF i <= Len(s) + Len(t) THEN t[i - Len(s)]
                                        ELSE v[i - (Len(s) + Len(t))]
    BY <1>2, <1>3 DEF Lists
  <2>2. ~(i <= Len(s) + Len(t)) => v[i - (Len(s) + Len(t))] = u[i - (Len(s) + Len(t))]
    BY <1>1, <1>3
  <2> QED
    BY <1>2, <2>1, <2>2 DEF Lists
<1> QED
  BY <1>1, <1>3, <1>4, <1>5 DEF Joined, p, q, v

LEMMA DisownElements ==
  ASSUME NEW s \in Seq(Entry), NEW c
  PROVE  /\ Disown(c, s) \in Seq(Entry) /\ Released(s, Disown(c, s), c)
         /\ \A i \in 1 .. Len(s) : Disown(c, s)[i].event = s[i].event
         /\ s = <<>> => Disown(c, s) = <<>>
<1> DEFINE r == Disown(c, s)
<1>1. DOMAIN s = 1 .. Len(s) /\ Len(s) \in Nat /\ \A i \in 1 .. Len(s) : s[i] \in Entry
  OBVIOUS
<1>2. \A x \in Entry : [x EXCEPT !.owner = Nobody] \in Entry
  BY DEF Entry
<1>3. r = [i \in 1 .. Len(s) |-> IF s[i].owner = c THEN [s[i] EXCEPT !.owner = Nobody]
                                                  ELSE s[i]]
  BY <1>1 DEF Disown
<1> HIDE DEF r
<1>4. r \in [1 .. Len(s) -> Entry]
  BY <1>1, <1>2, <1>3
<1>5. r \in Seq(Entry) /\ Len(r) = Len(s)
  BY <1>1, <1>4
<1>6. \A x \in Entry : [x EXCEPT !.owner = Nobody].event = x.event
  BY DEF Entry
<1>7. \A i \in 1 .. Len(s) : r[i].event = s[i].event
  BY <1>1, <1>3, <1>6
<1>8. s = <<>> => r = <<>>
  <2>1. s = <<>> => Len(r) = 0
    BY <1>5
  <2>2. Len(r) = 0 => r = <<>>
    BY <1>5
  <2> QED
    BY <2>1, <2>2
<1> QED
  BY <1>3, <1>5, <1>7, <1>8 DEF Released, r

LEMMA DisownReleases ==
  ASSUME NEW s \in Seq(Entry), NEW t \in Seq(Entry), NEW u \in Seq(Entry), NEW c
  PROVE  Released(Line(s, t, u), Line(Disown(c, s), Disown(c, t), Disown(c, u)), c)
<1> DEFINE s2 == Disown(c, s)
           t2 == Disown(c, t)
           u2 == Disown(c, u)
           p  == Line(s, t, u)
           q  == Line(s2, t2, u2)
<1>1. /\ s2 \in Seq(Entry) /\ t2 \in Seq(Entry) /\ u2 \in Seq(Entry)
      /\ Released(s, s2, c) /\ Released(t, t2, c) /\ Released(u, u2, c)
  BY DisownElements
<1> HIDE DEF s2, t2, u2
<1>2. Lists(p, s, t, u) /\ Lists(q, s2, t2, u2)
  BY <1>1, LineLists
<1> HIDE DEF p, q
<1>3. /\ Len(s2) = Len(s) /\ Len(t2) = Len(t) /\ Len(u2) = Len(u) /\ Len(q) = Len(p)
      /\ Len(p) = Len(s) + Len(t) + Len(u)
      /\ Len(s) \in Nat /\ Len(t) \in Nat /\ Len(u) \in Nat
  BY <1>1, <1>2 DEF Lists, Released
<1>4. ASSUME NEW i \in 1 .. Len(p)
      PROVE  q[i] = IF p[i].owner = c THEN [p[i] EXCEPT !.owner = Nobody] ELSE p[i]
  <2>1. CASE i <= Len(s)
    <3>1. i \in 1 .. Len(s) /\ p[i] = s[i] /\ q[i] = s2[i]
      BY <1>2, <1>3, <2>1 DEF Lists
    <3> QED
      BY <1>1, <3>1 DEF Released
  <2>2. CASE ~(i <= Len(s)) /\ i <= Len(s) + Len(t)
    <3> DEFINE j == i - Len(s)
    <3>1. j \in 1 .. Len(t) /\ p[i] = t[j] /\ q[i] = t2[j]
      BY <1>2, <1>3, <2>2 DEF Lists
    <3> QED
      BY <1>1, <3>1 DEF Released
  <2>3. CASE ~(i <= Len(s) + Len(t))
    <3> DEFINE j == i - (Len(s) + Len(t))
    <3>1. j \in 1 .. Len(u) /\ p[i] = u[j] /\ q[i] = u2[j]
      BY <1>2, <1>3, <2>3 DEF Lists
    <3> QED
      BY <1>1, <3>1 DEF Released
  <2> QED
    BY <1>3, <2>1, <2>2, <2>3
<1> QED
  BY <1>3, <1>4 DEF Released, p, q, s2, t2, u2

-----------------------------------------------------------------------------
(* How the pipeline serves one caller: at most one item is its own, only   *)
(* while it waits for an answer, and it is the item it added; a success is *)
(* reported to it only for what is stored; and while the loop runs it is   *)
(* answered or in the pipeline.                                            *)
Served(p, c, at, reply, event, stored, running) ==
    /\ \A i \in 1 .. Len(p) : p[i].owner = c =>
          /\ at = "wait" /\ reply = "none" /\ p[i].event = event
          /\ \A j \in 1 .. Len(p) : p[j].owner = c => i = j
    /\ reply # "none" => at = "wait"
    /\ reply = "ok" => stored
    /\ at = "wait" /\ reply = "none" /\ running => \E i \in 1 .. Len(p) : p[i].owner = c

Owns(p, k, c) == \E i \in 1 .. k : p[i].owner = c

LEMMA ServedShift ==
  ASSUME NEW p, NEW q, NEW k, Len(p) \in Nat, Shift(p, q, k),
         NEW c, NEW at, NEW reply, NEW event, NEW stored, NEW stored2,
         NEW running, NEW running2, running2 => running,
         NEW told \in {"ok", "failed"}, NEW answered,
         Served(p, c, at, reply, event, stored, running),
         answered = IF Owns(p, k, c) THEN told ELSE reply,
         at = "wait" /\ stored => stored2,
         Owns(p, k, c) /\ told = "ok" => stored2
  PROVE  Served(q, c, at, answered, event, stored2, running2)
<1>1. \A i \in 1 .. Len(q) : q[i] = p[i + k] /\ i + k \in 1 .. Len(p) /\ i + k > k
  BY DEF Shift
<1>2. \A j \in 1 .. Len(p) : j <= k \/ (j - k \in 1 .. Len(q) /\ q[j - k] = p[j])
  BY DEF Shift
<1>3. k \in 0 .. Len(p)
  BY DEF Shift
<1>4. ASSUME Owns(p, k, c)
      PROVE  /\ at = "wait" /\ reply = "none"
             /\ \A i \in 1 .. Len(q) : q[i].owner # c
  <2>1. PICK j \in 1 .. k : p[j].owner = c
    BY <1>4 DEF Owns
  <2>2. j \in 1 .. Len(p)
    BY <1>3
  <2>3. /\ at = "wait" /\ reply = "none"
        /\ \A i \in 1 .. Len(p) : p[i].owner = c => j = i
    BY <2>1, <2>2 DEF Served
  <2> QED
    BY <1>1, <1>3, <2>3
<1>5. CASE Owns(p, k, c)
  BY <1>4, <1>5 DEF Served
<1>6. CASE ~Owns(p, k, c)
  <2>1. \A i \in 1 .. Len(q) : q[i].owner = c =>
          /\ at = "wait" /\ reply = "none" /\ q[i].event = event
          /\ \A j \in 1 .. Len(q) : q[j].owner = c => i = j
    <3> SUFFICES ASSUME NEW i \in 1 .. Len(q), q[i].owner = c
                 PROVE  /\ at = "wait" /\ reply = "none" /\ q[i].event = event
                        /\ \A j \in 1 .. Len(q) : q[j].owner = c => i = j
      OBVIOUS
    <3>1. /\ at = "wait" /\ reply = "none" /\ q[i].event = event
          /\ \A j \in 1 .. Len(p) : p[j].owner = c => i + k = j
      BY <1>1 DEF Served
    <3>2. ASSUME NEW j \in 1 .. Len(q), q[j].owner = c PROVE i = j
      <4>1. i + k = j + k
        BY <1>1, <3>1, <3>2
      <4> QED
        BY <1>3, <4>1 DEF Shift
    <3> QED
      BY <3>1, <3>2
  <2>2. at = "wait" /\ reply = "none" /\ running2 => \E i \in 1 .. Len(q) : q[i].owner = c
    <3> SUFFICES ASSUME at = "wait" /\ reply = "none" /\ running2
                 PROVE  \E i \in 1 .. Len(q) : q[i].owner = c
      OBVIOUS
    <3>1. PICK j \in 1 .. Len(p) : p[j].owner = c
      BY DEF Served
    <3>2. ~ (j <= k)
      BY <1>3, <1>6, <3>1 DEF Owns
    <3> QED
      BY <1>2, <3>1, <3>2
  <2> QED
    BY <1>6, <2>1, <2>2 DEF Served
<1> QED
  BY <1>5, <1>6

(* Somebody appends an item: a caller that did not wait waits for it.      *)
LEMMA ServedJoin ==
  ASSUME NEW p, NEW q, NEW item, Len(p) \in Nat, Joined(p, q, item),
         NEW c, NEW at, NEW reply, NEW event, NEW stored, NEW running,
         Served(p, c, at, reply, event, stored, running)
  PROVE  /\ item.owner # c => Served(q, c, at, reply, event, stored, running)
         /\ item.owner = c /\ item.event = event /\ at # "wait" =>
               Served(q, c, "wait", reply, event, stored, running)
<1>1. Len(q) = Len(p) + 1 /\ q[Len(q)] = item /\ \A i \in 1 .. Len(p) : q[i] = p[i]
  BY DEF Joined
<1>2. \A i \in 1 .. Len(q) : i = Len(q) \/ (i \in 1 .. Len(p) /\ q[i] = p[i])
  BY <1>1
<1>3. ASSUME item.owner # c PROVE Served(q, c, at, reply, event, stored, running)
  <2>1. \A i \in 1 .. Len(q) : q[i].owner = c => i \in 1 .. Len(p) /\ q[i] = p[i]
    BY <1>1, <1>2, <1>3
  <2>2. \A i \in 1 .. Len(p) : i \in 1 .. Len(q) /\ q[i] = p[i]
    BY <1>1
  <2> QED
    BY <2>1, <2>2 DEF Served
<1>4. ASSUME item.owner = c, item.event = event, at # "wait"
      PROVE  Served(q, c, "wait", reply, event, stored, running)
  <2>1. reply = "none" /\ \A i \in 1 .. Len(p) : p[i].owner # c
    BY <1>4 DEF Served
  <2>2. \A i \in 1 .. Len(q) : q[i].owner = c => i = Len(q)
    BY <1>1, <1>2, <2>1
  <2>3. Len(q) \in 1 .. Len(q) /\ q[Len(q)].owner = c /\ q[Len(q)].event = event
    BY <1>1, <1>4
  <2> QED
    BY <2>1, <2>2, <2>3 DEF Served
<1> QED
  BY <1>3, <1>4

(* Somebody lets go of its item: it may leave, the others see no change.   *)
LEMMA ServedRelease ==
  ASSUME NEW p \in Seq(Entry), NEW q, NEW d, Released(p, q, d),
         NEW c, c # Nobody, c # d, NEW at, NEW reply, NEW event, NEW stored, NEW running,
         Served(p, c, at, reply, event, stored, running)
  PROVE  Served(q, c, at, reply, event, stored, running)
<1>1. Len(q) = Len(p) /\ \A i \in 1 .. Len(p) :
         q[i] = IF p[i].owner = d THEN [p[i] EXCEPT !.owner = Nobody] ELSE p[i]
  BY DEF Released
<1>2. \A i \in 1 .. Len(p) : [p[i] EXCEPT !.owner = Nobody].owner = Nobody
  BY DEF Entry
<1>3. \A i \in 1 .. Len(p) : /\ q[i].owner = c => q[i] = p[i]
                             /\ p[i].owner = c => q[i] = p[i]
  BY <1>1, <1>2
<1> QED
  BY <1>1, <1>3 DEF Served

LEMMA ReleasedFree ==
  ASSUME NEW p \in Seq(Entry), NEW q, NEW d, Released(p, q, d), d # Nobody
  PROVE  \A i \in 1 .. Len(q) : q[i].owner # d
<1>1. Len(q) = Len(p) /\ \A i \in 1 .. Len(p) :
         q[i] = IF p[i].owner = d THEN [p[i] EXCEPT !.owner = Nobody] ELSE p[i]
  BY DEF Released
<1>2. \A i \in 1 .. Len(p) : [p[i] EXCEPT !.owner = Nobody].owner = Nobody
  BY DEF Entry
<1> QED
  BY <1>1, <1>2

-----------------------------------------------------------------------------
(* The inductive invariant of the write path.                              *)
PipeTypes ==
    /\ active \in Seq(Entry) /\ batch \in Seq(Entry) /\ marking \in Seq(Entry)
    /\ step \in [Caller -> Step] /\ answer \in [Caller -> Reply]
    /\ position \in [Writer -> 0 .. Len(Request)]
    /\ log \in [Event -> Nat] /\ seen \subseteq Event /\ acked \subseteq Event
    /\ loop \in {"select", "exited"} \cup Flushing

(* A consumer in Ingest handles its delivery, a writer is at an event of   *)
(* its request; while the process is down nobody is in Ingest or flushes.  *)
Placed ==
    /\ \A c \in Consumer : step[c] # "out" => hand[c].stage = "handling"
    /\ \A w \in Writer : step[w] # "out" => position[w] > 0
    /\ phase = "down" => loop = "exited" /\ \A c \in Caller : step[c] = "out"

IsServed(c) == Served(Pipeline, c, step[c], answer[c], EventOf(c), log[EventOf(c)] > 0,
                      loop # "exited")
AllServed   == \A c \in Caller : IsServed(c)

(* What is marked was inserted before, and so was what a writer has passed.*)
MarkedStored == \A i \in 1 .. Len(marking) : log[marking[i].event] > 0
PassedStored == \A w \in Writer : step[w] # "out" =>
                   \A k \in 1 .. position[w] - 1 : log[Request[k]] > 0

(* The loop has nothing in its hands unless it flushes.                    *)
EmptyHanded == loop \in {"select", "exited"} => batch = <<>> /\ marking = <<>>

PipeInv == /\ PipeTypes /\ Placed /\ AllServed
           /\ MarkedStored /\ PassedStored /\ EmptyHanded /\ AckMeansLogged

LEMMA PipelineTyped ==
  ASSUME PipeTypes
  PROVE  Pipeline \in Seq(Entry) /\ Len(Pipeline) \in Nat
BY LineLists DEF PipeTypes, Pipeline

LEMMA Callers ==
  /\ \A c \in Consumer : c \in Caller /\ c \notin Writer
  /\ \A w \in Writer : w \in Caller /\ w \notin Consumer
  /\ \A c \in Caller : c # Nobody
  /\ \A c \in Caller \ Writer : c \in Consumer
  /\ Len(Request) \in Nat \ {0}
  /\ \A k \in 1 .. Len(Request) : Request[k] \in ToSet(Request)
  /\ \A e \in ToSet(Request) : \E k \in 1 .. Len(Request) : e = Request[k]
<1>1. Request \in Seq(ToSet(Request)) /\ Request # <<>>
  BY AuditAssumption
<1>2. Len(Request) \in Nat \ {0} /\ DOMAIN Request = 1 .. Len(Request)
  BY <1>1
<1> QED
  BY <1>2, AuditAssumption DEF Caller, ToSet

(* Whoever is in Ingest is there with an event.                            *)
LEMMA EventTyped ==
  ASSUME AuditTypes, PipeTypes, Placed, NEW c \in Caller, step[c] # "out"
  PROVE  EventOf(c) \in Event
<1>1. CASE c \in Writer
  <2>1. position[c] \in 1 .. Len(Request)
    BY <1>1 DEF PipeTypes, Placed
  <2> QED
    BY <1>1, <2>1, Callers DEF EventOf, Event
<1>2. CASE c \in Consumer
  <2>1. hand[c].stage \in Stage
    BY <1>2 DEF Placed, Stage
  <2> QED
    BY <1>2, <2>1, AuditHeld, Callers DEF EventOf, Event
<1> QED
  BY <1>1, <1>2, Callers

LEMMA HandShape ==
  ASSUME AuditTypes
  PROVE  /\ hand = [c \in Consumer |-> hand[c]]
         /\ \A c \in Consumer : hand[c] = AtRest \/ hand[c] \in Busy(AuditCopy)
BY DEF AuditTypes, Typed, HandsTyped, AuditFlow

-----------------------------------------------------------------------------
(* Steps that leave Ingest and the batcher alone: the hands of those who   *)
(* are in Ingest are steady.                                               *)
Steady == \A c \in Consumer : step[c] # "out" =>
             hand'[c].stage = "handling" /\ hand'[c].copy = hand[c].copy
Aside  == /\ Steady
          /\ UNCHANGED <<active, batch, marking, loop, callers, log, verdicts>>
          /\ seen' \subseteq seen
          /\ phase' = "down" => phase = "down"

LEMMA AsideKeeps ==
  ASSUME PipeInv, Aside
  PROVE  PipeInv'
<1>1. /\ active' = active /\ batch' = batch /\ marking' = marking /\ loop' = loop
      /\ step' = step /\ answer' = answer /\ position' = position /\ acked' = acked
      /\ log' = log /\ verdicts' = verdicts /\ seen' \subseteq seen
  BY DEF Aside, callers
<1>2. PipeTypes' /\ MarkedStored' /\ PassedStored' /\ EmptyHanded'
  BY <1>1 DEF PipeInv, PipeTypes, MarkedStored, PassedStored, EmptyHanded
<1>3. Placed'
  BY <1>1 DEF PipeInv, Placed, Aside, Steady
<1>4. ASSUME NEW c \in Caller PROVE IsServed(c)'
  <2>1. Pipeline' = Pipeline
    BY <1>1 DEF Pipeline
  <2>2. CASE step[c] # "out"
    <3>1. EventOf(c)' = EventOf(c)
      BY <1>1, <2>2, Callers DEF EventOf, Held, Aside, Steady
    <3> QED
      BY <1>1, <2>1, <3>1 DEF PipeInv, AllServed, IsServed
  <2>3. CASE step[c] = "out"
    BY <1>1, <2>1, <2>3 DEF PipeInv, AllServed, IsServed, Served
  <2> QED
    BY <2>2, <2>3
<1>5. AckMeansLogged'
  BY <1>1 DEF PipeInv, AckMeansLogged, Handled
<1> QED
  BY <1>2, <1>3, <1>4, <1>5 DEF PipeInv, AllServed

LEMMA SteadyHands ==
  ASSUME AuditTypes, Placed, NEW c \in Consumer,
         \/ \E copy \in DOMAIN ready : Deliver(c, copy)
         \/ \E outcome : Park(c, outcome) \/ Bury(c, outcome)
         \/ Ack(c) \/ Nack(c) \/ Disconnect(c)
  PROVE  Steady
<1>1. /\ hand = [d \in Consumer |-> hand[d]]
      /\ \A d \in Consumer : hand[d] = AtRest \/ hand[d] \in Busy(AuditCopy)
  BY HandShape
<1>2. \A d \in Consumer : step[d] # "out" => hand[d].stage = "handling"
  BY DEF Placed
<1>3. \/ hand[c].stage # "handling" /\ \E x : hand' = [hand EXCEPT ![c] = x]
      \/ hand' = [hand EXCEPT ![c].owned = FALSE] /\ hand[c] # AtRest
  <2>1. ASSUME NEW copy, Deliver(c, copy)
        PROVE  hand[c].stage # "handling" /\ \E x : hand' = [hand EXCEPT ![c] = x]
    <3>1. /\ hand[c].stage # "handling"
          /\ hand' = [hand EXCEPT ![c] =
                        [stage |-> "handling", copy |-> copy, owned |-> TRUE]]
      BY <2>1 DEF Deliver, Idle
    <3> QED
      BY <3>1
  <2>2. ASSUME NEW outcome, Park(c, outcome) \/ Bury(c, outcome)
        PROVE  hand[c].stage # "handling" /\ \E x : hand' = [hand EXCEPT ![c] = x]
    <3>1. /\ hand[c].stage # "handling"
          /\ hand' = [hand EXCEPT ![c].stage = AfterPublish(outcome)]
      BY <2>2 DEF Park, Bury
    <3>2. hand' = [hand EXCEPT ![c] = [hand[c] EXCEPT !.stage = AfterPublish(outcome)]]
      BY <3>1
    <3> QED
      BY <3>1, <3>2
  <2>3. ASSUME Ack(c) \/ Nack(c)
        PROVE  hand[c].stage # "handling" /\ \E x : hand' = [hand EXCEPT ![c] = x]
    <3>1. hand[c].stage # "handling" /\ hand' = [hand EXCEPT ![c] = Idle]
      BY <2>3 DEF Ack, Nack
    <3> QED
      BY <3>1
  <2>4. ASSUME Disconnect(c)
        PROVE  hand' = [hand EXCEPT ![c].owned = FALSE] /\ hand[c] # AtRest
    BY <2>4 DEF Disconnect, Idle, AtRest
  <2> QED
    BY <2>1, <2>2, <2>3, <2>4
<1>4. \A d \in Consumer \ {c} : hand'[d] = hand[d]
  BY <1>1, <1>3
<1>5. step[c] # "out" => hand'[c].stage = "handling" /\ hand'[c].copy = hand[c].copy
  <2> SUFFICES ASSUME step[c] # "out"
               PROVE  hand'[c].stage = "handling" /\ hand'[c].copy = hand[c].copy
    OBVIOUS
  <2>1. hand' = [hand EXCEPT ![c].owned = FALSE] /\ hand[c] \in Busy(AuditCopy)
    BY <1>1, <1>2, <1>3
  <2> QED
    BY <1>1, <1>2, <2>1 DEF Busy
<1> QED
  BY <1>2, <1>4, <1>5 DEF Steady

(* The broker, the operator and the clock.                                 *)
LEMMA SurroundingsAside ==
  ASSUME AuditTypes, PipeInv,
         \/ \E b \in Body, outcome \in PublishOutcome : Publish(b, outcome) /\ UNCHANGED rest
         \/ \E c \in Consumer : \/ Take(c) /\ UNCHANGED rest
                                \/ Dispatch(c) /\ UNCHANGED rest
                                \/ ChannelLost(c) \/ ChannelCloses(c) \/ TakeBack(c)
         \/ Backoff /\ UNCHANGED rest
         \/ Operator /\ UNCHANGED rest
         \/ Cancel \/ CloseIngestor \/ Expired
         \/ UNCHANGED auditVars
  PROVE  Aside
<1>1. Placed /\ UNCHANGED hand => Steady
  BY DEF Placed, Steady
<1>2. Placed
  BY DEF PipeInv
<1>3. UNCHANGED rest => /\ UNCHANGED <<active, batch, marking, loop, callers, log>>
                        /\ seen' = seen /\ phase' = phase
  BY DEF rest, batcherVars, storage
<1>4. ASSUME NEW b, NEW outcome, Publish(b, outcome), UNCHANGED rest PROVE Aside
  BY <1>1, <1>2, <1>3, <1>4 DEF Publish, Enqueue, Aside
<1>5. ASSUME NEW c \in Consumer, Take(c), UNCHANGED rest PROVE Aside
  BY <1>2, <1>3, <1>5, SteadyHands DEF Take, History, Aside
<1>6. ASSUME NEW c \in Consumer, Dispatch(c), UNCHANGED rest PROVE Aside
  BY <1>2, <1>3, <1>6, SteadyHands DEF Dispatch, History, Aside
<1>7. ASSUME NEW c \in Consumer, ChannelLost(c) PROVE Aside
  BY <1>2, <1>3, <1>7, SteadyHands DEF ChannelLost, Aside
<1>8. ASSUME NEW c \in Consumer, ChannelCloses(c) PROVE Aside
  BY <1>2, <1>8, SteadyHands DEF ChannelCloses, Aside, batcherVars, storage
<1>9. ASSUME NEW c \in Consumer, TakeBack(c) PROVE Aside
  <2>1. Steady
    BY <1>2, <1>9 DEF TakeBack, Placed, Steady, Caller
  <2> QED
    BY <1>9, <2>1 DEF TakeBack, Aside, batcherVars, storage
<1>10. CASE (Backoff \/ Operator) /\ UNCHANGED rest
  BY <1>1, <1>2, <1>3, <1>10 DEF Backoff, Operator, Expire, Redrive, History, Aside
<1>11. CASE Cancel
  BY <1>1, <1>2, <1>11 DEF Cancel, flowVars, Aside, batcherVars, storage
<1>12. CASE CloseIngestor
  BY <1>1, <1>2, <1>12 DEF CloseIngestor, CloseBatcher, vars, flowVars, Aside, storage
<1>13. CASE Expired
  BY <1>1, <1>2, <1>13 DEF Expired, flowVars, Aside, batcherVars
<1>14. CASE UNCHANGED auditVars
  BY <1>1, <1>2, <1>14 DEF auditVars, ingestVars, vars, flowVars, Aside, batcherVars, callers
<1> QED
  BY <1>4, <1>5, <1>6, <1>7, <1>8, <1>9, <1>10, <1>11, <1>12, <1>13, <1>14

-----------------------------------------------------------------------------
(* Steps of one caller.  Alone: the others stay where they are.  Stands:   *)
(* where it goes there is a delivery or an event for it, and what it has   *)
(* passed is stored.                                                       *)
Alone(c) ==
    /\ \A d \in Caller \ {c} : step'[d] = step[d] /\ answer'[d] = answer[d]
    /\ \A d \in Consumer \ {c} : hand'[d] = hand[d]
    /\ \A w \in Writer \ {c} : position'[w] = position[w]
    /\ UNCHANGED <<log, seen, loop, phase>>
Stands(c) ==
    /\ c \in Consumer /\ step'[c] # "out" => hand'[c].stage = "handling"
    /\ c \in Writer /\ step'[c] # "out" =>
          /\ position'[c] > 0
          /\ \A k \in 1 .. position'[c] - 1 : log[Request[k]] > 0

LEMMA NoneOwned ==
  ASSUME NEW p, NEW c, NEW at, NEW reply, NEW event, NEW stored, NEW running,
         Served(p, c, at, reply, event, stored, running), at # "wait" \/ reply # "none"
  PROVE  Released(p, p, c)
BY DEF Served, Released

LEMMA AloneKeeps ==
  ASSUME PipeInv, NEW c \in Caller, Alone(c), Stands(c), phase # "down"
  PROVE  /\ Placed' /\ PassedStored'
         /\ \A d \in Caller \ {c} : EventOf(d)' = EventOf(d)
<1>1. Placed'
  <2>1. \A d \in Consumer : step'[d] # "out" => hand'[d].stage = "handling"
    BY Callers DEF PipeInv, Placed, Alone, Stands
  <2>2. \A w \in Writer : step'[w] # "out" => position'[w] > 0
    BY Callers DEF PipeInv, Placed, Alone, Stands
  <2> QED
    BY <2>1, <2>2 DEF Placed, Alone
<1>2. PassedStored'
  <2> SUFFICES ASSUME NEW w \in Writer, step'[w] # "out",
                      NEW k \in 1 .. position'[w] - 1
               PROVE  log'[Request[k]] > 0
    BY DEF PassedStored
  <2> QED
    BY Callers DEF PipeInv, PassedStored, Alone, Stands
<1>3. \A d \in Caller \ {c} : EventOf(d)' = EventOf(d)
  BY Callers DEF EventOf, Held, Alone
<1> QED
  BY <1>1, <1>2, <1>3

LEMMA CallerGoes ==
  ASSUME PipeInv, NEW c \in Caller, Alone(c), Stands(c), phase # "down",
         Released(Pipeline, Pipeline', c), step'[c] # "wait", answer'[c] = "none"
  PROVE  Placed' /\ PassedStored' /\ AllServed'
<1>1. /\ Placed' /\ PassedStored'
      /\ \A d \in Caller \ {c} : EventOf(d)' = EventOf(d)
  BY AloneKeeps
<1>2. Pipeline \in Seq(Entry) /\ c # Nobody
  BY PipelineTyped, Callers DEF PipeInv
<1>3. ASSUME NEW d \in Caller PROVE IsServed(d)'
  <2>1. d # Nobody
    BY Callers
  <2>2. Served(Pipeline, d, step[d], answer[d], EventOf(d), log[EventOf(d)] > 0, loop # "exited")
    BY DEF PipeInv, AllServed, IsServed
  <2>3. CASE d # c
    <3>1. Served(Pipeline', d, step[d], answer[d], EventOf(d), log[EventOf(d)] > 0,
                 loop # "exited")
      BY <1>2, <2>1, <2>2, <2>3, ServedRelease
    <3>2. /\ step'[d] = step[d] /\ answer'[d] = answer[d] /\ EventOf(d)' = EventOf(d)
          /\ log' = log /\ loop' = loop
      BY <1>1, <2>3 DEF Alone
    <3> QED
      BY <3>1, <3>2 DEF IsServed
  <2>4. CASE d = c
    <3>1. \A i \in 1 .. Len(Pipeline') : Pipeline'[i].owner # c
      BY <1>2, ReleasedFree
    <3> QED
      BY <2>4, <3>1 DEF IsServed, Served
  <2> QED
    BY <2>3, <2>4
<1> QED
  BY <1>1, <1>3 DEF AllServed

(* The batcher and the flush are not touched, or only let go of items.     *)
SameLines == UNCHANGED <<active, batch, marking>>

LEMMA SameLinesRelease ==
  ASSUME PipeInv, SameLines, NEW c \in Caller, step[c] # "wait" \/ answer[c] # "none"
  PROVE  Released(Pipeline, Pipeline', c)
<1>1. Pipeline' = Pipeline
  BY DEF SameLines, Pipeline
<1>2. IsServed(c)
  BY DEF PipeInv, AllServed
<1> QED
  BY <1>1, <1>2, NoneOwned DEF IsServed

(* Ingest returns.  A success is returned only for what is stored.         *)
LEMMA LeaveEffect ==
  ASSUME AuditTypes, PipeInv, NEW c \in Caller, step[c] # "out", NEW code, Leave(c, code),
         code = "none" => log[EventOf(c)] > 0,
         UNCHANGED <<log, seen, loop, phase>>
  PROVE  /\ Alone(c) /\ Stands(c) /\ step'[c] # "wait" /\ answer'[c] = "none"
         /\ step' \in [Caller -> Step] /\ answer' \in [Caller -> Reply]
         /\ position' \in [Writer -> 0 .. Len(Request)] /\ acked' \subseteq Event
         /\ AckMeansLogged'
<1>1. /\ step \in [Caller -> Step] /\ answer \in [Caller -> Reply]
      /\ position \in [Writer -> 0 .. Len(Request)] /\ acked \subseteq Event
  BY DEF PipeInv, PipeTypes
<1>2. /\ answer' = [answer EXCEPT ![c] = "none"]
      /\ answer' \in [Caller -> Reply] /\ answer'[c] = "none"
      /\ \A d \in Caller \ {c} : answer'[d] = answer[d]
  BY <1>1 DEF Leave, Reply
<1>3. /\ \A b \in Body : Handled(b) => log'[b] > 0
      /\ \A e \in acked \cup seen' : log'[e] > 0
  BY DEF PipeInv, AckMeansLogged
<1>4. CASE ReturnToConsumer(c, code)
  <2>1. /\ c \in Consumer /\ step' = [step EXCEPT ![c] = "out"]
        /\ position' = position /\ acked' = acked
        /\ hand' = [hand EXCEPT ![c].stage = Route(code, Held(c).attempt)]
        /\ verdicts' = verdicts \cup {<<Held(c).body, code>>}
    BY <1>4 DEF ReturnToConsumer, Goto, Handle, Return
  <2>2. /\ step' \in [Caller -> Step] /\ step'[c] = "out"
        /\ \A d \in Caller \ {c} : step'[d] = step[d]
    BY <1>1, <2>1 DEF Step
  <2>3. \A d \in Consumer \ {c} : hand'[d] = hand[d]
    BY <2>1, HandShape
  <2>4. Alone(c) /\ Stands(c)
    BY <1>2, <2>1, <2>2, <2>3, Callers DEF Alone, Stands
  <2>5. EventOf(c) = Held(c).body
    BY <2>1, Callers DEF EventOf
  <2>6. \A b \in Body : Handled(b)' => log'[b] > 0
    BY <1>3, <2>1, <2>5 DEF Handled
  <2> QED
    BY <1>1, <1>2, <1>3, <2>1, <2>2, <2>4, <2>6 DEF AckMeansLogged
<1>5. CASE ReturnToWriter(c, code)
  <2>1. /\ c \in Writer /\ c \notin Consumer /\ EventOf(c) = Request[position[c]]
        /\ position[c] \in 1 .. Len(Request) /\ hand' = hand /\ verdicts' = verdicts
        /\ \A k \in 1 .. position[c] - 1 : log[Request[k]] > 0
    BY <1>1, <1>5, Callers
       DEF ReturnToWriter, flowVars, EventOf, PipeInv, Placed, PassedStored
  <2>2. \A b \in Body : Handled(b)' => log'[b] > 0
    BY <1>3, <2>1 DEF Handled
  <2>3. code = "none" => \A k \in 1 .. position[c] : log[Request[k]] > 0
    BY <2>1
  <2>4. CASE code = "none" /\ position[c] < Len(Request)
    <3>1. /\ position' = [position EXCEPT ![c] = position[c] + 1]
          /\ step' = [step EXCEPT ![c] = "dedup"] /\ acked' = acked
      BY <1>5, <2>4 DEF ReturnToWriter, Goto
    <3>2. /\ step' \in [Caller -> Step] /\ step'[c] = "dedup"
          /\ \A d \in Caller \ {c} : step'[d] = step[d]
      BY <1>1, <3>1 DEF Step
    <3>3. /\ position' \in [Writer -> 0 .. Len(Request)] /\ position'[c] = position[c] + 1
          /\ \A w \in Writer \ {c} : position'[w] = position[w]
      BY <1>1, <2>1, <2>4, <3>1, Callers
    <3>4. Alone(c) /\ Stands(c)
      BY <1>2, <2>1, <2>3, <2>4, <3>2, <3>3 DEF Alone, Stands
    <3> QED
      BY <1>1, <1>2, <1>3, <2>2, <3>1, <3>2, <3>3, <3>4 DEF AckMeansLogged
  <2>5. CASE ~(code = "none" /\ position[c] < Len(Request))
    <3>1. /\ position' = position /\ step' = [step EXCEPT ![c] = "out"]
          /\ acked' = IF code = "none" THEN acked \cup ToSet(Request) ELSE acked
      BY <1>5, <2>5 DEF ReturnToWriter, Goto
    <3>2. /\ step' \in [Caller -> Step] /\ step'[c] = "out"
          /\ \A d \in Caller \ {c} : step'[d] = step[d]
      BY <1>1, <3>1 DEF Step
    <3>3. Alone(c) /\ Stands(c)
      BY <1>2, <2>1, <3>1, <3>2 DEF Alone, Stands
    <3>4. code = "none" => \A e \in ToSet(Request) : log[e] > 0
      <4>1. code = "none" => position[c] = Len(Request)
        BY <2>1, <2>5, Callers
      <4> QED
        BY <2>3, <4>1, Callers
    <3>5. AckMeansLogged'
      BY <1>3, <2>2, <3>1, <3>4 DEF AckMeansLogged
    <3>6. acked' \subseteq Event
      BY <1>1, <3>1 DEF Event
    <3> QED
      BY <1>1, <1>2, <3>1, <3>2, <3>3, <3>5, <3>6
  <2> QED
    BY <2>4, <2>5
<1> QED
  BY <1>4, <1>5 DEF Leave

(* It returns without a word from the batcher, or with one.                *)
LEMMA LeaveKeeps ==
  ASSUME AuditTypes, PipeInv, NEW c \in Caller, step[c] # "out", NEW code, Leave(c, code),
         code = "none" => log[EventOf(c)] > 0,
         SameLines, step[c] # "wait" \/ answer[c] # "none",
         UNCHANGED <<log, seen, loop, phase>>
  PROVE  PipeInv'
<1>1. /\ Alone(c) /\ Stands(c) /\ step'[c] # "wait" /\ answer'[c] = "none"
      /\ step' \in [Caller -> Step] /\ answer' \in [Caller -> Reply]
      /\ position' \in [Writer -> 0 .. Len(Request)] /\ acked' \subseteq Event
      /\ AckMeansLogged'
  BY LeaveEffect
<1>2. phase # "down"
  BY DEF PipeInv, Placed
<1>3. Placed' /\ PassedStored' /\ AllServed'
  BY <1>1, <1>2, SameLinesRelease, CallerGoes
<1>4. PipeTypes' /\ MarkedStored' /\ EmptyHanded'
  BY <1>1 DEF PipeInv, PipeTypes, MarkedStored, EmptyHanded, SameLines
<1> QED
  BY <1>1, <1>3, <1>4 DEF PipeInv

(* It goes on without an item in the pipeline.                             *)
LEMMA GoesOn ==
  ASSUME PipeInv, NEW c \in Caller, NEW place \in {"slot", "dedup", "add"},
         step' = [step EXCEPT ![c] = place], answer' = answer, step[c] # "wait",
         SameLines, Stands(c), phase # "down",
         position' \in [Writer -> 0 .. Len(Request)],
         \A w \in Writer \ {c} : position'[w] = position[w],
         UNCHANGED <<hand, verdicts, acked, log, seen, loop, phase>>
  PROVE  PipeInv'
<1>1. step' \in [Caller -> Step] /\ step'[c] = place /\ \A d \in Caller \ {c} : step'[d] = step[d]
  BY DEF PipeInv, PipeTypes, Step
<1>2. answer[c] = "none"
  BY DEF PipeInv, AllServed, IsServed, Served
<1>3. Alone(c)
  BY <1>1 DEF Alone
<1>4. Placed' /\ PassedStored' /\ AllServed'
  BY <1>1, <1>2, <1>3, SameLinesRelease, CallerGoes
<1>5. PipeTypes' /\ MarkedStored' /\ EmptyHanded'
  BY <1>1 DEF PipeInv, PipeTypes, MarkedStored, EmptyHanded, SameLines
<1>6. AckMeansLogged'
  BY DEF PipeInv, AckMeansLogged, Handled
<1> QED
  BY <1>4, <1>5, <1>6 DEF PipeInv

-----------------------------------------------------------------------------
(* The actions of Ingest, one by one.                                      *)
LEMMA StandsStill ==
  ASSUME PipeInv, NEW c \in Caller, step[c] # "out", UNCHANGED <<hand, position>>
  PROVE  Stands(c)
BY DEF PipeInv, Placed, PassedStored, Stands

LEMMA EnterKeeps ==
  ASSUME PipeInv, NEW c, \/ c \in Consumer /\ phase # "down" /\ ConsumerEnters(c)
                         \/ c \in Writer /\ WriterEnters(c)
  PROVE  PipeInv'
<1>1. CASE c \in Consumer /\ phase # "down" /\ ConsumerEnters(c)
  <2>1. /\ step' = [step EXCEPT ![c] = "slot"] /\ step[c] = "out" /\ c \in Caller
        /\ SameLines /\ Stands(c)
        /\ UNCHANGED <<hand, position, verdicts, answer, acked, log, seen, loop, phase>>
    BY <1>1, Callers
       DEF ConsumerEnters, Goto, AtStep, SameLines, Stands, vars, flowVars, batcherVars, storage
  <2>2. position' \in [Writer -> 0 .. Len(Request)]
    BY <2>1 DEF PipeInv, PipeTypes
  <2> QED
    BY <1>1, <2>1, <2>2, GoesOn
<1>2. CASE c \in Writer /\ WriterEnters(c)
  <2>1. /\ step' = [step EXCEPT ![c] = "dedup"] /\ step[c] = "out" /\ c \in Caller
        /\ position' = [position EXCEPT ![c] = 1] /\ SameLines /\ phase # "down"
        /\ UNCHANGED <<hand, verdicts, answer, acked, log, seen, loop, phase>>
    BY <1>2, Callers DEF WriterEnters, Goto, AtStep, SameLines, flowVars, batcherVars, storage
  <2>2. /\ position' \in [Writer -> 0 .. Len(Request)] /\ position'[c] = 1
        /\ \A w \in Writer \ {c} : position'[w] = position[w]
    BY <1>2, <2>1, Callers DEF PipeInv, PipeTypes
  <2>3. Stands(c)
    BY <1>2, <2>2, Callers DEF Stands
  <2> QED
    BY <2>1, <2>2, <2>3, GoesOn
<1> QED
  BY <1>1, <1>2

LEMMA TakeSlotKeeps ==
  ASSUME AuditTypes, PipeInv, NEW c \in Caller, TakeSlot(c)
  PROVE  PipeInv'
<1>1. /\ step[c] = "slot" /\ SameLines /\ UNCHANGED <<log, seen, loop, phase>>
      /\ phase # "down"
  BY DEF TakeSlot, AtStep, SameLines, batcherVars, storage, PipeInv, Placed
<1>2. CASE Leave(c, "INTERNAL")
  BY <1>1, <1>2, LeaveKeeps
<1>3. CASE Goto(c, "dedup") /\ UNCHANGED <<vars, answer, position, acked>>
  <2>1. /\ step' = [step EXCEPT ![c] = "dedup"]
        /\ UNCHANGED <<hand, verdicts, answer, position, acked>>
    BY <1>3 DEF Goto, vars, flowVars
  <2>2. position' \in [Writer -> 0 .. Len(Request)] /\ Stands(c)
    BY <1>1, <2>1, StandsStill DEF PipeInv, PipeTypes
  <2> QED
    BY <1>1, <2>1, <2>2, GoesOn
<1> QED
  BY <1>2, <1>3 DEF TakeSlot

LEMMA DedupKeeps ==
  ASSUME AuditTypes, PipeInv, NEW c \in Caller, Dedup(c)
  PROVE  PipeInv'
<1>1. /\ step[c] = "dedup" /\ SameLines /\ UNCHANGED <<log, seen, loop, phase>>
      /\ phase # "down"
  BY DEF Dedup, AtStep, SameLines, batcherVars, storage, PipeInv, Placed
<1>2. CASE EventOf(c) \in seen /\ Leave(c, "none")
  <2>1. log[EventOf(c)] > 0
    BY <1>2 DEF PipeInv, AckMeansLogged
  <2> QED
    BY <1>1, <1>2, <2>1, LeaveKeeps
<1>3. CASE /\ Goto(c, "add")
           /\ UNCHANGED <<flowVars, accepted, verdicts, answer, position, acked>>
  <2>1. /\ step' = [step EXCEPT ![c] = "add"]
        /\ UNCHANGED <<hand, verdicts, answer, position, acked>>
    BY <1>3 DEF Goto, flowVars
  <2>2. position' \in [Writer -> 0 .. Len(Request)] /\ Stands(c)
    BY <1>1, <2>1, StandsStill DEF PipeInv, PipeTypes
  <2> QED
    BY <1>1, <2>1, <2>2, GoesOn
<1> QED
  BY <1>2, <1>3 DEF Dedup

LEMMA HandOverKeeps ==
  ASSUME AuditTypes, PipeInv, NEW c \in Caller, HandOver(c)
  PROVE  PipeInv'
<1>1. /\ step[c] = "add" /\ step' = [step EXCEPT ![c] = "wait"]
      /\ active' = Append(active, Item(c))
      /\ UNCHANGED <<batch, marking, loop, hand, verdicts, answer, position, acked,
                     log, seen, phase>>
  BY DEF HandOver, Add, AtStep, Goto, vars, flowVars, storage
<1>2. Item(c) \in Entry /\ Item(c).owner = c /\ Item(c).event = EventOf(c)
  BY <1>1, EventTyped DEF Item, Entry, PipeInv
<1>3. Joined(Pipeline, Pipeline', Item(c)) /\ active' \in Seq(Entry)
  BY <1>1, <1>2, AppendJoins DEF PipeInv, PipeTypes, Pipeline
<1>4. /\ step' \in [Caller -> Step] /\ step'[c] = "wait"
      /\ \A d \in Caller \ {c} : step'[d] = step[d]
  BY <1>1 DEF PipeInv, PipeTypes, Step
<1>5. Alone(c) /\ Stands(c) /\ phase # "down"
  BY <1>1, <1>4, StandsStill DEF Alone, PipeInv, Placed
<1>6. Placed' /\ PassedStored'
  BY <1>5, AloneKeeps
<1>7. ASSUME NEW d \in Caller PROVE IsServed(d)'
  <2>1. EventOf(d)' = EventOf(d)
    BY <1>1 DEF EventOf, Held
  <2>2. Served(Pipeline, d, step[d], answer[d], EventOf(d), log[EventOf(d)] > 0, loop # "exited")
    BY DEF PipeInv, AllServed, IsServed
  <2>3. Len(Pipeline) \in Nat
    BY PipelineTyped DEF PipeInv
  <2>4. CASE d # c
    <3>1. Served(Pipeline', d, step[d], answer[d], EventOf(d), log[EventOf(d)] > 0,
                 loop # "exited")
      BY <1>2, <1>3, <2>2, <2>3, <2>4, ServedJoin
    <3> QED
      BY <1>1, <1>4, <2>1, <2>4, <3>1 DEF IsServed
  <2>5. CASE d = c
    <3>1. Served(Pipeline', d, "wait", answer[d], EventOf(d), log[EventOf(d)] > 0,
                 loop # "exited")
      BY <1>1, <1>2, <1>3, <2>2, <2>3, <2>5, ServedJoin
    <3> QED
      BY <1>1, <1>4, <2>1, <2>5, <3>1 DEF IsServed
  <2> QED
    BY <2>4, <2>5
<1>8. PipeTypes' /\ MarkedStored' /\ EmptyHanded' /\ AckMeansLogged'
  BY <1>1, <1>3, <1>4
     DEF PipeInv, PipeTypes, MarkedStored, EmptyHanded, AckMeansLogged, Handled
<1> QED
  BY <1>6, <1>7, <1>8 DEF PipeInv, AllServed

LEMMA AnsweredKeeps ==
  ASSUME AuditTypes, PipeInv, NEW c \in Caller, Answered(c)
  PROVE  PipeInv'
<1> DEFINE code == IF answer[c] = "ok" THEN "none" ELSE "UNAVAILABLE"
<1>1. /\ step[c] = "wait" /\ answer[c] # "none" /\ Leave(c, code)
      /\ SameLines /\ UNCHANGED <<log, seen, loop, phase>>
  BY DEF Answered, AtStep, SameLines, batcherVars, storage
<1>2. code = "none" => log[EventOf(c)] > 0
  BY DEF PipeInv, AllServed, IsServed, Served
<1> QED
  BY <1>1, <1>2, LeaveKeeps

LEMMA GiveUpKeeps ==
  ASSUME AuditTypes, PipeInv, NEW c \in Caller, GiveUp(c)
  PROVE  PipeInv'
<1>1. /\ step[c] = "wait" /\ Leave(c, "UNAVAILABLE")
      /\ active' = Disown(c, active) /\ batch' = Disown(c, batch)
      /\ marking' = Disown(c, marking)
      /\ UNCHANGED <<log, seen, loop, phase>>
  BY DEF GiveUp, AtStep, storage
<1>2. /\ Alone(c) /\ Stands(c) /\ step'[c] # "wait" /\ answer'[c] = "none"
      /\ step' \in [Caller -> Step] /\ answer' \in [Caller -> Reply]
      /\ position' \in [Writer -> 0 .. Len(Request)] /\ acked' \subseteq Event
      /\ AckMeansLogged'
  BY <1>1, LeaveEffect
<1>3. active \in Seq(Entry) /\ batch \in Seq(Entry) /\ marking \in Seq(Entry)
  BY DEF PipeInv, PipeTypes
<1>4. /\ active' \in Seq(Entry) /\ batch' \in Seq(Entry) /\ marking' \in Seq(Entry)
      /\ Len(marking') = Len(marking)
      /\ \A i \in 1 .. Len(marking) : marking'[i].event = marking[i].event
      /\ batch = <<>> => batch' = <<>>
      /\ marking = <<>> => marking' = <<>>
  BY <1>1, <1>3, DisownElements DEF Released
<1>5. Released(Pipeline, Pipeline', c)
  BY <1>1, <1>3, DisownReleases DEF Pipeline
<1>6. phase # "down"
  BY <1>1 DEF PipeInv, Placed
<1>7. Placed' /\ PassedStored' /\ AllServed'
  BY <1>2, <1>5, <1>6, CallerGoes
<1>8. PipeTypes' /\ MarkedStored' /\ EmptyHanded'
  BY <1>1, <1>2, <1>4 DEF PipeInv, PipeTypes, MarkedStored, EmptyHanded
<1> QED
  BY <1>2, <1>7, <1>8 DEF PipeInv

LEMMA IngestKeeps ==
  ASSUME AuditTypes, PipeInv, NEW c \in Caller, Ingest(c)
  PROVE  PipeInv'
<1>1. CASE SlotWaitCancelled(c)
  <2>1. /\ step[c] = "slot" /\ Leave(c, "OVERLOADED")
        /\ SameLines /\ UNCHANGED <<log, seen, loop, phase>>
    BY <1>1 DEF SlotWaitCancelled, AtStep, SameLines, batcherVars, storage
  <2> QED
    BY <2>1, LeaveKeeps
<1> QED
  BY <1>1, TakeSlotKeeps, DedupKeeps, HandOverKeeps, AnsweredKeeps, GiveUpKeeps DEF Ingest

-----------------------------------------------------------------------------
(* The loop.  A step of it takes k items off the front of the pipeline and *)
(* tells their owners; to tell a success it must have stored their events. *)
Flushes(k, told) ==
    /\ Shift(Pipeline, Pipeline', k)
    /\ \A c \in Caller : answer'[c] = IF Owns(Pipeline, k, c) THEN told ELSE answer[c]
    /\ \A e \in Event : log[e] > 0 => log'[e] > 0
    /\ told = "ok" => \A i \in 1 .. k : log'[Pipeline[i].event] > 0
    /\ \A e \in seen' : e \in seen \/ log'[e] > 0
    /\ loop # "exited"
    /\ UNCHANGED <<step, position, acked, hand, verdicts, phase>>

LEMMA FlushesKeeps ==
  ASSUME AuditTypes, PipeInv, NEW k, NEW told \in {"ok", "failed"}, Flushes(k, told)
  PROVE  Placed' /\ PassedStored' /\ AllServed' /\ AckMeansLogged'
<1>1. /\ UNCHANGED <<step, position, acked, hand, verdicts, phase>>
      /\ \A e \in Event : log[e] > 0 => log'[e] > 0
      /\ loop # "exited" /\ phase # "down"
  BY DEF Flushes, PipeInv, Placed
<1>2. Placed'
  BY <1>1 DEF PipeInv, Placed
<1>3. PassedStored'
  <2> SUFFICES ASSUME NEW w \in Writer, step[w] # "out", NEW i \in 1 .. position[w] - 1
               PROVE  log'[Request[i]] > 0
    BY <1>1 DEF PassedStored
  <2>1. log[Request[i]] > 0
    BY DEF PipeInv, PassedStored
  <2>2. position[w] \in 0 .. Len(Request)
    BY DEF PipeInv, PipeTypes
  <2>3. Request[i] \in Event
    BY <2>2, Callers DEF Event
  <2> QED
    BY <1>1, <2>1, <2>3
<1>4. ASSUME NEW c \in Caller PROVE IsServed(c)'
  <2>1. EventOf(c)' = EventOf(c)
    BY <1>1 DEF EventOf, Held
  <2>2. Served(Pipeline, c, step[c], answer[c], EventOf(c), log[EventOf(c)] > 0, loop # "exited")
    BY DEF PipeInv, AllServed, IsServed
  <2>3. step[c] = "wait" /\ log[EventOf(c)] > 0 => log'[EventOf(c)] > 0
    BY <1>1, EventTyped DEF PipeInv
  <2>4. Owns(Pipeline, k, c) /\ told = "ok" => log'[EventOf(c)] > 0
    <3> SUFFICES ASSUME Owns(Pipeline, k, c), told = "ok" PROVE log'[EventOf(c)] > 0
      OBVIOUS
    <3>1. PICK i \in 1 .. k : Pipeline[i].owner = c
      BY DEF Owns
    <3>2. log'[Pipeline[i].event] > 0
      BY DEF Flushes
    <3>3. i \in 1 .. Len(Pipeline)
      BY PipelineTyped DEF Flushes, Shift, PipeInv
    <3>4. Pipeline[i].event = EventOf(c)
      BY <2>2, <3>1, <3>3 DEF Served
    <3> QED
      BY <3>2, <3>4
  <2>5. Len(Pipeline) \in Nat /\ Shift(Pipeline, Pipeline', k)
    BY PipelineTyped DEF Flushes, PipeInv
  <2>6. answer'[c] = IF Owns(Pipeline, k, c) THEN told ELSE answer[c]
    BY DEF Flushes
  <2>7. (loop' # "exited") => (loop # "exited")
    BY <1>1
  <2>8. Served(Pipeline', c, step[c], answer'[c], EventOf(c), log'[EventOf(c)] > 0,
               loop' # "exited")
    <3> DEFINE stored   == log[EventOf(c)] > 0
               stored2  == log'[EventOf(c)] > 0
               running  == loop # "exited"
               running2 == loop' # "exited"
    <3>1. /\ Served(Pipeline, c, step[c], answer[c], EventOf(c), stored, running)
          /\ step[c] = "wait" /\ stored => stored2
          /\ Owns(Pipeline, k, c) /\ told = "ok" => stored2
          /\ running2 => running
      BY <2>2, <2>3, <2>4, <2>7
    <3> HIDE DEF stored, stored2, running, running2
    <3>2. Served(Pipeline', c, step[c], answer'[c], EventOf(c), stored2, running2)
      BY <2>5, <2>6, <3>1, ServedShift
    <3> QED
      BY <3>2 DEF stored2, running2
  <2> QED
    BY <1>1, <2>1, <2>8 DEF IsServed
<1>5. AckMeansLogged'
  <2>1. \A b \in Body : Handled(b)' => log'[b] > 0
    BY <1>1 DEF PipeInv, AckMeansLogged, Handled, Event
  <2>2. \A e \in acked' \cup seen' : log'[e] > 0
    BY <1>1 DEF PipeInv, PipeTypes, AckMeansLogged, Flushes
  <2> QED
    BY <2>1, <2>2 DEF AckMeansLogged
<1> QED
  BY <1>2, <1>3, <1>4, <1>5 DEF AllServed

(* A step that tells nobody anything.                                      *)
LEMMA TellsNobody ==
  ASSUME UNCHANGED answer
  PROVE  \A c \in Caller : answer'[c] = IF Owns(Pipeline, 0, c) THEN "failed" ELSE answer[c]
BY DEF Owns

LEMMA SelectKeeps ==
  ASSUME AuditTypes, PipeInv, Select, UNCHANGED <<vars, callers, marking, storage, phase>>
  PROVE  PipeInv'
<1>1. /\ loop = "select" /\ batch = <<>> /\ marking = <<>>
      /\ batch' = active /\ active' = <<>>
      /\ loop' \in {"select", "exited", "flush", "drain"}
      /\ active # <<>> => loop' \in Flushing
  BY DEF Select, OnTick, OnKick, OnStop, Swap, PipeInv, EmptyHanded, Flushing
<1>2. UNCHANGED <<step, answer, position, acked, hand, verdicts, phase, marking, log, seen>>
  BY DEF vars, flowVars, callers, storage
<1>3. Shift(Pipeline, Pipeline', 0)
  BY <1>1, <1>2, SwapShifts DEF PipeInv, PipeTypes, Pipeline
<1>4. Flushes(0, "failed")
  BY <1>1, <1>2, <1>3, TellsNobody DEF Flushes
<1>5. Placed' /\ PassedStored' /\ AllServed' /\ AckMeansLogged'
  BY <1>4, FlushesKeeps
<1>6. PipeTypes' /\ MarkedStored'
  BY <1>1, <1>2 DEF PipeInv, PipeTypes, MarkedStored, Flushing
<1>7. EmptyHanded'
  BY <1>1, <1>2 DEF EmptyHanded, Flushing
<1> QED
  BY <1>5, <1>6, <1>7 DEF PipeInv

LEMMA EndFlushKeeps ==
  ASSUME AuditTypes, PipeInv, marking = <<>>, EndFlush,
         UNCHANGED <<vars, callers, marking, storage, phase>>
  PROVE  PipeInv'
<1>1. /\ loop \in Flushing /\ batch = <<>> /\ loop' \in {"exited", "select"}
      /\ active' = active /\ batch' = batch
      /\ UNCHANGED <<step, answer, position, acked, hand, verdicts, phase, marking, log, seen>>
  BY DEF EndFlush, vars, flowVars, callers, storage
<1>2. Shift(Pipeline, Pipeline', 0)
  <2>1. Pipeline' = Pipeline
    BY <1>1 DEF Pipeline
  <2>2. Len(Pipeline) \in Nat
    BY PipelineTyped DEF PipeInv
  <2> QED
    BY <2>1, <2>2 DEF Shift
<1>3. Flushes(0, "failed")
  BY <1>1, <1>2, TellsNobody DEF Flushes, Flushing
<1>4. Placed' /\ PassedStored' /\ AllServed' /\ AckMeansLogged'
  BY <1>3, FlushesKeeps
<1>5. PipeTypes' /\ MarkedStored' /\ EmptyHanded'
  BY <1>1 DEF PipeInv, PipeTypes, MarkedStored, EmptyHanded
<1> QED
  BY <1>4, <1>5 DEF PipeInv

(* An insert stores every event of its chunk and removes none; it adds no  *)
(* row for an event that carries its time and has one.                     *)
LEMMA InsertedFacts ==
  ASSUME PipeTypes, NEW items \in Seq(Entry)
  PROVE  /\ Inserted(items) \in [Event -> Nat]
         /\ \A e \in Event : log[e] > 0 \/ e \in EventsOf(items) => Inserted(items)[e] > 0
         /\ \A e \in Event \ Unstamped : Inserted(items)[e] <= 1 \/ Inserted(items)[e] = log[e]
<1>1. log \in [Event -> Nat]
  BY DEF PipeTypes
<1>2. ASSUME NEW e \in EventsOf(items)
      PROVE  Occurrences(e, items) \in Nat /\ Occurrences(e, items) > 0
  <2> DEFINE places == {i \in DOMAIN items : items[i].event = e}
  <2>1. DOMAIN items = 1 .. Len(items) /\ Len(items) \in Nat
    OBVIOUS
  <2>2. IsFiniteSet(1 .. Len(items))
    BY <2>1, FS_Interval
  <2>3. IsFiniteSet(places)
    BY <2>1, <2>2, FS_Subset
  <2>4. places # {}
    BY <1>2 DEF EventsOf
  <2>5. Cardinality(places) \in Nat /\ Cardinality(places) # 0
    BY <2>3, <2>4, FS_CardinalityType, FS_EmptySet
  <2> QED
    BY <2>5 DEF Occurrences
<1>3. ASSUME NEW e \in Event
      PROVE  Inserted(items)[e] = IF e \notin EventsOf(items) THEN log[e]
                                  ELSE IF e \in Unstamped THEN log[e] + Occurrences(e, items)
                                  ELSE 1
  BY DEF Inserted
<1>4. \A e \in Event : Inserted(items)[e] \in Nat
  BY <1>1, <1>2, <1>3
<1>5. Inserted(items) \in [Event -> Nat]
  BY <1>4 DEF Inserted
<1>6. \A e \in Event : log[e] > 0 \/ e \in EventsOf(items) => Inserted(items)[e] > 0
  BY <1>1, <1>2, <1>3
<1>7. \A e \in Event \ Unstamped : Inserted(items)[e] <= 1 \/ Inserted(items)[e] = log[e]
  BY <1>1, <1>3
<1> QED
  BY <1>5, <1>6, <1>7

LEMMA InsertKeeps ==
  ASSUME AuditTypes, PipeInv, NEW outcome \in PublishOutcome, InsertBatch(outcome)
  PROVE  PipeInv'
<1> DEFINE k == IF Len(batch) < MaxSize THEN Len(batch) ELSE MaxSize
<1>1. active \in Seq(Entry) /\ batch \in Seq(Entry) /\ k \in 0 .. Len(batch)
  BY MaxSizeAssumption DEF PipeInv, PipeTypes
<1>2. Chunk = SubSeq(batch, 1, k)
  BY DEF Chunk, FirstOf
<1>3. /\ Chunk \in Seq(Entry) /\ Len(Chunk) = k
      /\ \A i \in 1 .. k : Chunk[i] = batch[i]
      /\ SubSeq(batch, k + 1, Len(batch)) \in Seq(Entry)
      /\ Shift(Line(<<>>, batch, active),
               Line(Chunk, SubSeq(batch, k + 1, Len(batch)), active), 0)
      /\ Shift(Line(<<>>, batch, active),
               Line(<<>>, SubSeq(batch, k + 1, Len(batch)), active), k)
  BY <1>1, <1>2, ChunkShifts
<1>4. /\ marking = <<>> /\ loop \in Flushing /\ active' = active /\ loop' = loop
      /\ batch' = SubSeq(batch, k + 1, Len(batch))
      /\ UNCHANGED <<step, position, acked, hand, verdicts, seen, phase>>
  BY <1>3 DEF InsertBatch, DropChunk, flowVars
<1>5. log' = log \/ log' = Inserted(Chunk)
  BY DEF InsertBatch
<1>6. log' \in [Event -> Nat] /\ \A e \in Event : log[e] > 0 => log'[e] > 0
  BY <1>3, <1>5, InsertedFacts DEF PipeInv, PipeTypes
<1>7. /\ DOMAIN Chunk = 1 .. k /\ \A i \in 1 .. k : Chunk[i] \in Entry
  BY <1>3
<1>8. loop # "exited" /\ loop # "select"
  BY <1>4 DEF Flushing
<1>9. CASE outcome = "confirmed"
  <2>1. marking' = Chunk /\ answer' = answer /\ log' = Inserted(Chunk)
    BY <1>9 DEF InsertBatch
  <2>2. Shift(Pipeline, Pipeline', 0)
    BY <1>3, <1>4, <2>1 DEF Pipeline
  <2>3. Flushes(0, "failed")
    BY <1>4, <1>6, <1>8, <2>1, <2>2, TellsNobody DEF Flushes
  <2>4. Placed' /\ PassedStored' /\ AllServed' /\ AckMeansLogged'
    BY <2>3, FlushesKeeps
  <2>5. MarkedStored'
    <3> SUFFICES ASSUME NEW i \in 1 .. k PROVE log'[Chunk[i].event] > 0
      BY <1>3, <2>1 DEF MarkedStored
    <3>1. Chunk[i].event \in EventsOf(Chunk) /\ Chunk[i].event \in Event
      BY <1>7 DEF EventsOf, Entry
    <3> QED
      BY <1>3, <2>1, <3>1, InsertedFacts DEF PipeInv
  <2>6. PipeTypes' /\ EmptyHanded'
    BY <1>3, <1>4, <1>6, <1>8, <2>1 DEF PipeInv, PipeTypes, EmptyHanded
  <2> QED
    BY <2>4, <2>5, <2>6 DEF PipeInv
<1>10. CASE outcome # "confirmed"
  <2>1. marking' = <<>> /\ answer' = Tell(Chunk, "failed")
    BY <1>10 DEF InsertBatch
  <2>2. Shift(Pipeline, Pipeline', k)
    BY <1>3, <1>4, <2>1 DEF Pipeline
  <2>3. \A i \in 1 .. k : Pipeline[i] = Chunk[i]
    <3>1. Lists(Pipeline, <<>>, batch, active)
      BY <1>1, <1>4, LineLists DEF Pipeline, PipeInv, PipeTypes
    <3>2. \A i \in 1 .. k : i \in 1 .. Len(Pipeline) /\ Pipeline[i] = batch[i]
      BY <1>1, <3>1 DEF Lists
    <3> QED
      BY <1>3, <3>2
  <2>4. \A c \in Caller : answer'[c] = IF Owns(Pipeline, k, c) THEN "failed" ELSE answer[c]
    BY <1>7, <2>1, <2>3 DEF Tell, Owns
  <2>5. Flushes(k, "failed")
    BY <1>4, <1>6, <1>8, <2>2, <2>4 DEF Flushes
  <2>6. Placed' /\ PassedStored' /\ AllServed' /\ AckMeansLogged'
    BY <2>5, FlushesKeeps
  <2>7. answer' \in [Caller -> Reply]
    BY <2>1 DEF Tell, Reply, PipeInv, PipeTypes
  <2>8. PipeTypes' /\ MarkedStored' /\ EmptyHanded'
    BY <1>3, <1>4, <1>6, <1>8, <2>1, <2>7 DEF PipeInv, PipeTypes, MarkedStored, EmptyHanded
  <2> QED
    BY <2>6, <2>8 DEF PipeInv
<1> QED
  BY <1>9, <1>10

LEMMA MarkKeeps ==
  ASSUME AuditTypes, PipeInv, NEW works, MarkSeen(works)
  PROVE  PipeInv'
<1>1. active \in Seq(Entry) /\ batch \in Seq(Entry) /\ marking \in Seq(Entry)
  BY DEF PipeInv, PipeTypes
<1>2. /\ marking # <<>> /\ marking' = Tail(marking)
      /\ seen' = seen \/ seen' = seen \cup {Head(marking).event}
      /\ answer' = Tell(<<Head(marking)>>, "ok")
      /\ active' = active /\ batch' = batch /\ loop' = loop
      /\ UNCHANGED <<step, position, acked, hand, verdicts, log, phase>>
  BY DEF MarkSeen, flowVars, batcherVars
<1>3. /\ Tail(marking) \in Seq(Entry) /\ Head(marking) = marking[1] /\ Len(marking) \in Nat \ {0}
      /\ Len(Tail(marking)) = Len(marking) - 1
      /\ \A i \in 1 .. Len(marking) - 1 : Tail(marking)[i] = marking[i + 1]
      /\ Shift(Line(marking, batch, active), Line(Tail(marking), batch, active), 1)
  BY <1>1, <1>2, TailShifts
<1>4. marking[1] \in Entry /\ log[marking[1].event] > 0
  BY <1>1, <1>3 DEF PipeInv, MarkedStored
<1>5. Pipeline[1] = marking[1]
  <2>1. Lists(Pipeline, marking, batch, active)
    BY <1>1, LineLists DEF Pipeline
  <2>2. 1 \in 1 .. Len(Pipeline) /\ 1 <= Len(marking)
    BY <1>3, <2>1 DEF Lists
  <2> QED
    BY <2>1, <2>2 DEF Lists
<1>6. \A c \in Caller : answer'[c] = IF Owns(Pipeline, 1, c) THEN "ok" ELSE answer[c]
  <2>1. \A c : Owns(Pipeline, 1, c) <=> marking[1].owner = c
    BY <1>5 DEF Owns
  <2>2. \A c : (\E i \in DOMAIN <<marking[1]>> : <<marking[1]>>[i].owner = c)
                  <=> marking[1].owner = c
    OBVIOUS
  <2> QED
    BY <1>2, <1>3, <2>1, <2>2 DEF Tell
<1>7. Shift(Pipeline, Pipeline', 1)
  BY <1>2, <1>3 DEF Pipeline
<1>8. loop \in Flushing /\ loop # "exited" /\ loop # "select"
  BY <1>2 DEF PipeInv, PipeTypes, EmptyHanded, Flushing
<1>9. Flushes(1, "ok")
  <2>1. \A i \in 1 .. 1 : log'[Pipeline[i].event] > 0
    BY <1>2, <1>4, <1>5
  <2>2. \A e \in seen' : e \in seen \/ log'[e] > 0
    BY <1>2, <1>3, <1>4
  <2> QED
    BY <1>2, <1>6, <1>7, <1>8, <2>1, <2>2 DEF Flushes
<1>10. Placed' /\ PassedStored' /\ AllServed' /\ AckMeansLogged'
  BY <1>9, FlushesKeeps
<1>11. MarkedStored'
  <2> SUFFICES ASSUME NEW i \in 1 .. Len(marking) - 1 PROVE log[Tail(marking)[i].event] > 0
    BY <1>2, <1>3 DEF MarkedStored
  <2>1. Tail(marking)[i] = marking[i + 1] /\ i + 1 \in 1 .. Len(marking)
    BY <1>3
  <2> QED
    BY <2>1 DEF PipeInv, MarkedStored
<1>12. answer' \in [Caller -> Reply] /\ seen' \subseteq Event
  BY <1>2, <1>3, <1>4 DEF Tell, Reply, PipeInv, PipeTypes, Entry
<1>13. PipeTypes' /\ EmptyHanded'
  BY <1>2, <1>3, <1>8, <1>12 DEF PipeInv, PipeTypes, EmptyHanded
<1> QED
  BY <1>10, <1>11, <1>13 DEF PipeInv

LEMMA LoopKeeps ==
  ASSUME AuditTypes, PipeInv, Loop
  PROVE  PipeInv'
BY SelectKeeps, EndFlushKeeps, InsertKeeps, MarkKeeps DEF Loop, Flush

-----------------------------------------------------------------------------
(* A process that exits, and its successor.                                *)
LEMMA EmptyPipeline ==
  ASSUME NEW c, NEW event, NEW stored, NEW running
  PROVE  Served(Line(<<>>, <<>>, <<>>), c, "out", "none", event, stored, running)
<1>1. Len(Line(<<>>, <<>>, <<>>)) = 0
  BY LineLists DEF Line
<1> QED
  BY <1>1 DEF Served

LEMMA ExitKeeps ==
  ASSUME PipeInv, Exit
  PROVE  PipeInv'
<1>1. /\ step' = [c \in Caller |-> "out"] /\ answer' = [c \in Caller |-> "none"]
      /\ active' = <<>> /\ batch' = <<>> /\ marking' = <<>>
      /\ loop' = "exited" /\ phase' = "down"
      /\ UNCHANGED <<position, acked, log, seen, hand, verdicts>>
  BY DEF Exit, storage, flowVars
<1>2. PipeTypes' /\ MarkedStored' /\ EmptyHanded'
  BY <1>1 DEF PipeInv, PipeTypes, MarkedStored, EmptyHanded, Step, Reply
<1>3. Placed' /\ PassedStored'
  BY <1>1, Callers DEF Placed, PassedStored
<1>4. AllServed'
  BY <1>1, EmptyPipeline DEF AllServed, IsServed, Pipeline
<1>5. AckMeansLogged'
  BY <1>1 DEF PipeInv, AckMeansLogged, Handled
<1> QED
  BY <1>2, <1>3, <1>4, <1>5 DEF PipeInv

LEMMA RestartKeeps ==
  ASSUME PipeInv, Restart
  PROVE  PipeInv'
<1>1. /\ phase = "down" /\ phase' = "up" /\ active' = <<>> /\ batch' = <<>> /\ loop' = "select"
      /\ UNCHANGED <<step, answer, position, acked, marking, log, seen, hand, verdicts>>
  BY DEF Restart, vars, flowVars, callers, storage
<1>2. /\ marking = <<>> /\ \A c \in Caller : step[c] = "out"
  BY <1>1 DEF PipeInv, Placed, EmptyHanded
<1>3. \A c \in Caller : answer[c] = "none"
  BY <1>2 DEF PipeInv, AllServed, IsServed, Served
<1>4. PipeTypes' /\ MarkedStored' /\ EmptyHanded'
  BY <1>1, <1>2 DEF PipeInv, PipeTypes, MarkedStored, EmptyHanded
<1>5. Placed' /\ PassedStored'
  BY <1>1, <1>2, Callers DEF Placed, PassedStored
<1>6. AllServed'
  BY <1>1, <1>2, <1>3, EmptyPipeline DEF AllServed, IsServed, Pipeline
<1>7. AckMeansLogged'
  BY <1>1 DEF PipeInv, AckMeansLogged, Handled
<1> QED
  BY <1>4, <1>5, <1>6, <1>7 DEF PipeInv

-----------------------------------------------------------------------------
LEMMA PipeStep ==
  ASSUME AuditTypes, PipeInv, [AuditNext]_auditVars
  PROVE  PipeInv'
<1>1. CASE \/ \E b \in Body, outcome \in PublishOutcome : Publish(b, outcome) /\ UNCHANGED rest
           \/ \E c \in Consumer : \/ Take(c) /\ UNCHANGED rest
                                  \/ Dispatch(c) /\ UNCHANGED rest
                                  \/ ChannelLost(c) \/ ChannelCloses(c) \/ TakeBack(c)
           \/ Backoff /\ UNCHANGED rest
           \/ Operator /\ UNCHANGED rest
           \/ Cancel \/ CloseIngestor \/ Expired
           \/ UNCHANGED auditVars
  BY <1>1, SurroundingsAside, AsideKeeps
<1>2. CASE \/ \E c \in Consumer : phase # "down" /\ (ConsumerEnters(c) \/ Ingest(c))
           \/ \E w \in Writer : WriterEnters(w) \/ Ingest(w)
  BY <1>2, EnterKeeps, IngestKeeps, Callers
<1>3. CASE Loop
  BY <1>3, LoopKeeps
<1>4. CASE Exit \/ Restart
  BY <1>4, ExitKeeps, RestartKeeps
<1> QED
  BY <1>1, <1>2, <1>3, <1>4 DEF AuditNext, Deliveries

LEMMA PipeInvariant == AuditSpec => []PipeInv
<1>1. AuditInit => PipeInv
  <2> SUFFICES ASSUME AuditInit PROVE PipeInv
    OBVIOUS
  <2>1. /\ step = [c \in Caller |-> "out"] /\ answer = [c \in Caller |-> "none"]
        /\ position = [w \in Writer |-> 0]
        /\ active = <<>> /\ batch = <<>> /\ marking = <<>> /\ loop = "select"
        /\ log = [e \in Event |-> 0] /\ seen = {} /\ acked = {} /\ verdicts = {} /\ phase = "up"
    BY DEF AuditInit, PipelineInit, BatcherInit, Init
  <2>2. PipeTypes /\ MarkedStored /\ EmptyHanded
    BY <2>1, Callers DEF PipeTypes, MarkedStored, EmptyHanded, Step, Reply
  <2>3. Placed /\ PassedStored
    BY <2>1, Callers DEF Placed, PassedStored
  <2>4. AllServed
    BY <2>1, EmptyPipeline DEF AllServed, IsServed, Pipeline
  <2>5. AckMeansLogged
    BY <2>1 DEF AckMeansLogged, Handled
  <2> QED
    BY <2>2, <2>3, <2>4, <2>5 DEF PipeInv
<1>2. FlowInv /\ PipeInv /\ [AuditNext]_auditVars => PipeInv'
  BY PipeStep DEF FlowInv
<1> QED
  BY <1>1, <1>2, FlowInvariant, PTL DEF AuditSpec

(* Acknowledged is stored: whoever is told of a success, the broker by an  *)
(* ack or a client by its response, finds the event in PostgreSQL, however *)
(* many callers share the batcher and wherever the process crashes.        *)
THEOREM AcknowledgedIsStored == AuditSpec => []AckMeansLogged
<1>1. PipeInv => AckMeansLogged
  BY DEF PipeInv
<1> QED
  BY <1>1, PipeInvariant, PTL

(* An event that carries its time of occurrence has at most one row,       *)
(* although it may be delivered, inserted and retried any number of times. *)
THEOREM StampedEventsAreLoggedOnce == AuditSpec => []LoggedOnce
<1>1. AuditInit => LoggedOnce
  BY DEF AuditInit, LoggedOnce
<1>2. PipeInv /\ LoggedOnce /\ [AuditNext]_auditVars => LoggedOnce'
  <2> SUFFICES ASSUME PipeInv, LoggedOnce, [AuditNext]_auditVars PROVE LoggedOnce'
    OBVIOUS
  <2>1. CASE \E outcome \in PublishOutcome : InsertBatch(outcome)
    <3>1. log' = log \/ log' = Inserted(Chunk)
      BY <2>1 DEF InsertBatch
    <3>2. Chunk \in Seq(Entry)
      <4> DEFINE k == IF Len(batch) < MaxSize THEN Len(batch) ELSE MaxSize
      <4>1. active \in Seq(Entry) /\ batch \in Seq(Entry) /\ k \in 0 .. Len(batch)
        BY MaxSizeAssumption DEF PipeInv, PipeTypes
      <4> QED
        BY <4>1, ChunkShifts DEF Chunk, FirstOf
    <3>3. \A e \in Event \ Unstamped :
             Inserted(Chunk)[e] <= 1 \/ Inserted(Chunk)[e] = log[e]
      BY <3>2, InsertedFacts DEF PipeInv
    <3> QED
      BY <3>1, <3>3 DEF LoggedOnce
  <2>2. CASE ~ \E outcome \in PublishOutcome : InsertBatch(outcome)
    <3>1. log' = log
      BY <2>2 DEF AuditNext, rest, storage, Deliveries, ChannelLost, ChannelCloses, TakeBack,
         ConsumerEnters, WriterEnters, Ingest, TakeSlot, Dedup, HandOver, Answered, GiveUp,
         SlotWaitCancelled, Loop, Flush, MarkSeen, Cancel, CloseIngestor, Exit, Restart,
         Expired, auditVars, ingestVars
    <3> QED
      BY <3>1 DEF LoggedOnce
  <2> QED
    BY <2>1, <2>2
<1> QED
  BY <1>1, <1>2, PipeInvariant, PTL DEF AuditSpec

(* Nobody waits in vain: while the loop runs, a caller that waits has its  *)
(* answer or an item in the pipeline.                                      *)
THEOREM NobodyIsForgotten == AuditSpec => []NobodyForgotten
<1>1. PipeInv => NobodyForgotten
  <2> SUFFICES ASSUME PipeInv, NEW c \in Caller, step[c] = "wait", answer[c] = "none",
                      loop # "exited"
               PROVE  \E i \in InPipeline : i.owner = c
    BY DEF NobodyForgotten, AtStep
  <2>1. active \in Seq(Entry) /\ batch \in Seq(Entry) /\ marking \in Seq(Entry)
    BY DEF PipeInv, PipeTypes
  <2>2. PICK i \in 1 .. Len(Pipeline) : Pipeline[i].owner = c
    BY DEF PipeInv, AllServed, IsServed, Served
  <2>3. Lists(Pipeline, marking, batch, active)
    BY <2>1, LineLists DEF Pipeline
  <2>4. Pipeline[i] \in ToSet(active) \cup ToSet(batch) \cup ToSet(marking)
    <3>1. /\ DOMAIN active = 1 .. Len(active) /\ DOMAIN batch = 1 .. Len(batch)
          /\ DOMAIN marking = 1 .. Len(marking)
      BY <2>1
    <3>2. \/ i \in 1 .. Len(marking) /\ Pipeline[i] = marking[i]
          \/ i - Len(marking) \in 1 .. Len(batch) /\ Pipeline[i] = batch[i - Len(marking)]
          \/ /\ i - (Len(marking) + Len(batch)) \in 1 .. Len(active)
             /\ Pipeline[i] = active[i - (Len(marking) + Len(batch))]
      BY <2>3 DEF Lists
    <3> QED
      BY <3>1, <3>2 DEF ToSet
  <2> QED
    BY <2>2, <2>4 DEF InPipeline
<1> QED
  BY <1>1, PipeInvariant, PTL
=============================================================================
