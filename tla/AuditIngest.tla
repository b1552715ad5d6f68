----------------------------- MODULE AuditIngest -----------------------------
(***************************************************************************)
(* The audit service's write path.  AMQP consumers (RunAuditConsumer) and  *)
(* gRPC writers (WriteEvents) call Ingestor.Ingest, which asks Redis       *)
(* whether the event is already stored, hands it to the batcher and waits  *)
(* for the group commit.  Below it are PostgreSQL (`log') and Redis        *)
(* (`seen'), above it the audit flow of AtLeastOnce, whose handler   *)
(* this is.                                                                *)
(*                                                                         *)
(* One process runs all of it, and stops gracefully or crashes: what is in *)
(* memory is lost, the broker, PostgreSQL and Redis remain.                *)
(***************************************************************************)
EXTENDS AtLeastOnce, Batcher

CONSTANTS Poison,      \* bodies that cannot be decoded
          Writer,      \* gRPC calls in progress
          Request,     \* the events of a WriteEvents request, in order
          Unstamped,   \* events that arrive without occurred_at
          Slots,       \* capacity of the amqp-ingest bulkhead
          Nobody       \* the owner of an item whose caller has left

ASSUME AuditAssumption ==
    /\ Poison \subseteq Body
    /\ Consumer \cap Writer = {}
    /\ Slots \in Nat \ {0}
    /\ Nobody \notin Consumer \cup Writer
    /\ Unstamped \cap Body = {}   \* NewAudit stamps every event it sends
    /\ Request \in Seq(ToSet(Request)) \ {<<>>}   \* WriteEvents refuses an empty request

Caller == Consumer \cup Writer
Event  == Body \cup ToSet(Request)

VARIABLES
    step,        \* where each caller is
    answer,      \* the done channel of its item
    position,    \* which event of its request a writer is at, 0 before the first
    marking,     \* items of the chunk just inserted, not yet marked and acked
    log,         \* rows of each event in audit_events
    seen,        \* events with a dedup key in Redis
    acked,       \* requests whose writer was told OK (their events)
    phase        \* of the process: up, stopping (ctx cancelled), down

ingestVars == <<step, answer, position, marking, log, seen, acked, phase>>
auditVars == <<vars, batcherVars, ingestVars>>

Step  == {"out", "slot", "dedup", "add", "wait"}
Reply == {"none", "ok", "failed"}

PipelineInit == /\ step = [c \in Caller |-> "out"]
                /\ answer = [c \in Caller |-> "none"]
                /\ position = [w \in Writer |-> 0]
                /\ marking = <<>>

AuditInit == /\ Init /\ BatcherInit /\ PipelineInit
             /\ log = [e \in Event |-> 0] /\ seen = {} /\ acked = {}
             /\ phase = "up"

EventOf(c) == IF c \in Writer THEN Request[position[c]] ELSE Held(c).body

(* An item keeps its caller only while the caller waits for it.            *)
Item(c) == [event |-> EventOf(c), owner |-> c]
Disown(c, items) ==
    [i \in DOMAIN items |-> IF items[i].owner = c THEN [items[i] EXCEPT !.owner = Nobody]
                                                  ELSE items[i]]
Tell(items, reply) ==
    [c \in Caller |-> IF \E i \in DOMAIN items : items[i].owner = c THEN reply ELSE answer[c]]

AtStep(c, place) == step[c] = place
Goto(c, place) == step' = [step EXCEPT ![c] = place]
storage == <<log, seen>>
callers == <<step, answer, position, acked>>

-----------------------------------------------------------------------------
(* The two ways into Ingest, and out of it.                                *)

(* ACTION: ConsumerEnters.   WHO: RunAuditConsumer's handler, in DoWait    *)
ConsumerEnters(c) ==
    /\ hand[c].stage = "handling" /\ AtStep(c, "out")
    /\ Goto(c, "slot")
    /\ UNCHANGED <<vars, batcherVars, answer, position, acked, marking, storage, phase>>

(* ACTION: WriterEnters.   WHO: WriteEvents; a client may repeat a request *)
WriterEnters(w) ==
    /\ phase = "up" /\ AtStep(w, "out")
    /\ Goto(w, "dedup")
    /\ position' = [position EXCEPT ![w] = 1]
    /\ Spend(IF position[w] = 0 THEN 0 ELSE 1)
    /\ UNCHANGED <<flowVars, accepted, verdicts, batcherVars, answer, acked, marking, storage, phase>>

(* Ingest returns to the handler of a delivery, or to the loop of          *)
(* WriteEvents, which goes on to the next event or gives up at an error.   *)
ReturnToConsumer(c, code) ==
    /\ c \in Consumer
    /\ Handle(c, code)
    /\ Goto(c, "out")
    /\ UNCHANGED <<position, acked>>

ReturnToWriter(w, code) ==
    /\ w \in Writer
    /\ IF code = "none" /\ position[w] < Len(Request)
       THEN /\ position' = [position EXCEPT ![w] = @ + 1]
            /\ Goto(w, "dedup")
            /\ UNCHANGED acked
       ELSE /\ acked' = IF code = "none" THEN acked \cup ToSet(Request) ELSE acked
            /\ Goto(w, "out")
            /\ UNCHANGED position
    /\ UNCHANGED <<flowVars, accepted, verdicts>>

Leave(c, code) == /\ ReturnToConsumer(c, code) \/ ReturnToWriter(c, code)
                  /\ answer' = [answer EXCEPT ![c] = "none"]

-----------------------------------------------------------------------------
(* Ingest.                                                                 *)

InBulkhead == {c \in Consumer : step[c] \in {"dedup", "add", "wait"}}

(* ACTION: TakeSlot.   WHO: DoWait; then the body is decoded               *)
TakeSlot(c) ==
    /\ AtStep(c, "slot") /\ Cardinality(InBulkhead) < Slots
    /\ IF Held(c).body \in Poison
       THEN Leave(c, "INTERNAL") /\ UNCHANGED faults
       ELSE Goto(c, "dedup") /\ UNCHANGED <<vars, answer, position, acked>>
    /\ UNCHANGED <<batcherVars, marking, storage, phase>>

(* ACTION: Dedup.   WHO: Ingest                                            *)
(* A key in Redis says the event is stored; an error counts as no key.     *)
Dedup(c) ==
    /\ AtStep(c, "dedup")
    /\ \/ EventOf(c) \in seen /\ Leave(c, "none") /\ UNCHANGED faults
       \/ /\ Spend(IF EventOf(c) \in seen THEN 1 ELSE 0)
          /\ Goto(c, "add")
          /\ UNCHANGED <<flowVars, accepted, verdicts, answer, position, acked>>
    /\ UNCHANGED <<batcherVars, marking, storage, phase>>

\* Faulty variant: the dedup key is claimed when the event arrives.
HandOverMarking(c) ==
    /\ AtStep(c, "add")
    /\ Add(Item(c))
    /\ Goto(c, "wait")
    /\ seen' = seen \cup {EventOf(c)}
    /\ UNCHANGED <<vars, answer, position, acked, marking, log, phase>>

(* ACTION: HandOver.   WHO: Ingest, b.Add                                  *)
HandOver(c) ==
    /\ AtStep(c, "add")
    /\ Add(Item(c))
    /\ Goto(c, "wait")
    /\ UNCHANGED <<vars, answer, position, acked, marking, storage, phase>>

(* ACTION: Answered.   WHO: Ingest, <-it.done                              *)
Answered(c) ==
    /\ AtStep(c, "wait") /\ answer[c] # "none"
    /\ Leave(c, IF answer[c] = "ok" THEN "none" ELSE "UNAVAILABLE")
    /\ UNCHANGED <<faults, batcherVars, marking, storage, phase>>

(* ACTION: GiveUp.   WHO: Ingest, time.After(FlushTimeout) or ctx.Done     *)
(* The item stays where it is; whatever is sent to its channel is lost.    *)
(* The deadline passes for certain when nobody flushes any more.           *)
GiveUp(c) ==
    /\ AtStep(c, "wait")
    /\ Leave(c, "UNAVAILABLE")
    /\ Spend(IF phase = "up" /\ loop # "exited" THEN 1 ELSE 0)
    /\ active' = Disown(c, active) /\ batch' = Disown(c, batch) /\ marking' = Disown(c, marking)
    /\ UNCHANGED <<loop, kick, stopped, storage, phase>>

(* ACTION: SlotWaitCancelled.   WHO: DoWait, ctx.Done                      *)
SlotWaitCancelled(c) ==
    /\ AtStep(c, "slot") /\ phase = "stopping"
    /\ Leave(c, "OVERLOADED")
    /\ UNCHANGED <<faults, batcherVars, marking, storage, phase>>

Ingest(c) == \/ TakeSlot(c) \/ Dedup(c) \/ HandOver(c) \/ Answered(c)
             \/ GiveUp(c) \/ SlotWaitCancelled(c)

-----------------------------------------------------------------------------
(* The flush.                                                              *)

EventsOf(items) == {items[i].event : i \in DOMAIN items}
Occurrences(e, items) == Cardinality({i \in DOMAIN items : items[i].event = e})

\* Faulty variant: ToEntity drops occurred_at, so that every event is stamped
\* when it is handled.
InsertedRestamped(items) == [e \in Event |-> log[e] + Occurrences(e, items)]

(* ON CONFLICT DO NOTHING on (occurred_at, id): an event that carries its  *)
(* time of occurrence has one row; one that does not is stamped anew at    *)
(* every call, and every stamp is a row.                                   *)
Inserted(items) ==
    [e \in Event |-> IF e \notin EventsOf(items) THEN log[e]
                     ELSE IF e \in Unstamped THEN log[e] + Occurrences(e, items)
                     ELSE 1]

(* ACTION: InsertBatch.   WHO: Ingestor.flush, one statement for the chunk *)
(* The error goes to everyone in the chunk; the rows may be there after all*)
InsertBatch(outcome) ==
    /\ marking = <<>> /\ DropChunk
    /\ log' = IF outcome = "refused" THEN log ELSE Inserted(Chunk)
    /\ IF outcome = "confirmed"
       THEN marking' = Chunk /\ UNCHANGED answer
       ELSE marking' = <<>> /\ answer' = Tell(Chunk, "failed")
    /\ SpendOn(outcome)
    /\ UNCHANGED <<flowVars, accepted, verdicts, active, loop, kick, stopped,
                   step, position, acked, seen, phase>>

\* Faulty variant: a failed mark skips the answer.
MarkSeenOrSkip(works) ==
    /\ marking # <<>>
    /\ marking' = Tail(marking)
    /\ seen' = IF works THEN seen \cup {Head(marking).event} ELSE seen
    /\ answer' = IF works THEN Tell(<<Head(marking)>>, "ok") ELSE answer
    /\ Spend(IF works THEN 0 ELSE 1)
    /\ UNCHANGED <<flowVars, accepted, verdicts, batcherVars, step, position, acked, log, phase>>

(* ACTION: MarkSeen.   WHO: Ingestor.flush, per item, after the insert     *)
(* The mark is best effort; the answer follows it.                         *)
MarkSeen(works) ==
    /\ marking # <<>>
    /\ marking' = Tail(marking)
    /\ seen' = IF works THEN seen \cup {Head(marking).event} ELSE seen
    /\ answer' = Tell(<<Head(marking)>>, "ok")
    /\ Spend(IF works THEN 0 ELSE 1)
    /\ UNCHANGED <<flowVars, accepted, verdicts, batcherVars, step, position, acked, log, phase>>

Flush == \/ \E outcome \in PublishOutcome : InsertBatch(outcome)
         \/ \E works \in BOOLEAN : MarkSeen(works)

Loop == \/ (Select \/ (marking = <<>> /\ EndFlush))
           /\ UNCHANGED <<vars, callers, marking, storage, phase>>
        \/ Flush

-----------------------------------------------------------------------------
(* The process.                                                            *)

(* ACTION: Cancel.   WHO: SIGTERM; the consumers' channels close one by    *)
(* one, the handlers run on with a cancelled context.                      *)
Cancel == /\ phase = "up" /\ phase' = "stopping" /\ Spend(1)
          /\ UNCHANGED <<flowVars, accepted, verdicts, batcherVars, callers, marking, storage>>

ChannelCloses(c) ==
    /\ phase = "stopping" /\ Disconnect(c)
    /\ UNCHANGED <<accepted, verdicts, faults, batcherVars, callers, marking, storage, phase>>

(* ACTION: CloseIngestor.   WHO: runAudit, after the servers have stopped  *)
CloseIngestor ==
    /\ phase = "stopping" /\ (\A w \in Writer : AtStep(w, "out"))
    /\ CloseBatcher
    /\ UNCHANGED <<vars, callers, marking, storage, phase>>

(* ACTION: Exit.   WHO: runAudit when all have returned, or a crash        *)
(* Nobody waits for the handlers of deliveries.                            *)
Exit ==
    /\ phase # "down" /\ phase' = "down"
    /\ Spend(IF phase = "stopping" /\ loop = "exited" THEN 0 ELSE 1)
    /\ step' = [c \in Caller |-> "out"] /\ answer' = [c \in Caller |-> "none"]
    /\ active' = <<>> /\ batch' = <<>> /\ marking' = <<>>
    /\ loop' = "exited" /\ kick' = FALSE /\ stopped' = TRUE
    /\ UNCHANGED <<flowVars, accepted, verdicts, position, acked, storage>>

(* The broker takes back what the dead process held.                       *)
TakeBack(c) ==
    /\ phase = "down" /\ Drop(c)
    /\ UNCHANGED <<accepted, verdicts, faults, batcherVars, callers, marking, storage, phase>>

Restart ==
    /\ phase = "down" /\ (\A c \in Consumer : hand[c] = Idle)
    /\ phase' = "up"
    /\ active' = <<>> /\ batch' = <<>> /\ loop' = "select" /\ kick' = FALSE /\ stopped' = FALSE
    /\ UNCHANGED <<vars, callers, marking, storage>>

-----------------------------------------------------------------------------
(* The flow around it, and Redis forgetting a key (AuditDedupTTL).         *)
rest == <<batcherVars, callers, marking, storage, phase>>

Expired == \E e \in seen : /\ seen' = seen \ {e} /\ Spend(1)
                           /\ UNCHANGED <<flowVars, accepted, verdicts, batcherVars, callers,
                                          marking, log, phase>>

Deliveries(c) == \/ phase = "up" /\ Take(c) /\ UNCHANGED rest
                 \/ phase # "down" /\ Dispatch(c) /\ UNCHANGED rest
                 \/ phase # "down" /\ (ConsumerEnters(c) \/ Ingest(c))

ChannelLost(c) == /\ phase = "up" /\ Disconnect(c) /\ Spend(1)
                  /\ UNCHANGED <<accepted, verdicts, rest>>

AuditNext ==
    \/ \E b \in Body, outcome \in PublishOutcome : Publish(b, outcome) /\ UNCHANGED rest
    \/ \E c \in Consumer : Deliveries(c) \/ ChannelLost(c) \/ ChannelCloses(c) \/ TakeBack(c)
    \/ \E w \in Writer : WriterEnters(w) \/ Ingest(w)
    \/ Backoff /\ UNCHANGED rest
    \/ Operator /\ UNCHANGED rest
    \/ Loop
    \/ Cancel \/ CloseIngestor \/ Exit \/ Restart
    \/ Expired

(* Goroutines run, deadlines pass, TTLs expire, a stopped service is       *)
(* stopped to the end and started again.  Nobody has to write, to redrive  *)
(* or to stop it.                                                          *)
AuditFairness ==
    /\ \A c \in Consumer : /\ WF_auditVars(Deliveries(c))
                           /\ WF_auditVars(ChannelCloses(c)) /\ WF_auditVars(TakeBack(c))
    /\ \A w \in Writer : WF_auditVars(Ingest(w))
    /\ WF_auditVars(Backoff /\ UNCHANGED rest)
    /\ WF_auditVars(Loop)
    /\ WF_auditVars(CloseIngestor)
    /\ WF_auditVars(phase = "stopping" /\ loop = "exited" /\ Exit)
    /\ WF_auditVars(Restart)

AuditSpec == AuditInit /\ [][AuditNext]_auditVars /\ AuditFairness

-----------------------------------------------------------------------------
(* What Ingest acknowledged is in PostgreSQL, through crashes, timeouts,   *)
(* failed inserts and a Redis that forgets or does not answer; and a dedup *)
(* key exists only for what is stored ("keys are only written after        *)
(* successful flush", ingest.go:109).                                      *)
AckMeansLogged ==
    /\ \A b \in Body : Handled(b) => log[b] > 0
    /\ \A e \in acked \cup seen : log[e] > 0

(* "Exactly-once effect under at-least-once delivery" (events.sql:9), for  *)
(* the events that carry their time of occurrence.                         *)
LoggedOnce == \A e \in Event \ Unstamped : log[e] <= 1

(* A caller that waits has its item in the pipeline, or its answer, or the *)
(* loop is gone: the swap and the chunks of a flush forget nobody.         *)
InPipeline == ToSet(active) \cup ToSet(batch) \cup ToSet(marking)
NobodyForgotten ==
    \A c \in Caller : AtStep(c, "wait") =>
        answer[c] # "none" \/ loop = "exited" \/ \E i \in InPipeline : i.owner = c

(* Once the disturbances stop, the service comes to rest with every event  *)
(* logged or waiting for an operator.                                      *)
AuditSettles ==
    <>[](Drained /\ \A b \in accepted : log[b] > 0 \/ Buried(b))
=============================================================================
