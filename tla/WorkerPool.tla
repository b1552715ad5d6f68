----------------------------- MODULE WorkerPool -----------------------------
(***************************************************************************)
(* pkg/workerpool: submitters, the buffered queue, workers that come and   *)
(* go, the autoscaler and Close.  Every step is one channel operation, one *)
(* atomic operation or one locked section of the code.                     *)
(*                                                                         *)
(* A select with several ready cases takes any of them, so the actions of  *)
(* one select are alternatives, not a priority order.  The idle timer may  *)
(* fire whenever a worker waits.                                           *)
(***************************************************************************)
EXTENDS Integers, FiniteSets, Sequences

CONSTANTS Task,        \* tasks, each submitted at most once
          Permanent,   \* the workers New starts, cfg.Min of them
          Transient,   \* workers the autoscaler may start; a retired one may start again
          PoolMax,     \* cfg.Max, after defaults()
          QueueSize,   \* cfg.QueueSize, after defaults()
          None         \* no task in a worker's hands

Worker == Permanent \cup Transient
PoolMin == Cardinality(Permanent)

ASSUME PoolAssumption ==
    /\ IsFiniteSet(Permanent) /\ IsFiniteSet(Transient)
    /\ Permanent # {} /\ Permanent \cap Transient = {}
    /\ PoolMax \in Nat /\ PoolMax >= PoolMin
    /\ PoolMin + Cardinality(Transient) >= PoolMax
    /\ QueueSize \in Nat \ {0}
    /\ None \notin Task

VARIABLES call,      \* how far the Submit or TrySubmit of each task is
          queue,     \* p.queue
          workers,   \* p.workers
          at,        \* where each worker goroutine is
          hand,      \* the task it executes
          scaler,    \* the autoscaler: waiting, growing or gone
          grow,      \* workers the current maybeGrow may still start
          closing,   \* Close: open, stopped (close(p.stop) done) or closed (returned)
          runs,      \* how often each task has been executed to its end
          before     \* tasks whose Submit had returned true when Close was called

poolVars == <<call, queue, workers, at, hand, scaler, grow, closing, runs, before>>

Init ==
    /\ call = [t \in Task |-> "none"]
    /\ queue = <<>>
    /\ workers = PoolMin
    /\ at = [w \in Worker |-> IF w \in Permanent THEN "select" ELSE "off"]
    /\ hand = [w \in Worker |-> None]
    /\ scaler = "select" /\ grow = 0
    /\ closing = "open"
    /\ runs = [t \in Task |-> 0]
    /\ before = {}

Stopped == closing # "open"
Full == Len(queue) >= QueueSize
Alive == {w \in Worker : at[w] # "off"}

tasks == <<call, queue, runs>>
scaling == <<scaler, grow>>
shutdown == <<closing, before>>

-----------------------------------------------------------------------------
(* Submit and TrySubmit.                                                   *)

Submit(t) ==
    /\ call[t] = "none"
    /\ call' = [call EXCEPT ![t] = "blocked"]
    /\ UNCHANGED <<queue, workers, at, hand, scaling, shutdown, runs>>

(* p.queue <- t: a stopped pool accepts it too, if there is room.          *)
Accept(t) ==
    /\ ~Full
    /\ queue' = Append(queue, t)
    /\ call' = [call EXCEPT ![t] = "accepted"]
    /\ UNCHANGED <<workers, at, hand, scaling, shutdown, runs>>

Refuse(t) ==
    /\ call' = [call EXCEPT ![t] = "refused"]
    /\ UNCHANGED <<queue, workers, at, hand, scaling, shutdown, runs>>

\* Faulty variant: a blocked Submit does not listen to stop.
SubmitReturnsDeaf(t) == call[t] = "blocked" /\ Accept(t)

SubmitReturns(t) == /\ call[t] = "blocked"
                    /\ \/ Accept(t)
                       \/ Stopped /\ Refuse(t)

\* Faulty variant: a shed task is reported as accepted.
TrySubmitAlwaysTrue(t) ==
    /\ call[t] = "none"
    /\ \/ Accept(t)
       \/ /\ Full /\ call' = [call EXCEPT ![t] = "accepted"]
          /\ UNCHANGED <<queue, workers, at, hand, scaling, shutdown, runs>>

(* The default case is taken when no other is ready.                       *)
TrySubmit(t) == /\ call[t] = "none"
                /\ \/ Accept(t)
                   \/ (Stopped \/ Full) /\ Refuse(t)

-----------------------------------------------------------------------------
(* One worker: execute, retire when idle, drain on stop.                   *)

Goto(w, place) == at' = [at EXCEPT ![w] = place]

(* t := <-p.queue, in the select of runWorker or in the one of drain.      *)
Take(w) ==
    /\ at[w] \in {"select", "drain"} /\ hand[w] = None
    /\ queue # <<>>
    /\ hand' = [hand EXCEPT ![w] = Head(queue)]
    /\ queue' = Tail(queue)
    /\ UNCHANGED <<call, workers, at, scaling, shutdown, runs>>

(* The task returns.                                                       *)
Finish(w) ==
    /\ hand[w] # None
    /\ runs' = [runs EXCEPT ![hand[w]] = @ + 1]
    /\ hand' = [hand EXCEPT ![w] = None]
    /\ UNCHANGED <<call, queue, workers, at, scaling, shutdown>>

\* Faulty variant: a permanent worker retires as well, if there are enough.
IdleOutAnyWorker(w) ==
    /\ at[w] = "select" /\ hand[w] = None
    /\ workers > PoolMin
    /\ Goto(w, "retiring")
    /\ UNCHANGED <<tasks, workers, hand, scaling, shutdown>>

(* The idle timer fires: a transient worker above the minimum decides to   *)
(* go; others go back to the select.                                       *)
IdleOut(w) ==
    /\ at[w] = "select" /\ hand[w] = None
    /\ w \in Transient /\ workers > PoolMin
    /\ Goto(w, "retiring")
    /\ UNCHANGED <<tasks, workers, hand, scaling, shutdown>>

SeeStop(w) ==
    /\ at[w] = "select" /\ hand[w] = None
    /\ Stopped
    /\ Goto(w, "drain")
    /\ UNCHANGED <<tasks, workers, hand, scaling, shutdown>>

\* Faulty variant: a stopped worker leaves the queue as it is.
ExitWithoutDraining(w) ==
    /\ at[w] = "retiring" \/ (at[w] = "drain" /\ hand[w] = None)
    /\ workers' = workers - 1
    /\ Goto(w, "off")
    /\ UNCHANGED <<tasks, hand, scaling, shutdown>>

(* p.workers.Add(-1) and return: after retiring, or when drain finds the   *)
(* queue empty.                                                            *)
Exit(w) ==
    /\ \/ at[w] = "retiring"
       \/ at[w] = "drain" /\ hand[w] = None /\ queue = <<>>
    /\ workers' = workers - 1
    /\ Goto(w, "off")
    /\ UNCHANGED <<tasks, hand, scaling, shutdown>>

Work(w) == Take(w) \/ Finish(w) \/ SeeStop(w) \/ Exit(w)

-----------------------------------------------------------------------------
(* The autoscaler.                                                         *)

(* A tick: maybeGrow looks at the backlog and at the number of workers.    *)
Tick ==
    /\ scaler = "select"
    /\ queue # <<>> /\ workers < PoolMax
    /\ scaler' = "growing"
    /\ grow' = Len(queue) \div 2 + 1
    /\ UNCHANGED <<tasks, workers, at, hand, shutdown>>

(* One round of the loop, spawn(true).                                     *)
Spawn(w) ==
    /\ scaler = "growing" /\ grow > 0 /\ workers < PoolMax
    /\ w \in Transient /\ at[w] = "off"
    /\ workers' = workers + 1
    /\ Goto(w, "select")
    /\ grow' = grow - 1
    /\ UNCHANGED <<tasks, hand, scaler, shutdown>>

GrownUp ==
    /\ scaler = "growing" /\ (grow = 0 \/ workers >= PoolMax)
    /\ scaler' = "select" /\ grow' = 0
    /\ UNCHANGED <<tasks, workers, at, hand, shutdown>>

StopScaling ==
    /\ scaler = "select" /\ Stopped
    /\ scaler' = "off"
    /\ UNCHANGED <<tasks, workers, at, hand, grow, shutdown>>

Autoscale == Tick \/ (\E w \in Transient : Spawn(w)) \/ GrownUp \/ StopScaling

-----------------------------------------------------------------------------
(* Close: stop intake, then wait for every goroutine of the pool.          *)

Close ==
    /\ closing = "open"
    /\ closing' = "stopped"
    /\ before' = {t \in Task : call[t] = "accepted"}
    /\ UNCHANGED <<tasks, workers, at, hand, scaling>>

CloseReturns ==
    /\ closing = "stopped" /\ Alive = {} /\ scaler = "off"
    /\ closing' = "closed"
    /\ UNCHANGED <<tasks, workers, at, hand, scaling, before>>

Next ==
    \/ \E t \in Task : Submit(t) \/ SubmitReturns(t) \/ TrySubmit(t)
    \/ \E w \in Worker : Work(w) \/ IdleOut(w)
    \/ Autoscale
    \/ Close \/ CloseReturns

(* Goroutines run, tasks return (their computation is bounded by the demo  *)
(* latencies and the worker's context), tickers tick.  A stop channel that *)
(* stays ready is chosen some time against a ticker that is ready as well: *)
(* select chooses at random.  Nobody has to call Submit or Close, and idle *)
(* timers need not fire.                                                   *)
Fairness ==
    /\ \A t \in Task : WF_poolVars(SubmitReturns(t))
    /\ \A w \in Worker : WF_poolVars(Work(w))
    /\ WF_poolVars(Autoscale) /\ SF_poolVars(StopScaling)
    /\ WF_poolVars(CloseReturns)

Spec == Init /\ [][Next]_poolVars /\ Fairness

-----------------------------------------------------------------------------
TypeOK ==
    /\ call \in [Task -> {"none", "blocked", "accepted", "refused"}]
    /\ queue \in Seq(Task) /\ Len(queue) <= QueueSize
    /\ workers \in Nat
    /\ at \in [Worker -> {"off", "select", "retiring", "drain"}]
    /\ hand \in [Worker -> Task \cup {None}]
    /\ scaler \in {"select", "growing", "off"} /\ grow \in Nat
    /\ closing \in {"open", "stopped", "closed"}
    /\ runs \in [Task -> Nat]
    /\ before \subseteq Task
    /\ \A w \in Worker : at[w] \in {"off", "retiring"} => hand[w] = None

InQueue(t) == \E i \in DOMAIN queue : queue[i] = t
Held(t) == \E w \in Worker : hand[w] = t

(* An accepted task is in the queue, in one worker's hands or done, in     *)
(* exactly one way and once; a refused one is nowhere and never runs.      *)
RunsOnce ==
    /\ \A i, j \in DOMAIN queue : queue[i] = queue[j] => i = j
    /\ \A v, w \in Worker : hand[v] = hand[w] /\ hand[v] # None => v = w
    /\ \A t \in Task :
          /\ call[t] = "accepted" <=> InQueue(t) \/ Held(t) \/ runs[t] = 1
          /\ ~(InQueue(t) /\ Held(t))
          /\ runs[t] \in {0, 1}
          /\ runs[t] = 1 => ~InQueue(t) /\ ~Held(t)

(* The counter is the number of live workers and never exceeds Max; until  *)
(* Close, Min of them are there and stay, whoever retires together.        *)
WithinLimits ==
    /\ workers = Cardinality(Alive)
    /\ workers <= PoolMax
    /\ ~Stopped => workers >= PoolMin

(* Work accepted before Close was called has run when Close returns.       *)
DrainsEarlier == closing = "closed" => \A t \in before : runs[t] = 1

(* What drain promises ("accepted work is never dropped by a graceful      *)
(* stop", workerpool.go:183).                                              *)
NeverDropped == closing = "closed" => \A t \in Task : call[t] = "accepted" => runs[t] = 1

(* Submit never blocks for ever, Close returns, and work accepted by a     *)
(* pool that is not closed is executed.                                    *)
NothingHangs ==
    /\ \A t \in Task : call[t] = "blocked" ~> call[t] \in {"accepted", "refused"}
    /\ Stopped ~> closing = "closed"
    /\ \A t \in Task : call[t] = "accepted" ~> runs[t] = 1 \/ Stopped
=============================================================================
