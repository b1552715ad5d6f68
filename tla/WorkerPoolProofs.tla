-------------------------- MODULE WorkerPoolProofs --------------------------
(***************************************************************************)
(* The safety of the worker pool for every number of tasks and workers and *)
(* every limit: nothing accepted is lost or run twice while the pool       *)
(* stands, its size stays within Min and Max, and Close returns with       *)
(* everything done that was accepted before it was called.                 *)
(***************************************************************************)
EXTENDS WorkerPool, SequenceTheorems, FiniteSetTheorems, TLAPS

LEMMA Sizes == PoolMin \in Nat /\ PoolMax \in Nat /\ PoolMin <= PoolMax /\ QueueSize \in Nat
  BY PoolAssumption, FS_CardinalityType DEF PoolMin

(* The two channel operations on the queue.                                *)
LEMMA QueueAppend ==
    ASSUME queue \in Seq(Task), NEW t \in Task, queue' = Append(queue, t)
    PROVE  /\ queue' \in Seq(Task) /\ Len(queue') = Len(queue) + 1
           /\ DOMAIN queue = 1 .. Len(queue) /\ DOMAIN queue' = 1 .. Len(queue) + 1
           /\ \A i \in 1 .. Len(queue) : queue'[i] = queue[i]
           /\ queue'[Len(queue) + 1] = t
           /\ Len(queue) \in Nat
  BY AppendProperties, LenProperties

LEMMA QueueTake ==
    ASSUME queue \in Seq(Task), queue # <<>>, queue' = Tail(queue)
    PROVE  /\ queue' \in Seq(Task) /\ Len(queue') = Len(queue) - 1
           /\ DOMAIN queue = 1 .. Len(queue) /\ DOMAIN queue' = 1 .. Len(queue) - 1
           /\ \A i \in 1 .. Len(queue) - 1 : queue'[i] = queue[i + 1]
           /\ Head(queue) \in Task /\ Head(queue) = queue[1]
           /\ Len(queue) \in Nat \ {0}
  BY HeadTailProperties, LenProperties, EmptySeq

-----------------------------------------------------------------------------
(* Types.                                                                  *)

TaskTypes ==
    /\ call \in [Task -> {"none", "blocked", "accepted", "refused"}]
    /\ queue \in Seq(Task) /\ Len(queue) <= QueueSize
    /\ runs \in [Task -> Nat]
    /\ hand \in [Worker -> Task \cup {None}]

ScaleTypes ==
    /\ workers \in Int
    /\ at \in [Worker -> {"off", "select", "retiring", "drain"}]
    /\ scaler \in {"select", "growing", "off"} /\ grow \in Nat
    /\ closing \in {"open", "stopped", "closed"}
    /\ before \subseteq Task
    /\ \A w \in Worker : at[w] \in {"off", "retiring"} => hand[w] = None

LEMMA TaskTypesStep == TaskTypes /\ [Next]_poolVars => TaskTypes'
  <1> SUFFICES ASSUME TaskTypes, [Next]_poolVars PROVE TaskTypes'
    OBVIOUS
  <1> USE DEF TaskTypes, tasks
  <1>1. CASE UNCHANGED <<call, queue, runs, hand>>
    BY <1>1
  <1>2. ASSUME NEW t \in Task, Submit(t) PROVE TaskTypes'
    BY <1>2 DEF Submit
  <1>3. ASSUME NEW t \in Task, Accept(t) PROVE TaskTypes'
    <2>1. Len(queue') <= QueueSize /\ queue' \in Seq(Task)
      BY <1>3, Sizes, QueueAppend DEF Accept, Full
    <2> QED
      BY <1>3, <2>1 DEF Accept
  <1>4. ASSUME NEW t \in Task, Refuse(t) PROVE TaskTypes'
    BY <1>4 DEF Refuse
  <1>5. ASSUME NEW w \in Worker, Take(w) PROVE TaskTypes'
    <2>1. Len(queue') <= QueueSize /\ queue' \in Seq(Task) /\ Head(queue) \in Task
      BY <1>5, Sizes, QueueTake DEF Take
    <2> QED
      BY <1>5, <2>1 DEF Take
  <1>6. ASSUME NEW w \in Worker, Finish(w) PROVE TaskTypes'
    BY <1>6 DEF Finish
  <1>7. ASSUME NEW w \in Worker, IdleOut(w) \/ SeeStop(w) \/ Exit(w) PROVE TaskTypes'
    BY <1>1, <1>7 DEF IdleOut, SeeStop, Exit
  <1>8. CASE Autoscale \/ Close \/ CloseReturns
    BY <1>1, <1>8 DEF Autoscale, Tick, Spawn, GrownUp, StopScaling, Close, CloseReturns
  <1>9. CASE UNCHANGED poolVars
    BY <1>1, <1>9 DEF poolVars
  <1> QED
    BY <1>2, <1>3, <1>4, <1>5, <1>6, <1>7, <1>8, <1>9 DEF Next, SubmitReturns, TrySubmit, Work

LEMMA ScaleTypesStep == TaskTypes /\ ScaleTypes /\ [Next]_poolVars => ScaleTypes'
  <1> SUFFICES ASSUME TaskTypes, ScaleTypes, [Next]_poolVars PROVE ScaleTypes'
    OBVIOUS
  <1> USE DEF ScaleTypes, tasks, scaling, shutdown
  <1>0. hand \in [Worker -> Task \cup {None}]
    BY DEF TaskTypes
  <1>1. CASE UNCHANGED <<workers, at, hand, scaling, shutdown>>
    BY <1>1
  <1>2. ASSUME NEW t \in Task, Submit(t) \/ SubmitReturns(t) \/ TrySubmit(t) PROVE ScaleTypes'
    BY <1>1, <1>2 DEF Submit, SubmitReturns, TrySubmit, Accept, Refuse
  <1>3. ASSUME NEW w \in Worker, Take(w) \/ Finish(w) PROVE ScaleTypes'
    BY <1>0, <1>3 DEF Take, Finish
  <1>4. ASSUME NEW w \in Worker, IdleOut(w) \/ SeeStop(w) PROVE ScaleTypes'
    BY <1>0, <1>4 DEF IdleOut, SeeStop, Goto
  <1>5. ASSUME NEW w \in Worker, Exit(w) PROVE ScaleTypes'
    BY <1>0, <1>5 DEF Exit, Goto
  <1>6. CASE Tick
    <2>1. grow' \in Nat
      BY <1>6, LenProperties DEF Tick, TaskTypes
    <2> QED
      BY <1>6, <2>1 DEF Tick
  <1>7. ASSUME NEW w \in Transient, Spawn(w) PROVE ScaleTypes'
    <2>1. w \in Worker
      BY DEF Worker
    <2> QED
      BY <1>0, <1>7, <2>1 DEF Spawn, Goto
  <1>8. CASE GrownUp \/ StopScaling
    BY <1>8 DEF GrownUp, StopScaling
  <1>9. CASE Close \/ CloseReturns
    BY <1>9 DEF Close, CloseReturns
  <1>10. CASE UNCHANGED poolVars
    BY <1>10 DEF poolVars
  <1> QED
    BY <1>2, <1>3, <1>4, <1>5, <1>6, <1>7, <1>8, <1>9, <1>10 DEF Next, Work, Autoscale


-----------------------------------------------------------------------------
(* Every accepted task is in one place.                                    *)

NoDuplicates == \A i, j \in DOMAIN queue : queue[i] = queue[j] => i = j
OneHand == \A v, w \in Worker : hand[v] = hand[w] /\ hand[v] # None => v = w

(* A task that is accepted was nowhere before, so it joins the queue once. *)
LEMMA AcceptStep ==
    ASSUME TaskTypes, RunsOnce, NEW t \in Task, call[t] # "accepted", Accept(t)
    PROVE  RunsOnce'
  <1> USE DEF TaskTypes
  <1>1. ~InQueue(t) /\ ~Held(t) /\ runs[t] = 0
    BY DEF RunsOnce
  <1>2. UNCHANGED <<hand, runs>> /\ call' = [call EXCEPT ![t] = "accepted"]
    BY DEF Accept
  <1>q. /\ DOMAIN queue = 1 .. Len(queue) /\ DOMAIN queue' = 1 .. Len(queue) + 1
        /\ \A i \in 1 .. Len(queue) : queue'[i] = queue[i]
        /\ queue'[Len(queue) + 1] = t
        /\ Len(queue) \in Nat
    BY QueueAppend DEF Accept
  <1>3. \A u \in Task : InQueue(u)' <=> InQueue(u) \/ u = t
    BY <1>q DEF InQueue
  <1>4. NoDuplicates'
    <2> SUFFICES ASSUME NEW i \in 1 .. Len(queue) + 1, NEW j \in 1 .. Len(queue) + 1,
                        queue'[i] = queue'[j], i # j
                 PROVE  FALSE
      BY <1>q DEF NoDuplicates
    <2>1. CASE i \in 1 .. Len(queue) /\ j \in 1 .. Len(queue)
      BY <1>q, <2>1 DEF RunsOnce
    <2>2. CASE i = Len(queue) + 1
      <3>1. j \in DOMAIN queue /\ queue[j] = t
        BY <1>q, <2>2
      <3> QED
        BY <1>1, <3>1 DEF InQueue
    <2>3. CASE j = Len(queue) + 1
      <3>1. i \in DOMAIN queue /\ queue[i] = t
        BY <1>q, <2>3
      <3> QED
        BY <1>1, <3>1 DEF InQueue
    <2> QED
      BY <1>q, <2>1, <2>2, <2>3
  <1>5. \A u \in Task : Held(u)' <=> Held(u)
    BY <1>2 DEF Held
  <1> QED
    BY <1>1, <1>2, <1>3, <1>4, <1>5 DEF RunsOnce, NoDuplicates

(* The head of the queue moves into one worker's hands.                    *)
LEMMA TakeStep ==
    ASSUME TaskTypes, RunsOnce, NEW w \in Worker, Take(w)
    PROVE  RunsOnce'
  <1> USE DEF TaskTypes
  <1> DEFINE h == Head(queue)
  <1>q. /\ DOMAIN queue = 1 .. Len(queue) /\ DOMAIN queue' = 1 .. Len(queue) - 1
        /\ \A i \in 1 .. Len(queue) - 1 : queue'[i] = queue[i + 1]
        /\ h \in Task /\ h = queue[1]
        /\ Len(queue) \in Nat \ {0}
    BY QueueTake DEF Take
  <1>1. /\ UNCHANGED <<call, runs>>
        /\ hand[w] = None /\ hand' = [hand EXCEPT ![w] = h]
    BY DEF Take
  <1> HIDE DEF h
  <1>d. NoDuplicates /\ OneHand
    BY DEF RunsOnce, NoDuplicates, OneHand
  <1>2. InQueue(h) /\ ~Held(h) /\ runs[h] # 1
    <2>1. InQueue(h)
      BY <1>q DEF InQueue
    <2> QED
      BY <1>q, <2>1 DEF RunsOnce
  <1>3. \A u \in Task : InQueue(u)' <=> InQueue(u) /\ u # h
    <2>1. ASSUME NEW u \in Task, InQueue(u)' PROVE InQueue(u) /\ u # h
      <3>1. PICK i \in 1 .. Len(queue) - 1 : queue[i + 1] = u
        BY <1>q, <2>1 DEF InQueue
      <3>2. i + 1 \in 1 .. Len(queue) /\ 1 \in 1 .. Len(queue) /\ i + 1 # 1
        BY <1>q
      <3> QED
        BY <1>q, <1>d, <3>1, <3>2 DEF InQueue, NoDuplicates
    <2>2. ASSUME NEW u \in Task, InQueue(u), u # h PROVE InQueue(u)'
      <3>1. PICK i \in 1 .. Len(queue) : queue[i] = u
        BY <1>q, <2>2 DEF InQueue
      <3>2. i - 1 \in 1 .. Len(queue) - 1 /\ (i - 1) + 1 = i
        BY <1>q, <2>2, <3>1
      <3> QED
        BY <1>q, <3>1, <3>2 DEF InQueue
    <2> QED
      BY <2>1, <2>2
  <1>4. NoDuplicates'
    <2> SUFFICES ASSUME NEW i \in 1 .. Len(queue) - 1, NEW j \in 1 .. Len(queue) - 1,
                        queue[i + 1] = queue[j + 1]
                 PROVE  i = j
      BY <1>q DEF NoDuplicates
    <2>1. i + 1 \in 1 .. Len(queue) /\ j + 1 \in 1 .. Len(queue)
      BY <1>q
    <2>2. i + 1 = j + 1
      BY <1>q, <1>d, <2>1 DEF NoDuplicates
    <2> QED
      BY <2>2
  <1>5. \A u \in Task : Held(u)' <=> Held(u) \/ u = h
    BY <1>1, PoolAssumption DEF Held
  <1>6. OneHand'
    BY <1>1, <1>d, <1>2, <1>q DEF OneHand, Held
  <1> QED
    BY <1>q, <1>1, <1>2, <1>3, <1>4, <1>5, <1>6 DEF RunsOnce, NoDuplicates, OneHand

(* The task of one worker is done, and in nobody else's hands.             *)
LEMMA FinishStep ==
    ASSUME TaskTypes, RunsOnce, NEW w \in Worker, Finish(w)
    PROVE  RunsOnce'
  <1> USE DEF TaskTypes
  <1> DEFINE h == hand[w]
  <1>1. /\ UNCHANGED <<call, queue>>
        /\ h \in Task /\ h # None
        /\ hand' = [hand EXCEPT ![w] = None]
        /\ runs' = [runs EXCEPT ![h] = @ + 1]
    BY DEF Finish
  <1>d. OneHand
    BY DEF RunsOnce, OneHand
  <1>2. Held(h) /\ ~InQueue(h) /\ runs[h] = 0 /\ call[h] = "accepted"
    <2>1. Held(h)
      BY DEF Held
    <2> QED
      BY <1>1, <2>1 DEF RunsOnce
  <1> HIDE DEF h
  <1>3. \A u \in Task : Held(u)' <=> Held(u) /\ u # h
    BY <1>1, <1>d, PoolAssumption DEF Held, OneHand, h
  <1>4. OneHand'
    BY <1>1, <1>d DEF OneHand
  <1>5. \A u \in Task : InQueue(u)' <=> InQueue(u)
    BY <1>1 DEF InQueue
  <1>6. runs'[h] = 1 /\ \A u \in Task : u # h => runs'[u] = runs[u]
    BY <1>1, <1>2
  <1> QED
    BY <1>1, <1>2, <1>3, <1>4, <1>5, <1>6 DEF RunsOnce, OneHand

(* Everything else moves no task.                                          *)
LEMMA RunsOnceStep == TaskTypes /\ RunsOnce /\ [Next]_poolVars => RunsOnce'
  <1> SUFFICES ASSUME TaskTypes, RunsOnce, [Next]_poolVars PROVE RunsOnce'
    OBVIOUS
  <1> USE DEF tasks
  <1>1. CASE UNCHANGED <<call, queue, runs, hand>>
    BY <1>1 DEF RunsOnce, InQueue, Held
  <1>2. ASSUME NEW t \in Task, Submit(t) \/ (call[t] # "accepted" /\ Refuse(t)) PROVE RunsOnce'
    <2>1. /\ UNCHANGED <<queue, runs, hand>> /\ call[t] # "accepted" /\ call'[t] # "accepted"
          /\ \A u \in Task : u # t => call'[u] = call[u]
      BY <1>2 DEF Submit, Refuse, TaskTypes
    <2> QED
      BY <2>1 DEF RunsOnce, InQueue, Held
  <1>3. ASSUME NEW t \in Task, SubmitReturns(t) \/ TrySubmit(t) PROVE RunsOnce'
    BY <1>2, <1>3, AcceptStep DEF SubmitReturns, TrySubmit
  <1>4. ASSUME NEW w \in Worker, Work(w) \/ IdleOut(w) PROVE RunsOnce'
    BY <1>1, <1>4, TakeStep, FinishStep DEF Work, IdleOut, SeeStop, Exit
  <1>5. CASE Autoscale \/ Close \/ CloseReturns
    BY <1>1, <1>5 DEF Autoscale, Tick, Spawn, GrownUp, StopScaling, Close, CloseReturns
  <1>6. CASE UNCHANGED poolVars
    BY <1>1, <1>6 DEF poolVars
  <1> QED
    BY <1>2, <1>3, <1>4, <1>5, <1>6 DEF Next


-----------------------------------------------------------------------------
(* The size of the pool.                                                   *)

Counted == workers = Cardinality(Alive) /\ workers <= PoolMax

(* Permanent workers never retire; a closed pool is empty and stays so.    *)
Staffed ==
    /\ \A w \in Permanent : at[w] # "retiring"
    /\ ~Stopped => \A w \in Permanent : at[w] = "select"
    /\ closing = "closed" => Alive = {} /\ scaler = "off"

LEMMA AliveFinite == IsFiniteSet(Worker) /\ IsFiniteSet(Alive) /\ Cardinality(Alive) \in Nat
  <1>1. IsFiniteSet(Worker)
    BY PoolAssumption, FS_Union DEF Worker
  <1>2. Alive \in SUBSET Worker
    BY DEF Alive
  <1> QED
    BY <1>1, <1>2, FS_Subset, FS_CardinalityType

(* The counter follows the goroutines, and only the autoscaler raises it,  *)
(* which looks at the ceiling before each worker.                          *)
LEMMA CountedStep == ScaleTypes /\ Counted /\ [Next]_poolVars => Counted'
  <1> SUFFICES ASSUME ScaleTypes, Counted, [Next]_poolVars PROVE Counted'
    OBVIOUS
  <1>0. /\ at \in [Worker -> {"off", "select", "retiring", "drain"}]
        /\ workers = Cardinality(Alive) /\ workers <= PoolMax
        /\ workers \in Int /\ PoolMax \in Int
    BY Sizes DEF ScaleTypes, Counted
  <1>1. ASSUME UNCHANGED workers, Alive' = Alive PROVE Counted'
    BY <1>0, <1>1 DEF Counted
  <1>2. CASE UNCHANGED <<workers, at>>
    BY <1>1, <1>2 DEF Alive
  <1>3. ASSUME NEW t \in Task, Submit(t) \/ SubmitReturns(t) \/ TrySubmit(t) PROVE Counted'
    BY <1>2, <1>3 DEF Submit, SubmitReturns, TrySubmit, Accept, Refuse
  <1>4. ASSUME NEW w \in Worker, Take(w) \/ Finish(w) PROVE Counted'
    BY <1>2, <1>4 DEF Take, Finish
  <1>5. ASSUME NEW w \in Worker, IdleOut(w) \/ SeeStop(w) PROVE Counted'
    <2>1. UNCHANGED workers /\ Alive' = Alive
      BY <1>0, <1>5 DEF IdleOut, SeeStop, Goto, Alive
    <2> QED
      BY <1>1, <2>1
  <1>6. ASSUME NEW w \in Worker, Exit(w) PROVE Counted'
    <2>1. w \in Alive /\ Alive' = Alive \ {w} /\ workers' = workers - 1
      BY <1>0, <1>6 DEF Exit, Goto, Alive
    <2>2. Cardinality(Alive') = Cardinality(Alive) - 1
      BY <2>1, AliveFinite, FS_RemoveElement
    <2> QED
      BY <1>0, <2>1, <2>2 DEF Counted
  <1>7. ASSUME NEW w \in Transient, Spawn(w) PROVE Counted'
    <2>1. /\ w \notin Alive /\ Alive' = Alive \cup {w}
          /\ workers' = workers + 1 /\ workers < PoolMax
      BY <1>0, <1>7 DEF Spawn, Goto, Alive, Worker
    <2>2. Cardinality(Alive') = Cardinality(Alive) + 1
      BY <2>1, AliveFinite, FS_AddElement
    <2> QED
      BY <1>0, <2>1, <2>2 DEF Counted
  <1>8. CASE Tick \/ GrownUp \/ StopScaling \/ Close \/ CloseReturns
    BY <1>2, <1>8 DEF Tick, GrownUp, StopScaling, Close, CloseReturns
  <1>9. CASE UNCHANGED poolVars
    BY <1>2, <1>9 DEF poolVars
  <1> QED
    BY <1>3, <1>4, <1>5, <1>6, <1>7, <1>8, <1>9 DEF Next, Work, Autoscale

LEMMA StaffedStep == ScaleTypes /\ Staffed /\ [Next]_poolVars => Staffed'
  <1> SUFFICES ASSUME ScaleTypes, Staffed, [Next]_poolVars PROVE Staffed'
    OBVIOUS
  <1> USE DEF scaling, shutdown, Stopped
  <1>0. /\ at \in [Worker -> {"off", "select", "retiring", "drain"}]
        /\ \A w \in Permanent : at[w] # "retiring" /\ w \notin Transient /\ w \in Worker
        /\ ~Stopped => \A w \in Permanent : at[w] = "select"
        /\ closing = "closed" => (\A w \in Worker : at[w] = "off") /\ scaler = "off"
    BY PoolAssumption DEF ScaleTypes, Staffed, Alive, Worker
  <1>1. ASSUME /\ \A w \in Permanent : at'[w] # "retiring"
               /\ ~Stopped' => \A w \in Permanent : at'[w] = "select"
               /\ closing' = "closed" => (\A w \in Worker : at'[w] = "off") /\ scaler' = "off"
        PROVE  Staffed'
    BY <1>1 DEF Staffed, Alive
  <1>2. CASE UNCHANGED <<at, scaler, closing>>
    BY <1>0, <1>1, <1>2
  <1>3. ASSUME NEW t \in Task, Submit(t) \/ SubmitReturns(t) \/ TrySubmit(t) PROVE Staffed'
    BY <1>2, <1>3 DEF Submit, SubmitReturns, TrySubmit, Accept, Refuse
  <1>4. ASSUME NEW w \in Worker, Take(w) \/ Finish(w) PROVE Staffed'
    BY <1>2, <1>4 DEF Take, Finish
  <1>5. ASSUME NEW w \in Worker, IdleOut(w) PROVE Staffed'
    BY <1>0, <1>1, <1>5 DEF IdleOut, Goto
  <1>6. ASSUME NEW w \in Worker, SeeStop(w) \/ Exit(w) PROVE Staffed'
    BY <1>0, <1>1, <1>6 DEF SeeStop, Exit, Goto
  <1>7. ASSUME NEW w \in Transient, Spawn(w) PROVE Staffed'
    BY <1>0, <1>1, <1>7 DEF Spawn, Goto
  <1>8. CASE Tick \/ GrownUp \/ StopScaling
    BY <1>0, <1>1, <1>8 DEF Tick, GrownUp, StopScaling
  <1>9. CASE Close
    BY <1>0, <1>1, <1>9 DEF Close
  <1>10. CASE CloseReturns
    BY <1>0, <1>1, <1>10 DEF CloseReturns, Alive
  <1>11. CASE UNCHANGED poolVars
    BY <1>2, <1>11 DEF poolVars
  <1> QED
    BY <1>3, <1>4, <1>5, <1>6, <1>7, <1>8, <1>9, <1>10, <1>11 DEF Next, Work, Autoscale

-----------------------------------------------------------------------------
(* What Close owes to the tasks accepted before it: as long as one of them *)
(* is queued, a permanent worker has not left.                             *)
Owed ==
    /\ \A t \in before : call[t] = "accepted"
    /\ (\A w \in Permanent : at[w] = "off") => \A t \in before : ~InQueue(t)

LEMMA OwedStep ==
    TaskTypes /\ ScaleTypes /\ Staffed /\ Owed /\ [Next]_poolVars => Owed'
  <1> SUFFICES ASSUME TaskTypes, ScaleTypes, Staffed, Owed, [Next]_poolVars PROVE Owed'
    OBVIOUS
  <1> USE DEF tasks, scaling, shutdown
  <1>0. /\ at \in [Worker -> {"off", "select", "retiring", "drain"}]
        /\ queue \in Seq(Task) /\ before \subseteq Task
        /\ call \in [Task -> {"none", "blocked", "accepted", "refused"}]
        /\ Permanent # {} /\ \A w \in Permanent : w \notin Transient /\ w \in Worker
    BY PoolAssumption DEF TaskTypes, ScaleTypes, Worker
  <1>1. ASSUME UNCHANGED <<before, at>>, \A t \in before : call[t] = "accepted" => call'[t] = "accepted",
               \A t \in before : InQueue(t)' => InQueue(t)
        PROVE  Owed'
    BY <1>1 DEF Owed
  <1>2. ASSUME UNCHANGED <<before, queue, call>>, \A w \in Permanent : at'[w] = "off" => at[w] = "off"
        PROVE  Owed'
    BY <1>2 DEF Owed, InQueue
  <1>3. ASSUME NEW t \in Task, Submit(t) \/ (call[t] # "accepted" /\ Refuse(t)) PROVE Owed'
    BY <1>0, <1>1, <1>3 DEF Submit, Refuse, Owed, InQueue
  <1>4. ASSUME NEW t \in Task, call[t] # "accepted", Accept(t) PROVE Owed'
    <2>1. t \notin before /\ UNCHANGED <<before, at>> /\ call' = [call EXCEPT ![t] = "accepted"]
      BY <1>4 DEF Owed, Accept
    <2>2. /\ DOMAIN queue = 1 .. Len(queue) /\ DOMAIN queue' = 1 .. Len(queue) + 1
          /\ \A i \in 1 .. Len(queue) : queue'[i] = queue[i]
          /\ queue'[Len(queue) + 1] = t /\ Len(queue) \in Nat
      BY <1>0, <1>4, QueueAppend DEF Accept
    <2>3. \A u \in before : InQueue(u)' => InQueue(u)
      BY <2>1, <2>2 DEF InQueue
    <2> QED
      BY <1>0, <1>1, <2>1, <2>3
  <1>5. ASSUME NEW w \in Worker, Take(w) PROVE Owed'
    <2>1. /\ DOMAIN queue = 1 .. Len(queue) /\ DOMAIN queue' = 1 .. Len(queue) - 1
          /\ \A i \in 1 .. Len(queue) - 1 : queue'[i] = queue[i + 1]
          /\ Len(queue) \in Nat \ {0}
      BY <1>0, <1>5, QueueTake DEF Take
    <2>2. \A i \in 1 .. Len(queue) - 1 : i + 1 \in 1 .. Len(queue)
      BY <2>1
    <2>3. \A u \in before : InQueue(u)' => InQueue(u)
      BY <2>1, <2>2 DEF InQueue
    <2> QED
      BY <1>1, <1>5, <2>3 DEF Take
  <1>6. ASSUME NEW w \in Worker, Finish(w) \/ IdleOut(w) \/ SeeStop(w) PROVE Owed'
    BY <1>0, <1>2, <1>6 DEF Finish, IdleOut, SeeStop, Goto
  <1>7. ASSUME NEW w \in Worker, Exit(w) PROVE Owed'
    <2>1. CASE w \in Permanent
      <3>1. queue = <<>> /\ UNCHANGED <<queue, call, before>>
        BY <1>7, <2>1 DEF Exit, Staffed
      <3>2. DOMAIN queue = {}
        BY <3>1
      <3> QED
        BY <3>1, <3>2 DEF Owed, InQueue
    <2>2. CASE w \notin Permanent
      BY <1>0, <1>2, <1>7, <2>2 DEF Exit, Goto
    <2> QED
      BY <2>1, <2>2
  <1>8. ASSUME NEW w \in Transient, Spawn(w) PROVE Owed'
    BY <1>0, <1>2, <1>8 DEF Spawn, Goto
  <1>9. CASE Tick \/ GrownUp \/ StopScaling \/ CloseReturns
    BY <1>2, <1>9 DEF Tick, GrownUp, StopScaling, CloseReturns
  <1>10. CASE Close
    <2>1. /\ \A t \in before' : call'[t] = "accepted"
          /\ \A w \in Permanent : at'[w] = "select"
      BY <1>10 DEF Close, Staffed, Stopped
    <2> QED
      BY <1>0, <2>1 DEF Owed
  <1>11. CASE UNCHANGED poolVars
    BY <1>2, <1>11 DEF poolVars
  <1> QED
    BY <1>3, <1>4, <1>5, <1>6, <1>7, <1>8, <1>9, <1>10, <1>11
    DEF Next, SubmitReturns, TrySubmit, Work, Autoscale

-----------------------------------------------------------------------------
(* The inductive invariant and what follows from it.                       *)

PoolInv == TaskTypes /\ ScaleTypes /\ RunsOnce /\ Counted /\ Staffed /\ Owed

LEMMA PoolInit == Init => PoolInv
  <1> SUFFICES ASSUME Init PROVE PoolInv
    OBVIOUS
  <1>1. /\ queue = <<>> /\ queue \in Seq(Task) /\ Len(queue) = 0 /\ DOMAIN queue = {}
    BY EmptySeq DEF Init
  <1>2. TaskTypes /\ ScaleTypes
    BY <1>1, Sizes DEF Init, TaskTypes, ScaleTypes, Worker
  <1>3. RunsOnce
    BY <1>1, PoolAssumption DEF Init, RunsOnce, InQueue, Held
  <1>4. Counted
    <2>1. Alive = Permanent
      BY DEF Init, Alive, Worker
    <2> QED
      BY <2>1, Sizes DEF Init, Counted, PoolMin
  <1>5. Staffed /\ Owed
    BY DEF Init, Staffed, Owed, Stopped, Worker
  <1> QED
    BY <1>2, <1>3, <1>4, <1>5 DEF PoolInv

LEMMA PoolStep == PoolInv /\ [Next]_poolVars => PoolInv'
  BY TaskTypesStep, ScaleTypesStep, RunsOnceStep, CountedStep, StaffedStep, OwedStep DEF PoolInv

LEMMA PoolInvariant == Spec => []PoolInv
  BY PoolInit, PoolStep, PTL DEF Spec

(* The queue never exceeds its size and a worker that leaves has nothing   *)
(* in its hands.                                                           *)
THEOREM PoolTypes == Spec => []TypeOK
  <1>1. PoolInv => TypeOK
    BY AliveFinite DEF PoolInv, TaskTypes, ScaleTypes, Counted, TypeOK
  <1> QED
    BY <1>1, PoolInvariant, PTL

(* Accepted work has exactly one place, for any number of submitters and   *)
(* workers.                                                                *)
THEOREM EveryTaskRunsOnce == Spec => []RunsOnce
  <1>1. PoolInv => RunsOnce
    BY DEF PoolInv
  <1> QED
    BY <1>1, PoolInvariant, PTL

(* The pool keeps within Min and Max through every interleaving of         *)
(* growing, retiring and closing.                                          *)
THEOREM PoolWithinLimits == Spec => []WithinLimits
  <1>1. PoolInv => WithinLimits
    <2> SUFFICES ASSUME PoolInv, ~Stopped PROVE workers >= PoolMin
      BY DEF PoolInv, Counted, WithinLimits
    <2>1. Permanent \in SUBSET Alive
      BY DEF PoolInv, Staffed, Alive, Worker
    <2>2. Cardinality(Permanent) <= Cardinality(Alive)
      BY <2>1, AliveFinite, FS_Subset
    <2> QED
      BY <2>2, AliveFinite, Sizes DEF PoolInv, Counted, PoolMin
  <1> QED
    BY <1>1, PoolInvariant, PTL

(* Close returns with everything done that was accepted before it was      *)
(* called, however many submitters go on.                                  *)
THEOREM CloseDrainsEarlier == Spec => []DrainsEarlier
  <1>1. PoolInv => DrainsEarlier
    <2> SUFFICES ASSUME PoolInv, closing = "closed", NEW t \in before PROVE runs[t] = 1
      BY DEF DrainsEarlier
    <2>1. \A w \in Worker : at[w] = "off"
      BY DEF PoolInv, Staffed, Alive
    <2>2. ~InQueue(t) /\ call[t] = "accepted"
      BY <2>1 DEF PoolInv, Owed, Worker
    <2>3. t \in Task /\ ~Held(t)
      BY <2>1, PoolAssumption DEF PoolInv, ScaleTypes, Held
    <2> QED
      BY <2>2, <2>3 DEF PoolInv, RunsOnce
  <1> QED
    BY <1>1, PoolInvariant, PTL
=============================================================================
