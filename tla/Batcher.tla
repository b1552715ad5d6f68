------------------------------ MODULE Batcher -------------------------------
(***************************************************************************)
(* pkg/batcher: producers append to a buffer under a mutex, one goroutine  *)
(* swaps it for an empty one and flushes what it took in chunks.  What a   *)
(* flush does belongs to the module that uses the batcher (AuditIngest).   *)
(*                                                                         *)
(* A kick is sent after the mutex is released.  One that arrives late only *)
(* makes the loop look at the buffer earlier than the ticker would; ticks  *)
(* may come at any time, so append and kick are one step here.             *)
(***************************************************************************)
EXTENDS Integers, SequencesExt

CONSTANT MaxSize     \* cfg.MaxSize, after defaults()

ASSUME MaxSizeAssumption == MaxSize \in Nat \ {0}

VARIABLES active,    \* b.active
          batch,     \* what the loop has taken and not yet flushed
          loop,      \* what the loop is doing
          kick,      \* a token is in b.kick
          stopped    \* b.stop is closed

batcherVars == <<active, batch, loop, kick, stopped>>

Flushing == {"flush", "drain"}

BatcherInit == /\ active = <<>> /\ batch = <<>>
               /\ loop = "select" /\ kick = FALSE /\ stopped = FALSE

(* ACTION: Add.   WHO: any producer, also when the loop is gone            *)
Add(item) ==
    /\ active' = Append(active, item)
    /\ kick' = (kick \/ Len(active') >= MaxSize)
    /\ UNCHANGED <<batch, loop, stopped>>

FirstOf(items) == SubSeq(items, 1, IF Len(items) < MaxSize THEN Len(items) ELSE MaxSize)

(* swapAndFlush takes the whole buffer and goes to flush it, or on to      *)
(* `otherwise' when there is nothing in it.                                *)
\* Faulty variant: one chunk is taken and the rest of the buffer thrown away.
SwapFirstChunk(flushing, otherwise) ==
    /\ batch' = FirstOf(active)
    /\ active' = <<>>
    /\ loop' = IF active = <<>> THEN otherwise ELSE flushing

Swap(flushing, otherwise) ==
    /\ batch' = active
    /\ active' = <<>>
    /\ loop' = IF active = <<>> THEN otherwise ELSE flushing

(* ACTION: Select.   WHO: loop, on a tick, a kick or the stop channel      *)
OnTick == active # <<>> /\ Swap("flush", "select") /\ UNCHANGED <<kick, stopped>>
OnKick == kick /\ kick' = FALSE /\ Swap("flush", "select") /\ UNCHANGED stopped
OnStop == stopped /\ Swap("drain", "exited") /\ UNCHANGED <<kick, stopped>>
Select == loop = "select" /\ (OnTick \/ OnKick \/ OnStop)

(* ACTION: CloseBatcher.   WHO: Close; it then waits for the loop to exit  *)
CloseBatcher == /\ ~stopped /\ stopped' = TRUE
                /\ UNCHANGED <<active, batch, loop, kick>>

(* The chunk the loop flushes next.                                        *)
Chunk == FirstOf(batch)
DropChunk == /\ loop \in Flushing /\ batch # <<>>
             /\ batch' = SubSeq(batch, Len(Chunk) + 1, Len(batch))

(* ACTION: EndFlush.   WHO: loop, when swapAndFlush returns                *)
EndFlush == /\ loop \in Flushing /\ batch = <<>>
            /\ loop' = IF loop = "drain" THEN "exited" ELSE "select"
            /\ UNCHANGED <<active, batch, kick, stopped>>
=============================================================================
