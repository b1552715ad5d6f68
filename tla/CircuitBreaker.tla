--------------------------- MODULE CircuitBreaker ---------------------------
(***************************************************************************)
(* pkg/circuitbreaker: the atomics of one breaker and the calls that go    *)
(* through it.  Every step is one atomic operation of the code; a caller   *)
(* may be suspended between any two of them.                               *)
(*                                                                         *)
(* A transition takes b.mu, wins or loses the compare-and-swap of the      *)
(* state, and writes the counters of the new state before it unlocks.  The *)
(* state changes under b.mu only, so locking and the swap are one step;    *)
(* the mutex is held exactly while a caller is at one of the later stores. *)
(*                                                                         *)
(* Time is one bit: whether a cooldown has passed since the stored         *)
(* openedAt.  It starts true, because openedAt starts at 1970.             *)
(***************************************************************************)
EXTENDS Integers, FiniteSets

CONSTANTS Caller,             \* goroutines that may be inside Do at once
          FailureThreshold,   \* cfg.FailureThreshold, after defaults()
          HalfOpenProbes      \* cfg.HalfOpenProbes, after defaults()

ASSUME BreakerAssumption ==
    /\ IsFiniteSet(Caller)
    /\ FailureThreshold \in Nat \ {0}
    /\ HalfOpenProbes \in Nat \ {0}

VARIABLES state,       \* b.state
          failures,    \* b.failures
          successes,   \* b.successes
          probes,      \* b.probes
          cooled,      \* time.Since(b.openedAt) >= cfg.Cooldown
          pc,          \* what each caller does next
          probing      \* whether the caller's deferred probes.Add(-1) is due

counters == <<failures, successes, probes, cooled>>
breakerVars == <<state, counters, pc, probing>>

State == {"Closed", "Open", "HalfOpen"}

(* The stores a transition makes while it holds b.mu.                      *)
Storing == {"storeOpenedAt", "storeSuccesses", "storeProbes", "storeFailures"}

Location == Storing \cup
    {"idle", "readOpenedAt", "promote", "admit", "refuse", "call",
     "succeeded", "countSuccess", "resetFailures", "close",
     "failed", "countFailure", "trip", "reopen", "return"}

BreakerInit ==
    /\ state = "Closed"
    /\ failures = 0 /\ successes = 0 /\ probes = 0
    /\ cooled = TRUE
    /\ pc = [c \in Caller |-> "idle"]
    /\ probing = [c \in Caller |-> FALSE]

At(c, place) == pc[c] = place
Goto(c, place) == pc' = [pc EXCEPT ![c] = place]

(* Do ends: the deferred decrement first, if the call was a probe.         *)
Leaving(c) == IF probing[c] THEN "return" ELSE "idle"

Unlocked == \A c \in Caller : pc[c] \notin Storing

(* b.transition(from, to): a loser of the race goes on to `lost`.          *)
Transition(c, from, to, store, lost) ==
    /\ Unlocked
    /\ \/ state = from /\ state' = to /\ Goto(c, store)
       \/ state # from /\ UNCHANGED state /\ Goto(c, lost)
    /\ UNCHANGED <<counters, probing>>

-----------------------------------------------------------------------------
(* State() and the admission at the head of Do.                            *)

Enter(c) ==
    /\ At(c, "idle")
    /\ Goto(c, CASE state = "Closed" -> "call"
                 [] state = "Open" -> "readOpenedAt"
                 [] state = "HalfOpen" -> "admit")
    /\ UNCHANGED <<state, counters, probing>>

(* Still cooling: UNAVAILABLE at once.                                     *)
ReadOpenedAt(c) ==
    /\ At(c, "readOpenedAt")
    /\ Goto(c, IF cooled THEN "promote" ELSE "idle")
    /\ UNCHANGED <<state, counters, probing>>

\* Faulty variant: State answers HalfOpen and forgets to promote the breaker.
PromoteInName(c) ==
    At(c, "promote") /\ Goto(c, "admit") /\ UNCHANGED <<state, counters, probing>>

(* State answers HalfOpen even to a caller that lost the transition.       *)
Promote(c) ==
    At(c, "promote") /\ Transition(c, "Open", "HalfOpen", "storeSuccesses", "admit")

\* Faulty variant: the successes of the last half-open period still count.
StoreHalfOpenKeepsSuccesses(c) ==
    /\ \/ At(c, "storeSuccesses") /\ Goto(c, "storeProbes") /\ UNCHANGED <<successes, probes>>
       \/ At(c, "storeProbes") /\ probes' = 0 /\ Goto(c, "admit") /\ UNCHANGED successes
    /\ UNCHANGED <<state, failures, cooled, probing>>

StoreHalfOpen(c) ==
    /\ \/ At(c, "storeSuccesses") /\ successes' = 0 /\ Goto(c, "storeProbes")
          /\ UNCHANGED probes
       \/ At(c, "storeProbes") /\ probes' = 0 /\ Goto(c, "admit")
          /\ UNCHANGED successes
    /\ UNCHANGED <<state, failures, cooled, probing>>

Admit(c) ==
    /\ At(c, "admit")
    /\ probes' = probes + 1
    /\ \/ probes' <= HalfOpenProbes /\ Goto(c, "call") /\ probing' = [probing EXCEPT ![c] = TRUE]
       \/ probes' > HalfOpenProbes /\ Goto(c, "refuse") /\ UNCHANGED probing
    /\ UNCHANGED <<state, failures, successes, cooled>>

\* Faulty variant: a refused caller does not take its probe back.
RefuseKeepsCount(c) ==
    At(c, "refuse") /\ Goto(c, "idle") /\ UNCHANGED <<state, counters, probing>>

Refuse(c) ==
    /\ At(c, "refuse")
    /\ probes' = probes - 1
    /\ Goto(c, "idle")
    /\ UNCHANGED <<state, failures, successes, cooled, probing>>

(* fn(ctx) returns.                                                        *)
Call(c, result) ==
    /\ At(c, "call")
    /\ Goto(c, result)
    /\ UNCHANGED <<state, counters, probing>>

-----------------------------------------------------------------------------
(* record(err).                                                            *)

RecordSuccess(c) ==
    /\ At(c, "succeeded")
    /\ Goto(c, IF state = "HalfOpen" THEN "countSuccess" ELSE "resetFailures")
    /\ UNCHANGED <<state, counters, probing>>

CountSuccess(c) ==
    /\ At(c, "countSuccess")
    /\ successes' = successes + 1
    /\ Goto(c, IF successes' >= HalfOpenProbes THEN "close" ELSE Leaving(c))
    /\ UNCHANGED <<state, failures, probes, cooled, probing>>

\* Faulty variant: a success leaves the failures counted.
ResetFailuresNot(c) ==
    At(c, "resetFailures") /\ Goto(c, Leaving(c)) /\ UNCHANGED <<state, counters, probing>>

ResetFailures(c) ==
    /\ At(c, "resetFailures")
    /\ failures' = 0
    /\ Goto(c, Leaving(c))
    /\ UNCHANGED <<state, successes, probes, cooled, probing>>

RecordFailure(c) ==
    /\ At(c, "failed")
    /\ Goto(c, CASE state = "HalfOpen" -> "reopen"
                 [] state = "Closed" -> "countFailure"
                 [] state = "Open" -> Leaving(c))
    /\ UNCHANGED <<state, counters, probing>>

\* Faulty variant: the failure after the threshold trips.
CountFailureOneMore(c) ==
    /\ At(c, "countFailure")
    /\ failures' = failures + 1
    /\ Goto(c, IF failures' > FailureThreshold THEN "trip" ELSE Leaving(c))
    /\ UNCHANGED <<state, successes, probes, cooled, probing>>

CountFailure(c) ==
    /\ At(c, "countFailure")
    /\ failures' = failures + 1
    /\ Goto(c, IF failures' >= FailureThreshold THEN "trip" ELSE Leaving(c))
    /\ UNCHANGED <<state, successes, probes, cooled, probing>>

\* Faulty variant: a failed probe reopens without starting a new cooldown.
ReopenNoClock(c) == At(c, "reopen") /\ Transition(c, "HalfOpen", "Open", Leaving(c), Leaving(c))

Close(c) == At(c, "close") /\ Transition(c, "HalfOpen", "Closed", "storeFailures", Leaving(c))
Trip(c) == At(c, "trip") /\ Transition(c, "Closed", "Open", "storeOpenedAt", Leaving(c))
Reopen(c) == At(c, "reopen") /\ Transition(c, "HalfOpen", "Open", "storeOpenedAt", Leaving(c))

StoreFailures(c) ==
    /\ At(c, "storeFailures")
    /\ failures' = 0
    /\ Goto(c, Leaving(c))
    /\ UNCHANGED <<state, successes, probes, cooled, probing>>

StoreOpenedAt(c) ==
    /\ At(c, "storeOpenedAt")
    /\ cooled' = FALSE
    /\ Goto(c, Leaving(c))
    /\ UNCHANGED <<state, failures, successes, probes, probing>>

(* The deferred probes.Add(-1).                                            *)
Return(c) ==
    /\ At(c, "return")
    /\ probes' = probes - 1
    /\ probing' = [probing EXCEPT ![c] = FALSE]
    /\ Goto(c, "idle")
    /\ UNCHANGED <<state, failures, successes, cooled>>

(* A cooldown passes since the stored openedAt.                            *)
CoolDown == ~cooled /\ cooled' = TRUE /\ UNCHANGED <<state, failures, successes, probes, pc, probing>>

Record(c) == \/ RecordSuccess(c) \/ CountSuccess(c) \/ ResetFailures(c)
             \/ RecordFailure(c) \/ CountFailure(c)
             \/ Close(c) \/ Trip(c) \/ Reopen(c)
             \/ StoreFailures(c) \/ StoreOpenedAt(c)

Do(c) == \/ Enter(c) \/ ReadOpenedAt(c) \/ Promote(c) \/ StoreHalfOpen(c)
         \/ Admit(c) \/ Refuse(c)
         \/ \E result \in {"succeeded", "failed"} : Call(c, result)
         \/ Record(c) \/ Return(c)

BreakerNext == CoolDown \/ \E c \in Caller : Do(c)

(* Callers come back for as long as there are rows to publish, the guarded *)
(* call returns (a publish waits for its confirm under a context), and     *)
(* time passes.                                                            *)
Fairness == WF_breakerVars(CoolDown) /\ \A c \in Caller : WF_breakerVars(Do(c))

BreakerSpec == BreakerInit /\ [][BreakerNext]_breakerVars /\ Fairness

-----------------------------------------------------------------------------
(* Where no decrement is due: outside Do and before the admission.         *)
Unadmitted == {"idle", "readOpenedAt", "promote", "storeSuccesses", "storeProbes",
               "admit", "refuse"}

(* Types; probes may become negative.  Only an admitted probe owes the     *)
(* deferred decrement, and only while it is inside Do.                     *)
BreakerTypeOK ==
    /\ state \in State
    /\ failures \in Nat /\ successes \in Nat /\ probes \in Int
    /\ cooled \in BOOLEAN
    /\ pc \in [Caller -> Location]
    /\ probing \in [Caller -> BOOLEAN]
    /\ \A c \in Caller : /\ At(c, "return") => probing[c]
                         /\ pc[c] \in Unadmitted => ~probing[c]

(* No lost trip: when the failures reach the threshold in a closed         *)
(* breaker, somebody is about to open it, or about to clear the failures   *)
(* of the period before; whatever resets, successes and other transitions  *)
(* run in between.                                                         *)
ThresholdTrips ==
    state = "Closed" /\ failures >= FailureThreshold =>
        \E c \in Caller : pc[c] \in {"trip", "storeFailures"}

(* Callers that have added to probes and not yet taken it back.            *)
Holders == {c \in Caller : probing[c] \/ pc[c] = "refuse"}

(* No leaked probe: the counter never exceeds the callers it counts, so a  *)
(* half-open breaker with nobody inside always admits the next call,       *)
(* although transitions reset the counter under running probes.            *)
ProbesNeverLeak == probes <= Cardinality(Holders)

(* When the dependency is healthy from some time on, the breaker closes    *)
(* and stays closed: half-open never gets stuck between refusals, resets   *)
(* and lost transitions.                                                   *)
Recovers == <>[](\A c \in Caller : pc[c] # "failed") => <>[](state = "Closed")
=============================================================================
