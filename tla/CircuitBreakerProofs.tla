------------------------ MODULE CircuitBreakerProofs ------------------------
(***************************************************************************)
(* The safety of the breaker's atomics, for every set of concurrent        *)
(* callers and every pair of limits; and the documented policy, for as     *)
(* long as no two calls have overlapped.                                   *)
(***************************************************************************)
EXTENDS BreakerPolicy, FiniteSetTheorems, TLAPS

PcTypeOK == /\ pc \in [Caller -> Location]
            /\ probing \in [Caller -> BOOLEAN]
            /\ \A c \in Caller : /\ At(c, "return") => probing[c]
                                 /\ pc[c] \in Unadmitted => ~probing[c]

(* What a caller must respect when it goes on to a place: no decrement is  *)
(* due before the admission, and one is due at the return.                 *)
LEMMA Move ==
    ASSUME PcTypeOK, NEW c \in Caller, NEW place \in Location, Goto(c, place),
           probing' \in [Caller -> BOOLEAN],
           \A d \in Caller \ {c} : probing'[d] = probing[d],
           place = "return" => probing'[c],
           place \in Unadmitted => ~probing'[c]
    PROVE  PcTypeOK'
  <1>1. /\ pc' \in [Caller -> Location]
        /\ pc'[c] = place
        /\ \A d \in Caller \ {c} : pc'[d] = pc[d]
    BY DEF PcTypeOK, Goto
  <1> QED
    BY <1>1 DEF PcTypeOK, At

(* The places after a record: the call is over, or the decrement is next.  *)
LEMMA LeavingPlaces ==
    ASSUME PcTypeOK, NEW c \in Caller
    PROVE  /\ Leaving(c) \in {"return", "idle"}
           /\ Leaving(c) = "return" => probing[c]
           /\ Leaving(c) = "idle" => ~probing[c]
  BY DEF PcTypeOK, Leaving

LEMMA TypeInit == BreakerInit => BreakerTypeOK
  BY DEF BreakerInit, BreakerTypeOK, State, Location, At

(* Every step of a caller keeps the places and the debts right.            *)
LEMMA PcStep == ASSUME PcTypeOK, state \in State, NEW c \in Caller, Do(c) PROVE PcTypeOK'
  <1> USE DEF Location, Storing, Unadmitted, counters
  <1>0. /\ pc[c] = "return" => probing[c]
        /\ pc[c] \in Unadmitted => ~probing[c]
        /\ probing \in [Caller -> BOOLEAN]
    BY DEF PcTypeOK, At
  <1>1. ASSUME NEW place \in Location, Goto(c, place), UNCHANGED probing,
               place = "return" => probing[c], place \in Unadmitted => ~probing[c]
        PROVE  PcTypeOK'
    BY <1>0, <1>1, Move
  <1>2. ASSUME NEW place \in Location \ (Unadmitted \cup {"return"}), UNCHANGED probing,
               Goto(c, place) \/ Goto(c, Leaving(c))
        PROVE  PcTypeOK'
    <2>1. CASE Goto(c, place)
      BY <1>1, <1>2, <2>1
    <2>2. CASE Goto(c, Leaving(c))
      <3>1. PICK next \in {"return", "idle"} : next = Leaving(c)
        BY LeavingPlaces
      <3> QED
        BY <1>1, <1>2, <2>2, <3>1, LeavingPlaces
    <2> QED
      BY <1>2, <2>1, <2>2
  <1>3. CASE Enter(c)
    <2>1. PICK place \in {"call", "readOpenedAt", "admit"} : Goto(c, place)
      BY <1>3 DEF Enter, State
    <2> QED
      BY <1>0, <1>1, <1>3, <2>1 DEF Enter, At
  <1>4. CASE ReadOpenedAt(c)
    <2>1. PICK place \in {"promote", "idle"} : Goto(c, place)
      BY <1>4 DEF ReadOpenedAt
    <2> QED
      BY <1>0, <1>1, <1>4, <2>1 DEF ReadOpenedAt, At
  <1>5. CASE Promote(c) \/ StoreHalfOpen(c)
    <2>1. PICK place \in {"storeSuccesses", "storeProbes", "admit"} : Goto(c, place)
      BY <1>5 DEF Promote, StoreHalfOpen, Transition
    <2> QED
      BY <1>0, <1>1, <1>5, <2>1 DEF Promote, StoreHalfOpen, Transition, At
  <1>6. CASE Admit(c)
    <2>1. CASE Goto(c, "call") /\ probing' = [probing EXCEPT ![c] = TRUE]
      BY <1>0, <2>1, Move
    <2>2. CASE Goto(c, "refuse") /\ UNCHANGED probing
      BY <1>0, <1>1, <1>6, <2>2 DEF Admit, At
    <2> QED
      BY <1>6, <2>1, <2>2 DEF Admit
  <1>7. CASE Refuse(c)
    BY <1>0, <1>1, <1>7 DEF Refuse, At
  <1>8. ASSUME NEW result \in {"succeeded", "failed"}, Call(c, result) PROVE PcTypeOK'
    BY <1>1, <1>8 DEF Call
  <1>9. CASE RecordSuccess(c)
    <2>1. PICK place \in {"countSuccess", "resetFailures"} : Goto(c, place)
      BY <1>9 DEF RecordSuccess
    <2> QED
      BY <1>1, <1>9, <2>1 DEF RecordSuccess
  <1>10. CASE CountSuccess(c)
    <2>1. PICK place \in {"close"} : Goto(c, place) \/ Goto(c, Leaving(c))
      BY <1>10 DEF CountSuccess
    <2>2. UNCHANGED probing
      BY <1>10 DEF CountSuccess
    <2> QED
      BY <1>2, <2>1, <2>2
  <1>11. CASE ResetFailures(c) \/ StoreFailures(c) \/ StoreOpenedAt(c)
    <2>1. Goto(c, Leaving(c)) /\ UNCHANGED probing /\ "call" \in Location \ (Unadmitted \cup {"return"})
      BY <1>11 DEF ResetFailures, StoreFailures, StoreOpenedAt
    <2> QED
      BY <1>2, <2>1
  <1>12. CASE RecordFailure(c)
    <2>1. PICK place \in {"reopen", "countFailure"} : Goto(c, place) \/ Goto(c, Leaving(c))
      BY <1>12 DEF RecordFailure, State
    <2> QED
      BY <1>2, <1>12, <2>1 DEF RecordFailure
  <1>13. CASE CountFailure(c)
    <2>1. PICK place \in {"trip"} : Goto(c, place) \/ Goto(c, Leaving(c))
      BY <1>13 DEF CountFailure
    <2>2. UNCHANGED probing
      BY <1>13 DEF CountFailure
    <2> QED
      BY <1>2, <2>1, <2>2
  <1>14. CASE Close(c) \/ Trip(c) \/ Reopen(c)
    <2>1. PICK place \in {"storeFailures", "storeOpenedAt"} : Goto(c, place) \/ Goto(c, Leaving(c))
      BY <1>14 DEF Close, Trip, Reopen, Transition
    <2> QED
      BY <1>2, <1>14, <2>1 DEF Close, Trip, Reopen, Transition
  <1>15. CASE Return(c)
    <2>1. Goto(c, "idle") /\ probing' = [probing EXCEPT ![c] = FALSE]
      BY <1>15 DEF Return
    <2> QED
      BY <1>0, <2>1, Move
  <1> QED
    BY <1>3, <1>4, <1>5, <1>6, <1>7, <1>8, <1>9, <1>10, <1>11, <1>12, <1>13, <1>14, <1>15
    DEF Do, Record

(* The atomics themselves.                                                 *)
LEMMA AtomicsStep ==
    ASSUME BreakerTypeOK, NEW c \in Caller, Do(c)
    PROVE  /\ state' \in State
           /\ failures' \in Nat /\ successes' \in Nat /\ probes' \in Int
  <1> USE DEF counters
  <1>0. state \in State /\ failures \in Nat /\ successes \in Nat /\ probes \in Int
    BY DEF BreakerTypeOK
  <1>1. CASE Enter(c) \/ ReadOpenedAt(c)
    <2>1. UNCHANGED <<state, failures, successes, probes>>
      BY <1>1 DEF Enter, ReadOpenedAt
    <2> QED
      BY <1>0, <2>1
  <1>2. CASE StoreHalfOpen(c) \/ Admit(c) \/ Refuse(c) \/ Return(c)
    <2>1. /\ UNCHANGED <<state, failures>>
          /\ successes' \in {successes, 0}
          /\ probes' \in {probes, probes + 1, probes - 1, 0}
      BY <1>2 DEF StoreHalfOpen, Admit, Refuse, Return
    <2> QED
      BY <1>0, <2>1
  <1>3. CASE \E result \in {"succeeded", "failed"} : Call(c, result)
    BY <1>0, <1>3 DEF Call
  <1>4. CASE Promote(c) \/ Close(c) \/ Trip(c) \/ Reopen(c)
    <2>1. /\ UNCHANGED <<failures, successes, probes>>
          /\ state' \in {state, "HalfOpen", "Closed", "Open"}
      BY <1>4 DEF Promote, Close, Trip, Reopen, Transition
    <2> QED
      BY <1>0, <2>1 DEF State
  <1>5. CASE RecordSuccess(c) \/ RecordFailure(c)
    <2>1. UNCHANGED <<state, failures, successes, probes>>
      BY <1>5 DEF RecordSuccess, RecordFailure
    <2> QED
      BY <1>0, <2>1
  <1>6. CASE CountSuccess(c) \/ ResetFailures(c) \/ CountFailure(c) \/ StoreFailures(c) \/ StoreOpenedAt(c)
    <2>1. /\ UNCHANGED <<state, probes>>
          /\ successes' \in {successes, successes + 1}
          /\ failures' \in {failures, failures + 1, 0}
      BY <1>6 DEF CountSuccess, ResetFailures, CountFailure, StoreFailures, StoreOpenedAt
    <2> QED
      BY <1>0, <2>1
  <1> QED
    BY <1>1, <1>2, <1>3, <1>4, <1>5, <1>6 DEF Do, Record

LEMMA CooledStep == ASSUME cooled \in BOOLEAN, NEW c \in Caller, Do(c) PROVE cooled' \in BOOLEAN
  <1> USE DEF counters
  <1>1. CASE Enter(c) \/ ReadOpenedAt(c) \/ StoreHalfOpen(c) \/ Admit(c) \/ Refuse(c) \/ Return(c)
    BY <1>1, Zenon DEF Enter, ReadOpenedAt, StoreHalfOpen, Admit, Refuse, Return
  <1>2. CASE \E result \in {"succeeded", "failed"} : Call(c, result)
    BY <1>2, Zenon DEF Call
  <1>3. CASE Promote(c) \/ Close(c) \/ Trip(c) \/ Reopen(c)
    BY <1>3, Zenon DEF Promote, Close, Trip, Reopen, Transition
  <1>4. CASE RecordSuccess(c) \/ CountSuccess(c) \/ ResetFailures(c)
    BY <1>4, Zenon DEF RecordSuccess, CountSuccess, ResetFailures
  <1>5. CASE RecordFailure(c) \/ CountFailure(c) \/ StoreFailures(c) \/ StoreOpenedAt(c)
    BY <1>5, Zenon DEF RecordFailure, CountFailure, StoreFailures, StoreOpenedAt
  <1> QED
    BY <1>1, <1>2, <1>3, <1>4, <1>5, Zenon DEF Do, Record

LEMMA TypeStep == BreakerTypeOK /\ [BreakerNext]_breakerVars => BreakerTypeOK'
  <1> SUFFICES ASSUME BreakerTypeOK, [BreakerNext]_breakerVars PROVE BreakerTypeOK'
    OBVIOUS
  <1>0. PcTypeOK /\ state \in State
    BY DEF BreakerTypeOK, PcTypeOK
  <1>1. CASE UNCHANGED breakerVars
    BY <1>1 DEF breakerVars, counters, BreakerTypeOK, At
  <1>2. CASE CoolDown
    BY <1>2 DEF CoolDown, BreakerTypeOK, At
  <1>3. ASSUME NEW c \in Caller, Do(c) PROVE BreakerTypeOK'
    BY <1>0, <1>3, PcStep, AtomicsStep, CooledStep DEF BreakerTypeOK, PcTypeOK
  <1> QED
    BY <1>1, <1>2, <1>3 DEF BreakerNext

(* The atomics keep their types, and only a probe owes a decrement,        *)
(* whatever callers are suspended where.                                   *)
THEOREM BreakerTypes == BreakerSpec => []BreakerTypeOK
  BY TypeInit, TypeStep, PTL DEF BreakerSpec

-----------------------------------------------------------------------------
(* What each caller's step may do to the state, the failures and the pc of *)
(* the callers that are about to trip or to clear the failures.            *)
LEMMA ThresholdStep ==
    BreakerTypeOK /\ ThresholdTrips /\ [BreakerNext]_breakerVars => ThresholdTrips'
  <1> SUFFICES ASSUME BreakerTypeOK, ThresholdTrips, [BreakerNext]_breakerVars,
                      state' = "Closed", failures' >= FailureThreshold
               PROVE  \E d \in Caller : pc'[d] \in {"trip", "storeFailures"}
    BY DEF ThresholdTrips
  <1> USE DEF counters
  <1>a. /\ pc \in [Caller -> Location] /\ failures \in Nat
        /\ FailureThreshold \in Nat /\ FailureThreshold > 0
    BY BreakerAssumption DEF BreakerTypeOK
  <1>1. CASE UNCHANGED breakerVars
    BY <1>1 DEF breakerVars, ThresholdTrips
  <1>2. CASE CoolDown
    BY <1>2 DEF CoolDown, ThresholdTrips
  <1>3. ASSUME NEW c \in Caller, Do(c)
        PROVE  \E d \in Caller : pc'[d] \in {"trip", "storeFailures"}
    <2> USE DEF At, Goto
    <2>1. ASSUME state = "Closed", failures >= FailureThreshold,
                 pc[c] \notin {"trip", "storeFailures"},
                 \A d \in Caller \ {c} : pc'[d] = pc[d]
          PROVE  \E d \in Caller : pc'[d] \in {"trip", "storeFailures"}
      BY <2>1 DEF ThresholdTrips
    <2>2. CASE Enter(c) \/ ReadOpenedAt(c) \/ StoreHalfOpen(c) \/ Admit(c) \/ Refuse(c) \/ Return(c)
      BY <1>a, <2>1, <2>2 DEF Enter, ReadOpenedAt, StoreHalfOpen, Admit, Refuse, Return
    <2>3. CASE Promote(c) \/ Reopen(c)
      BY <1>a, <2>1, <2>3 DEF Promote, Reopen, Transition
    <2>4. CASE Close(c)
      BY <1>a, <2>1, <2>4 DEF Close, Transition
    <2>5. CASE Trip(c)
      BY <1>a, <2>5 DEF Trip, Transition
    <2>6. ASSUME NEW result \in {"succeeded", "failed"}, Call(c, result)
          PROVE  \E d \in Caller : pc'[d] \in {"trip", "storeFailures"}
      BY <1>a, <2>1, <2>6 DEF Call
    <2>7. CASE RecordSuccess(c) \/ CountSuccess(c) \/ RecordFailure(c) \/ StoreOpenedAt(c)
      BY <1>a, <2>1, <2>7 DEF RecordSuccess, CountSuccess, RecordFailure, StoreOpenedAt
    <2>8. CASE ResetFailures(c) \/ StoreFailures(c)
      <3>1. failures' = 0
        BY <2>8 DEF ResetFailures, StoreFailures
      <3>2. ~(0 >= FailureThreshold)
        BY <1>a
      <3> QED
        BY <3>1, <3>2
    <2>9. CASE CountFailure(c)
      BY <1>a, <2>9 DEF CountFailure
    <2> QED
      BY <1>3, <2>2, <2>3, <2>4, <2>5, <2>6, <2>7, <2>8, <2>9 DEF Do, Record
  <1> QED
    BY <1>1, <1>2, <1>3 DEF BreakerNext

(* No trip is lost, for any number of callers at the threshold at once.    *)
THEOREM ThresholdAlwaysTrips == BreakerSpec => []ThresholdTrips
  <1>1. BreakerInit => ThresholdTrips
    BY BreakerAssumption DEF BreakerInit, ThresholdTrips
  <1> QED
    BY <1>1, TypeInit, TypeStep, ThresholdStep, PTL DEF BreakerSpec

-----------------------------------------------------------------------------
LEMMA HoldersFinite == IsFiniteSet(Holders) /\ Cardinality(Holders) \in Nat
  BY BreakerAssumption, FS_Subset, FS_CardinalityType DEF Holders

(* A step that leaves a caller's debt to the counter alone leaves Holders  *)
(* alone.                                                                  *)
LEMMA ProbesStep ==
    BreakerTypeOK /\ ProbesNeverLeak /\ [BreakerNext]_breakerVars => ProbesNeverLeak'
  <1> SUFFICES ASSUME BreakerTypeOK, ProbesNeverLeak, [BreakerNext]_breakerVars
               PROVE  probes' <= Cardinality(Holders')
    BY DEF ProbesNeverLeak
  <1> USE DEF counters
  <1>a. /\ pc \in [Caller -> Location] /\ probing \in [Caller -> BOOLEAN] /\ probes \in Int
        /\ state \in State
        /\ \A c \in Caller : /\ pc[c] = "return" => probing[c]
                             /\ pc[c] \in {"admit", "refuse"} => ~probing[c]
    BY DEF BreakerTypeOK, At, Unadmitted
  <1>b. ASSUME Holders' = Holders, probes' = probes PROVE probes' <= Cardinality(Holders')
    BY <1>b DEF ProbesNeverLeak
  <1>1. CASE UNCHANGED breakerVars
    BY <1>1, <1>b DEF breakerVars, Holders
  <1>2. CASE CoolDown
    BY <1>2, <1>b DEF CoolDown, Holders
  <1>3. ASSUME NEW c \in Caller, Do(c) PROVE probes' <= Cardinality(Holders')
    <2> USE DEF At, Goto
    <2>1. ASSUME probes' = probes, probing' = probing, pc[c] # "refuse", pc'[c] # "refuse",
                 \A d \in Caller \ {c} : pc'[d] = pc[d]
          PROVE  probes' <= Cardinality(Holders')
      <3>1. \A d \in Caller : (probing'[d] \/ pc'[d] = "refuse") <=> (probing[d] \/ pc[d] = "refuse")
        BY <2>1
      <3> QED
        BY <2>1, <3>1, <1>b DEF Holders
    <2>2. CASE Admit(c)
      <3>1. c \notin Holders /\ Holders' = Holders \cup {c}
        BY <1>a, <2>2 DEF Admit, Holders
      <3>2. Cardinality(Holders') = Cardinality(Holders) + 1
        BY <3>1, HoldersFinite, FS_AddElement
      <3> QED
        BY <1>a, <2>2, <3>2, HoldersFinite DEF Admit, ProbesNeverLeak
    <2>3. CASE Refuse(c) \/ Return(c)
      <3>1. c \in Holders /\ Holders' = Holders \ {c}
        BY <1>a, <2>3 DEF Refuse, Return, Holders
      <3>2. Cardinality(Holders') = Cardinality(Holders) - 1
        BY <3>1, HoldersFinite, FS_RemoveElement
      <3>3. probes' = probes - 1
        BY <2>3 DEF Refuse, Return
      <3> QED
        BY <1>a, <3>2, <3>3, HoldersFinite DEF ProbesNeverLeak
    <2>4. CASE StoreHalfOpen(c)
      <3>1. CASE At(c, "storeSuccesses")
        BY <1>a, <2>1, <2>4, <3>1 DEF StoreHalfOpen
      <3>2. CASE ~At(c, "storeSuccesses")
        <4>1. probes' = 0 /\ Holders' = Holders
          BY <1>a, <2>4, <3>2 DEF StoreHalfOpen, Holders
        <4> QED
          BY <4>1, HoldersFinite
      <3> QED
        BY <3>1, <3>2
    <2>5. CASE Enter(c) \/ ReadOpenedAt(c)
      <3>1. PICK place \in Location \ {"refuse"} : Goto(c, place)
        BY <1>a, <2>5 DEF Enter, ReadOpenedAt, Location, State
      <3> QED
        BY <1>a, <2>1, <2>5, <3>1 DEF Enter, ReadOpenedAt
    <2>6. CASE Promote(c) \/ Close(c) \/ Trip(c) \/ Reopen(c)
      BY <1>a, <2>1, <2>6 DEF Promote, Close, Trip, Reopen, Transition, Leaving
    <2>7. ASSUME NEW result \in {"succeeded", "failed"}, Call(c, result)
          PROVE  probes' <= Cardinality(Holders')
      BY <1>a, <2>1, <2>7 DEF Call
    <2>8. CASE RecordSuccess(c) \/ CountSuccess(c) \/ ResetFailures(c)
      BY <1>a, <2>1, <2>8 DEF RecordSuccess, CountSuccess, ResetFailures, Leaving
    <2>9. CASE RecordFailure(c) \/ CountFailure(c)
      <3>1. PICK place \in Location \ {"refuse"} : Goto(c, place)
        BY <1>a, <2>9 DEF RecordFailure, CountFailure, Leaving, Location, State
      <3> QED
        BY <1>a, <2>1, <2>9, <3>1 DEF RecordFailure, CountFailure
    <2>10. CASE StoreFailures(c) \/ StoreOpenedAt(c)
      BY <1>a, <2>1, <2>10 DEF StoreFailures, StoreOpenedAt, Leaving
    <2> QED
      BY <1>3, <2>2, <2>3, <2>4, <2>5, <2>6, <2>7, <2>8, <2>9, <2>10 DEF Do, Record
  <1> QED
    BY <1>1, <1>2, <1>3 DEF BreakerNext

(* The probe counter never exceeds the callers it counts, so half-open     *)
(* never refuses for ever, however many callers there are.                 *)
THEOREM NoProbeLeaks == BreakerSpec => []ProbesNeverLeak
  <1>1. BreakerInit => ProbesNeverLeak
    BY HoldersFinite DEF BreakerInit, ProbesNeverLeak
  <1> QED
    BY <1>1, TypeInit, TypeStep, ProbesStep, PTL DEF BreakerSpec

-----------------------------------------------------------------------------
(* The policy.  Its three properties speak of history the atomics do not   *)
(* hold; what ties the two together is, for a caller that is alone inside, *)
(* an account of both for every place it can be suspended at.              *)

(* The breaker at rest: its counters are the history of its period.        *)
Settled ==
    /\ state = "Closed" => failures = streak /\ streak < FailureThreshold
    /\ state = "HalfOpen" => successes = proved /\ proved < HalfOpenProbes

Probe(c)    == state = "HalfOpen" /\ probing[c]
Ordinary(c) == state = "Closed" /\ ~probing[c]

(* Only a caller that saw the breaker cooled goes on to half open.         *)
SawCooled(c) == At(c, "promote") => elapsed

(* What the history and the atomics say of a call, by the place it is at.  *)
Account(c) ==
    /\ At(c, "readOpenedAt") => state = "Open"
    /\ At(c, "promote") => state = "Open"
    /\ pc[c] \in {"storeSuccesses", "storeProbes"} => state = "HalfOpen" /\ proved = 0
    /\ At(c, "storeProbes") => successes = 0
    /\ pc[c] \in {"admit", "refuse"} => state = "HalfOpen"
    /\ pc[c] \in {"admit", "refuse", "call", "return"} => Settled
    /\ At(c, "call") => Probe(c) \/ Ordinary(c)
    /\ At(c, "succeeded") => Probe(c) \/ Ordinary(c)
    /\ At(c, "countSuccess") => Probe(c)
    /\ pc[c] \in {"succeeded", "countSuccess"} /\ Probe(c) =>
          proved = successes + 1 /\ proved <= HalfOpenProbes
    /\ At(c, "close") => Probe(c) /\ successes = HalfOpenProbes /\ proved = HalfOpenProbes
    /\ At(c, "resetFailures") => Ordinary(c)
    /\ At(c, "storeFailures") => state = "Closed"
    /\ pc[c] \in {"succeeded", "countSuccess", "close", "resetFailures", "storeFailures"} =>
          streak = 0
    /\ At(c, "failed") => Probe(c) \/ Ordinary(c)
    /\ At(c, "reopen") => Probe(c)
    /\ pc[c] \in {"countFailure", "trip"} => Ordinary(c)
    /\ pc[c] \in {"failed", "countFailure"} /\ Ordinary(c) =>
          streak = failures + 1 /\ streak <= FailureThreshold
    /\ At(c, "trip") => failures = FailureThreshold /\ streak = FailureThreshold
    /\ At(c, "storeOpenedAt") => state = "Open"

AtRest == \A c \in Caller : pc[c] = "idle"
Alone  == \A c, d \in Inside : c = d

(* Between the swap to Open and the store of openedAt, cooled still speaks *)
(* of the last period.                                                     *)
ClockStored == ~elapsed /\ cooled => \E c \in Caller : At(c, "storeOpenedAt")

HistoryOK == elapsed \in BOOLEAN /\ overlapped \in BOOLEAN /\ streak \in Nat /\ proved \in Nat

PolicyInv ==
    /\ HistoryOK /\ ClockStored
    /\ ~overlapped => Alone /\ (\A c \in Caller : Account(c) /\ SawCooled(c)) /\ (AtRest => Settled)

-----------------------------------------------------------------------------
(* A caller moves itself only, and one that was outside is inside next.    *)
LEMMA MovesItself ==
    ASSUME pc \in [Caller -> Location], state \in State, NEW c \in Caller, Do(c)
    PROVE  /\ \A d \in Caller \ {c} : pc'[d] = pc[d]
           /\ pc[c] = "idle" => pc'[c] # "idle"
  <1> USE DEF At, Goto
  <1>1. CASE Enter(c)
    BY <1>1 DEF Enter, State
  <1>2. CASE ReadOpenedAt(c) \/ StoreHalfOpen(c) \/ Admit(c) \/ Refuse(c) \/ Return(c)
    BY <1>2 DEF ReadOpenedAt, StoreHalfOpen, Admit, Refuse, Return
  <1>3. CASE \E result \in {"succeeded", "failed"} : Call(c, result)
    BY <1>3 DEF Call
  <1>4. CASE Promote(c) \/ Close(c) \/ Trip(c) \/ Reopen(c)
    BY <1>4 DEF Promote, Close, Trip, Reopen, Transition
  <1>5. CASE RecordSuccess(c) \/ CountSuccess(c) \/ ResetFailures(c)
    BY <1>5 DEF RecordSuccess, CountSuccess, ResetFailures
  <1>6. CASE RecordFailure(c) \/ CountFailure(c) \/ StoreFailures(c) \/ StoreOpenedAt(c)
    BY <1>6 DEF RecordFailure, CountFailure, StoreFailures, StoreOpenedAt
  <1> QED
    BY <1>1, <1>2, <1>3, <1>4, <1>5, <1>6 DEF Do, Record

LEMMA AtMostOneInside ==
    ASSUME NEW S \in SUBSET Caller, ~(Cardinality(S) > 1), NEW c \in S, NEW d \in S
    PROVE  c = d
  <1> SUFFICES ASSUME c # d PROVE FALSE
    OBVIOUS
  <1>1. IsFiniteSet(S) /\ Cardinality(S) \in Nat
    BY BreakerAssumption, FS_Subset, FS_CardinalityType
  <1>2. IsFiniteSet({c}) /\ Cardinality({c}) = 1
    BY FS_Singleton
  <1>3. Cardinality({c} \cup {d}) = 2
    <2>1. Cardinality({c} \cup {d}) = IF d \in {c} THEN Cardinality({c}) ELSE Cardinality({c}) + 1
      BY <1>2, FS_AddElement, Zenon
    <2> QED BY <1>2, <2>1
  <1>4. Cardinality({c} \cup {d}) <= Cardinality(S)
    BY <1>1, FS_Subset
  <1> QED
    BY <1>1, <1>3, <1>4

(* A step after which no calls have overlapped is the step of a caller     *)
(* with nobody else inside.                                                *)
LEMMA OneCaller ==
    ASSUME BreakerTypeOK, PolicyInv, NEW c \in Caller, Do(c), Remember, ~overlapped'
    PROVE  /\ ~overlapped /\ Alone'
           /\ \A d \in Caller \ {c} : pc[d] = "idle" /\ pc'[d] = "idle"
  <1>1. ~overlapped /\ ~(Cardinality(Inside') > 1)
    BY DEF Remember, PolicyInv, HistoryOK
  <1>2. Inside' \in SUBSET Caller
    BY DEF Inside
  <1>3. \A a, b \in Inside' : a = b
    BY <1>1, <1>2, AtMostOneInside
  <1>4. /\ \A d \in Caller \ {c} : pc'[d] = pc[d]
        /\ pc[c] = "idle" => pc'[c] # "idle"
    BY MovesItself DEF BreakerTypeOK
  <1>5. \A a, b \in Inside : a = b
    BY <1>1 DEF PolicyInv, Alone
  <1>6. ASSUME NEW d \in Caller \ {c} PROVE pc[d] = "idle"
    <2> SUFFICES ASSUME pc[d] # "idle" PROVE FALSE
      OBVIOUS
    <2>1. d \in Inside /\ d \in Inside'
      BY <1>4 DEF Inside
    <2>2. c \in Inside \/ c \in Inside'
      BY <1>4 DEF Inside
    <2> QED
      BY <1>3, <1>5, <2>1, <2>2
  <1> QED
    BY <1>1, <1>3, <1>4, <1>6 DEF Alone

(* What Remember notes of the step of a caller that is alone.              *)
Noted(c) ==
    /\ elapsed' = (elapsed /\ ~Becomes("Open"))
    /\ streak' = IF Returns(c, "failed") THEN UpTo(FailureThreshold, streak + 1)
                 ELSE IF Returns(c, "succeeded") THEN 0 ELSE streak
    /\ proved' = IF Becomes("HalfOpen") THEN 0
                 ELSE IF Returns(c, "succeeded") /\ probing[c]
                      THEN UpTo(HalfOpenProbes, proved + 1)
                 ELSE proved

LEMMA AloneIsNoted ==
    ASSUME NEW c \in Caller, Remember, ~overlapped',
           \A d \in Caller \ {c} : pc[d] = "idle" /\ pc'[d] = "idle"
    PROVE  Noted(c)
  <1>1. \A d \in Caller, r \in {"succeeded", "failed"} : Returns(d, r) => d = c
    BY DEF Returns, At
  <1> QED
    BY <1>1 DEF Remember, Noted

(* The only way to the promotion leads past the clock.                     *)
LEMMA StepToHalfOpen ==
    ASSUME pc \in [Caller -> Location], state \in State, NEW c \in Caller, Do(c), pc'[c] = "promote"
    PROVE  ReadOpenedAt(c) /\ cooled
  <1> USE DEF At, Goto
  <1>1. ~(Enter(c) \/ Promote(c) \/ StoreHalfOpen(c) \/ Admit(c) \/ Refuse(c) \/ Return(c))
    BY DEF Enter, Promote, StoreHalfOpen, Admit, Refuse, Return, Transition, State
  <1>2. ~\E result \in {"succeeded", "failed"} : Call(c, result)
    BY DEF Call
  <1>3. ~(RecordSuccess(c) \/ CountSuccess(c) \/ ResetFailures(c))
    BY DEF RecordSuccess, CountSuccess, ResetFailures, Leaving
  <1>4. ~(RecordFailure(c) \/ CountFailure(c) \/ StoreFailures(c) \/ StoreOpenedAt(c))
    BY DEF RecordFailure, CountFailure, StoreFailures, StoreOpenedAt, Leaving, State
  <1>5. ~(Close(c) \/ Trip(c) \/ Reopen(c))
    BY DEF Close, Trip, Reopen, Transition, Leaving
  <1>6. ReadOpenedAt(c)
    BY <1>1, <1>2, <1>3, <1>4, <1>5 DEF Do, Record
  <1> QED
    BY <1>6 DEF ReadOpenedAt

(* Every step of a caller that is alone leads from one place's account to  *)
(* the next one's, or to a breaker at rest.                                *)
LEMMA AccountStep ==
    ASSUME BreakerTypeOK, PolicyInv, NEW c \in Caller, Do(c), Remember, ~overlapped'
    PROVE  Account(c)' /\ SawCooled(c)' /\ (pc'[c] = "idle" => Settled')
  <1> USE DEF At, Goto, counters
  <1>a. /\ ~overlapped /\ Alone'
        /\ \A d \in Caller \ {c} : pc[d] = "idle" /\ pc'[d] = "idle"
    BY OneCaller
  <1>b. Noted(c)
    BY <1>a, AloneIsNoted
  <1>c. Account(c) /\ (pc[c] = "idle" => Settled)
    BY <1>a DEF PolicyInv, AtRest
  <1>d. /\ pc \in [Caller -> Location] /\ state \in State
        /\ failures \in Nat /\ successes \in Nat /\ streak \in Nat /\ proved \in Nat
        /\ FailureThreshold \in Nat \ {0} /\ HalfOpenProbes \in Nat \ {0}
    BY BreakerAssumption DEF BreakerTypeOK, PolicyInv, HistoryOK
  <1>f. /\ probing \in [Caller -> BOOLEAN] /\ elapsed \in BOOLEAN
        /\ (pc[c] \in Unadmitted => ~probing[c]) /\ (pc[c] = "return" => probing[c])
    BY DEF BreakerTypeOK, PolicyInv, HistoryOK
  <1>g. PICK leaving \in {"return", "idle"} :
           /\ leaving = Leaving(c)
           /\ Probe(c) => state = "HalfOpen" /\ leaving = "return"
           /\ Ordinary(c) => state = "Closed" /\ leaving = "idle"
    BY DEF Probe, Ordinary, Leaving
  <1>h. ASSUME state' = state, probing' = probing
        PROVE  (Probe(c)' <=> Probe(c)) /\ (Ordinary(c)' <=> Ordinary(c))
    BY <1>h DEF Probe, Ordinary, Leaving
  <1>e. SawCooled(c)'
    <2> SUFFICES ASSUME pc'[c] = "promote" PROVE elapsed'
      BY DEF SawCooled
    <2>1. ReadOpenedAt(c) /\ cooled
      BY <1>d, StepToHalfOpen
    <2> QED
      BY <1>a, <1>b, <2>1 DEF PolicyInv, ClockStored, HistoryOK, Noted, Becomes, ReadOpenedAt
  <1> SUFFICES Account(c)' /\ (pc'[c] = "idle" => Settled')
    BY <1>e
  <1> USE DEF Account, Settled, Noted, Becomes, Returns, UpTo, Unadmitted, State
  <1>1. CASE Enter(c)
    BY <1>1, <1>b, <1>c, <1>d, <1>f DEF Enter, Probe, Ordinary
  <1>2. CASE ReadOpenedAt(c)
    BY <1>2, <1>b, <1>c, <1>d, <1>f DEF ReadOpenedAt, Probe, Ordinary
  <1>3. CASE Promote(c)
    BY <1>3, <1>b, <1>c, <1>d, <1>f DEF Promote, Transition, Probe, Ordinary
  <1>4. CASE StoreHalfOpen(c)
    <2>1. CASE pc[c] = "storeSuccesses"
      BY <1>4, <1>b, <1>c, <1>d, <1>f, <2>1 DEF StoreHalfOpen, Probe, Ordinary
    <2>2. CASE pc[c] = "storeProbes"
      <3>1. state' = "HalfOpen" /\ successes' = 0 /\ proved' = 0 /\ pc'[c] = "admit"
        BY <1>4, <1>b, <1>c, <1>d, <2>2 DEF StoreHalfOpen
      <3> QED
        BY <1>d, <3>1
    <2> QED
      BY <1>4, <2>1, <2>2 DEF StoreHalfOpen
  <1>5. CASE Admit(c)
    BY <1>5, <1>b, <1>c, <1>d, <1>f DEF Admit, Probe, Ordinary
  <1>6. CASE Refuse(c) \/ Return(c)
    BY <1>6, <1>b, <1>c, <1>d, <1>f DEF Refuse, Return, Probe, Ordinary
  <1>7. ASSUME NEW result \in {"succeeded", "failed"}, Call(c, result)
        PROVE  Account(c)' /\ (pc'[c] = "idle" => Settled')
    <2>1. /\ pc[c] = "call" /\ pc'[c] = result /\ UNCHANGED <<state, failures, successes, probing>>
          /\ Settled /\ (Probe(c) \/ Ordinary(c))
      BY <1>7, <1>c, <1>d DEF Call
    <2>2. (Probe(c)' <=> Probe(c)) /\ (Ordinary(c)' <=> Ordinary(c))
      BY <1>h, <2>1
    <2>3. CASE result = "succeeded"
      <3>1. streak' = 0
        BY <1>b, <2>1, <2>3
      <3>2. Probe(c) => proved' = UpTo(HalfOpenProbes, proved + 1)
        BY <1>b, <2>1, <2>3 DEF Probe
      <3> QED
        BY <1>d, <1>g, <2>1, <2>2, <2>3, <3>1, <3>2
    <2>4. CASE result = "failed"
      <3>1. streak' = UpTo(FailureThreshold, streak + 1)
        BY <1>b, <2>1, <2>4
      <3> QED
        BY <1>d, <1>g, <2>1, <2>2, <2>4, <3>1
    <2> QED
      BY <2>3, <2>4
  <1>8. CASE RecordSuccess(c)
    BY <1>8, <1>b, <1>c, <1>d, <1>f DEF RecordSuccess, Probe, Ordinary
  <1>9. CASE CountSuccess(c)
    <2>1. /\ pc[c] = "countSuccess" /\ successes' = successes + 1
          /\ pc'[c] = IF successes' >= HalfOpenProbes THEN "close" ELSE leaving
          /\ state' = state /\ probing' = probing /\ failures' = failures
          /\ streak' = streak /\ proved' = proved
      BY <1>9, <1>b, <1>d, <1>g DEF CountSuccess
    <2>2. Probe(c) /\ Probe(c)' /\ state = "HalfOpen" /\ leaving = "return"
      BY <1>9, <1>c, <1>g, <1>h, <2>1
    <2>3. proved = successes + 1 /\ proved <= HalfOpenProbes /\ streak = 0
      BY <1>c, <2>1, <2>2
    <2>4. CASE successes' >= HalfOpenProbes
      BY <1>d, <1>f, <2>1, <2>2, <2>3, <2>4 DEF Probe, Ordinary
    <2>5. CASE ~(successes' >= HalfOpenProbes)
      BY <1>d, <1>f, <2>1, <2>2, <2>3, <2>5 DEF Probe, Ordinary
    <2> QED
      BY <2>4, <2>5
  <1>10. CASE ResetFailures(c) \/ StoreFailures(c)
    <2>1. /\ pc[c] \in {"resetFailures", "storeFailures"} /\ failures' = 0
          /\ pc'[c] = leaving /\ state' = state /\ probing' = probing
          /\ successes' = successes /\ streak' = streak /\ proved' = proved
      BY <1>10, <1>b, <1>d, <1>g DEF ResetFailures, StoreFailures
    <2>2. state = "Closed" /\ streak = 0
      BY <1>c, <1>g, <2>1
    <2>3. state' = "Closed" /\ failures' = 0 /\ streak' = 0
      BY <2>1, <2>2
    <2> QED
      BY <1>d, <1>f, <1>g, <2>1, <2>3 DEF Probe, Ordinary
  <1>11. CASE RecordFailure(c)
    BY <1>11, <1>b, <1>c, <1>d, <1>f DEF RecordFailure, Leaving, Probe, Ordinary
  <1>12. CASE CountFailure(c)
    <2>1. /\ pc[c] = "countFailure" /\ failures' = failures + 1
          /\ pc'[c] = IF failures' >= FailureThreshold THEN "trip" ELSE leaving
          /\ state' = state /\ probing' = probing /\ successes' = successes
          /\ streak' = streak /\ proved' = proved
      BY <1>12, <1>b, <1>d, <1>g DEF CountFailure
    <2>2. Ordinary(c) /\ Ordinary(c)' /\ state = "Closed" /\ leaving = "idle"
      BY <1>c, <1>g, <1>h, <2>1
    <2>3. streak = failures + 1 /\ streak <= FailureThreshold
      BY <1>c, <2>1, <2>2
    <2>4. CASE failures' >= FailureThreshold
      BY <1>d, <1>f, <2>1, <2>2, <2>3, <2>4 DEF Probe, Ordinary
    <2>5. CASE ~(failures' >= FailureThreshold)
      BY <1>d, <1>f, <2>1, <2>2, <2>3, <2>5 DEF Probe, Ordinary
    <2> QED
      BY <2>4, <2>5
  <1>13. CASE Close(c)
    BY <1>13, <1>b, <1>c, <1>d, <1>f DEF Close, Transition, Leaving, Probe, Ordinary
  <1>14. CASE Trip(c)
    BY <1>14, <1>b, <1>c, <1>d, <1>f DEF Trip, Transition, Leaving, Probe, Ordinary
  <1>15. CASE Reopen(c)
    BY <1>15, <1>b, <1>c, <1>d, <1>f DEF Reopen, Transition, Leaving, Probe, Ordinary
  <1>16. CASE StoreOpenedAt(c)
    BY <1>16, <1>b, <1>c, <1>d, <1>f DEF StoreOpenedAt, Leaving, Probe, Ordinary
  <1> QED
    BY <1>1, <1>2, <1>3, <1>4, <1>5, <1>6, <1>7, <1>8, <1>9, <1>10, <1>11, <1>12, <1>13,
       <1>14, <1>15, <1>16, Zenon DEF Do, Record

(* Who changes the state.                                                  *)
LEMMA StateChanges ==
    ASSUME pc \in [Caller -> Location], NEW c \in Caller, Do(c), state' # state
    PROVE  \/ pc[c] = "promote" /\ state = "Open" /\ state' = "HalfOpen"
           \/ pc[c] = "close" /\ state = "HalfOpen" /\ state' = "Closed"
           \/ pc[c] = "trip" /\ state = "Closed" /\ state' = "Open" /\ pc'[c] = "storeOpenedAt"
           \/ pc[c] = "reopen" /\ state = "HalfOpen" /\ state' = "Open" /\ pc'[c] = "storeOpenedAt"
  <1> USE DEF At, Goto, counters
  <1>1. ~(Enter(c) \/ ReadOpenedAt(c) \/ StoreHalfOpen(c) \/ Admit(c) \/ Refuse(c) \/ Return(c))
    BY DEF Enter, ReadOpenedAt, StoreHalfOpen, Admit, Refuse, Return
  <1>2. ~\E result \in {"succeeded", "failed"} : Call(c, result)
    BY DEF Call
  <1>3. ~(RecordSuccess(c) \/ CountSuccess(c) \/ ResetFailures(c))
    BY DEF RecordSuccess, CountSuccess, ResetFailures
  <1>4. ~(RecordFailure(c) \/ CountFailure(c) \/ StoreFailures(c) \/ StoreOpenedAt(c))
    BY DEF RecordFailure, CountFailure, StoreFailures, StoreOpenedAt
  <1>5. Promote(c) \/ Close(c) \/ Trip(c) \/ Reopen(c)
    BY <1>1, <1>2, <1>3, <1>4 DEF Do, Record
  <1>6. ASSUME NEW from, NEW to, NEW store, NEW lost, Transition(c, from, to, store, lost)
        PROVE  state = from /\ state' = to /\ pc'[c] = store
    BY <1>6 DEF Transition
  <1> QED
    BY <1>5, <1>6 DEF Promote, Close, Trip, Reopen

LEMMA CooledByWaiting ==
    ASSUME pc \in [Caller -> Location], NEW c \in Caller, Do(c), cooled'
    PROVE  pc[c] # "storeOpenedAt" /\ cooled
  <1> USE DEF At, Goto, counters
  <1>1. ~StoreOpenedAt(c)
    BY DEF StoreOpenedAt
  <1>2. CASE Enter(c) \/ ReadOpenedAt(c) \/ StoreHalfOpen(c) \/ Admit(c) \/ Refuse(c) \/ Return(c)
    BY <1>2 DEF Enter, ReadOpenedAt, StoreHalfOpen, Admit, Refuse, Return
  <1>3. CASE \E result \in {"succeeded", "failed"} : Call(c, result)
    BY <1>3 DEF Call
  <1>4. CASE RecordSuccess(c) \/ CountSuccess(c) \/ ResetFailures(c)
    BY <1>4 DEF RecordSuccess, CountSuccess, ResetFailures
  <1>5. CASE RecordFailure(c) \/ CountFailure(c) \/ StoreFailures(c)
    BY <1>5 DEF RecordFailure, CountFailure, StoreFailures
  <1>6. CASE Promote(c) \/ Close(c) \/ Trip(c) \/ Reopen(c)
    BY <1>6 DEF Promote, Close, Trip, Reopen, Transition
  <1> QED
    BY <1>1, <1>2, <1>3, <1>4, <1>5, <1>6 DEF Do, Record

(* cooled and the history's elapsed disagree only while a caller is about  *)
(* to store openedAt, overlapped calls or not.                             *)
LEMMA ClockStep ==
    ASSUME BreakerTypeOK, PolicyInv, NEW c \in Caller, Do(c), Remember PROVE ClockStored'
  <1> USE DEF At, Goto, counters
  <1> SUFFICES ASSUME ~elapsed', cooled' PROVE \E d \in Caller : pc'[d] = "storeOpenedAt"
    BY DEF ClockStored
  <1>1. pc \in [Caller -> Location] /\ \A d \in Caller \ {c} : pc'[d] = pc[d]
    BY MovesItself DEF BreakerTypeOK
  <1>2. elapsed' = (elapsed /\ ~(state # "Open" /\ state' = "Open"))
    BY DEF Remember, Becomes
  <1>3. CASE state # "Open" /\ state' = "Open"
    <2>1. pc'[c] = "storeOpenedAt"
      BY <1>1, <1>3, StateChanges
    <2> QED
      BY <2>1
  <1>4. CASE ~(state # "Open" /\ state' = "Open")
    <2>1. ~elapsed
      BY <1>2, <1>4 DEF PolicyInv, HistoryOK
    <2>2. pc[c] # "storeOpenedAt" /\ cooled
      BY <1>1, CooledByWaiting
    <2>3. PICK d \in Caller : pc[d] = "storeOpenedAt"
      BY <2>1, <2>2 DEF PolicyInv, ClockStored
    <2> QED
      BY <1>1, <2>2, <2>3
  <1> QED
    BY <1>3, <1>4

LEMMA PolicyStep == BreakerTypeOK /\ PolicyInv /\ [Next]_policyVars => PolicyInv'
  <1> SUFFICES ASSUME BreakerTypeOK, PolicyInv, [Next]_policyVars PROVE PolicyInv'
    OBVIOUS
  <1>0. ASSUME UNCHANGED <<state, failures, successes, pc, probing, streak, proved, overlapped>>,
               elapsed => elapsed', elapsed' \in BOOLEAN, ClockStored'
        PROVE  PolicyInv'
    <2>1. ASSUME NEW c \in Caller, Account(c) PROVE Account(c)'
      <3>1. (Probe(c)' <=> Probe(c)) /\ (Ordinary(c)' <=> Ordinary(c)) /\ (Settled' <=> Settled)
        BY <1>0, Zenon DEF Probe, Ordinary, Settled
      <3> QED
        BY <1>0, <2>1, <3>1 DEF Account, At
    <2>2. \A c \in Caller : SawCooled(c) => SawCooled(c)'
      BY <1>0, Zenon DEF SawCooled, At
    <2>3. Alone' = Alone /\ AtRest' = AtRest /\ Settled' = Settled
      BY <1>0, Zenon DEF Alone, Inside, AtRest, Settled
    <2>4. HistoryOK'
      BY <1>0, Zenon DEF PolicyInv, HistoryOK
    <2> QED
      BY <1>0, <2>1, <2>2, <2>3, <2>4, Zenon DEF PolicyInv
  <1>1. CASE Wait
    <2>1. UNCHANGED <<state, failures, successes, pc, probing, streak, proved, overlapped>>
      BY <1>1 DEF Wait, breakerVars, counters
    <2>2. elapsed' = TRUE
      BY <1>1 DEF Wait
    <2> QED
      BY <1>0, <2>1, <2>2 DEF ClockStored
  <1>2. CASE CooledAfterWait
    <2>1. UNCHANGED <<state, failures, successes, pc, probing, streak, proved, overlapped>>
      BY <1>2 DEF CooledAfterWait, CoolDown, history
    <2>2. elapsed' = elapsed /\ elapsed
      BY <1>2 DEF CooledAfterWait, history
    <2> QED
      BY <1>0, <2>1, <2>2 DEF ClockStored, PolicyInv, HistoryOK
  <1>3. ASSUME NEW c \in Caller, Do(c), Remember PROVE PolicyInv'
    <2>1. HistoryOK'
      <3>1. elapsed' \in BOOLEAN /\ overlapped' \in BOOLEAN
        BY <1>3 DEF Remember
      <3>2. /\ streak' \in {0, streak, UpTo(FailureThreshold, streak + 1)}
            /\ proved' \in {0, proved, UpTo(HalfOpenProbes, proved + 1)}
        BY <1>3 DEF Remember
      <3> QED
        BY <3>1, <3>2, BreakerAssumption DEF PolicyInv, HistoryOK, UpTo
    <2>2. ClockStored'
      BY <1>3, ClockStep
    <2>3. ASSUME ~overlapped'
          PROVE  Alone' /\ (\A d \in Caller : Account(d)' /\ SawCooled(d)') /\ (AtRest' => Settled')
      <3>1. Account(c)' /\ SawCooled(c)' /\ (pc'[c] = "idle" => Settled')
        BY <1>3, <2>3, AccountStep
      <3>2. Alone' /\ \A d \in Caller \ {c} : pc'[d] = "idle"
        BY <1>3, <2>3, OneCaller
      <3>3. \A d \in Caller \ {c} : Account(d)' /\ SawCooled(d)'
        BY <3>2 DEF Account, SawCooled, At
      <3> QED
        BY <3>1, <3>2, <3>3 DEF AtRest
    <2> QED
      BY <2>1, <2>2, <2>3 DEF PolicyInv
  <1>4. CASE UNCHANGED policyVars
    <2>1. UNCHANGED <<state, failures, successes, pc, probing, streak, proved, overlapped>>
      BY <1>4 DEF policyVars, breakerVars, counters, history
    <2>2. elapsed' = elapsed /\ cooled' = cooled
      BY <1>4 DEF policyVars, breakerVars, counters, history
    <2> QED
      BY <1>0, <2>1, <2>2 DEF ClockStored, PolicyInv, HistoryOK, At
  <1> QED
    BY <1>1, <1>2, <1>3, <1>4 DEF Next

LEMMA PolicyTypeStep == BreakerTypeOK /\ [Next]_policyVars => BreakerTypeOK'
  <1>1. [Next]_policyVars => [BreakerNext]_breakerVars
    BY DEF Next, Wait, CooledAfterWait, BreakerNext, policyVars
  <1> QED
    BY <1>1, TypeStep

LEMMA PolicyInitially == Init => BreakerTypeOK /\ PolicyInv
  <1> SUFFICES ASSUME Init PROVE BreakerTypeOK /\ PolicyInv
    OBVIOUS
  <1>1. BreakerTypeOK
    BY TypeInit DEF Init
  <1>2. Settled /\ \A c \in Caller : pc[c] = "idle"
    BY BreakerAssumption DEF Init, BreakerInit, Settled
  <1>3. HistoryOK /\ ClockStored
    BY DEF Init, HistoryOK, ClockStored
  <1>4. Alone /\ \A c \in Caller : Account(c) /\ SawCooled(c)
    BY <1>2 DEF Alone, Inside, Account, SawCooled, At
  <1> QED
    BY <1>1, <1>2, <1>3, <1>4 DEF PolicyInv

LEMMA PolicyInvariant == Spec => [](BreakerTypeOK /\ PolicyInv)
  BY PolicyInitially, PolicyStep, PolicyTypeStep, PTL DEF Spec

(* As long as no calls have overlapped, an open breaker admits nobody      *)
(* before its cooldown has passed (State of                                *)
(* pkg/circuitbreaker/circuitbreaker.go).                                  *)
THEOREM CooldownIsRespected == Spec => CooldownRespected
  <1>1. ASSUME BreakerTypeOK, PolicyInv, [Next]_policyVars
        PROVE  [~overlapped => EndsCooldown]_policyVars
    <2> SUFFICES ASSUME ~overlapped, state = "Open", state' = "HalfOpen", Next PROVE elapsed
      BY <1>1 DEF EndsCooldown, policyVars, breakerVars
    <2>1. PICK c \in Caller : Do(c) /\ Remember
      BY DEF Next, Wait, CooledAfterWait, CoolDown, breakerVars
    <2>2. pc[c] = "promote"
      BY <1>1, <2>1, StateChanges DEF BreakerTypeOK
    <2> QED
      BY <1>1, <2>2 DEF PolicyInv, SawCooled, At
  <1> QED
    BY <1>1, PolicyInvariant, PTL DEF Spec, CooldownRespected

(* As long as no calls have overlapped, a half-open breaker closes on      *)
(* exactly HalfOpenProbes successful probes of its own period, none of     *)
(* them left over from the period before (record of                        *)
(* pkg/circuitbreaker/circuitbreaker.go).                                  *)
THEOREM ClosesByProbes == Spec => ClosedByProbes
  <1>1. ASSUME BreakerTypeOK, PolicyInv, [Next]_policyVars
        PROVE  [~overlapped' /\ state = "HalfOpen" /\ state' = "Closed"
                   => proved = HalfOpenProbes]_policyVars
    <2> SUFFICES ASSUME ~overlapped', state = "HalfOpen", state' = "Closed", Next
                 PROVE  proved = HalfOpenProbes
      BY <1>1 DEF policyVars, breakerVars
    <2>1. PICK c \in Caller : Do(c) /\ Remember
      BY DEF Next, Wait, CooledAfterWait, CoolDown, breakerVars
    <2>2. pc[c] = "close" /\ ~overlapped
      BY <1>1, <2>1, StateChanges, OneCaller DEF BreakerTypeOK
    <2> QED
      BY <1>1, <2>2 DEF PolicyInv, Account, At
  <1> QED
    BY <1>1, PolicyInvariant, PTL DEF Spec, ClosedByProbes

(* As long as no calls have overlapped, a closed breaker opens on exactly  *)
(* FailureThreshold consecutive failures, and has fewer whenever it is at  *)
(* rest (record of pkg/circuitbreaker/circuitbreaker.go).                  *)
THEOREM TripsExactlyOnStreak == Spec => TripsOnStreak
  <1> DEFINE Opens == state = "Closed" /\ state' = "Open" => streak = FailureThreshold
             Rests == state' = "Closed" /\ (\A c \in Caller : pc'[c] = "idle") => streak' < FailureThreshold
  <1>1. ASSUME BreakerTypeOK, PolicyInv, PolicyInv', [Next]_policyVars
        PROVE  [~overlapped' => Opens /\ Rests]_policyVars
    <2> SUFFICES ASSUME ~overlapped', Next PROVE Opens /\ Rests
      BY <1>1
    <2>1. Rests
      BY <1>1 DEF PolicyInv, AtRest, Settled
    <2>2. ASSUME state = "Closed", state' = "Open" PROVE streak = FailureThreshold
      <3>1. PICK c \in Caller : Do(c) /\ Remember
        BY <2>2 DEF Next, Wait, CooledAfterWait, CoolDown, breakerVars
      <3>2. pc[c] = "trip" /\ ~overlapped
        BY <1>1, <2>2, <3>1, StateChanges, OneCaller DEF BreakerTypeOK
      <3> QED
        BY <1>1, <3>2 DEF PolicyInv, Account, At
    <2> QED
      BY <2>1, <2>2
  <1> QED
    BY <1>1, PolicyInvariant, PTL DEF Spec, TripsOnStreak
=============================================================================
