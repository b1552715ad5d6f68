---------------------------- MODULE BreakerPolicy ----------------------------
(***************************************************************************)
(* The three-state policy of pkg/circuitbreaker, stated of the atomics of  *)
(* CircuitBreaker with the history it speaks of: the time since the        *)
(* breaker opened, the run of consecutive failures, the probes that        *)
(* succeeded.  The orchestrator's relay, the only user of a breaker in the *)
(* program, calls it one publish at a time and gets the policy exactly:    *)
(* the policy holds as long as no two calls have ever overlapped.  With    *)
(* concurrent callers parts of it fail.                                    *)
(*                                                                         *)
(* The repository has two accounts of what trips a closed breaker.  The    *)
(* comment on Config (circuitbreaker.go:44), the test that a success       *)
(* resets the streak (circuitbreaker_test.go:69) and the state diagram of  *)
(* the README (README.md:180) speak of consecutive failures: that is the   *)
(* policy here.  The package comment (circuitbreaker.go:3) speaks of a     *)
(* sliding window, which the code does not have: see MCBreakerWindow.      *)
(***************************************************************************)
EXTENDS CircuitBreaker

VARIABLES elapsed,   \* a cooldown has passed since the state became Open
          streak,    \* consecutive failed calls, up to FailureThreshold
          proved,    \* probes that succeeded since the state became HalfOpen
          overlapped \* two callers have been inside Do at once

history == <<elapsed, streak, proved, overlapped>>
policyVars == <<breakerVars, history>>

Init == BreakerInit /\ elapsed = TRUE /\ streak = 0 /\ proved = 0 /\ overlapped = FALSE

Becomes(s) == state # s /\ state' = s
Returns(c, result) == At(c, "call") /\ pc'[c] = result
UpTo(limit, n) == IF n > limit THEN limit ELSE n
Inside == {c \in Caller : pc[c] # "idle"}

(* Once calls have overlapped the policy says nothing more, so its history *)
(* is forgotten.                                                           *)
Remember ==
    /\ elapsed' = (elapsed /\ ~Becomes("Open"))
    /\ overlapped' = (overlapped \/ Cardinality(Inside') > 1)
    /\ IF overlapped'
       THEN streak' = 0 /\ proved' = 0
       ELSE /\ streak' = IF \E c \in Caller : Returns(c, "failed") THEN UpTo(FailureThreshold, streak + 1)
                         ELSE IF \E c \in Caller : Returns(c, "succeeded") THEN 0
                         ELSE streak
            /\ proved' = IF Becomes("HalfOpen") THEN 0
                         ELSE IF \E c \in Caller : Returns(c, "succeeded") /\ probing[c]
                              THEN UpTo(HalfOpenProbes, proved + 1)
                         ELSE proved

(* A cooldown passes since the breaker opened; it cannot pass sooner since *)
(* the openedAt the code stores afterwards.                                *)
Wait == ~elapsed /\ elapsed' = TRUE /\ UNCHANGED <<breakerVars, streak, proved, overlapped>>

CooledAfterWait == elapsed /\ CoolDown /\ UNCHANGED history

Next == \/ Wait
        \/ CooledAfterWait
        \/ (\E c \in Caller : Do(c)) /\ Remember

Spec == /\ Init /\ [][Next]_policyVars
        /\ WF_policyVars(Wait) /\ WF_policyVars(CooledAfterWait)
        /\ \A c \in Caller : WF_policyVars(Do(c) /\ Remember)

-----------------------------------------------------------------------------
(* Only a cooldown leads from open to half-open ("after Cooldown the       *)
(* breaker admits probes", circuitbreaker.go:4).                           *)
EndsCooldown == state = "Open" /\ state' = "HalfOpen" => elapsed
CooldownAlways    == [][EndsCooldown]_policyVars
CooldownRespected == [][~overlapped => EndsCooldown]_policyVars

(* Half-open closes on HalfOpenProbes successful probes of its own period  *)
(* ("successes needed to close from HalfOpen", circuitbreaker.go:46).      *)
ClosedByProbes ==
    [][~overlapped' /\ state = "HalfOpen" /\ state' = "Closed" => proved = HalfOpenProbes]_policyVars

(* A closed breaker opens on FailureThreshold consecutive failures, and is *)
(* never at rest with that many ("consecutive failures that trip Closed -> *)
(* Open", circuitbreaker.go:44; the "sliding window" of line 3 is another  *)
(* policy, which WindowTrips of MCBreakerWindow states and TLC refutes).   *)
TripsOnStreak ==
    [][~overlapped' =>
         /\ state = "Closed" /\ state' = "Open" => streak = FailureThreshold
         /\ state' = "Closed" /\ (\A c \in Caller : pc'[c] = "idle") => streak' < FailureThreshold
      ]_policyVars
=============================================================================
