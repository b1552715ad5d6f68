--------------------------- MODULE MCBreakerWindow ---------------------------
(***************************************************************************)
(* The breaker against the package comment, which says "failures are       *)
(* counted in a sliding window" (circuitbreaker.go:3).  The comment on the *)
(* threshold says "consecutive failures that trip Closed -> Open" (44).    *)
(* The two differ for any window longer than the threshold; this is the    *)
(* shortest one.                                                           *)
(***************************************************************************)
EXTENDS CircuitBreaker, Sequences

CONSTANT c1

Window == FailureThreshold + 1

VARIABLE recent   \* results of the last calls since the breaker became Closed, up to Window

Latest(s) == IF Len(s) > Window THEN Tail(s) ELSE s

Returned(c) == pc[c] = "call" /\ pc'[c] # "call"

Slide ==
    recent' = IF state # "Closed" \/ state' # "Closed" THEN <<>>
              ELSE IF \E c \in Caller : Returned(c)
                   THEN Latest(Append(recent, pc'[CHOOSE c \in Caller : Returned(c)]))
                   ELSE recent

WindowSpec == /\ BreakerInit /\ recent = <<>>
              /\ [][BreakerNext /\ Slide]_<<breakerVars, recent>>

(* At rest a closed breaker has fewer than FailureThreshold failed calls   *)
(* in its window, whatever calls succeeded between them: what record would *)
(* do if it counted failures as circuitbreaker.go:3 says.                  *)
WindowTrips ==
    state = "Closed" /\ (\A c \in Caller : pc[c] = "idle") =>
        Cardinality({i \in DOMAIN recent : recent[i] = "failed"}) < FailureThreshold
=============================================================================
