------------------------------- MODULE MCEdge --------------------------------
(***************************************************************************)
(* What clients meet: the rate limiter, the paged and cached audit log,    *)
(* and the two ways to follow an expression.  The three share no state, so *)
(* a behaviour moves one of them, chosen by its first state, and leaves    *)
(* the others at rest.                                                     *)
(***************************************************************************)
EXTENDS RateLimiter, AuditQueries, EventStream, TLC

CONSTANTS r1, r2, b1, b2, h1, d1, d2

ReaderHome == r1 :> d1 @@ r2 :> d2
BrowserHub == b1 :> h1 @@ b2 :> h1

CONSTANTS MaxNow, MaxGrants, MaxClock   \* bounds of the clocks and of the history

VARIABLE part
edgeVars == <<limiterVars, queryVars, streamVars, part>>

(* At most one event is inserted during a walk.  The watcher and the       *)
(* dashboards do not meet: a behaviour has one or the other.  Beside the   *)
(* stuck browser there are no faults, nobody leaves, and the submission    *)
(* and one more commit are followed.                                       *)
EdgeInit ==
    /\ LimiterInit /\ QueriesInit /\ StreamInit
    /\ part \in {"limiter", "queries", "stream"}
    /\ IF part = "queries" THEN Cardinality(Log) + 1 >= Cardinality(LogKey) ELSE Log = {}
    /\ IF part = "stream"
       THEN \/ watch.at = "sleep" /\ \A b \in Browser : tab[b].stream = "left"
            \/ watch.at = "broken" /\ \A b \in Healthy : tab[b].stream = "new"
       ELSE watch.at = "broken" /\ \A b \in Browser : tab[b].stream = "left"

LimiterBounded == now' <= MaxNow /\ \A k \in Key : Cardinality(granted'[k]) <= MaxGrants
QueriesBounded == clock' <= MaxClock
Stuck          == Browser \ Healthy
OneTrouble     == (\E b \in Stuck : tab[b].stream # "left") =>
                      /\ losses' = losses /\ store'.commits <= 2
                      /\ \A b \in Browser : tab'[b].stream # "left"

EdgeNext ==
    /\ UNCHANGED part
    /\ \/ part = "limiter" /\ LimiterNext /\ LimiterBounded /\ UNCHANGED <<queryVars, streamVars>>
       \/ part = "queries" /\ QueriesNext /\ QueriesBounded /\ UNCHANGED <<limiterVars, streamVars>>
       \/ part = "stream" /\ StreamNext /\ OneTrouble /\ UNCHANGED <<limiterVars, queryVars>>

EdgeSpec == EdgeInit /\ [][EdgeNext]_edgeVars /\ StreamFairness
=============================================================================
