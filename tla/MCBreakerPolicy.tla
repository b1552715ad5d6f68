--------------------------- MODULE MCBreakerPolicy ---------------------------
(***************************************************************************)
(* Two callers that come and go, and a third that calls only when both     *)
(* probe slots are taken: the one who is refused, unless a reset of the    *)
(* counter lets it in.  No symmetry, because liveness is checked.          *)
(***************************************************************************)
EXTENDS BreakerPolicy

CONSTANTS c1, c2, c3

Crowded == state = "HalfOpen" /\ probes >= HalfOpenProbes
ThirdComesLate == pc[c3] = "idle" /\ pc'[c3] # "idle" => Crowded

(* Nobody is obliged to let the third in.                                  *)
MCSpec == /\ Init /\ [][Next /\ ThirdComesLate]_policyVars
          /\ WF_policyVars(Wait) /\ WF_policyVars(CooledAfterWait)
          /\ \A c \in Caller : WF_policyVars(Do(c) /\ Remember /\ ThirdComesLate)
=============================================================================
