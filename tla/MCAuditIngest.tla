---------------------------- MODULE MCAuditIngest ----------------------------
(***************************************************************************)
(* A good message m1, a poisonous one m2, and a writer with an unstamped   *)
(* and a stamped event; no symmetry, because liveness is checked.          *)
(***************************************************************************)
EXTENDS AuditIngest

CONSTANTS m1, m2, c1, c2, w1, u1, u2, nobody

TwoEvents == <<u1, u2>>

(* The messages do not meet, and the writer meets m1 under one fault only. *)
(* Nothing is barred that anybody is obliged to do.                        *)
Wrote == position[w1] > 0
Together == /\ m2 \in accepted => accepted = {m2} /\ ~Wrote
            /\ Wrote => faults < 2

MCSpec == AuditInit /\ [][AuditNext /\ Together']_auditVars /\ AuditFairness
=============================================================================
