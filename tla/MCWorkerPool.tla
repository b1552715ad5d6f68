---------------------------- MODULE MCWorkerPool ----------------------------
(***************************************************************************)
(* Names for tasks, permanent and transient workers; no symmetry, because  *)
(* liveness is checked.                                                    *)
(***************************************************************************)
EXTENDS WorkerPool

CONSTANTS t1, t2, p1, w1, w2, w3
=============================================================================
