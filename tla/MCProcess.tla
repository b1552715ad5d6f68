------------------------------ MODULE MCProcess ------------------------------
(***************************************************************************)
(* The parts that work inside one process, with no service beside them:    *)
(* the pool that runs an agent's tasks, and the two algorithms on plain    *)
(* data.  They share no state: a behaviour moves one of them, chosen by    *)
(* its first state, and leaves the others at rest.                         *)
(***************************************************************************)
EXTENDS MCAlgorithms, MCWorkerPool

processVars == <<parserVars, wireVars, poolVars, part>>

PoolRuns == part = "pool" /\ ParserRests /\ WireRests

ProcessInit == Init /\ (PoolRuns \/ AlgorithmsInit)

ProcessNext ==
    \/ AlgorithmsNext /\ UNCHANGED poolVars
    \/ part = "pool" /\ Next /\ UNCHANGED <<parserVars, wireVars, part>>

ProcessSpec == ProcessInit /\ [][ProcessNext]_processVars /\ Fairness
=============================================================================
