---------------------------- MODULE MCJobQueue ----------------------------
(***************************************************************************)
(* Instances of JobQueue for TLC.                                          *)
(***************************************************************************)
EXTENDS JobQueue, TLC

CONSTANTS j1, j2, j3, q1, q2, w1, w2, c1, c2

MCOneQueue == [j \in Jobs |-> q1]
MCPriority == [j \in Jobs |-> IF j = j1 THEN 2 ELSE 1]
MCQueuePriority == [q \in Queues |-> IF q = q1 THEN 1 ELSE 2]
MCLimitOne == [q \in Queues |-> 1]
MCLimitTwo == [q \in Queues |-> 2]

WorkerSymmetry == Permutations(Workers)
WorkerRetrierSymmetry == Permutations(Workers) \cup Permutations(Retriers)
WorkerJobSymmetry == Permutations(Workers) \cup Permutations({j2, j3})
===========================================================================
