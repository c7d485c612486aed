----------------------------- MODULE MCEnqueue -----------------------------
(* Requests for TLC: r1 and r2 have one key, for different queues, r3 and r4 *)
(* an empty one, r5 and r6 have none.  r6 gives no tags.                     *)
EXTENDS Enqueue

CONSTANTS r1, r2, r3, r4, r5, r6, q1, q2, key

MCRequests == {r1, r2, r3, r4, r5, r6}
MCQueues == {q1, q2}
MCQueueOf == [r \in Requests |-> IF r = r2 THEN q2 ELSE q1]
MCKeys == [r \in Requests |->
             IF r \in {r1, r2} THEN key ELSE IF r \in {r3, r4} THEN Empty ELSE None]
MCTagged == Requests \ {r6}
=============================================================================
