--------------------------- MODULE MCCronEngine ---------------------------
(***************************************************************************)
(* Instances of CronEngine for TLC.                                        *)
(***************************************************************************)
EXTENDS CronEngine, TLC

CONSTANTS c1, c2, c3, e1, e2

MCPeriod == [c \in Crons |-> IF c = c1 THEN 1 ELSE 2]
\* Two engines; one with two definitions; and, as the code stands, one whose jobs
\* are all refused, with a good expression and a bad one.
MCTwoEngines == {[engines |-> {e1, e2}, crons |-> {c1}, refused |-> {}]}
MCDeployments ==
    {[engines |-> {e1, e2}, crons |-> {c2}, refused |-> {}],
     [engines |-> {e1}, crons |-> {c1, c2}, refused |-> {}],
     [engines |-> {e1}, crons |-> {c1, c3}, refused |-> Crons]}
MCAsItStands == {[engines |-> {e1, e2}, crons |-> {c1}, refused |-> Crons]}
Symmetry == Permutations(Engines)
===========================================================================
