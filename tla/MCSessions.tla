----------------------------- MODULE MCSessions -----------------------------
(***************************************************************************)
(* Instances of Sessions for TLC: an address in two spellings, and another *)
(* one.                                                                    *)
(***************************************************************************)
EXTENDS Sessions, TLC

CONSTANTS Alice, alice, bob, t1, t2, c1, c2

MCLower == [s \in Spellings |-> IF s = Alice THEN alice ELSE s]
=============================================================================
