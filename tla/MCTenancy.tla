----------------------------- MODULE MCTenancy -----------------------------
(***************************************************************************)
(* Instances of Tenancy for TLC.                                           *)
(***************************************************************************)
EXTENDS Tenancy, TLC

CONSTANTS o1, p1, u1, u2, c1, c2

UserClientSymmetry == Permutations(Users) \cup Permutations(Clients)
===========================================================================
