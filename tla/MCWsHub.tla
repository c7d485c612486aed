------------------------------ MODULE MCWsHub ------------------------------
(***************************************************************************)
(* Instances of WsHub for TLC.                                             *)
(***************************************************************************)
EXTENDS WsHub

CONSTANTS a, b
=============================================================================
