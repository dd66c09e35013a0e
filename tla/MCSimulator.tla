---------------------------- MODULE MCSimulator ----------------------------
(***************************************************************************)
(* Instance of TrafficSimulator for TLC: two users, two transfers and two   *)
(* threads; a wallet can pay for one transfer, not for two.                 *)
(***************************************************************************)
EXTENDS TrafficSimulator
=============================================================================
