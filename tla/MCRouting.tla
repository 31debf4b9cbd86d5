----------------------------- MODULE MCRouting -----------------------------
(***************************************************************************)
(* Instances of Routing for TLC: two gateways' values (two ports), the     *)
(* user's endpoint "own", another one "proxy", and the variable's absence. *)
(***************************************************************************)
EXTENDS Routing, TLC
=============================================================================
