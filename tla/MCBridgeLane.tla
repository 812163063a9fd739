---------------------------- MODULE MCBridgeLane ----------------------------
(* A small instance of BridgeLane for TLC. *)
EXTENDS BridgeLane

CONSTANTS m1, r1, d1
=============================================================================
