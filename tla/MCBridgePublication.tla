------------------------- MODULE MCBridgePublication -------------------------
(* Instances of the publication of Hangul for TLC.                           *)
EXTENDS BridgePublication

CONSTANTS w1, w2, d1, d2

MCWindows == {w1, w2}
MCDocuments == {d1, d2}
=============================================================================
