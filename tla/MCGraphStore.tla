---------------------------- MODULE MCGraphStore ----------------------------
(* Instances of the generation store for TLC.                                *)
EXTENDS GraphStore, TLC

CONSTANTS StoreA, StoreB

MCStores == {StoreA, StoreB}
StoreSymmetry == Permutations(MCStores)
=============================================================================
