------------------------- MODULE MCCheckpointRestore -------------------------
(* Three bodies; the second has as many pages as the first and as an empty   *)
(* or a broken document.                                                     *)
EXTENDS CheckpointRestore

MCBodies == {1, 2, 3}
MCPages == [b \in -1 .. 3 |-> IF b = 3 THEN 2 ELSE 1]
=============================================================================
