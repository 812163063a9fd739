---------------------------- MODULE MCGraphStream ----------------------------
(* A small instance of GraphStream: two records, an empty field, a field   *)
(* longer than any fragment of the smallest frame, frames of one and of    *)
(* several fragments, and a frame with no room for a fragment.             *)
EXTENDS GraphStream

MCRecords == <<<<2, 0>>, <<1>>>>
MCBudgets == {56, 57, 114}
=============================================================================
