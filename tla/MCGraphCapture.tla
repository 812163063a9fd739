---------------------------- MODULE MCGraphCapture ----------------------------
(* Instances of the capture of a document for TLC.                           *)
EXTENDS GraphCapture

CONSTANTS v1, v2

MCContents == {v1, v2}
=============================================================================
