------------------------- MODULE MCWorkerSupervisor -------------------------
(* An instance of WorkerSupervisor small enough for TLC: a call that writes *)
(* the document, a hwp_disconnect and a reload.                             *)
EXTENDS WorkerSupervisor

CONSTANTS c1, d1, r1

MCEffect == [c \in Call |-> "document"]

=============================================================================
