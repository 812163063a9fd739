----------------------- MODULE MCOperationIdempotency -----------------------
(* An instance of OperationIdempotency small enough for TLC: one operation  *)
(* id, used for an edit or for a save.                                      *)
EXTENDS OperationIdempotency

CONSTANTS e1, e2, s1, r1, dEdit, dSave, p1

MCWorkflow == [d \in Digest |-> IF d = dSave THEN "save" ELSE "edit"]
MCPathOf == [s \in Session |-> p1]

=============================================================================
