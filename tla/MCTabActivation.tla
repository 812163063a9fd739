--------------------------- MODULE MCTabActivation ---------------------------
(* Two calls on a window with two documents, one with an object of its own.  *)
EXTENDS TabActivation

CONSTANTS c1, c2, dA, dB, oB, window

MCWants == [c \in Client |-> IF c = c1 THEN {dB} ELSE {dA, dB}]
MCTarget == [o \in Object |-> IF o = oB THEN dB ELSE None]

=============================================================================
