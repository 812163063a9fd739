------------------------- MODULE GenerationRegister -------------------------
(***************************************************************************)
(* What a graph store promises, whatever happens to the processes that     *)
(* write it: a serial is handed out once, a generation becomes durable     *)
(* under a serial that was handed out, and the newest durable generation   *)
(* never goes back.  The module says nothing of files, locks or crashes.   *)
(***************************************************************************)
EXTENDS Naturals

CONSTANT Serials          \* the serials a store can hand out

VARIABLES
  taken,                  \* serials handed out
  reached                 \* serials at or below the newest durable generation

vars == <<taken, reached>>

UpTo(n) == {m \in Serials : m <= n}

Init == taken = {} /\ reached = {}

Take(n) ==
  /\ n \notin taken
  /\ taken' = UpTo(n)
  /\ taken \subseteq UpTo(n)
  /\ UNCHANGED reached

Commit(n) ==
  /\ n \in taken \ reached
  /\ reached' = reached \cup UpTo(n)
  /\ UNCHANGED taken

Next == \E n \in Serials : Take(n) \/ Commit(n)

Spec == Init /\ [][Next]_vars
=============================================================================
