-------------------------- MODULE OperationPromise --------------------------
(***************************************************************************)
(* What the journal promises the callers of one operation id, whatever     *)
(* processes crash, repeat their requests or come late: an operation is    *)
(* open for one attempt at a time, a new attempt follows only on a stopped *)
(* or given-up one, and a result, once there, is the only one any caller   *)
(* will see until the whole record is forgotten.                           *)
(***************************************************************************)
EXTENDS Integers

CONSTANTS Key, MaxAttempt, Result, NoResult

VARIABLES
    phase,      \* "unknown", "spoiled", "open", "stopped" or "done"
    tries,      \* the number of the latest attempt
    answer      \* the result a repeated request receives

vars == <<phase, tries, answer>>

Init ==
    /\ phase = [k \in Key |-> "unknown"]
    /\ tries = [k \in Key |-> 1]
    /\ answer = [k \in Key |-> NoResult]

Open(k) ==
    /\ phase[k] = "unknown"
    /\ phase' = [phase EXCEPT ![k] = "open"]
    /\ UNCHANGED <<tries, answer>>

\* A record that cannot be read any more refuses every request for good.
Spoil(k) ==
    /\ phase[k] = "unknown"
    /\ phase' = [phase EXCEPT ![k] = "spoiled"]
    /\ UNCHANGED <<tries, answer>>

Stop(k) ==
    /\ phase[k] = "open"
    /\ phase' = [phase EXCEPT ![k] = "stopped"]
    /\ UNCHANGED <<tries, answer>>

Reopen(k) ==
    /\ phase[k] \in {"open", "stopped"}
    /\ tries[k] < MaxAttempt
    /\ phase' = [phase EXCEPT ![k] = "open"]
    /\ tries' = [tries EXCEPT ![k] = @ + 1]
    /\ UNCHANGED answer

\* From "open" the attempt succeeded; from "stopped" it is proved afterwards.
Finish(k) ==
    /\ phase[k] \in {"open", "stopped"}
    /\ phase' = [phase EXCEPT ![k] = "done"]
    /\ UNCHANGED tries
    /\ \E result \in Result : answer' = [answer EXCEPT ![k] = result]

Forget(forgotten) ==
    /\ \A k \in forgotten : phase[k] \in {"stopped", "done"}
    /\ phase' = [k \in Key |-> IF k \in forgotten THEN "unknown" ELSE phase[k]]
    /\ tries' = [k \in Key |-> IF k \in forgotten THEN 1 ELSE tries[k]]
    /\ answer' = [k \in Key |-> IF k \in forgotten THEN NoResult ELSE answer[k]]

Next ==
    \/ \E k \in Key :
          \/ Open(k)
          \/ Spoil(k)
          \/ Stop(k)
          \/ Reopen(k)
          \/ Finish(k)
    \/ \E forgotten \in SUBSET Key : Forget(forgotten)

Spec == Init /\ [][Next]_vars

=============================================================================
