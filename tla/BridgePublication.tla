-------------------------- MODULE BridgePublication --------------------------
(***************************************************************************)
(* The publication of Hangul in the running object table (ROT) by the      *)
(* native bridge (Bridge.cpp), and what it notes of it on the shared       *)
(* status page (BridgeStatus.cpp).                                         *)
(*                                                                         *)
(* A name stands for a pair of registrations: the application object and a *)
(* BatchAutomation object bound to the name.  There is one name for the    *)
(* process, one for each window and one for each document of a window.     *)
(* Hangul calls UpdateUI whenever it is idle and DoAction at the start;    *)
(* both publish the active window and document.  A host calls              *)
(* ReleaseBridgePublication to take everything down.  Every call runs on   *)
(* the thread of the user interface, but each Register and Revoke is a     *)
(* call of its own that other processes observe and that may fail.         *)
(*                                                                         *)
(* Bound: MaxFaults, the failed calls of a behaviour.                      *)
(***************************************************************************)
EXTENDS Integers, SequencesExt

CONSTANTS
  Windows,       \* window handles
  Documents,     \* document ids
  MaxFaults

ASSUME PublicationAssumption ==
  IsFiniteSet(Windows) /\ IsFiniteSet(Documents) /\ MaxFaults \in Nat

Primary   == <<"process">>
WindowNames == {<<"window", w>> : w \in Windows}
DocumentNames == {<<"document", w, d>> : w \in Windows, d \in Documents}
Names == {Primary} \cup WindowNames \cup DocumentNames

VARIABLES
  shown,         \* active window and document, <<>> while it cannot be read
  rot,           \* registrations in the table, by name and kind
  alive,         \* BatchAutomation objects with a reference, by name
  held,          \* the cookies and the batch pointer the module keeps
  todo,          \* names the running call has still to go through
  step,          \* where the running call is, "idle" when none runs
  failed,        \* the running call has seen a failure
  page,          \* the cookies on the status page are not zero
  faults

publicationVars == <<shown, rot, alive, held, todo, step, failed, page, faults>>

Nothing == [raw |-> FALSE, batch |-> FALSE, owner |-> FALSE]
Complete(n) == held[n].raw /\ held[n].batch

PublicationInit ==
  /\ shown \in {<<>>} \cup {<<w>> : w \in Windows} \cup (Windows \X Documents)
  /\ rot = [n \in Names |-> [raw |-> 0, batch |-> 0]]
  /\ alive = [n \in Names |-> 0]
  /\ held = [n \in Names |-> Nothing]
  /\ todo = <<>> /\ step = "idle" /\ failed = FALSE
  /\ page = [raw |-> FALSE, batch |-> FALSE] /\ faults = 0

Fault == faults < MaxFaults /\ faults' = faults + 1

(* What Publish sets out to publish for the active window and document.      *)
Targets(view) ==
  <<Primary>> \o (IF Len(view) >= 1 THEN << <<"window", view[1]>> >> ELSE <<>>)
              \o (IF Len(view) = 2 THEN << <<"document", view[1], view[2]>> >>
                                   ELSE <<>>)
Published(view) ==
  Len(view) = 2 /\ \A i \in 1..3 : Complete(Targets(view)[i])

(* The user activates a window or a document, or closes the last one.        *)
Switch ==
  /\ step = "idle"
  /\ shown' \in ({<<>>} \cup {<<w>> : w \in Windows} \cup (Windows \X Documents))
                \ {shown}
  /\ UNCHANGED <<rot, alive, held, todo, step, failed, page, faults>>

(***************************************************************************)
(* FinishPublish and NoteRevoke: the page gets the cookies of the process  *)
(* name, and zeroes after a release whatever came of it.                   *)
(***************************************************************************)
\* Mutant: the page is left alone when the call takes publications down.
FinishKeepsPage(releasing) ==
  /\ page' = IF releasing THEN page
             ELSE [raw |-> held'[Primary].raw, batch |-> held'[Primary].batch]
  /\ todo' = <<>> /\ step' = "idle"

FinishCall(releasing) ==
  /\ page' = IF releasing THEN [raw |-> FALSE, batch |-> FALSE]
             ELSE [raw |-> held'[Primary].raw, batch |-> held'[Primary].batch]
  /\ todo' = <<>> /\ step' = "idle"

(***************************************************************************)
(* UpdateUI and DoAction.                                                  *)
(***************************************************************************)
StartPublish ==
  /\ todo' = Targets(shown)
  /\ step' = "revoke batch" /\ failed' = FALSE
  /\ UNCHANGED <<shown, rot, alive, held, page, faults>>

(* The table cannot be reached, or no memory is left for another entry.      *)
StartFails ==
  /\ Fault
  /\ failed' = TRUE
  /\ UNCHANGED <<shown, rot, alive, held>>
  /\ FinishCall(FALSE)

\* Mutant: a window that is published needs no look at the document.
MissingWindow == ~(\A i \in 1..2 : Len(shown) >= 1 /\ Complete(Targets(shown)[i]))

Missing == ~Published(shown)

UpdateUI == step = "idle" /\ Missing /\ (StartPublish \/ StartFails)
DoAction == step = "idle" /\ (StartPublish \/ StartFails)

(***************************************************************************)
(* RevokePair, on a pair that may hold one cookie only.  Publish stops at  *)
(* a failure, and keeps the cookie it could not give back.                 *)
(***************************************************************************)
This == Head(todo)
Releasing == step \in {"release batch", "release raw"}

Revoked(kind) ==
  /\ rot' = [rot EXCEPT ![This][kind] = @ - (IF held[This][kind] THEN 1 ELSE 0)]
  /\ held' = [held EXCEPT ![This][kind] = FALSE]
  /\ UNCHANGED faults
Kept(kind) ==
  /\ held[This][kind]
  /\ Fault
  /\ UNCHANGED <<rot, held>>

RevokeBatch ==
  /\ step \in {"revoke batch", "release batch"}
  /\ \/ Revoked("batch") /\ UNCHANGED failed
     \/ Kept("batch") /\ failed' = TRUE
  /\ step' = IF Releasing THEN "release raw" ELSE "revoke raw"
  /\ UNCHANGED <<shown, alive, todo, page>>

\* Mutant: the batch object goes with the application's cookie.
ReleasedWithRaw(isHeld) ==
  IF isHeld[This].raw \/ ~isHeld[This].owner
    THEN held' = isHeld /\ UNCHANGED alive
    ELSE /\ held' = [isHeld EXCEPT ![This].owner = FALSE]
         /\ alive' = [alive EXCEPT ![This] = @ - 1]

(* The batch object goes when both cookies are given back.                   *)
Released(isHeld) ==
  IF isHeld[This].raw \/ isHeld[This].batch \/ ~isHeld[This].owner
    THEN held' = isHeld /\ UNCHANGED alive
    ELSE /\ held' = [isHeld EXCEPT ![This].owner = FALSE]
         /\ alive' = [alive EXCEPT ![This] = @ - 1]

RevokeRawOf(n) ==
  \/ /\ rot' = [rot EXCEPT ![n].raw = @ - (IF held[n].raw THEN 1 ELSE 0)]
     /\ Released([held EXCEPT ![n].raw = FALSE])
     /\ UNCHANGED <<failed, faults>>
  \/ /\ held[n].raw /\ Fault
     /\ failed' = TRUE
     /\ Released(held)
     /\ UNCHANGED rot

\* Mutant: the new pair is registered although the old one is still there.
RevokeRawRegardless ==
  /\ step = "revoke raw"
  /\ RevokeRawOf(This)
  /\ step' = "register raw" /\ UNCHANGED <<todo, page, shown>>

\* Mutant: a document is looked up by its id, whatever its window.
RevokeRawById ==
  /\ step = "revoke raw"
  /\ \E n \in {m \in Names : m[1] = This[1] /\ Last(m) = Last(This)} :
       RevokeRawOf(n)
  /\ IF failed' THEN FinishCall(FALSE)
                ELSE step' = "register raw" /\ UNCHANGED <<todo, page>>
  /\ UNCHANGED shown

RevokeRaw ==
  /\ step = "revoke raw"
  /\ RevokeRawOf(This)
  /\ IF failed' THEN FinishCall(FALSE)
                ELSE step' = "register raw" /\ UNCHANGED <<todo, page>>
  /\ UNCHANGED shown


(***************************************************************************)
(* RegisterPair.  When the second half fails the first is taken back; when *)
(* that fails too, the entry keeps its cookie for a later call.            *)
(***************************************************************************)
RegisterRaw ==
  /\ step = "register raw"
  /\ \/ /\ rot' = [rot EXCEPT ![This].raw = @ + 1]
        /\ held' = [held EXCEPT ![This] =
                      [raw |-> TRUE, batch |-> FALSE, owner |-> FALSE]]
        /\ step' = "register batch"
        /\ UNCHANGED <<todo, failed, page, faults>>
     \/ /\ Fault /\ failed' = TRUE
        /\ held' = [held EXCEPT ![This] = Nothing]
        /\ FinishCall(FALSE)
        /\ UNCHANGED rot
  /\ UNCHANGED <<shown, alive>>

RegisterBatch ==
  /\ step = "register batch"
  /\ rot' = [rot EXCEPT ![This].batch = @ + 1]
  /\ alive' = [alive EXCEPT ![This] = @ + 1]
  /\ held' = [held EXCEPT ![This].batch = TRUE, ![This].owner = TRUE]
  /\ IF Len(todo) = 1
       THEN FinishCall(FALSE)
       ELSE todo' = Tail(todo) /\ step' = "revoke batch" /\ UNCHANGED page
  /\ UNCHANGED <<shown, failed, faults>>

\* Mutant: the half that was registered is forgotten with the one that was not.
RegisterBatchForgets ==
  /\ step = "register batch" /\ Fault
  /\ failed' = TRUE
  /\ held' = [held EXCEPT ![This].raw = FALSE]
  /\ FinishCall(FALSE)
  /\ UNCHANGED <<shown, alive, rot>>

RegisterBatchFails ==
  /\ step = "register batch" /\ Fault
  /\ failed' = TRUE
  /\ \/ /\ rot' = [rot EXCEPT ![This].raw = @ - 1]
        /\ held' = [held EXCEPT ![This].raw = FALSE]
     \/ UNCHANGED <<rot, held>>
  /\ FinishCall(FALSE)
  /\ UNCHANGED <<shown, alive>>

(***************************************************************************)
(* ReleaseBridgePublication goes on past a failure and reports the first.  *)
(***************************************************************************)
Release ==
  /\ step = "idle"
  /\ todo' = SetToSeq({n \in DocumentNames : held[n] # Nothing})
             \o SetToSeq({n \in WindowNames : held[n] # Nothing}) \o <<Primary>>
  /\ step' = "release batch" /\ failed' = FALSE
  /\ UNCHANGED <<shown, rot, alive, held, page, faults>>

ReleaseFails ==
  /\ step = "idle" /\ Fault
  /\ failed' = TRUE
  /\ UNCHANGED <<shown, rot, alive, held>>
  /\ FinishCall(TRUE)

\* Mutant: the release stops at the first failure.
ReleaseRawStops ==
  /\ step = "release raw"
  /\ RevokeRawOf(This)
  /\ IF Len(todo) = 1 \/ failed'
       THEN FinishCall(TRUE)
       ELSE todo' = Tail(todo) /\ step' = "release batch" /\ UNCHANGED page
  /\ UNCHANGED shown

ReleaseRaw ==
  /\ step = "release raw"
  /\ RevokeRawOf(This)
  /\ IF Len(todo) = 1
       THEN FinishCall(TRUE)
       ELSE todo' = Tail(todo) /\ step' = "release batch" /\ UNCHANGED page
  /\ UNCHANGED shown

Working ==
  \/ RevokeBatch \/ RevokeRaw \/ RegisterRaw \/ RegisterBatch
  \/ RegisterBatchFails \/ ReleaseRaw

PublicationNext == Switch \/ UpdateUI \/ DoAction \/ Release \/ ReleaseFails \/ Working

(* A call runs to its end, and Hangul comes back to its idle loop, in which  *)
(* it asks for the state of the actions, however often it is interrupted.    *)
PublicationSpec ==
  /\ PublicationInit /\ [][PublicationNext]_publicationVars
  /\ WF_publicationVars(Working) /\ SF_publicationVars(UpdateUI)

-----------------------------------------------------------------------------

PublicationTypes ==
  /\ shown \in {<<>>} \cup {<<w>> : w \in Windows} \cup (Windows \X Documents)
  /\ rot \in [Names -> [raw : 0..1, batch : 0..1]]
  /\ alive \in [Names -> 0..1]
  /\ held \in [Names -> [raw : BOOLEAN, batch : BOOLEAN, owner : BOOLEAN]]
  /\ \A i \in 1..Len(todo) : todo[i] \in Names
  /\ (step = "idle") = (todo = <<>>)
  /\ step \in {"idle", "revoke batch", "revoke raw", "register raw",
              "register batch", "release batch", "release raw"}
  /\ failed \in BOOLEAN /\ page \in [raw : BOOLEAN, batch : BOOLEAN]
  /\ faults \in 0..MaxFaults

(* Whatever fails, the module holds a cookie for every registration in the   *)
(* table and none twice: nothing stays published that no call can take down. *)
Tracked ==
  \A n \in Names : \A kind \in {"raw", "batch"} :
    rot[n][kind] = IF held[n][kind] THEN 1 ELSE 0

(* The batch object of a pair has a reference while its registration is in   *)
(* the table and none is left when the pair is gone.                         *)
ObjectsOwned ==
  \A n \in Names :
    /\ alive[n] = (IF held[n].owner THEN 1 ELSE 0)
    /\ held[n].batch => held[n].owner
    /\ step = "idle" /\ held[n].owner => held[n].raw \/ held[n].batch

(* Between calls the page does not show a cookie that was given back.        *)
PageNotAhead ==
  step = "idle" => /\ page.raw => held[Primary].raw
                   /\ page.batch => held[Primary].batch

(* Publishing a window or a document takes down no pair of another one.      *)
OthersStay ==
  [][~Releasing => \A n \in Names :
       rot[n] # rot'[n] => n = Primary \/ \E i \in 1..Len(Targets(shown)) :
                                            n = Targets(shown)[i]]_publicationVars

(* A release goes through every pair, whatever fails: no more registrations  *)
(* are left than calls of the table have failed, and none when it reports    *)
(* success.                                                                  *)
ReleaseTakesAll ==
  [][step = "release raw" /\ step' = "idle" =>
       LET left == {e \in Names \X {"raw", "batch"} : rot'[e[1]][e[2]] > 0}
       IN  Cardinality(left) <= (IF failed' THEN faults' ELSE 0)]_publicationVars

(* Whatever the table refuses and whenever documents are switched or all is  *)
(* taken down, the active document is published again, all three pairs.      *)
PublishedAgain == []<>(Len(shown) = 2 => Published(shown))

(* The table of running objects and the books of the bridge agree: what is   *)
(* registered can be revoked and answers with a live object, and the page of *)
(* the window shows no more than there is.                                   *)
RegistrationsOwned == PublicationTypes /\ Tracked /\ ObjectsOwned /\ PageNotAhead

(* A publication takes down only its own pairs, and a release every pair.    *)
TakesDownItsOwn == OthersStay /\ ReleaseTakesAll

=============================================================================
