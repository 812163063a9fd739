------------------------- MODULE GraphStoreMigration -------------------------
(***************************************************************************)
(* The conversion of a store directory written by an earlier version, as   *)
(* GraphStore::Initialize performs it (DocumentGraphStore.cpp): the staged *)
(* files, the intent with its receipts, the replacements in the root, the  *)
(* switch of the identity, and the resumption of a conversion that         *)
(* stopped.                                                                *)
(*                                                                         *)
(* Initialize holds the allocator mutex from its first to its last step,   *)
(* so one call at a time is exact.  It may fail or die between any two     *)
(* file operations.  The files of the root are numbered in the order in    *)
(* which they are replaced: the journal, the checkpoint, the commit        *)
(* markers, the identity.  What a file holds is Absent, Legacy or the      *)
(* epoch it was written for; a receipt, a digest of the whole root in the  *)
(* code, is the contents and the read-only flags themselves.               *)
(*                                                                         *)
(* Bound: MaxFaults, the failed calls and crashes of a behaviour.          *)
(***************************************************************************)
EXTENDS Integers, FiniteSets

CONSTANTS
  Commits,       \* committed generations of the legacy root
  MaxFaults

ASSUME CommitsAssumption == Commits \in Nat
ASSUME FaultsAssumption  == MaxFaults \in Nat

Journal    == 1
Checkpoint == 2
Identity   == Commits + 3
Files      == 1..Identity
Sources    == 1..(Identity - 1)
Markers    == 3..(Identity - 1)

Absent == -1
Legacy == 0
Epochs == 1..(MaxFaults + 1)
Form   == {Absent, Legacy} \cup Epochs

VARIABLES
  root,          \* what each file of the root holds
  exposed,       \* markers whose read-only flag is cleared
  temps,         \* files with a *.migration.tmp beside them
  stage,         \* what each file of migration-stage holds
  intent,        \* migration.intent: "none", "torn" or "whole"
  receipt,       \* what a whole intent records
  pc, item,      \* step of the running Initialize and the file it is at
  sound,         \* legacy checkpoint, journal and generations agree
  epoch,         \* the newest epoch drawn
  faults

disk == <<root, exposed, temps, stage, intent, receipt>>
vars == <<disk, pc, item, sound, epoch, faults>>

NoFiles == [f \in Files |-> Absent]

(* The roots an earlier version leaves, coherent or not: a crash or another  *)
(* hand may have lost the journal or the checkpoint.                         *)
Init ==
  /\ \E j, c \in {Absent, Legacy} :
       root = [f \in Files |-> CASE f = Journal -> j
                                [] f = Checkpoint -> c
                                [] f = Identity -> Absent
                                [] OTHER -> Legacy]
  /\ exposed = {} /\ temps = {} /\ stage = NoFiles
  /\ intent = "none" /\ receipt = [before |-> NoFiles, staged |-> NoFiles]
  /\ pc = "closed" /\ item = Journal /\ epoch = 0 /\ faults = 0
  /\ sound \in BOOLEAN

(***************************************************************************)
(* The states a receipt allows: the first n files replaced, or besides the *)
(* next marker exposed.                                                    *)
(***************************************************************************)
After(n) == [f \in Files |-> IF f <= n THEN receipt.staged[f]
                                       ELSE receipt.before[f]]
Replaced(n) == root = After(n) /\ exposed = {}
Uncovered(n) == root = After(n - 1) /\ exposed = {n}

Claimed == root[Journal] # Absent \/ root[Checkpoint] # Absent
Inspected ==
  /\ sound /\ root[Checkpoint] = Legacy
  /\ root[Journal] \in {Absent, Legacy}

\* Mutant: the receipts leave the exposed markers out.
ResumableWhole ==
  /\ intent = "whole" /\ stage = receipt.staged
  /\ \E n \in 0..(Identity - 1) : Replaced(n)

Resumable ==
  /\ intent = "whole" /\ stage = receipt.staged
  /\ \/ \E n \in 0..(Identity - 1) : Replaced(n)
     \/ \E n \in Markers : Uncovered(n)
Startable ==
  \/ Resumable
  \/ intent = "none" /\ (root[Identity] # Absent \/ Inspected \/ ~Claimed)

Goto(where, at) == pc' = where /\ item' = at
Fault == faults < MaxFaults /\ faults' = faults + 1

(* DeleteTree(migration-stage), whose result nobody looks at.                *)
DeleteStage ==
  \E left \in SUBSET Files :
    stage' = [f \in Files |-> IF f \in left THEN stage[f] ELSE Absent]

(***************************************************************************)
(* Initialize on a root that has no intent.                                *)
(***************************************************************************)
Open ==
  /\ pc = "closed" /\ intent = "none" /\ root[Identity] # Absent
  /\ Goto("open", Journal)
  /\ UNCHANGED <<disk, sound, epoch, faults>>

Refuse ==
  /\ pc = "closed" /\ ~Startable
  /\ UNCHANGED vars

\* Mutant: one missing file is enough to drop the claim.
DiscardClaimed ==
  /\ pc = "closed" /\ intent = "none" /\ root[Identity] = Absent
  /\ ~Inspected /\ root[Checkpoint] = Absent
  /\ \E left \in {{}, Markers} :
       root' = [f \in Files |-> IF f \in Markers \ left THEN Absent ELSE root[f]]
  /\ Goto("create", Identity)
  /\ UNCHANGED <<exposed, temps, stage, intent, receipt, sound, epoch, faults>>

(* A root without checkpoint and journal has no authority: its generations   *)
(* go, as far as they can be deleted.                                        *)
Discard ==
  /\ pc = "closed" /\ intent = "none" /\ root[Identity] = Absent
  /\ ~Inspected /\ ~Claimed
  /\ \E left \in {{}, Markers} :
       root' = [f \in Files |-> IF f \in Markers \ left THEN Absent ELSE root[f]]
  /\ Goto("create", Identity)
  /\ UNCHANGED <<exposed, temps, stage, intent, receipt, sound, epoch, faults>>

CreateIdentity ==
  /\ pc = "create"
  /\ epoch' = epoch + 1
  /\ root' = [f \in Files |-> IF f \in Markers THEN root[f] ELSE epoch']
  /\ Goto("open", Journal)
  /\ UNCHANGED <<exposed, temps, stage, intent, receipt, sound, faults>>

(***************************************************************************)
(* CompleteLegacyMigration.  The staged identity comes first; a stage that *)
(* an earlier attempt left is written over.                                *)
(***************************************************************************)
\* Mutant: an attempt starts over on whatever it finds.
BeginOver ==
  /\ pc = "closed" /\ root[Identity] = Absent
  /\ epoch' = epoch + 1
  /\ stage' = [stage EXCEPT ![Identity] = epoch']
  /\ Goto("stage", Journal)
  /\ UNCHANGED <<root, exposed, temps, intent, receipt, sound, faults>>

Begin ==
  /\ pc = "closed" /\ intent = "none" /\ root[Identity] = Absent /\ Inspected
  /\ epoch' = epoch + 1
  /\ stage' = [stage EXCEPT ![Identity] = epoch']
  /\ Goto("stage", Journal)
  /\ UNCHANGED <<root, exposed, temps, intent, receipt, sound, faults>>

\* Mutant: the loop over the files to stage runs one file too far.
StagePastEnd ==
  /\ pc = "stage"
  /\ stage' = [stage EXCEPT ![item] = epoch]
  /\ IF item > Identity THEN Goto("intent", Journal)
                        ELSE Goto("stage", item + 1)
  /\ UNCHANGED <<root, exposed, temps, intent, receipt, sound, epoch, faults>>

StageFile ==
  /\ pc = "stage"
  /\ stage' = [stage EXCEPT ![item] = epoch]
  /\ IF item + 1 = Identity THEN Goto("intent", Journal)
                            ELSE Goto("stage", item + 1)
  /\ UNCHANGED <<root, exposed, temps, intent, receipt, sound, epoch, faults>>

StageFails ==
  /\ pc \in {"stage", "intent"} /\ Fault
  /\ DeleteStage
  /\ Goto("closed", Journal)
  /\ UNCHANGED <<root, exposed, temps, intent, receipt, sound, epoch>>

(* The intent is created in place, so a crash leaves a piece of it.          *)
StartIntent ==
  /\ pc = "intent"
  /\ intent' = "torn"
  /\ Goto("seal", Journal)
  /\ UNCHANGED <<root, exposed, temps, stage, receipt, sound, epoch, faults>>

Receipted ==
  /\ intent' = "whole"
  /\ receipt' = [before |-> root, staged |-> stage]

SealIntent ==
  /\ pc = "seal"
  /\ Receipted
  /\ Goto("copy", Journal)
  /\ UNCHANGED <<root, exposed, temps, stage, sound, epoch, faults>>

SealFails ==
  /\ pc = "seal" /\ Fault
  /\ Receipted \/ UNCHANGED <<intent, receipt>>
  /\ DeleteStage
  /\ Goto("closed", Journal)
  /\ UNCHANGED <<root, exposed, temps, sound, epoch>>

(***************************************************************************)
(* ReplaceDurable, one file after the other: a copy beside the file, the   *)
(* read-only flag of a marker cleared, the copy moved over it.  Each step  *)
(* may fail and ends the call; the files stay as they are, except that a   *)
(* failed move puts the flag back if it can.                               *)
(***************************************************************************)
\* Mutant: the identity is switched before the markers are converted.
FollowingEarly(n) == Goto("copy", IF n = Checkpoint THEN Identity ELSE n + 1)

Following(n) == IF n + 1 = Identity THEN Goto("repair", Identity)
                                    ELSE Goto("copy", n + 1)

Copy ==
  /\ pc = "copy"
  /\ temps' = temps \cup {item}
  /\ Goto(IF item \in Markers THEN "clear" ELSE "move", item)
  /\ UNCHANGED <<root, exposed, stage, intent, receipt, sound, epoch, faults>>

Clear ==
  /\ pc = "clear"
  /\ exposed' = exposed \cup {item}
  /\ Goto("move", item)
  /\ UNCHANGED <<root, temps, stage, intent, receipt, sound, epoch, faults>>

\* Mutant: the copy is written over the file and stays.
MoveCopies ==
  /\ pc = "move"
  /\ root' = [root EXCEPT ![item] = stage[item]]
  /\ exposed' = exposed \ {item}
  /\ UNCHANGED temps
  /\ IF item = Identity THEN Goto("settle", Identity) ELSE Following(item)
  /\ UNCHANGED <<stage, intent, receipt, sound, epoch, faults>>

Move ==
  /\ pc = "move"
  /\ root' = [root EXCEPT ![item] = stage[item]]
  /\ exposed' = exposed \ {item}
  /\ temps' = temps \ {item}
  /\ IF item = Identity THEN Goto("settle", Identity) ELSE Following(item)
  /\ UNCHANGED <<stage, intent, receipt, sound, epoch, faults>>

MoveFails ==
  /\ pc = "move" /\ Fault
  /\ exposed' \in {exposed, exposed \ {item}}
  /\ Goto("closed", Journal)
  /\ UNCHANGED <<root, temps, stage, intent, receipt, sound, epoch>>

(* RepairMigratedMarkers, then the identity.                                 *)
Repair ==
  /\ pc = "repair"
  /\ \A m \in Markers : root[m] = stage[Identity]
  /\ exposed' = {}
  /\ Goto("copy", Identity)
  /\ UNCHANGED <<root, temps, stage, intent, receipt, sound, epoch, faults>>

StepFails ==
  /\ pc \in {"copy", "clear", "repair", "create"} /\ Fault
  /\ Goto("closed", Journal)
  /\ UNCHANGED <<disk, sound, epoch>>

(* The identity is in place: the intent and the stage are deleted, and       *)
(* whether that worked makes no difference to the answer.                    *)
DropIntent ==
  /\ pc = "settle"
  /\ \/ intent' = "none" /\ UNCHANGED faults
     \/ Fault /\ UNCHANGED intent
  /\ Goto("drop", Identity)
  /\ UNCHANGED <<root, exposed, temps, stage, receipt, sound, epoch>>

DropStage ==
  /\ pc = "drop"
  /\ DeleteStage
  /\ Goto("open", Journal)
  /\ UNCHANGED <<root, exposed, temps, intent, receipt, sound, epoch, faults>>

(***************************************************************************)
(* ResumeLegacyMigration: it looks the root up in the receipts, protects a *)
(* marker it finds exposed, and goes on from there.                        *)
(***************************************************************************)
ResumeReplaced ==
  /\ pc = "closed" /\ Resumable
  /\ \E n \in 0..(Identity - 1) :
       /\ Replaced(n)
       /\ \A k \in 0..(n - 1) : ~Replaced(k)
       /\ Following(n)
  /\ UNCHANGED <<disk, sound, epoch, faults>>

ResumeUncovered ==
  /\ pc = "closed" /\ Resumable
  /\ \E n \in Markers :
       /\ Uncovered(n)
       /\ Goto("copy", n)
  /\ exposed' = {}
  /\ UNCHANGED <<root, temps, stage, intent, receipt, sound, epoch, faults>>

Close ==
  /\ pc = "open"
  /\ Goto("closed", Journal)
  /\ UNCHANGED <<disk, sound, epoch, faults>>

Crash ==
  /\ pc \notin {"closed", "open"} /\ Fault
  /\ Goto("closed", Journal)
  /\ UNCHANGED <<disk, sound, epoch>>

Starting == Open \/ Discard \/ Begin \/ ResumeReplaced \/ ResumeUncovered
Working ==
  \/ CreateIdentity \/ StageFile \/ StartIntent \/ SealIntent
  \/ Copy \/ Clear \/ Move \/ Repair \/ DropIntent \/ DropStage
Failing == StageFails \/ SealFails \/ MoveFails \/ StepFails \/ Crash

Next == Starting \/ Working \/ Failing \/ Close \/ Refuse

(* A caller that was refused calls again, and a call that runs goes on.      *)
Spec == Init /\ [][Next]_vars /\ WF_vars(Starting) /\ WF_vars(Working)

-----------------------------------------------------------------------------

TypeOK ==
  /\ root \in [Files -> Form] /\ stage \in [Files -> Form]
  /\ exposed \subseteq Markers /\ temps \subseteq Files
  /\ intent \in {"none", "torn", "whole"}
  /\ receipt \in [before : [Files -> Form], staged : [Files -> Form]]
  /\ pc \in {"closed", "open", "create", "stage", "intent", "seal", "copy",
            "clear", "move", "repair", "settle", "drop"}
  /\ item \in Files /\ epoch \in 0..(MaxFaults + 1)
  /\ sound \in BOOLEAN /\ faults \in 0..MaxFaults

LegacyWhole ==
  /\ root[Identity] = Absent /\ exposed = {}
  /\ \A f \in Sources \ {Journal} : root[f] = Legacy
  /\ root[Journal] \in {Absent, Legacy}
Converted == exposed = {} /\ \A f \in Files : root[f] = root[Identity]

(* At every moment a root that had a checkpoint is the legacy root to the    *)
(* last file, or a conversion that its intent can resume, or wholly of the   *)
(* epoch of its identity: no failure and no crash leaves anything else.      *)
NothingLost ==
  Legacy \in {root[Checkpoint], receipt.before[Checkpoint]} =>
    \/ LegacyWhole
    \/ root[Identity] = Absent /\ Resumable
    \/ root[Identity] \in Epochs /\ Converted

(* "Claimed but incoherent legacy roots are immutable fail-closed evidence"  *)
(* (Initialize): no call touches a file of one.                              *)
EvidenceStays ==
  [][~Inspected /\ Claimed /\ root[Identity] = Absent /\ intent = "none"
       => UNCHANGED <<root, exposed>>]_vars

(* A file that has been converted keeps its epoch: the attempts of several   *)
(* processes do not mix their lineages.                                      *)
OneLineage ==
  [][\A f \in Files : root[f] \in Epochs => root'[f] = root[f]]_vars

(* A conversion leaves no *.migration.tmp behind.                            *)
NoResidue == pc = "open" => temps = {}

(* The dead ends of the procedure: an intent that is not whole, one whose    *)
(* stage is gone, and one that outlived the switch of the identity.          *)
DeadEnd ==
  intent # "none" /\
    (intent = "torn" \/ stage # receipt.staged \/ root[Identity] # Absent)

(* Every root an earlier version left in order is converted in the end,      *)
(* through any faults, unless it runs into one of the dead ends.             *)
Converts == sound /\ root[Checkpoint] = Legacy => []<>(pc = "open" \/ DeadEnd)

(* At every moment the root is legacy, resumable or converted, and an open   *)
(* store has no temporary file.                                              *)
AlwaysRecoverable == TypeOK /\ NothingLost /\ NoResidue

(* No step of a conversion takes away evidence or mixes two lineages.        *)
FilesStay == EvidenceStays /\ OneLineage

=============================================================================
