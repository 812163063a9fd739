---------------------- MODULE GraphStoreMigrationProofs ----------------------
(***************************************************************************)
(* Theorems about GraphStoreMigration, for any number of generations and   *)
(* of faults: at every moment the root can be recovered, and no step takes *)
(* away evidence or mixes two lineages.                                    *)
(*                                                                         *)
(* The inductive invariant tells apart the lives of a root: one without    *)
(* authority, incoherent evidence, the legacy root as it was, a conversion *)
(* under way, a converted root and one that was created.  A conversion     *)
(* under way is described by the number of files it has replaced.          *)
(***************************************************************************)
EXTENDS GraphStoreMigration, TLAPS

NoReceipt == receipt.before[Checkpoint] # Legacy

(* The intent records a legacy root and a stage of one epoch.                *)
ReceiptSound ==
  /\ \E e \in Epochs : \A f \in Files : receipt.staged[f] = e
  /\ receipt.before[Identity] = Absent
  /\ receipt.before[Journal] \in {Absent, Legacy}
  /\ \A f \in Sources \ {Journal} : receipt.before[f] = Legacy

Tidy == exposed = {} /\ temps = {}

Unclaimed ==
  /\ ~Claimed /\ root[Identity] = Absent
  /\ \A m \in Markers : root[m] \in {Absent, Legacy}
  /\ intent = "none" /\ NoReceipt /\ Tidy
  /\ pc \in {"closed", "create"}

Evidence ==
  /\ root[Journal] = Legacy /\ root[Checkpoint] = Absent /\ root[Identity] = Absent
  /\ \A m \in Markers : root[m] = Legacy
  /\ intent = "none" /\ NoReceipt /\ Tidy
  /\ pc = "closed"

Staged == \A f \in Files : stage[f] = epoch

Intact ==
  /\ LegacyWhole /\ temps = {}
  /\ \/ intent = "none" /\ pc = "closed"
     \/ /\ intent = "none" /\ pc = "stage" /\ item \in Sources
        /\ stage[Identity] = epoch /\ \A f \in 1..(item - 1) : stage[f] = epoch
     \/ intent = "none" /\ pc = "intent" /\ Staged
     \/ intent = "torn" /\ pc = "closed"
     \/ intent = "torn" /\ pc = "seal" /\ Staged
     \/ intent = "whole" /\ pc = "closed" /\ ReceiptSound /\ receipt.before = root
  /\ pc \in {"stage", "intent", "seal"} => epoch \in Epochs

(* The first n files are replaced, and the next one is being worked on.      *)
At(n) ==
  /\ root = After(n) /\ temps \subseteq {n + 1}
  /\ \/ pc = "closed" /\ exposed \subseteq {n + 1} \cap Markers
     \/ pc = "copy" /\ item = n + 1 /\ exposed = {}
     \/ pc = "clear" /\ item = n + 1 /\ item \in Markers /\ exposed = {}
     \/ pc = "move" /\ item = n + 1 /\ exposed = {n + 1} \cap Markers
     \/ pc = "repair" /\ item = n + 1 /\ n + 1 = Identity /\ exposed = {}

Converting ==
  /\ intent = "whole" /\ ReceiptSound /\ stage = receipt.staged
  /\ \E n \in 0..(Identity - 1) : At(n)

Done ==
  /\ root[Identity] \in Epochs /\ Converted /\ temps = {}
  /\ intent = "none" \/ (intent = "whole" /\ ReceiptSound)
  /\ pc \in {"settle", "drop", "open", "closed"}

Born ==
  /\ root[Identity] \in Epochs /\ root[Checkpoint] \in Epochs
  /\ intent = "none" /\ NoReceipt /\ Tidy
  /\ pc \in {"open", "closed"}

(* Every epoch but one that is in use was lost to a fault.                   *)
EpochBound ==
  /\ epoch <= faults + 1
  /\ intent = "none" /\ root[Identity] = Absent /\ pc \in {"closed", "create"} =>
       epoch <= faults

Life == Unclaimed \/ Evidence \/ Intact \/ Converting \/ Done \/ Born

IInv == TypeOK /\ EpochBound /\ Life

-----------------------------------------------------------------------------
(* The numbers of the files, and the receipts.                             *)

LEMMA Numbers ==
  /\ Commits \in Nat /\ MaxFaults \in Nat
  /\ Identity \in Int /\ Identity >= 3 /\ Journal = 1 /\ Checkpoint = 2
  /\ Files = 1..Identity /\ Sources = 1..(Identity - 1) /\ Markers = 3..(Identity - 1)
  /\ Absent \notin Epochs /\ Legacy \notin Epochs /\ Absent # Legacy
  /\ Absent \in Form /\ Legacy \in Form /\ Epochs \subseteq Form
  /\ \A e \in Epochs : e \in Int /\ e >= 1
BY CommitsAssumption, FaultsAssumption
   DEF Identity, Journal, Checkpoint, Files, Sources, Markers, Absent, Legacy, Epochs, Form

LEMMA FileNumbers ==
  /\ Journal \in Files /\ Checkpoint \in Files /\ Identity \in Files
  /\ Journal \in Sources /\ Checkpoint \in Sources \ {Journal}
  /\ Markers \subseteq Sources \ {Journal} /\ Sources \subseteq Files
  /\ Identity \notin Sources /\ Identity \notin Markers /\ Journal \notin Markers
  /\ Checkpoint \notin Markers
BY Numbers

LEMMA AfterFacts ==
  ASSUME TypeOK, NEW n \in 0..Identity
  PROVE  /\ After(n) \in [Files -> Form]
         /\ \A f \in Files : f <= n => After(n)[f] = receipt.staged[f]
         /\ \A f \in Files : f > n => After(n)[f] = receipt.before[f]
<1>1. receipt.staged \in [Files -> Form] /\ receipt.before \in [Files -> Form]
  BY DEF TypeOK
<1> QED BY <1>1, Numbers DEF After

LEMMA ReceiptFacts ==
  ASSUME ReceiptSound
  PROVE  /\ \A f \in Files : receipt.before[f] \in {Absent, Legacy} /\ receipt.staged[f] \in Epochs
         /\ receipt.before[Checkpoint] = Legacy
BY Numbers DEF ReceiptSound

(* The contents of the root tell how many files are replaced.                *)
LEMMA AfterUnique ==
  ASSUME TypeOK, ReceiptSound, NEW n \in 0..Identity, NEW k \in 0..Identity,
         After(n) = After(k)
  PROVE  n = k
<1>1. ASSUME NEW i \in 0..Identity, NEW j \in 0..Identity, i < j, After(i) = After(j)
      PROVE  FALSE
  <2>1. i + 1 \in Files /\ i + 1 > i /\ i + 1 <= j
    BY <1>1, Numbers
  <2>2. After(i)[i + 1] = receipt.before[i + 1] /\ After(j)[i + 1] = receipt.staged[i + 1]
    BY <2>1, AfterFacts
  <2> QED BY <1>1, <2>1, <2>2, ReceiptFacts, Numbers
<1> QED BY <1>1, Numbers

(* One more file is replaced.                                                *)
LEMMA AfterNext ==
  ASSUME TypeOK, NEW n \in 0..(Identity - 1), root = After(n)
  PROVE  [root EXCEPT ![n + 1] = receipt.staged[n + 1]] = After(n + 1)
<1>1. n \in 0..Identity /\ n + 1 \in 0..Identity /\ n + 1 \in Files
  BY Numbers
<1> DEFINE r == [root EXCEPT ![n + 1] = receipt.staged[n + 1]]
           a == After(n + 1)
<1>2. root \in [Files -> Form] /\ a \in [Files -> Form]
  BY <1>1, AfterFacts DEF TypeOK
<1>3. \A f \in Files : r[f] = a[f]
  <2>1. TAKE f \in Files
  <2>2. CASE f = n + 1
    <3>1. a[f] = receipt.staged[f]
      BY <1>1, <2>2, AfterFacts, Numbers
    <3> QED BY <1>2, <2>2, <3>1
  <2>3. CASE f # n + 1
    <3>1. f <= n \/ f > n + 1
      BY <1>1, <2>3, Numbers
    <3>2. a[f] = After(n)[f]
      <4>1. CASE f <= n
        BY <1>1, <4>1, AfterFacts, Numbers
      <4>2. CASE f > n + 1
        BY <1>1, <4>2, AfterFacts, Numbers
      <4> QED BY <3>1, <4>1, <4>2
    <3> QED BY <1>1, <1>2, <2>3, <3>2
  <2> QED BY <2>2, <2>3
<1>4. r \in [Files -> Form] \/ r = [f \in Files |-> r[f]]
  BY <1>2
<1> HIDE DEF a
<1> QED BY <1>2, <1>3, <1>4 DEF a

LEMMA AfterKept ==
  ASSUME receipt' = receipt, NEW n
  PROVE  After(n)' = After(n)
BY DEF After

(* Where a step of the procedure finds itself.                               *)
LEMMA LifeAt ==
  ASSUME Life
  PROVE  /\ pc \in {"copy", "clear", "move", "repair"} => Converting
         /\ pc \in {"stage", "intent", "seal"} => Intact
         /\ pc = "create" => Unclaimed
         /\ pc \in {"settle", "drop"} => Done
         /\ pc = "open" => Done \/ Born
BY DEF Life, Unclaimed, Evidence, Intact, Converting, At, Done, Born

LEMMA ConvertingRoot ==
  ASSUME TypeOK, Converting
  PROVE  root[Identity] = Absent /\ root[Identity] \notin Epochs
<1>1. PICK n \in 0..(Identity - 1) : At(n)
  BY DEF Converting
<1>2. root = After(n) /\ n \in 0..Identity /\ Identity > n /\ Identity \in Files
  BY <1>1, Numbers DEF At
<1>3. root[Identity] = receipt.before[Identity]
  BY <1>2, AfterFacts
<1> QED BY <1>3, Numbers DEF Converting, ReceiptSound

LEMMA LifeWithout ==
  ASSUME TypeOK, Life, intent = "none", root[Identity] = Absent
  PROVE  Unclaimed \/ Evidence \/ Intact
<1>1. ~Done /\ ~Born
  BY Numbers DEF Done, Born
<1> QED BY <1>1 DEF Life, Converting

-----------------------------------------------------------------------------
(* Types and epochs.                                                       *)

LEMMA TypeStep ==
  ASSUME IInv, [Next]_vars
  PROVE  TypeOK'
<1>0. TypeOK /\ EpochBound /\ Life
  BY DEF IInv
<1>1. /\ root \in [Files -> Form] /\ stage \in [Files -> Form]
      /\ receipt \in [before : [Files -> Form], staged : [Files -> Form]]
      /\ epoch \in Int /\ 0 <= epoch /\ epoch <= MaxFaults + 1 /\ faults \in 0..MaxFaults
      /\ item \in Files /\ exposed \subseteq Markers /\ temps \subseteq Files
  BY <1>0, Numbers DEF TypeOK
<1>2. epoch <= MaxFaults => epoch + 1 \in Form /\ epoch + 1 \in 0..(MaxFaults + 1)
  BY <1>1, Numbers DEF Form, Epochs
<1>3. epoch' \in 0..(MaxFaults + 1) /\ faults' \in 0..MaxFaults /\ sound' = sound
  <2>1. CreateIdentity \/ Begin => epoch <= MaxFaults
    <3>1. CreateIdentity => intent = "none" /\ root[Identity] = Absent
      BY <1>0, LifeAt DEF CreateIdentity, Unclaimed
    <3> QED BY <1>0, <1>1, <3>1, Numbers DEF EpochBound, CreateIdentity, Begin
  <2> QED BY <1>1, <1>2, <2>1, Numbers
          DEF Next, Starting, Working, Failing, Open, Discard, Begin, ResumeReplaced,
              ResumeUncovered, CreateIdentity, StageFile, StartIntent, SealIntent, Copy, Clear,
              Move, Repair, DropIntent, DropStage, StageFails, SealFails, MoveFails, StepFails,
              Crash, Close, Refuse, Fault, disk, vars
<1>4. /\ pc' \in {"closed", "open", "create", "stage", "intent", "seal", "copy",
                 "clear", "move", "repair", "settle", "drop"}
      /\ item' \in Files
  <2>1. pc \in {"stage", "move", "clear"} => item \in Int /\ 1 <= item /\ item <= Identity
    BY <1>1, Numbers
  <2>2. StageFile => item + 1 \in Files
    <3>1. StageFile => item \in Sources
      BY <1>0, LifeAt DEF StageFile, Intact
    <3> QED BY <3>1, Numbers
  <2>3. \A n \in 0..(Identity - 1) : Following(n) => pc' \in {"repair", "copy"} /\ item' \in Files
    BY Numbers DEF Following, Goto
  <2>4. Move /\ item # Identity => item \in 0..(Identity - 1)
    BY <1>1, Numbers
  <2> QED BY <1>0, <1>1, <2>1, <2>2, <2>3, <2>4, FileNumbers
          DEF Next, Starting, Working, Failing, Open, Discard, Begin, ResumeReplaced,
              ResumeUncovered, CreateIdentity, StageFile, StartIntent, SealIntent, Copy, Clear,
              Move, Repair, DropIntent, DropStage, StageFails, SealFails, MoveFails, StepFails,
              Crash, Close, Refuse, Goto, TypeOK, vars
<1>5. root' \in [Files -> Form]
  <2>1. UNCHANGED root \/ Discard \/ CreateIdentity \/ Move
    BY DEF Next, Starting, Working, Failing, Open, Discard, Begin, ResumeReplaced,
              ResumeUncovered, CreateIdentity, StageFile, StartIntent, SealIntent, Copy, Clear,
              Move, Repair, DropIntent, DropStage, StageFails, SealFails, MoveFails, StepFails,
              Crash, Close, Refuse, disk, vars
  <2>2. CASE Discard
    BY <1>1, <2>2, Numbers DEF Discard
  <2>3. CASE CreateIdentity
    <3>1. epoch' \in Form
      <4>1. epoch <= MaxFaults
        BY <1>0, <1>1, <2>3, LifeAt, Numbers DEF EpochBound, CreateIdentity, Unclaimed
      <4> QED BY <1>2, <2>3, <4>1 DEF CreateIdentity
    <3> QED BY <1>1, <2>3, <3>1 DEF CreateIdentity
  <2>4. CASE Move
    BY <1>1, <2>4 DEF Move
  <2> QED BY <1>1, <2>1, <2>2, <2>3, <2>4
<1>6. stage' \in [Files -> Form]
  <2>1. UNCHANGED stage \/ DeleteStage \/ Begin \/ StageFile
    BY DEF Next, Starting, Working, Failing, Open, Discard, Begin, ResumeReplaced,
              ResumeUncovered, CreateIdentity, StageFile, StartIntent, SealIntent, Copy, Clear,
              Move, Repair, DropIntent, DropStage, StageFails, SealFails, MoveFails, StepFails,
              Crash, Close, Refuse, disk, vars
  <2>2. CASE DeleteStage
    BY <1>1, <2>2, Numbers DEF DeleteStage
  <2>3. CASE Begin
    <3>1. epoch <= MaxFaults
      BY <1>0, <1>1, <2>3, Numbers DEF EpochBound, Begin
    <3> QED BY <1>1, <1>2, <2>3, <3>1 DEF Begin
  <2>4. CASE StageFile
    <3>1. epoch \in Form
      <4>1. epoch \in Epochs
        BY <1>0, <2>4, LifeAt DEF StageFile, Intact
      <4> QED BY <4>1, Numbers
    <3> QED BY <1>1, <2>4, <3>1 DEF StageFile
  <2> QED BY <1>1, <2>1, <2>2, <2>3, <2>4
<1>7. /\ intent' \in {"none", "torn", "whole"}
      /\ receipt' \in [before : [Files -> Form], staged : [Files -> Form]]
  BY <1>0, <1>1
     DEF Next, Starting, Working, Failing, Open, Discard, Begin, ResumeReplaced,
         ResumeUncovered, CreateIdentity, StageFile, StartIntent, SealIntent, Copy, Clear,
         Move, Repair, DropIntent, DropStage, StageFails, SealFails, MoveFails, StepFails,
         Crash, Close, Refuse, Receipted, disk, vars, TypeOK
<1>8. exposed' \subseteq Markers /\ temps' \subseteq Files
  <2>1. Clear => item \in Markers
    <3>1. Clear => \E n \in 0..(Identity - 1) : At(n)
      BY <1>0, LifeAt DEF Clear, Converting
    <3> QED BY <3>1 DEF At, Clear
  <2> QED BY <1>1, <2>1
          DEF Next, Starting, Working, Failing, Open, Discard, Begin, ResumeReplaced,
              ResumeUncovered, CreateIdentity, StageFile, StartIntent, SealIntent, Copy, Clear,
              Move, Repair, DropIntent, DropStage, StageFails, SealFails, MoveFails, StepFails,
              Crash, Close, Refuse, disk, vars
<1> QED BY <1>3, <1>4, <1>5, <1>6, <1>7, <1>8, <1>0 DEF TypeOK

LEMMA EpochStep ==
  ASSUME IInv, [Next]_vars
  PROVE  EpochBound'
<1>0. TypeOK /\ EpochBound /\ Life
  BY DEF IInv
<1>1. epoch \in Int /\ faults \in Int /\ epoch <= faults + 1
  BY <1>0, Numbers DEF TypeOK, EpochBound
<1>2. CASE Fault /\ epoch' = epoch
  BY <1>1, <1>2 DEF EpochBound, Fault
<1>3. CASE /\ UNCHANGED << epoch, faults >>
           /\ pc' \in {"closed", "create"} =>
                \/ intent' # "none" \/ root'[Identity] # Absent
                \/ intent = "none" /\ root[Identity] = Absent /\ pc \in {"closed", "create"}
  BY <1>0, <1>1, <1>3 DEF EpochBound
<1>4. CASE Open \/ ResumeReplaced \/ ResumeUncovered \/ StageFile \/ StartIntent \/ SealIntent
           \/ Copy \/ Clear \/ Move \/ Repair \/ DropStage
  <2>1. UNCHANGED << epoch, faults >>
    BY <1>4 DEF Open, ResumeReplaced, ResumeUncovered, StageFile, StartIntent, SealIntent,
                Copy, Clear, Move, Repair, DropStage
  <2>2. pc' \notin {"closed", "create"}
    BY <1>4 DEF Open, ResumeReplaced, ResumeUncovered, StageFile, StartIntent, SealIntent,
                Copy, Clear, Move, Repair, DropStage, Goto, Following
  <2> QED BY <1>3, <2>1, <2>2
<1>5. CASE Discard
  <2>1. UNCHANGED << epoch, faults >> /\ intent = "none" /\ root[Identity] = Absent /\ pc = "closed"
    BY <1>5 DEF Discard
  <2> QED BY <1>3, <2>1
<1>6. CASE CreateIdentity \/ Begin
  <2>1. epoch <= faults
    <3>1. CreateIdentity => intent = "none" /\ root[Identity] = Absent /\ pc = "create"
      BY <1>0, LifeAt DEF CreateIdentity, Unclaimed
    <3> QED BY <1>0, <1>6, <3>1 DEF EpochBound, CreateIdentity, Begin
  <2>2. epoch' = epoch + 1 /\ faults' = faults /\ pc' \notin {"closed", "create"}
    BY <1>6 DEF CreateIdentity, Begin, Goto
  <2> QED BY <1>1, <2>1, <2>2 DEF EpochBound
<1>7. CASE DropIntent
  <2>1. epoch' = epoch /\ (faults' = faults \/ faults' = faults + 1) /\ pc' = "drop"
    BY <1>7 DEF DropIntent, Goto, Fault
  <2>2. epoch' <= faults' + 1 /\ pc' \notin {"closed", "create"}
    BY <1>1, <2>1
  <2> QED BY <2>2 DEF EpochBound
<1>8. CASE Failing
  BY <1>2, <1>8 DEF Failing, StageFails, SealFails, MoveFails, StepFails, Crash
<1>9. CASE Close
  <2>1. root'[Identity] # Absent /\ UNCHANGED << epoch, faults >>
    BY <1>0, <1>9, LifeAt, Numbers DEF Close, Done, Born, disk
  <2> QED BY <1>3, <2>1
<1>10. CASE Refuse \/ UNCHANGED vars
  BY <1>0, <1>10 DEF Refuse, EpochBound, vars, disk
<1> QED BY <1>4, <1>5, <1>6, <1>7, <1>8, <1>9, <1>10 DEF Next, Starting, Working

-----------------------------------------------------------------------------
(* The life of the root: the steps before and after a conversion.          *)

LEMMA OpenLife ==
  ASSUME IInv, Open \/ Close
  PROVE  Life'
<1>0. TypeOK /\ Life /\ UNCHANGED disk /\ pc' \in {"open", "closed"}
  BY DEF IInv, Open, Close, Goto
<1>1. Done \/ Born
  <2>1. CASE Open
    BY <1>0, <2>1, ConvertingRoot DEF Life, Unclaimed, Evidence, Intact, LegacyWhole, Open
  <2>2. CASE Close
    BY <1>0, <2>2, LifeAt DEF Close
  <2> QED BY <2>1, <2>2
<1>2. CASE Done
  BY <1>0, <1>2 DEF Done, Converted, ReceiptSound, disk, Life
<1>3. CASE Born
  BY <1>0, <1>3 DEF Born, NoReceipt, Tidy, disk, Life
<1> QED BY <1>1, <1>2, <1>3

LEMMA DiscardLife ==
  ASSUME IInv, Discard
  PROVE  Life'
<1>0. TypeOK /\ Life /\ intent = "none" /\ root[Identity] = Absent /\ ~Claimed
  BY DEF IInv, Discard
<1>1. Unclaimed
  <2>1. ~Evidence /\ ~Intact
    BY <1>0, FileNumbers, Numbers DEF Evidence, Intact, LegacyWhole, Claimed
  <2> QED BY <1>0, <2>1, LifeWithout
<1>2. PICK left \in {{}, Markers} :
        root' = [f \in Files |-> IF f \in Markers \ left THEN Absent ELSE root[f]]
  BY DEF Discard
<1>3. /\ UNCHANGED << exposed, temps, intent, receipt >> /\ pc' = "create"
  BY DEF Discard, Goto
<1>4. /\ root'[Journal] = root[Journal] /\ root'[Checkpoint] = root[Checkpoint]
      /\ root'[Identity] = root[Identity]
      /\ \A m \in Markers : root'[m] \in {Absent, root[m]}
  BY <1>2, FileNumbers
<1>5. Unclaimed'
  BY <1>1, <1>3, <1>4 DEF Unclaimed, Claimed, NoReceipt, Tidy
<1> QED BY <1>5 DEF Life

LEMMA CreateLife ==
  ASSUME IInv, CreateIdentity, TypeOK'
  PROVE  Life'
<1>0. TypeOK /\ Life /\ Unclaimed
  BY LifeAt DEF IInv, CreateIdentity
<1>1. /\ root'[Checkpoint] = epoch' /\ root'[Identity] = epoch'
      /\ UNCHANGED << exposed, temps, intent, receipt >> /\ pc' = "open"
  BY FileNumbers DEF CreateIdentity, Goto
<1>2. epoch' \in Epochs
  BY <1>0, Numbers DEF CreateIdentity, TypeOK, Epochs
<1>3. Born'
  BY <1>0, <1>1, <1>2 DEF Born, Unclaimed, NoReceipt, Tidy
<1> QED BY <1>3 DEF Life

LEMMA BeginLife ==
  ASSUME IInv, Begin, TypeOK'
  PROVE  Life'
<1>0. TypeOK /\ Life /\ intent = "none" /\ root[Identity] = Absent /\ Inspected
  BY DEF IInv, Begin
<1>1. Intact
  BY <1>0, LifeWithout, Numbers DEF Unclaimed, Evidence, Claimed, Inspected
<1>2. /\ stage' = [stage EXCEPT ![Identity] = epoch'] /\ pc' = "stage" /\ item' = Journal
      /\ UNCHANGED << root, exposed, temps, intent, receipt >> /\ epoch' = epoch + 1
  BY DEF Begin, Goto
<1>3. epoch' \in Epochs
  BY <1>0, <1>2, Numbers DEF TypeOK, Epochs
<1>4. stage'[Identity] = epoch' /\ \A f \in 1..(item' - 1) : stage'[f] = epoch'
  BY <1>0, <1>2, FileNumbers, Numbers DEF TypeOK
<1>5. Intact'
  BY <1>0, <1>1, <1>2, <1>3, <1>4, FileNumbers DEF Intact, LegacyWhole
<1> QED BY <1>5 DEF Life

LEMMA StageLife ==
  ASSUME IInv, StageFile
  PROVE  Life'
<1>0. TypeOK /\ Intact /\ pc = "stage"
  BY LifeAt DEF IInv, StageFile
<1>1. /\ intent = "none" /\ item \in Sources /\ stage[Identity] = epoch /\ epoch \in Epochs
      /\ \A f \in 1..(item - 1) : stage[f] = epoch
  BY <1>0 DEF Intact
<1>2. /\ stage' = [stage EXCEPT ![item] = epoch]
      /\ UNCHANGED << root, exposed, temps, intent, receipt, epoch >>
  BY DEF StageFile
<1>3. /\ stage'[Identity] = epoch /\ \A f \in 1..item : stage'[f] = epoch
  <2>1. stage \in [Files -> Form] /\ item \in Int /\ 1 <= item /\ item < Identity
    BY <1>0, <1>1, Numbers DEF TypeOK
  <2>2. stage'[item] = epoch /\ \A f \in Files \ {item} : stage'[f] = stage[f]
    BY <1>2, <2>1, Numbers
  <2>3. \A f \in 1..item : f \in Files /\ (f = item \/ f \in 1..(item - 1))
    BY <2>1, Numbers
  <2> QED BY <1>1, <2>1, <2>2, <2>3, FileNumbers
<1>4. CASE item + 1 = Identity
  <2>1. pc' = "intent" /\ \A f \in Files : f \in 1..item \/ f = Identity
    BY <1>1, <1>4, Numbers DEF StageFile, Goto
  <2>2. Staged'
    BY <1>2, <1>3, <2>1 DEF Staged
  <2>3. Intact'
    BY <1>0, <1>1, <1>2, <2>1, <2>2 DEF Intact, LegacyWhole
  <2> QED BY <2>3 DEF Life
<1>5. CASE item + 1 # Identity
  <2>1. pc' = "stage" /\ item' = item + 1
    BY <1>5 DEF StageFile, Goto
  <2>2. item' \in Sources /\ item' - 1 = item
    BY <1>1, <1>5, <2>1, Numbers
  <2>3. Intact'
    BY <1>0, <1>1, <1>2, <1>3, <2>1, <2>2 DEF Intact, LegacyWhole
  <2> QED BY <2>3 DEF Life
<1> QED BY <1>4, <1>5

LEMMA IntentLife ==
  ASSUME IInv, StageFails \/ StartIntent
  PROVE  Life'
<1>0. TypeOK /\ Intact /\ pc \in {"stage", "intent"} /\ intent = "none"
  BY LifeAt DEF IInv, StageFails, StartIntent, Intact
<1>1. UNCHANGED << root, exposed, temps, receipt, epoch >>
  BY DEF StageFails, StartIntent
<1>2. CASE StageFails
  <2>1. intent' = "none" /\ pc' = "closed"
    BY <1>0, <1>2 DEF StageFails, Goto
  <2>2. Intact'
    BY <1>0, <1>1, <2>1 DEF Intact, LegacyWhole
  <2> QED BY <2>2 DEF Life
<1>3. CASE StartIntent
  <2>1. intent' = "torn" /\ pc' = "seal" /\ stage' = stage /\ Staged
    BY <1>0, <1>3 DEF StartIntent, Goto, Intact
  <2>2. Intact'
    BY <1>0, <1>1, <1>3, <2>1 DEF Intact, LegacyWhole, Staged, StartIntent
  <2> QED BY <2>2 DEF Life
<1> QED BY <1>2, <1>3

LEMMA SealLife ==
  ASSUME IInv, SealIntent \/ SealFails, TypeOK'
  PROVE  Life'
<1>0. /\ TypeOK /\ Intact /\ pc = "seal" /\ Staged /\ intent = "torn" /\ epoch \in Epochs
      /\ LegacyWhole /\ temps = {} /\ exposed = {}
  BY LifeAt DEF IInv, SealIntent, SealFails, Intact, LegacyWhole
<1>1. UNCHANGED << root, exposed, temps, epoch >>
  BY DEF SealIntent, SealFails
<1>2. ASSUME Receipted PROVE ReceiptSound' /\ receipt'.before = root /\ receipt'.staged = stage
  <2>1. receipt'.before = root /\ receipt'.staged = stage
    BY <1>2 DEF Receipted
  <2> QED BY <1>0, <2>1 DEF ReceiptSound, Staged, LegacyWhole
<1>3. CASE SealIntent
  <2>1. /\ intent' = "whole" /\ pc' = "copy" /\ item' = Journal /\ stage' = stage
        /\ ReceiptSound' /\ receipt'.before = root /\ receipt'.staged = stage
    BY <1>2, <1>3 DEF SealIntent, Receipted, Goto
  <2>2. root' = After(0)'
    <3>1. root' \in [Files -> Form] /\ \A f \in Files : ~(f <= 0)
      BY Numbers DEF TypeOK
    <3> QED BY <1>1, <2>1, <3>1 DEF After
  <2>3. 0 \in 0..(Identity - 1) /\ 0 + 1 = Journal
    BY Numbers
  <2>4. At(0)'
    BY <1>0, <1>1, <2>1, <2>2, <2>3 DEF At
  <2>5. Converting'
    BY <2>1, <2>3, <2>4 DEF Converting
  <2> QED BY <2>5 DEF Life
<1>4. CASE SealFails
  <2>1. pc' = "closed" /\ (Receipted \/ UNCHANGED << intent, receipt >>)
    BY <1>4 DEF SealFails, Goto
  <2>2. CASE Receipted
    <3>1. intent' = "whole" /\ ReceiptSound' /\ receipt'.before = root
      BY <1>2, <2>2 DEF Receipted
    <3>2. Intact'
      BY <1>0, <1>1, <2>1, <3>1 DEF Intact, LegacyWhole
    <3> QED BY <3>2 DEF Life
  <2>3. CASE UNCHANGED << intent, receipt >>
    <3>1. Intact'
      BY <1>0, <1>1, <2>1, <2>3 DEF Intact, LegacyWhole
    <3> QED BY <3>1 DEF Life
  <2> QED BY <2>1, <2>2, <2>3
<1> QED BY <1>3, <1>4

-----------------------------------------------------------------------------
(* The life of the root: the steps of a conversion.                        *)

LEMMA WorkingRoot ==
  ASSUME IInv, pc \in {"copy", "clear", "move", "repair"}
  PROVE  /\ TypeOK /\ intent = "whole" /\ ReceiptSound /\ stage = receipt.staged
         /\ \E n \in 0..(Identity - 1) : At(n) /\ item = n + 1
BY LifeAt DEF IInv, Converting, At

(* A step after which n files are replaced.                                  *)
LEMMA ConvertingStep ==
  ASSUME ReceiptSound, stage = receipt.staged, intent = "whole",
         UNCHANGED << intent, receipt, stage >>, NEW n \in 0..(Identity - 1), At(n)'
  PROVE  Life'
<1>1. ReceiptSound'
  BY DEF ReceiptSound
<1> QED BY <1>1 DEF Life, Converting

LEMMA CopyLife ==
  ASSUME IInv, Copy \/ Clear \/ Repair
  PROVE  Life'
<1>0. pc \in {"copy", "clear", "repair"}
  BY DEF Copy, Clear, Repair
<1>1. /\ TypeOK /\ intent = "whole" /\ ReceiptSound /\ stage = receipt.staged
  BY <1>0, WorkingRoot
<1>2. PICK n \in 0..(Identity - 1) : At(n) /\ item = n + 1
  BY <1>0, WorkingRoot
<1>3. UNCHANGED << root, stage, intent, receipt >> /\ After(n)' = After(n)
  BY AfterKept DEF Copy, Clear, Repair
<1>4. root' = After(n)' /\ temps \subseteq {n + 1}
  BY <1>2, <1>3 DEF At
<1>5. At(n)'
  <2>1. CASE Copy
    <3>1. exposed = {} /\ item' = item
      BY <1>2, <2>1 DEF At, Copy, Goto
    <3> QED BY <1>2, <1>4, <2>1, <3>1 DEF At, Copy, Goto
  <2>2. CASE Clear
    <3>1. exposed = {} /\ item \in Markers /\ item' = item
      BY <1>2, <2>2 DEF At, Clear, Goto
    <3> QED BY <1>2, <1>4, <2>2, <3>1 DEF At, Clear, Goto
  <2>3. CASE Repair
    <3>1. n + 1 = Identity /\ exposed' = {}
      BY <1>2, <2>3 DEF At, Repair
    <3> QED BY <1>2, <1>4, <2>3, <3>1 DEF At, Repair, Goto
  <2> QED BY <2>1, <2>2, <2>3 DEF Copy, Clear, Repair
<1> QED BY <1>1, <1>2, <1>3, <1>5, ConvertingStep

(* The file that is moved has not been replaced.                             *)
LEMMA MoveLife ==
  ASSUME IInv, Move
  PROVE  Life' /\ root[item] \notin Epochs
<1>1. /\ TypeOK /\ intent = "whole" /\ ReceiptSound /\ stage = receipt.staged /\ pc = "move"
  BY WorkingRoot DEF Move
<1>2. PICK n \in 0..(Identity - 1) : At(n) /\ item = n + 1
  BY WorkingRoot DEF Move
<1>3. /\ root = After(n) /\ temps \subseteq {n + 1} /\ exposed = {n + 1} \cap Markers
  BY <1>1, <1>2 DEF At
<1>4. /\ root' = [root EXCEPT ![n + 1] = receipt.staged[n + 1]]
      /\ exposed' = {} /\ temps' = {} /\ UNCHANGED << stage, intent, receipt >>
  BY <1>1, <1>2, <1>3 DEF Move
<1>5. root' = After(n + 1) /\ n \in Int /\ n + 1 \in Files /\ n \in 0..Identity
      /\ n + 1 \in 0..Identity /\ n >= 0
  <2>1. root' = After(n + 1)
    BY <1>1, <1>3, <1>4, AfterNext
  <2> QED BY <2>1, Numbers
<1>6. root[item] \notin Epochs
  <2>1. root[n + 1] = receipt.before[n + 1]
    BY <1>1, <1>3, <1>5, AfterFacts, Numbers
  <2> QED BY <1>1, <1>2, <1>5, <2>1, ReceiptFacts, Numbers
<1>7. CASE item = Identity
  <2>1. pc' = "settle" /\ n + 1 = Identity
    BY <1>2, <1>7 DEF Move, Goto
  <2>2. \A f \in Files : root'[f] = receipt.staged[f]
    BY <1>1, <1>5, <2>1, AfterFacts, Numbers
  <2>3. PICK e \in Epochs : \A f \in Files : receipt.staged[f] = e
    BY <1>1 DEF ReceiptSound
  <2>4. \A f \in Files : root'[f] = e
    BY <2>2, <2>3
  <2>5. Converted' /\ root'[Identity] \in Epochs
    BY <1>4, <2>4, FileNumbers DEF Converted
  <2>6. ReceiptSound'
    BY <1>1, <1>4 DEF ReceiptSound
  <2>7. Done'
    BY <1>1, <1>4, <2>1, <2>5, <2>6 DEF Done
  <2> QED BY <1>6, <2>7 DEF Life
<1>8. CASE item # Identity
  <2>1. Following(n + 1) /\ n + 1 \in 0..(Identity - 1)
    BY <1>2, <1>8, Numbers DEF Move
  <2>2. After(n + 1)' = After(n + 1)
    BY <1>4, AfterKept
  <2>3. \/ pc' = "repair" /\ item' = Identity /\ (n + 1) + 1 = Identity
        \/ pc' = "copy" /\ item' = (n + 1) + 1
    BY <2>1 DEF Following, Goto
  <2>4. At(n + 1)'
    BY <1>4, <1>5, <2>2, <2>3 DEF At
  <2>5. Life'
    BY <1>1, <1>4, <2>1, <2>4, ConvertingStep
  <2> QED BY <1>6, <2>5
<1> QED BY <1>7, <1>8

LEMMA StopLife ==
  ASSUME IInv, MoveFails \/ StepFails \/ Crash
  PROVE  Life'
<1>0. /\ TypeOK /\ Life /\ pc' = "closed"
      /\ UNCHANGED << root, temps, stage, intent, receipt, epoch >>
      /\ pc # "move" => exposed' = exposed
      /\ exposed' \in {exposed, exposed \ {item}}
  BY DEF IInv, MoveFails, StepFails, Crash, Goto, disk
<1>1. CASE pc \in {"copy", "clear", "move", "repair"}
  <2>1. /\ TypeOK /\ intent = "whole" /\ ReceiptSound /\ stage = receipt.staged
    BY <1>1, WorkingRoot
  <2>2. PICK n \in 0..(Identity - 1) : At(n) /\ item = n + 1
    BY <1>1, WorkingRoot
  <2>3. exposed' \subseteq {n + 1} \cap Markers
    BY <1>0, <1>1, <2>2 DEF At
  <2>4. At(n)'
    BY <1>0, <2>2, <2>3, AfterKept DEF At
  <2> QED BY <1>0, <2>1, <2>4, ConvertingStep
<1>2. CASE pc \in {"stage", "intent", "seal"}
  <2>1. Intact /\ exposed' = exposed
    BY <1>0, <1>2, LifeAt
  <2>2. intent \in {"none", "torn"}
    BY <1>2, <2>1 DEF Intact
  <2>3. Intact'
    BY <1>0, <2>1, <2>2 DEF Intact, LegacyWhole
  <2> QED BY <2>3 DEF Life
<1>3. CASE pc = "create"
  <2>1. Unclaimed /\ exposed' = exposed
    BY <1>0, <1>3, LifeAt
  <2>2. Unclaimed'
    BY <1>0, <2>1 DEF Unclaimed, Claimed, NoReceipt, Tidy
  <2> QED BY <2>2 DEF Life
<1>4. CASE pc \in {"settle", "drop"}
  <2>1. Done /\ exposed' = exposed
    BY <1>0, <1>4, LifeAt
  <2>2. Done'
    BY <1>0, <2>1 DEF Done, Converted, ReceiptSound
  <2> QED BY <2>2 DEF Life
<1>5. pc \notin {"closed", "open"}
  BY DEF MoveFails, StepFails, Crash
<1> QED BY <1>0, <1>1, <1>2, <1>3, <1>4, <1>5 DEF TypeOK

LEMMA DropLife ==
  ASSUME IInv, DropIntent \/ DropStage
  PROVE  Life'
<1>0. Done
  BY LifeAt DEF IInv, DropIntent, DropStage
<1>1. /\ UNCHANGED << root, exposed, temps, receipt >> /\ pc' \in {"drop", "open"}
      /\ intent' = "none" \/ intent' = intent
  BY DEF DropIntent, DropStage, Goto
<1>2. Done'
  BY <1>0, <1>1 DEF Done, Converted, ReceiptSound
<1> QED BY <1>2 DEF Life

(* A conversion is resumed where it stopped.                                 *)
LEMMA ResumeLife ==
  ASSUME IInv, ResumeReplaced \/ ResumeUncovered
  PROVE  Life'
<1>0. /\ TypeOK /\ Life /\ pc = "closed" /\ Resumable /\ intent = "whole"
      /\ stage = receipt.staged
  BY DEF IInv, ResumeReplaced, ResumeUncovered, Resumable
<1>1. UNCHANGED << root, temps, stage, intent, receipt >>
  BY DEF ResumeReplaced, ResumeUncovered, disk
<1>2. PICK k \in 0..(Identity - 1) :
         /\ root = After(k)
         /\ \/ ResumeReplaced /\ exposed = {} /\ exposed' = {} /\ Following(k)
            \/ /\ ResumeUncovered /\ k + 1 \in Markers /\ exposed' = {}
               /\ pc' = "copy" /\ item' = k + 1
  <2>1. CASE ResumeReplaced
    BY <2>1 DEF ResumeReplaced, Replaced, disk
  <2>2. CASE ResumeUncovered
    <3>1. PICK m \in Markers : Uncovered(m) /\ Goto("copy", m)
      BY <2>2 DEF ResumeUncovered
    <3>2. m - 1 \in 0..(Identity - 1) /\ (m - 1) + 1 = m
      BY Numbers
    <3> QED BY <2>2, <3>1, <3>2 DEF Uncovered, Goto, ResumeUncovered
  <2> QED BY <2>1, <2>2
<1>3. k \in 0..Identity /\ Identity \in Files /\ Identity > k
  BY Numbers
<1>4. Converting \/ Intact
  <2>1. ~Unclaimed /\ ~Evidence /\ ~Born
    BY <1>0 DEF Unclaimed, Evidence, Born
  <2>2. ASSUME Done PROVE FALSE
    <3>1. root[Identity] = receipt.before[Identity]
      BY <1>0, <1>2, <1>3, AfterFacts
    <3> QED BY <1>0, <2>2, <3>1, Numbers DEF Done, ReceiptSound
  <2> QED BY <1>0, <2>1, <2>2 DEF Life
<1>5. ReceiptSound /\ temps \subseteq {k + 1}
  <2>1. CASE Converting
    <3>1. PICK n \in 0..(Identity - 1) : At(n)
      BY <2>1 DEF Converting
    <3>2. n = k
      <4>1. n \in 0..Identity /\ After(n) = After(k)
        BY <1>2, <3>1, Numbers DEF At
      <4> QED BY <1>0, <1>3, <2>1, <4>1, AfterUnique DEF Converting
    <3> QED BY <2>1, <3>1, <3>2 DEF Converting, At
  <2>2. CASE Intact
    BY <1>0, <2>2 DEF Intact
  <2> QED BY <1>4, <2>1, <2>2
<1>6. \/ pc' = "repair" /\ item' = Identity /\ k + 1 = Identity
      \/ pc' = "copy" /\ item' = k + 1
  BY <1>2 DEF Following, Goto
<1>7. At(k)'
  BY <1>1, <1>2, <1>5, <1>6, AfterKept DEF At
<1> QED BY <1>0, <1>1, <1>5, <1>7, ConvertingStep

-----------------------------------------------------------------------------
(* The invariant.                                                          *)

LEMMA InitInv == Init => IInv
<1> SUFFICES ASSUME Init PROVE IInv
  OBVIOUS
<1>1. PICK j \in {Absent, Legacy}, c \in {Absent, Legacy} :
        root = [f \in Files |-> CASE f = Journal -> j
                                  [] f = Checkpoint -> c
                                  [] f = Identity -> Absent
                                  [] OTHER -> Legacy]
  BY DEF Init
<1>2. /\ root \in [Files -> Form] /\ root[Journal] = j /\ root[Checkpoint] = c
      /\ root[Identity] = Absent /\ \A m \in Markers : root[m] = Legacy
  BY <1>1, FileNumbers, Numbers
<1>3. /\ NoFiles \in [Files -> Form] /\ NoFiles[Checkpoint] = Absent
  BY FileNumbers, Numbers DEF NoFiles
<1>4. /\ stage = NoFiles /\ receipt = [before |-> NoFiles, staged |-> NoFiles]
      /\ exposed = {} /\ temps = {} /\ intent = "none" /\ pc = "closed"
      /\ item = Journal /\ epoch = 0 /\ faults = 0 /\ sound \in BOOLEAN
  BY DEF Init
<1>5. TypeOK
  BY <1>2, <1>3, <1>4, FileNumbers, Numbers DEF TypeOK
<1>6. EpochBound
  BY <1>4 DEF EpochBound
<1>7. NoReceipt /\ Tidy
  BY <1>3, <1>4, Numbers DEF NoReceipt, Tidy
<1>8. CASE c = Legacy
  <2>1. LegacyWhole
    <3>1. \A f \in Sources \ {Journal} : f = Checkpoint \/ f \in Markers
      BY Numbers
    <3> QED BY <1>2, <1>4, <1>8, <3>1 DEF LegacyWhole
  <2>2. Intact
    BY <1>4, <2>1 DEF Intact
  <2> QED BY <1>5, <1>6, <2>2 DEF IInv, Life
<1>9. CASE c = Absent /\ j = Legacy
  BY <1>2, <1>4, <1>5, <1>6, <1>7, <1>9 DEF IInv, Life, Evidence
<1>10. CASE c = Absent /\ j = Absent
  BY <1>2, <1>4, <1>5, <1>6, <1>7, <1>10 DEF IInv, Life, Unclaimed, Claimed
<1> QED BY <1>8, <1>9, <1>10

LEMMA StutterLife ==
  ASSUME IInv, UNCHANGED vars
  PROVE  Life'
<1>1. UNCHANGED << root, exposed, temps, stage, intent, receipt, pc, item, epoch >> /\ Life
  BY DEF IInv, vars, disk
<1>2. \A n : At(n)' = At(n)
  BY <1>1 DEF At, After
<1>3. Converting => Converting'
  BY <1>1, <1>2 DEF Converting, ReceiptSound
<1> QED BY <1>1, <1>3 DEF Life, Unclaimed, Evidence, Intact, Done, Born, Claimed, LegacyWhole,
                Converted, NoReceipt, Tidy, ReceiptSound, Staged

LEMMA NextInv == IInv /\ [Next]_vars => IInv'
<1> SUFFICES ASSUME IInv, [Next]_vars PROVE IInv'
  OBVIOUS
<1>1. TypeOK' /\ EpochBound'
  BY TypeStep, EpochStep
<1>2. Starting => Life'
  BY <1>1, OpenLife, DiscardLife, BeginLife, ResumeLife DEF Starting
<1>3. Working => Life'
  BY <1>1, CreateLife, StageLife, IntentLife, SealLife, CopyLife, MoveLife, DropLife
     DEF Working
<1>4. Failing => Life'
  BY <1>1, IntentLife, SealLife, StopLife DEF Failing
<1>5. Close => Life'
  BY OpenLife
<1>6. Refuse \/ UNCHANGED vars => Life'
  BY StutterLife DEF Refuse
<1>7. Life'
  BY <1>2, <1>3, <1>4, <1>5, <1>6 DEF Next
<1> QED BY <1>1, <1>7 DEF IInv

(* The invariant holds in every state of a conversion, its failures and its  *)
(* resumptions.                                                              *)
THEOREM Inductive == Spec => []IInv
<1>1. Init => IInv
  BY InitInv
<1>2. IInv /\ [Next]_vars => IInv'
  BY NextInv
<1> QED BY <1>1, <1>2, PTL DEF Spec

(* At every moment the root is legacy, resumable or converted and an open    *)
(* store has no temporary file: CompleteLegacyMigration and                  *)
(* ResumeLegacyMigration, for any number of generations, faults and crashes. *)
THEOREM AlwaysRecoverableHolds == Spec => []AlwaysRecoverable
<1>1. ASSUME IInv PROVE AlwaysRecoverable
  <2>0. TypeOK /\ Life
    BY <1>1 DEF IInv
  <2>1. NoResidue
    BY <2>0, LifeAt DEF NoResidue, Done, Born, Tidy
  <2>2. NothingLost
    <3>1. CASE Unclaimed \/ Evidence \/ Born
      <4>1. root[Checkpoint] # Legacy /\ receipt.before[Checkpoint] # Legacy
        BY <3>1, Numbers DEF Unclaimed, Evidence, Born, Claimed, NoReceipt
      <4> QED BY <4>1 DEF NothingLost
    <3>2. CASE Intact
      BY <3>2 DEF Intact, NothingLost
    <3>3. CASE Done
      BY <3>3 DEF Done, NothingLost
    <3>4. CASE Converting
      <4>1. PICK n \in 0..(Identity - 1) : At(n)
        BY <3>4 DEF Converting
      <4>2. root = After(n) /\ (exposed = {} \/ (exposed = {n + 1} /\ n + 1 \in Markers))
        BY <4>1 DEF At
      <4>3. (n + 1) - 1 = n
        BY Numbers
      <4>4. Resumable
        BY <3>4, <4>2, <4>3 DEF Converting, Resumable, Replaced, Uncovered
      <4> QED BY <2>0, <3>4, <4>4, ConvertingRoot DEF NothingLost
    <3> QED BY <2>0, <3>1, <3>2, <3>3, <3>4 DEF Life
  <2> QED BY <2>0, <2>1, <2>2 DEF AlwaysRecoverable
<1> QED BY <1>1, Inductive, PTL

(* No step takes a file of an incoherent root, and a file that was converted *)
(* keeps its epoch: Initialize and the attempts of several processes.        *)
THEOREM FilesStayHolds == Spec => FilesStay
<1>1. ASSUME IInv, [Next]_vars
      PROVE  /\ [~Inspected /\ Claimed /\ root[Identity] = Absent /\ intent = "none"
                   => UNCHANGED <<root, exposed>>]_vars
             /\ [\A f \in Files : root[f] \in Epochs => root'[f] = root[f]]_vars
  <2>0. TypeOK /\ Life
    BY <1>1 DEF IInv
  <2>1. UNCHANGED root \/ Discard \/ CreateIdentity \/ Move
    BY <1>1 DEF Next, Starting, Working, Failing, Open, Discard, Begin, ResumeReplaced,
              ResumeUncovered, CreateIdentity, StageFile, StartIntent, SealIntent, Copy, Clear,
              Move, Repair, DropIntent, DropStage, StageFails, SealFails, MoveFails, StepFails,
              Crash, Close, Refuse, disk, vars
  <2>2. \A f \in Files : root[f] \in Epochs => root'[f] = root[f]
    <3>1. CASE Discard \/ CreateIdentity
      <4>1. Unclaimed
        <5>1. CASE Discard
          BY <2>0, <5>1, LifeWithout, FileNumbers, Numbers
             DEF Discard, Evidence, Intact, LegacyWhole, Claimed
        <5>2. CASE CreateIdentity
          BY <2>0, <5>2, LifeAt DEF CreateIdentity
        <5> QED BY <3>1, <5>1, <5>2
      <4>2. \A f \in Files : root[f] \notin Epochs
        <5>1. \A f \in Files : f \in {Journal, Checkpoint, Identity} \cup Markers
          BY Numbers
        <5> QED BY <4>1, <5>1, Numbers DEF Unclaimed, Claimed
      <4> QED BY <4>2
    <3>2. CASE Move
      BY <1>1, <3>2, MoveLife DEF Move
    <3> QED BY <2>1, <3>1, <3>2
  <2>3. ~Inspected /\ Claimed /\ root[Identity] = Absent /\ intent = "none"
          => UNCHANGED << root, exposed >>
    <3> SUFFICES ASSUME Claimed, root[Identity] = Absent, intent = "none"
                 PROVE  UNCHANGED << root, exposed >>
      OBVIOUS
    <3>1. pc \notin {"copy", "clear", "move", "repair", "create"}
      BY <2>0, LifeAt DEF Converting, Unclaimed
    <3>2. ~Discard /\ ~CreateIdentity /\ ~Move /\ ~Resumable
      BY <3>1 DEF Discard, CreateIdentity, Move, Resumable
    <3>3. ~Clear /\ ~MoveFails /\ ~Repair /\ ~ResumeUncovered
      BY <3>1, <3>2 DEF Clear, MoveFails, Repair, ResumeUncovered
    <3>4. UNCHANGED exposed
      BY <1>1, <3>2, <3>3
         DEF Next, Starting, Working, Failing, Open, Begin, ResumeReplaced,
              StageFile, StartIntent, SealIntent, Copy, DropIntent, DropStage,
              StageFails, SealFails, StepFails, Crash, Close, Refuse, disk, vars
    <3> QED BY <2>1, <3>2, <3>4
  <2> QED BY <2>2, <2>3
<1>2. IInv /\ [Next]_vars =>
         /\ [~Inspected /\ Claimed /\ root[Identity] = Absent /\ intent = "none"
               => UNCHANGED <<root, exposed>>]_vars
         /\ [\A f \in Files : root[f] \in Epochs => root'[f] = root[f]]_vars
  BY <1>1
<1> QED BY <1>2, Inductive, PTL DEF Spec, FilesStay, EvidenceStays, OneLineage

=============================================================================
