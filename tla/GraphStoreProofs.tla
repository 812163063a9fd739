-------------------------- MODULE GraphStoreProofs --------------------------
(***************************************************************************)
(* Theorems about the generation store, for every set of processes and     *)
(* every number of serials: its types, its four invariants, what a store   *)
(* opens on, and the promise of a generation register.                     *)
(*                                                                         *)
(* The inductive invariant has a part about the directory (the journal     *)
(* covers every serial in use) and one about each store (what its program  *)
(* counter says of the serial it works on and of the directories it is     *)
(* about to delete).  Only the owner of the mutex changes the directory,   *)
(* so a step of one store leaves the part of every other one alone.        *)
(***************************************************************************)
EXTENDS GraphStore, TLAPS

(* The serials in use are in the journal, and the checkpoint is not ahead.   *)
Covered ==
  /\ checkpoint <= journal
  /\ \A n \in Serials : gen[n] # "none" \/ n \in issued => n <= journal

Owner(s) == pc[s] \in Working <=> mutex = s

(* The serial a store works on.                                              *)
Allotted(s) ==
  /\ pc[s] = "genesis" => journal = -1
  /\ pc[s] \in {"repair", "reserve"} => journal >= 0
  /\ pc[s] = "append" => target[s] > journal /\ target[s] >= 1
  /\ pc[s] \in {"mark", "build"} => target[s] \notin issued
  /\ pc[s] \in {"mark", "build", "release", "promote", "hold", "commit", "check"} =>
       target[s] = journal /\ target[s] >= 1
  /\ pc[s] \in {"build", "release", "promote", "hold", "commit", "check"} => open[s]
  /\ pc[s] \in {"scan", "candidates", "load", "sweep"} => ~open[s]
  /\ pc[s] \in {"hold", "commit"} => gen[target[s]] = "complete"
  /\ pc[s] = "check" => gen[target[s]] = "committed"
  /\ pc[s] \in {"retire", "retiring"} /\ open[s] =>
       target[s] = active[s] /\ target[s] >= 1

(* What a store and its readers hold.                                        *)
Held(s) ==
  /\ active[s] # 0 => active[s] \in Committed
  /\ lineage[s] # 0 => lineage[s] \in Committed
  /\ pins[s] \subseteq Committed

(* The generation an Initialize has loaded.                                  *)
Loaded(s) ==
  pc[s] \in {"sweep", "retire", "retiring"} /\ ~open[s] =>
    /\ lease[s] # 0 => lease[s] \in Committed
    /\ acked <= lease[s]

(* A list of deletions exists only where Initialize or a cleanup keeps one,   *)
(* and a committed generation is on it only while there is a newer one.      *)
Spared(s) ==
  /\ doomed[s] # {} =>
       \/ pc[s] \in {"sweep", "retiring"}
       \/ pc[s] \in {"append", "mark", "candidates", "load"} /\ ~open[s]
  /\ \A n \in doomed[s] \cap Committed :
       pc[s] = "retiring" /\ \E m \in Committed : m > n

Local(s) == Owner(s) /\ Allotted(s) /\ Held(s) /\ Loaded(s) /\ Spared(s)

IInv ==
  /\ TypeOK /\ Covered /\ SerialNeverReused /\ AckedSurvives
  /\ \A s \in Stores : Local(s)

(***************************************************************************)
(* Frames: a store that a step does not touch keeps its part of the        *)
(* invariant.                                                              *)
(***************************************************************************)
Untouched(t) ==
  /\ pc'[t] = pc[t] /\ open'[t] = open[t] /\ target'[t] = target[t]
  /\ active'[t] = active[t] /\ lease'[t] = lease[t]
  /\ lineage'[t] = lineage[t] /\ pins'[t] = pins[t] /\ doomed'[t] = doomed[t]

(* A step of the owner that deletes no leased generation.                    *)
LEMMA OwnerFrame ==
  ASSUME NEW s \in Stores, NEW t \in Stores, t # s, IInv,
         mutex = s, mutex' \in {s, NoStore}, Untouched(t),
         \A n \in Serials : n \in Committed /\ Leased(n) => n \in Committed'
  PROVE  Local(t)'
<1>1. Local(t) /\ TypeOK
  BY DEF IInv
<1>2. pc[t] \notin Working /\ mutex' # t
  BY <1>1, StoreAssumption DEF Local, Owner
<1>3. Owner(t)' /\ Allotted(t)' /\ Loaded(t)'
  BY <1>2 DEF Owner, Allotted, Loaded, Untouched, Working
<1>4. Held(t)'
  <2>1. active[t] # 0 => active[t] \in Serials /\ active[t] \in Committed /\ Leased(active[t])
    BY <1>1 DEF Local, Held, Leased, Committed
  <2>2. lineage[t] # 0 => lineage[t] \in Serials /\ lineage[t] \in Committed /\ Leased(lineage[t])
    BY <1>1 DEF Local, Held, Leased, Committed
  <2>3. \A n \in pins[t] : n \in Serials /\ n \in Committed /\ Leased(n)
    BY <1>1 DEF Local, Held, Leased, Committed
  <2> QED
    BY <2>1, <2>2, <2>3 DEF Held, Untouched
<1>5. Spared(t)'
  BY <1>1, <1>2 DEF Local, Spared, Untouched, Working
<1> QED
  BY <1>3, <1>4, <1>5 DEF Local

(* A step that leaves the directory alone.                                   *)
LEMMA DiskFrame ==
  ASSUME NEW t \in Stores, IInv, Untouched(t),
         mutex' = t <=> mutex = t, UNCHANGED <<journal, gen, issued, acked>>
  PROVE  Local(t)'
<1>1. Local(t)
  BY DEF IInv
<1>2. Committed' = Committed
  BY DEF Committed
<1> QED
  BY <1>1, <1>2 DEF Local, Owner, Allotted, Held, Loaded, Spared, Untouched

(* A step that leaves the directory alone keeps the global part.             *)
LEMMA SameDisk ==
  ASSUME IInv, UNCHANGED <<journal, checkpoint, gen, issued, reissued, acked>>
  PROVE  Covered' /\ SerialNeverReused' /\ AckedSurvives'
BY DEF IInv, Covered, SerialNeverReused, AckedSurvives, Committed

(***************************************************************************)
(* Calls, readers and captures, which do not own the mutex, and the steps  *)
(* of the owner that only move on.                                         *)
(***************************************************************************)
LEMMA StepCallInitialize ==
  ASSUME NEW s \in Stores, IInv, CallInitialize(s)
  PROVE  IInv'
<1>1. TypeOK /\ Local(s)
  BY DEF IInv
<1>2. TypeOK'
  BY <1>1, SerialAssumption DEF TypeOK, Goto, At, disk, memory, ghosts, Working, Serials, CallInitialize
<1>3. Covered' /\ SerialNeverReused' /\ AckedSurvives'
  BY SameDisk DEF CallInitialize, disk, ghosts
<1>4. ASSUME NEW t \in Stores, t # s PROVE Local(t)'
  <2>1. Untouched(t)
    BY <1>1, <1>4 DEF TypeOK, Goto, memory, Untouched, CallInitialize
  <2> QED
    BY <1>4, <2>1, StoreAssumption, DiskFrame DEF At, disk, ghosts, CallInitialize
<1>5. Local(s)'
  BY <1>1, StoreAssumption, SerialAssumption DEF TypeOK, Goto, At, disk, memory, ghosts, Working, Local, Owner,
       Allotted, Held, Loaded, Spared, Committed, Serials, CallInitialize
<1> QED
  BY <1>2, <1>3, <1>4, <1>5 DEF IInv

LEMMA StepCallPublish ==
  ASSUME NEW s \in Stores, IInv, CallPublish(s)
  PROVE  IInv'
<1>1. TypeOK /\ Local(s)
  BY DEF IInv
<1>2. TypeOK'
  BY <1>1, SerialAssumption DEF TypeOK, Goto, At, disk, memory, ghosts, Working, Serials, CallPublish
<1>3. Covered' /\ SerialNeverReused' /\ AckedSurvives'
  BY SameDisk DEF CallPublish, disk, ghosts
<1>4. ASSUME NEW t \in Stores, t # s PROVE Local(t)'
  <2>1. Untouched(t)
    BY <1>1, <1>4 DEF TypeOK, Goto, memory, Untouched, CallPublish
  <2> QED
    BY <1>4, <2>1, StoreAssumption, DiskFrame DEF At, disk, ghosts, CallPublish
<1>5. Local(s)'
  BY <1>1, StoreAssumption, SerialAssumption DEF TypeOK, Goto, At, disk, memory, ghosts, Working, Local, Owner,
       Allotted, Held, Loaded, Spared, Committed, Serials, CallPublish
<1> QED
  BY <1>2, <1>3, <1>4, <1>5 DEF IInv

LEMMA StepAcquire ==
  ASSUME NEW s \in Stores, IInv, Acquire(s)
  PROVE  IInv'
<1>1. TypeOK /\ Local(s)
  BY DEF IInv
<1>2. TypeOK'
  BY <1>1, SerialAssumption DEF TypeOK, Goto, At, disk, memory, ghosts, Working, Serials, Acquire
<1>3. Covered' /\ SerialNeverReused' /\ AckedSurvives'
  BY SameDisk DEF Acquire, disk, ghosts
<1>4. ASSUME NEW t \in Stores, t # s PROVE Local(t)'
  <2>1. Untouched(t)
    BY <1>1, <1>4 DEF TypeOK, Goto, memory, Untouched, Acquire
  <2> QED
    BY <1>4, <2>1, StoreAssumption, DiskFrame DEF At, disk, ghosts, Acquire
<1>5. Local(s)'
  BY <1>1, StoreAssumption, SerialAssumption DEF TypeOK, Goto, At, disk, memory, ghosts, Working, Local, Owner,
       Allotted, Held, Loaded, Spared, Committed, Serials, Acquire
<1> QED
  BY <1>2, <1>3, <1>4, <1>5 DEF IInv

LEMMA StepPinActive ==
  ASSUME NEW s \in Stores, IInv, PinActive(s)
  PROVE  IInv'
<1>1. TypeOK /\ Local(s)
  BY DEF IInv
<1>2. TypeOK'
  BY <1>1, SerialAssumption DEF TypeOK, Goto, At, disk, memory, ghosts, Working, Serials, PinActive
<1>3. Covered' /\ SerialNeverReused' /\ AckedSurvives'
  BY SameDisk DEF PinActive, disk, ghosts
<1>4. ASSUME NEW t \in Stores, t # s PROVE Local(t)'
  <2>1. Untouched(t)
    BY <1>1, <1>4 DEF TypeOK, Goto, memory, Untouched, PinActive
  <2> QED
    BY <1>4, <2>1, StoreAssumption, DiskFrame DEF At, disk, ghosts, PinActive
<1>5. Local(s)'
  BY <1>1, StoreAssumption, SerialAssumption DEF TypeOK, Goto, At, disk, memory, ghosts, Working, Local, Owner,
       Allotted, Held, Loaded, Spared, Committed, Serials, PinActive
<1> QED
  BY <1>2, <1>3, <1>4, <1>5 DEF IInv

LEMMA StepUnpin ==
  ASSUME NEW s \in Stores, IInv, Unpin(s)
  PROVE  IInv'
<1>1. TypeOK /\ Local(s)
  BY DEF IInv
<1>2. TypeOK'
  BY <1>1, SerialAssumption DEF TypeOK, Goto, At, disk, memory, ghosts, Working, Serials, Unpin
<1>3. Covered' /\ SerialNeverReused' /\ AckedSurvives'
  BY SameDisk DEF Unpin, disk, ghosts
<1>4. ASSUME NEW t \in Stores, t # s PROVE Local(t)'
  <2>1. Untouched(t)
    BY <1>1, <1>4 DEF TypeOK, Goto, memory, Untouched, Unpin
  <2> QED
    BY <1>4, <2>1, StoreAssumption, DiskFrame DEF At, disk, ghosts, Unpin
<1>5. Local(s)'
  BY <1>1, StoreAssumption, SerialAssumption DEF TypeOK, Goto, At, disk, memory, ghosts, Working, Local, Owner,
       Allotted, Held, Loaded, Spared, Committed, Serials, Unpin
<1> QED
  BY <1>2, <1>3, <1>4, <1>5 DEF IInv

LEMMA StepPrepare ==
  ASSUME NEW s \in Stores, IInv, Prepare(s)
  PROVE  IInv'
<1>1. TypeOK /\ Local(s)
  BY DEF IInv
<1>2. TypeOK'
  BY <1>1, SerialAssumption DEF TypeOK, Goto, At, disk, memory, ghosts, Working, Serials, Prepare
<1>3. Covered' /\ SerialNeverReused' /\ AckedSurvives'
  BY SameDisk DEF Prepare, disk, ghosts
<1>4. ASSUME NEW t \in Stores, t # s PROVE Local(t)'
  <2>1. Untouched(t)
    BY <1>1, <1>4 DEF TypeOK, Goto, memory, Untouched, Prepare
  <2> QED
    BY <1>4, <2>1, StoreAssumption, DiskFrame DEF At, disk, ghosts, Prepare
<1>5. Local(s)'
  BY <1>1, StoreAssumption, SerialAssumption DEF TypeOK, Goto, At, disk, memory, ghosts, Working, Local, Owner,
       Allotted, Held, Loaded, Spared, Committed, Serials, Prepare
<1> QED
  BY <1>2, <1>3, <1>4, <1>5 DEF IInv

LEMMA StepClose ==
  ASSUME NEW s \in Stores, IInv, Close(s)
  PROVE  IInv'
<1>1. TypeOK /\ Local(s)
  BY DEF IInv
<1>2. TypeOK'
  BY <1>1, SerialAssumption DEF TypeOK, Goto, At, disk, memory, ghosts, Working, Serials, Close
<1>3. Covered' /\ SerialNeverReused' /\ AckedSurvives'
  BY SameDisk DEF Close, disk, ghosts
<1>4. ASSUME NEW t \in Stores, t # s PROVE Local(t)'
  <2>1. Untouched(t)
    BY <1>1, <1>4 DEF TypeOK, Goto, memory, Untouched, Close
  <2> QED
    BY <1>4, <2>1, StoreAssumption, DiskFrame DEF At, disk, ghosts, Close
<1>5. Local(s)'
  BY <1>1, StoreAssumption, SerialAssumption DEF TypeOK, Goto, At, disk, memory, ghosts, Working, Local, Owner,
       Allotted, Held, Loaded, Spared, Committed, Serials, Close
<1> QED
  BY <1>2, <1>3, <1>4, <1>5 DEF IInv

LEMMA StepCrash ==
  ASSUME NEW s \in Stores, IInv, Crash(s)
  PROVE  IInv'
<1>1. TypeOK /\ Local(s)
  BY DEF IInv
<1>2. TypeOK'
  BY <1>1, SerialAssumption DEF TypeOK, Goto, At, disk, memory, ghosts, Working, Serials, Crash
<1>3. Covered' /\ SerialNeverReused' /\ AckedSurvives'
  BY SameDisk DEF Crash, disk, ghosts
<1>4. ASSUME NEW t \in Stores, t # s PROVE Local(t)'
  <2>1. Untouched(t)
    BY <1>1, <1>4 DEF TypeOK, Goto, memory, Untouched, Crash
  <2> QED
    BY <1>4, <2>1, StoreAssumption, DiskFrame DEF At, disk, ghosts, Crash
<1>5. Local(s)'
  BY <1>1, StoreAssumption, SerialAssumption DEF TypeOK, Goto, At, disk, memory, ghosts, Working, Local, Owner,
       Allotted, Held, Loaded, Spared, Committed, Serials, Crash
<1> QED
  BY <1>2, <1>3, <1>4, <1>5 DEF IInv

(***************************************************************************)
(* The error returns.  None of them takes a committed generation away.     *)
(***************************************************************************)
LEMMA StepFail ==
  ASSUME NEW s \in Stores, IInv, Fail(s), mutex = s, checkpoint' = checkpoint,
         journal' \in -1..MaxSerial, journal' >= journal,
         gen' \in [Serials -> Content], Committed' = Committed,
         \A n \in Serials : gen'[n] # "none" => gen[n] # "none",
         identity' \in BOOLEAN, torn' \in BOOLEAN, cand' \subseteq Serials
  PROVE  IInv'
<1>1. TypeOK /\ Local(s)
  BY DEF IInv
<1>2. TypeOK'
  BY <1>1, SerialAssumption DEF TypeOK, Fail, Return, Goto, ghosts, Working
<1>3. Covered' /\ SerialNeverReused' /\ AckedSurvives'
  BY <1>1, SerialAssumption DEF Fail, ghosts, IInv, Covered, SerialNeverReused,
     AckedSurvives, TypeOK, Serials
<1>4. ASSUME NEW t \in Stores, t # s PROVE Local(t)'
  <2>1. Untouched(t)
    BY <1>1, <1>4 DEF TypeOK, Fail, Return, Goto, Untouched
  <2> QED
    BY <1>4, <2>1, StoreAssumption, OwnerFrame DEF Fail, Return
<1>5. Local(s)'
  BY <1>1, StoreAssumption DEF TypeOK, Fail, Return, Goto, ghosts, Working, Local,
     Owner, Allotted, Held, Loaded, Spared
<1> QED
  BY <1>2, <1>3, <1>4, <1>5 DEF IInv

LEMMA StepFails ==
  ASSUME NEW s \in Stores, IInv,
         \/ IdentityFails(s) \/ ReconcileRefuses(s) \/ GenesisFails(s)
         \/ RepairFails(s) \/ SerialsExhausted(s) \/ MarkFails(s)
         \/ SweepFails(s) \/ LoadFails(s) \/ CheckFails(s)
  PROVE  IInv'
<1>1. TypeOK
  BY DEF IInv
<1>2. /\ mutex = s /\ Fail(s) /\ UNCHANGED <<checkpoint, journal, gen, cand>>
      /\ identity' \in BOOLEAN /\ torn' \in BOOLEAN
  BY <1>1 DEF TypeOK, At, disk, IdentityFails, ReconcileRefuses, GenesisFails,
     RepairFails, SerialsExhausted, MarkFails, SweepFails, LoadFails, CheckFails
<1> QED
  BY <1>1, <1>2, StepFail DEF TypeOK, Committed

LEMMA StepAppendFails ==
  ASSUME NEW s \in Stores, IInv, AppendFails(s)
  PROVE  IInv'
<1>1. TypeOK /\ Local(s)
  BY DEF IInv
<1>2. target[s] \in -1..MaxSerial /\ target[s] > journal
  BY <1>1, SerialAssumption DEF TypeOK, Local, Allotted, At, AppendFails
<1>3. journal' \in -1..MaxSerial /\ journal' >= journal /\ torn' \in BOOLEAN
  <2>1. CASE UNCHANGED <<journal, torn>>
    BY <1>1, <2>1, SerialAssumption DEF TypeOK
  <2>2. CASE journal' = target[s] /\ torn' = FALSE
    <3>1. torn' \in BOOLEAN
      BY <2>2
    <3>2. journal' \in -1..MaxSerial
      BY <1>2, <2>2
    <3>3. journal' >= journal
      BY <1>1, <1>2, <2>2, SerialAssumption DEF TypeOK
    <3> QED
      BY <3>1, <3>2, <3>3
  <2> QED
    BY <2>1, <2>2 DEF AppendFails
<1> QED
  BY <1>1, <1>3, StepFail DEF TypeOK, Committed, At, AppendFails

LEMMA StepCommitFails ==
  ASSUME NEW s \in Stores, IInv, CommitFails(s)
  PROVE  IInv'
<1>1. TypeOK /\ Local(s)
  BY DEF IInv
<1>2. mutex = s /\ Fail(s) /\ UNCHANGED <<checkpoint, journal, identity, torn, cand>>
  BY DEF At, CommitFails
<1>3. target[s] \in Serials /\ gen[target[s]] = "complete"
  BY <1>1, SerialAssumption DEF TypeOK, Local, Allotted, At, CommitFails, Serials
<1>4. PICK left \in {"none", "partial"} : gen' = [gen EXCEPT ![target[s]] = left]
  BY DEF CommitFails
<1>5. /\ gen' \in [Serials -> Content] /\ Committed' = Committed
      /\ \A n \in Serials : gen'[n] # "none" => gen[n] # "none"
  BY <1>1, <1>3, <1>4 DEF TypeOK, Committed, Content
<1> QED
  BY <1>1, <1>2, <1>5, StepFail DEF TypeOK

(***************************************************************************)
(* The steps of the owner that the calls share: the identity, the journal  *)
(* and its checkpoint.                                                     *)
(***************************************************************************)
LEMMA StepEnsureIdentity ==
  ASSUME NEW s \in Stores, IInv, EnsureIdentity(s)
  PROVE  IInv'
<1>1. TypeOK /\ Local(s)
  BY DEF IInv
<1>2. TypeOK'
  BY <1>1, SerialAssumption DEF TypeOK, Goto, At, disk, memory, ghosts, Working, Serials, EnsureIdentity
<1>3. Covered' /\ SerialNeverReused' /\ AckedSurvives'
  BY SameDisk DEF EnsureIdentity, disk, ghosts
<1>4. ASSUME NEW t \in Stores, t # s PROVE Local(t)'
  <2>1. Untouched(t)
    BY <1>1, <1>4 DEF TypeOK, Goto, memory, Untouched, EnsureIdentity
  <2> QED
    BY <1>4, <2>1, StoreAssumption, DiskFrame DEF At, disk, ghosts, EnsureIdentity
<1>5. Local(s)'
  BY <1>1, StoreAssumption, SerialAssumption DEF TypeOK, Goto, At, disk, memory, ghosts, Working, Local, Owner,
       Allotted, Held, Loaded, Spared, Committed, Serials, EnsureIdentity
<1> QED
  BY <1>2, <1>3, <1>4, <1>5 DEF IInv

LEMMA StepReconcile ==
  ASSUME NEW s \in Stores, IInv, Reconcile(s)
  PROVE  IInv'
<1>1. TypeOK /\ Local(s)
  BY DEF IInv
<1>2. TypeOK'
  BY <1>1, SerialAssumption DEF TypeOK, Goto, At, disk, memory, ghosts, Working, Serials, Reconcile, Reconciled, Reconcilable, JournalMissing
<1>3. Covered' /\ SerialNeverReused' /\ AckedSurvives'
  BY SameDisk DEF Reconcile, disk, ghosts, Reconciled, Reconcilable, JournalMissing
<1>4. ASSUME NEW t \in Stores, t # s PROVE Local(t)'
  <2>1. Untouched(t)
    BY <1>1, <1>4 DEF TypeOK, Goto, memory, Untouched, Reconcile, Reconciled, Reconcilable, JournalMissing
  <2> QED
    BY <1>4, <2>1, StoreAssumption, DiskFrame DEF At, disk, ghosts, Reconcile, Reconciled, Reconcilable, JournalMissing
<1>5. Local(s)'
  BY <1>1, StoreAssumption, SerialAssumption DEF TypeOK, Goto, At, disk, memory, ghosts, Working, Local, Owner,
       Allotted, Held, Loaded, Spared, Committed, Serials, Reconcile, Reconciled, Reconcilable, JournalMissing
<1> QED
  BY <1>2, <1>3, <1>4, <1>5 DEF IInv

LEMMA StepStartGenesis ==
  ASSUME NEW s \in Stores, IInv, StartGenesis(s)
  PROVE  IInv'
<1>1. TypeOK /\ Local(s)
  BY DEF IInv
<1>2. TypeOK'
  BY <1>1, SerialAssumption DEF TypeOK, Goto, At, disk, memory, ghosts, Working, Serials, StartGenesis
<1>3. Covered' /\ SerialNeverReused' /\ AckedSurvives'
  BY SameDisk DEF StartGenesis, disk, ghosts
<1>4. ASSUME NEW t \in Stores, t # s PROVE Local(t)'
  <2>1. Untouched(t)
    BY <1>1, <1>4 DEF TypeOK, Goto, memory, Untouched, StartGenesis
  <2> QED
    BY <1>4, <2>1, StoreAssumption, DiskFrame DEF At, disk, ghosts, StartGenesis
<1>5. Local(s)'
  BY <1>1, StoreAssumption, SerialAssumption DEF TypeOK, Goto, At, disk, memory, ghosts, Working, Local, Owner,
       Allotted, Held, Loaded, Spared, Committed, Serials, StartGenesis
<1> QED
  BY <1>2, <1>3, <1>4, <1>5 DEF IInv

LEMMA StepFinishGenesis ==
  ASSUME NEW s \in Stores, IInv, FinishGenesis(s)
  PROVE  IInv'
<1>1. TypeOK /\ Local(s)
  BY DEF IInv
<1>a. journal = -1 /\ 0 \in -1..MaxSerial
  BY <1>1, SerialAssumption DEF Local, Allotted, At, FinishGenesis
<1>2. TypeOK'
  BY <1>1, <1>a, SerialAssumption DEF TypeOK, Goto, At, disk, memory, ghosts, Working, Serials, FinishGenesis
<1>3. Covered' /\ SerialNeverReused' /\ AckedSurvives'
  BY <1>1, <1>a, SerialAssumption DEF FinishGenesis, At, disk, ghosts, IInv, Covered,
     SerialNeverReused, AckedSurvives, TypeOK, Serials, Committed, Local, Allotted
<1>4. ASSUME NEW t \in Stores, t # s PROVE Local(t)'
  <2>1. Untouched(t)
    BY <1>1, <1>4 DEF TypeOK, Goto, memory, Untouched, FinishGenesis
  <2> QED
    BY <1>1, <1>4, <2>1, StoreAssumption, OwnerFrame DEF At, Return, disk, ghosts, Committed, FinishGenesis
<1>5. Local(s)'
  BY <1>1, StoreAssumption, SerialAssumption DEF TypeOK, Goto, At, disk, memory, ghosts, Working, Local, Owner,
       Allotted, Held, Loaded, Spared, Committed, Serials, FinishGenesis
<1> QED
  BY <1>2, <1>3, <1>4, <1>5 DEF IInv

LEMMA StepRepair ==
  ASSUME NEW s \in Stores, IInv, Repair(s)
  PROVE  IInv'
<1>1. TypeOK /\ Local(s)
  BY DEF IInv
<1>2. TypeOK'
  BY <1>1, SerialAssumption DEF TypeOK, Goto, At, disk, memory, ghosts, Working, Serials, Repair, Reconciled
<1>3. Covered' /\ SerialNeverReused' /\ AckedSurvives'
  BY <1>1, SerialAssumption DEF Repair, At, disk, ghosts, IInv, Covered,
     SerialNeverReused, AckedSurvives, TypeOK, Serials, Committed, Local, Allotted
<1>4. ASSUME NEW t \in Stores, t # s PROVE Local(t)'
  <2>1. Untouched(t)
    BY <1>1, <1>4 DEF TypeOK, Goto, memory, Untouched, Repair, Reconciled
  <2> QED
    BY <1>4, <2>1, StoreAssumption, DiskFrame DEF At, disk, ghosts, Repair, Reconciled
<1>5. Local(s)'
  BY <1>1, StoreAssumption, SerialAssumption DEF TypeOK, Goto, At, disk, memory, ghosts, Working, Local, Owner,
       Allotted, Held, Loaded, Spared, Committed, Serials, Repair, Reconciled
<1> QED
  BY <1>2, <1>3, <1>4, <1>5 DEF IInv

LEMMA StepReserve ==
  ASSUME NEW s \in Stores, IInv, Reserve(s)
  PROVE  IInv'
<1>1. TypeOK /\ Local(s)
  BY DEF IInv
<1>2. TypeOK'
  BY <1>1, SerialAssumption DEF TypeOK, Goto, At, disk, memory, ghosts, Working, Serials, Reserve
<1>3. Covered' /\ SerialNeverReused' /\ AckedSurvives'
  BY SameDisk DEF Reserve, disk, ghosts
<1>4. ASSUME NEW t \in Stores, t # s PROVE Local(t)'
  <2>1. Untouched(t)
    BY <1>1, <1>4 DEF TypeOK, Goto, memory, Untouched, Reserve
  <2> QED
    BY <1>4, <2>1, StoreAssumption, DiskFrame DEF At, disk, ghosts, Reserve
<1>5. Local(s)'
  BY <1>1, StoreAssumption, SerialAssumption DEF TypeOK, Goto, At, disk, memory, ghosts, Working, Local, Owner,
       Allotted, Held, Loaded, Spared, Committed, Serials, Reserve
<1> QED
  BY <1>2, <1>3, <1>4, <1>5 DEF IInv

LEMMA StepStartAppend ==
  ASSUME NEW s \in Stores, IInv, StartAppend(s)
  PROVE  IInv'
<1>1. TypeOK /\ Local(s)
  BY DEF IInv
<1>2. TypeOK'
  BY <1>1, SerialAssumption DEF TypeOK, Goto, At, disk, memory, ghosts, Working, Serials, StartAppend
<1>3. Covered' /\ SerialNeverReused' /\ AckedSurvives'
  BY SameDisk DEF StartAppend, disk, ghosts
<1>4. ASSUME NEW t \in Stores, t # s PROVE Local(t)'
  <2>1. Untouched(t)
    BY <1>1, <1>4 DEF TypeOK, Goto, memory, Untouched, StartAppend
  <2> QED
    BY <1>4, <2>1, StoreAssumption, DiskFrame DEF At, disk, ghosts, StartAppend
<1>5. Local(s)'
  BY <1>1, StoreAssumption, SerialAssumption DEF TypeOK, Goto, At, disk, memory, ghosts, Working, Local, Owner,
       Allotted, Held, Loaded, Spared, Committed, Serials, StartAppend
<1> QED
  BY <1>2, <1>3, <1>4, <1>5 DEF IInv

LEMMA StepFinishAppend ==
  ASSUME NEW s \in Stores, IInv, FinishAppend(s)
  PROVE  IInv'
<1>1. TypeOK /\ Local(s)
  BY DEF IInv
<1>a. /\ pc[s] = "append" /\ mutex = s
      /\ target[s] \in 1..MaxSerial /\ target[s] > journal
      /\ target[s] \in -1..MaxSerial
  BY <1>1, SerialAssumption DEF TypeOK, Local, Allotted, At, FinishAppend
<1>b. target[s] \notin issued
  BY <1>1, <1>a DEF TypeOK, IInv, Covered, Serials
<1>2. TypeOK'
  BY <1>1, <1>a, SerialAssumption DEF TypeOK, Goto, At, disk, memory, ghosts, Working, Serials, FinishAppend
<1>3. Covered' /\ SerialNeverReused' /\ AckedSurvives'
  BY <1>1, SerialAssumption DEF FinishAppend, At, disk, ghosts, IInv, Covered,
     SerialNeverReused, AckedSurvives, TypeOK, Serials, Committed, Local, Allotted
<1>4. ASSUME NEW t \in Stores, t # s PROVE Local(t)'
  <2>1. Untouched(t)
    BY <1>1, <1>4 DEF TypeOK, Goto, memory, Untouched, FinishAppend
  <2> QED
    BY <1>1, <1>4, <2>1, StoreAssumption, OwnerFrame DEF At, Return, disk, ghosts, Committed, FinishAppend
<1>5. Local(s)'
  BY <1>1, StoreAssumption, SerialAssumption, <1>a, <1>b DEF TypeOK, Goto, At, disk, memory, ghosts, Working, Local, Owner,
       Allotted, Held, Loaded, Spared, Committed, Serials, FinishAppend
<1> QED
  BY <1>2, <1>3, <1>4, <1>5 DEF IInv

LEMMA StepMark ==
  ASSUME NEW s \in Stores, IInv, Mark(s)
  PROVE  IInv'
<1>1. TypeOK /\ Local(s)
  BY DEF IInv
<1>2. TypeOK'
  BY <1>1, SerialAssumption DEF TypeOK, Goto, At, disk, memory, ghosts, Working, Serials, Mark
<1>3. Covered' /\ SerialNeverReused' /\ AckedSurvives'
  BY <1>1, SerialAssumption DEF Mark, At, disk, ghosts, IInv, Covered,
     SerialNeverReused, AckedSurvives, TypeOK, Serials, Committed, Local, Allotted
<1>4. ASSUME NEW t \in Stores, t # s PROVE Local(t)'
  <2>1. Untouched(t)
    BY <1>1, <1>4 DEF TypeOK, Goto, memory, Untouched, Mark
  <2> QED
    BY <1>4, <2>1, StoreAssumption, DiskFrame DEF At, disk, ghosts, Mark
<1>5. Local(s)'
  BY <1>1, StoreAssumption, SerialAssumption DEF TypeOK, Goto, At, disk, memory, ghosts, Working, Local, Owner,
       Allotted, Held, Loaded, Spared, Committed, Serials, Mark
<1> QED
  BY <1>2, <1>3, <1>4, <1>5 DEF IInv

(***************************************************************************)
(* Initialize.                                                             *)
(***************************************************************************)
LEMMA StepScan ==
  ASSUME NEW s \in Stores, IInv, Scan(s)
  PROVE  IInv'
<1>1. TypeOK /\ Local(s)
  BY DEF IInv
<1>a. doomed' \in [Stores -> SUBSET Serials]
  <2>1. Uncommitted \in SUBSET Serials
    BY DEF Uncommitted
  <2> QED
    BY <1>1, <2>1 DEF TypeOK, Scan
<1>b. target' \in [Stores -> 0..MaxSerial]
  <2>1. \A n \in Serials : n \in 0..MaxSerial
    BY SerialAssumption DEF Serials
  <2> QED
    BY <1>1, <2>1 DEF TypeOK, Scan
<1>2. TypeOK'
  BY <1>1, <1>a, <1>b, SerialAssumption DEF TypeOK, Goto, At, disk, memory, ghosts, Working, Serials, Scan, Uncommitted
<1>3. Covered' /\ SerialNeverReused' /\ AckedSurvives'
  BY SameDisk DEF Scan, disk, ghosts, Uncommitted
<1>4. ASSUME NEW t \in Stores, t # s PROVE Local(t)'
  <2>1. Untouched(t)
    BY <1>1, <1>4 DEF TypeOK, Goto, memory, Untouched, Scan, Uncommitted
  <2> QED
    BY <1>4, <2>1, StoreAssumption, DiskFrame DEF At, disk, ghosts, Scan, Uncommitted
<1>5. Local(s)'
  BY <1>1, StoreAssumption, SerialAssumption DEF TypeOK, Goto, At, disk, memory, ghosts, Working, Local, Owner,
       Allotted, Held, Loaded, Spared, Committed, Serials, Scan, Uncommitted
<1> QED
  BY <1>2, <1>3, <1>4, <1>5 DEF IInv

LEMMA StepSweepCandidates ==
  ASSUME NEW s \in Stores, IInv, SweepCandidates(s)
  PROVE  IInv'
<1>1. TypeOK /\ Local(s)
  BY DEF IInv
<1>2. TypeOK'
  BY <1>1, SerialAssumption DEF TypeOK, Goto, At, disk, memory, ghosts, Working, Serials, SweepCandidates
<1>3. Covered' /\ SerialNeverReused' /\ AckedSurvives'
  BY SameDisk DEF SweepCandidates, disk, ghosts
<1>4. ASSUME NEW t \in Stores, t # s PROVE Local(t)'
  <2>1. Untouched(t)
    BY <1>1, <1>4 DEF TypeOK, Goto, memory, Untouched, SweepCandidates
  <2> QED
    BY <1>4, <2>1, StoreAssumption, DiskFrame DEF At, disk, ghosts, SweepCandidates
<1>5. Local(s)'
  BY <1>1, StoreAssumption, SerialAssumption DEF TypeOK, Goto, At, disk, memory, ghosts, Working, Local, Owner,
       Allotted, Held, Loaded, Spared, Committed, Serials, SweepCandidates
<1> QED
  BY <1>2, <1>3, <1>4, <1>5 DEF IInv

LEMMA StepLoad ==
  ASSUME NEW s \in Stores, IInv, Load(s)
  PROVE  IInv'
<1>1. TypeOK /\ Local(s)
  BY DEF IInv
<1>a. lease' \in [Stores -> 0..MaxSerial]
  <2>1. \A n \in Serials : n \in 0..MaxSerial
    BY SerialAssumption DEF Serials
  <2> QED
    BY <1>1, <2>1, SerialAssumption DEF TypeOK, Load
<1>2. TypeOK'
  BY <1>1, <1>a, SerialAssumption DEF TypeOK, Goto, At, disk, memory, ghosts, Working, Serials, Load, Newest
<1>3. Covered' /\ SerialNeverReused' /\ AckedSurvives'
  BY SameDisk DEF Load, disk, ghosts, Newest
<1>4. ASSUME NEW t \in Stores, t # s PROVE Local(t)'
  <2>1. Untouched(t)
    BY <1>1, <1>4 DEF TypeOK, Goto, memory, Untouched, Load, Newest
  <2> QED
    BY <1>4, <2>1, StoreAssumption, DiskFrame DEF At, disk, ghosts, Load, Newest
<1>5. Local(s)'
  <2>1. AckedSurvives /\ pc[s] = "load" /\ mutex = s
    BY DEF IInv, At, Load
  <2>2. lease'[s] = 0 \/ lease'[s] \in Committed
    BY <1>1 DEF TypeOK, Load, Newest
  <2>3. acked <= lease'[s]
    <3>1. CASE Committed = {} /\ lease' = [lease EXCEPT ![s] = 0]
      BY <1>1, <2>1, <3>1, SerialAssumption DEF TypeOK, AckedSurvives
    <3>2. ASSUME NEW n \in Serials, Newest(n), lease' = [lease EXCEPT ![s] = n]
          PROVE  acked <= lease'[s]
      BY <1>1, <2>1, <3>2, SerialAssumption DEF TypeOK, AckedSurvives, Newest,
         Committed, Serials
    <3> QED
      BY <3>1, <3>2 DEF Load
  <2>4. Loaded(s)'
    BY <2>2, <2>3 DEF Loaded, Load, disk, ghosts, Committed
  <2> QED
    BY <1>1, <2>1, <2>4, SerialAssumption DEF TypeOK, Goto, disk, ghosts, Working, Local,
       Owner, Allotted, Held, Spared, Committed, Serials, Load
<1> QED
  BY <1>2, <1>3, <1>4, <1>5 DEF IInv

LEMMA StepSwept ==
  ASSUME NEW s \in Stores, IInv, Swept(s)
  PROVE  IInv'
<1>1. TypeOK /\ Local(s)
  BY DEF IInv
<1>2. TypeOK'
  BY <1>1, SerialAssumption DEF TypeOK, Goto, At, disk, memory, ghosts, Working, Serials, Swept
<1>3. Covered' /\ SerialNeverReused' /\ AckedSurvives'
  BY SameDisk DEF Swept, disk, ghosts
<1>4. ASSUME NEW t \in Stores, t # s PROVE Local(t)'
  <2>1. Untouched(t)
    BY <1>1, <1>4 DEF TypeOK, Goto, memory, Untouched, Swept
  <2> QED
    BY <1>4, <2>1, StoreAssumption, DiskFrame DEF At, disk, ghosts, Swept
<1>5. Local(s)'
  BY <1>1, StoreAssumption, SerialAssumption DEF TypeOK, Goto, At, disk, memory, ghosts, Working, Local, Owner,
       Allotted, Held, Loaded, Spared, Committed, Serials, Swept
<1> QED
  BY <1>2, <1>3, <1>4, <1>5 DEF IInv

LEMMA StepRetire ==
  ASSUME NEW s \in Stores, IInv, Retire(s)
  PROVE  IInv'
<1>1. TypeOK /\ Local(s)
  BY DEF IInv
<1>a. doomed' \in [Stores -> SUBSET Serials]
  <2>1. {n \in Committed : Uncommitted = {} /\ ~Newest(n)} \in SUBSET Serials
    BY DEF Committed
  <2> QED
    BY <1>1, <2>1 DEF TypeOK, Retire
<1>2. TypeOK'
  BY <1>1, <1>a, SerialAssumption DEF TypeOK, Goto, At, disk, memory, ghosts, Working, Serials, Retire, Uncommitted, Newest
<1>3. Covered' /\ SerialNeverReused' /\ AckedSurvives'
  BY SameDisk DEF Retire, disk, ghosts, Uncommitted, Newest
<1>4. ASSUME NEW t \in Stores, t # s PROVE Local(t)'
  <2>1. Untouched(t)
    BY <1>1, <1>4 DEF TypeOK, Goto, memory, Untouched, Retire, Uncommitted, Newest
  <2> QED
    BY <1>4, <2>1, StoreAssumption, DiskFrame DEF At, disk, ghosts, Retire, Uncommitted, Newest
<1>5. Local(s)'
  BY <1>1, StoreAssumption, SerialAssumption DEF TypeOK, Goto, At, disk, memory, ghosts, Working, Local, Owner,
       Allotted, Held, Loaded, Spared, Committed, Serials, Retire, Uncommitted, Newest
<1> QED
  BY <1>2, <1>3, <1>4, <1>5 DEF IInv

LEMMA StepInstall ==
  ASSUME NEW s \in Stores, IInv, Install(s)
  PROVE  IInv'
<1>1. TypeOK /\ Local(s)
  BY DEF IInv
<1>2. TypeOK'
  BY <1>1, SerialAssumption DEF TypeOK, Goto, At, disk, memory, ghosts, Working, Serials, Install, Return
<1>3. Covered' /\ SerialNeverReused' /\ AckedSurvives'
  BY SameDisk DEF Install, disk, ghosts, Return
<1>4. ASSUME NEW t \in Stores, t # s PROVE Local(t)'
  <2>1. Untouched(t)
    BY <1>1, <1>4 DEF TypeOK, Goto, memory, Untouched, Install, Return
  <2> QED
    BY <1>4, <2>1, StoreAssumption, DiskFrame DEF At, disk, ghosts, Install, Return
<1>5. Local(s)'
  BY <1>1, StoreAssumption, SerialAssumption DEF TypeOK, Goto, At, disk, memory, ghosts, Working, Local, Owner,
       Allotted, Held, Loaded, Spared, Committed, Serials, Install, Return
<1> QED
  BY <1>2, <1>3, <1>4, <1>5 DEF IInv

(***************************************************************************)
(* Publish.                                                                *)
(***************************************************************************)
LEMMA StepBuildCopied ==
  ASSUME NEW s \in Stores, IInv, BuildCopied(s)
  PROVE  IInv'
<1>1. TypeOK /\ Local(s)
  BY DEF IInv
<1>a. /\ mutex = s /\ open[s] /\ target[s] = journal /\ target[s] \in Serials
      /\ target[s] \notin issued
  BY <1>1, SerialAssumption DEF TypeOK, Local, Allotted, At, BuildCopied, Serials
<1>2. TypeOK'
  BY <1>1, <1>a, SerialAssumption DEF TypeOK, Goto, At, disk, memory, ghosts, Working, Serials, BuildCopied, Issue
<1>3. Covered' /\ SerialNeverReused' /\ AckedSurvives'
  BY <1>1, <1>a, SerialAssumption DEF BuildCopied, Issue, At, disk, ghosts, IInv, Covered,
     SerialNeverReused, AckedSurvives, TypeOK, Serials, Committed, Local, Allotted
<1>4. ASSUME NEW t \in Stores, t # s PROVE Local(t)'
  <2>1. Untouched(t)
    BY <1>1, <1>4 DEF TypeOK, Goto, memory, Untouched, BuildCopied, Issue
  <2> QED
    BY <1>1, <1>4, <2>1, StoreAssumption, OwnerFrame DEF At, Return, disk, ghosts, Committed, BuildCopied, Issue
<1>5. Local(s)'
  BY <1>1, StoreAssumption, SerialAssumption, <1>a DEF TypeOK, Goto, At, disk, memory, ghosts, Working, Local, Owner,
       Allotted, Held, Loaded, Spared, Committed, Serials, BuildCopied, Issue
<1> QED
  BY <1>2, <1>3, <1>4, <1>5 DEF IInv

LEMMA StepBuildPrepared ==
  ASSUME NEW s \in Stores, IInv, BuildPrepared(s)
  PROVE  IInv'
<1>1. TypeOK /\ Local(s)
  BY DEF IInv
<1>a. /\ mutex = s /\ open[s] /\ target[s] = journal /\ target[s] \in Serials
      /\ target[s] \notin issued
  BY <1>1, SerialAssumption DEF TypeOK, Local, Allotted, At, BuildPrepared, Serials
<1>2. TypeOK'
  BY <1>1, <1>a, SerialAssumption DEF TypeOK, Goto, At, disk, memory, ghosts, Working, Serials, BuildPrepared, Issue
<1>3. Covered' /\ SerialNeverReused' /\ AckedSurvives'
  BY <1>1, <1>a, SerialAssumption DEF BuildPrepared, Issue, At, disk, ghosts, IInv, Covered,
     SerialNeverReused, AckedSurvives, TypeOK, Serials, Committed, Local, Allotted
<1>4. ASSUME NEW t \in Stores, t # s PROVE Local(t)'
  <2>1. Untouched(t)
    BY <1>1, <1>4 DEF TypeOK, Goto, memory, Untouched, BuildPrepared, Issue
  <2> QED
    BY <1>1, <1>4, <2>1, StoreAssumption, OwnerFrame DEF At, Return, disk, ghosts, Committed, BuildPrepared, Issue
<1>5. Local(s)'
  BY <1>1, StoreAssumption, SerialAssumption, <1>a DEF TypeOK, Goto, At, disk, memory, ghosts, Working, Local, Owner,
       Allotted, Held, Loaded, Spared, Committed, Serials, BuildPrepared, Issue
<1> QED
  BY <1>2, <1>3, <1>4, <1>5 DEF IInv

LEMMA StepReleasePrepared ==
  ASSUME NEW s \in Stores, IInv, ReleasePrepared(s)
  PROVE  IInv'
<1>1. TypeOK /\ Local(s)
  BY DEF IInv
<1>a. /\ mutex = s /\ open[s] /\ target[s] = journal /\ target[s] \in Serials
  BY <1>1, SerialAssumption DEF TypeOK, Local, Allotted, At, ReleasePrepared, Serials
<1>2. TypeOK'
  BY <1>1, <1>a, SerialAssumption DEF TypeOK, Goto, At, disk, memory, ghosts, Working, Serials, ReleasePrepared
<1>3. Covered' /\ SerialNeverReused' /\ AckedSurvives'
  BY SameDisk DEF ReleasePrepared, disk, ghosts
<1>4. ASSUME NEW t \in Stores, t # s PROVE Local(t)'
  <2>1. Untouched(t)
    BY <1>1, <1>4 DEF TypeOK, Goto, memory, Untouched, ReleasePrepared
  <2> QED
    BY <1>4, <2>1, StoreAssumption, DiskFrame DEF At, disk, ghosts, ReleasePrepared
<1>5. Local(s)'
  BY <1>1, StoreAssumption, SerialAssumption DEF TypeOK, Goto, At, disk, memory, ghosts, Working, Local, Owner,
       Allotted, Held, Loaded, Spared, Committed, Serials, ReleasePrepared
<1> QED
  BY <1>2, <1>3, <1>4, <1>5 DEF IInv

LEMMA StepBuildFails ==
  ASSUME NEW s \in Stores, IInv, BuildFails(s)
  PROVE  IInv'
<1>1. TypeOK /\ Local(s)
  BY DEF IInv
<1>a. open[s] /\ mutex = s
  BY <1>1 DEF Local, Allotted, At, BuildFails
<1>b. cand' \in SUBSET Serials /\ prepared' \in [Stores -> {"none", "unowned", "owned"}]
  BY <1>1 DEF TypeOK, BuildFails
<1>c. /\ Return(s, "idle")
      /\ UNCHANGED <<identity, journal, torn, checkpoint, gen, open, active, pins, ghosts>>
  BY DEF BuildFails
<1>2. TypeOK'
  BY <1>1, <1>b, <1>c, SerialAssumption DEF TypeOK, Return, Goto, ghosts, Working
<1>3. Covered' /\ SerialNeverReused' /\ AckedSurvives'
  BY SameDisk DEF BuildFails, disk, ghosts, Return
<1>4. ASSUME NEW t \in Stores, t # s PROVE Local(t)'
  <2>1. Untouched(t)
    BY <1>1, <1>4 DEF TypeOK, Goto, memory, Untouched, BuildFails, Return
  <2> QED
    BY <1>4, <2>1, StoreAssumption, DiskFrame DEF At, disk, ghosts, BuildFails, Return
<1>5. Local(s)'
  BY <1>1, StoreAssumption, SerialAssumption, <1>a DEF TypeOK, Goto, At, disk, memory, ghosts, Working, Local, Owner,
       Allotted, Held, Loaded, Spared, Committed, Serials, BuildFails, Return
<1> QED
  BY <1>2, <1>3, <1>4, <1>5 DEF IInv

LEMMA StepPromote ==
  ASSUME NEW s \in Stores, IInv, Promote(s)
  PROVE  IInv'
<1>1. TypeOK /\ Local(s)
  BY DEF IInv
<1>a. /\ mutex = s /\ open[s] /\ target[s] = journal /\ target[s] \in Serials
  BY <1>1, SerialAssumption DEF TypeOK, Local, Allotted, At, Promote, Serials
<1>2. TypeOK'
  BY <1>1, <1>a, SerialAssumption DEF TypeOK, Goto, At, disk, memory, ghosts, Working, Serials, Promote, Content
<1>3. Covered' /\ SerialNeverReused' /\ AckedSurvives'
  <2>1. Covered'
    BY <1>1, <1>a DEF Promote, disk, ghosts, IInv, Covered, TypeOK
  <2>2. Committed \subseteq Committed'
    BY <1>1, <1>a DEF Promote, Committed, TypeOK
  <2>3. SerialNeverReused' /\ AckedSurvives'
    BY <2>2 DEF Promote, ghosts, IInv, SerialNeverReused, AckedSurvives
  <2> QED
    BY <2>1, <2>3
<1>4. ASSUME NEW t \in Stores, t # s PROVE Local(t)'
  <2>1. Untouched(t)
    BY <1>1, <1>4 DEF TypeOK, Goto, memory, Untouched, Promote
  <2> QED
    BY <1>1, <1>4, <2>1, StoreAssumption, OwnerFrame DEF At, Return, disk, ghosts, Committed, Promote
<1>5. Local(s)'
  BY <1>1, StoreAssumption, SerialAssumption, <1>a DEF TypeOK, Goto, At, disk, memory, ghosts, Working, Local, Owner,
       Allotted, Held, Loaded, Spared, Committed, Serials, Promote
<1> QED
  BY <1>2, <1>3, <1>4, <1>5 DEF IInv

LEMMA StepHold ==
  ASSUME NEW s \in Stores, IInv, Hold(s)
  PROVE  IInv'
<1>1. TypeOK /\ Local(s)
  BY DEF IInv
<1>a. /\ mutex = s /\ open[s] /\ target[s] = journal /\ target[s] \in Serials
  BY <1>1, SerialAssumption DEF TypeOK, Local, Allotted, At, Hold, Serials
<1>2. TypeOK'
  BY <1>1, <1>a, SerialAssumption DEF TypeOK, Goto, At, disk, memory, ghosts, Working, Serials, Hold
<1>3. Covered' /\ SerialNeverReused' /\ AckedSurvives'
  BY SameDisk DEF Hold, disk, ghosts
<1>4. ASSUME NEW t \in Stores, t # s PROVE Local(t)'
  <2>1. Untouched(t)
    BY <1>1, <1>4 DEF TypeOK, Goto, memory, Untouched, Hold
  <2> QED
    BY <1>4, <2>1, StoreAssumption, DiskFrame DEF At, disk, ghosts, Hold
<1>5. Local(s)'
  BY <1>1, StoreAssumption, SerialAssumption DEF TypeOK, Goto, At, disk, memory, ghosts, Working, Local, Owner,
       Allotted, Held, Loaded, Spared, Committed, Serials, Hold
<1> QED
  BY <1>2, <1>3, <1>4, <1>5 DEF IInv

LEMMA StepCommit ==
  ASSUME NEW s \in Stores, IInv, Commit(s)
  PROVE  IInv'
<1>1. TypeOK /\ Local(s)
  BY DEF IInv
<1>a. /\ mutex = s /\ open[s] /\ target[s] = journal /\ target[s] \in Serials
      /\ gen[target[s]] = "complete"
  BY <1>1, SerialAssumption DEF TypeOK, Local, Allotted, At, Commit, Serials
<1>2. TypeOK'
  BY <1>1, <1>a, SerialAssumption DEF TypeOK, Goto, At, disk, memory, ghosts, Working, Serials, Commit, Content
<1>3. Covered' /\ SerialNeverReused' /\ AckedSurvives'
  BY <1>1, <1>a, SerialAssumption DEF Commit, Content, At, disk, ghosts, IInv, Covered,
     SerialNeverReused, AckedSurvives, TypeOK, Serials, Committed, Local, Allotted
<1>4. ASSUME NEW t \in Stores, t # s PROVE Local(t)'
  <2>1. Untouched(t)
    BY <1>1, <1>4 DEF TypeOK, Goto, memory, Untouched, Commit
  <2> QED
    BY <1>1, <1>4, <2>1, StoreAssumption, OwnerFrame DEF At, Return, disk, ghosts, Committed, Commit
<1>5. Local(s)'
  BY <1>1, StoreAssumption, SerialAssumption, <1>a DEF TypeOK, Goto, At, disk, memory, ghosts, Working, Local, Owner,
       Allotted, Held, Loaded, Spared, Committed, Serials, Commit
<1> QED
  BY <1>2, <1>3, <1>4, <1>5 DEF IInv

LEMMA StepSwap ==
  ASSUME NEW s \in Stores, IInv, Swap(s)
  PROVE  IInv'
<1>1. TypeOK /\ Local(s)
  BY DEF IInv
<1>a. /\ mutex = s /\ open[s] /\ target[s] = journal /\ target[s] \in Serials
      /\ gen[target[s]] = "committed"
  BY <1>1, SerialAssumption DEF TypeOK, Local, Allotted, At, Swap, Serials
<1>2. TypeOK'
  BY <1>1, <1>a, SerialAssumption DEF TypeOK, Goto, At, disk, memory, ghosts, Working, Serials, Swap
<1>3. Covered' /\ SerialNeverReused' /\ AckedSurvives'
  BY SameDisk DEF Swap, disk, ghosts
<1>4. ASSUME NEW t \in Stores, t # s PROVE Local(t)'
  <2>1. Untouched(t)
    BY <1>1, <1>4 DEF TypeOK, Goto, memory, Untouched, Swap
  <2> QED
    BY <1>4, <2>1, StoreAssumption, DiskFrame DEF At, disk, ghosts, Swap
<1>5. Local(s)'
  BY <1>1, StoreAssumption, SerialAssumption, <1>a DEF TypeOK, Goto, At, disk, memory, ghosts, Working, Local, Owner,
       Allotted, Held, Loaded, Spared, Committed, Serials, Swap
<1> QED
  BY <1>2, <1>3, <1>4, <1>5 DEF IInv

LEMMA StepAcknowledge ==
  ASSUME NEW s \in Stores, IInv, Acknowledge(s)
  PROVE  IInv'
<1>1. TypeOK /\ Local(s)
  BY DEF IInv
<1>a. /\ mutex = s /\ open[s] /\ target[s] \in Serials /\ target[s] \in Committed
  BY <1>1, SerialAssumption DEF TypeOK, Local, Allotted, Held, At, Acknowledge, Serials
<1>2. TypeOK'
  BY <1>1, <1>a, SerialAssumption DEF TypeOK, Goto, At, disk, memory, ghosts, Working, Serials, Acknowledge, Return
<1>3. Covered' /\ SerialNeverReused' /\ AckedSurvives'
  <2>1. Covered' /\ SerialNeverReused' /\ Committed' = Committed
    BY DEF IInv, Covered, SerialNeverReused, Committed, Acknowledge, disk
  <2>2. acked' = acked \/ acked' = target[s]
    BY DEF Acknowledge
  <2>3. AckedSurvives'
    BY <1>1, <1>a, <2>1, <2>2, SerialAssumption DEF IInv, AckedSurvives, Serials
  <2> QED
    BY <2>1, <2>3
<1>4. ASSUME NEW t \in Stores, t # s PROVE Local(t)'
  <2>1. Untouched(t)
    BY <1>1, <1>4 DEF TypeOK, Goto, memory, Untouched, Acknowledge, Return
  <2> QED
    BY <1>1, <1>4, <2>1, StoreAssumption, OwnerFrame DEF At, Return, disk, ghosts, Committed, Acknowledge
<1>5. Local(s)'
  BY <1>1, StoreAssumption, SerialAssumption, <1>a DEF TypeOK, Goto, At, disk, memory, ghosts, Working, Local, Owner,
       Allotted, Held, Loaded, Spared, Committed, Serials, Acknowledge, Return
<1> QED
  BY <1>2, <1>3, <1>4, <1>5 DEF IInv

(***************************************************************************)
(* The deletion of a directory, in which the invariant earns its parts:    *)
(* the list holds no leased generation and no newest one.                  *)
(***************************************************************************)
LEMMA Deleted ==
  ASSUME TypeOK, NEW s \in Stores, NEW n \in doomed[s], TryDelete(s)!(n)
  PROVE  /\ gen' \in [Serials -> Content]
         /\ Committed' \in {Committed, Committed \ {n}}
         /\ \A m \in Serials : gen'[m] # "none" => gen[m] # "none"
         /\ \A m \in Serials : m \in Committed /\ Leased(m) => m \in Committed'
         /\ Uncommitted' \subseteq Uncommitted \cup {n}
<1>1. n \in Serials /\ gen \in [Serials -> Content]
  BY DEF TypeOK
<1>2. \/ gen' = gen
      \/ /\ ~Leased(n) /\ gen[n] # "none"
         /\ \E c \in Content \ {"committed"} : gen' = [gen EXCEPT ![n] = c]
  BY <1>1 DEF Content, Remains
<1>3. CASE gen' = gen
  BY <1>1, <1>3 DEF Committed, Uncommitted
<1>4. CASE /\ ~Leased(n) /\ gen[n] # "none"
           /\ \E c \in Content \ {"committed"} : gen' = [gen EXCEPT ![n] = c]
  BY <1>1, <1>4 DEF Content, Committed, Uncommitted
<1> QED
  BY <1>2, <1>3, <1>4

(* What a deletion has not removed is still on the list, or has failed.      *)
LEMMA Listed ==
  ASSUME TypeOK, NEW s \in Stores, NEW n \in doomed[s], TryDelete(s)!(n)
  PROVE  /\ doomed' \in [Stores -> SUBSET Serials] /\ doomed'[s] \subseteq doomed[s]
         /\ stuck' \in [Stores -> SUBSET Serials]
         /\ doomed[s] \cup stuck[s] \subseteq doomed'[s] \cup stuck'[s] \cup {n}
         /\ n \in Uncommitted' => n \in doomed'[s] \cup stuck'[s]
<1>1. n \in Serials /\ gen \in [Serials -> Content]
      /\ doomed \in [Stores -> SUBSET Serials] /\ stuck \in [Stores -> SUBSET Serials]
  BY DEF TypeOK
<1>2. CASE UNCHANGED <<doomed, stuck>>
  BY <1>1, <1>2
<1>3. CASE /\ gen' = [gen EXCEPT ![n] = "none"]
           /\ doomed' = [doomed EXCEPT ![s] = @ \ {n}]
           /\ UNCHANGED stuck
  BY <1>1, <1>3 DEF Uncommitted
<1>4. CASE /\ doomed' = [doomed EXCEPT ![s] = @ \ {n}]
           /\ stuck' = [stuck EXCEPT ![s] = @ \cup {n}]
  BY <1>1, <1>4
<1> QED
  BY <1>2, <1>3, <1>4

LEMMA StepTryDelete ==
  ASSUME NEW s \in Stores, IInv, TryDelete(s)
  PROVE  IInv'
<1>1. TypeOK /\ Local(s)
  BY DEF IInv
<1>a. PICK n \in doomed[s] : TryDelete(s)!(n)
  BY DEF TryDelete
<1>b. n \in Serials /\ mutex = s /\ pc[s] \in {"sweep", "retiring"}
  BY <1>1, <1>a DEF TypeOK
<1>c. /\ gen' \in [Serials -> Content] /\ Committed' \in {Committed, Committed \ {n}}
      /\ \A m \in Serials : gen'[m] # "none" => gen[m] # "none"
      /\ \A m \in Serials : m \in Committed /\ Leased(m) => m \in Committed'
  BY <1>1, <1>a, Deleted
<1>d. \A m \in Serials : m \in Committed /\ Leased(m) => m \in Committed'
  BY <1>c
<1>e. /\ doomed' \in [Stores -> SUBSET Serials] /\ doomed'[s] \subseteq doomed[s]
      /\ stuck' \in [Stores -> SUBSET Serials]
  BY <1>1, <1>a, Listed
<1>f. \A m \in Committed : m \notin Committed' =>
        \E k \in Committed' : k > m
  BY <1>1, <1>b, <1>c, SerialAssumption DEF Local, Spared, Committed, Serials
<1>2. TypeOK'
  BY <1>1, <1>a, <1>c, <1>e DEF TypeOK, ghosts
<1>3. Covered' /\ SerialNeverReused' /\ AckedSurvives'
  <2>1. Covered' /\ SerialNeverReused'
    BY <1>a, <1>c DEF IInv, Covered, SerialNeverReused, ghosts
  <2>2. AckedSurvives'
    <3>1. SUFFICES ASSUME acked # 0 PROVE \E k \in Committed' : k >= acked
      BY <1>a DEF AckedSurvives, ghosts
    <3>2. PICK m \in Committed : m >= acked
      BY <3>1 DEF IInv, AckedSurvives
    <3> QED
      BY <1>1, <1>c, <1>f, <3>2, SerialAssumption DEF TypeOK, Committed, Serials
  <2> QED
    BY <2>1, <2>2
<1>4. ASSUME NEW t \in Stores, t # s PROVE Local(t)'
  <2>1. Untouched(t)
    BY <1>1, <1>4, <1>a DEF TypeOK, Untouched
  <2> QED
    BY <1>4, <1>a, <1>b, <1>d, <2>1, OwnerFrame
<1>5. Local(s)'
  <2>1. Owner(s)' /\ Allotted(s)'
    BY <1>1, <1>a, <1>b DEF Local, Owner, Allotted
  <2>2. Held(s)'
    <3>1. active[s] # 0 => active[s] \in Committed'
      BY <1>1, <1>d DEF Local, Held, Leased, Committed
    <3>2. lineage[s] # 0 => lineage[s] \in Committed'
      BY <1>1, <1>d DEF Local, Held, Leased, Committed
    <3>3. pins[s] \subseteq Committed'
      BY <1>1, <1>d DEF Local, Held, Leased, Committed
    <3> QED
      BY <1>a, <3>1, <3>2, <3>3 DEF Held
  <2>3. Loaded(s)'
    <3>1. lease[s] \in Committed => lease[s] \in Committed'
      BY <1>1, <1>d DEF Leased, Committed
    <3> QED
      BY <1>1, <1>a, <3>1 DEF Local, Loaded, ghosts
  <2>4. Spared(s)'
    <3>1. ASSUME NEW m \in doomed'[s] \cap Committed'
          PROVE  pc'[s] = "retiring" /\ \E k \in Committed' : k > m
      <4>1. m \in doomed[s] \cap Committed
        BY <1>c, <1>e, <3>1
      <4>2. PICK k \in Committed : pc[s] = "retiring" /\ k > m
        BY <1>1, <4>1 DEF Local, Spared
      <4>3. CASE k \in Committed'
        BY <1>a, <4>2, <4>3
      <4>4. CASE k \notin Committed'
        <5>1. PICK j \in Committed' : j > k
          BY <1>f, <4>4
        <5>2. j \in Int /\ k \in Int /\ m \in Int
          BY <4>1, <1>c, SerialAssumption DEF Committed, Serials
        <5> QED
          BY <1>a, <4>2, <5>1, <5>2
      <4> QED
        BY <4>3, <4>4
    <3> QED
      BY <1>1, <1>a, <1>b, <3>1 DEF Spared
  <2> QED
    BY <2>1, <2>2, <2>3, <2>4 DEF Local
<1> QED
  BY <1>2, <1>3, <1>4, <1>5 DEF IInv

(***************************************************************************)
(* The theorems.                                                           *)
(***************************************************************************)
LEMMA IInvInit == Init => IInv
<1>1. SUFFICES ASSUME Init PROVE IInv
  OBVIOUS
<1>2. TypeOK
  <2>1. -1 \in -1..MaxSerial /\ 0 \in 0..MaxSerial
    BY SerialAssumption
  <2> QED
    BY <1>1, <2>1 DEF Init, TypeOK, Content
<1>3. Covered /\ SerialNeverReused /\ AckedSurvives
  BY <1>1 DEF Init, Covered, SerialNeverReused, AckedSurvives
<1>4. ASSUME NEW s \in Stores PROVE Local(s)
  BY <1>1, <1>4, StoreAssumption DEF Init, Local, Owner, Allotted, Held, Loaded, Spared,
     Working, Committed
<1> QED
  BY <1>2, <1>3, <1>4 DEF IInv

LEMMA IInvStep == IInv /\ [Next]_vars => IInv'
<1>1. SUFFICES ASSUME IInv, [Next]_vars PROVE IInv'
  OBVIOUS
<1>2. CASE UNCHANGED vars
  <2>1. Covered' /\ SerialNeverReused' /\ AckedSurvives'
    BY <1>1, <1>2, SameDisk DEF vars, disk, ghosts
  <2>2. TypeOK'
    BY <1>1, <1>2 DEF IInv, TypeOK, vars, disk, memory, ghosts
  <2>3. ASSUME NEW t \in Stores PROVE Local(t)'
    BY <1>1, <1>2, <2>3, DiskFrame DEF vars, disk, memory, ghosts, Untouched
  <2> QED
    BY <2>1, <2>2, <2>3 DEF IInv
<1>3. ASSUME NEW s \in Stores, Acquire(s) \/ Outside(s) PROVE IInv'
  BY <1>1, <1>3, StepAcquire, StepCallInitialize, StepCallPublish, StepPinActive,
     StepUnpin, StepPrepare, StepClose, StepCrash DEF Outside
<1>4. ASSUME NEW s \in Stores, Initialising(s) PROVE IInv'
  BY <1>1, <1>4, StepEnsureIdentity, StepStartGenesis, StepFinishGenesis, StepScan,
     StepSweepCandidates, StepLoad, StepSwept, StepInstall, StepFails DEF Initialising
<1>5. ASSUME NEW s \in Stores, Reserving(s) PROVE IInv'
  BY <1>1, <1>5, StepReconcile, StepRepair, StepReserve, StepStartAppend,
     StepFinishAppend, StepAppendFails, StepMark, StepFails DEF Reserving
<1>6. ASSUME NEW s \in Stores, Publishing(s) PROVE IInv'
  BY <1>1, <1>6, StepBuildCopied, StepBuildPrepared,
     StepReleasePrepared, StepBuildFails, StepPromote, StepHold, StepCommit,
     StepCommitFails, StepSwap, StepAcknowledge, StepFails DEF Publishing
<1>7. ASSUME NEW s \in Stores, Cleaning(s) PROVE IInv'
  BY <1>1, <1>7, StepTryDelete, StepRetire DEF Cleaning
<1> QED
  BY <1>1, <1>2, <1>3, <1>4, <1>5, <1>6, <1>7 DEF Next, Work

(* The invariant holds in every reachable state.                             *)
THEOREM Invariance == Spec => []IInv
<1>1. Init => IInv
  BY IInvInit
<1>2. IInv /\ [Next]_vars => IInv'
  BY IInvStep
<1> QED
  BY <1>1, <1>2, PTL DEF Spec

(* No serial beyond the largest is computed, and every variable keeps its    *)
(* type.                                                                     *)
THEOREM TypeCorrect == Spec => []TypeOK
<1>1. IInv => TypeOK
  BY DEF IInv
<1> QED
  BY <1>1, Invariance, PTL

(* No two candidates are built under one serial.                             *)
THEOREM SerialsUnique == Spec => []SerialNeverReused
<1>1. IInv => SerialNeverReused
  BY DEF IInv
<1> QED
  BY <1>1, Invariance, PTL

(* A publication reported as a success stays, or a newer one does.           *)
THEOREM PublicationsSurvive == Spec => []AckedSurvives
<1>1. IInv => AckedSurvives
  BY DEF IInv
<1> QED
  BY <1>1, Invariance, PTL

(* What is leased or pinned keeps its files.                                 *)
THEOREM LeasesHold == Spec => []LeasedIntact
<1>1. IInv => LeasedIntact
  BY DEF IInv, Local, Held, LeasedIntact
<1> QED
  BY <1>1, Invariance, PTL

(* The next call can reconcile the journal, unless its first entry is torn.  *)
THEOREM AlwaysReopenable == Spec => []Reopenable
<1>1. IInv => Reopenable
  BY SerialAssumption DEF IInv, TypeOK, Covered, Reopenable, Reconcilable,
     JournalMissing, JournalInvalid
<1> QED
  BY <1>1, Invariance, PTL

(* Only the end of an Initialize opens a store.                              *)
LEMMA Opens ==
  ASSUME IInv, [Next]_vars, NEW s \in Stores, ~open[s], open'[s]
  PROVE  Install(s)
<1>1. CASE UNCHANGED vars
  BY <1>1 DEF vars, memory
<1>2. ASSUME NEW t \in Stores, Acquire(t) \/ Work(t) \/ Outside(t), open' # open
      PROVE  Install(t) \/ Close(t) \/ Crash(t)
  BY <1>2 DEF Work, Outside, Initialising, Reserving, Publishing, Cleaning, memory,
     Acquire, CallInitialize, CallPublish, PinActive, Unpin, Prepare, EnsureIdentity,
     IdentityFails, StartGenesis, FinishGenesis, GenesisFails, Scan, SweepCandidates,
     SweepFails, Load, LoadFails, Swept, Reconcile, ReconcileRefuses, Repair,
     RepairFails, Reserve, SerialsExhausted, StartAppend, FinishAppend, AppendFails,
     Mark, MarkFails, BuildCopied, BuildPrepared, ReleasePrepared, BuildFails, Promote, Hold, Commit, CommitFails,
     CheckFails, Swap, Acknowledge, TryDelete, Retire, Fail
<1>3. ASSUME NEW t \in Stores, Acquire(t) \/ Work(t) \/ Outside(t)
      PROVE  Install(s)
  <2>1. TypeOK /\ open' # open
    BY DEF IInv
  <2>2. Install(t) \/ Close(t) \/ Crash(t)
    BY <1>2, <1>3, <2>1
  <2>3. ~(Close(t) \/ Crash(t))
    BY <2>1 DEF Close, Crash, TypeOK
  <2>4. Install(t) => t = s
    BY <2>1 DEF Install, TypeOK
  <2> QED
    BY <2>2, <2>3, <2>4
<1> QED
  BY <1>1, <1>3 DEF Next

(* A store opens on a generation at least as new as every acknowledged one.  *)
THEOREM OpensOnNewest == Spec => OpensNewest
<1>1. ASSUME IInv, [Next]_vars, NEW s \in Stores, ~open[s], open'[s]
      PROVE  active'[s] >= acked
  <2>1. Install(s)
    BY <1>1, Opens
  <2>2. TypeOK /\ Local(s)
    BY <1>1 DEF IInv
  <2> QED
    BY <2>1, <2>2, SerialAssumption DEF Install, At, Local, Loaded, TypeOK
<1>2. IInv /\ [Next]_vars =>
        [\A s \in Stores : ~open[s] /\ open'[s] => active'[s] >= acked]_vars
  BY <1>1
<1> QED
  BY <1>2, Invariance, PTL DEF Spec, OpensNewest

(***************************************************************************)
(* What an Initialize leaves behind.  While it runs, nothing is without a  *)
(* marker but what is on its list or could not be deleted: nobody else can *)
(* add to the directory.                                                   *)
(***************************************************************************)
Clearing(s) ==
  /\ pc[s] # "reserve"
  /\ pc[s] \in {"append", "mark", "candidates", "load", "sweep", "retiring"} =>
       Uncommitted \subseteq doomed[s] \cup stuck[s]
  /\ pc[s] = "retire" => Uncommitted \subseteq stuck[s]
  /\ pc[s] \in {"load", "sweep", "retire", "retiring"} => cand = {}

Cleared(s) ==
  /\ mutex # s => lease[s] = 0
  /\ mutex = s /\ ~open[s] => Clearing(s)

CInv == IInv /\ \A s \in Stores : Cleared(s)

(* A step of one store, seen from another.                                   *)
LEMMA Aside ==
  ASSUME IInv, NEW s \in Stores, NEW t \in Stores, t # s,
         Acquire(s) \/ Work(s) \/ Outside(s)
  PROVE  /\ pc'[t] = pc[t] /\ open'[t] = open[t]
         /\ doomed'[t] = doomed[t] /\ lease'[t] = lease[t] /\ stuck'[t] = stuck[t]
         /\ mutex' = t <=> mutex = t
         /\ mutex = t => UNCHANGED <<gen, cand>>
<1>1. TypeOK
  BY DEF IInv
<1>2. CASE Acquire(s)
  BY <1>1, <1>2, StoreAssumption DEF Acquire, Goto, TypeOK, disk, memory, ghosts
<1>3. CASE Outside(s)
  BY <1>1, <1>3, StoreAssumption DEF Outside, CallInitialize, CallPublish, PinActive,
     Unpin, Prepare, Close, Crash, Goto, TypeOK, disk, memory, ghosts
<1>4. CASE Work(s)
  <2>1. mutex = s /\ mutex' \in {s, NoStore}
    BY <1>4, StoreAssumption DEF Work, Initialising, Reserving, Publishing, Cleaning, At,
       EnsureIdentity, IdentityFails, StartGenesis, FinishGenesis, GenesisFails, Scan,
       SweepCandidates, SweepFails, Load, LoadFails, Swept, Install, Reconcile,
       ReconcileRefuses, Repair, RepairFails, Reserve, SerialsExhausted, StartAppend,
       FinishAppend, AppendFails, Mark, MarkFails, BuildCopied, BuildPrepared,
       ReleasePrepared, BuildFails, Promote, Hold, Commit, CommitFails, CheckFails,
       Swap, Acknowledge, TryDelete, Retire, Fail, Return
  <2>2. mutex # t /\ mutex' # t
    BY <2>1, StoreAssumption
  <2>3. CASE Initialising(s)
    BY <1>1, <2>2, <2>3 DEF Initialising, EnsureIdentity, IdentityFails, StartGenesis,
       FinishGenesis, GenesisFails, Scan, SweepCandidates, SweepFails, Load, LoadFails,
       Swept, Install, Fail, Return, Goto, TypeOK, memory, ghosts
  <2>4. CASE Reserving(s)
    BY <1>1, <2>2, <2>4 DEF Reserving, Reconcile, Reconciled, ReconcileRefuses, Repair,
       RepairFails, Reserve, SerialsExhausted, StartAppend, FinishAppend, AppendFails,
       Mark, MarkFails, Fail, Return, Goto, TypeOK, memory, ghosts
  <2>5. CASE Publishing(s)
    BY <1>1, <2>2, <2>5 DEF Publishing, Issue, BuildCopied, BuildPrepared, ReleasePrepared,
       BuildFails, Promote, Hold, Commit, CommitFails, CheckFails, Swap, Acknowledge,
       Fail, Return, Goto, TypeOK, memory, ghosts
  <2>6. CASE Cleaning(s)
    BY <1>1, <2>2, <2>6 DEF Cleaning, TryDelete, Retire, Goto, TypeOK, ghosts
  <2> QED
    BY <1>4, <2>3, <2>4, <2>5, <2>6 DEF Work
<1> QED
  BY <1>2, <1>3, <1>4

(* A call that ends holds no lease, and needs no list.                       *)
LEMMA ClearedByReturn ==
  ASSUME TypeOK, NEW s \in Stores, mutex' = NoStore, lease'[s] = 0
  PROVE  Cleared(s)'
BY StoreAssumption DEF Cleared

LEMMA ClearedOutside ==
  ASSUME IInv, NEW s \in Stores, Cleared(s), Acquire(s) \/ Outside(s)
  PROVE  Cleared(s)'
<1>1. TypeOK /\ Owner(s)
  BY DEF IInv, Local
<1>2. CASE Acquire(s)
  BY <1>1, <1>2, StoreAssumption DEF Acquire, Goto, TypeOK, memory, disk, Cleared, Clearing,
     Owner, Working
<1>3. CASE Crash(s)
  <2>1. lease'[s] = 0 /\ mutex' # s
    BY <1>1, <1>3, StoreAssumption DEF Crash, TypeOK
  <2> QED
    BY <2>1 DEF Cleared
<1>4. CASE PinActive(s) \/ Unpin(s)
  BY <1>4 DEF PinActive, Unpin, disk, ghosts, Cleared, Clearing, Uncommitted
<1>5. CASE CallInitialize(s) \/ CallPublish(s) \/ Prepare(s) \/ Close(s)
  <2>1. mutex' # s /\ mutex # s /\ lease'[s] = lease[s]
    BY <1>1, <1>5 DEF Owner, Working, CallInitialize, CallPublish, Prepare, Close, memory
  <2> QED
    BY <2>1 DEF Cleared
<1> QED
  BY <1>2, <1>3, <1>4, <1>5 DEF Outside

LEMMA ClearedTryDelete ==
  ASSUME CInv, NEW s \in Stores, TryDelete(s)
  PROVE  Cleared(s)'
<1>1. TypeOK /\ Cleared(s)
  BY DEF CInv, IInv
<1>2. PICK n \in doomed[s] : TryDelete(s)!(n)
  BY DEF TryDelete
<1>3. mutex = s /\ pc[s] \in {"sweep", "retiring"}
  BY <1>2
<1>4. CASE open[s]
  BY <1>2, <1>3, <1>4 DEF Cleared
<1>5. CASE ~open[s]
  <2>1. Uncommitted \subseteq doomed[s] \cup stuck[s] /\ cand = {}
    BY <1>1, <1>3, <1>5 DEF Cleared, Clearing
  <2>2. Uncommitted' \subseteq doomed'[s] \cup stuck'[s]
    BY <1>1, <1>2, <2>1, Deleted, Listed
  <2> QED
    BY <1>2, <1>3, <2>1, <2>2 DEF Cleared, Clearing
<1> QED
  BY <1>4, <1>5

LEMMA ClearedInitialising ==
  ASSUME IInv, NEW s \in Stores, Cleared(s), Initialising(s)
  PROVE  Cleared(s)'
<1>1. TypeOK
  BY DEF IInv
<1>2. CASE \/ IdentityFails(s) \/ GenesisFails(s) \/ SweepFails(s) \/ LoadFails(s)
           \/ Install(s)
  <2>1. Return(s, "idle") \/ Return(s, "closed")
    BY <1>2 DEF IdentityFails, GenesisFails, SweepFails, LoadFails, Install, Fail
  <2>2. mutex' = NoStore /\ lease'[s] = 0
    BY <1>1, <2>1 DEF Return, TypeOK
  <2> QED
    BY <1>1, <2>2, ClearedByReturn
<1>3. CASE EnsureIdentity(s) \/ StartGenesis(s) \/ FinishGenesis(s)
  <2>1. pc'[s] \in {"reconcile", "genesis", "repair"} /\ mutex' = s
    BY <1>1, <1>3 DEF EnsureIdentity, StartGenesis, FinishGenesis, At, Goto, TypeOK
  <2> QED
    BY <2>1 DEF Cleared, Clearing
<1>4. CASE Scan(s)
  <2>1. /\ pc'[s] \in {"append", "candidates"} /\ mutex' = s
        /\ doomed'[s] = Uncommitted /\ Uncommitted' = Uncommitted
    BY <1>1, <1>4 DEF Scan, At, Goto, TypeOK, disk, Uncommitted
  <2> QED
    BY <2>1 DEF Cleared, Clearing
<1>5. CASE SweepCandidates(s)
  <2>1. /\ pc[s] = "candidates" /\ pc'[s] = "load" /\ mutex = s /\ mutex' = s
        /\ cand' = {} /\ UNCHANGED <<gen, doomed, stuck, open>>
    BY <1>1, <1>5 DEF SweepCandidates, At, Goto, TypeOK, ghosts
  <2> QED
    BY <2>1 DEF Cleared, Clearing, Uncommitted
<1>6. CASE Load(s)
  <2>1. /\ pc[s] = "load" /\ pc'[s] = "sweep" /\ mutex = s /\ mutex' = s
        /\ UNCHANGED <<cand, gen, doomed, stuck, open>>
    BY <1>1, <1>6 DEF Load, At, Goto, TypeOK, disk, ghosts
  <2> QED
    BY <2>1 DEF Cleared, Clearing, Uncommitted
<1>7. CASE Swept(s)
  <2>1. /\ pc[s] = "sweep" /\ pc'[s] = "retire" /\ mutex = s /\ mutex' = s
        /\ doomed[s] = {} /\ UNCHANGED <<cand, gen, stuck, open>>
    BY <1>1, <1>7 DEF Swept, At, Goto, TypeOK, disk, memory, ghosts
  <2> QED
    BY <2>1 DEF Cleared, Clearing, Uncommitted
<1> QED
  BY <1>2, <1>3, <1>4, <1>5, <1>6, <1>7 DEF Initialising

LEMMA ClearedReserving ==
  ASSUME IInv, NEW s \in Stores, Cleared(s), Reserving(s)
  PROVE  Cleared(s)'
<1>1. TypeOK
  BY DEF IInv
<1>2. CASE \/ ReconcileRefuses(s) \/ RepairFails(s) \/ SerialsExhausted(s)
           \/ AppendFails(s) \/ MarkFails(s)
  <2>1. Return(s, "idle") \/ Return(s, "closed")
    BY <1>2 DEF ReconcileRefuses, RepairFails, SerialsExhausted, AppendFails, MarkFails, Fail
  <2>2. mutex' = NoStore /\ lease'[s] = 0
    BY <1>1, <2>1 DEF Return, TypeOK
  <2> QED
    BY <1>1, <2>2, ClearedByReturn
<1>3. CASE Reconcile(s) \/ Repair(s)
  <2>1. /\ mutex' = s /\ open' = open
        /\ ~open[s] => pc'[s] \in {"genesis", "repair", "scan"}
    BY <1>1, <1>3 DEF Reconcile, Repair, Reconciled, At, Goto, TypeOK, memory
  <2> QED
    BY <2>1 DEF Cleared, Clearing
<1>4. CASE Reserve(s)
  <2>1. mutex = s /\ mutex' = s /\ pc[s] = "reserve" /\ open' = open
    BY <1>4 DEF Reserve, At
  <2> QED
    BY <2>1 DEF Cleared, Clearing
<1>5. CASE StartAppend(s) \/ FinishAppend(s) \/ Mark(s)
  <2>1. /\ mutex = s /\ mutex' = s /\ pc[s] \in {"append", "mark"}
        /\ ~open[s] => pc'[s] \in {"append", "mark", "candidates"}
        /\ UNCHANGED <<gen, cand, doomed, stuck, open>>
    BY <1>1, <1>5 DEF StartAppend, FinishAppend, Mark, At, Goto, TypeOK, memory, ghosts
  <2> QED
    BY <2>1 DEF Cleared, Clearing, Uncommitted
<1> QED
  BY <1>2, <1>3, <1>4, <1>5 DEF Reserving

LEMMA ClearedPublishing ==
  ASSUME IInv, NEW s \in Stores, Cleared(s), Publishing(s)
  PROVE  Cleared(s)'
<1>1. TypeOK /\ Allotted(s)
  BY DEF IInv, Local
<1>2. CASE BuildFails(s) \/ CommitFails(s) \/ CheckFails(s) \/ Acknowledge(s)
  <2>1. Return(s, "idle") \/ Return(s, "closed")
    BY <1>2 DEF BuildFails, CommitFails, CheckFails, Acknowledge, Fail
  <2>2. mutex' = NoStore /\ lease'[s] = 0
    BY <1>1, <2>1 DEF Return, TypeOK
  <2> QED
    BY <1>1, <2>2, ClearedByReturn
<1>3. CASE \/ BuildCopied(s) \/ BuildPrepared(s) \/ ReleasePrepared(s) \/ Promote(s)
           \/ Hold(s) \/ Commit(s) \/ Swap(s)
  <2>1. mutex' = s /\ open' = open /\ open[s]
    BY <1>1, <1>3 DEF BuildCopied, BuildPrepared, ReleasePrepared, Promote, Hold, Commit,
       Swap, At, Allotted, memory
  <2> QED
    BY <2>1 DEF Cleared
<1> QED
  BY <1>2, <1>3 DEF Publishing

LEMMA ClearedRetire ==
  ASSUME IInv, NEW s \in Stores, Cleared(s), Retire(s)
  PROVE  Cleared(s)'
<1>1. /\ pc[s] = "retire" /\ pc'[s] = "retiring" /\ mutex = s /\ mutex' = s
      /\ UNCHANGED <<gen, cand, stuck, open>>
  BY DEF IInv, TypeOK, Retire, At, Goto, disk, ghosts
<1> QED
  BY <1>1 DEF Cleared, Clearing, Uncommitted

LEMMA CInvStep == CInv /\ [Next]_vars => CInv'
<1>1. SUFFICES ASSUME CInv, [Next]_vars PROVE CInv'
  OBVIOUS
<1>2. IInv /\ IInv'
  BY <1>1, IInvStep DEF CInv
<1>3. CASE UNCHANGED vars
  <2>1. UNCHANGED <<gen, cand, mutex, pc, lease, open, doomed, stuck>>
    BY <1>3 DEF vars, disk, memory, ghosts
  <2> QED
    BY <1>1, <1>2, <2>1 DEF CInv, Cleared, Clearing, Uncommitted
<1>4. ASSUME NEW s \in Stores, Acquire(s) \/ Work(s) \/ Outside(s) PROVE CInv'
  <2>1. Cleared(s)'
    BY <1>1, <1>2, <1>4, ClearedOutside, ClearedInitialising, ClearedReserving,
       ClearedPublishing, ClearedTryDelete, ClearedRetire DEF CInv, Work, Cleaning
  <2>2. ASSUME NEW t \in Stores, t # s PROVE Cleared(t)'
    <3>1. /\ pc'[t] = pc[t] /\ open'[t] = open[t]
          /\ doomed'[t] = doomed[t] /\ lease'[t] = lease[t] /\ stuck'[t] = stuck[t]
          /\ mutex' = t <=> mutex = t
          /\ mutex = t => UNCHANGED <<gen, cand>>
      BY <1>2, <1>4, <2>2, Aside
    <3> QED
      BY <1>1, <3>1 DEF CInv, Cleared, Clearing, Uncommitted
  <2> QED
    BY <1>2, <2>1, <2>2 DEF CInv
<1> QED
  BY <1>1, <1>3, <1>4 DEF Next

(* Throughout an Initialize, whatever other processes do or leave behind,    *)
(* no directory without its marker escapes the list and the count of those   *)
(* that could not be deleted.                                                *)
THEOREM ListsAreComplete == Spec => []CInv
<1>1. Init => CInv
  BY IInvInit, StoreAssumption DEF Init, CInv, Cleared
<1> QED
  BY <1>1, CInvStep, PTL DEF Spec

(* A store that opens leaves no residue of the calls that failed or died     *)
(* before it but what it could not delete.                                   *)
LEMMA OpensClean ==
  ASSUME CInv, [Next]_vars, NEW s \in Stores, ~open[s], open'[s]
  PROVE  Uncommitted' \subseteq stuck[s] /\ cand' = {}
<1>1. Install(s)
  BY Opens DEF CInv
<1>2. mutex = s /\ pc[s] = "retiring" /\ doomed[s] = {} /\ UNCHANGED <<gen, cand>>
  BY <1>1 DEF Install, At, disk
<1> QED
  BY <1>2 DEF CInv, Cleared, Clearing, Uncommitted

(* The one step of a store that reaches for what another has prepared takes  *)
(* only what nobody has locked.                                              *)
LEMMA Spares ==
  ASSUME IInv, [Next]_vars, NEW s \in Stores, NEW t \in Stores, t # s,
         pc'[t] # pc[t], prepared[s] = "owned"
  PROVE  prepared'[s] = "owned"
<1>1. TypeOK
  BY DEF IInv
<1>2. PICK u \in Stores : Acquire(u) \/ Work(u) \/ Outside(u)
  BY DEF Next, vars
<1>3. u = t
  BY <1>2, Aside
<1>4. CASE SweepCandidates(t)
  BY <1>4 DEF SweepCandidates
<1>5. CASE ~SweepCandidates(t)
  BY <1>1, <1>2, <1>3, <1>5 DEF Work, Outside, Initialising, Reserving, Publishing, Cleaning,
     TypeOK, memory, Acquire, CallInitialize, CallPublish, PinActive, Unpin, Prepare,
     Close, Crash, EnsureIdentity, IdentityFails, StartGenesis, FinishGenesis,
     GenesisFails, Scan, SweepFails, Load, LoadFails, Swept, Install, Reconcile,
     ReconcileRefuses, Repair, RepairFails, Reserve, SerialsExhausted, StartAppend,
     FinishAppend, AppendFails, Mark, MarkFails, BuildCopied, BuildPrepared,
     ReleasePrepared, BuildFails, Promote, Hold, Commit, CommitFails, CheckFails, Swap,
     Acknowledge, TryDelete, Retire, Fail
<1> QED
  BY <1>4, <1>5

(* An Initialize opens the newest generation on a root without residue but   *)
(* for what it could not delete, and its cleanup spares what another process *)
(* has locked.                                                               *)
THEOREM OpensWellHolds == Spec => OpensWell
<1>1. CInv /\ [Next]_vars =>
        [\A s \in Stores : ~open[s] /\ open'[s] =>
           Uncommitted' \subseteq stuck[s] /\ cand' = {}]_vars
  BY OpensClean
<1>2. IInv /\ [Next]_vars =>
        [\A s, t \in Stores :
           (t # s /\ mutex = t /\ pc[t] # pc'[t]) =>
             (prepared[s] = "owned" => prepared'[s] = "owned")]_vars
  BY Spares
<1>3. Spec => CleanAfterOpen
  BY <1>1, ListsAreComplete, PTL DEF Spec, CleanAfterOpen
<1>4. Spec => SweepSpares
  BY <1>2, Invariance, PTL DEF Spec, SweepSpares
<1> QED
  BY <1>3, <1>4, OpensOnNewest DEF OpensWell

(***************************************************************************)
(* The store implements the register: reserving a serial takes it, the     *)
(* commit marker of a generation reaches it, and nothing else is seen.     *)
(***************************************************************************)
Taken == {n \in Serials : n <= journal}
Reached == {n \in Serials : \E m \in Committed : n <= m}

LEMMA RegisterStutter ==
  ASSUME Taken' = Taken, Reached' = Reached
  PROVE  UNCHANGED Register!vars
BY DEF Taken, Reached, Register!vars

LEMMA RegisterAppend ==
  ASSUME IInv, NEW s \in Stores, At(s, "append"), journal' = target[s],
         UNCHANGED gen
  PROVE  Register!Next
<1>1. TypeOK /\ Local(s)
  BY DEF IInv
<1>2. target[s] \in Serials /\ target[s] > journal /\ journal \in Int
  BY <1>1, SerialAssumption DEF TypeOK, Local, Allotted, At, Serials
<1>3. Reached' = Reached
  BY DEF Reached, Committed
<1>4. target[s] \notin Taken /\ Taken' = Register!UpTo(target[s])
      /\ Taken \subseteq Register!UpTo(target[s])
  BY <1>2, SerialAssumption DEF Taken, Register!UpTo, Serials
<1> QED
  BY <1>2, <1>3, <1>4 DEF Register!Next, Register!Take, Taken, Reached

LEMMA RegisterCommit ==
  ASSUME IInv, NEW s \in Stores, Commit(s)
  PROVE  Register!Next
<1>1. TypeOK /\ Local(s) /\ Covered
  BY DEF IInv
<1>2. target[s] \in Serials /\ target[s] = journal /\ gen[target[s]] = "complete"
  BY <1>1, SerialAssumption DEF TypeOK, Local, Allotted, At, Commit, Serials
<1>3. Committed' = Committed \cup {target[s]}
  BY <1>1, <1>2 DEF Committed, Commit, TypeOK
<1>4. Taken' = Taken /\ target[s] \in Taken
  BY <1>2, SerialAssumption DEF Taken, Commit, Serials
<1>5. target[s] \notin Reached
  <2>1. ASSUME NEW m \in Committed, target[s] <= m PROVE FALSE
    BY <1>1, <1>2, <2>1, SerialAssumption DEF Covered, Committed, Serials
  <2> QED
    BY <2>1 DEF Reached
<1>6. Reached' = Reached \cup Register!UpTo(target[s])
  BY <1>3, <1>2, SerialAssumption DEF Reached, Register!UpTo, Serials
<1> QED
  BY <1>2, <1>4, <1>5, <1>6 DEF Register!Next, Register!Commit, Taken, Reached

LEMMA RegisterTryDelete ==
  ASSUME IInv, NEW s \in Stores, TryDelete(s)
  PROVE  UNCHANGED Register!vars
<1>1. TypeOK /\ Local(s)
  BY DEF IInv
<1>2. PICK n \in doomed[s] : TryDelete(s)!(n)
  BY DEF TryDelete
<1>3. n \in Serials /\ Committed' \in {Committed, Committed \ {n}}
  BY <1>1, <1>2, Deleted DEF TypeOK
<1>4. \A m \in Committed : \E k \in Committed' : m <= k
  <2>1. \A m \in Committed : m \notin Committed' => \E k \in Committed' : m <= k
    BY <1>1, <1>3, SerialAssumption DEF Local, Spared, Committed, Serials
  <2>2. \A m \in Committed' : m <= m
    BY <1>3, SerialAssumption DEF Committed, Serials
  <2> QED
    BY <2>1, <2>2
<1>5. Committed' \subseteq Committed
  BY <1>3
<1>6. Reached' = Reached
  <2>1. ASSUME NEW n1 \in Serials, NEW m \in Committed, n1 <= m
        PROVE  \E k \in Committed' : n1 <= k
    <3>1. PICK k \in Committed' : m <= k
      BY <1>4
    <3>2. n1 \in Int /\ m \in Int /\ k \in Int
      BY <1>5, SerialAssumption DEF Serials, Committed
    <3> QED
      BY <2>1, <3>1, <3>2
  <2> QED
    BY <1>5, <2>1 DEF Reached
<1>7. Taken' = Taken
  BY <1>2 DEF Taken
<1> QED
  BY <1>6, <1>7, RegisterStutter

(* Every step of the store is a step of the register or none.                *)
LEMMA RegisterStep == IInv /\ [Next]_vars => [Register!Next]_(Register!vars)
<1>1. SUFFICES ASSUME IInv, [Next]_vars PROVE [Register!Next]_(Register!vars)
  OBVIOUS
<1>2. TypeOK
  BY <1>1 DEF IInv
<1>3. CASE UNCHANGED <<journal, gen>>
  BY <1>3, RegisterStutter DEF Taken, Reached, Committed
<1>4. ASSUME NEW s \in Stores, FinishGenesis(s) PROVE UNCHANGED Register!vars
  <2>1. journal = -1 /\ journal' = 0
    BY <1>1, <1>4 DEF IInv, Local, Allotted, At, FinishGenesis
  <2>2. Taken' = Taken
    BY <2>1, SerialAssumption DEF Taken, Serials
  <2> QED
    BY <1>4, <2>2, RegisterStutter DEF FinishGenesis, Reached, Committed
<1>5. ASSUME NEW s \in Stores, FinishAppend(s) \/ AppendFails(s)
      PROVE  [Register!Next]_(Register!vars)
  <2>1. At(s, "append") /\ UNCHANGED gen /\ (journal' = target[s] \/ UNCHANGED journal)
    BY <1>5 DEF FinishAppend, AppendFails
  <2> QED
    BY <1>1, <1>3, <2>1, RegisterAppend
<1>6. ASSUME NEW s \in Stores, Promote(s) PROVE UNCHANGED Register!vars
  <2>1. Committed' = Committed
    BY <1>2, <1>6 DEF Promote, Committed, TypeOK
  <2> QED
    BY <1>6, <2>1, RegisterStutter DEF Promote, Taken, Reached
<1>7. ASSUME NEW s \in Stores, CommitFails(s) PROVE UNCHANGED Register!vars
  <2>1. target[s] \in Serials /\ gen[target[s]] = "complete"
    BY <1>1, <1>2, <1>7, SerialAssumption DEF IInv, Local, Allotted, At, CommitFails,
       TypeOK, Serials
  <2>2. Committed' = Committed
    BY <1>2, <1>7, <2>1 DEF CommitFails, Committed, TypeOK
  <2> QED
    BY <1>7, <2>2, RegisterStutter DEF CommitFails, Taken, Reached
<1>8. ASSUME NEW s \in Stores, Acquire(s) \/ Work(s) \/ Outside(s)
      PROVE  \/ UNCHANGED <<journal, gen>>
             \/ FinishGenesis(s) \/ FinishAppend(s) \/ AppendFails(s)
             \/ Promote(s) \/ Commit(s) \/ CommitFails(s) \/ TryDelete(s)
  BY <1>8 DEF Work, Outside, Initialising, Reserving, Publishing, Cleaning, disk,
     Acquire, CallInitialize, CallPublish, PinActive, Unpin, Prepare, Close, Crash,
     EnsureIdentity, IdentityFails, StartGenesis, GenesisFails, Scan, SweepCandidates,
     SweepFails, Load, LoadFails, Swept, Install, Reconcile, ReconcileRefuses, Repair,
     RepairFails, Reserve, SerialsExhausted, StartAppend, Mark, MarkFails, BuildCopied, BuildPrepared, ReleasePrepared,
     BuildFails, Hold, CheckFails, Swap, Acknowledge, Retire
<1>9. CASE UNCHANGED vars
  BY <1>3, <1>9 DEF vars, disk
<1>10. ASSUME NEW s \in Stores, Acquire(s) \/ Work(s) \/ Outside(s)
       PROVE  [Register!Next]_(Register!vars)
  BY <1>1, <1>3, <1>4, <1>5, <1>6, <1>7, <1>8, <1>10, RegisterCommit, RegisterTryDelete
<1> QED
  BY <1>1, <1>9, <1>10 DEF Next

(* The generation store implements the generation register.                  *)
THEOREM ImplementsRegister == Spec => RegisterSpec
<1>1. Init => Register!Init
  BY SerialAssumption DEF Init, Register!Init, Committed, Serials
<1>2. IInv /\ [Next]_vars => [Register!Next]_(Register!vars)
  BY RegisterStep
<1> QED
  BY <1>1, <1>2, Invariance, PTL DEF Spec, RegisterSpec, Register!Spec

(* Whatever fails or dies, and however many processes share the root, the   *)
(* store keeps all it promises of its generations: the five in one.          *)
THEOREM GenerationsAreSafe == Spec => []GenerationsSafe
<1>1. TypeOK /\ SerialNeverReused /\ AckedSurvives /\ LeasedIntact /\ Reopenable
        => GenerationsSafe
  BY DEF GenerationsSafe
<1> QED
  BY <1>1, TypeCorrect, SerialsUnique, PublicationsSurvive, LeasesHold,
     AlwaysReopenable, PTL
=============================================================================
