----------------------------- MODULE GraphStore -----------------------------
(***************************************************************************)
(* The generation store of the native document graph                       *)
(* (DocumentGraphStore.cpp): one directory that several processes open,    *)
(* each through a GraphStore object, and in which each of them publishes   *)
(* document generations.                                                   *)
(*                                                                         *)
(* The directory holds the identity of the store, an append-only journal   *)
(* of reserved serials with a checkpoint beside it, candidate directories  *)
(* and generation directories.  A named mutex serialises Initialize and    *)
(* Publish; pinning the active generation takes no part in it.  A process  *)
(* may die between any two file operations: the files stay as they are and *)
(* the mutex is abandoned to the next waiter.                              *)
(*                                                                         *)
(* Bound: MaxSerial stands for the largest 64-bit serial.  Digests and the *)
(* store epoch are left out: the only faults here are a crash and a failed *)
(* call, and neither writes a foreign or a forged entry.                   *)
(***************************************************************************)
EXTENDS Integers, FiniteSets

CONSTANTS
  Stores,        \* the GraphStore objects, one per process
  NoStore,       \* the owner of a free allocator mutex
  MaxSerial      \* the largest serial

ASSUME SerialAssumption == MaxSerial \in Nat
ASSUME StoreAssumption  == NoStore \notin Stores

VARIABLES
  identity,      \* store-identity.hgs is in place
  journal,       \* last complete entry of reservations.hgj, -1 when there is none
  torn,          \* the journal ends with a piece of an entry
  checkpoint,    \* serial of high-water.hgr, -1 when there is none
  cand,          \* serials with a candidate directory
  gen,           \* what each generation directory holds
  mutex,         \* owner of the allocator mutex
  pc,            \* what each store is doing
  open,          \* the store has been initialised
  target,        \* serial that is being reserved or published
  active,        \* active_ of each store, 0 when it has none
  lease,         \* the generation the running call has leased, 0 for none
  lineage,       \* activeLineage, pinned by Publish before it has the mutex
  pins,          \* generations pinned by readers of the store
  doomed,        \* directories the running cleanup still has to delete
  prepared,      \* the prepared-* directory of the store's capture
  issued,        \* ghost: serials given to a candidate
  reissued,      \* ghost: a serial was given to a second candidate
  acked,         \* ghost: the newest serial a Publish returned success for
  stuck          \* ghost: directories the running cleanup could not delete

disk == <<identity, journal, torn, checkpoint, cand, gen>>
memory == <<open, target, active, lease, lineage, pins, doomed, prepared>>
ghosts == <<issued, reissued, acked, stuck>>
vars == <<disk, mutex, pc, memory, ghosts>>

Serials == 1..MaxSerial

Content == {"none", "partial", "complete", "committed"}

Working == {"identity", "reconcile", "genesis", "repair", "reserve", "append",
            "mark", "scan", "candidates", "load", "sweep", "retire",
            "retiring", "build", "release", "promote", "hold", "commit",
            "check"}

Committed == {n \in Serials : gen[n] = "committed"}

Leased(n) ==
  \E s \in Stores : n \in {active[s], lease[s], lineage[s]} \/ n \in pins[s]

(* The read half of ReconcileReservation: it takes a torn tail for the end   *)
(* of the journal, and refuses a journal without one whole entry and a       *)
(* checkpoint that is ahead.                                                 *)
JournalMissing == journal = -1 /\ ~torn
JournalInvalid == journal = -1 /\ torn
Reconcilable ==
  \/ JournalMissing /\ checkpoint = -1
  \/ journal # -1 /\ checkpoint <= journal

Init ==
  /\ identity = FALSE /\ journal = -1 /\ torn = FALSE /\ checkpoint = -1
  /\ cand = {} /\ gen = [n \in Serials |-> "none"]
  /\ mutex = NoStore
  /\ pc = [s \in Stores |-> "closed"]
  /\ open = [s \in Stores |-> FALSE]
  /\ target = [s \in Stores |-> 0]
  /\ active = [s \in Stores |-> 0]
  /\ lease = [s \in Stores |-> 0]
  /\ lineage = [s \in Stores |-> 0]
  /\ pins = [s \in Stores |-> {}]
  /\ doomed = [s \in Stores |-> {}]
  /\ prepared = [s \in Stores |-> "none"]
  /\ issued = {} /\ reissued = FALSE /\ acked = 0
  /\ stuck = [s \in Stores |-> {}]

At(s, where) == pc[s] = where /\ mutex = s
Goto(s, where) == pc' = [pc EXCEPT ![s] = where]

(* A call ends: the mutex goes, and with it what the call alone had leased.  *)
Return(s, where) ==
  /\ mutex' = NoStore
  /\ Goto(s, where)
  /\ target' = [target EXCEPT ![s] = 0]
  /\ lease' = [lease EXCEPT ![s] = 0]
  /\ lineage' = [lineage EXCEPT ![s] = 0]
  /\ doomed' = [doomed EXCEPT ![s] = {}]

(* An error return of Initialize leaves the store closed, one of Publish     *)
(* leaves it as it was.                                                      *)
Fail(s) ==
  /\ Return(s, IF open[s] THEN "idle" ELSE "closed")
  /\ UNCHANGED <<open, active, pins, prepared, ghosts>>

(***************************************************************************)
(* Initialize and Publish start alike: they wait for the mutex, then bring *)
(* the journal and the checkpoint together.                                *)
(***************************************************************************)
CallInitialize(s) ==
  /\ pc[s] = "closed"
  /\ Goto(s, "wait")
  /\ UNCHANGED <<disk, mutex, memory, ghosts>>

CallPublish(s) ==
  /\ pc[s] = "idle"
  /\ prepared[s] # "unowned"
  /\ lineage' = [lineage EXCEPT ![s] = active[s]]
  /\ Goto(s, "wait")
  /\ UNCHANGED <<disk, mutex, open, target, active, lease, pins, doomed,
                 prepared, ghosts>>

Acquire(s) ==
  /\ pc[s] = "wait" /\ mutex = NoStore
  /\ mutex' = s
  /\ Goto(s, IF open[s] THEN "reconcile" ELSE "identity")
  /\ UNCHANGED <<disk, memory, ghosts>>

EnsureIdentity(s) ==
  /\ At(s, "identity")
  /\ identity' = TRUE
  /\ Goto(s, "reconcile")
  /\ UNCHANGED <<journal, torn, checkpoint, cand, gen, mutex, memory, ghosts>>

IdentityFails(s) ==
  /\ At(s, "identity") /\ ~identity
  /\ Fail(s)
  /\ UNCHANGED disk

Reconciled(s) == Goto(s, IF open[s] THEN "reserve" ELSE "scan")

Reconcile(s) ==
  /\ At(s, "reconcile") /\ Reconcilable
  /\ torn' = FALSE
  /\ IF JournalMissing THEN Goto(s, "genesis")
     ELSE IF checkpoint < journal THEN Goto(s, "repair")
     ELSE Reconciled(s)
  /\ UNCHANGED <<identity, journal, checkpoint, cand, gen, mutex, memory,
                 ghosts>>

ReconcileRefuses(s) ==
  /\ At(s, "reconcile") /\ ~Reconcilable
  /\ Fail(s)
  /\ UNCHANGED disk

(* The genesis entry, in two steps: the file exists before it is whole.  A   *)
(* write that fails deletes the file; a crash in between does not.           *)
StartGenesis(s) ==
  /\ At(s, "genesis") /\ JournalMissing
  /\ torn' = TRUE
  /\ UNCHANGED <<identity, journal, checkpoint, cand, gen, mutex, pc, memory,
                 ghosts>>

FinishGenesis(s) ==
  /\ At(s, "genesis") /\ torn
  /\ journal' = 0 /\ torn' = FALSE
  /\ Goto(s, "repair")
  /\ UNCHANGED <<identity, checkpoint, cand, gen, mutex, memory, ghosts>>

GenesisFails(s) ==
  /\ At(s, "genesis")
  /\ torn' = FALSE
  /\ Fail(s)
  /\ UNCHANGED <<identity, journal, checkpoint, cand, gen>>

(* WriteCheckpoint puts the new checkpoint in place with one rename.         *)
Repair(s) ==
  /\ At(s, "repair")
  /\ checkpoint' = journal
  /\ Reconciled(s)
  /\ UNCHANGED <<identity, journal, torn, cand, gen, mutex, memory, ghosts>>

RepairFails(s) ==
  /\ At(s, "repair")
  /\ Fail(s)
  /\ UNCHANGED disk

(***************************************************************************)
(* PersistReservation: the entry is appended and flushed, then marked in   *)
(* the checkpoint.  A write that fails leaves a torn tail, a flush that    *)
(* fails a whole entry; the call fails in both cases.                      *)
(***************************************************************************)
\* Mutant: the serial is used before it is in the journal.
ReserveUnwritten(s) ==
  /\ At(s, "reserve") /\ journal < MaxSerial
  /\ target' = [target EXCEPT ![s] = journal + 1]
  /\ Goto(s, "build")
  /\ UNCHANGED <<disk, mutex, open, active, lease, lineage, pins, doomed,
                 prepared, ghosts>>

\* Mutant: the largest serial has a successor.
ReservePastEnd(s) ==
  /\ At(s, "reserve")
  /\ target' = [target EXCEPT ![s] = journal + 1]
  /\ Goto(s, "append")
  /\ UNCHANGED <<disk, mutex, open, active, lease, lineage, pins, doomed,
                 prepared, ghosts>>

Reserve(s) ==
  /\ At(s, "reserve") /\ journal < MaxSerial
  /\ target' = [target EXCEPT ![s] = journal + 1]
  /\ Goto(s, "append")
  /\ UNCHANGED <<disk, mutex, open, active, lease, lineage, pins, doomed,
                 prepared, ghosts>>

SerialsExhausted(s) ==
  /\ At(s, "reserve") /\ journal = MaxSerial
  /\ Fail(s)
  /\ UNCHANGED disk

\* Mutant: the checkpoint is written before the entry.
MarkAhead(s) ==
  /\ At(s, "append")
  /\ checkpoint' = target[s]
  /\ UNCHANGED <<identity, journal, torn, cand, gen, mutex, pc, memory, ghosts>>

StartAppend(s) ==
  /\ At(s, "append") /\ ~torn
  /\ torn' = TRUE
  /\ UNCHANGED <<identity, journal, checkpoint, cand, gen, mutex, pc, memory,
                 ghosts>>

FinishAppend(s) ==
  /\ At(s, "append") /\ torn
  /\ journal' = target[s] /\ torn' = FALSE
  /\ Goto(s, "mark")
  /\ UNCHANGED <<identity, checkpoint, cand, gen, mutex, memory, ghosts>>

AppendFails(s) ==
  /\ At(s, "append")
  /\ \/ UNCHANGED <<journal, torn>>
     \/ torn /\ journal' = target[s] /\ torn' = FALSE
  /\ Fail(s)
  /\ UNCHANGED <<identity, checkpoint, cand, gen>>

Mark(s) ==
  /\ At(s, "mark")
  /\ checkpoint' = journal
  /\ Goto(s, IF open[s] THEN "build" ELSE "candidates")
  /\ UNCHANGED <<identity, journal, torn, cand, gen, mutex, memory, ghosts>>

MarkFails(s) ==
  /\ At(s, "mark")
  /\ Fail(s)
  /\ UNCHANGED disk

(***************************************************************************)
(* Initialize.                                                             *)
(***************************************************************************)
(* What the scan of the generation directories finds: the newest valid       *)
(* serial, which the journal must cover, and the directories without a       *)
(* commit marker, which will be deleted.                                     *)
Uncommitted == {n \in Serials : gen[n] \in {"partial", "complete"}}

\* Mutant: a directory without its marker is not put on the list.
ScanKeepsResidue(s) ==
  /\ At(s, "scan")
  /\ doomed' = [doomed EXCEPT ![s] = {n \in Serials : gen[n] = "partial"}]
  /\ Goto(s, "candidates")
  /\ UNCHANGED <<disk, mutex, open, target, active, lease, lineage, pins,
                 prepared, ghosts>>

Scan(s) ==
  /\ At(s, "scan")
  /\ doomed' = [doomed EXCEPT ![s] = Uncommitted]
  /\ IF \E n \in Serials : gen[n] \in {"complete", "committed"} /\ n > journal
     THEN /\ \E n \in Serials :
               /\ gen[n] \in {"complete", "committed"}
               /\ \A m \in Serials :
                    gen[m] \in {"complete", "committed"} => m <= n
               /\ target' = [target EXCEPT ![s] = n]
          /\ Goto(s, "append")
     ELSE Goto(s, "candidates") /\ UNCHANGED target
  /\ UNCHANGED <<disk, mutex, open, active, lease, lineage, pins, prepared,
                 ghosts>>

(* CleanupCandidates: every candidate goes, and every prepared directory     *)
(* whose owner.lock nobody holds.                                            *)
\* Mutant: the owner of a prepared directory is not looked for.
SweepAllCandidates(s) ==
  /\ At(s, "candidates")
  /\ cand' = {}
  /\ prepared' = [t \in Stores |-> "none"]
  /\ Goto(s, "load")
  /\ UNCHANGED <<identity, journal, torn, checkpoint, gen, mutex, open, target,
                 active, lease, lineage, pins, doomed, ghosts>>

SweepCandidates(s) ==
  /\ At(s, "candidates")
  /\ cand' = {}
  /\ prepared' = [t \in Stores |->
                     IF prepared[t] = "unowned" THEN "none" ELSE prepared[t]]
  /\ Goto(s, "load")
  /\ UNCHANGED <<identity, journal, torn, checkpoint, gen, mutex, open, target,
                 active, lease, lineage, pins, doomed, ghosts>>

SweepFails(s) ==
  /\ At(s, "candidates")
  /\ Fail(s)
  /\ UNCHANGED disk

Newest(n) == n \in Committed /\ \A m \in Committed : m <= n

\* Mutant: any committed generation is loaded, not the newest.
LoadAny(s) ==
  /\ At(s, "load")
  /\ \/ Committed = {} /\ lease' = [lease EXCEPT ![s] = 0]
     \/ \E n \in Committed : lease' = [lease EXCEPT ![s] = n]
  /\ Goto(s, "sweep")
  /\ UNCHANGED <<disk, mutex, open, target, active, lineage, pins, doomed,
                 prepared, ghosts>>

Load(s) ==
  /\ At(s, "load")
  /\ \/ Committed = {} /\ lease' = [lease EXCEPT ![s] = 0]
     \/ \E n \in Serials : Newest(n) /\ lease' = [lease EXCEPT ![s] = n]
  /\ Goto(s, "sweep")
  /\ UNCHANGED <<disk, mutex, open, target, active, lineage, pins, doomed,
                 prepared, ghosts>>

LoadFails(s) ==
  /\ At(s, "load")
  /\ Fail(s)
  /\ UNCHANGED disk

(* TryDeleteGeneration answers nothing, and its callers go on whatever it     *)
(* did.  A directory that somebody has leased cannot be opened for deletion; *)
(* another loses its files, the marker last, and then its name.  Each of     *)
(* these calls may fail: the directory stays as it is, or without some of    *)
(* its files, which may be the marker alone.                                 *)
Remains(n) ==
  {gen} \cup IF gen[n] = "committed" /\ ~Leased(n)
             THEN {[gen EXCEPT ![n] = "complete"]} ELSE {}

\* Mutant: the leases are not probed.
TryDeleteLeased(s) ==
  \E n \in doomed[s] :
    /\ mutex = s /\ pc[s] \in {"sweep", "retiring"}
    /\ IF gen[n] \in {"complete", "committed"}
       THEN gen' = [gen EXCEPT ![n] = "partial"] /\ UNCHANGED doomed
       ELSE /\ gen' = [gen EXCEPT ![n] = "none"]
            /\ doomed' = [doomed EXCEPT ![s] = @ \ {n}]
    /\ UNCHANGED <<identity, journal, torn, checkpoint, cand, mutex, pc, open,
                   target, active, lease, lineage, pins, prepared, ghosts>>

\* Mutant: a directory that could not be deleted is tried again.
TryDeleteUntilGone(s) ==
  \E n \in doomed[s] :
    /\ mutex = s /\ pc[s] \in {"sweep", "retiring"}
    /\ ~Leased(n)
    /\ gen' = [gen EXCEPT ![n] = IF gen[n] \in {"complete", "committed"}
                                THEN "partial" ELSE "none"]
    /\ doomed' = IF gen[n] \in {"complete", "committed"} THEN doomed
                 ELSE [doomed EXCEPT ![s] = @ \ {n}]
    /\ UNCHANGED <<identity, journal, torn, checkpoint, cand, mutex, pc, open,
                   target, active, lease, lineage, pins, prepared, ghosts>>

TryDelete(s) ==
  \E n \in doomed[s] :
    /\ mutex = s /\ pc[s] \in {"sweep", "retiring"}
    /\ \/ /\ ~Leased(n) /\ gen[n] \in {"complete", "committed"}
          /\ gen' = [gen EXCEPT ![n] = "partial"]
          /\ UNCHANGED <<doomed, stuck>>
       \/ /\ ~Leased(n) /\ gen[n] \notin {"complete", "committed"}
          /\ gen' = [gen EXCEPT ![n] = "none"]
          /\ doomed' = [doomed EXCEPT ![s] = @ \ {n}]
          /\ UNCHANGED stuck
       \/ /\ gen' \in Remains(n)
          /\ doomed' = [doomed EXCEPT ![s] = @ \ {n}]
          /\ stuck' = [stuck EXCEPT ![s] = @ \cup {n}]
    /\ UNCHANGED <<identity, journal, torn, checkpoint, cand, mutex, pc, open,
                   target, active, lease, lineage, pins, prepared, issued,
                   reissued, acked>>

Swept(s) ==
  /\ At(s, "sweep") /\ doomed[s] = {}
  /\ Goto(s, "retire")
  /\ UNCHANGED <<disk, mutex, memory, ghosts>>

(* CleanupRetiredGenerations: unless every directory is a committed          *)
(* generation it deletes nothing; otherwise all but the newest.              *)
Retire(s) ==
  /\ At(s, "retire")
  /\ doomed' = [doomed EXCEPT ![s] =
       {n \in Committed : Uncommitted = {} /\ ~Newest(n)}]
  /\ Goto(s, "retiring")
  /\ UNCHANGED <<disk, mutex, open, target, active, lease, lineage, pins,
                 prepared, ghosts>>

(* The end of either call, once its cleanup has gone through the list.       *)
Install(s) ==
  /\ At(s, "retiring") /\ doomed[s] = {} /\ ~open[s]
  /\ open' = [open EXCEPT ![s] = TRUE]
  /\ active' = [active EXCEPT ![s] = lease[s]]
  /\ stuck' = [stuck EXCEPT ![s] = {}]
  /\ Return(s, "idle")
  /\ UNCHANGED <<disk, pins, prepared, issued, reissued, acked>>

Acknowledge(s) ==
  /\ At(s, "retiring") /\ doomed[s] = {} /\ open[s]
  /\ acked' = IF target[s] > acked THEN target[s] ELSE acked
  /\ stuck' = [stuck EXCEPT ![s] = {}]
  /\ Return(s, "idle")
  /\ UNCHANGED <<disk, open, active, pins, prepared, issued, reissued>>

(***************************************************************************)
(* Publish, once the serial is reserved.  Its two paths differ in where    *)
(* the files come from (copied from the capture, or linked from the        *)
(* prepared directory) and in what a failed promotion leaves behind.       *)
(***************************************************************************)
Issue(s) ==
  /\ cand' = cand \cup {target[s]}
  /\ issued' = issued \cup {target[s]}
  /\ reissued' = (reissued \/ target[s] \in issued)

BuildCopied(s) ==
  /\ At(s, "build") /\ prepared[s] # "owned"
  /\ Issue(s)
  /\ Goto(s, "promote")
  /\ UNCHANGED <<identity, journal, torn, checkpoint, gen, mutex, memory,
                 acked, stuck>>

BuildPrepared(s) ==
  /\ At(s, "build") /\ prepared[s] = "owned"
  /\ Issue(s)
  /\ Goto(s, "release")
  /\ UNCHANGED <<identity, journal, torn, checkpoint, gen, mutex, memory,
                 acked, stuck>>

(* The links are sealed, so the prepared directory is unlocked and deleted.  *)
ReleasePrepared(s) ==
  /\ At(s, "release")
  /\ prepared' = [prepared EXCEPT ![s] = "none"]
  /\ Goto(s, "promote")
  /\ UNCHANGED <<disk, mutex, open, target, active, lease, lineage, pins,
                 doomed, ghosts>>

(* Before the rename: the copying path abandons its candidate, the other     *)
(* leaves it, without an owner, to the next Initialize.  The prepared        *)
(* directory is lost to the caller in either case.                           *)
BuildFails(s) ==
  /\ At(s, "build") \/ At(s, "release") \/ At(s, "promote")
  /\ \/ prepared[s] # "owned" /\ cand' = cand \ {target[s]}
     \/ UNCHANGED cand
  /\ prepared' = [prepared EXCEPT ![s] = "none"]
  /\ Return(s, "idle")
  /\ UNCHANGED <<identity, journal, torn, checkpoint, gen, open, active, pins,
                 ghosts>>

Promote(s) ==
  /\ At(s, "promote") /\ gen[target[s]] = "none"
  /\ cand' = cand \ {target[s]}
  /\ gen' = [gen EXCEPT ![target[s]] = "complete"]
  /\ Goto(s, "hold")
  /\ UNCHANGED <<identity, journal, torn, checkpoint, mutex, memory, ghosts>>

\* Mutant: the generation is announced before its marker is written.
HoldUncommitted(s) ==
  /\ At(s, "hold")
  /\ lease' = [lease EXCEPT ![s] = target[s]]
  /\ Goto(s, "check")
  /\ UNCHANGED <<disk, mutex, open, target, active, lineage, pins, doomed,
                 prepared, ghosts>>

Hold(s) ==
  /\ At(s, "hold")
  /\ lease' = [lease EXCEPT ![s] = target[s]]
  /\ Goto(s, "commit")
  /\ UNCHANGED <<disk, mutex, open, target, active, lineage, pins, doomed,
                 prepared, ghosts>>

(* The commit marker counts once it is written, flushed and read-only.       *)
Commit(s) ==
  /\ At(s, "commit")
  /\ gen' = [gen EXCEPT ![target[s]] = "committed"]
  /\ Goto(s, "check")
  /\ UNCHANGED <<identity, journal, torn, checkpoint, cand, mutex, memory,
                 ghosts>>

(* No lease or no marker: the lease goes first, then the directory, of which *)
(* a failed deletion leaves a part.                                          *)
CommitFails(s) ==
  /\ At(s, "hold") \/ At(s, "commit")
  /\ \E left \in {"none", "partial"} :
       gen' = [gen EXCEPT ![target[s]] = left]
  /\ Fail(s)
  /\ UNCHANGED <<identity, journal, torn, checkpoint, cand>>

CheckFails(s) ==
  /\ At(s, "check")
  /\ Fail(s)
  /\ UNCHANGED disk

Swap(s) ==
  /\ At(s, "check")
  /\ active' = [active EXCEPT ![s] = target[s]]
  /\ lease' = [lease EXCEPT ![s] = 0]
  /\ lineage' = [lineage EXCEPT ![s] = 0]
  /\ Goto(s, "retire")
  /\ UNCHANGED <<disk, mutex, open, target, pins, doomed, prepared, ghosts>>

(***************************************************************************)
(* What happens without the mutex: readers, the capture that prepares a    *)
(* directory, the end of a store object and the death of its process.      *)
(***************************************************************************)
PinActive(s) ==
  /\ open[s] /\ active[s] # 0
  /\ pins' = [pins EXCEPT ![s] = @ \cup {active[s]}]
  /\ UNCHANGED <<disk, mutex, pc, open, target, active, lease, lineage, doomed,
                 prepared, ghosts>>

Unpin(s) ==
  /\ \E n \in pins[s] : pins' = [pins EXCEPT ![s] = @ \ {n}]
  /\ UNCHANGED <<disk, mutex, pc, open, target, active, lease, lineage, doomed,
                 prepared, ghosts>>

(* The spool makes the directory first and its owner.lock afterwards.        *)
Prepare(s) ==
  /\ pc[s] = "idle"
  /\ \/ prepared[s] = "none" /\ prepared' = [prepared EXCEPT ![s] = "unowned"]
     \/ prepared[s] = "unowned" /\ prepared' = [prepared EXCEPT ![s] = "owned"]
     \/ prepared[s] # "none" /\ prepared' = [prepared EXCEPT ![s] = "none"]
  /\ UNCHANGED <<disk, mutex, pc, open, target, active, lease, lineage, pins,
                 doomed, ghosts>>

Close(s) ==
  /\ pc[s] = "idle"
  /\ Goto(s, "closed")
  /\ open' = [open EXCEPT ![s] = FALSE]
  /\ active' = [active EXCEPT ![s] = 0]
  /\ prepared' = [prepared EXCEPT ![s] = "none"]
  /\ UNCHANGED <<disk, mutex, target, lease, lineage, pins, doomed, ghosts>>

Crash(s) ==
  /\ pc[s] # "closed" \/ pins[s] # {}
  /\ mutex' = IF mutex = s THEN NoStore ELSE mutex
  /\ Goto(s, "closed")
  /\ open' = [open EXCEPT ![s] = FALSE]
  /\ target' = [target EXCEPT ![s] = 0]
  /\ active' = [active EXCEPT ![s] = 0]
  /\ lease' = [lease EXCEPT ![s] = 0]
  /\ lineage' = [lineage EXCEPT ![s] = 0]
  /\ pins' = [pins EXCEPT ![s] = {}]
  /\ doomed' = [doomed EXCEPT ![s] = {}]
  /\ prepared' = [prepared EXCEPT ![s] = "none"]
  /\ stuck' = [stuck EXCEPT ![s] = {}]
  /\ UNCHANGED <<disk, issued, reissued, acked>>

Initialising(s) ==
  \/ EnsureIdentity(s) \/ IdentityFails(s)
  \/ StartGenesis(s) \/ FinishGenesis(s) \/ GenesisFails(s)
  \/ Scan(s) \/ SweepCandidates(s) \/ SweepFails(s)
  \/ Load(s) \/ LoadFails(s) \/ Swept(s) \/ Install(s)

Reserving(s) ==
  \/ Reconcile(s) \/ ReconcileRefuses(s) \/ Repair(s) \/ RepairFails(s)
  \/ Reserve(s) \/ SerialsExhausted(s)
  \/ StartAppend(s) \/ FinishAppend(s) \/ AppendFails(s)
  \/ Mark(s) \/ MarkFails(s)

Publishing(s) ==
  \/ BuildCopied(s) \/ BuildPrepared(s) \/ ReleasePrepared(s)
  \/ BuildFails(s) \/ Promote(s) \/ Hold(s) \/ Commit(s) \/ CommitFails(s)
  \/ CheckFails(s) \/ Swap(s) \/ Acknowledge(s)

Cleaning(s) == TryDelete(s) \/ Retire(s)

Work(s) == Initialising(s) \/ Reserving(s) \/ Publishing(s) \/ Cleaning(s)

Outside(s) ==
  \/ CallInitialize(s) \/ CallPublish(s)
  \/ PinActive(s) \/ Unpin(s) \/ Prepare(s) \/ Close(s) \/ Crash(s)

Next == \E s \in Stores : Acquire(s) \/ Work(s) \/ Outside(s)

(* File operations end, and Windows hands an abandoned or released mutex to  *)
(* one of its waiters in turn.                                               *)
Fairness == \A s \in Stores : WF_vars(Work(s)) /\ SF_vars(Acquire(s))

Spec == Init /\ [][Next]_vars /\ Fairness

-----------------------------------------------------------------------------
(* Properties                                                                *)

(* Every variable has its type: in particular no serial beyond the largest   *)
(* is ever computed.                                                         *)
TypeOK ==
  /\ identity \in BOOLEAN /\ torn \in BOOLEAN
  /\ journal \in -1..MaxSerial /\ checkpoint \in -1..MaxSerial
  /\ cand \subseteq Serials /\ gen \in [Serials -> Content]
  /\ mutex \in Stores \cup {NoStore}
  /\ pc \in [Stores -> Working \cup {"closed", "wait", "idle"}]
  /\ open \in [Stores -> BOOLEAN]
  /\ target \in [Stores -> 0..MaxSerial]
  /\ active \in [Stores -> 0..MaxSerial]
  /\ lease \in [Stores -> 0..MaxSerial]
  /\ lineage \in [Stores -> 0..MaxSerial]
  /\ pins \in [Stores -> SUBSET Serials]
  /\ doomed \in [Stores -> SUBSET Serials]
  /\ prepared \in [Stores -> {"none", "unowned", "owned"}]
  /\ issued \subseteq Serials /\ reissued \in BOOLEAN
  /\ acked \in 0..MaxSerial
  /\ stuck \in [Stores -> SUBSET Serials]

(* "Reserve N before candidate mutation; every later failure consumes N      *)
(* permanently": however calls fail and processes die, no two candidates     *)
(* are built under one serial.                                               *)
SerialNeverReused == ~reissued

(* A generation whose publication was reported as a success is there, or a   *)
(* newer one is, whatever crashes and cleanups follow.                       *)
AckedSurvives == acked # 0 => \E n \in Committed : n >= acked

(* Nothing that a store or a reader has leased or pinned loses a file to the *)
(* cleanup of another process.                                               *)
LeasedIntact ==
  \A s \in Stores :
    /\ active[s] # 0 => active[s] \in Committed
    /\ lineage[s] # 0 => lineage[s] \in Committed
    /\ pins[s] \subseteq Committed

(* Whenever nobody is in the critical section the next call can reconcile    *)
(* the journal with its checkpoint.  The one exception is the death of the   *)
(* process that was writing the very first entry.                            *)
Reopenable == mutex = NoStore => Reconcilable \/ JournalInvalid

(* A store opens on a generation at least as new as every publication that   *)
(* was reported as a success before.                                         *)
OpensNewest ==
  [][\A s \in Stores : ~open[s] /\ open'[s] => active'[s] >= acked]_vars

(* A successful Initialize leaves nothing of the calls that failed or died    *)
(* before it, which would keep every later cleanup from retiring anything,   *)
(* but for the directories whose deletion has failed in this very call: none *)
(* is forgotten, and nobody makes another while it cleans up.                *)
CleanAfterOpen ==
  [][\A s \in Stores : ~open[s] /\ open'[s] =>
       Uncommitted' \subseteq stuck[s] /\ cand' = {}]_vars

(* The cleanup of one process never takes away the prepared directory that   *)
(* the capture of another has locked.                                        *)
SweepSpares ==
  [][\A s, t \in Stores :
       (t # s /\ mutex = t /\ pc[t] # pc'[t]) =>
         (prepared[s] = "owned" => prepared'[s] = "owned")]_vars

(* Every Initialize and every Publish returns, although each waits for the   *)
(* mutex without a timeout and a holder may die with it.                     *)
CallsReturn ==
  \A s \in Stores : pc[s] \notin {"closed", "idle"} ~> pc[s] \in {"closed", "idle"}

(* The store keeps the promise of a generation register.                     *)
Register == INSTANCE GenerationRegister WITH
  taken <- {n \in Serials : n <= journal},
  reached <- {n \in Serials : \E m \in Committed : n <= m}

RegisterSpec == Register!Spec

(* What the store promises of its generations in every state: no serial is   *)
(* used twice, what was acknowledged or leased keeps its files, and the next *)
(* call can reconcile what it finds.                                         *)
GenerationsSafe ==
  /\ TypeOK
  /\ SerialNeverReused
  /\ AckedSurvives
  /\ LeasedIntact
  /\ Reopenable

(* An Initialize opens the newest generation on a root without residue but   *)
(* for what it could not delete, and its cleanup spares what another process *)
(* has locked.                                                               *)
OpensWell == OpensNewest /\ CleanAfterOpen /\ SweepSpares

=============================================================================
