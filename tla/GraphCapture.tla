----------------------------- MODULE GraphCapture -----------------------------
(***************************************************************************)
(* The capture of a document into a graph: CaptureDocumentGraphToStore     *)
(* (OfficialApiCapability.cpp), the coordinator it runs                    *)
(* (DocumentGraphCapture.cpp) and the spool the second pass fills          *)
(* (DocumentGraphCaptureSpool.cpp).                                        *)
(*                                                                         *)
(* The document is read twice.  Before the first pass and after each one   *)
(* the coordinator notes what the document says and where its caret is;    *)
(* every reader moves the caret, and after every reader and every pass it  *)
(* is put back.  A thread of its own builds the artifact of the first      *)
(* pass while the second one is read.  The graph is published only if both *)
(* artifacts are equal.  Between two calls of the coordinator the user may *)
(* edit the document or move the caret.  A reader that straddles an edit   *)
(* stands for two readers.                                                 *)
(*                                                                         *)
(* One capture is modelled: gCaptureLane admits no second one.  The        *)
(* publication itself is GraphStore; here it succeeds, or fails before or  *)
(* after it has taken over the prepared files.                             *)
(*                                                                         *)
(* Bounds: MaxEdits edits after the baseline; the caret is moved once.     *)
(***************************************************************************)
EXTENDS Integers, Sequences

CONSTANTS
  Contents,      \* what a document can say
  Readers,       \* the readers of a pass
  MaxEdits

ASSUME CaptureAssumption == Readers \in Nat \ {0} /\ MaxEdits \in Nat

Passes == 0..1
None == <<>>

VARIABLES
  doc,           \* what the document says
  caret,         \* "user" where its user left it, "begin", "reader", "moved"
  edits,         \* edits since the baseline
  restorable,    \* the selection the user left can be restored
  cancel,        \* the events of a client: "absent", "armed", "requested"
  observed,      \* cancellationObserved
  pc,            \* the step the capture takes next
  pass,
  baseline,      \* what the document said and where the caret was
  payloads,      \* what the readers of this pass have read
  status,        \* of this pass
  deferred,      \* of the second pass, while the first is built
  artifact,      \* by pass, what was detached, None if nothing
  worker,        \* the thread: "none", "building", "built", "failed"
  spools,        \* passes whose spool the session retains
  prepared,      \* the prepared directory is in the root of the store
  owned,         \* the prepared candidate holds its owner.lock
  spoolRoot,     \* the directory of the capture exists
  session,       \* "none", "open", "ended"
  published,     \* the artifact the store has published
  result         \* the status the caller gets

hangul  == <<doc, caret>>
user    == <<edits, restorable>>
event   == <<cancel, observed>>
read    == <<payloads, status>>
built   == <<artifact, worker, deferred>>
storage == <<spools, prepared, owned, spoolRoot>>
end     == <<session, published, result>>
captureVars ==
  <<hangul, user, event, pc, pass, baseline, read, built, storage, end>>

CaptureInit ==
  /\ doc \in Contents /\ caret = "user"
  /\ edits = 0 /\ restorable \in BOOLEAN
  /\ cancel \in {"absent", "armed"} /\ observed = FALSE
  /\ pc = "signal" /\ pass = 0 /\ baseline = None
  /\ payloads = <<>> /\ status = "Complete" /\ deferred = "Complete"
  /\ artifact = [p \in Passes |-> None] /\ worker = "none"
  /\ spools = {} /\ prepared = FALSE /\ owned = FALSE /\ spoolRoot = TRUE
  /\ session = "none" /\ published = None /\ result = "none"

(***************************************************************************)
(* The user, and a client that asks for the capture to be cancelled.       *)
(***************************************************************************)
EditDocument ==
  /\ baseline # None /\ pc # "ended" /\ edits < MaxEdits
  /\ doc' \in Contents \ {doc} /\ edits' = edits + 1
  /\ UNCHANGED <<caret, restorable, event, pc, pass, baseline, read, built, storage, end>>

MoveCaret ==
  /\ pc # "ended" /\ caret # "moved" /\ caret' = "moved"
  /\ UNCHANGED <<doc, user, event, pc, pass, baseline, read, built, storage, end>>

RequestCancel ==
  /\ cancel = "armed" /\ cancel' = "requested"
  /\ UNCHANGED <<hangul, user, observed, pc, pass, baseline, read, built, storage, end>>

(***************************************************************************)
(* If the events of a client are there it is told, and has 30 seconds to   *)
(* ask for the cancellation.  Later requests are not looked at.            *)
(***************************************************************************)
Signal ==
  /\ pc = "signal"
  /\ pc' = IF cancel = "absent" THEN "begin" ELSE "checkpoint"
  /\ UNCHANGED <<hangul, user, event, pass, baseline, read, built, storage, end>>

SignalFails ==
  /\ pc = "signal" /\ cancel # "absent"
  /\ pc' = "ended" /\ result' = "IncompleteCapture"
  /\ UNCHANGED <<hangul, user, event, pass, baseline, read, built, storage, session, published>>

\* Mutant: the wait for the client has no limit.
CheckpointWaits ==
  /\ pc = "checkpoint" /\ cancel = "requested"
  /\ observed' = TRUE /\ pc' = "ended" /\ result' = "Cancelled" /\ spoolRoot' = FALSE
  /\ UNCHANGED <<hangul, user, cancel, pass, baseline, read, built, spools, prepared,
                 owned, session, published>>

Checkpoint ==
  /\ pc = "checkpoint"
  /\ IF cancel = "requested"
       THEN observed' = TRUE /\ pc' = "ended" /\ result' = "Cancelled" /\ spoolRoot' = FALSE
       ELSE pc' = "begin" /\ UNCHANGED <<observed, result, spoolRoot>>
  /\ UNCHANGED <<hangul, user, cancel, pass, baseline, read, built, spools, prepared,
                 owned, session, published>>

\* Mutant: the event is looked at again during the capture.
CancelledNow == cancel = "requested"

(* CoordinatorCancelled: what the checkpoint has seen.                       *)
Cancelled == observed

(***************************************************************************)
(* abortSession: the spools are reset and the session ends.  A spool whose *)
(* files somebody still holds, or that the system does not let go, turns   *)
(* whatever the status was into CleanupFailed.                             *)
(***************************************************************************)
\* Mutant: the spool of the second pass is kept.
ResetFirst ==
  /\ spools' = spools \ {0} /\ prepared' = prepared

ResetSpools ==
  /\ spools' = {}
  /\ \/ prepared' = prepared
     \/ 1 \in spools /\ ~owned /\ prepared' = FALSE

Abort(s) ==
  /\ ResetSpools
  /\ result' = IF 1 \in spools /\ prepared' THEN "CleanupFailed" ELSE s
  /\ payloads' = <<>> /\ session' = "ended" /\ pc' = "cleanup"
  /\ UNCHANGED <<hangul, user, event, pass, baseline, status, built, owned, spoolRoot, published>>

(* A pass that cannot go on: the first one ends the capture, the second     *)
(* waits for what the thread makes of the first.                            *)
\* Mutant: the second pass ends the capture as well, with the thread at work.
GiveUpAtOnce(s) == Abort(s)

GiveUp(s) ==
  \/ pass = 0 /\ Abort(s)
  \/ /\ pass = 1 /\ deferred' = s /\ pc' = "join"
     /\ UNCHANGED <<hangul, user, event, pass, baseline, read, artifact, worker, storage, end>>

(***************************************************************************)
(* beginSession, and the baseline: CaptureCoordinatorState takes the caret *)
(* to the beginning of the document if the selection cannot be restored.   *)
(***************************************************************************)
BeginSession ==
  /\ pc = "begin" /\ session' = "open" /\ pc' = "baseline"
  /\ UNCHANGED <<hangul, user, event, pass, baseline, read, built, storage, published, result>>

Settled == IF caret = "user" /\ ~restorable THEN {"user", "begin"} ELSE {caret}

BaselineFails ==
  /\ pc = "baseline" /\ Abort("IncompleteCapture")

Baseline ==
  /\ pc = "baseline"
  /\ caret' \in Settled /\ baseline' = <<doc, caret'>> /\ pc' = "pass"
  /\ UNCHANGED <<doc, user, event, pass, read, built, storage, end>>

BeginAttempt ==
  /\ pc = "pass" /\ payloads' = <<>>
  /\ status' = IF Cancelled THEN "Cancelled" ELSE "Complete"
  /\ pc' = IF Cancelled THEN "passed" ELSE "read"
  /\ UNCHANGED <<hangul, user, event, pass, baseline, built, storage, end>>

(***************************************************************************)
(* RunQualifiedReader: it moves the caret, reads, and puts the caret back. *)
(* The first one that fails ends the reading.                              *)
(***************************************************************************)
Reader ==
  /\ pc = "read" /\ Len(payloads) < Readers /\ ~Cancelled
  /\ payloads' = Append(payloads, doc) /\ caret' = baseline[2]
  /\ UNCHANGED <<doc, user, event, pc, pass, baseline, status, built, storage, end>>

ReaderFails ==
  /\ pc = "read" /\ Len(payloads) < Readers
  /\ status' = IF Cancelled THEN "Cancelled" ELSE "IncompleteCapture"
  /\ caret' \in (IF Cancelled THEN {caret} ELSE {baseline[2], "reader"})
  /\ pc' = "restore"
  /\ UNCHANGED <<doc, user, event, pass, baseline, payloads, built, storage, end>>

\* Mutant: what was read so far is detached.
DetachEarly ==
  /\ pc = "read"
  /\ artifact' = [artifact EXCEPT ![pass] = payloads] /\ payloads' = <<>>
  /\ pc' = "restore"
  /\ UNCHANGED <<hangul, user, event, pass, baseline, status, worker, deferred, storage, end>>

(* FinishCoordinatorAttempt: what was read leaves the session.               *)
Detach ==
  /\ pc = "read" /\ Len(payloads) = Readers
  /\ artifact' = [artifact EXCEPT ![pass] = payloads] /\ payloads' = <<>>
  /\ pc' = "restore"
  /\ UNCHANGED <<hangul, user, event, pass, baseline, status, worker, deferred, storage, end>>

DetachFails ==
  /\ pc = "read" /\ Len(payloads) = Readers
  /\ status' = "IncompleteCapture" /\ pc' = "restore"
  /\ UNCHANGED <<hangul, user, event, pass, baseline, payloads, built, storage, end>>

(***************************************************************************)
(* Whatever came of a pass, the caret is put back and the state of the     *)
(* document compared with the baseline.                                    *)
(***************************************************************************)
\* Mutant: only a pass that was read to its end puts the caret back.
RestoreIfComplete ==
  /\ pc = "restore" /\ pc' = "recapture"
  /\ caret' = IF status = "Complete" THEN baseline[2] ELSE caret
  /\ UNCHANGED <<doc, user, event, pass, baseline, read, built, storage, end>>

Restore ==
  /\ pc = "restore" /\ caret' = baseline[2] /\ pc' = "recapture"
  /\ UNCHANGED <<doc, user, event, pass, baseline, read, built, storage, end>>

RestoreFails ==
  /\ pc = "restore" /\ status' = "RestoreFailed" /\ pc' = "passed"
  /\ caret' \in {caret, "reader"}
  /\ UNCHANGED <<doc, user, event, pass, baseline, payloads, built, storage, end>>

\* Mutant: only the caret is compared.
RecaptureCaret ==
  /\ pc = "recapture" /\ caret' \in Settled /\ pc' = "passed"
  /\ status' = IF caret' = baseline[2] THEN status ELSE "StateChanged"
  /\ UNCHANGED <<doc, user, event, pass, baseline, payloads, built, storage, end>>

Recapture ==
  /\ pc = "recapture" /\ caret' \in Settled /\ pc' = "passed"
  /\ status' = IF <<doc, caret'>> = baseline THEN status ELSE "StateChanged"
  /\ UNCHANGED <<doc, user, event, pass, baseline, payloads, built, storage, end>>

RecaptureFails ==
  /\ pc = "recapture" /\ status' = "RestoreFailed" /\ pc' = "passed"
  /\ UNCHANGED <<hangul, user, event, pass, baseline, payloads, built, storage, end>>

PassFailed == pc = "passed" /\ status # "Complete" /\ GiveUp(status)

StartWorker ==
  /\ pc = "passed" /\ status = "Complete" /\ pass = 0
  /\ worker' = "building" /\ pass' = 1 /\ pc' = "pass"
  /\ UNCHANGED <<hangul, user, event, baseline, read, artifact, deferred, storage, end>>

StartWorkerFails ==
  /\ pc = "passed" /\ status = "Complete" /\ pass = 0 /\ Abort("IncompleteCapture")

PassesRead ==
  /\ pc = "passed" /\ status = "Complete" /\ pass = 1 /\ pc' = "join"
  /\ UNCHANGED <<hangul, user, event, pass, baseline, read, built, storage, end>>

(* The thread builds the artifact of the first pass, in memory.              *)
WorkerEnds ==
  /\ worker = "building" /\ worker' \in {"built", "failed"}
  /\ UNCHANGED <<hangul, user, event, pc, pass, baseline, read, artifact, deferred, storage, end>>

(***************************************************************************)
(* abortArtifacts: the first count owners are retained so that the session *)
(* resets their spools; an owner that was never detached fails.            *)
(***************************************************************************)
AbortArtifacts(s, count) ==
  /\ spools' = spools \cup {p \in 0..(count - 1) : artifact[p] # None}
  /\ status' = IF \E p \in 0..(count - 1) : artifact[p] = None THEN "CleanupFailed" ELSE s
  /\ pc' = "abort"
  /\ UNCHANGED <<hangul, user, event, pass, baseline, payloads, built, prepared, owned,
                 spoolRoot, end>>

AbortRetained == pc = "abort" /\ Abort(status)

(* The failure of the first pass comes before that of the second.            *)
Joined == pc = "join" /\ worker # "building"
WorkerFailed == Joined /\ worker = "failed" /\ AbortArtifacts("IncompleteCapture", 1)
DeferredFailed == Joined /\ worker = "built" /\ deferred # "Complete" /\ AbortArtifacts(deferred, 2)
ReplayFails ==
  Joined /\ worker = "built" /\ deferred = "Complete" /\ AbortArtifacts("IncompleteCapture", 2)

\* Mutant: a second pass that was detached is built whatever came of it.
ReplayDeferred == worker = "built" /\ artifact[1] # None

Replays == worker = "built" /\ deferred = "Complete"

(***************************************************************************)
(* The second artifact is built on the thread of the capture, in a         *)
(* prepared directory of the store.  The result, which lives until the     *)
(* capture returns, shares the candidate and so its owner.lock.            *)
(***************************************************************************)
BuildSecond ==
  /\ Joined /\ Replays
  /\ prepared' = TRUE /\ owned' = TRUE /\ spools' = Passes /\ pc' = "compare"
  /\ UNCHANGED <<hangul, user, event, pass, baseline, read, built, spoolRoot, end>>

BuildSecondFails ==
  /\ Joined /\ Replays
  /\ prepared' \in BOOLEAN /\ spools' = Passes
  /\ status' = "IncompleteCapture" /\ pc' = "abort"
  /\ UNCHANGED <<hangul, user, event, pass, baseline, payloads, built, owned, spoolRoot, end>>

\* Mutant: the artifacts are not compared.
NoMismatch == FALSE

Mismatch == artifact[0] # artifact[1]

(* The second disjunct: the artifacts cannot be kept for a diagnosis.        *)
Differ ==
  /\ pc = "compare" /\ Mismatch
  /\ Abort("TraversalMismatch") \/ Abort("IncompleteCapture")

(* PrepareCoordinatorPublication resets the first spool, which has no files. *)
Equal ==
  /\ pc = "compare" /\ ~Mismatch
  /\ spools' = spools \ {0} /\ pc' = "publish"
  /\ UNCHANGED <<hangul, user, event, pass, baseline, read, built, prepared, owned,
                 spoolRoot, end>>

(***************************************************************************)
(* GraphStore::Publish gives up the owner.lock and removes the prepared    *)
(* directory once its files are linked and the manifest is written; it can *)
(* fail before that and after.                                             *)
(***************************************************************************)
PublishFailsEarly == pc = "publish" /\ Abort("PublishFailed")

PublishFailsLate ==
  /\ pc = "publish" /\ owned' = FALSE /\ prepared' \in BOOLEAN
  /\ status' = "PublishFailed" /\ pc' = "abort"
  /\ UNCHANGED <<hangul, user, event, pass, baseline, payloads, built, spools, spoolRoot, end>>

\* Mutant: a session that cannot be closed cleanly is reported as a failure.
PublishThenClose ==
  /\ pc = "publish" /\ published' = artifact[1]
  /\ prepared' = FALSE /\ owned' = FALSE /\ spools' = {}
  /\ session' = "ended" /\ result' \in {"Complete", "CleanupFailed"} /\ pc' = "cleanup"
  /\ UNCHANGED <<hangul, user, event, pass, baseline, read, built, spoolRoot>>

(* commitSession cannot fail: what is published stays published.             *)
PublishGraph ==
  /\ pc = "publish" /\ published' = artifact[1]
  /\ prepared' = FALSE /\ owned' = FALSE /\ spools' = {}
  /\ session' = "ended" /\ result' = "Complete" /\ pc' = "cleanup"
  /\ UNCHANGED <<hangul, user, event, pass, baseline, read, built, spoolRoot>>

(* The coordinator returns; the directory of the capture is removed.         *)
Cleanup ==
  /\ pc = "cleanup" /\ pc' = "ended" /\ spoolRoot' = FALSE /\ owned' = FALSE
  /\ UNCHANGED <<hangul, user, event, pass, baseline, read, built, spools, prepared, end>>

Ended == pc = "ended" /\ UNCHANGED captureVars

Capture ==
  \/ Signal \/ SignalFails \/ Checkpoint \/ BeginSession \/ BaselineFails \/ Baseline
  \/ BeginAttempt \/ Reader \/ ReaderFails \/ Detach \/ DetachFails
  \/ Restore \/ RestoreFails \/ Recapture \/ RecaptureFails \/ PassFailed
  \/ StartWorker \/ StartWorkerFails \/ PassesRead
  \/ WorkerFailed \/ DeferredFailed \/ ReplayFails \/ BuildSecond \/ BuildSecondFails
  \/ AbortRetained \/ Differ \/ Equal
  \/ PublishFailsEarly \/ PublishFailsLate \/ PublishGraph \/ Cleanup

CaptureNext == Capture \/ WorkerEnds \/ EditDocument \/ MoveCaret \/ RequestCancel \/ Ended

(* The thread of the capture and the one it starts both run.  Nobody is      *)
(* bound to edit, to move the caret or to ask for a cancellation.            *)
CaptureSpec ==
  /\ CaptureInit /\ [][CaptureNext]_captureVars
  /\ WF_captureVars(Capture) /\ WF_captureVars(WorkerEnds)

Statuses == {"Complete", "IncompleteCapture", "StateChanged", "TraversalMismatch",
             "RestoreFailed", "Cancelled", "PublishFailed", "CleanupFailed"}
Read == UNION {[1..n -> Contents] : n \in 0..Readers}

(* Types.  A pass that failed is never detached into a finished capture: a   *)
(* published graph has what every reader read.                               *)
CaptureTypes ==
  /\ doc \in Contents /\ caret \in {"user", "begin", "reader", "moved"}
  /\ edits \in 0..MaxEdits /\ restorable \in BOOLEAN
  /\ cancel \in {"absent", "armed", "requested"} /\ observed \in BOOLEAN
  /\ pc \in {"signal", "checkpoint", "begin", "baseline", "pass", "read", "restore",
             "recapture", "passed", "join", "abort", "compare", "publish", "cleanup",
             "ended"}
  /\ pass \in Passes /\ baseline \in {None} \cup (Contents \X {"user", "begin", "moved"})
  /\ payloads \in Read /\ {status, deferred} \subseteq Statuses
  /\ artifact \in [Passes -> {None} \cup [1..Readers -> Contents]]
  /\ worker \in {"none", "building", "built", "failed"}
  /\ spools \subseteq Passes /\ {prepared, owned, spoolRoot} \subseteq BOOLEAN
  /\ session \in {"none", "open", "ended"}
  /\ published \in {None} \cup [1..Readers -> Contents]
  /\ result \in {"none"} \cup Statuses

(* A graph that is published is the document as it was at the baseline,      *)
(* unless somebody changed it and changed it back during each of the two     *)
(* passes: it takes four edits, at the same places of both passes, to get    *)
(* a graph of no version of the document past the two comparisons.           *)
TornTakesFour ==
  published # None /\ edits < 4
    => \A r \in 1..Readers : published[r] = baseline[1]

(* A capture that does not report that it could not restore the caret or     *)
(* clean up, and whose first artifact was built, leaves the caret where the  *)
(* user had it, if he has left it alone and it could be restored at all.     *)
CaretGivenBack ==
  pc = "ended" /\ restorable /\ caret # "user"
    => caret = "moved" \/ result \in {"RestoreFailed", "CleanupFailed"} \/ worker = "failed"

(* The status tells whether there is a new graph: never a success without    *)
(* one, and never a failure after one was published.                         *)
PublishedIsComplete == pc = "ended" => ((published # None) <=> (result = "Complete"))

(* A graph is published only if both passes gave the caret back and found    *)
(* the document as it was, and the thread has built the first artifact.      *)
PublishedIsProved ==
  published # None => /\ worker = "built" /\ deferred = "Complete"
                      /\ status = "Complete" /\ artifact[0] = artifact[1]

(* The session is not ended, and its directory not removed, under the thread *)
(* that builds the first artifact.                                           *)
WorkerOutlived == worker = "building" => session = "open" /\ spoolRoot

(* When the capture has ended nothing is left of it: its directory is left   *)
(* only if the client could not be told, and a prepared directory in the     *)
(* store only with the status CleanupFailed.                                 *)
NothingLeftBehind ==
  pc = "ended" =>
    /\ spoolRoot => (result = "IncompleteCapture" /\ cancel # "absent" /\ session = "none")
    /\ prepared => result = "CleanupFailed"
    /\ spools = {} /\ session # "open"

(* A capture that is cancelled has not touched the document's caret.         *)
CancelledTouchesNothing ==
  pc = "ended" /\ result = "Cancelled" => caret \in {"user", "moved"} /\ session = "none"

(* Every capture ends, whatever the client of its events does.               *)
CaptureEnds == <>(pc = "ended")

(* A capture leaves the document and the disk as it found them, however it   *)
(* ends, and outlives the thread it started.                                 *)
CaptureTidy ==
  /\ CaptureTypes
  /\ CaretGivenBack
  /\ WorkerOutlived
  /\ NothingLeftBehind
  /\ CancelledTouchesNothing

(* A graph that is published is one the document had, complete and proved by *)
(* a second pass; to fool it takes four edits.                               *)
GraphIsSound == TornTakesFour /\ PublishedIsComplete /\ PublishedIsProved

=============================================================================
