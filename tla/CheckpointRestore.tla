-------------------------- MODULE CheckpointRestore --------------------------
(***************************************************************************)
(* Checkpoints of a document in the native bridge (ActionLifecycle.cpp):   *)
(* SAVE_DOCUMENT_FILE writes one, RESTORE_DOCUMENT_FILE replaces the live  *)
(* document by it and, when that fails, by the copy it took of what it     *)
(* found.                                                                  *)
(*                                                                         *)
(* A restore runs on the thread of Hangul but every method it calls is a   *)
(* step: each may fail, Hangul may die between any two, and while the      *)
(* recovery copy is saved the user may type.  A document is a body and a   *)
(* form: reopening a file can change how the body is serialised (its form) *)
(* and nothing else.  Two bodies may have as many pages.                   *)
(*                                                                         *)
(* Bounds: MaxCalls restores, MaxEdits edits of the user, at most one      *)
(* death of Hangul, MaxUndo steps of the engine's history.                 *)
(***************************************************************************)
EXTENDS Integers, SequencesExt

CONSTANTS
  Bodies,        \* what a document of the user may hold
  Initial,       \* what it holds at first
  Pages,         \* pages of each body, of the empty and of a broken document
  MaxCalls, MaxEdits, MaxUndo

Empty == 0
Broken == -1     \* neither what it was nor what it should be
Forms == {0, 1}
Doc == (Bodies \cup {Empty, Broken}) \X Forms

ASSUME BodiesAssumption ==
  /\ Initial \in Bodies /\ Bodies \subseteq Nat \ {Empty}
  /\ Pages \in [Bodies \cup {Empty, Broken} -> Nat \ {0}]

ASSUME BoundsAssumption == MaxCalls \in Nat /\ MaxEdits \in Nat /\ MaxUndo \in Nat

(* A content signature tells documents apart; Hangul may fail to give it, or *)
(* give one without text presence, which proves nothing.                     *)
Unread == <<-9, 0>>
Partial == <<-8, 0>>
ContentSignatureIsComplete(s) == s \in Doc
CaptureContentSignature(d) == {d, Unread, Partial}

VARIABLES
  doc,           \* the live document
  moved,         \* the session is on a checkpoint copy, not on the user's path
  back, fwd,     \* documents one Undo, one Redo would show
  disk,          \* the file of the user
  cp,            \* the checkpoint, of kind "none" before one is written
  files,         \* recovery copies on disk, by the call that wrote them
  kept,          \* the copies a failure message has named
  pc,            \* where the running restore is
  call,          \* what it knows
  res,           \* how the last one ended
  edits, crashed

vars == <<doc, moved, back, fwd, disk, cp, files, kept, pc, call, res,
          edits, crashed>>

NoCheckpoint == [kind |-> "none", doc |-> <<Empty, 0>>, sig |-> Unread,
                 p1 |-> FALSE, origin |-> Unread]
NoResult == [kind |-> "none", partial |-> FALSE, retrySafe |-> TRUE, ev |-> "none"]
Ok(ev) == [NoResult EXCEPT !.kind = "ok", !.ev = ev]
SetError == [NoResult EXCEPT !.kind = "error"]
PartialMutation == [SetError EXCEPT !.partial = TRUE, !.retrySafe = FALSE]

NoCall == [n |-> 0, expected |-> Unread, path |-> TRUE, usesFile |-> FALSE,
           copy |-> <<Empty, 0>>, sig |-> Unread, pages |-> 0,
           aim |-> "target", noClear |-> FALSE,
           seen |-> {}, disk |-> <<Empty, 0>>, undo |-> <<>>]

Init ==
  /\ doc = <<Initial, 0>> /\ disk = doc /\ moved = FALSE
  /\ back = <<>> /\ fwd = <<>> /\ cp = NoCheckpoint
  /\ files = <<>> /\ kept = {}
  /\ pc = "idle" /\ call = NoCall /\ res = NoResult
  /\ edits = 0 /\ crashed = FALSE

(* The engine remembers the last MaxUndo steps.                              *)
Push(d) == SubSeq(<<d>> \o back, 1, IF Len(back) < MaxUndo THEN Len(back) + 1 ELSE MaxUndo)

-----------------------------------------------------------------------------
(* The user edits while no restore runs, or while one saves its copy.        *)
Pumping == pc \in {"capture", "block", "sign", "authorize"}

UserEdit ==
  /\ pc = "idle" \/ Pumping
  /\ edits < MaxEdits /\ edits' = edits + 1
  /\ \E b \in Bodies \ {doc[1]} :
       /\ doc' = <<b, doc[2]>>
       /\ call' = [call EXCEPT !.seen = IF pc = "idle" THEN @ ELSE @ \cup {b}]
  /\ back' = Push(doc) /\ fwd' = <<>>
  /\ res' = IF pc = "idle" THEN NoResult ELSE res
  /\ UNCHANGED <<moved, disk, cp, files, kept, pc, crashed>>

(* SAVE_DOCUMENT_FILE: the document as a file next to a sidecar with its     *)
(* signature or, when Hangul cannot save a copy, as an encoded block.  The   *)
(* signature may be missing from either.                                     *)
SaveDocumentFile ==
  /\ pc = "idle" /\ cp.kind = "none" /\ ~moved /\ doc[1] # Broken
  /\ \E kind \in {"file", "block"}, s \in {doc, Partial} :
       cp' = [NoCheckpoint EXCEPT !.kind = kind, !.doc = doc, !.sig = s]
  /\ UNCHANGED <<doc, moved, back, fwd, disk, files, kept, pc, call, res,
                 edits, crashed>>

(* One native text edit that the engine can take back: the sidecar then      *)
(* carries the document after it, its origin.                                *)
SingleTextEdit ==
  /\ pc = "idle" /\ cp.kind = "file" /\ ~cp.p1 /\ doc = cp.doc /\ cp.sig = doc
  /\ edits < MaxEdits /\ edits' = edits + 1
  /\ \E b \in Bodies \ {doc[1]}, lost \in BOOLEAN :
       /\ doc' = <<b, doc[2]>>
       /\ cp' = [cp EXCEPT !.p1 = TRUE, !.origin = IF lost THEN Partial ELSE doc']
  /\ back' = Push(doc) /\ fwd' = <<>> /\ res' = NoResult
  /\ UNCHANGED <<moved, disk, files, kept, pc, call, crashed>>

-----------------------------------------------------------------------------
(* CreateCheckpointRollbackPath: the recovery copy has a name of its own.    *)
(* Mutant: every call of a checkpoint uses the same name.                    *)
SharedRollbackPath == 1
RollbackPath == call.n

Others == [m \in DOMAIN files \ {RollbackPath} |-> files[m]]
WithCopy(d) == [m \in DOMAIN files \cup {RollbackPath} |->
                  IF m = RollbackPath THEN d ELSE files[m]]

(* What is left of a call once it has ended.                                 *)
Done == [NoCall EXCEPT !.n = call.n, !.seen = call.seen, !.disk = call.disk,
                       !.undo = call.undo, !.usesFile = call.usesFile]

(* How a restore ends: the copy is deleted unless the call keeps it.         *)
(* Mutant: the copy goes whatever happens, as any temporary file would.      *)
FinishDeletes(r, keep) ==
  pc' = "idle" /\ res' = r /\ files' = Others /\ kept' = kept /\ call' = Done
(* Mutant: the message names a copy that the scope deletes.                  *)
FinishNames(r, keep) ==
  /\ pc' = "idle" /\ res' = r /\ files' = Others /\ call' = Done
  /\ kept' = IF keep THEN kept \cup {RollbackPath} ELSE kept
(* Mutant: the copy stays whatever happens.                                  *)
FinishLeaves(r, keep) ==
  pc' = "idle" /\ res' = r /\ files' = files /\ kept' = kept /\ call' = Done
Finish(r, keep) ==
  /\ pc' = "idle" /\ res' = r /\ call' = Done
  /\ files' = IF keep THEN files ELSE Others
  /\ kept' = IF keep THEN kept \cup {RollbackPath} ELSE kept

(* The call begins: identity of the document, checkpoint and sidecar.        *)
Readable == /\ ~moved /\ ContentSignatureIsComplete(cp.sig)
            /\ cp.p1 => ContentSignatureIsComplete(cp.origin)

Begin(expected) ==
  [NoCall EXCEPT !.n = call.n, !.expected = expected, !.seen = {doc[1]},
                 !.disk = disk]

Restore ==
  /\ pc = "idle" /\ cp.kind # "none" /\ call.n < MaxCalls /\ Readable
  /\ \E expected \in {Unread, doc, cp.origin, cp.doc} :
       call' = [Begin(expected) EXCEPT !.n = call.n + 1]
  /\ pc' = "capture" /\ res' = NoResult
  /\ UNCHANGED <<doc, moved, back, fwd, disk, cp, files, kept, edits, crashed>>

RestoreRefused ==
  /\ pc = "idle" /\ cp.kind # "none"
  /\ call' = Begin(Unread) /\ res' = SetError
  /\ UNCHANGED <<doc, moved, back, fwd, disk, cp, files, kept, pc, edits, crashed>>

-----------------------------------------------------------------------------
(* CaptureDocumentFileCheckpoint.  SaveAs may put the session on the copy;   *)
(* it is put back by saving the document on the path of the user, unless     *)
(* the path cannot be read.                                                  *)
SaveAsUnavailable ==
  /\ pc = "capture" /\ pc' = "block"
  /\ UNCHANGED <<doc, moved, back, fwd, disk, cp, files, kept, call, res, edits, crashed>>

SaveAs ==
  /\ pc = "capture" /\ pc' = "sign"
  /\ files' = WithCopy(doc)
  /\ call' = [call EXCEPT !.usesFile = TRUE, !.copy = doc]
  /\ \/ UNCHANGED <<moved, disk>>
     \/ moved' = TRUE /\ UNCHANGED disk
     \/ disk' = doc /\ UNCHANGED moved
  /\ UNCHANGED <<doc, back, fwd, cp, kept, res, edits, crashed>>

SaveAsStranded ==
  /\ pc = "capture" /\ moved' = TRUE /\ disk' \in {disk, doc}
  /\ Finish(SetError, FALSE)
  /\ UNCHANGED <<doc, back, fwd, cp, edits, crashed>>

CaptureDocumentBlock ==
  /\ pc = "block" /\ pc' = "sign"
  /\ call' = [call EXCEPT !.copy = doc]
  /\ UNCHANGED <<doc, moved, back, fwd, disk, cp, files, kept, res, edits, crashed>>

(* The signature and the page count are read after the copy; a block is      *)
(* written to disk after both.                                               *)
Sign ==
  /\ pc = "sign" /\ pc' = "authorize"
  /\ call' = [call EXCEPT !.sig = doc, !.pages = Pages[doc[1]]]
  /\ files' = IF call.usesFile THEN files ELSE WithCopy(call.copy)
  /\ UNCHANGED <<doc, moved, back, fwd, disk, cp, kept, res, edits, crashed>>

CaptureFails ==
  /\ pc \in {"block", "sign"}
  /\ Finish(SetError, FALSE)
  /\ UNCHANGED <<doc, moved, back, fwd, disk, cp, edits, crashed>>

(* AuthorizeCheckpointMutation: the same document and, for a caller that     *)
(* says what it expects, the same content, after everything that let the     *)
(* user in.                                                                  *)
(* Mutant: the content is compared with the signature of the copy.           *)
AuthorizedByCopy(actual) ==
  ~moved /\ (call.expected = Unread \/ call.expected = call.sig)
Authorized(actual) ==
  /\ ~moved
  /\ \/ call.expected = Unread
     \/ ContentSignatureIsComplete(call.expected) /\ actual = call.expected

AuthorizeCheckpointMutation ==
  /\ pc = "authorize"
  /\ \E actual \in CaptureContentSignature(doc) :
       IF Authorized(actual)
       THEN /\ pc' = IF cp.p1 THEN "undo" ELSE "clear"
            /\ call' = [call EXCEPT !.undo = back]
            /\ UNCHANGED <<files, kept, res>>
       ELSE Finish(SetError, FALSE)
  /\ UNCHANGED <<doc, moved, back, fwd, disk, cp, edits, crashed>>

-----------------------------------------------------------------------------
(* VerifyRestoredDocument: what it may find.  The page count decides alone   *)
(* when the signature cannot be read and no proof is required.               *)
(* Mutant: a page count is proof enough.                                     *)
VerifyPagesOnly(d, pages, sig, proof, normalise) ==
  {"failed"} \cup (IF Pages[d[1]] = pages THEN {"signature"} ELSE {})
VerifyRestoredDocument(d, pages, sig, proof, normalise) ==
  {"failed"} \cup
  (IF Pages[d[1]] # pages THEN {}
   ELSE (IF d = sig THEN {"signature"} ELSE {})
        \cup (IF normalise /\ d[1] = sig[1] THEN {"normalised"} ELSE {})
        \cup (IF proof THEN {} ELSE {"pages"}))

(* The engine takes back one step.  TRUE means it did; FALSE means nothing.  *)
Stepped(from, to) == from # <<>> /\ doc' = Head(from) /\ to' = <<doc>> \o to /\ from' = Tail(from)

Undo ==
  /\ pc = "undo" /\ Stepped(back, fwd)
  /\ \E v \in VerifyRestoredDocument(doc', Pages[cp.doc[1]], cp.sig, TRUE, FALSE) :
       IF v = "failed" THEN pc' = "redo" /\ UNCHANGED <<files, kept, res, call>>
                       ELSE Finish(Ok(v), FALSE)
  /\ UNCHANGED <<moved, disk, cp, edits, crashed>>

UndoRefused ==
  /\ pc = "undo"
  /\ UNCHANGED <<doc, back, fwd>> \/ Stepped(back, fwd)
  /\ Finish(PartialMutation, TRUE)
  /\ UNCHANGED <<moved, disk, cp, edits, crashed>>

(* The step taken back was another one: put it back, and never insert a file *)
(* across it.                                                                *)
EngineHistoryDrift == [SetError EXCEPT !.retrySafe = FALSE]

(* Mutant: the drift is reported without the Redo.                           *)
RedoSkipped ==
  /\ pc = "redo" /\ Finish(EngineHistoryDrift, FALSE)
  /\ UNCHANGED <<doc, back, fwd, moved, disk, cp, edits, crashed>>
Redo ==
  /\ pc = "redo" /\ Stepped(fwd, back)
  /\ \E v \in VerifyRestoredDocument(doc', Pages[cp.origin[1]], cp.origin, TRUE, FALSE) :
       IF v = "failed" THEN Finish(PartialMutation, TRUE)
                       ELSE Finish(EngineHistoryDrift, FALSE)
  /\ UNCHANGED <<moved, disk, cp, edits, crashed>>

RedoRefused ==
  /\ pc = "redo"
  /\ UNCHANGED <<doc, back, fwd>> \/ Stepped(fwd, back)
  /\ Finish(PartialMutation, TRUE)
  /\ UNCHANGED <<moved, disk, cp, edits, crashed>>

-----------------------------------------------------------------------------
(* Replacing the document: by the checkpoint first, by the recovery copy     *)
(* when that fails (ReplaceWithRollback).                                    *)
ByFile == IF call.aim = "target" THEN cp.kind = "file" ELSE call.usesFile
Source == IF call.aim = "target" THEN cp.doc ELSE call.copy

(* Mutant: a failed rollback is reported as a failed restore.                *)
AttemptFailsQuietly ==
  IF call.aim = "target"
  THEN /\ pc' = "clear" /\ call' = [call EXCEPT !.aim = "rollback"]
       /\ UNCHANGED <<files, kept, res>>
  ELSE Finish(SetError, FALSE)
AttemptFails ==
  IF call.aim = "target"
  THEN /\ pc' = "clear" /\ call' = [call EXCEPT !.aim = "rollback"]
       /\ UNCHANGED <<files, kept, res>>
  ELSE Finish(PartialMutation, TRUE)

Succeeds(v) ==
  Finish(IF call.aim = "target" THEN Ok(v) ELSE [SetError EXCEPT !.ev = v], FALSE)

(* ClearDocumentBody and SetTextFile of ReplaceDocumentBlock.                *)
ClearDocumentBody ==
  /\ pc = "clear" /\ ~ByFile
  /\ \/ doc' = <<Empty, doc[2]>> /\ pc' = "insert" /\ UNCHANGED <<call, files, kept, res>>
     \/ doc' \in {doc, <<Broken, doc[2]>>} /\ AttemptFails
  /\ back' = Push(doc) /\ fwd' = <<>>
  /\ UNCHANGED <<moved, disk, cp, edits, crashed>>

SetTextFile ==
  /\ pc = "insert"
  /\ \/ doc' \in {Source, <<Broken, doc[2]>>} /\ pc' = "verify"
        /\ UNCHANGED <<call, files, kept, res>>
     \/ doc' \in {doc, <<Broken, doc[2]>>} /\ AttemptFails
  /\ back' = Push(doc) /\ fwd' = <<>>
  /\ UNCHANGED <<moved, disk, cp, edits, crashed>>

(* RestoreDocumentFileByReopen: Clear, which may fail and is then left out   *)
(* of the rollback too; the file of the user is overwritten; Open.           *)
NoPath ==
  /\ pc = "clear" /\ ByFile
  /\ IF call.aim = "target"
     THEN /\ call' = [call EXCEPT !.aim = "rollback", !.path = FALSE]
          /\ UNCHANGED <<pc, files, kept, res>>
     ELSE ~call.path /\ AttemptFails
  /\ UNCHANGED <<doc, moved, back, fwd, disk, cp, edits, crashed>>

Clear ==
  /\ pc = "clear" /\ ByFile /\ call.path /\ pc' = "copy"
  /\ \/ ~call.noClear /\ doc' = <<Empty, 0>> /\ back' = <<>> /\ fwd' = <<>>
        /\ UNCHANGED call
     \/ /\ call' = [call EXCEPT !.noClear = (call.aim = "target") \/ @]
        /\ UNCHANGED <<doc, back, fwd>>
  /\ UNCHANGED <<moved, disk, cp, files, kept, res, edits, crashed>>

(* Mutant: the rollback leaves the file of the user as the restore made it.  *)
CopyFileOnce ==
  /\ pc = "copy"
  /\ \/ disk' = (IF call.aim = "target" THEN Source ELSE disk) /\ pc' = "open"
        /\ UNCHANGED <<call, files, kept, res>>
     \/ disk' \in {disk, <<Broken, 0>>} /\ AttemptFails
  /\ UNCHANGED <<doc, moved, back, fwd, cp, edits, crashed>>
CopyFile ==
  /\ pc = "copy"
  /\ \/ disk' = Source /\ pc' = "open" /\ UNCHANGED <<call, files, kept, res>>
     \/ disk' \in {disk, <<Broken, 0>>} /\ AttemptFails
  /\ UNCHANGED <<doc, moved, back, fwd, cp, edits, crashed>>

(* An Open that answers TRUE may still not have replaced the document.       *)
Open ==
  /\ pc = "open"
  /\ \/ \E f \in Forms : doc' = <<disk[1], f>> /\ back' = <<>> /\ fwd' = <<>>
     \/ UNCHANGED <<doc, back, fwd>>
  /\ \/ pc' = "verify" /\ UNCHANGED <<call, files, kept, res>>
     \/ AttemptFails
  /\ UNCHANGED <<moved, disk, cp, edits, crashed>>

Verify ==
  /\ pc = "verify"
  /\ \E v \in IF call.aim = "target"
              THEN VerifyRestoredDocument(doc, Pages[cp.doc[1]], cp.sig, FALSE, ByFile)
              ELSE VerifyRestoredDocument(doc, call.pages, call.sig, FALSE, ByFile) :
       IF v = "failed" THEN AttemptFails ELSE Succeeds(v)
  /\ UNCHANGED <<doc, moved, back, fwd, disk, cp, edits, crashed>>

-----------------------------------------------------------------------------
(* Hangul dies: the live document and its history are gone, what is on disk  *)
(* stays, the recovery copy included.  The user opens the file again.        *)
HangulDies ==
  /\ ~crashed /\ crashed' = TRUE
  /\ doc' = disk /\ moved' = FALSE /\ back' = <<>> /\ fwd' = <<>>
  /\ pc' = "idle" /\ res' = NoResult /\ call' = Done
  /\ UNCHANGED <<disk, cp, files, kept, edits>>

(* Nobody asks for anything.                                                 *)
Rest == pc = "idle" /\ UNCHANGED vars

Capture == SaveAsUnavailable \/ SaveAs \/ SaveAsStranded \/ CaptureDocumentBlock
             \/ Sign \/ CaptureFails
EngineUndo == Undo \/ UndoRefused \/ Redo \/ RedoRefused
Replace == ClearDocumentBody \/ SetTextFile \/ NoPath \/ Clear \/ CopyFile \/ Open \/ Verify

Next ==
  \/ UserEdit \/ SaveDocumentFile \/ SingleTextEdit
  \/ Restore \/ RestoreRefused \/ Capture \/ AuthorizeCheckpointMutation
  \/ EngineUndo \/ Replace \/ HangulDies \/ Rest

Spec == Init /\ [][Next]_vars

-----------------------------------------------------------------------------
Replacing == pc \in {"undo", "redo", "clear", "insert", "copy", "open", "verify"}
Found(d) == d[1] \in call.seen
Failed == pc = "idle" /\ res.kind = "error"

(* Types of the state.                                                       *)
TypeOK ==
  /\ doc \in Doc /\ disk \in Doc /\ moved \in BOOLEAN /\ crashed \in BOOLEAN
  /\ back \in Seq(Doc) /\ fwd \in Seq(Doc)
  /\ Len(back) <= MaxUndo /\ Len(fwd) <= MaxUndo
  /\ DOMAIN files \subseteq 1 .. MaxCalls /\ kept \subseteq DOMAIN files
  /\ \A n \in DOMAIN files : files[n] \in Doc
  /\ cp.kind \in {"none", "file", "block"} /\ cp.doc \in Doc
  /\ call.n \in 0 .. MaxCalls /\ edits \in 0 .. MaxEdits

(* From the first step that may change the document until the restore has    *)
(* succeeded or the document is proved to be back, a copy of what the call   *)
(* found is on disk; a call that ends in between has kept it                 *)
(* (CheckpointScratchFile::Keep).                                            *)
WayBack ==
  /\ Replacing => RollbackPath \in DOMAIN files /\ Found(files[RollbackPath])
  /\ Failed /\ res.partial => RollbackPath \in kept /\ Found(files[RollbackPath])

(* A failed restore that does not report a partial mutation has left the     *)
(* document as it was during the call, or has only the page count to say so  *)
(* because the signature could not be read.                                  *)
UntouchedUnlessPartial ==
  Failed /\ ~res.partial => Found(doc) \/ res.ev = "pages"

(* A restore that succeeds has brought back the checkpoint, with the same    *)
(* reservation; one that used the engine's history has none.                 *)
RestoredIsCheckpoint ==
  pc = "idle" /\ res.kind = "ok" =>
    \/ doc[1] = cp.doc[1]
    \/ res.ev = "pages" /\ ~cp.p1

(* What the user types while the copy is saved is never replaced: at the     *)
(* first step that changes the document it is still what the caller expects. *)
EditsAreSeen ==
  (pc = "undo" \/ (pc = "clear" /\ call.aim = "target")) /\ call.expected # Unread
    => doc = call.expected /\ ~moved

(* The file of the user holds, after a failure without partial mutation,     *)
(* what it held or what the document was; only a restore of a file whose     *)
(* copy is a block may leave the checkpoint there.                           *)
FileFollowsDocument ==
  Failed /\ ~res.partial /\ (call.usesFile \/ cp.kind # "file")
    => disk = call.disk \/ Found(disk)

(* Nothing but the copies that a message names stays on disk, unless Hangul  *)
(* died.                                                                     *)
NoLitter == pc = "idle" /\ ~crashed => DOMAIN files = kept

(* A step of another editor that Undo took back is there again when the call *)
(* reports that the history has drifted.                                     *)
StepPutBack ==
  Failed /\ ~res.partial /\ ~res.retrySafe => back = call.undo

(* A later restore of the checkpoint never erases or overwrites a copy that  *)
(* an earlier one kept (CreateCheckpointRollbackPath).                       *)
CopiesStay ==
  [][\A n \in kept : n \in kept' /\ n \in DOMAIN files' /\ files'[n] = files[n]]_vars

(* The copies on disk are those that are needed: what was live can be had    *)
(* again after every failure, and no other copy stays.                       *)
CopiesAccounted == TypeOK /\ WayBack /\ NoLitter /\ FileFollowsDocument

(* What the answer says of the document is true of it: restored, untouched,  *)
(* put back, or changed in part.                                             *)
AnswersAreTrue ==
  /\ UntouchedUnlessPartial
  /\ RestoredIsCheckpoint
  /\ EditsAreSeen
  /\ StepPutBack

=============================================================================
