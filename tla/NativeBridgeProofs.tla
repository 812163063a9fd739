------------------------- MODULE NativeBridgeProofs -------------------------
(***************************************************************************)
(* Theorems about three parts of the native bridge, CheckpointRestore,     *)
(* BridgePublication and ActionBatch.                                      *)
(*                                                                         *)
(* CheckpointRestore, for any bodies of documents, any numbers of restores *)
(* and edits and any depth of the history: what was live can be had again  *)
(* after every failure, and the answer of a restore is true of the         *)
(* document.  The inductive invariant adds what a running restore has      *)
(* seen, copied and signed, where the recovery copy lies, which way the    *)
(* document is replaced, and what the history of the engine holds.         *)
(*                                                                         *)
(* BridgePublication, for any windows and documents and any number of      *)
(* calls the table refuses: the books agree with the table at every step,  *)
(* a call takes down only its own pairs, and a release leaves at most one  *)
(* registration for each failed call.  The inductive invariant adds in     *)
(* which order a call works, on whose names, and what a release has gone   *)
(* past and not taken down.                                                *)
(*                                                                         *)
(* ActionBatch, for any batches the parser lets pass, any tables and any   *)
(* number of requests and edits: what a failed batch says of the document  *)
(* is so, an append takes nothing of it away, and a batch runs only on the *)
(* document its client has seen.  The inductive invariant adds where an    *)
(* append began, what of it is recorded, and that the copies the preflight *)
(* has tried the texts on agree with the cells, command by command.        *)
(***************************************************************************)
EXTENDS CheckpointRestore, BridgePublication, ActionBatch,
        SequenceTheorems, FiniteSetTheorems, WellFoundedInduction, TLAPS

Signature == Doc \cup {Unread, Partial}
Ends == {"undo", "redo", "clear", "insert", "copy", "open", "verify"}
Attempts == {"clear", "insert", "copy", "open", "verify"}
Places == {"idle", "capture", "block", "sign", "authorize"} \cup Ends

CallType ==
  [n : Nat, expected : Signature, path : BOOLEAN, usesFile : BOOLEAN,
   copy : Doc, sig : Doc \cup {Unread}, pages : Nat,
   aim : {"target", "rollback"}, noClear : BOOLEAN,
   seen : SUBSET (Bodies \cup {Empty, Broken}), disk : Doc, undo : Seq(Doc)]

CheckpointType ==
  [kind : {"none", "file", "block"}, doc : Doc, sig : Signature, p1 : BOOLEAN,
   origin : Signature]

ResultType ==
  [kind : {"none", "ok", "error"}, partial : BOOLEAN, retrySafe : BOOLEAN,
   ev : {"none", "signature", "normalised", "pages"}]

Types ==
  /\ call \in CallType /\ cp \in CheckpointType /\ res \in ResultType /\ pc \in Places
  /\ Len(back) + Len(fwd) <= MaxUndo

(* The recovery copies on disk, by the calls that wrote them.                *)
Books ==
  /\ DOMAIN files \subseteq 1 .. call.n
  /\ pc # "idle" => call.n > 0 /\ call.n \notin kept
  /\ ~crashed => \A n \in DOMAIN files : n \in kept \/ (pc # "idle" /\ n = call.n)

(* A checkpoint is restored only when its signature was complete.            *)
CheckpointSound ==
  /\ cp.sig \in Doc => cp.sig = cp.doc
  /\ cp.kind = "none" => pc = "idle" /\ res.kind = "none"
  /\ pc # "idle" => cp.sig \in Doc
  /\ cp.p1 => cp.kind = "file"
  /\ pc \in {"undo", "redo"} => cp.p1
  /\ pc \in Attempts => ~cp.p1

(* What the running call has seen of the document, copied and signed.        *)
RestoreCaptured ==
  /\ Pumping \/ pc = "undo" => Found(doc)
  /\ pc \in {"capture", "block"} => ~call.usesFile
  /\ pc \in {"sign", "authorize"} \cup Ends => Found(call.copy)
  /\ pc \in {"authorize"} \cup Ends \/ (pc = "sign" /\ call.usesFile) =>
       call.n \in DOMAIN files /\ files[call.n] = call.copy
  /\ pc \in {"authorize"} \cup Ends => call.sig \in Doc /\ Found(call.sig)

(* The way the document is being replaced.                                   *)
Routed ==
  /\ pc = "insert" => ~ByFile
  /\ pc \in {"copy", "open"} => ByFile

(* What Redo would put back.                                                 *)
Engine ==
  /\ pc = "undo" => call.undo = back
  /\ pc = "redo" => fwd # <<>> /\ Found(Head(fwd)) /\ call.undo = <<doc>> \o back

Known(d) == d = call.disk \/ Found(d)

(* The file of the user.                                                     *)
FileKnown ==
  /\ Pumping \/ pc \in {"undo", "redo"} => Known(disk)
  /\ pc \in Attempts /\ cp.kind # "file" /\ ~call.usesFile => Known(disk)
  /\ pc \in {"open", "verify"} /\ call.aim = "rollback" /\ call.usesFile => Known(disk)

IInv ==
  /\ CopiesAccounted /\ AnswersAreTrue
  /\ Types /\ Books /\ CheckpointSound /\ RestoreCaptured /\ Routed /\ Engine /\ FileKnown

-----------------------------------------------------------------------------
(* Documents and calls. *)

LEMMA Docs ==
  /\ \A d \in Doc : /\ d[1] \in Bodies \cup {Empty, Broken} /\ d[2] \in Forms
                    /\ d = <<d[1], d[2]>>
  /\ \A b \in Bodies \cup {Empty, Broken}, f \in Forms : <<b, f>> \in Doc /\ <<b, f>>[1] = b
  /\ Unread \notin Doc /\ Partial \notin Doc /\ Unread # Partial
  /\ <<Empty, 0>> \in Doc
<1>1. -9 \notin Bodies \cup {Empty, Broken} /\ -8 \notin Bodies \cup {Empty, Broken}
  BY BodiesAssumption DEF BodiesAssumption, Empty, Broken
<1>2. 0 \in Forms
  BY DEF Forms
<1> QED
  BY <1>1, <1>2 DEF Doc, Unread, Partial

LEMMA Signatures ==
  \A s \in Signature : ContentSignatureIsComplete(s) <=> s # Unread /\ s # Partial
BY Docs DEF Signature, ContentSignatureIsComplete

LEMMA CallTypes ==
  ASSUME call \in CallType
  PROVE  /\ call.n \in Nat /\ call.expected \in Signature /\ call.path \in BOOLEAN
         /\ call.usesFile \in BOOLEAN /\ call.copy \in Doc /\ call.sig \in Doc \cup {Unread}
         /\ call.aim \in {"target", "rollback"} /\ call.noClear \in BOOLEAN
         /\ call.seen \subseteq Bodies \cup {Empty, Broken} /\ call.disk \in Doc
         /\ call.undo \in Seq(Doc) /\ call.pages \in Nat
BY DEF CallType

LEMMA NoCallType == NoCall \in CallType
<1>1. Unread \in Signature /\ <<>> \in Seq(Doc)
  BY DEF Signature
<1> QED
  BY <1>1, Docs DEF NoCall, CallType

LEMMA DoneType ==
  ASSUME call \in CallType
  PROVE  /\ Done \in CallType
         /\ Done.n = call.n /\ Done.seen = call.seen /\ Done.disk = call.disk
         /\ Done.undo = call.undo /\ Done.usesFile = call.usesFile
BY NoCallType, CallTypes DEF CallType, Done

-----------------------------------------------------------------------------
(* How a restore ends. *)

(* The outcome r of a call that keeps its copy or not is true of the         *)
(* document, of its file and of the history.                                 *)
TrueOutcome(r, keep) ==
  /\ keep => call.n \in DOMAIN files /\ Found(files[call.n])
  /\ r.kind = "error" /\ r.partial => keep
  /\ r.kind = "error" /\ ~r.partial =>
       /\ doc'[1] \in call.seen \/ r.ev = "pages"
       /\ call.usesFile \/ cp.kind # "file" => disk' = call.disk \/ disk'[1] \in call.seen
       /\ r.retrySafe \/ back' = call.undo
  /\ r.kind = "ok" => doc'[1] = cp.doc[1] \/ (r.ev = "pages" /\ ~cp.p1)

LEMMA Ended ==
  ASSUME IInv, pc # "idle", NEW r \in ResultType, NEW keep \in BOOLEAN,
         Finish(r, keep), TrueOutcome(r, keep),
         UNCHANGED <<cp, edits, crashed>>,
         doc' \in Doc, disk' \in Doc, moved' \in BOOLEAN,
         back' \in Seq(Doc), fwd' \in Seq(Doc), Len(back') + Len(fwd') <= MaxUndo
  PROVE  IInv'
<1>1. /\ pc' = "idle" /\ res' = r /\ call' = Done
      /\ files' = IF keep THEN files ELSE Others
      /\ kept' = IF keep THEN kept \cup {call.n} ELSE kept
  BY DEF Finish, RollbackPath
<1>2. /\ call' \in CallType /\ call'.n = call.n /\ call'.seen = call.seen
      /\ call'.disk = call.disk /\ call'.undo = call.undo /\ call'.usesFile = call.usesFile
      /\ call.n \in Nat
  BY <1>1, DoneType, CallTypes DEF IInv, Types
<1>3. /\ DOMAIN files' \subseteq DOMAIN files
      /\ \A n \in DOMAIN files' : files'[n] = files[n]
      /\ ~keep => DOMAIN files' = DOMAIN files \ {call.n}
      /\ keep => files' = files
  BY <1>1 DEF Others, RollbackPath
<1>4. call.n \notin kept /\ kept \subseteq DOMAIN files
  BY DEF IInv, Books, CopiesAccounted, TypeOK
<1>5. kept' \subseteq DOMAIN files'
  BY <1>1, <1>3, <1>4 DEF TrueOutcome
<1>6. ~crashed => DOMAIN files' \subseteq kept'
  BY <1>1, <1>3 DEF IInv, Books
<1>7. TypeOK'
  <2>1. Len(back') <= MaxUndo /\ Len(fwd') <= MaxUndo
    BY BoundsAssumption DEF BoundsAssumption
  <2> QED
    BY <1>2, <1>3, <1>5, <2>1 DEF IInv, CopiesAccounted, TypeOK
<1>8. WayBack'
  BY <1>1, <1>2, <1>3, <1>5 DEF WayBack, Replacing, Failed, Found, RollbackPath, TrueOutcome
<1>9. NoLitter'
  BY <1>5, <1>6 DEF NoLitter
<1>10. FileFollowsDocument'
  BY <1>1, <1>2 DEF FileFollowsDocument, Failed, Found, TrueOutcome
<1>11. UntouchedUnlessPartial' /\ StepPutBack'
  BY <1>1, <1>2 DEF UntouchedUnlessPartial, StepPutBack, Failed, Found, TrueOutcome
<1>12. RestoredIsCheckpoint' /\ EditsAreSeen'
  BY <1>1 DEF RestoredIsCheckpoint, EditsAreSeen, TrueOutcome
<1>13. Types'
  BY <1>1, <1>2 DEF IInv, Types, Places
<1>14. Books'
  BY <1>1, <1>2, <1>3, <1>6 DEF IInv, Books
<1>15. CheckpointSound'
  BY <1>1 DEF IInv, CheckpointSound, Attempts
<1>16. RestoreCaptured' /\ Routed' /\ Engine' /\ FileKnown'
  BY <1>1 DEF RestoreCaptured, Routed, Engine, FileKnown, Pumping, Ends, Attempts
<1> QED
  BY <1>7, <1>8, <1>9, <1>10, <1>11, <1>12, <1>13, <1>14, <1>15, <1>16
     DEF IInv, CopiesAccounted, AnswersAreTrue

(* A step of the replacement after which the replacement goes on.            *)
LEMMA GoesOn ==
  ASSUME IInv, pc \in Attempts, pc' \in Attempts,
         UNCHANGED <<moved, cp, files, kept, res, edits, crashed>>,
         doc' \in Doc, disk' \in Doc,
         back' \in Seq(Doc), fwd' \in Seq(Doc), Len(back') + Len(fwd') <= MaxUndo,
         call' \in CallType, call'.n = call.n, call'.seen = call.seen, call'.disk = call.disk,
         call'.copy = call.copy, call'.sig = call.sig, call'.usesFile = call.usesFile,
         call'.expected = call.expected,
         pc' = "clear" => call'.aim = "rollback",
         Routed',
         cp.kind # "file" /\ ~call.usesFile => disk' = call.disk \/ disk'[1] \in call.seen,
         pc' \in {"open", "verify"} /\ call'.aim = "rollback" /\ call.usesFile =>
           disk' = call.disk \/ disk'[1] \in call.seen
  PROVE  IInv'
<1>1. pc # "idle" /\ pc' # "idle" /\ pc' \in Places
      /\ pc \in {"authorize"} \cup Ends /\ pc' \in {"authorize"} \cup Ends
      /\ pc' \notin {"capture", "block", "sign", "authorize", "undo", "redo"}
  BY DEF Attempts, Places, Ends
<1>2. TypeOK'
  <2>1. Len(back') <= MaxUndo /\ Len(fwd') <= MaxUndo
    BY BoundsAssumption DEF BoundsAssumption
  <2> QED
    BY <2>1 DEF IInv, CopiesAccounted, TypeOK
<1>3. WayBack'
  BY <1>1 DEF IInv, RestoreCaptured, WayBack, Failed, Found, RollbackPath
<1>4. NoLitter' /\ FileFollowsDocument' /\ UntouchedUnlessPartial' /\ StepPutBack'
      /\ RestoredIsCheckpoint'
  BY <1>1 DEF NoLitter, FileFollowsDocument, UntouchedUnlessPartial, StepPutBack,
              RestoredIsCheckpoint, Failed
<1>5. EditsAreSeen'
  BY <1>1 DEF EditsAreSeen
<1>6. Types' /\ Books'
  BY <1>1 DEF IInv, Types, Books
<1>7. CheckpointSound'
  BY <1>1 DEF IInv, CheckpointSound
<1>8. RestoreCaptured'
  BY <1>1 DEF IInv, RestoreCaptured, Found, Pumping
<1>9. Engine'
  BY <1>1 DEF Engine
<1>10. FileKnown'
  BY <1>1 DEF FileKnown, Pumping, Known, Found
<1> QED
  BY <1>2, <1>3, <1>4, <1>5, <1>6, <1>7, <1>8, <1>9, <1>10
     DEF IInv, CopiesAccounted, AnswersAreTrue


-----------------------------------------------------------------------------
(* The history of the engine. *)

LEMMA StateTypes ==
  ASSUME IInv
  PROVE  /\ doc \in Doc /\ disk \in Doc /\ moved \in BOOLEAN
         /\ back \in Seq(Doc) /\ fwd \in Seq(Doc)
         /\ Len(back) + Len(fwd) <= MaxUndo /\ Len(back) \in Nat /\ Len(fwd) \in Nat
         /\ MaxUndo \in Nat
         /\ call \in CallType /\ cp \in CheckpointType /\ res \in ResultType
         /\ cp.doc \in Doc /\ cp.sig \in Signature /\ cp.origin \in Signature
         /\ cp.p1 \in BOOLEAN /\ cp.kind \in {"none", "file", "block"}
BY BoundsAssumption DEF IInv, CopiesAccounted, TypeOK, Types, BoundsAssumption, CheckpointType

LEMMA PushType ==
  ASSUME back \in Seq(Doc), Len(back) <= MaxUndo, NEW d \in Doc
  PROVE  Push(d) \in Seq(Doc) /\ Len(Push(d)) <= MaxUndo
<1> DEFINE s == <<d>> \o back
           n == IF Len(back) < MaxUndo THEN Len(back) + 1 ELSE MaxUndo
<1>1. MaxUndo \in Nat /\ Len(back) \in Nat
  BY BoundsAssumption DEF BoundsAssumption
<1>2. <<d>> \in Seq(Doc) /\ Len(<<d>>) = 1
  OBVIOUS
<1>3. s \in Seq(Doc) /\ Len(s) = 1 + Len(back)
  BY <1>2, ConcatProperties
<1>4. n \in Nat /\ n <= MaxUndo /\ n <= Len(s)
  BY <1>1, <1>3
<1>5. \A i \in 1 .. n : s[i] \in Doc
  <2> HIDE DEF s, n
  <2> QED
    BY <1>3, <1>4
<1>6. SubSeq(s, 1, n) \in Seq(Doc) /\ Len(SubSeq(s, 1, n)) = IF 1 <= n THEN n - 1 + 1 ELSE 0
  <2> HIDE DEF s, n
  <2>1. 1 \in Int /\ n \in Int
    BY <1>4
  <2> QED
    BY <1>5, <2>1, SubSeqProperties
<1>7. Push(d) = SubSeq(s, 1, n)
  BY DEF Push
<1> HIDE DEF s, n
<1> QED
  BY <1>1, <1>4, <1>6, <1>7

(* One step of the history, from one stack to the other.                     *)
LEMMA SteppedTypes ==
  ASSUME doc \in Doc, NEW from \in Seq(Doc), NEW to \in Seq(Doc), from # <<>>
  PROVE  /\ Head(from) \in Doc /\ Tail(from) \in Seq(Doc) /\ <<doc>> \o to \in Seq(Doc)
         /\ <<doc>> \o to # <<>> /\ Head(<<doc>> \o to) = doc /\ Tail(<<doc>> \o to) = to
         /\ Len(Tail(from)) + Len(<<doc>> \o to) = Len(from) + Len(to)
         /\ from = <<Head(from)>> \o Tail(from)
<1>1. <<doc>> \in Seq(Doc) /\ Len(<<doc>>) = 1
  OBVIOUS
<1>2. /\ <<doc>> \o to \in Seq(Doc) /\ Len(<<doc>> \o to) = 1 + Len(to)
  BY <1>1, ConcatProperties
<1>3. Head(from) \in Doc /\ Tail(from) \in Seq(Doc) /\ Len(Tail(from)) = Len(from) - 1
  BY HeadTailProperties
<1>4. Head(<<doc>> \o to) = doc /\ Tail(<<doc>> \o to) = to
  OBVIOUS
<1>5. from = <<Head(from)>> \o Tail(from)
  OBVIOUS
<1> QED
  BY <1>2, <1>3, <1>4, <1>5

-----------------------------------------------------------------------------
(* The replacement. *)

LEMMA Copied ==
  ASSUME IInv, pc \in {"authorize"} \cup Ends
  PROVE  /\ call.n \in DOMAIN files /\ files[call.n] = call.copy
         /\ Found(call.copy) /\ call.sig \in Doc /\ Found(call.sig)
BY DEF IInv, RestoreCaptured

LEMMA PartialType == PartialMutation \in ResultType /\ PartialMutation.kind = "error"
                     /\ PartialMutation.partial
BY DEF PartialMutation, SetError, NoResult, ResultType

LEMMA AttemptFailed ==
  ASSUME IInv, pc \in Attempts, AttemptFails,
         UNCHANGED <<moved, cp, edits, crashed>>,
         doc' \in Doc, disk' \in Doc,
         back' \in Seq(Doc), fwd' \in Seq(Doc), Len(back') + Len(fwd') <= MaxUndo,
         cp.kind # "file" /\ ~call.usesFile => disk' = call.disk \/ disk'[1] \in call.seen
  PROVE  IInv'
<1>1. call \in CallType /\ moved' \in BOOLEAN
  BY StateTypes
<1>2. CASE call.aim = "target"
  <2>1. /\ pc' = "clear" /\ call' = [call EXCEPT !.aim = "rollback"]
        /\ UNCHANGED <<files, kept, res>>
    BY <1>2 DEF AttemptFails
  <2>2. /\ call' \in CallType /\ call'.n = call.n /\ call'.seen = call.seen
        /\ call'.disk = call.disk /\ call'.copy = call.copy /\ call'.sig = call.sig
        /\ call'.usesFile = call.usesFile /\ call'.expected = call.expected
        /\ call'.aim = "rollback"
    BY <1>1, <2>1 DEF CallType
  <2>3. Routed' /\ pc' \in Attempts /\ pc' \notin {"open", "verify"}
    BY <2>1 DEF Routed, Attempts
  <2> QED
    BY <2>1, <2>2, <2>3, GoesOn
<1>3. CASE call.aim # "target"
  <2>1. Finish(PartialMutation, TRUE)
    BY <1>3 DEF AttemptFails
  <2>2. pc # "idle" /\ pc \in {"authorize"} \cup Ends
    BY DEF Attempts, Ends
  <2>3. TrueOutcome(PartialMutation, TRUE)
    BY <2>2, Copied, PartialType DEF TrueOutcome
  <2> QED
    BY <1>1, <2>1, <2>2, <2>3, PartialType, Ended
<1> QED
  BY <1>2, <1>3

(* The file that a block leaves alone.                                       *)
LEMMA FileLeft ==
  ASSUME IInv, pc \in Attempts
  PROVE  /\ cp.kind # "file" /\ ~call.usesFile => disk = call.disk \/ disk[1] \in call.seen
         /\ pc # "idle" /\ cp.kind # "none" /\ ~cp.p1
         /\ pc \in {"open", "verify"} /\ call.aim = "rollback" /\ call.usesFile =>
              disk = call.disk \/ disk[1] \in call.seen
BY DEF IInv, FileKnown, Known, Found, CheckpointSound, Attempts

LEMMA SourceType ==
  ASSUME IInv
  PROVE  Source \in Doc
BY StateTypes, CallTypes DEF Source

LEMMA ClearDocumentBodyInv ==
  ASSUME IInv, ClearDocumentBody
  PROVE  IInv'
<1>1. /\ pc = "clear" /\ pc \in Attempts /\ ~ByFile /\ back' = Push(doc) /\ fwd' = <<>>
      /\ UNCHANGED <<moved, disk, cp, edits, crashed>>
  BY DEF ClearDocumentBody, Attempts
<1>2. /\ back' \in Seq(Doc) /\ fwd' \in Seq(Doc) /\ Len(back') + Len(fwd') <= MaxUndo
  <2>1. Len(back) <= MaxUndo
    BY StateTypes
  <2>2. Push(doc) \in Seq(Doc) /\ Len(Push(doc)) <= MaxUndo
    BY <2>1, StateTypes, PushType
  <2> QED
    BY <1>1, <2>2
<1>3. disk' \in Doc /\ call \in CallType
  BY <1>1, StateTypes
<1>4. <<Empty, doc[2]>> \in Doc /\ <<Broken, doc[2]>> \in Doc
  BY StateTypes, Docs
<1>5. CASE doc' = <<Empty, doc[2]>> /\ pc' = "insert" /\ UNCHANGED <<call, files, kept, res>>
  <2>1. Routed' /\ pc' \in Attempts /\ pc' # "clear" /\ pc' \notin {"open", "verify"}
    BY <1>1, <1>5 DEF Routed, ByFile, Attempts
  <2>2. doc' \in Doc
    BY <1>4, <1>5
  <2> QED
    BY <1>1, <1>2, <1>3, <1>5, <2>1, <2>2, FileLeft, GoesOn
<1>6. CASE doc' \in {doc, <<Broken, doc[2]>>} /\ AttemptFails
  <2>1. doc' \in Doc
    BY <1>4, <1>6, StateTypes
  <2> QED
    BY <1>1, <1>2, <1>3, <1>6, <2>1, FileLeft, AttemptFailed
<1> QED
  BY <1>5, <1>6 DEF ClearDocumentBody

LEMMA SetTextFileInv ==
  ASSUME IInv, SetTextFile
  PROVE  IInv'
<1>1. /\ pc = "insert" /\ pc \in Attempts /\ back' = Push(doc) /\ fwd' = <<>>
      /\ UNCHANGED <<moved, disk, cp, edits, crashed>>
  BY DEF SetTextFile, Attempts
<1>2. /\ back' \in Seq(Doc) /\ fwd' \in Seq(Doc) /\ Len(back') + Len(fwd') <= MaxUndo
  <2>1. Len(back) <= MaxUndo
    BY StateTypes
  <2>2. Push(doc) \in Seq(Doc) /\ Len(Push(doc)) <= MaxUndo
    BY <2>1, StateTypes, PushType
  <2> QED
    BY <1>1, <2>2
<1>3. disk' \in Doc /\ call \in CallType
  BY <1>1, StateTypes
<1>4. Source \in Doc /\ <<Broken, doc[2]>> \in Doc
  BY StateTypes, Docs, SourceType
<1>5. CASE /\ doc' \in {Source, <<Broken, doc[2]>>} /\ pc' = "verify"
           /\ UNCHANGED <<call, files, kept, res>>
  <2>1. Routed' /\ pc' \in Attempts /\ pc' # "clear"
    BY <1>5 DEF Routed, Attempts
  <2>2. doc' \in Doc
    BY <1>4, <1>5
  <2>3. call.aim = "rollback" => ~call.usesFile
    BY <1>1 DEF IInv, Routed, ByFile
  <2> QED
    BY <1>1, <1>2, <1>3, <1>5, <2>1, <2>2, <2>3, FileLeft, GoesOn
<1>6. CASE doc' \in {doc, <<Broken, doc[2]>>} /\ AttemptFails
  <2>1. doc' \in Doc
    BY <1>4, <1>6, StateTypes
  <2> QED
    BY <1>1, <1>2, <1>3, <1>6, <2>1, FileLeft, AttemptFailed
<1> QED
  BY <1>5, <1>6 DEF SetTextFile


LEMMA NoPathInv ==
  ASSUME IInv, NoPath
  PROVE  IInv'
<1>1. /\ pc = "clear" /\ pc \in Attempts
      /\ UNCHANGED <<doc, moved, back, fwd, disk, cp, edits, crashed>>
  BY DEF NoPath, Attempts
<1>2. /\ doc' \in Doc /\ disk' \in Doc /\ call \in CallType
      /\ back' \in Seq(Doc) /\ fwd' \in Seq(Doc) /\ Len(back') + Len(fwd') <= MaxUndo
  BY <1>1, StateTypes
<1>3. CASE call.aim = "target"
  <2>1. /\ call' = [call EXCEPT !.aim = "rollback", !.path = FALSE]
        /\ UNCHANGED <<pc, files, kept, res>>
    BY <1>3 DEF NoPath
  <2>2. /\ call' \in CallType /\ call'.n = call.n /\ call'.seen = call.seen
        /\ call'.disk = call.disk /\ call'.copy = call.copy /\ call'.sig = call.sig
        /\ call'.usesFile = call.usesFile /\ call'.expected = call.expected
        /\ call'.aim = "rollback"
    BY <1>2, <2>1 DEF CallType
  <2>3. Routed' /\ pc' \in Attempts /\ pc' \notin {"open", "verify"}
    BY <1>1, <2>1 DEF Routed, Attempts
  <2> QED
    BY <1>1, <1>2, <2>1, <2>2, <2>3, FileLeft, GoesOn
<1>4. CASE call.aim # "target"
  <2>1. AttemptFails
    BY <1>4 DEF NoPath
  <2> QED
    BY <1>1, <1>2, <2>1, FileLeft, AttemptFailed
<1> QED
  BY <1>3, <1>4

LEMMA ClearInv ==
  ASSUME IInv, Clear
  PROVE  IInv'
<1>1. /\ pc = "clear" /\ pc \in Attempts /\ ByFile /\ pc' = "copy"
      /\ UNCHANGED <<moved, disk, cp, files, kept, res, edits, crashed>>
  BY DEF Clear, Attempts
<1>2. call \in CallType /\ disk' \in Doc /\ <<Empty, 0>> \in Doc
  BY <1>1, StateTypes, Docs
<1>3. /\ doc' \in Doc /\ back' \in Seq(Doc) /\ fwd' \in Seq(Doc)
      /\ Len(back') + Len(fwd') <= MaxUndo
  <2>1. CASE doc' = <<Empty, 0>> /\ back' = <<>> /\ fwd' = <<>>
    BY <1>2, <2>1, StateTypes
  <2>2. CASE UNCHANGED <<doc, back, fwd>>
    BY <2>2, StateTypes
  <2> QED
    BY <2>1, <2>2 DEF Clear
<1>4. call' = call \/ call' = [call EXCEPT !.noClear = (call.aim = "target") \/ @]
  BY DEF Clear
<1>5. /\ call' \in CallType /\ call'.n = call.n /\ call'.seen = call.seen
      /\ call'.disk = call.disk /\ call'.copy = call.copy /\ call'.sig = call.sig
      /\ call'.usesFile = call.usesFile /\ call'.expected = call.expected
      /\ call'.aim = call.aim
  BY <1>2, <1>4 DEF CallType
<1>6. Routed' /\ pc' \in Attempts /\ pc' \notin {"open", "verify", "clear"}
  BY <1>1, <1>5 DEF Routed, ByFile, Attempts
<1> QED
  BY <1>1, <1>2, <1>3, <1>5, <1>6, FileLeft, GoesOn

LEMMA CopyFileInv ==
  ASSUME IInv, CopyFile
  PROVE  IInv'
<1>1. /\ pc = "copy" /\ pc \in Attempts /\ pc \in {"authorize"} \cup Ends
      /\ UNCHANGED <<doc, moved, back, fwd, cp, edits, crashed>>
  BY DEF CopyFile, Attempts, Ends
<1>2. /\ doc' \in Doc /\ back' \in Seq(Doc) /\ fwd' \in Seq(Doc)
      /\ Len(back') + Len(fwd') <= MaxUndo /\ call \in CallType
  BY <1>1, StateTypes
<1>3. Source \in Doc /\ <<Broken, 0>> \in Doc
  <2>1. 0 \in Forms
    BY DEF Forms
  <2> QED
    BY <2>1, SourceType, Docs
<1>4. ByFile /\ (cp.kind = "file" \/ call.usesFile)
  BY <1>1 DEF IInv, Routed, ByFile
<1>5. CASE disk' = Source /\ pc' = "open" /\ UNCHANGED <<call, files, kept, res>>
  <2>1. Routed' /\ pc' \in Attempts /\ pc' # "clear"
    BY <1>1, <1>4, <1>5 DEF Routed, ByFile, Attempts
  <2>2. disk' \in Doc
    BY <1>3, <1>5
  <2>3. call.aim = "rollback" => disk'[1] \in call.seen
    BY <1>1, <1>5, Copied DEF Source, Found
  <2> QED
    BY <1>1, <1>2, <1>4, <1>5, <2>1, <2>2, <2>3, GoesOn
<1>6. CASE disk' \in {disk, <<Broken, 0>>} /\ AttemptFails
  <2>1. disk' \in Doc
    BY <1>3, <1>6, StateTypes
  <2> QED
    BY <1>1, <1>2, <1>4, <1>6, <2>1, AttemptFailed
<1> QED
  BY <1>5, <1>6 DEF CopyFile

LEMMA OpenInv ==
  ASSUME IInv, Open
  PROVE  IInv'
<1>1. /\ pc = "open" /\ pc \in Attempts
      /\ UNCHANGED <<moved, disk, cp, edits, crashed>>
  BY DEF Open, Attempts
<1>2. call \in CallType /\ disk' \in Doc
  BY <1>1, StateTypes
<1>3. /\ doc' \in Doc /\ back' \in Seq(Doc) /\ fwd' \in Seq(Doc)
      /\ Len(back') + Len(fwd') <= MaxUndo
  <2>1. CASE \E f \in Forms : doc' = <<disk[1], f>> /\ back' = <<>> /\ fwd' = <<>>
    <3>1. \A f \in Forms : <<disk[1], f>> \in Doc
      BY StateTypes, Docs
    <3>2. <<>> \in Seq(Doc) /\ Len(<<>>) + Len(<<>>) <= MaxUndo
      BY StateTypes
    <3> QED
      BY <2>1, <3>1, <3>2
  <2>2. CASE UNCHANGED <<doc, back, fwd>>
    BY <2>2, StateTypes
  <2> QED
    BY <2>1, <2>2 DEF Open
<1>4. CASE pc' = "verify" /\ UNCHANGED <<call, files, kept, res>>
  <2>1. Routed' /\ pc' \in Attempts /\ pc' # "clear"
    BY <1>4 DEF Routed, Attempts
  <2> QED
    BY <1>1, <1>2, <1>3, <1>4, <2>1, FileLeft, GoesOn
<1>5. CASE AttemptFails
  BY <1>1, <1>2, <1>3, <1>5, FileLeft, AttemptFailed
<1> QED
  BY <1>4, <1>5 DEF Open

(* What a verification that does not fail has found.                         *)
LEMMA Verified ==
  ASSUME NEW d, NEW pages, NEW sig, NEW proof \in BOOLEAN, NEW normalise \in BOOLEAN,
         NEW v \in VerifyRestoredDocument(d, pages, sig, proof, normalise), v # "failed"
  PROVE  /\ v \in {"signature", "normalised", "pages"}
         /\ v # "pages" => d[1] = sig[1]
         /\ proof /\ ~normalise => v = "signature" /\ d = sig
BY DEF VerifyRestoredDocument

LEMMA OkType ==
  ASSUME NEW v \in {"signature", "normalised", "pages"}
  PROVE  /\ Ok(v) \in ResultType /\ Ok(v).kind = "ok" /\ Ok(v).ev = v
         /\ [SetError EXCEPT !.ev = v] \in ResultType
         /\ [SetError EXCEPT !.ev = v].kind = "error"
         /\ ~[SetError EXCEPT !.ev = v].partial
         /\ [SetError EXCEPT !.ev = v].retrySafe
         /\ [SetError EXCEPT !.ev = v].ev = v
BY DEF Ok, SetError, NoResult, ResultType

LEMMA VerifyInv ==
  ASSUME IInv, Verify
  PROVE  IInv'
<1>1. /\ pc = "verify" /\ pc \in Attempts /\ pc # "idle" /\ pc \in {"authorize"} \cup Ends
      /\ UNCHANGED <<doc, moved, back, fwd, disk, cp, edits, crashed>>
  BY DEF Verify, Attempts, Ends
<1>2. /\ doc' \in Doc /\ disk' \in Doc /\ call \in CallType /\ moved' \in BOOLEAN
      /\ back' \in Seq(Doc) /\ fwd' \in Seq(Doc) /\ Len(back') + Len(fwd') <= MaxUndo
  BY <1>1, StateTypes
<1>3. CASE AttemptFails
  BY <1>1, <1>2, <1>3, FileLeft, AttemptFailed
<1>4. cp.sig \in Doc /\ cp.sig = cp.doc
  BY <1>1 DEF IInv, CheckpointSound
<1>5. ByFile \in BOOLEAN
  BY <1>2, CallTypes DEF ByFile
<1>6. CASE \E v \in IF call.aim = "target"
              THEN VerifyRestoredDocument(doc, Pages[cp.doc[1]], cp.sig, FALSE, ByFile)
              ELSE VerifyRestoredDocument(doc, call.pages, call.sig, FALSE, ByFile) :
             v # "failed" /\ Succeeds(v)
  <2>1. CASE call.aim = "target"
    <3>1. PICK v \in VerifyRestoredDocument(doc, Pages[cp.doc[1]], cp.sig, FALSE, ByFile) :
            v # "failed" /\ Succeeds(v)
      BY <1>6, <2>1
    <3>2. v \in {"signature", "normalised", "pages"} /\ (v # "pages" => doc[1] = cp.sig[1])
      BY <3>1 DEF VerifyRestoredDocument
    <3>3. Finish(Ok(v), FALSE)
      BY <2>1, <3>1 DEF Succeeds
    <3>4. TrueOutcome(Ok(v), FALSE)
      BY <1>1, <1>4, <3>2, OkType, FileLeft DEF TrueOutcome
    <3> QED
      BY <1>1, <1>2, <3>2, <3>3, <3>4, OkType, Ended
  <2>2. CASE call.aim # "target"
    <3>1. PICK v \in VerifyRestoredDocument(doc, call.pages, call.sig, FALSE, ByFile) :
            v # "failed" /\ Succeeds(v)
      BY <1>6, <2>2
    <3>2. v \in {"signature", "normalised", "pages"} /\ (v # "pages" => doc[1] = call.sig[1])
      BY <1>5, <3>1, Verified
    <3>3. Finish([SetError EXCEPT !.ev = v], FALSE)
      BY <2>2, <3>1 DEF Succeeds
    <3>4. call.aim = "rollback"
      BY <1>2, <2>2, CallTypes
    <3>5. doc'[1] \in call.seen \/ v = "pages"
      BY <1>1, <3>2, Copied DEF Found
    <3>6. call.usesFile \/ cp.kind # "file" => disk' = call.disk \/ disk'[1] \in call.seen
      BY <1>1, <3>4, FileLeft
    <3>7. TrueOutcome([SetError EXCEPT !.ev = v], FALSE)
      BY <3>2, <3>5, <3>6, OkType DEF TrueOutcome
    <3> QED
      BY <1>1, <1>2, <3>2, <3>3, <3>7, OkType, Ended
  <2> QED
    BY <2>1, <2>2
<1> QED
  BY <1>3, <1>6 DEF Verify


-----------------------------------------------------------------------------
(* The capture of the copy and the history of the engine. *)

(* A step of a running restore that does not end it.                         *)
LEMMA Runs ==
  ASSUME IInv, pc # "idle", pc' # "idle", pc' \in Places,
         UNCHANGED <<cp, kept, res, crashed>>,
         doc' \in Doc, disk' \in Doc, moved' \in BOOLEAN, edits' \in 0 .. MaxEdits,
         back' \in Seq(Doc), fwd' \in Seq(Doc), Len(back') + Len(fwd') <= MaxUndo,
         call' \in CallType, call'.n = call.n,
         files' = files \/ \E d \in Doc : files' = WithCopy(d),
         pc' \in {"undo", "redo"} => cp.p1, pc' \in Attempts => ~cp.p1,
         RestoreCaptured', Routed', Engine', FileKnown', EditsAreSeen'
  PROVE  IInv'
<1>1. call.n \in 1 .. MaxCalls /\ call'.n = call.n /\ call.n \notin kept
  <2>1. call.n > 0 /\ call.n \in 0 .. MaxCalls /\ call.n \notin kept
    BY DEF IInv, CopiesAccounted, TypeOK, Books
  <2> QED
    BY <2>1, BoundsAssumption DEF BoundsAssumption
<1>2. /\ DOMAIN files' \subseteq DOMAIN files \cup {call.n}
      /\ DOMAIN files \subseteq DOMAIN files'
      /\ \A n \in DOMAIN files' : files'[n] \in Doc
  <2>1. CASE files' = files
    BY <2>1 DEF IInv, CopiesAccounted, TypeOK
  <2>2. CASE \E d \in Doc : files' = WithCopy(d)
    <3>1. PICK d \in Doc : files' = WithCopy(d)
      BY <2>2
    <3>2. DOMAIN files' = DOMAIN files \cup {call.n}
      BY <3>1 DEF WithCopy, RollbackPath
    <3>3. \A n \in DOMAIN files' : files'[n] = IF n = call.n THEN d ELSE files[n]
      BY <3>1 DEF WithCopy, RollbackPath
    <3> QED
      BY <3>2, <3>3 DEF IInv, CopiesAccounted, TypeOK
  <2> QED
    BY <2>1, <2>2
<1>3. TypeOK'
  <2>1. Len(back') <= MaxUndo /\ Len(fwd') <= MaxUndo
    BY BoundsAssumption DEF BoundsAssumption
  <2>2. DOMAIN files' \subseteq 1 .. MaxCalls /\ kept' \subseteq DOMAIN files'
    BY <1>1, <1>2 DEF IInv, CopiesAccounted, TypeOK
  <2>3. call'.n \in 0 .. MaxCalls
    BY <1>1
  <2> QED
    BY <1>2, <2>1, <2>2, <2>3 DEF IInv, CopiesAccounted, TypeOK
<1>4. WayBack'
  <2>1. Replacing' => pc' \in Ends
    BY DEF Replacing, Ends
  <2> QED
    BY <2>1 DEF RestoreCaptured, WayBack, Failed, Found, RollbackPath
<1>5. NoLitter' /\ FileFollowsDocument' /\ UntouchedUnlessPartial' /\ StepPutBack'
      /\ RestoredIsCheckpoint'
  BY DEF NoLitter, FileFollowsDocument, UntouchedUnlessPartial, StepPutBack,
         RestoredIsCheckpoint, Failed
<1>6. Types'
  BY DEF IInv, Types
<1>7. Books'
  <2>1. DOMAIN files' \subseteq 1 .. call'.n
    BY <1>1, <1>2 DEF IInv, Books
  <2>2. ~crashed' => \A n \in DOMAIN files' : n \in kept' \/ (pc' # "idle" /\ n = call'.n)
    BY <1>1, <1>2 DEF IInv, Books
  <2> QED
    BY <1>1, <2>1, <2>2 DEF Books
<1>8. CheckpointSound'
  BY DEF IInv, CheckpointSound
<1> QED
  BY <1>3, <1>4, <1>5, <1>6, <1>7, <1>8 DEF IInv, CopiesAccounted, AnswersAreTrue

LEMMA OtherTypes ==
  ASSUME IInv
  PROVE  edits \in 0 .. MaxEdits /\ moved \in BOOLEAN
BY DEF IInv, CopiesAccounted, TypeOK

LEMMA SaveAsUnavailableInv ==
  ASSUME IInv, SaveAsUnavailable
  PROVE  IInv'
<1>1. /\ pc = "capture" /\ pc' = "block" /\ pc' \in Places /\ pc' \notin Ends
      /\ UNCHANGED <<doc, moved, back, fwd, disk, cp, files, kept, call, res, edits, crashed>>
  BY DEF SaveAsUnavailable, Places, Ends
<1>2. RestoreCaptured' /\ Routed' /\ Engine' /\ FileKnown' /\ EditsAreSeen'
  BY <1>1 DEF IInv, RestoreCaptured, Routed, Engine, FileKnown, EditsAreSeen, Found, Known,
              Pumping, Attempts
<1>3. pc' \notin Attempts
  BY <1>1 DEF Attempts
<1> QED
  BY <1>1, <1>2, <1>3, StateTypes, OtherTypes, Runs

LEMMA SaveAsInv ==
  ASSUME IInv, SaveAs
  PROVE  IInv'
<1>1. /\ pc = "capture" /\ pc' = "sign" /\ pc' \in Places /\ pc' \notin Ends
      /\ files' = WithCopy(doc)
      /\ call' = [call EXCEPT !.usesFile = TRUE, !.copy = doc]
      /\ UNCHANGED <<doc, back, fwd, cp, kept, res, edits, crashed>>
      /\ moved' \in {moved, TRUE} /\ disk' \in {disk, doc}
  BY DEF SaveAs, Places, Ends
<1>2. doc \in Doc /\ disk \in Doc /\ call \in CallType
  BY StateTypes
<1>3. /\ call' \in CallType /\ call'.n = call.n /\ call'.seen = call.seen
      /\ call'.disk = call.disk /\ call'.copy = doc
  BY <1>1, <1>2 DEF CallType
<1>4. call'.n \in DOMAIN files' /\ files'[call'.n] = doc
  BY <1>1, <1>3 DEF WithCopy, RollbackPath
<1>5. Found(doc) /\ Known(disk)
  BY <1>1 DEF IInv, RestoreCaptured, FileKnown, Pumping
<1>6. RestoreCaptured'
  BY <1>1, <1>3, <1>4, <1>5 DEF RestoreCaptured, Found, Pumping
<1>7. Routed' /\ Engine' /\ EditsAreSeen'
  BY <1>1 DEF Routed, Engine, EditsAreSeen
<1>8. FileKnown'
  BY <1>1, <1>3, <1>5 DEF FileKnown, Known, Found, Attempts
<1>9. pc' \notin Attempts /\ disk' \in Doc /\ moved' \in BOOLEAN
  BY <1>1, <1>2, OtherTypes DEF Attempts
<1> QED
  BY <1>1, <1>2, <1>3, <1>6, <1>7, <1>8, <1>9, StateTypes, OtherTypes, Runs

LEMMA CaptureDocumentBlockInv ==
  ASSUME IInv, CaptureDocumentBlock
  PROVE  IInv'
<1>1. /\ pc = "block" /\ pc' = "sign" /\ pc' \in Places /\ pc' \notin Ends
      /\ call' = [call EXCEPT !.copy = doc]
      /\ UNCHANGED <<doc, moved, back, fwd, disk, cp, files, kept, res, edits, crashed>>
  BY DEF CaptureDocumentBlock, Places, Ends
<1>2. doc \in Doc /\ call \in CallType
  BY StateTypes
<1>3. /\ call' \in CallType /\ call'.n = call.n /\ call'.seen = call.seen
      /\ call'.disk = call.disk /\ call'.copy = doc /\ call'.usesFile = call.usesFile
  BY <1>1, <1>2 DEF CallType
<1>4. ~call.usesFile
  BY <1>1 DEF IInv, RestoreCaptured
<1>5. Found(doc) /\ Known(disk)
  BY <1>1 DEF IInv, RestoreCaptured, FileKnown, Pumping
<1>6. RestoreCaptured'
  BY <1>1, <1>3, <1>4, <1>5 DEF RestoreCaptured, Found, Pumping
<1>7. Routed' /\ Engine' /\ EditsAreSeen'
  BY <1>1 DEF Routed, Engine, EditsAreSeen
<1>8. FileKnown'
  BY <1>1, <1>3, <1>5 DEF FileKnown, Known, Found, Attempts
<1>9. pc' \notin Attempts
  BY <1>1 DEF Attempts
<1> QED
  BY <1>1, <1>2, <1>3, <1>6, <1>7, <1>8, <1>9, StateTypes, OtherTypes, Runs

LEMMA SignInv ==
  ASSUME IInv, Sign
  PROVE  IInv'
<1>1. /\ pc = "sign" /\ pc' = "authorize" /\ pc' \in Places /\ pc' \notin Ends
      /\ call' = [call EXCEPT !.sig = doc, !.pages = Pages[doc[1]]]
      /\ files' = IF call.usesFile THEN files ELSE WithCopy(call.copy)
      /\ UNCHANGED <<doc, moved, back, fwd, disk, cp, kept, res, edits, crashed>>
  BY DEF Sign, Places, Ends
<1>2. doc \in Doc /\ call \in CallType /\ call.copy \in Doc /\ Pages[doc[1]] \in Nat
  <2>1. doc \in Doc /\ call \in CallType /\ call.copy \in Doc
    BY StateTypes, CallTypes
  <2>2. doc[1] \in Bodies \cup {Empty, Broken}
    BY <2>1, Docs
  <2> QED
    BY <2>1, <2>2, BodiesAssumption DEF BodiesAssumption
<1>3. /\ call' \in CallType /\ call'.n = call.n /\ call'.seen = call.seen
      /\ call'.disk = call.disk /\ call'.copy = call.copy /\ call'.sig = doc
  BY <1>1, <1>2 DEF CallType
<1>4. Found(doc) /\ Known(disk) /\ Found(call.copy)
      /\ (call.usesFile => call.n \in DOMAIN files /\ files[call.n] = call.copy)
  BY <1>1 DEF IInv, RestoreCaptured, FileKnown, Pumping
<1>5. call'.n \in DOMAIN files' /\ files'[call'.n] = call'.copy
  BY <1>1, <1>3, <1>4 DEF WithCopy, RollbackPath
<1>6. RestoreCaptured'
  BY <1>1, <1>2, <1>3, <1>4, <1>5 DEF RestoreCaptured, Found, Pumping
<1>7. Routed' /\ Engine' /\ EditsAreSeen'
  BY <1>1 DEF Routed, Engine, EditsAreSeen
<1>8. FileKnown'
  BY <1>1, <1>3, <1>4 DEF FileKnown, Known, Found, Attempts
<1>9. pc' \notin Attempts
  BY <1>1 DEF Attempts
<1>10. files' = files \/ \E d \in Doc : files' = WithCopy(d)
  BY <1>1, <1>2
<1> QED
  BY <1>1, <1>3, <1>6, <1>7, <1>8, <1>9, <1>10, StateTypes, OtherTypes, Runs


LEMMA ErrorType ==
  /\ SetError \in ResultType /\ SetError.kind = "error" /\ ~SetError.partial /\ SetError.retrySafe
  /\ EngineHistoryDrift \in ResultType /\ EngineHistoryDrift.kind = "error"
  /\ ~EngineHistoryDrift.partial
BY DEF SetError, EngineHistoryDrift, NoResult, ResultType

(* A capture that fails leaves the document as it was, and its file as it    *)
(* was or as the document was.                                               *)
LEMMA CaptureEnded ==
  ASSUME IInv, Pumping, Finish(SetError, FALSE), moved' \in BOOLEAN, disk' \in {disk, doc},
         UNCHANGED <<doc, back, fwd, cp, edits, crashed>>
  PROVE  IInv'
<1>1. pc # "idle" /\ Found(doc) /\ Known(disk)
  BY DEF IInv, RestoreCaptured, FileKnown, Pumping
<1>2. TrueOutcome(SetError, FALSE)
  BY <1>1, ErrorType DEF TrueOutcome, Found, Known
<1> QED
  BY <1>1, <1>2, ErrorType, StateTypes, Ended

LEMMA SaveAsStrandedInv ==
  ASSUME IInv, SaveAsStranded
  PROVE  IInv'
BY CaptureEnded DEF SaveAsStranded, Pumping

LEMMA CaptureFailsInv ==
  ASSUME IInv, CaptureFails
  PROVE  IInv'
<1>1. Pumping /\ Finish(SetError, FALSE)
      /\ UNCHANGED <<doc, moved, back, fwd, disk, cp, edits, crashed>>
  BY DEF CaptureFails, Pumping
<1> QED
  BY <1>1, StateTypes, CaptureEnded

LEMMA AuthorizeCheckpointMutationInv ==
  ASSUME IInv, AuthorizeCheckpointMutation
  PROVE  IInv'
<1>1. /\ pc = "authorize" /\ Pumping /\ pc # "idle"
      /\ UNCHANGED <<doc, moved, back, fwd, disk, cp, edits, crashed>>
  BY DEF AuthorizeCheckpointMutation, Pumping
<1>2. PICK actual \in CaptureContentSignature(doc) :
        IF Authorized(actual)
        THEN /\ pc' = IF cp.p1 THEN "undo" ELSE "clear"
             /\ call' = [call EXCEPT !.undo = back]
             /\ UNCHANGED <<files, kept, res>>
        ELSE Finish(SetError, FALSE)
  BY DEF AuthorizeCheckpointMutation
<1>3. CASE ~Authorized(actual)
  <2>1. Finish(SetError, FALSE)
    BY <1>2, <1>3
  <2> QED
    BY <1>1, <2>1, StateTypes, CaptureEnded
<1>4. CASE Authorized(actual)
  <2>1. /\ pc' = IF cp.p1 THEN "undo" ELSE "clear"
        /\ call' = [call EXCEPT !.undo = back]
        /\ UNCHANGED <<files, kept, res>>
    BY <1>2, <1>4
  <2>2. ~moved /\ (call.expected = Unread \/ doc = call.expected)
    <3>1. ContentSignatureIsComplete(call.expected) => call.expected \in Doc
      BY DEF ContentSignatureIsComplete
    <3> QED
      BY <1>2, <1>4, <3>1, Docs DEF Authorized, CaptureContentSignature
  <2>3. /\ call' \in CallType /\ call'.n = call.n /\ call'.seen = call.seen
        /\ call'.disk = call.disk /\ call'.copy = call.copy /\ call'.sig = call.sig
        /\ call'.usesFile = call.usesFile /\ call'.expected = call.expected
        /\ call'.undo = back
    <3>1. call \in CallType /\ back \in Seq(Doc)
      BY StateTypes
    <3> QED
      BY <2>1, <3>1 DEF CallType
  <2>4. Found(doc) /\ Known(disk)
    BY <1>1 DEF IInv, RestoreCaptured, FileKnown
  <2>5. /\ call.n \in DOMAIN files /\ files[call.n] = call.copy
        /\ Found(call.copy) /\ call.sig \in Doc /\ Found(call.sig)
    BY <1>1, Copied
  <2>6. pc' \in {"undo", "clear"} /\ pc' \in Places /\ pc' # "idle"
    BY <2>1 DEF Places, Ends
  <2>7. pc' \in {"undo", "redo"} => cp.p1
    BY <2>1
  <2>8. pc' \in Attempts => ~cp.p1
    BY <2>1 DEF Attempts
  <2>9. RestoreCaptured'
    BY <1>1, <2>1, <2>3, <2>4, <2>5, <2>6 DEF RestoreCaptured, Found, Pumping
  <2>10. Routed'
    BY <2>6 DEF Routed
  <2>11. Engine'
    BY <1>1, <2>3, <2>6 DEF Engine
  <2>12. FileKnown'
    BY <1>1, <2>3, <2>4, <2>6 DEF FileKnown, Known, Found
  <2>13. EditsAreSeen'
    BY <1>1, <2>2, <2>3 DEF EditsAreSeen
  <2> QED
    BY <1>1, <2>1, <2>3, <2>6, <2>7, <2>8, <2>9, <2>10, <2>11, <2>12, <2>13,
       StateTypes, OtherTypes, Runs
<1> QED
  BY <1>3, <1>4

(* What one step of the history leaves, when the engine takes it or not.     *)
LEMMA SteppedBack ==
  ASSUME IInv, Stepped(back, fwd)
  PROVE  /\ doc' \in Doc /\ back' \in Seq(Doc) /\ fwd' \in Seq(Doc)
         /\ Len(back') + Len(fwd') <= MaxUndo
         /\ fwd' # <<>> /\ Head(fwd') = doc /\ <<doc'>> \o back' = back
<1>1. /\ back # <<>> /\ doc' = Head(back) /\ fwd' = <<doc>> \o fwd /\ back' = Tail(back)
      /\ doc \in Doc /\ back \in Seq(Doc) /\ fwd \in Seq(Doc)
      /\ Len(back) + Len(fwd) <= MaxUndo
  BY StateTypes DEF Stepped
<1>2. /\ Head(back) \in Doc /\ Tail(back) \in Seq(Doc) /\ <<doc>> \o fwd \in Seq(Doc)
      /\ <<doc>> \o fwd # <<>> /\ Head(<<doc>> \o fwd) = doc
      /\ Len(Tail(back)) + Len(<<doc>> \o fwd) = Len(back) + Len(fwd)
      /\ back = <<Head(back)>> \o Tail(back)
  BY <1>1, SteppedTypes
<1> QED
  BY <1>1, <1>2

LEMMA SteppedForth ==
  ASSUME IInv, Stepped(fwd, back)
  PROVE  /\ doc' \in Doc /\ back' \in Seq(Doc) /\ fwd' \in Seq(Doc)
         /\ Len(back') + Len(fwd') <= MaxUndo
         /\ doc' = Head(fwd) /\ back' = <<doc>> \o back
<1>1. /\ fwd # <<>> /\ doc' = Head(fwd) /\ back' = <<doc>> \o back /\ fwd' = Tail(fwd)
      /\ doc \in Doc /\ back \in Seq(Doc) /\ fwd \in Seq(Doc)
      /\ Len(back) + Len(fwd) <= MaxUndo /\ Len(back) \in Nat /\ Len(fwd) \in Nat
  BY StateTypes DEF Stepped
<1>2. /\ Head(fwd) \in Doc /\ Tail(fwd) \in Seq(Doc) /\ <<doc>> \o back \in Seq(Doc)
      /\ Len(Tail(fwd)) + Len(<<doc>> \o back) = Len(fwd) + Len(back)
  BY <1>1, SteppedTypes
<1>3. Len(<<doc>> \o back) \in Nat /\ Len(Tail(fwd)) \in Nat
  BY <1>2
<1> QED
  BY <1>1, <1>2, <1>3

(* An engine that does not do what it was asked: the copy is kept.           *)
LEMMA EngineFailed ==
  ASSUME IInv, pc \in {"undo", "redo"}, Finish(PartialMutation, TRUE),
         UNCHANGED <<moved, disk, cp, edits, crashed>>,
         doc' \in Doc, back' \in Seq(Doc), fwd' \in Seq(Doc),
         Len(back') + Len(fwd') <= MaxUndo
  PROVE  IInv'
<1>1. pc # "idle" /\ pc \in {"authorize"} \cup Ends
  BY DEF Ends
<1>2. TrueOutcome(PartialMutation, TRUE)
  BY <1>1, Copied, PartialType DEF TrueOutcome
<1> QED
  BY <1>1, <1>2, PartialType, StateTypes, Ended

LEMMA UndoRefusedInv ==
  ASSUME IInv, UndoRefused
  PROVE  IInv'
<1>1. /\ pc = "undo" /\ Finish(PartialMutation, TRUE)
      /\ UNCHANGED <<moved, disk, cp, edits, crashed>>
      /\ UNCHANGED <<doc, back, fwd>> \/ Stepped(back, fwd)
  BY DEF UndoRefused
<1>2. CASE UNCHANGED <<doc, back, fwd>>
  BY <1>1, <1>2, StateTypes, EngineFailed
<1>3. CASE Stepped(back, fwd)
  BY <1>1, <1>3, SteppedBack, EngineFailed
<1> QED
  BY <1>1, <1>2, <1>3

LEMMA RedoRefusedInv ==
  ASSUME IInv, RedoRefused
  PROVE  IInv'
<1>1. /\ pc = "redo" /\ Finish(PartialMutation, TRUE)
      /\ UNCHANGED <<moved, disk, cp, edits, crashed>>
      /\ UNCHANGED <<doc, back, fwd>> \/ Stepped(fwd, back)
  BY DEF RedoRefused
<1>2. CASE UNCHANGED <<doc, back, fwd>>
  BY <1>1, <1>2, StateTypes, EngineFailed
<1>3. CASE Stepped(fwd, back)
  BY <1>1, <1>3, SteppedForth, EngineFailed
<1> QED
  BY <1>1, <1>2, <1>3

LEMMA UndoInv ==
  ASSUME IInv, Undo
  PROVE  IInv'
<1>1. /\ pc = "undo" /\ pc # "idle" /\ pc \in {"authorize"} \cup Ends /\ Stepped(back, fwd)
      /\ UNCHANGED <<moved, disk, cp, edits, crashed>>
  BY DEF Undo, Ends
<1>2. /\ doc' \in Doc /\ back' \in Seq(Doc) /\ fwd' \in Seq(Doc)
      /\ Len(back') + Len(fwd') <= MaxUndo
      /\ fwd' # <<>> /\ Head(fwd') = doc /\ <<doc'>> \o back' = back
  BY <1>1, SteppedBack
<1>3. cp.sig \in Doc /\ cp.sig = cp.doc /\ cp.p1 /\ Found(doc) /\ Known(disk) /\ call.undo = back
  BY <1>1 DEF IInv, CheckpointSound, RestoreCaptured, FileKnown, Engine
<1>4. CASE pc' = "redo" /\ UNCHANGED <<files, kept, res, call>>
  <2>1. RestoreCaptured'
    BY <1>1, <1>4, Copied DEF RestoreCaptured, Found, Pumping
  <2>2. Engine'
    BY <1>2, <1>3, <1>4 DEF Engine, Found
  <2>3. Routed' /\ EditsAreSeen'
    BY <1>4 DEF Routed, EditsAreSeen
  <2>4. FileKnown'
    BY <1>1, <1>3, <1>4 DEF FileKnown, Known, Found, Attempts
  <2>5. pc' \in Places /\ pc' # "idle" /\ pc' \notin Attempts
    BY <1>4 DEF Places, Ends, Attempts
  <2> QED
    BY <1>1, <1>2, <1>3, <1>4, <2>1, <2>2, <2>3, <2>4, <2>5, StateTypes, OtherTypes, Runs
<1>5. CASE \E v \in VerifyRestoredDocument(doc', Pages[cp.doc[1]], cp.sig, TRUE, FALSE) :
             v # "failed" /\ Finish(Ok(v), FALSE)
  <2>1. PICK v \in VerifyRestoredDocument(doc', Pages[cp.doc[1]], cp.sig, TRUE, FALSE) :
          v # "failed" /\ Finish(Ok(v), FALSE)
    BY <1>5
  <2>2. v \in {"signature", "normalised", "pages"} /\ doc' = cp.sig
    BY <2>1 DEF VerifyRestoredDocument
  <2>3. TrueOutcome(Ok(v), FALSE)
    BY <1>3, <2>2, OkType DEF TrueOutcome
  <2> QED
    BY <1>1, <1>2, <2>1, <2>2, <2>3, OkType, StateTypes, Ended
<1> QED
  BY <1>4, <1>5 DEF Undo

LEMMA RedoInv ==
  ASSUME IInv, Redo
  PROVE  IInv'
<1>1. /\ pc = "redo" /\ pc # "idle" /\ pc \in {"authorize"} \cup Ends /\ Stepped(fwd, back)
      /\ UNCHANGED <<moved, disk, cp, edits, crashed>>
      /\ Finish(PartialMutation, TRUE) \/ Finish(EngineHistoryDrift, FALSE)
  BY DEF Redo, Ends
<1>2. /\ doc' \in Doc /\ back' \in Seq(Doc) /\ fwd' \in Seq(Doc)
      /\ Len(back') + Len(fwd') <= MaxUndo
      /\ doc' = Head(fwd) /\ back' = <<doc>> \o back
  BY <1>1, SteppedForth
<1>3. Found(Head(fwd)) /\ call.undo = <<doc>> \o back /\ Known(disk)
  BY <1>1 DEF IInv, FileKnown, Engine
<1>4. CASE Finish(PartialMutation, TRUE)
  BY <1>1, <1>2, <1>4, EngineFailed
<1>5. CASE Finish(EngineHistoryDrift, FALSE)
  <2>1. TrueOutcome(EngineHistoryDrift, FALSE)
    BY <1>1, <1>2, <1>3, ErrorType DEF TrueOutcome, Found, Known
  <2> QED
    BY <1>1, <1>2, <1>5, <2>1, ErrorType, StateTypes, Ended
<1> QED
  BY <1>1, <1>4, <1>5


-----------------------------------------------------------------------------
(* Between the restores. *)

(* A step after which no restore runs, and that ends none.                   *)
LEMMA Rests ==
  ASSUME IInv, pc' = "idle", UNCHANGED <<files, kept>>,
         crashed' = TRUE \/ (pc = "idle" /\ crashed' = crashed),
         doc' \in Doc, disk' \in Doc, moved' \in BOOLEAN, edits' \in 0 .. MaxEdits,
         back' \in Seq(Doc), fwd' \in Seq(Doc), Len(back') + Len(fwd') <= MaxUndo,
         call' \in CallType, call'.n = call.n,
         cp' \in CheckpointType, CheckpointSound',
         res' \in ResultType, res'.kind # "ok", res'.kind = "error" => ~res'.partial,
         FileFollowsDocument', UntouchedUnlessPartial', StepPutBack'
  PROVE  IInv'
<1>1. TypeOK'
  <2>1. Len(back') <= MaxUndo /\ Len(fwd') <= MaxUndo
    BY BoundsAssumption DEF BoundsAssumption
  <2>2. cp'.kind \in {"none", "file", "block"} /\ cp'.doc \in Doc /\ crashed' \in BOOLEAN
    BY DEF CheckpointType, IInv, CopiesAccounted, TypeOK
  <2> QED
    BY <2>1, <2>2 DEF IInv, CopiesAccounted, TypeOK
<1>2. WayBack' /\ RestoredIsCheckpoint' /\ EditsAreSeen'
  BY DEF WayBack, RestoredIsCheckpoint, EditsAreSeen, Replacing, Failed
<1>3. NoLitter'
  BY DEF IInv, CopiesAccounted, NoLitter
<1>4. Types' /\ Books'
  <2>1. Types'
    BY DEF Types, Places
  <2>2. Books'
    BY DEF IInv, CopiesAccounted, NoLitter, Books
  <2> QED
    BY <2>1, <2>2
<1>5. RestoreCaptured' /\ Routed' /\ Engine' /\ FileKnown'
  BY DEF RestoreCaptured, Routed, Engine, FileKnown, Pumping, Ends, Attempts
<1> QED
  BY <1>1, <1>2, <1>3, <1>4, <1>5 DEF IInv, CopiesAccounted, AnswersAreTrue

LEMMA NoResultType ==
  NoResult \in ResultType /\ ~NoResult.partial /\ NoResult.kind = "none"
BY DEF NoResult, ResultType

(* No answer, nothing said.                                                  *)
LEMMA NothingSaid ==
  ASSUME res'.kind # "error"
  PROVE  FileFollowsDocument' /\ UntouchedUnlessPartial' /\ StepPutBack'
BY DEF FileFollowsDocument, UntouchedUnlessPartial, StepPutBack, Failed

LEMMA Edited ==
  ASSUME IInv, edits < MaxEdits, edits' = edits + 1, back' = Push(doc), fwd' = <<>>,
         NEW b \in Bodies, doc' = <<b, doc[2]>>
  PROVE  /\ doc' \in Doc /\ doc'[1] = b /\ edits' \in 0 .. MaxEdits
         /\ back' \in Seq(Doc) /\ fwd' \in Seq(Doc) /\ Len(back') + Len(fwd') <= MaxUndo
<1>1. doc' \in Doc /\ doc'[1] = b
  BY StateTypes, Docs
<1>2. edits' \in 0 .. MaxEdits
  BY OtherTypes, BoundsAssumption DEF BoundsAssumption
<1>3. Push(doc) \in Seq(Doc) /\ Len(Push(doc)) <= MaxUndo
  <2>1. Len(back) <= MaxUndo /\ back \in Seq(Doc) /\ doc \in Doc
    BY StateTypes
  <2> QED
    BY <2>1, PushType
<1> QED
  BY <1>1, <1>2, <1>3

LEMMA UserEditInv ==
  ASSUME IInv, UserEdit
  PROVE  IInv'
<1>1. /\ pc = "idle" \/ Pumping
      /\ edits < MaxEdits /\ edits' = edits + 1 /\ back' = Push(doc) /\ fwd' = <<>>
      /\ res' = IF pc = "idle" THEN NoResult ELSE res
      /\ UNCHANGED <<moved, disk, cp, files, kept, pc, crashed>>
  BY DEF UserEdit
<1>2. PICK b \in Bodies \ {doc[1]} :
        /\ doc' = <<b, doc[2]>>
        /\ call' = [call EXCEPT !.seen = IF pc = "idle" THEN @ ELSE @ \cup {b}]
  BY DEF UserEdit
<1>3. /\ doc' \in Doc /\ doc'[1] = b /\ edits' \in 0 .. MaxEdits
      /\ back' \in Seq(Doc) /\ fwd' \in Seq(Doc) /\ Len(back') + Len(fwd') <= MaxUndo
  BY <1>1, <1>2, Edited
<1>4. /\ call' \in CallType /\ call'.n = call.n /\ call'.disk = call.disk
      /\ call'.copy = call.copy /\ call'.sig = call.sig /\ call'.usesFile = call.usesFile
      /\ call.seen \subseteq call'.seen /\ (pc # "idle" => b \in call'.seen)
  <2>1. call \in CallType /\ call.seen \subseteq Bodies \cup {Empty, Broken} /\ b \in Bodies
    BY <1>2, StateTypes, CallTypes
  <2> QED
    BY <1>2, <2>1 DEF CallType
<1>5. CASE pc = "idle"
  <2>1. res' = NoResult /\ CheckpointSound'
    BY <1>1, <1>5, NoResultType DEF IInv, CheckpointSound, Attempts
  <2> QED
    BY <1>1, <1>3, <1>4, <1>5, <2>1, NoResultType, NothingSaid, StateTypes, Rests
<1>6. CASE Pumping
  <2>1. pc # "idle" /\ pc' = pc /\ pc \in Places /\ pc \notin Ends /\ pc \notin Attempts
        /\ res' = res /\ pc \notin {"undo", "redo"}
    BY <1>1, <1>6 DEF Pumping, Places, Ends, Attempts
  <2>2. Known(disk) /\ Found(doc)
    BY <1>6 DEF IInv, FileKnown, RestoreCaptured
  <2>3. RestoreCaptured'
    <3>1. Pumping' /\ Found(doc)'
      BY <1>1, <1>3, <1>4, <1>6, <2>1 DEF Pumping, Found
    <3>2. /\ pc \in {"sign", "authorize"} => call.copy[1] \in call.seen
          /\ pc = "authorize" \/ (pc = "sign" /\ call.usesFile) =>
               call.n \in DOMAIN files /\ files[call.n] = call.copy
          /\ pc = "authorize" => call.sig \in Doc /\ call.sig[1] \in call.seen
          /\ pc \in {"capture", "block"} => ~call.usesFile
      BY DEF IInv, RestoreCaptured, Found
    <3> QED
      BY <1>1, <1>4, <2>1, <3>1, <3>2 DEF RestoreCaptured, Found
  <2>4. Routed' /\ Engine' /\ EditsAreSeen'
    BY <2>1, <1>6 DEF Routed, Engine, EditsAreSeen, Pumping
  <2>5. FileKnown'
    BY <1>1, <1>4, <2>1, <2>2, <1>6 DEF FileKnown, Known, Found, Attempts
  <2> QED
    BY <1>1, <1>3, <1>4, <2>1, <2>3, <2>4, <2>5, StateTypes, Runs
<1> QED
  BY <1>1, <1>5, <1>6

LEMMA SaveDocumentFileInv ==
  ASSUME IInv, SaveDocumentFile
  PROVE  IInv'
<1>1. /\ pc = "idle" /\ cp.kind = "none" /\ res.kind = "none"
      /\ UNCHANGED <<doc, moved, back, fwd, disk, files, kept, pc, call, res, edits, crashed>>
  BY DEF SaveDocumentFile, IInv, CheckpointSound
<1>2. PICK kind \in {"file", "block"}, s \in {doc, Partial} :
        cp' = [NoCheckpoint EXCEPT !.kind = kind, !.doc = doc, !.sig = s]
  BY DEF SaveDocumentFile
<1>3. /\ cp' \in CheckpointType /\ cp'.kind = kind /\ cp'.doc = doc /\ cp'.sig = s /\ ~cp'.p1
  <2>1. doc \in Doc /\ s \in Signature /\ Unread \in Signature
    BY StateTypes DEF Signature
  <2> QED
    BY <1>2, <2>1 DEF NoCheckpoint, CheckpointType
<1>4. CheckpointSound'
  BY <1>1, <1>2, <1>3, Docs DEF CheckpointSound, Attempts
<1>5. FileFollowsDocument' /\ UntouchedUnlessPartial' /\ StepPutBack'
  BY <1>1, NothingSaid
<1> QED
  BY <1>1, <1>3, <1>4, <1>5, StateTypes, OtherTypes, Rests

LEMMA SingleTextEditInv ==
  ASSUME IInv, SingleTextEdit
  PROVE  IInv'
<1>1. /\ pc = "idle" /\ cp.kind = "file" /\ cp.sig = doc /\ doc = cp.doc
      /\ edits < MaxEdits /\ edits' = edits + 1
      /\ back' = Push(doc) /\ fwd' = <<>> /\ res' = NoResult
      /\ UNCHANGED <<moved, disk, files, kept, pc, call, crashed>>
  BY DEF SingleTextEdit
<1>2. PICK b \in Bodies \ {doc[1]}, lost \in BOOLEAN :
        /\ doc' = <<b, doc[2]>>
        /\ cp' = [cp EXCEPT !.p1 = TRUE, !.origin = IF lost THEN Partial ELSE doc']
  BY DEF SingleTextEdit
<1>3. /\ doc' \in Doc /\ edits' \in 0 .. MaxEdits
      /\ back' \in Seq(Doc) /\ fwd' \in Seq(Doc) /\ Len(back') + Len(fwd') <= MaxUndo
  BY <1>1, <1>2, Edited
<1>4. /\ cp' \in CheckpointType /\ cp'.kind = "file" /\ cp'.sig = cp.sig /\ cp'.doc = cp.doc
  <2>1. cp \in CheckpointType /\ Partial \in Signature /\ doc' \in Signature
    BY <1>3, StateTypes DEF Signature
  <2> QED
    BY <1>1, <1>2, <2>1 DEF CheckpointType
<1>5. CheckpointSound'
  BY <1>1, <1>4 DEF CheckpointSound, Attempts
<1> QED
  BY <1>1, <1>3, <1>4, <1>5, NoResultType, NothingSaid, StateTypes, Rests

(* What a call knows as it begins.                                           *)
LEMMA Begun ==
  ASSUME IInv, NEW expected \in Signature
  PROVE  /\ Begin(expected) \in CallType /\ Begin(expected).n = call.n
         /\ Begin(expected).expected = expected /\ Begin(expected).seen = {doc[1]}
         /\ Begin(expected).disk = disk /\ ~Begin(expected).usesFile
<1>1. /\ call.n \in Nat /\ disk \in Doc /\ {doc[1]} \subseteq Bodies \cup {Empty, Broken}
  BY StateTypes, CallTypes, Docs
<1> QED
  BY <1>1, NoCallType DEF Begin, NoCall, CallType

LEMMA RestoreRefusedInv ==
  ASSUME IInv, RestoreRefused
  PROVE  IInv'
<1>1. /\ pc = "idle" /\ cp.kind # "none" /\ call' = Begin(Unread) /\ res' = SetError
      /\ UNCHANGED <<doc, moved, back, fwd, disk, cp, files, kept, pc, edits, crashed>>
  BY DEF RestoreRefused
<1>2. /\ call' \in CallType /\ call'.n = call.n /\ call'.seen = {doc[1]} /\ call'.disk = disk
  BY <1>1, Begun DEF Signature
<1>3. FileFollowsDocument' /\ UntouchedUnlessPartial' /\ StepPutBack'
  BY <1>1, <1>2, ErrorType DEF FileFollowsDocument, UntouchedUnlessPartial, StepPutBack, Found
<1>4. CheckpointSound'
  BY <1>1 DEF IInv, CheckpointSound, Attempts
<1> QED
  BY <1>1, <1>2, <1>3, <1>4, ErrorType, StateTypes, OtherTypes, Rests

LEMMA HangulDiesInv ==
  ASSUME IInv, HangulDies
  PROVE  IInv'
<1>1. /\ crashed' = TRUE /\ doc' = disk /\ moved' = FALSE /\ back' = <<>> /\ fwd' = <<>>
      /\ pc' = "idle" /\ res' = NoResult /\ call' = Done
      /\ UNCHANGED <<disk, cp, files, kept, edits>>
  BY DEF HangulDies
<1>2. call' \in CallType /\ call'.n = call.n
  BY <1>1, StateTypes, DoneType
<1>3. <<>> \in Seq(Doc) /\ Len(<<>>) + Len(<<>>) <= MaxUndo
  BY StateTypes
<1>4. CheckpointSound'
  BY <1>1, NoResultType DEF IInv, CheckpointSound, Attempts
<1> QED
  BY <1>1, <1>2, <1>3, <1>4, NoResultType, NothingSaid, StateTypes, OtherTypes, Rests

LEMMA RestoreInv ==
  ASSUME IInv, Restore
  PROVE  IInv'
<1>1. /\ pc = "idle" /\ cp.kind # "none" /\ call.n < MaxCalls /\ Readable
      /\ pc' = "capture" /\ res' = NoResult
      /\ UNCHANGED <<doc, moved, back, fwd, disk, cp, files, kept, edits, crashed>>
  BY DEF Restore
<1>2. PICK expected \in {Unread, doc, cp.origin, cp.doc} :
        call' = [Begin(expected) EXCEPT !.n = call.n + 1]
  BY DEF Restore
<1>3. /\ call' \in CallType /\ call'.n = call.n + 1 /\ call'.seen = {doc[1]}
      /\ call'.disk = disk /\ ~call'.usesFile /\ call.n \in Nat
  <2>1. expected \in Signature
    BY StateTypes DEF Signature
  <2>2. call.n \in Nat
    BY StateTypes, CallTypes
  <2> QED
    BY <1>2, <2>1, <2>2, Begun DEF CallType
<1>4. DOMAIN files \subseteq 1 .. call.n /\ kept \subseteq DOMAIN files
  BY DEF IInv, Books, CopiesAccounted, TypeOK
<1>5. TypeOK'
  <2>1. call'.n \in 0 .. MaxCalls
    BY <1>1, <1>3, BoundsAssumption DEF BoundsAssumption
  <2> QED
    BY <1>1, <2>1 DEF IInv, CopiesAccounted, TypeOK
<1>6. WayBack' /\ NoLitter' /\ FileFollowsDocument' /\ AnswersAreTrue'
  BY <1>1 DEF WayBack, NoLitter, FileFollowsDocument, AnswersAreTrue, UntouchedUnlessPartial,
              RestoredIsCheckpoint, EditsAreSeen, StepPutBack, Failed, Replacing
<1>7. Types'
  BY <1>1, <1>3, NoResultType, StateTypes DEF Types, Places
<1>8. Books'
  <2>1. DOMAIN files' \subseteq 1 .. call'.n
    BY <1>1, <1>3, <1>4
  <2>2. call'.n > 0 /\ call'.n \notin kept'
    BY <1>1, <1>3, <1>4
  <2>3. ~crashed' => DOMAIN files' = kept'
    BY <1>1 DEF IInv, CopiesAccounted, NoLitter
  <2> QED
    BY <2>1, <2>2, <2>3 DEF Books
<1>9. CheckpointSound'
  BY <1>1, NoResultType DEF IInv, CheckpointSound, Attempts, Readable, ContentSignatureIsComplete
<1>10. RestoreCaptured' /\ Routed' /\ Engine'
  BY <1>1, <1>3 DEF RestoreCaptured, Routed, Engine, Found, Pumping, Ends
<1>11. FileKnown'
  BY <1>1, <1>3 DEF FileKnown, Known, Attempts
<1> QED
  BY <1>5, <1>6, <1>7, <1>8, <1>9, <1>10, <1>11 DEF IInv, CopiesAccounted


-----------------------------------------------------------------------------
(* The theorems. *)

LEMMA InitInv ==
  ASSUME Init
  PROVE  IInv
<1>1. /\ doc = <<Initial, 0>> /\ disk = doc /\ moved = FALSE
      /\ back = <<>> /\ fwd = <<>> /\ cp = NoCheckpoint
      /\ files = <<>> /\ kept = {}
      /\ pc = "idle" /\ call = NoCall /\ res = NoResult
      /\ edits = 0 /\ crashed = FALSE
  BY DEF Init
<1>2. doc \in Doc /\ disk \in Doc
  BY <1>1, BodiesAssumption DEF BodiesAssumption, Doc, Forms
<1>3. DOMAIN files = {}
  BY <1>1
<1>4. NoCheckpoint \in CheckpointType /\ NoCheckpoint.kind = "none" /\ ~NoCheckpoint.p1
      /\ NoCheckpoint.sig \notin Doc
  BY Docs DEF NoCheckpoint, CheckpointType, Signature
<1>5. call \in CallType /\ call.n = 0
  BY <1>1, NoCallType DEF NoCall
<1>6. <<>> \in Seq(Doc) /\ Len(<<>>) = 0
  OBVIOUS
<1>7. TypeOK
  <2>1. Len(back) <= MaxUndo /\ Len(fwd) <= MaxUndo /\ back \in Seq(Doc) /\ fwd \in Seq(Doc)
    BY <1>1, <1>6, BoundsAssumption DEF BoundsAssumption
  <2>2. call.n \in 0 .. MaxCalls /\ edits \in 0 .. MaxEdits
    BY <1>1, <1>5, BoundsAssumption DEF BoundsAssumption
  <2>3. cp.kind \in {"none", "file", "block"} /\ cp.doc \in Doc
    BY <1>1, <1>4 DEF CheckpointType
  <2>4. /\ DOMAIN files \subseteq 1 .. MaxCalls /\ kept \subseteq DOMAIN files
        /\ \A n \in DOMAIN files : files[n] \in Doc
    BY <1>1, <1>3
  <2>5. moved \in BOOLEAN /\ crashed \in BOOLEAN
    BY <1>1
  <2> QED
    BY <1>2, <2>1, <2>2, <2>3, <2>4, <2>5 DEF TypeOK
<1>8. WayBack /\ NoLitter /\ FileFollowsDocument /\ AnswersAreTrue
  BY <1>1, <1>3, NoResultType DEF WayBack, NoLitter, FileFollowsDocument, AnswersAreTrue,
     UntouchedUnlessPartial, RestoredIsCheckpoint, EditsAreSeen, StepPutBack, Failed, Replacing
<1>9. Types
  BY <1>1, <1>4, <1>5, <1>6, NoResultType, BoundsAssumption DEF Types, Places, BoundsAssumption
<1>10. Books
  BY <1>1, <1>3 DEF Books
<1>11. CheckpointSound
  BY <1>1, <1>4, NoResultType DEF CheckpointSound, Attempts
<1>12. RestoreCaptured /\ Routed /\ Engine /\ FileKnown
  BY <1>1 DEF RestoreCaptured, Routed, Engine, FileKnown, Pumping, Ends, Attempts
<1> QED
  BY <1>7, <1>8, <1>9, <1>10, <1>11, <1>12 DEF IInv, CopiesAccounted

LEMMA NextInv ==
  ASSUME IInv, [Next]_vars
  PROVE  IInv'
<1>1. CASE UNCHANGED vars
  BY <1>1 DEF vars, IInv, CopiesAccounted, TypeOK, WayBack, NoLitter, FileFollowsDocument,
     AnswersAreTrue, UntouchedUnlessPartial, RestoredIsCheckpoint, EditsAreSeen, StepPutBack,
     Failed, Replacing, Found, RollbackPath, Types, Books, CheckpointSound, RestoreCaptured,
     Pumping, Routed, ByFile, Engine, FileKnown, Known
<1>2. CASE UserEdit
  BY <1>2, UserEditInv
<1>3. CASE SaveDocumentFile
  BY <1>3, SaveDocumentFileInv
<1>4. CASE SingleTextEdit
  BY <1>4, SingleTextEditInv
<1>5. CASE Restore
  BY <1>5, RestoreInv
<1>6. CASE RestoreRefused
  BY <1>6, RestoreRefusedInv
<1>7. CASE Capture
  <2>1. CASE SaveAsUnavailable
    BY <2>1, SaveAsUnavailableInv
  <2>2. CASE SaveAs
    BY <2>2, SaveAsInv
  <2>3. CASE SaveAsStranded
    BY <2>3, SaveAsStrandedInv
  <2>4. CASE CaptureDocumentBlock
    BY <2>4, CaptureDocumentBlockInv
  <2>5. CASE Sign
    BY <2>5, SignInv
  <2>6. CASE CaptureFails
    BY <2>6, CaptureFailsInv
  <2> QED
    BY <1>7, <2>1, <2>2, <2>3, <2>4, <2>5, <2>6 DEF Capture
<1>8. CASE AuthorizeCheckpointMutation
  BY <1>8, AuthorizeCheckpointMutationInv
<1>9. CASE EngineUndo
  <2>1. CASE Undo
    BY <2>1, UndoInv
  <2>2. CASE UndoRefused
    BY <2>2, UndoRefusedInv
  <2>3. CASE Redo
    BY <2>3, RedoInv
  <2>4. CASE RedoRefused
    BY <2>4, RedoRefusedInv
  <2> QED
    BY <1>9, <2>1, <2>2, <2>3, <2>4 DEF EngineUndo
<1>10. CASE Replace
  <2>1. CASE ClearDocumentBody
    BY <2>1, ClearDocumentBodyInv
  <2>2. CASE SetTextFile
    BY <2>2, SetTextFileInv
  <2>3. CASE NoPath
    BY <2>3, NoPathInv
  <2>4. CASE Clear
    BY <2>4, ClearInv
  <2>5. CASE CopyFile
    BY <2>5, CopyFileInv
  <2>6. CASE Open
    BY <2>6, OpenInv
  <2>7. CASE Verify
    BY <2>7, VerifyInv
  <2> QED
    BY <1>10, <2>1, <2>2, <2>3, <2>4, <2>5, <2>6, <2>7 DEF Replace
<1>11. CASE HangulDies
  BY <1>11, HangulDiesInv
<1>12. Rest => UNCHANGED vars
  BY DEF Rest
<1> QED
  BY <1>1, <1>2, <1>3, <1>4, <1>5, <1>6, <1>7, <1>8, <1>9, <1>10, <1>11, <1>12 DEF Next

(* The inductive invariant of the restores.                                  *)
THEOREM Inductive == Spec => []IInv
<1>1. Init => IInv
  BY InitInv
<1>2. IInv /\ [Next]_vars => IInv'
  BY NextInv
<1> QED
  BY <1>1, <1>2, PTL DEF Spec

(* What was live when a restore began can be had again after every failure:  *)
(* from the first step that may change the document a copy of it is on disk, *)
(* a call that ends with the document changed in part has named that copy    *)
(* and kept it, and no other copy stays.                                     *)
THEOREM CopiesAccountedHolds == Spec => []CopiesAccounted
<1>1. IInv => CopiesAccounted
  BY DEF IInv
<1> QED
  BY <1>1, Inductive, PTL

(* What a restore answers is true of the document: that it is the checkpoint *)
(* again, that it was left or put back as it was, that the engine's step is  *)
(* there again; and nothing the user typed is ever replaced unseen.          *)
THEOREM AnswersAreTrueHolds == Spec => []AnswersAreTrue
<1>1. IInv => AnswersAreTrue
  BY DEF IInv
<1> QED
  BY <1>1, Inductive, PTL

(* The copies a message has named stay as they are.                          *)
Stays == \A n \in kept : n \in kept' /\ n \in DOMAIN files' /\ files'[n] = files[n]

LEMMA FinishStays ==
  ASSUME IInv, pc # "idle", NEW r, NEW keep, Finish(r, keep)
  PROVE  Stays
<1>1. call.n \notin kept /\ kept \subseteq DOMAIN files
  BY DEF IInv, Books, CopiesAccounted, TypeOK
<1>2. /\ kept \subseteq kept'
      /\ \A n \in DOMAIN files \ {call.n} : n \in DOMAIN files' /\ files'[n] = files[n]
  BY DEF Finish, Others, RollbackPath
<1> QED
  BY <1>1, <1>2 DEF Stays

LEMMA CopyStays ==
  ASSUME IInv, pc # "idle", NEW d, files' = WithCopy(d), kept' = kept
  PROVE  Stays
<1>1. call.n \notin kept /\ kept \subseteq DOMAIN files
  BY DEF IInv, Books, CopiesAccounted, TypeOK
<1>2. \A n \in DOMAIN files \ {call.n} : n \in DOMAIN files' /\ files'[n] = files[n]
  BY DEF WithCopy, RollbackPath
<1> QED
  BY <1>1, <1>2 DEF Stays

LEMMA LeftStays ==
  ASSUME IInv, UNCHANGED <<files, kept>>
  PROVE  Stays
BY DEF IInv, CopiesAccounted, TypeOK, Stays

LEMMA AttemptStays ==
  ASSUME IInv, pc # "idle", AttemptFails
  PROVE  Stays
<1>1. UNCHANGED <<files, kept>> \/ Finish(PartialMutation, TRUE)
  BY DEF AttemptFails
<1> QED
  BY <1>1, FinishStays, LeftStays

LEMMA NextStays ==
  ASSUME IInv, [Next]_vars
  PROVE  Stays
<1>1. CASE UNCHANGED <<files, kept>>
  BY <1>1, LeftStays
<1>2. CASE Capture
  <2>1. CASE SaveAs
    BY <2>1, CopyStays DEF SaveAs
  <2>2. CASE Sign
    BY <2>2, CopyStays, LeftStays DEF Sign
  <2>3. CASE SaveAsStranded
    BY <2>3, FinishStays DEF SaveAsStranded
  <2>4. CASE CaptureFails
    BY <2>4, FinishStays DEF CaptureFails
  <2>5. CASE SaveAsUnavailable \/ CaptureDocumentBlock
    BY <2>5, LeftStays DEF SaveAsUnavailable, CaptureDocumentBlock
  <2> QED
    BY <1>2, <2>1, <2>2, <2>3, <2>4, <2>5 DEF Capture
<1>3. CASE AuthorizeCheckpointMutation
  <2>1. pc # "idle" /\ (UNCHANGED <<files, kept>> \/ Finish(SetError, FALSE))
    BY <1>3 DEF AuthorizeCheckpointMutation
  <2> QED
    BY <2>1, FinishStays, LeftStays
<1>4. CASE EngineUndo
  <2>1. CASE Undo
    <3>1. /\ pc # "idle"
          /\ \/ UNCHANGED <<files, kept>>
             \/ \E v \in VerifyRestoredDocument(doc', Pages[cp.doc[1]], cp.sig, TRUE, FALSE) :
                  Finish(Ok(v), FALSE)
      BY <2>1 DEF Undo
    <3> QED
      BY <3>1, FinishStays, LeftStays
  <2>2. CASE UndoRefused \/ RedoRefused
    BY <2>2, FinishStays DEF UndoRefused, RedoRefused
  <2>3. CASE Redo
    BY <2>3, FinishStays DEF Redo
  <2> QED
    BY <1>4, <2>1, <2>2, <2>3 DEF EngineUndo
<1>5. CASE Replace
  <2>1. pc # "idle"
    BY <1>5 DEF Replace, ClearDocumentBody, SetTextFile, NoPath, Clear, CopyFile, Open, Verify
  <2>2. CASE ClearDocumentBody \/ SetTextFile \/ NoPath \/ Clear \/ CopyFile \/ Open
    <3>1. UNCHANGED <<files, kept>> \/ AttemptFails
      BY <2>2 DEF ClearDocumentBody, SetTextFile, NoPath, Clear, CopyFile, Open
    <3> QED
      BY <2>1, <3>1, AttemptStays, LeftStays
  <2>3. CASE Verify
    <3>1. AttemptFails \/ \E v : Succeeds(v)
      BY <2>3 DEF Verify
    <3> QED
      BY <2>1, <3>1, AttemptStays, FinishStays DEF Succeeds
  <2> QED
    BY <1>5, <2>2, <2>3 DEF Replace
<1>6. CASE UserEdit \/ SaveDocumentFile \/ SingleTextEdit \/ Restore \/ RestoreRefused
           \/ HangulDies \/ Rest \/ UNCHANGED vars
  <2>1. UNCHANGED <<files, kept>>
    BY <1>6 DEF UserEdit, SaveDocumentFile, SingleTextEdit, Restore, RestoreRefused,
       HangulDies, Rest, vars
  <2> QED
    BY <2>1, LeftStays
<1> QED
  BY <1>2, <1>3, <1>4, <1>5, <1>6 DEF Next

(* No later step erases or overwrites a copy that a message has named: every *)
(* restore has a recovery file of its own.                                   *)
THEOREM CopiesStayHolds == Spec => CopiesStay
<1>1. IInv /\ [Next]_vars =>
        [\A n \in kept : n \in kept' /\ n \in DOMAIN files' /\ files'[n] = files[n]]_vars
  BY NextStays DEF Stays
<1> QED
  BY <1>1, Inductive, PTL DEF Spec, CopiesStay

-----------------------------------------------------------------------------

(***************************************************************************)
(* The publication.  A call goes on only while nothing has failed, and a   *)
(* name is registered only when nothing of it is held any more.            *)
(***************************************************************************)
CallInOrder ==
  /\ todo \in Seq(Names)
  /\ step \in {"revoke batch", "register raw", "register batch"} => ~failed
  /\ step = "revoke raw" /\ ~failed => ~held[This].batch
  /\ step = "register raw" => held[This] = Nothing
  /\ step = "register batch" => held[This] = [raw |-> TRUE, batch |-> FALSE, owner |-> FALSE]

(* The cookies of a name and its object agree with the table; the object may *)
(* outlive both cookies only between the two halves of its own revocation.   *)
BooksKept ==
  \A n \in Names :
    /\ rot[n].raw = (IF held[n].raw THEN 1 ELSE 0)
    /\ rot[n].batch = (IF held[n].batch THEN 1 ELSE 0)
    /\ alive[n] = (IF held[n].owner THEN 1 ELSE 0)
    /\ held[n].batch => held[n].owner
    /\ held[n].owner => \/ held[n].raw \/ held[n].batch
                        \/ step \in {"revoke raw", "release raw"} /\ n = This

(* A publication has only names of what is shown before it.                  *)
OwnTargets ==
  step # "idle" /\ ~Releasing =>
    \A i \in 1..Len(todo) : todo[i] \in {Targets(shown)[j] : j \in 1..Len(Targets(shown))}

(* What a release has gone past and not taken down.                          *)
LeftBehind ==
  {e \in Names \X {"raw", "batch"} :
     /\ held[e[1]][e[2]]
     /\ \/ \A i \in 1..Len(todo) : todo[i] # e[1]
        \/ step = "release raw" /\ e = <<This, "batch">>}

(* Each of these has cost a failed call.                                     *)
FailuresCounted ==
  Releasing => Cardinality(LeftBehind) <= faults /\ (LeftBehind # {} => failed)

PublicationInv ==
  /\ PublicationTypes
  /\ CallInOrder
  /\ BooksKept
  /\ PageNotAhead
  /\ OwnTargets
  /\ FailuresCounted

HeldType == [raw : BOOLEAN, batch : BOOLEAN, owner : BOOLEAN]
Registered == [raw : 0..1, batch : 0..1]

LEMMA NamesKnown ==
    /\ Primary \in Names /\ WindowNames \subseteq Names /\ DocumentNames \subseteq Names
    /\ Names = {Primary} \cup WindowNames \cup DocumentNames
BY DEF Names

LEMMA NamesFinite ==
    IsFiniteSet(WindowNames) /\ IsFiniteSet(DocumentNames) /\ IsFiniteSet(Names)
<1>1. IsFiniteSet(WindowNames)
  <2> DEFINE f == [w \in Windows |-> <<"window", w>>]
  <2>1. f \in Surjection(Windows, WindowNames)
    BY DEF Surjection, WindowNames
  <2> QED BY <2>1, FS_Surjection, PublicationAssumption
<1>2. IsFiniteSet(DocumentNames)
  <2> DEFINE f == [p \in Windows \X Documents |-> <<"document", p[1], p[2]>>]
  <2>1. IsFiniteSet(Windows \X Documents)
    BY FS_Product, PublicationAssumption
  <2>2. f \in [Windows \X Documents -> DocumentNames]
    BY DEF DocumentNames
  <2>3. ASSUME NEW n \in DocumentNames PROVE \E p \in Windows \X Documents : f[p] = n
    <3>1. PICK w \in Windows, d \in Documents : n = <<"document", w, d>>
      BY DEF DocumentNames
    <3>2. <<w, d>> \in Windows \X Documents /\ f[<<w, d>>] = n
      BY <3>1
    <3> QED BY <3>2
  <2> HIDE DEF f
  <2>4. f \in Surjection(Windows \X Documents, DocumentNames)
    BY <2>2, <2>3 DEF Surjection
  <2> QED BY <2>1, <2>4, FS_Surjection
<1>3. IsFiniteSet({Primary})
  BY FS_Singleton
<1> QED BY <1>1, <1>2, <1>3, FS_Union, NamesKnown

\* The sequence of a finite set has its elements, and no others.
LEMMA SequenceOfSet ==
    ASSUME NEW S, IsFiniteSet(S)
    PROVE  /\ SetToSeq(S) \in Seq(S)
           /\ \A x \in S : \E i \in 1..Len(SetToSeq(S)) : SetToSeq(S)[i] = x
<1> DEFINE n == Cardinality(S)
<1>1. n \in Nat /\ ExistsBijection(1..n, S)
  BY FS_CardinalityType
<1>2. \E f \in [1..n -> S] : IsInjective(f)
  BY <1>1 DEF ExistsBijection, Bijection, Injection
<1>3. SetToSeq(S) \in [1..n -> S] /\ IsInjective(SetToSeq(S))
  BY <1>2 DEF SetToSeq
<1>4. SetToSeq(S) \in Injection(1..n, S)
  BY <1>3 DEF Injection
<1>5. IsFiniteSet(1..n) /\ Cardinality(1..n) = n
  <2>1. IsFiniteSet(1..n) /\ Cardinality(1..n) = IF 1 > n THEN 0 ELSE n - 1 + 1
    BY <1>1, FS_Interval
  <2> QED BY <1>1, <2>1
<1>6. SetToSeq(S) \in Surjection(1..n, S)
  BY <1>4, <1>5, FS_Injection
<1> HIDE DEF n
<1>7. SetToSeq(S) \in Seq(S) /\ Len(SetToSeq(S)) = n
  BY <1>1, <1>3
<1> QED BY <1>6, <1>7 DEF Surjection

LEMMA TargetsTyped ==
    ASSUME PublicationTypes
    PROVE  Targets(shown) \in Seq(Names) /\ Len(Targets(shown)) >= 1
<1> DEFINE a == <<Primary>>
           b == IF Len(shown) >= 1 THEN << <<"window", shown[1]>> >> ELSE <<>>
           c == IF Len(shown) = 2 THEN << <<"document", shown[1], shown[2]>> >> ELSE <<>>
<1>1. /\ Len(shown) \in 0..2
      /\ Len(shown) >= 1 => shown[1] \in Windows
      /\ Len(shown) = 2 => shown[2] \in Documents
  <2>1. CASE shown = <<>>
    BY <2>1
  <2>2. CASE shown \in {<<w>> : w \in Windows}
    BY <2>2
  <2>3. CASE shown \in Windows \X Documents
    BY <2>3
  <2> QED BY <2>1, <2>2, <2>3 DEF PublicationTypes
<1>2. Len(shown) >= 1 => <<"window", shown[1]>> \in Names
  BY <1>1, NamesKnown DEF WindowNames
<1>3. Len(shown) = 2 => <<"document", shown[1], shown[2]>> \in Names
  BY <1>1, NamesKnown DEF DocumentNames
<1>4. a \in Seq(Names) /\ Len(a) = 1 /\ b \in Seq(Names) /\ c \in Seq(Names)
  <2>1. a \in Seq(Names) /\ Len(a) = 1
    BY NamesKnown
  <2>2. b \in Seq(Names)
    BY <1>2
  <2>3. c \in Seq(Names)
    BY <1>3
  <2> QED BY <2>1, <2>2, <2>3
<1>5. Targets(shown) = a \o b \o c
  BY DEF Targets
<1> HIDE DEF a, b, c
<1>6. a \o b \in Seq(Names) /\ Len(a \o b) = 1 + Len(b) /\ Len(b) \in Nat
  <2>1. a \o b \in Seq(Names) /\ Len(a \o b) = Len(a) + Len(b)
    BY <1>4, ConcatProperties, Zenon
  <2>2. Len(b) \in Nat
    BY <1>4
  <2> QED BY <1>4, <2>1, <2>2
<1> DEFINE d == a \o b
<1> HIDE DEF d
<1>7. d \in Seq(Names) /\ Len(d) \in Nat /\ Len(d) >= 1
  BY <1>6 DEF d
<1>8. d \o c \in Seq(Names) /\ Len(d \o c) = Len(d) + Len(c) /\ Len(c) \in Nat
  BY <1>4, <1>7
<1>9. Targets(shown) = d \o c
  BY <1>5 DEF d
<1> QED BY <1>7, <1>8, <1>9

LEMMA Here ==
    ASSUME todo \in Seq(Names), todo # <<>>
    PROVE  /\ This \in Names /\ This = todo[1] /\ Len(todo) \in Nat \ {0}
           /\ Tail(todo) \in Seq(Names) /\ Len(Tail(todo)) = Len(todo) - 1
           /\ \A i \in 1..Len(Tail(todo)) : i + 1 \in 1..Len(todo) /\ Tail(todo)[i] = todo[i + 1]
           /\ Len(todo) # 1 => Tail(todo) # <<>>
           /\ Len(todo) = 1 => \A i \in 1..Len(todo) : todo[i] = This
           /\ \A i \in 1..Len(todo) :
                 todo[i] = This \/ \E j \in 1..Len(Tail(todo)) : Tail(todo)[j] = todo[i]
<1>1. Len(todo) \in Nat \ {0} /\ This = todo[1] /\ This \in Names
  BY DEF This
<1>4. Len(todo) = 1 => \A i \in 1..Len(todo) : todo[i] = This
  BY <1>1
<1>2. /\ Tail(todo) \in Seq(Names) /\ Len(Tail(todo)) = Len(todo) - 1
      /\ \A i \in 1..(Len(todo) - 1) : Tail(todo)[i] = todo[i + 1]
  BY <1>1
<1>3. ASSUME NEW i \in 1..Len(todo)
      PROVE  todo[i] = This \/ \E j \in 1..Len(Tail(todo)) : Tail(todo)[j] = todo[i]
  <2>1. CASE i = 1
    BY <1>1, <2>1
  <2>2. CASE i # 1
    <3>1. i - 1 \in 1..Len(Tail(todo)) /\ Tail(todo)[i - 1] = todo[i]
      BY <1>1, <1>2, <2>2
    <3> QED BY <3>1
  <2> QED BY <2>1, <2>2
<1>5. \A i \in 1..Len(Tail(todo)) : i + 1 \in 1..Len(todo) /\ Tail(todo)[i] = todo[i + 1]
  BY <1>1, <1>2
<1>6. Len(todo) # 1 => Tail(todo) # <<>>
  BY <1>1, <1>2
<1> QED BY <1>1, <1>2, <1>3, <1>4, <1>5, <1>6

\* What a release goes through is a sequence of names.
LEMMA HeldSequenced ==
    ASSUME NEW S \in {DocumentNames, WindowNames}
    PROVE  LET T == {n \in S : held[n] # Nothing}
           IN  /\ SetToSeq(T) \in Seq(Names)
               /\ \A x \in T : \E i \in 1..Len(SetToSeq(T)) : SetToSeq(T)[i] = x
<1> DEFINE T == {n \in S : held[n] # Nothing}
<1>1. T \subseteq S /\ IsFiniteSet(S) /\ S \subseteq Names
  BY NamesKnown, NamesFinite
<1>2. IsFiniteSet(T)
  BY <1>1, FS_Subset
<1> HIDE DEF T
<1>3. /\ SetToSeq(T) \in Seq(T)
      /\ \A x \in T : \E i \in 1..Len(SetToSeq(T)) : SetToSeq(T)[i] = x
  BY <1>2, SequenceOfSet
<1> DEFINE q == SetToSeq(T)
<1> HIDE DEF q
<1>4. q \in Seq(T) => q \in Seq(Names)
  BY <1>1
<1> QED BY <1>3, <1>4 DEF q, T

(***************************************************************************)
(* What the two revocations and the two halves of a registration do to the *)
(* books of one name.                                                      *)
(***************************************************************************)
LEMMA BooksTyped ==
    ASSUME PublicationInv, NEW n \in Names
    PROVE  /\ held[n] \in HeldType /\ rot[n] \in Registered /\ alive[n] \in 0..1
           /\ {held[n].raw, held[n].batch, held[n].owner} \subseteq BOOLEAN
           /\ held \in [Names -> HeldType] /\ rot \in [Names -> Registered]
           /\ alive \in [Names -> 0..1]
<1>1. held \in [Names -> HeldType] /\ rot \in [Names -> Registered] /\ alive \in [Names -> 0..1]
  BY DEF PublicationInv, PublicationTypes, HeldType, Registered
<1>2. held[n] \in HeldType /\ rot[n] \in Registered /\ alive[n] \in 0..1
  BY <1>1
<1>3. {held[n].raw, held[n].batch, held[n].owner} \subseteq BOOLEAN
  BY <1>2 DEF HeldType
<1> QED BY <1>1, <1>2, <1>3

LEMMA CallUnderWay ==
    ASSUME PublicationInv, step # "idle"
    PROVE  /\ todo \in Seq(Names) /\ todo # <<>> /\ This \in Names
           /\ This = todo[1] /\ Len(todo) \in Nat \ {0}
BY Here DEF PublicationInv, PublicationTypes, CallInOrder

\* A field of one entry is set; the rest stays.
LEMMA BatchSet ==
    ASSUME NEW n \in Names, NEW f \in [Names -> HeldType], NEW b \in BOOLEAN, NEW g,
           g = [f EXCEPT ![n].batch = b]
    PROVE  /\ g \in [Names -> HeldType] /\ \A m \in Names \ {n} : g[m] = f[m]
           /\ g[n].raw = f[n].raw /\ g[n].batch = b /\ g[n].owner = f[n].owner
<1>1. PICK r \in HeldType : f[n] = r
  OBVIOUS
<1>2. [r EXCEPT !.batch = b] = [raw |-> r.raw, batch |-> b, owner |-> r.owner]
  BY DEF HeldType
<1>3. {r.raw, r.batch, r.owner} \subseteq BOOLEAN
  BY DEF HeldType
<1>4. [r EXCEPT !.batch = b] \in HeldType
  BY <1>2, <1>3, Zenon DEF HeldType
<1> QED BY <1>1, <1>2, <1>4

LEMMA RawSet ==
    ASSUME NEW n \in Names, NEW f \in [Names -> HeldType], NEW b \in BOOLEAN, NEW g,
           g = [f EXCEPT ![n].raw = b]
    PROVE  /\ g \in [Names -> HeldType] /\ \A m \in Names \ {n} : g[m] = f[m]
           /\ g[n].raw = b /\ g[n].batch = f[n].batch /\ g[n].owner = f[n].owner
<1>1. PICK r \in HeldType : f[n] = r
  OBVIOUS
<1>2. [r EXCEPT !.raw = b] = [raw |-> b, batch |-> r.batch, owner |-> r.owner]
  BY DEF HeldType
<1>3. {r.raw, r.batch, r.owner} \subseteq BOOLEAN
  BY DEF HeldType
<1>4. [r EXCEPT !.raw = b] \in HeldType
  BY <1>2, <1>3, Zenon DEF HeldType
<1> QED BY <1>1, <1>2, <1>4

LEMMA OwnerSet ==
    ASSUME NEW n \in Names, NEW f \in [Names -> HeldType], NEW b \in BOOLEAN, NEW g,
           g = [f EXCEPT ![n].owner = b]
    PROVE  /\ g \in [Names -> HeldType] /\ \A m \in Names \ {n} : g[m] = f[m]
           /\ g[n].raw = f[n].raw /\ g[n].batch = f[n].batch /\ g[n].owner = b
<1>1. PICK r \in HeldType : f[n] = r
  OBVIOUS
<1>2. [r EXCEPT !.owner = b] = [raw |-> r.raw, batch |-> r.batch, owner |-> b]
  BY DEF HeldType
<1>3. {r.raw, r.batch, r.owner} \subseteq BOOLEAN
  BY DEF HeldType
<1>4. [r EXCEPT !.owner = b] \in HeldType
  BY <1>2, <1>3, Zenon DEF HeldType
<1> QED BY <1>1, <1>2, <1>4

LEMMA BatchCounted ==
    ASSUME NEW n \in Names, NEW f \in [Names -> Registered], NEW k \in 0..1, NEW g,
           g = [f EXCEPT ![n].batch = k]
    PROVE  /\ g \in [Names -> Registered] /\ \A m \in Names \ {n} : g[m] = f[m]
           /\ g[n].raw = f[n].raw /\ g[n].batch = k
<1>1. PICK r \in Registered : f[n] = r
  OBVIOUS
<1>2. [r EXCEPT !.batch = k] = [raw |-> r.raw, batch |-> k]
  BY DEF Registered
<1>3. [r EXCEPT !.batch = k] \in Registered
  BY <1>2 DEF Registered
<1> QED BY <1>1, <1>2, <1>3

LEMMA RawCounted ==
    ASSUME NEW n \in Names, NEW f \in [Names -> Registered], NEW k \in 0..1, NEW g,
           g = [f EXCEPT ![n].raw = k]
    PROVE  /\ g \in [Names -> Registered] /\ \A m \in Names \ {n} : g[m] = f[m]
           /\ g[n].raw = k /\ g[n].batch = f[n].batch
<1>1. PICK r \in Registered : f[n] = r
  OBVIOUS
<1>2. [r EXCEPT !.raw = k] = [raw |-> k, batch |-> r.batch]
  BY DEF Registered
<1>3. [r EXCEPT !.raw = k] \in Registered
  BY <1>2 DEF Registered
<1> QED BY <1>1, <1>2, <1>3

LEMMA RevokeBatchBooks ==
    ASSUME PublicationInv, RevokeBatch
    PROVE  /\ held' \in [Names -> HeldType] /\ rot' \in [Names -> Registered]
           /\ \A n \in Names \ {This} : held'[n] = held[n] /\ rot'[n] = rot[n]
           /\ held'[This].raw = held[This].raw /\ held'[This].owner = held[This].owner
           /\ rot'[This].raw = rot[This].raw
           /\ \/ /\ ~held'[This].batch /\ rot'[This].batch = 0
                 /\ UNCHANGED <<faults, failed>>
              \/ /\ held[This].batch /\ UNCHANGED <<held, rot>>
                 /\ Fault /\ failed'
<1>1. This \in Names
  BY CallUnderWay DEF RevokeBatch
<1>2. /\ held[This] \in HeldType /\ rot[This] \in Registered
      /\ {held[This].raw, held[This].batch, held[This].owner} \subseteq BOOLEAN
      /\ held \in [Names -> HeldType] /\ rot \in [Names -> Registered]
  BY <1>1, BooksTyped
<1>3. CASE Revoked("batch") /\ UNCHANGED failed
  <2> DEFINE k == rot[This].batch - (IF held[This].batch THEN 1 ELSE 0)
  <2>1. k = 0
    <3>1. rot[This].batch = IF held[This].batch THEN 1 ELSE 0
      BY <1>1 DEF PublicationInv, BooksKept
    <3> QED BY <3>1
  <2>2. rot' = [rot EXCEPT ![This].batch = k] /\ held' = [held EXCEPT ![This].batch = FALSE]
        /\ UNCHANGED <<faults, failed>>
    BY <1>3 DEF Revoked
  <2>3. rot' = [rot EXCEPT ![This].batch = 0]
    BY <2>1, <2>2
  <2>4. /\ held' \in [Names -> HeldType]
        /\ \A n \in Names \ {This} : held'[n] = held[n]
        /\ held'[This].raw = held[This].raw /\ held'[This].batch = FALSE
        /\ held'[This].owner = held[This].owner
    <3>1. FALSE \in BOOLEAN
      OBVIOUS
    <3>2. held' \in [Names -> HeldType]
      BY <1>1, <1>2, <2>2, <3>1, BatchSet, ZenonT(40)
    <3>3. \A n \in Names \ {This} : held'[n] = held[n]
      BY <1>1, <1>2, <2>2, <3>1, BatchSet, ZenonT(40)
    <3>4. /\ held'[This].raw = held[This].raw /\ held'[This].batch = FALSE
          /\ held'[This].owner = held[This].owner
      BY <1>1, <1>2, <2>2, <3>1, BatchSet
    <3> QED BY <3>2, <3>3, <3>4
  <2>5. /\ rot' \in [Names -> Registered]
        /\ \A n \in Names \ {This} : rot'[n] = rot[n]
        /\ rot'[This].raw = rot[This].raw /\ rot'[This].batch = 0
    <3>1. 0 \in 0..1
      OBVIOUS
    <3>2. rot' \in [Names -> Registered]
      BY <1>1, <1>2, <2>3, <3>1, BatchCounted, ZenonT(40)
    <3>3. \A n \in Names \ {This} : rot'[n] = rot[n]
      BY <1>1, <1>2, <2>3, <3>1, BatchCounted, ZenonT(40)
    <3>4. rot'[This].raw = rot[This].raw /\ rot'[This].batch = 0
      BY <1>1, <1>2, <2>3, <3>1, BatchCounted
    <3> QED BY <3>2, <3>3, <3>4
  <2>6. /\ held'[This].raw = held[This].raw /\ held'[This].owner = held[This].owner
        /\ ~held'[This].batch
    BY <2>4
  <2>7. rot'[This].raw = rot[This].raw /\ rot'[This].batch = 0
    BY <2>5
  <2> QED BY <2>2, <2>4, <2>5, <2>6, <2>7
<1>4. CASE Kept("batch") /\ failed' = TRUE
  BY <1>2, <1>4, Zenon DEF Kept
<1> QED BY <1>3, <1>4 DEF RevokeBatch

LEMMA RevokeRawBooks ==
    ASSUME PublicationInv, step # "idle", RevokeRawOf(This)
    PROVE  /\ held' \in [Names -> HeldType] /\ rot' \in [Names -> Registered]
           /\ alive' \in [Names -> 0..1]
           /\ \A n \in Names \ {This} :
                 held'[n] = held[n] /\ rot'[n] = rot[n] /\ alive'[n] = alive[n]
           /\ held'[This].batch = held[This].batch /\ rot'[This].batch = rot[This].batch
           /\ rot'[This].raw = IF held'[This].raw THEN 1 ELSE 0
           /\ alive'[This] = IF held'[This].owner THEN 1 ELSE 0
           /\ held'[This].owner = (held[This].owner /\ (held'[This].raw \/ held[This].batch))
           /\ \/ ~held'[This].raw /\ UNCHANGED <<faults, failed>>
              \/ held[This].raw /\ held'[This].raw /\ UNCHANGED rot /\ Fault /\ failed'
<1>1. This \in Names
  BY CallUnderWay
<1>2. /\ held[This] \in HeldType /\ rot[This] \in Registered
      /\ {held[This].raw, held[This].batch, held[This].owner} \subseteq BOOLEAN
      /\ held \in [Names -> HeldType] /\ rot \in [Names -> Registered]
      /\ alive \in [Names -> 0..1]
  BY <1>1, BooksTyped
<1>3. /\ rot[This].raw = IF held[This].raw THEN 1 ELSE 0
      /\ alive[This] = IF held[This].owner THEN 1 ELSE 0
  BY <1>1 DEF PublicationInv, BooksKept
<1>4. ASSUME NEW h \in [Names -> HeldType], Released(h), h[This].owner = held[This].owner
      PROVE  /\ held' \in [Names -> HeldType] /\ alive' \in [Names -> 0..1]
             /\ \A n \in Names \ {This} : held'[n] = h[n] /\ alive'[n] = alive[n]
             /\ held'[This].batch = h[This].batch /\ held'[This].raw = h[This].raw
             /\ alive'[This] = IF held'[This].owner THEN 1 ELSE 0
             /\ held'[This].owner = (h[This].owner /\ (h[This].raw \/ h[This].batch))
  <2>1. {h[This].raw, h[This].batch, h[This].owner} \subseteq BOOLEAN
    <3>1. h[This] \in HeldType
      BY <1>1
    <3> QED BY <3>1 DEF HeldType
  <2>2. CASE h[This].raw \/ h[This].batch \/ ~h[This].owner
    <3>1. held' = h /\ alive' = alive
      BY <1>4, <2>2 DEF Released
    <3>2. h[This].owner = (h[This].owner /\ (h[This].raw \/ h[This].batch))
      BY <2>1, <2>2, Zenon
    <3> QED BY <1>2, <1>3, <1>4, <3>1, <3>2
  <2>3. CASE ~(h[This].raw \/ h[This].batch \/ ~h[This].owner)
    <3>1. /\ held' = [h EXCEPT ![This].owner = FALSE]
          /\ alive' = [alive EXCEPT ![This] = @ - 1]
      BY <1>4, <2>3 DEF Released
    <3>2. alive[This] = 1
      BY <1>3, <1>4, <2>3
    <3>3. /\ alive' \in [Names -> 0..1] /\ \A n \in Names \ {This} : alive'[n] = alive[n]
          /\ alive'[This] = 0
      BY <1>1, <1>2, <3>1, <3>2
    <3>4. /\ held' \in [Names -> HeldType] /\ \A n \in Names \ {This} : held'[n] = h[n]
          /\ held'[This].raw = h[This].raw /\ held'[This].batch = h[This].batch
        /\ held'[This].owner = FALSE
      <4>1. FALSE \in BOOLEAN
        OBVIOUS
      <4>2. held' \in [Names -> HeldType]
        BY <1>1, <3>1, <4>1, OwnerSet, ZenonT(40)
      <4>3. \A n \in Names \ {This} : held'[n] = h[n]
        BY <1>1, <3>1, <4>1, OwnerSet, ZenonT(40)
      <4>4. /\ held'[This].raw = h[This].raw /\ held'[This].batch = h[This].batch
            /\ held'[This].owner = FALSE
        BY <1>1, <3>1, <4>1, OwnerSet
      <4> QED BY <4>2, <4>3, <4>4
    <3>5. ~held'[This].owner /\ held'[This].raw = h[This].raw /\ held'[This].batch = h[This].batch
      BY <3>4
    <3>6. held'[This].owner = (h[This].owner /\ (h[This].raw \/ h[This].batch))
      <4>1. held'[This].owner = FALSE
        BY <3>4
      <4> QED BY <2>3, <4>1, Zenon
    <3> QED BY <3>3, <3>4, <3>5, <3>6
  <2> QED BY <2>2, <2>3
<1>5. CASE /\ rot' = [rot EXCEPT ![This].raw = @ - (IF held[This].raw THEN 1 ELSE 0)]
           /\ Released([held EXCEPT ![This].raw = FALSE])
           /\ UNCHANGED <<failed, faults>>
  <2> DEFINE k == rot[This].raw - (IF held[This].raw THEN 1 ELSE 0)
             h == [held EXCEPT ![This].raw = FALSE]
  <2>1. k = 0
    BY <1>3
  <2>2. rot' = [rot EXCEPT ![This].raw = k]
    BY <1>5
  <2>3. rot' = [rot EXCEPT ![This].raw = 0]
    BY <2>1, <2>2
  <2>4. /\ rot' \in [Names -> Registered]
        /\ \A n \in Names \ {This} : rot'[n] = rot[n]
        /\ rot'[This].raw = 0 /\ rot'[This].batch = rot[This].batch
    <3>1. 0 \in 0..1
      OBVIOUS
    <3>2. rot' \in [Names -> Registered]
      BY <1>1, <1>2, <2>3, <3>1, RawCounted, ZenonT(40)
    <3>3. \A n \in Names \ {This} : rot'[n] = rot[n]
      BY <1>1, <1>2, <2>3, <3>1, RawCounted, ZenonT(40)
    <3>4. rot'[This].raw = 0 /\ rot'[This].batch = rot[This].batch
      BY <1>1, <1>2, <2>3, <3>1, RawCounted
    <3> QED BY <3>2, <3>3, <3>4
  <2>5. rot'[This].raw = 0 /\ rot'[This].batch = rot[This].batch
    BY <2>4
  <2>6. /\ h \in [Names -> HeldType] /\ \A n \in Names \ {This} : h[n] = held[n]
        /\ h[This].raw = FALSE /\ h[This].batch = held[This].batch
        /\ h[This].owner = held[This].owner
    <3>1. FALSE \in BOOLEAN
      OBVIOUS
    <3>2. h \in [Names -> HeldType]
      BY <1>1, <1>2, <3>1, RawSet, ZenonT(40)
    <3>3. \A n \in Names \ {This} : h[n] = held[n]
      BY <1>1, <1>2, <3>1, RawSet, ZenonT(40)
    <3>4. /\ h[This].raw = FALSE /\ h[This].batch = held[This].batch
          /\ h[This].owner = held[This].owner
      BY <1>1, <1>2, <3>1, RawSet
    <3> QED BY <3>2, <3>3, <3>4
  <2>7. ~h[This].raw /\ h[This].batch = held[This].batch /\ h[This].owner = held[This].owner
        /\ h[This].raw = FALSE
    BY <2>6
  <2>8. Released(h)
    BY <1>5
  <2> HIDE DEF h
  <2>9. /\ held' \in [Names -> HeldType] /\ alive' \in [Names -> 0..1]
        /\ \A n \in Names \ {This} : held'[n] = h[n] /\ alive'[n] = alive[n]
        /\ held'[This].batch = h[This].batch /\ held'[This].raw = h[This].raw
        /\ alive'[This] = IF held'[This].owner THEN 1 ELSE 0
        /\ held'[This].owner = (h[This].owner /\ (h[This].raw \/ h[This].batch))
    BY <1>4, <2>6, <2>7, <2>8
  <2>10. held'[This].raw = FALSE
    BY <2>7, <2>9
  <2>11. held'[This].owner = (held[This].owner /\ (held'[This].raw \/ held[This].batch))
    BY <2>7, <2>9
  <2>12. rot'[This].raw = IF held'[This].raw THEN 1 ELSE 0
    BY <2>5, <2>10
  <2> QED BY <1>5, <2>4, <2>5, <2>6, <2>7, <2>9, <2>10, <2>11, <2>12
<1>6. CASE /\ held[This].raw /\ Fault
           /\ failed' = TRUE
           /\ Released(held)
           /\ UNCHANGED rot
  <2>1. /\ held' \in [Names -> HeldType] /\ alive' \in [Names -> 0..1]
        /\ \A n \in Names \ {This} : held'[n] = held[n] /\ alive'[n] = alive[n]
        /\ held'[This].batch = held[This].batch /\ held'[This].raw = held[This].raw
        /\ alive'[This] = IF held'[This].owner THEN 1 ELSE 0
        /\ held'[This].owner = (held[This].owner /\ (held[This].raw \/ held[This].batch))
    BY <1>2, <1>4, <1>6
  <2> QED BY <1>2, <1>3, <1>6, <2>1
<1> QED BY <1>5, <1>6 DEF RevokeRawOf

LEMMA RegisterRawBooks ==
    ASSUME PublicationInv, RegisterRaw
    PROVE  /\ held' \in [Names -> HeldType] /\ rot' \in [Names -> Registered]
           /\ \A n \in Names \ {This} : held'[n] = held[n] /\ rot'[n] = rot[n]
           /\ \/ /\ held'[This] = [raw |-> TRUE, batch |-> FALSE, owner |-> FALSE]
                 /\ rot'[This].raw = 1 /\ rot'[This].batch = 0
                 /\ step' = "register batch" /\ UNCHANGED <<todo, failed, page, faults>>
              \/ UNCHANGED <<held, rot>> /\ Fault /\ failed' = TRUE /\ FinishCall(FALSE)
<1>1. This \in Names
  BY CallUnderWay DEF RegisterRaw
<1>2. /\ held[This] \in HeldType /\ rot[This] \in Registered
      /\ held \in [Names -> HeldType] /\ rot \in [Names -> Registered]
  BY <1>1, BooksTyped
<1>3. held[This] = Nothing
  BY DEF RegisterRaw, PublicationInv, CallInOrder
<1>4. rot[This].raw = 0 /\ rot[This].batch = 0
  <2>1. ~held[This].raw /\ ~held[This].batch /\ ~held[This].owner
    BY <1>3 DEF Nothing
  <2>2. /\ rot[This].raw = (IF held[This].raw THEN 1 ELSE 0)
        /\ rot[This].batch = (IF held[This].batch THEN 1 ELSE 0)
        /\ alive[This] = (IF held[This].owner THEN 1 ELSE 0)
    BY <1>1 DEF PublicationInv, BooksKept
  <2> QED BY <2>1, <2>2
<1>5. CASE /\ rot' = [rot EXCEPT ![This].raw = @ + 1]
           /\ held' = [held EXCEPT ![This] = [raw |-> TRUE, batch |-> FALSE, owner |-> FALSE]]
           /\ step' = "register batch"
           /\ UNCHANGED <<todo, failed, page, faults>>
  <2> DEFINE k == rot[This].raw + 1
  <2>4. rot' = [rot EXCEPT ![This].raw = k]
    BY <1>5
  <2>1. k = 1
    BY <1>4
  <2>2. rot' = [rot EXCEPT ![This].raw = 1]
    BY <2>1, <2>4
  <2>3. /\ rot' \in [Names -> Registered] /\ \A n \in Names \ {This} : rot'[n] = rot[n]
        /\ rot'[This].raw = 1 /\ rot'[This].batch = rot[This].batch
    <3>1. 1 \in 0..1
      OBVIOUS
    <3>2. rot' \in [Names -> Registered]
      BY <1>1, <1>2, <2>2, <3>1, RawCounted, ZenonT(40)
    <3>3. \A n \in Names \ {This} : rot'[n] = rot[n]
      BY <1>1, <1>2, <2>2, <3>1, RawCounted, ZenonT(40)
    <3>4. rot'[This].raw = 1 /\ rot'[This].batch = rot[This].batch
      BY <1>1, <1>2, <2>2, <3>1, RawCounted
    <3> QED BY <3>2, <3>3, <3>4
  <2>5. [raw |-> TRUE, batch |-> FALSE, owner |-> FALSE] \in HeldType
    BY DEF HeldType
  <2>6. /\ held' \in [Names -> HeldType] /\ \A n \in Names \ {This} : held'[n] = held[n]
        /\ held'[This] = [raw |-> TRUE, batch |-> FALSE, owner |-> FALSE]
    BY <1>1, <1>2, <1>5, <2>5
  <2> QED BY <1>4, <1>5, <2>3, <2>6
<1>6. CASE /\ Fault /\ failed' = TRUE
           /\ held' = [held EXCEPT ![This] = Nothing]
           /\ FinishCall(FALSE)
           /\ UNCHANGED rot
  <2>1. held' = held
    BY <1>1, <1>2, <1>3, <1>6
  <2> QED BY <1>2, <1>6, <2>1
<1> QED BY <1>5, <1>6 DEF RegisterRaw

LEMMA RegisterBatchBooks ==
    ASSUME PublicationInv, RegisterBatch
    PROVE  /\ held' \in [Names -> HeldType] /\ rot' \in [Names -> Registered]
           /\ alive' \in [Names -> 0..1]
           /\ \A n \in Names \ {This} :
                 held'[n] = held[n] /\ rot'[n] = rot[n] /\ alive'[n] = alive[n]
           /\ held'[This].raw /\ held'[This].batch /\ held'[This].owner
           /\ rot'[This].raw = 1 /\ rot'[This].batch = 1 /\ alive'[This] = 1
<1>1. This \in Names
  BY CallUnderWay DEF RegisterBatch
<1>2. /\ held[This] \in HeldType /\ rot[This] \in Registered
      /\ held \in [Names -> HeldType] /\ rot \in [Names -> Registered]
      /\ alive \in [Names -> 0..1]
  BY <1>1, BooksTyped
<1>3. held[This] = [raw |-> TRUE, batch |-> FALSE, owner |-> FALSE]
  BY DEF RegisterBatch, PublicationInv, CallInOrder
<1>4. rot[This].raw = 1 /\ rot[This].batch = 0 /\ alive[This] = 0
  <2>1. held[This].raw /\ ~held[This].batch /\ ~held[This].owner
    BY <1>3
  <2>2. /\ rot[This].raw = (IF held[This].raw THEN 1 ELSE 0)
        /\ rot[This].batch = (IF held[This].batch THEN 1 ELSE 0)
        /\ alive[This] = (IF held[This].owner THEN 1 ELSE 0)
    BY <1>1 DEF PublicationInv, BooksKept
  <2> QED BY <2>1, <2>2
<1>5. /\ rot' \in [Names -> Registered] /\ \A n \in Names \ {This} : rot'[n] = rot[n]
      /\ rot'[This].raw = rot[This].raw /\ rot'[This].batch = 1
  <2> DEFINE k == rot[This].batch + 1
  <2>0. rot' = [rot EXCEPT ![This].batch = k]
    BY DEF RegisterBatch
  <2>1. k = 1
    BY <1>4
  <2>2. rot' = [rot EXCEPT ![This].batch = 1]
    BY <2>0, <2>1
  <2>3. 1 \in 0..1
    OBVIOUS
  <2>4. rot' \in [Names -> Registered]
    BY <1>1, <1>2, <2>2, <2>3, BatchCounted, ZenonT(40)
  <2>5. \A n \in Names \ {This} : rot'[n] = rot[n]
    BY <1>1, <1>2, <2>2, <2>3, BatchCounted, ZenonT(40)
  <2>6. rot'[This].raw = rot[This].raw /\ rot'[This].batch = 1
    BY <1>1, <1>2, <2>2, <2>3, BatchCounted
  <2> QED BY <2>4, <2>5, <2>6
<1>6. /\ held' \in [Names -> HeldType] /\ \A n \in Names \ {This} : held'[n] = held[n]
      /\ held'[This].raw /\ held'[This].batch /\ held'[This].owner
  <2> DEFINE all == [raw |-> TRUE, batch |-> TRUE, owner |-> TRUE]
  <2>1. all \in HeldType
    BY DEF HeldType
  <2>2. held' = [held EXCEPT ![This].batch = TRUE, ![This].owner = TRUE]
    BY DEF RegisterBatch
  <2>3. held' = [held EXCEPT ![This] = all]
    BY <1>1, <1>2, <1>3, <2>2
  <2> QED BY <1>1, <1>2, <2>1, <2>3
<1>7. /\ alive' \in [Names -> 0..1] /\ \A n \in Names \ {This} : alive'[n] = alive[n]
      /\ alive'[This] = 1
  <2>1. alive' = [alive EXCEPT ![This] = @ + 1]
    BY DEF RegisterBatch
  <2>2. alive' = [alive EXCEPT ![This] = 1]
    BY <1>1, <1>2, <1>4, <2>1
  <2> QED BY <1>1, <1>2, <2>2
<1> QED BY <1>4, <1>5, <1>6, <1>7

LEMMA RegisterBatchFailsBooks ==
    ASSUME PublicationInv, RegisterBatchFails
    PROVE  /\ held' \in [Names -> HeldType] /\ rot' \in [Names -> Registered]
           /\ \A n \in Names \ {This} : held'[n] = held[n] /\ rot'[n] = rot[n]
           /\ ~held'[This].batch /\ ~held'[This].owner /\ rot'[This].batch = 0
           /\ rot'[This].raw = IF held'[This].raw THEN 1 ELSE 0
<1>1. This \in Names
  BY CallUnderWay DEF RegisterBatchFails
<1>2. /\ held[This] \in HeldType /\ rot[This] \in Registered
      /\ held \in [Names -> HeldType] /\ rot \in [Names -> Registered]
  BY <1>1, BooksTyped
<1>3. held[This] = [raw |-> TRUE, batch |-> FALSE, owner |-> FALSE]
  BY DEF RegisterBatchFails, PublicationInv, CallInOrder
<1>4. rot[This].raw = 1 /\ rot[This].batch = 0
  <2>1. held[This].raw /\ ~held[This].batch /\ ~held[This].owner
    BY <1>3
  <2>2. /\ rot[This].raw = (IF held[This].raw THEN 1 ELSE 0)
        /\ rot[This].batch = (IF held[This].batch THEN 1 ELSE 0)
        /\ alive[This] = (IF held[This].owner THEN 1 ELSE 0)
    BY <1>1 DEF PublicationInv, BooksKept
  <2> QED BY <2>1, <2>2
<1>5. CASE /\ rot' = [rot EXCEPT ![This].raw = @ - 1]
           /\ held' = [held EXCEPT ![This].raw = FALSE]
  <2> DEFINE k == rot[This].raw - 1
  <2>1. rot' = [rot EXCEPT ![This].raw = k] /\ k = 0
    BY <1>4, <1>5
  <2>2. rot' = [rot EXCEPT ![This].raw = 0]
    BY <2>1
  <2>3. 0 \in 0..1 /\ FALSE \in BOOLEAN
    OBVIOUS
  <2>4. rot' \in [Names -> Registered] /\ \A n \in Names \ {This} : rot'[n] = rot[n]
    BY <1>1, <1>2, <2>2, <2>3, RawCounted, ZenonT(40)
  <2>5. held' \in [Names -> HeldType] /\ \A n \in Names \ {This} : held'[n] = held[n]
    BY <1>1, <1>2, <1>5, <2>3, RawSet, ZenonT(40)
  <2>6. rot'[This].raw = 0 /\ rot'[This].batch = rot[This].batch
    BY <1>1, <1>2, <2>2, <2>3, RawCounted
  <2>7. /\ held'[This].raw = FALSE /\ held'[This].batch = held[This].batch
        /\ held'[This].owner = held[This].owner
    BY <1>1, <1>2, <1>5, <2>3, RawSet
  <2> QED BY <1>3, <1>4, <2>4, <2>5, <2>6, <2>7
<1>6. CASE UNCHANGED <<rot, held>>
  BY <1>2, <1>3, <1>4, <1>6
<1> QED BY <1>5, <1>6 DEF RegisterBatchFails

(***************************************************************************)
(* One lemma for each part of the invariant.                               *)
(***************************************************************************)
\* A step counts at most one failed call.
LEMMA FailuresTyped ==
    ASSUME PublicationInv, PublicationNext
    PROVE  faults' \in 0..MaxFaults /\ failed' \in BOOLEAN
<1>1. faults \in 0..MaxFaults /\ MaxFaults \in Nat
  BY PublicationAssumption DEF PublicationInv, PublicationTypes
<1>2. failed \in BOOLEAN
  BY DEF PublicationInv, PublicationTypes
<1>3. faults' = faults \/ Fault
  <2>1. CASE Switch \/ UpdateUI \/ DoAction \/ Release \/ ReleaseFails
    BY <2>1, Zenon DEF Switch, UpdateUI, DoAction, StartPublish, StartFails, Release, ReleaseFails
  <2>2. CASE RevokeBatch \/ RevokeRaw \/ ReleaseRaw
    BY <2>2, Zenon DEF RevokeBatch, Revoked, Kept, RevokeRaw, ReleaseRaw, RevokeRawOf
  <2>3. CASE RegisterRaw \/ RegisterBatch \/ RegisterBatchFails
    BY <2>3, Zenon DEF RegisterRaw, RegisterBatch, RegisterBatchFails
  <2> QED BY <2>1, <2>2, <2>3 DEF PublicationNext, Working
<1>4. failed' = failed \/ failed' = TRUE \/ failed' = FALSE
  <2>1. CASE Switch \/ UpdateUI \/ DoAction \/ Release \/ ReleaseFails
    BY <2>1, Zenon DEF Switch, UpdateUI, DoAction, StartPublish, StartFails, Release, ReleaseFails
  <2>2. CASE RevokeBatch \/ RevokeRaw \/ ReleaseRaw
    BY <2>2, Zenon DEF RevokeBatch, RevokeRaw, ReleaseRaw, RevokeRawOf
  <2>3. CASE RegisterRaw \/ RegisterBatch \/ RegisterBatchFails
    BY <2>3, Zenon DEF RegisterRaw, RegisterBatch, RegisterBatchFails
  <2> QED BY <2>1, <2>2, <2>3 DEF PublicationNext, Working
<1>5. faults' \in 0..MaxFaults
  BY <1>1, <1>3 DEF Fault
<1> QED BY <1>2, <1>4, <1>5

\* What the call works on, at each of its steps.
LEMMA CallsGoOn ==
    ASSUME PublicationInv, PublicationNext
    PROVE  /\ step' = "idle" <=> todo' = <<>>
           /\ todo' \in Seq(Names)
           /\ shown' = shown \/ (step' = "idle" /\ step = "idle")
           /\ step' \in {"idle", "revoke batch", "revoke raw", "register raw",
                         "register batch", "release batch", "release raw"}
           /\ step' \in {"revoke batch", "register raw", "register batch"} => ~failed'
           /\ PageNotAhead'
<1>1. /\ todo \in Seq(Names)
      /\ step = "idle" <=> todo = <<>>
      /\ step \in {"revoke batch", "register raw", "register batch"} => ~failed
  BY DEF PublicationInv, PublicationTypes, CallInOrder
<1>2. ASSUME FinishCall(TRUE) \/ FinishCall(FALSE)
      PROVE  step' = "idle" /\ todo' = <<>> /\ todo' \in Seq(Names) /\ PageNotAhead'
  <2>1. step' = "idle" /\ todo' = <<>> /\ todo' \in Seq(Names)
    <3>1. step' = "idle" /\ todo' = <<>>
      BY <1>2, Zenon DEF FinishCall
    <3> QED BY <3>1
  <2>2. \/ page' = [raw |-> FALSE, batch |-> FALSE]
        \/ page' = [raw |-> held'[Primary].raw, batch |-> held'[Primary].batch]
    BY <1>2, Zenon DEF FinishCall
  <2>3. (page'.raw => held'[Primary].raw) /\ (page'.batch => held'[Primary].batch)
    BY <2>2
  <2> QED BY <2>1, <2>3 DEF PageNotAhead
<1>4. ASSUME step # "idle"
      PROVE  /\ todo # <<>> /\ Tail(todo) \in Seq(Names)
             /\ Len(todo) # 1 => Tail(todo) # <<>>
  BY <1>1, <1>4, Here
<1>5. CASE Switch
  <2>1. PageNotAhead'
    BY <1>5 DEF Switch, PublicationInv, PageNotAhead
  <2>2. step' = step /\ todo' = todo /\ step = "idle"
    BY <1>5 DEF Switch
  <2> QED BY <1>1, <2>1, <2>2
<1>6. CASE (UpdateUI \/ DoAction) /\ StartPublish
  <2>1. Targets(shown) \in Seq(Names) /\ Targets(shown) # <<>>
    <3>1. Targets(shown) \in Seq(Names) /\ Len(Targets(shown)) >= 1
      BY TargetsTyped DEF PublicationInv
    <3> QED BY <3>1
  <2>2. todo' = Targets(shown) /\ step' = "revoke batch" /\ failed' = FALSE /\ shown' = shown
    BY <1>6 DEF StartPublish
  <2> QED BY <2>1, <2>2 DEF PageNotAhead
<1>7. CASE (UpdateUI \/ DoAction) /\ StartFails
  BY <1>2, <1>7 DEF StartFails
<1>8. CASE Release
  <2> DEFINE a == SetToSeq({n \in DocumentNames : held[n] # Nothing})
             b == SetToSeq({n \in WindowNames : held[n] # Nothing})
  <2>1. a \in Seq(Names) /\ b \in Seq(Names)
    BY HeldSequenced
  <2>2. todo' = a \o b \o <<Primary>>
    BY <1>8 DEF Release
  <2> HIDE DEF a, b
  <2>3. <<Primary>> \in Seq(Names) /\ Len(<<Primary>>) = 1
    BY NamesKnown
  <2>4. a \o b \in Seq(Names)
    BY <2>1, ConcatProperties, Zenon
  <2>5. todo' \in Seq(Names) /\ Len(todo') = Len(a \o b) + Len(<<Primary>>)
    BY <2>2, <2>3, <2>4, ConcatProperties, Zenon
  <2>6. todo' # <<>>
    BY <2>3, <2>4, <2>5
  <2>7. step' = "release batch" /\ shown' = shown
    BY <1>8 DEF Release
  <2> QED BY <2>5, <2>6, <2>7 DEF PageNotAhead
<1>9. CASE ReleaseFails
  BY <1>2, <1>9 DEF ReleaseFails
<1>10. CASE RevokeBatch
  <2>1. /\ step' \in {"release raw", "revoke raw"} /\ todo' = todo /\ shown' = shown
        /\ step # "idle"
    BY <1>10 DEF RevokeBatch
  <2> QED BY <1>1, <1>4, <2>1 DEF PageNotAhead
<1>12. CASE RevokeRaw
  <2>1. CASE failed'
    <3>1. FinishCall(FALSE) /\ shown' = shown
      BY <1>12, <2>1 DEF RevokeRaw
    <3> QED BY <1>2, <3>1
  <2>2. CASE ~failed'
    <3>1. step' = "register raw" /\ todo' = todo /\ shown' = shown /\ step # "idle"
      BY <1>12, <2>2 DEF RevokeRaw
    <3> QED BY <1>1, <1>4, <2>2, <3>1 DEF PageNotAhead
  <2> QED BY <2>1, <2>2
<1>13. CASE RegisterRaw
  <2>1. CASE step' = "register batch" /\ UNCHANGED <<todo, failed, page, faults>>
    <3>1. step = "register raw" /\ shown' = shown
      BY <1>13 DEF RegisterRaw
    <3> QED BY <1>1, <1>4, <2>1, <3>1 DEF PageNotAhead
  <2>2. CASE FinishCall(FALSE)
    <3>1. shown' = shown
      BY <1>13 DEF RegisterRaw
    <3> QED BY <1>2, <2>2, <3>1
  <2> QED BY <1>13, <2>1, <2>2 DEF RegisterRaw
<1>14. CASE RegisterBatch
  <2>1. CASE Len(todo) = 1
    <3>1. FinishCall(FALSE) /\ shown' = shown
      BY <1>14, <2>1 DEF RegisterBatch
    <3> QED BY <1>2, <3>1
  <2>2. CASE Len(todo) # 1
    <3>1. /\ step' = "revoke batch" /\ todo' = Tail(todo) /\ shown' = shown /\ failed' = failed
          /\ step = "register batch"
      BY <1>14, <2>2 DEF RegisterBatch
    <3> QED BY <1>1, <1>4, <2>2, <3>1 DEF PageNotAhead
  <2> QED BY <2>1, <2>2
<1>15. CASE RegisterBatchFails
  BY <1>2, <1>15 DEF RegisterBatchFails
<1>16. CASE ReleaseRaw
  <2>1. CASE Len(todo) = 1
    <3>1. FinishCall(TRUE) /\ shown' = shown
      BY <1>16, <2>1 DEF ReleaseRaw
    <3> QED BY <1>2, <3>1
  <2>2. CASE Len(todo) # 1
    <3>1. step' = "release batch" /\ todo' = Tail(todo) /\ shown' = shown /\ step # "idle"
      BY <1>16, <2>2 DEF ReleaseRaw
    <3> QED BY <1>4, <2>2, <3>1 DEF PageNotAhead
  <2> QED BY <2>1, <2>2
<1> QED
  BY <1>5, <1>6, <1>7, <1>8, <1>9, <1>10, <1>12, <1>13, <1>14, <1>15, <1>16
     DEF PublicationNext, Working, UpdateUI, DoAction

\* The books of every name, in the table and in the module.
LEMMA BooksStayKept ==
    ASSUME PublicationInv, PublicationNext
    PROVE  /\ held' \in [Names -> HeldType] /\ rot' \in [Names -> Registered]
           /\ alive' \in [Names -> 0..1]
           /\ BooksKept'
<1>1. ASSUME NEW n \in Names
      PROVE  /\ held \in [Names -> HeldType] /\ rot \in [Names -> Registered]
             /\ alive \in [Names -> 0..1]
             /\ {held[n].raw, held[n].batch, held[n].owner} \subseteq BOOLEAN
             /\ rot[n].raw = (IF held[n].raw THEN 1 ELSE 0)
             /\ rot[n].batch = (IF held[n].batch THEN 1 ELSE 0)
             /\ alive[n] = (IF held[n].owner THEN 1 ELSE 0)
             /\ held[n].batch => held[n].owner
             /\ held[n].owner => \/ held[n].raw \/ held[n].batch
                                 \/ step \in {"revoke raw", "release raw"} /\ n = This
  BY BooksTyped DEF PublicationInv, BooksKept
<1>2. held \in [Names -> HeldType] /\ rot \in [Names -> Registered] /\ alive \in [Names -> 0..1]
  BY <1>1, NamesKnown
<1>3. CASE UNCHANGED <<held, rot, alive>> /\ step = "idle"
  <2>1. ASSUME NEW n \in Names
        PROVE  /\ rot'[n].raw = (IF held'[n].raw THEN 1 ELSE 0)
               /\ rot'[n].batch = (IF held'[n].batch THEN 1 ELSE 0)
               /\ alive'[n] = (IF held'[n].owner THEN 1 ELSE 0)
               /\ held'[n].batch => held'[n].owner
               /\ held'[n].owner => held'[n].raw \/ held'[n].batch
    BY <1>1, <1>3
  <2> QED BY <1>2, <1>3, <2>1 DEF BooksKept
<1>4. ASSUME NEW n \in Names \ {This}, step # "idle",
             held'[n] = held[n], rot'[n] = rot[n], alive'[n] = alive[n]
      PROVE  /\ rot'[n].raw = (IF held'[n].raw THEN 1 ELSE 0)
             /\ rot'[n].batch = (IF held'[n].batch THEN 1 ELSE 0)
             /\ alive'[n] = (IF held'[n].owner THEN 1 ELSE 0)
             /\ held'[n].batch => held'[n].owner
             /\ held'[n].owner => held'[n].raw \/ held'[n].batch
  BY <1>1, <1>4
<1>5. ASSUME step # "idle",
             \A n \in Names \ {This} :
                held'[n] = held[n] /\ rot'[n] = rot[n] /\ alive'[n] = alive[n],
             /\ rot'[This].raw = (IF held'[This].raw THEN 1 ELSE 0)
             /\ rot'[This].batch = (IF held'[This].batch THEN 1 ELSE 0)
             /\ alive'[This] = (IF held'[This].owner THEN 1 ELSE 0)
             /\ held'[This].batch => held'[This].owner
             /\ held'[This].owner => \/ held'[This].raw \/ held'[This].batch
                                     \/ step' \in {"revoke raw", "release raw"} /\ This = This'
      PROVE  BooksKept'
  <2>1. ASSUME NEW n \in Names
        PROVE  /\ rot'[n].raw = (IF held'[n].raw THEN 1 ELSE 0)
               /\ rot'[n].batch = (IF held'[n].batch THEN 1 ELSE 0)
               /\ alive'[n] = (IF held'[n].owner THEN 1 ELSE 0)
               /\ held'[n].batch => held'[n].owner
               /\ held'[n].owner => \/ held'[n].raw \/ held'[n].batch
                                    \/ step' \in {"revoke raw", "release raw"} /\ n = This'
    <3>1. CASE n = This
      BY <1>5, <3>1
    <3>2. CASE n # This
      BY <1>4, <1>5, <3>2
    <3> QED BY <3>1, <3>2
  <2> QED BY <2>1 DEF BooksKept
<1>6. CASE Switch \/ UpdateUI \/ DoAction \/ Release \/ ReleaseFails
  BY <1>3, <1>6 DEF Switch, UpdateUI, DoAction, Release, ReleaseFails, StartPublish, StartFails
<1>7. step # "idle" => This \in Names
  BY CallUnderWay
<1>8. CASE RevokeBatch
  <2>1. step # "idle" /\ step' \in {"revoke raw", "release raw"} /\ This' = This /\ alive' = alive
    BY <1>8 DEF RevokeBatch, This
  <2>2. /\ held' \in [Names -> HeldType] /\ rot' \in [Names -> Registered]
        /\ \A n \in Names \ {This} : held'[n] = held[n] /\ rot'[n] = rot[n]
        /\ held'[This].raw = held[This].raw /\ held'[This].owner = held[This].owner
        /\ rot'[This].raw = rot[This].raw
        /\ \/ ~held'[This].batch /\ rot'[This].batch = 0
           \/ held[This].batch /\ UNCHANGED <<held, rot>>
    BY <1>8, RevokeBatchBooks
  <2>3. /\ rot'[This].raw = (IF held'[This].raw THEN 1 ELSE 0)
        /\ rot'[This].batch = (IF held'[This].batch THEN 1 ELSE 0)
        /\ alive'[This] = (IF held'[This].owner THEN 1 ELSE 0)
        /\ held'[This].batch => held'[This].owner
    BY <1>1, <1>7, <2>1, <2>2
  <2>4. BooksKept'
    BY <1>5, <2>1, <2>2, <2>3
  <2> QED BY <1>2, <2>1, <2>2, <2>4
<1>9. CASE RevokeRaw \/ ReleaseRaw
  <2>1. step # "idle" /\ RevokeRawOf(This)
    BY <1>9 DEF RevokeRaw, ReleaseRaw
  <2>2. /\ held' \in [Names -> HeldType] /\ rot' \in [Names -> Registered]
        /\ alive' \in [Names -> 0..1]
        /\ \A n \in Names \ {This} :
              held'[n] = held[n] /\ rot'[n] = rot[n] /\ alive'[n] = alive[n]
        /\ held'[This].batch = held[This].batch /\ rot'[This].batch = rot[This].batch
        /\ rot'[This].raw = IF held'[This].raw THEN 1 ELSE 0
        /\ alive'[This] = IF held'[This].owner THEN 1 ELSE 0
        /\ held'[This].owner = (held[This].owner /\ (held'[This].raw \/ held[This].batch))
    BY <2>1, RevokeRawBooks
  <2>3. /\ rot'[This].batch = (IF held'[This].batch THEN 1 ELSE 0)
        /\ held'[This].batch => held'[This].owner
        /\ held'[This].owner => held'[This].raw \/ held'[This].batch
    BY <1>1, <1>7, <2>1, <2>2
  <2>4. BooksKept'
    BY <1>5, <2>1, <2>2, <2>3
  <2> QED BY <2>2, <2>4
<1>10. CASE RegisterRaw
  <2>1. step # "idle" /\ step = "register raw" /\ alive' = alive
    BY <1>10 DEF RegisterRaw
  <2>2. /\ held' \in [Names -> HeldType] /\ rot' \in [Names -> Registered]
        /\ \A n \in Names \ {This} : held'[n] = held[n] /\ rot'[n] = rot[n]
        /\ \/ /\ held'[This] = [raw |-> TRUE, batch |-> FALSE, owner |-> FALSE]
              /\ rot'[This].raw = 1 /\ rot'[This].batch = 0
           \/ UNCHANGED <<held, rot>>
    BY <1>10, RegisterRawBooks
  <2>3. held[This] = Nothing
    BY <2>1 DEF PublicationInv, CallInOrder
  <2>4. ~held[This].raw /\ ~held[This].batch /\ ~held[This].owner
    BY <2>3 DEF Nothing
  <2>5. /\ rot'[This].raw = (IF held'[This].raw THEN 1 ELSE 0)
        /\ rot'[This].batch = (IF held'[This].batch THEN 1 ELSE 0)
        /\ alive'[This] = (IF held'[This].owner THEN 1 ELSE 0)
        /\ held'[This].batch => held'[This].owner
        /\ held'[This].owner => held'[This].raw \/ held'[This].batch
    <3>1. alive[This] = 0 /\ rot[This].raw = 0 /\ rot[This].batch = 0
      BY <1>1, <1>7, <2>1, <2>4
    <3>2. CASE UNCHANGED <<held, rot>>
      BY <2>1, <2>4, <3>1, <3>2
    <3>3. CASE /\ held'[This] = [raw |-> TRUE, batch |-> FALSE, owner |-> FALSE]
               /\ rot'[This].raw = 1 /\ rot'[This].batch = 0
      <4>1. held'[This].raw /\ ~held'[This].batch /\ ~held'[This].owner
        BY <3>3
      <4> QED BY <2>1, <3>1, <3>3, <4>1
    <3> QED BY <2>2, <3>2, <3>3
  <2>6. BooksKept'
    BY <1>5, <2>1, <2>2, <2>5
  <2> QED BY <1>2, <2>1, <2>2, <2>6
<1>11. CASE RegisterBatch
  <2>1. step # "idle"
    BY <1>11 DEF RegisterBatch
  <2>2. /\ held' \in [Names -> HeldType] /\ rot' \in [Names -> Registered]
        /\ alive' \in [Names -> 0..1]
        /\ \A n \in Names \ {This} :
              held'[n] = held[n] /\ rot'[n] = rot[n] /\ alive'[n] = alive[n]
        /\ held'[This].raw /\ held'[This].batch /\ held'[This].owner
        /\ rot'[This].raw = 1 /\ rot'[This].batch = 1 /\ alive'[This] = 1
    BY <1>11, RegisterBatchBooks
  <2> QED BY <1>5, <2>1, <2>2
<1>12. CASE RegisterBatchFails
  <2>1. step # "idle" /\ step = "register batch" /\ alive' = alive
    BY <1>12 DEF RegisterBatchFails
  <2>2. /\ held' \in [Names -> HeldType] /\ rot' \in [Names -> Registered]
        /\ \A n \in Names \ {This} : held'[n] = held[n] /\ rot'[n] = rot[n]
        /\ ~held'[This].batch /\ ~held'[This].owner /\ rot'[This].batch = 0
        /\ rot'[This].raw = IF held'[This].raw THEN 1 ELSE 0
    BY <1>12, RegisterBatchFailsBooks
  <2>3. held[This] = [raw |-> TRUE, batch |-> FALSE, owner |-> FALSE]
    BY <2>1 DEF PublicationInv, CallInOrder
  <2>4. ~held[This].owner
    BY <2>3
  <2>5. alive'[This] = 0
    BY <1>1, <1>7, <2>1, <2>4
  <2>6. BooksKept'
    BY <1>5, <2>1, <2>2, <2>5
  <2> QED BY <1>2, <2>1, <2>2, <2>6
<1> QED
  BY <1>6, <1>8, <1>9, <1>10, <1>11, <1>12 DEF PublicationNext, Working

\* A publication works on the names of what was shown when it began.
LEMMA TargetsStayOwn ==
    ASSUME PublicationInv, PublicationNext
    PROVE  OwnTargets'
<1>1. todo \in Seq(Names) /\ (step # "idle" => todo # <<>>)
  BY DEF PublicationInv, PublicationTypes, CallInOrder
<1>2. ASSUME step' = "idle" \/ Releasing'
      PROVE  OwnTargets'
  BY <1>2 DEF OwnTargets
<1>3. FinishCall(TRUE) \/ FinishCall(FALSE) => OwnTargets'
  BY <1>2 DEF FinishCall
<1>4. ASSUME step # "idle", ~Releasing, shown' = shown,
             todo' = todo \/ todo' = Tail(todo)
      PROVE  OwnTargets'
  <2> DEFINE own == {Targets(shown)[j] : j \in 1..Len(Targets(shown))}
  <2>1. \A i \in 1..Len(todo) : todo[i] \in own
    BY <1>4 DEF PublicationInv, OwnTargets
  <2> HIDE DEF own
  <2>2. \A i \in 1..Len(Tail(todo)) : i + 1 \in 1..Len(todo) /\ Tail(todo)[i] = todo[i + 1]
    BY <1>1, <1>4, Here
  <2>3. \A i \in 1..Len(todo') : todo'[i] \in own
    BY <1>4, <2>1, <2>2
  <2>4. own = {Targets(shown')[j] : j \in 1..Len(Targets(shown'))}
    BY <1>4 DEF own
  <2> QED BY <2>3, <2>4 DEF OwnTargets
<1>5. CASE Switch
  BY <1>2, <1>5 DEF Switch
<1>6. CASE (UpdateUI \/ DoAction) /\ StartPublish
  <2>1. todo' = Targets(shown') /\ shown' = shown
    BY <1>6 DEF StartPublish
  <2>2. \A i \in 1..Len(todo') :
           todo'[i] \in {Targets(shown')[j] : j \in 1..Len(Targets(shown'))}
    BY <2>1
  <2> QED BY <2>2 DEF OwnTargets
<1>7. CASE (UpdateUI \/ DoAction) /\ StartFails
  BY <1>3, <1>7 DEF StartFails
<1>8. CASE Release
  BY <1>2, <1>8 DEF Release, Releasing
<1>9. CASE ReleaseFails
  BY <1>3, <1>9 DEF ReleaseFails
<1>10. CASE RevokeBatch
  <2>1. CASE Releasing
    BY <1>2, <1>10, <2>1 DEF RevokeBatch, Releasing
  <2>2. CASE ~Releasing
    BY <1>4, <1>10, <2>2 DEF RevokeBatch
  <2> QED BY <2>1, <2>2
<1>11. CASE RevokeRaw
  <2>1. CASE failed'
    BY <1>3, <1>11, <2>1 DEF RevokeRaw
  <2>2. CASE ~failed'
    BY <1>4, <1>11, <2>2 DEF RevokeRaw, Releasing
  <2> QED BY <2>1, <2>2
<1>12. CASE RegisterRaw
  BY <1>3, <1>4, <1>12 DEF RegisterRaw, Releasing
<1>13. CASE RegisterBatch
  BY <1>3, <1>4, <1>13 DEF RegisterBatch, Releasing
<1>14. CASE RegisterBatchFails
  BY <1>3, <1>14 DEF RegisterBatchFails
<1>15. CASE ReleaseRaw
  BY <1>2, <1>3, <1>15 DEF ReleaseRaw, Releasing
<1> QED
  BY <1>5, <1>6, <1>7, <1>8, <1>9, <1>10, <1>11, <1>12, <1>13, <1>14, <1>15
     DEF PublicationNext, Working, UpdateUI, DoAction

\* A name is registered only when nothing of it is held any more.
LEMMA CallStaysInOrder ==
    ASSUME PublicationInv, PublicationNext
    PROVE  CallInOrder'
<1>1. /\ todo' \in Seq(Names)
      /\ step' \in {"revoke batch", "register raw", "register batch"} => ~failed'
  BY CallsGoOn
<1>2. ASSUME step' \notin {"revoke raw", "register raw", "register batch"}
      PROVE  CallInOrder'
  BY <1>1, <1>2 DEF CallInOrder
<1>3. FinishCall(TRUE) \/ FinishCall(FALSE) => CallInOrder'
  BY <1>2 DEF FinishCall
<1>4. CASE Switch \/ UpdateUI \/ DoAction \/ Release \/ ReleaseFails
  BY <1>2, <1>3, <1>4
     DEF Switch, UpdateUI, DoAction, StartPublish, StartFails, Release, ReleaseFails
<1>5. CASE RevokeBatch
  <2>1. step' \in {"revoke raw", "release raw"} /\ This' = This /\ step # "idle"
    BY <1>5 DEF RevokeBatch, This
  <2>2. ~failed' => ~held'[This].batch
    BY <1>5, RevokeBatchBooks
  <2> QED BY <1>1, <2>1, <2>2 DEF CallInOrder
<1>6. CASE RevokeRaw
  <2>1. CASE failed'
    BY <1>3, <1>6, <2>1 DEF RevokeRaw
  <2>2. CASE ~failed'
    <3>1. /\ step = "revoke raw" /\ RevokeRawOf(This) /\ step' = "register raw"
          /\ todo' = todo /\ This' = This /\ This \in Names
      BY <1>6, <2>2, CallUnderWay DEF RevokeRaw, This
    <3>2. /\ held' \in [Names -> HeldType]
          /\ held'[This].batch = held[This].batch
          /\ held'[This].owner = (held[This].owner /\ (held'[This].raw \/ held[This].batch))
          /\ ~held'[This].raw /\ failed' = failed
      BY <2>2, <3>1, RevokeRawBooks
    <3>3. ~held[This].batch
      BY <2>2, <3>1, <3>2 DEF PublicationInv, CallInOrder
    <3>4. held'[This].raw = FALSE /\ held'[This].batch = FALSE /\ held'[This].owner = FALSE
      <4>1. held'[This] \in HeldType
        BY <3>1, <3>2
      <4>2. {held'[This].raw, held'[This].batch, held'[This].owner} \subseteq BOOLEAN
        BY <4>1 DEF HeldType
      <4> QED BY <3>2, <3>3, <4>2, Zenon
    <3>5. held'[This] = Nothing
      <4>1. held'[This] \in HeldType
        BY <3>1, <3>2
      <4> QED BY <3>4, <4>1 DEF Nothing, HeldType
    <3> QED BY <1>1, <2>2, <3>1, <3>5 DEF CallInOrder
  <2> QED BY <2>1, <2>2
<1>7. CASE RegisterRaw
  <2>1. CASE FinishCall(FALSE)
    BY <1>3, <2>1
  <2>2. CASE ~FinishCall(FALSE)
    <3>1. /\ held'[This] = [raw |-> TRUE, batch |-> FALSE, owner |-> FALSE]
          /\ step' = "register batch" /\ todo' = todo
      BY <1>7, <2>2, RegisterRawBooks
    <3>2. This' = This
      BY <3>1 DEF This
    <3> QED BY <1>1, <3>1, <3>2 DEF CallInOrder
  <2> QED BY <2>1, <2>2
<1>8. CASE RegisterBatch
  BY <1>2, <1>3, <1>8 DEF RegisterBatch
<1>9. CASE RegisterBatchFails
  BY <1>3, <1>9 DEF RegisterBatchFails
<1>10. CASE ReleaseRaw
  BY <1>2, <1>3, <1>10 DEF ReleaseRaw
<1> QED BY <1>4, <1>5, <1>6, <1>7, <1>8, <1>9, <1>10 DEF PublicationNext, Working

(***************************************************************************)
(* A release counts what it leaves behind.                                 *)
(***************************************************************************)
LEMMA LeftIsFinite ==
    ASSUME NEW S, S \subseteq Names \X {"raw", "batch"}
    PROVE  IsFiniteSet(S)
<1>1. IsFiniteSet({"raw", "batch"})
  <2>1. IsFiniteSet({"raw"}) /\ IsFiniteSet({"batch"})
    BY FS_Singleton
  <2>2. IsFiniteSet({"raw"} \cup {"batch"})
    BY <2>1, FS_Union
  <2>3. {"raw"} \cup {"batch"} = {"raw", "batch"}
    OBVIOUS
  <2> QED BY <2>2, <2>3
<1>2. IsFiniteSet(Names \X {"raw", "batch"})
  BY <1>1, NamesFinite, FS_Product
<1> QED BY <1>2, FS_Subset

\* Whatever is left behind in a step is there before, or it is the one pair
\* for which a call of the table has just failed.
LEMMA OneMoreLeft ==
    ASSUME PublicationInv, PublicationNext, Releasing, NEW B, NEW x,
           B \subseteq LeftBehind \cup {x},
           \/ UNCHANGED <<faults, failed>> /\ x \notin B
           \/ Fault /\ failed' = TRUE
    PROVE  Cardinality(B) <= faults' /\ (B # {} => failed')
<1>1. IsFiniteSet(LeftBehind) /\ Cardinality(LeftBehind) \in Nat
  <2>1. LeftBehind \subseteq Names \X {"raw", "batch"}
    BY DEF LeftBehind
  <2> QED BY <2>1, LeftIsFinite, FS_CardinalityType
<1>2. Cardinality(LeftBehind) <= faults /\ (LeftBehind # {} => failed) /\ faults \in Nat
  <2>1. Cardinality(LeftBehind) <= faults /\ (LeftBehind # {} => failed)
    BY DEF PublicationInv, FailuresCounted
  <2>2. faults \in Nat
    <3>1. faults \in 0..MaxFaults /\ MaxFaults \in Nat
      BY PublicationAssumption DEF PublicationInv, PublicationTypes
    <3> QED BY <3>1
  <2> QED BY <2>1, <2>2
<1>3. CASE UNCHANGED <<faults, failed>> /\ x \notin B
  <2>1. B \subseteq LeftBehind
    BY <1>3
  <2>2. Cardinality(B) <= Cardinality(LeftBehind) /\ Cardinality(B) \in Nat
    BY <1>1, <2>1, FS_Subset, FS_CardinalityType
  <2>3. Cardinality(B) <= faults'
    BY <1>1, <1>2, <1>3, <2>2
  <2>4. B # {} => failed'
    BY <1>2, <1>3, <2>1
  <2> QED BY <2>3, <2>4
<1>4. CASE Fault /\ failed' = TRUE
  <2>1. /\ IsFiniteSet(LeftBehind \cup {x})
        /\ Cardinality(LeftBehind \cup {x}) = Cardinality(LeftBehind)
           \/ Cardinality(LeftBehind \cup {x}) = Cardinality(LeftBehind) + 1
    <3>1. CASE x \in LeftBehind
      <4>1. LeftBehind \cup {x} = LeftBehind
        BY <3>1
      <4> QED BY <1>1, <4>1
    <3>2. CASE x \notin LeftBehind
      BY <1>1, <3>2, FS_AddElement
    <3> QED BY <3>1, <3>2
  <2>2. /\ Cardinality(B) <= Cardinality(LeftBehind \cup {x}) /\ Cardinality(B) \in Nat
        /\ Cardinality(LeftBehind \cup {x}) \in Nat
    BY <2>1, FS_Subset, FS_CardinalityType
  <2>3. faults' = faults + 1
    BY <1>4 DEF Fault
  <2>4. Cardinality(B) <= faults'
    BY <1>1, <1>2, <2>1, <2>2, <2>3
  <2> QED BY <1>4, <2>4
<1> QED BY <1>3, <1>4

\* The second half of a pair is tried: what is held of the names the release
\* has gone past, this one included.
LEMMA PastCounted ==
    ASSUME PublicationInv, ReleaseRaw
    PROVE  LET past == {e \in Names \X {"raw", "batch"} :
                          /\ held'[e[1]][e[2]]
                          /\ \A i \in 1..Len(Tail(todo)) : Tail(todo)[i] # e[1]}
           IN  Cardinality(past) <= faults' /\ (past # {} => failed')
<1> DEFINE past == {e \in Names \X {"raw", "batch"} :
                      /\ held'[e[1]][e[2]]
                      /\ \A i \in 1..Len(Tail(todo)) : Tail(todo)[i] # e[1]}
<1>1. step = "release raw" /\ RevokeRawOf(This) /\ Releasing /\ PublicationNext
  BY DEF ReleaseRaw, Releasing, PublicationNext, Working
<1>2. /\ This \in Names /\ todo \in Seq(Names) /\ todo # <<>>
      /\ \A i \in 1..Len(todo) : \/ todo[i] = This
                                 \/ \E j \in 1..Len(Tail(todo)) : Tail(todo)[j] = todo[i]
  BY <1>1, CallUnderWay, Here
<1>3. /\ \A n \in Names \ {This} : held'[n] = held[n]
      /\ held'[This].batch = held[This].batch
      /\ \/ ~held'[This].raw /\ UNCHANGED <<faults, failed>>
         \/ held'[This].raw /\ Fault /\ failed' = TRUE
  <2>1. /\ \A n \in Names \ {This} : held'[n] = held[n]
        /\ held'[This].batch = held[This].batch
    BY <1>1, RevokeRawBooks
  <2>2. \/ ~held'[This].raw /\ UNCHANGED <<faults, failed>>
        \/ held'[This].raw /\ Fault /\ failed'
    BY <1>1, RevokeRawBooks
  <2>3. failed' \in BOOLEAN
    BY <1>1, FailuresTyped
  <2> QED BY <2>1, <2>2, <2>3
<1>4. ASSUME NEW e \in past, e # <<This, "raw">>
      PROVE  e \in LeftBehind
  <2>1. PICK n \in Names, kind \in {"raw", "batch"} : e = <<n, kind>>
    OBVIOUS
  <2>2. held'[n][kind] /\ \A i \in 1..Len(Tail(todo)) : Tail(todo)[i] # n
    BY <2>1
  <2>3. CASE n = This
    <3>1. kind = "batch"
      BY <1>4, <2>1, <2>3
    <3>2. held[n][kind]
      BY <1>3, <2>2, <2>3, <3>1
    <3> QED BY <1>1, <2>1, <2>3, <3>1, <3>2 DEF LeftBehind
  <2>4. CASE n # This
    <3>1. held[n][kind]
      BY <1>3, <2>2, <2>4
    <3>2. \A i \in 1..Len(todo) : todo[i] # n
      BY <1>2, <2>2, <2>4
    <3> QED BY <2>1, <3>1, <3>2 DEF LeftBehind
  <2> QED BY <2>3, <2>4
<1>5. ~held'[This].raw => <<This, "raw">> \notin past
  OBVIOUS
<1> HIDE DEF past
<1>6. past \subseteq LeftBehind \cup {<<This, "raw">>}
  BY <1>4
<1>7. \/ UNCHANGED <<faults, failed>> /\ <<This, "raw">> \notin past
      \/ Fault /\ failed' = TRUE
  BY <1>3, <1>5
<1>8. Cardinality(past) <= faults' /\ (past # {} => failed')
  BY <1>1, <1>6, <1>7, OneMoreLeft
<1> QED BY <1>8 DEF past

\* A release starts with nothing left behind, and each failure adds one pair.
LEMMA FailuresStayCounted ==
    ASSUME PublicationInv, PublicationNext
    PROVE  FailuresCounted'
<1>1. ASSUME ~Releasing'
      PROVE  FailuresCounted'
  BY <1>1 DEF FailuresCounted
<1>2. FinishCall(TRUE) \/ FinishCall(FALSE) => FailuresCounted'
  BY <1>1 DEF FinishCall, Releasing
<1>3. CASE Switch \/ UpdateUI \/ DoAction \/ ReleaseFails
  BY <1>1, <1>2, <1>3
     DEF Switch, UpdateUI, DoAction, StartPublish, StartFails, ReleaseFails, Releasing
<1>4. CASE RevokeRaw \/ RegisterRaw \/ RegisterBatch \/ RegisterBatchFails
  BY <1>1, <1>2, <1>4
     DEF RevokeRaw, RegisterRaw, RegisterBatch, RegisterBatchFails, Releasing
<1>5. CASE Release
  <2> DEFINE docs == {n \in DocumentNames : held[n] # Nothing}
             wins == {n \in WindowNames : held[n] # Nothing}
             a == SetToSeq(docs)
             b == SetToSeq(wins)
  <2>1. /\ a \in Seq(Names) /\ \A x \in docs : \E i \in 1..Len(a) : a[i] = x
        /\ b \in Seq(Names) /\ \A x \in wins : \E i \in 1..Len(b) : b[i] = x
    BY HeldSequenced
  <2>2. /\ todo' = a \o b \o <<Primary>> /\ held' = held /\ step' = "release batch"
        /\ faults' = faults
    BY <1>5 DEF Release
  <2>3. \A n \in Names : held[n] # Nothing => n \in docs \cup wins \cup {Primary}
    BY NamesKnown
  <2> HIDE DEF docs, wins, a, b
  <2>4. a \o b \in Seq(Names)
    BY <2>1, ConcatProperties, Zenon
  <2>5. /\ Len(a \o b) = Len(a) + Len(b)
        /\ \A i \in 1..Len(a) + Len(b) : (a \o b)[i] = IF i <= Len(a) THEN a[i] ELSE b[i - Len(a)]
    BY <2>1, ConcatProperties, Zenon
  <2> DEFINE c == a \o b
  <2>6. c \in Seq(Names) /\ \A x \in docs \cup wins : \E i \in 1..Len(c) : c[i] = x
    <3>1. Len(a) \in Nat /\ Len(b) \in Nat
      BY <2>1
    <3>2. ASSUME NEW x \in docs PROVE \E i \in 1..Len(c) : c[i] = x
      <4>1. PICK i \in 1..Len(a) : a[i] = x
        BY <2>1
      <4>2. i \in 1..Len(c) /\ c[i] = x
        BY <2>5, <3>1, <4>1
      <4> QED BY <4>2
    <3>3. ASSUME NEW x \in wins PROVE \E i \in 1..Len(c) : c[i] = x
      <4>1. PICK i \in 1..Len(b) : b[i] = x
        BY <2>1
      <4>2. i + Len(a) \in 1..Len(c) /\ c[i + Len(a)] = x
        BY <2>5, <3>1, <4>1
      <4> QED BY <4>2
    <3> QED BY <2>4, <3>2, <3>3
  <2>7. todo' = c \o <<Primary>>
    BY <2>2
  <2> HIDE DEF c
  <2>8. \A x \in docs \cup wins \cup {Primary} : \E i \in 1..Len(todo') : todo'[i] = x
    <3>1. /\ Len(c) \in Nat /\ Len(todo') = Len(c) + 1 /\ todo'[Len(c) + 1] = Primary
          /\ \A i \in 1..Len(c) : todo'[i] = c[i]
      BY <2>6, <2>7
    <3>2. ASSUME NEW x \in docs \cup wins PROVE \E i \in 1..Len(todo') : todo'[i] = x
      <4>1. PICK i \in 1..Len(c) : c[i] = x
        BY <2>6
      <4>2. i \in 1..Len(todo') /\ todo'[i] = x
        BY <3>1, <4>1
      <4> QED BY <4>2
    <3>3. Len(c) + 1 \in 1..Len(todo')
      BY <3>1
    <3> QED BY <3>1, <3>2, <3>3
  <2>9. ASSUME NEW n \in Names, NEW kind \in {"raw", "batch"}, held[n][kind]
        PROVE  \E i \in 1..Len(todo') : todo'[i] = n
    <3>1. held[n] # Nothing
      BY <2>9 DEF Nothing
    <3> QED BY <2>3, <2>8, <3>1
  <2>10. LeftBehind' = {}
    <3>1. LeftBehind' = {e \in Names \X {"raw", "batch"} :
                           /\ held[e[1]][e[2]]
                           /\ \A i \in 1..Len(todo') : todo'[i] # e[1]}
      BY <2>2 DEF LeftBehind
    <3> QED BY <2>9, <3>1
  <2>11. Cardinality(LeftBehind') = 0 /\ faults' \in Nat
    <3>1. Cardinality({}) = 0
      BY FS_EmptySet
    <3>2. faults' \in Nat
      <4>1. faults \in 0..MaxFaults /\ MaxFaults \in Nat
        BY PublicationAssumption DEF PublicationInv, PublicationTypes
      <4>2. faults' = faults
        BY <1>5 DEF Release
      <4> QED BY <4>1, <4>2
    <3> QED BY <2>10, <3>1, <3>2
  <2>12. Cardinality(LeftBehind') <= faults'
    BY <2>11
  <2> QED BY <2>10, <2>12 DEF FailuresCounted
<1>6. CASE RevokeBatch
  <2>1. CASE ~Releasing
    BY <1>1, <1>6, <2>1 DEF RevokeBatch, Releasing
  <2>2. CASE Releasing
    <3>1. step' = "release raw" /\ todo' = todo /\ This' = This /\ step = "release batch"
      BY <1>6, <2>2 DEF RevokeBatch, Releasing, This
    <3>2. This \in Names /\ Len(todo) \in Nat \ {0} /\ todo[1] = This
      BY <3>1, CallUnderWay
    <3>3. /\ \A n \in Names \ {This} : held'[n] = held[n]
          /\ \/ ~held'[This].batch /\ UNCHANGED <<faults, failed>>
             \/ Fault /\ failed' = TRUE
      <4>1. /\ \A n \in Names \ {This} : held'[n] = held[n]
            /\ \/ ~held'[This].batch /\ UNCHANGED <<faults, failed>>
               \/ Fault /\ failed'
        BY <1>6, RevokeBatchBooks
      <4> QED BY <4>1, FailuresTyped
    <3> DEFINE left == {e \in Names \X {"raw", "batch"} :
                          /\ held'[e[1]][e[2]]
                          /\ \/ \A i \in 1..Len(todo) : todo[i] # e[1]
                             \/ e = <<This, "batch">>}
    <3>4. LeftBehind' = left
      BY <3>1 DEF LeftBehind
    <3>5. ASSUME NEW e \in left, e # <<This, "batch">>
          PROVE  e \in LeftBehind
      <4>1. PICK n \in Names, kind \in {"raw", "batch"} : e = <<n, kind>>
        OBVIOUS
      <4>2. held'[n][kind] /\ \A i \in 1..Len(todo) : todo[i] # n
        BY <3>5, <4>1
      <4>3. n # This
        BY <3>2, <4>2
      <4>4. held[n][kind]
        BY <3>3, <4>2, <4>3
      <4> QED BY <4>1, <4>2, <4>4 DEF LeftBehind
    <3>6. ~held'[This].batch => <<This, "batch">> \notin left
      OBVIOUS
    <3> HIDE DEF left
    <3>7. left \subseteq LeftBehind \cup {<<This, "batch">>}
      BY <3>5
    <3>8. \/ UNCHANGED <<faults, failed>> /\ <<This, "batch">> \notin left
          \/ Fault /\ failed' = TRUE
      BY <3>3, <3>6
    <3>9. Cardinality(left) <= faults' /\ (left # {} => failed')
      BY <2>2, <3>7, <3>8, OneMoreLeft
    <3> QED BY <3>4, <3>9 DEF FailuresCounted
  <2> QED BY <2>1, <2>2
<1>7. CASE ReleaseRaw
  <2>1. CASE Len(todo) = 1
    BY <1>2, <1>7, <2>1 DEF ReleaseRaw
  <2>2. CASE Len(todo) # 1
    <3>1. step' = "release batch" /\ todo' = Tail(todo)
      BY <1>7, <2>2 DEF ReleaseRaw
    <3> DEFINE past == {e \in Names \X {"raw", "batch"} :
                          /\ held'[e[1]][e[2]]
                          /\ \A i \in 1..Len(Tail(todo)) : Tail(todo)[i] # e[1]}
    <3>2. LeftBehind' = past
      BY <3>1 DEF LeftBehind
    <3>3. Cardinality(past) <= faults' /\ (past # {} => failed')
      BY <1>7, PastCounted
    <3> HIDE DEF past
    <3> QED BY <3>2, <3>3 DEF FailuresCounted
  <2> QED BY <2>1, <2>2
<1> QED BY <1>3, <1>4, <1>5, <1>6, <1>7 DEF PublicationNext, Working

\* Nothing is published before the first call.
LEMMA PublicationBegins == PublicationInit => PublicationInv
<1> SUFFICES ASSUME PublicationInit PROVE PublicationInv
  OBVIOUS
<1>1. Nothing \in HeldType /\ [raw |-> 0, batch |-> 0] \in Registered
      /\ ~Nothing.raw /\ ~Nothing.batch /\ ~Nothing.owner
  BY DEF Nothing, HeldType, Registered
<1>2. held \in [Names -> HeldType] /\ rot \in [Names -> Registered] /\ alive \in [Names -> 0..1]
  BY <1>1 DEF PublicationInit
<1>3. todo = <<>> /\ step = "idle" /\ failed = FALSE /\ faults = 0
      /\ page = [raw |-> FALSE, batch |-> FALSE]
  BY DEF PublicationInit
<1>4. PublicationTypes
  <2>1. shown \in {<<>>} \cup {<<w>> : w \in Windows} \cup (Windows \X Documents)
    BY DEF PublicationInit
  <2>2. \A i \in 1..Len(todo) : todo[i] \in Names
    BY <1>3
  <2>3. failed \in BOOLEAN /\ page \in [raw : BOOLEAN, batch : BOOLEAN]
    BY <1>3
  <2>4. faults \in 0..MaxFaults
    BY <1>3, PublicationAssumption
  <2>5. (step = "idle") = (todo = <<>>)
    BY <1>3
  <2> QED BY <1>2, <1>3, <2>1, <2>2, <2>3, <2>4, <2>5
          DEF PublicationTypes, HeldType, Registered
<1>5. CallInOrder
  BY <1>3 DEF CallInOrder
<1>6. BooksKept
  <2>1. ASSUME NEW n \in Names
        PROVE  /\ rot[n].raw = 0 /\ rot[n].batch = 0 /\ alive[n] = 0
               /\ ~held[n].raw /\ ~held[n].batch /\ ~held[n].owner
    BY <1>1 DEF PublicationInit
  <2> QED BY <2>1 DEF BooksKept
<1>7. PageNotAhead
  BY <1>3 DEF PageNotAhead
<1>8. OwnTargets /\ FailuresCounted
  BY <1>3 DEF OwnTargets, FailuresCounted, Releasing
<1> QED BY <1>4, <1>5, <1>6, <1>7, <1>8 DEF PublicationInv

\* Every step keeps the invariant, part by part.
LEMMA PublicationGoesOn ==
    PublicationInv /\ [PublicationNext]_publicationVars => PublicationInv'
<1>1. ASSUME PublicationInv, PublicationNext
      PROVE  PublicationInv'
  <2>1. /\ todo' \in Seq(Names)
        /\ step' = "idle" <=> todo' = <<>>
        /\ shown' = shown \/ (step' = "idle" /\ step = "idle")
        /\ step' \in {"idle", "revoke batch", "revoke raw", "register raw",
                      "register batch", "release batch", "release raw"}
        /\ PageNotAhead'
    BY <1>1, CallsGoOn
  <2>2. /\ held' \in [Names -> HeldType] /\ rot' \in [Names -> Registered]
        /\ alive' \in [Names -> 0..1] /\ BooksKept'
    BY <1>1, BooksStayKept
  <2>3. faults' \in 0..MaxFaults /\ failed' \in BOOLEAN
    BY <1>1, FailuresTyped
  <2>4. OwnTargets' /\ CallInOrder' /\ FailuresCounted'
    BY <1>1, TargetsStayOwn, CallStaysInOrder, FailuresStayCounted
  <2>5. shown' \in {<<>>} \cup {<<w>> : w \in Windows} \cup (Windows \X Documents)
    <3>1. CASE shown' = shown
      BY <1>1, <3>1 DEF PublicationInv, PublicationTypes
    <3>2. CASE Switch
      BY <3>2 DEF Switch
    <3>3. shown' = shown \/ Switch
      BY <1>1, Zenon
         DEF PublicationNext, Working, UpdateUI, DoAction, StartPublish, StartFails, Release,
             ReleaseFails, RevokeBatch, RevokeRaw, RegisterRaw, RegisterBatch,
             RegisterBatchFails, ReleaseRaw
    <3> QED BY <3>1, <3>2, <3>3
  <2>6. page' \in [raw : BOOLEAN, batch : BOOLEAN]
    <3>1. page \in [raw : BOOLEAN, batch : BOOLEAN]
      BY <1>1 DEF PublicationInv, PublicationTypes
    <3>2. {held'[Primary].raw, held'[Primary].batch} \subseteq BOOLEAN
      <4>1. held'[Primary] \in HeldType
        BY <2>2, NamesKnown
      <4> QED BY <4>1 DEF HeldType
    <3>3. FinishCall(TRUE) \/ FinishCall(FALSE) =>
             \/ page' = [raw |-> FALSE, batch |-> FALSE]
             \/ page' = [raw |-> held'[Primary].raw, batch |-> held'[Primary].batch]
      BY Zenon DEF FinishCall
    <3>4. page' = page \/ FinishCall(TRUE) \/ FinishCall(FALSE)
      <4>1. CASE Switch \/ UpdateUI \/ DoAction \/ Release \/ ReleaseFails
        BY <4>1, Zenon
           DEF Switch, UpdateUI, DoAction, StartPublish, StartFails, Release, ReleaseFails
      <4>2. CASE RevokeBatch \/ RevokeRaw \/ ReleaseRaw
        BY <4>2, Zenon DEF RevokeBatch, RevokeRaw, ReleaseRaw
      <4>3. CASE RegisterRaw \/ RegisterBatch \/ RegisterBatchFails
        BY <4>3, Zenon DEF RegisterRaw, RegisterBatch, RegisterBatchFails
      <4> QED BY <1>1, <4>1, <4>2, <4>3 DEF PublicationNext, Working
    <3>5. ASSUME NEW p \in BOOLEAN, NEW q \in BOOLEAN
          PROVE  [raw |-> p, batch |-> q] \in [raw : BOOLEAN, batch : BOOLEAN]
      BY Zenon
    <3>6. [raw |-> FALSE, batch |-> FALSE] \in [raw : BOOLEAN, batch : BOOLEAN]
      OBVIOUS
    <3>7. [raw |-> held'[Primary].raw, batch |-> held'[Primary].batch]
             \in [raw : BOOLEAN, batch : BOOLEAN]
      BY <3>2, Zenon
    <3> QED BY <3>1, <3>3, <3>4, <3>6, <3>7
  <2>7. \A i \in 1..Len(todo') : todo'[i] \in Names
    <3>1. todo' \in Seq(Names)
      BY <2>1
    <3> QED BY <3>1
  <2>8. PublicationTypes'
    BY <2>1, <2>2, <2>3, <2>5, <2>6, <2>7 DEF PublicationTypes, HeldType, Registered
  <2> QED BY <2>1, <2>2, <2>4, <2>8 DEF PublicationInv
<1>2. ASSUME PublicationInv, UNCHANGED publicationVars
      PROVE  PublicationInv'
  <2>1. /\ shown' = shown /\ rot' = rot /\ alive' = alive /\ held' = held /\ todo' = todo
        /\ step' = step /\ failed' = failed /\ page' = page /\ faults' = faults
    BY <1>2 DEF publicationVars
  <2>2. PublicationTypes'
    BY <1>2, <2>1 DEF PublicationInv, PublicationTypes
  <2>3. This' = This /\ Releasing' = Releasing /\ LeftBehind' = LeftBehind
    BY <2>1 DEF This, Releasing, LeftBehind
  <2>4. CallInOrder' /\ PageNotAhead'
    BY <1>2, <2>1, <2>3 DEF PublicationInv, CallInOrder, PageNotAhead
  <2>5. BooksKept'
    BY <1>2, <2>1, <2>3 DEF PublicationInv, BooksKept
  <2>6. OwnTargets'
    BY <1>2, <2>1, <2>3 DEF PublicationInv, OwnTargets
  <2>7. FailuresCounted'
    BY <1>2, <2>1, <2>3 DEF PublicationInv, FailuresCounted
  <2> QED BY <2>2, <2>4, <2>5, <2>6, <2>7 DEF PublicationInv
<1> QED BY <1>1, <1>2

(* Every state of the publication satisfies the inductive invariant: calls   *)
(* run in order, and the books agree with the table at every step of them.   *)
THEOREM PublicationInductive == PublicationSpec => []PublicationInv
<1>1. PublicationInv /\ [PublicationNext]_publicationVars => PublicationInv'
  BY PublicationGoesOn
<1> QED BY <1>1, PublicationBegins, PTL DEF PublicationSpec

(* For every set of windows and documents and whatever the table refuses,    *)
(* the books of the bridge and the table of running objects agree, and the   *)
(* status page between calls shows no cookie that was given back.            *)
THEOREM RegistrationsOwnedHolds == PublicationSpec => []RegistrationsOwned
<1>1. PublicationInv => RegistrationsOwned
  <2> SUFFICES ASSUME PublicationInv PROVE RegistrationsOwned
    OBVIOUS
  <2>1. ASSUME NEW n \in Names
        PROVE  /\ rot[n].raw = (IF held[n].raw THEN 1 ELSE 0)
               /\ rot[n].batch = (IF held[n].batch THEN 1 ELSE 0)
               /\ alive[n] = (IF held[n].owner THEN 1 ELSE 0)
               /\ held[n].batch => held[n].owner
               /\ step = "idle" /\ held[n].owner => held[n].raw \/ held[n].batch
    BY DEF PublicationInv, BooksKept
  <2>2. Tracked
    BY <2>1 DEF Tracked
  <2>3. ObjectsOwned
    BY <2>1 DEF ObjectsOwned
  <2> QED BY <2>2, <2>3 DEF PublicationInv, RegistrationsOwned
<1> QED BY <1>1, PublicationInductive, PTL

\* Outside a release the table changes for the names of what is shown only.
LEMMA OnlyOwnNames ==
    ASSUME PublicationInv, PublicationNext, ~Releasing, NEW n \in Names, rot[n] # rot'[n]
    PROVE  \E i \in 1..Len(Targets(shown)) : n = Targets(shown)[i]
<1>1. step # "idle" /\ n = This
  <2>1. CASE Switch \/ UpdateUI \/ DoAction \/ Release \/ ReleaseFails
    BY <2>1 DEF Switch, UpdateUI, DoAction, StartPublish, StartFails, Release, ReleaseFails
  <2>2. CASE RevokeBatch
    BY <2>2, RevokeBatchBooks DEF RevokeBatch
  <2>3. CASE RevokeRaw \/ ReleaseRaw
    <3>1. step # "idle" /\ RevokeRawOf(This)
      BY <2>3 DEF RevokeRaw, ReleaseRaw
    <3> QED BY <3>1, RevokeRawBooks
  <2>4. CASE RegisterRaw
    BY <2>4, RegisterRawBooks DEF RegisterRaw
  <2>5. CASE RegisterBatch
    BY <2>5, RegisterBatchBooks DEF RegisterBatch
  <2>6. CASE RegisterBatchFails
    BY <2>6, RegisterBatchFailsBooks DEF RegisterBatchFails
  <2> QED BY <2>1, <2>2, <2>3, <2>4, <2>5, <2>6 DEF PublicationNext, Working
<1>2. This = todo[1] /\ Len(todo) \in Nat \ {0}
  BY <1>1, CallUnderWay
<1>3. \A i \in 1..Len(todo) : todo[i] \in {Targets(shown)[j] : j \in 1..Len(Targets(shown))}
  BY <1>1 DEF PublicationInv, OwnTargets
<1> QED BY <1>1, <1>2, <1>3

\* The last step of a release: what is registered is what the books hold.
LEMMA AllTakenDown ==
    ASSUME PublicationInv, ReleaseRaw, Len(todo) = 1
    PROVE  LET left == {e \in Names \X {"raw", "batch"} : rot'[e[1]][e[2]] > 0}
           IN  Cardinality(left) <= (IF failed' THEN faults' ELSE 0)
<1> DEFINE left == {e \in Names \X {"raw", "batch"} : rot'[e[1]][e[2]] > 0}
           past == {e \in Names \X {"raw", "batch"} :
                      /\ held'[e[1]][e[2]]
                      /\ \A i \in 1..Len(Tail(todo)) : Tail(todo)[i] # e[1]}
<1> HIDE DEF left, past
<1>1. PublicationNext /\ step # "idle"
  BY DEF PublicationNext, Working, ReleaseRaw
<1>3. Len(Tail(todo)) = 0
  <2>1. todo \in Seq(Names) /\ todo # <<>>
    BY <1>1, CallUnderWay
  <2>2. Len(Tail(todo)) = Len(todo) - 1
    BY <2>1, Here
  <2> QED BY <2>2
<1>4. ASSUME NEW e \in left
      PROVE  e \in past
  <2>1. PICK n \in Names, kind \in {"raw", "batch"} : e = <<n, kind>> /\ rot'[n][kind] > 0
    BY DEF left
  <2>3. /\ rot'[n].raw = (IF held'[n].raw THEN 1 ELSE 0)
        /\ rot'[n].batch = (IF held'[n].batch THEN 1 ELSE 0)
    BY <1>1, BooksStayKept DEF BooksKept
  <2>4. held'[n][kind]
    BY <2>1, <2>3
  <2>5. \A i \in 1..Len(Tail(todo)) : Tail(todo)[i] # n
    <3>1. \A i \in 1..0 : Tail(todo)[i] # n
      <4>1. 1..0 = {}
        OBVIOUS
      <4> QED BY <4>1, Zenon
    <3> QED BY <1>3, <3>1, Zenon
  <2> QED BY <2>1, <2>4, <2>5 DEF past
<1>5. Cardinality(past) <= faults' /\ (past # {} => failed')
  BY PastCounted DEF past
<1>6. left \subseteq Names \X {"raw", "batch"} /\ past \subseteq Names \X {"raw", "batch"}
  BY DEF left, past
<1>7. left \subseteq past
  BY <1>4
<1>8. Cardinality(left) <= Cardinality(past) /\ Cardinality(left) \in Nat
      /\ Cardinality(past) \in Nat
  BY <1>6, <1>7, LeftIsFinite, FS_Subset, FS_CardinalityType
<1>9. Cardinality(left) <= (IF failed' THEN faults' ELSE 0)
  <2>1. CASE failed'
    <3>1. faults' \in 0..MaxFaults /\ MaxFaults \in Nat
      BY <1>1, FailuresTyped, PublicationAssumption
    <3>2. faults' \in Nat
      BY <3>1
    <3>3. Cardinality(left) <= faults'
      BY <1>5, <1>8, <3>2
    <3> QED BY <2>1, <3>3
  <2>2. CASE ~failed'
    <3>1. left = {}
      BY <1>5, <1>7, <2>2
    <3>2. Cardinality({}) = 0
      BY FS_EmptySet
    <3>3. Cardinality(left) <= 0
      BY <3>1, <3>2
    <3> QED BY <2>2, <3>3
  <2> QED BY <2>1, <2>2
<1> QED BY <1>9 DEF left

(* Publishing a window or a document never touches the pair of another one,  *)
(* and a release leaves no more registrations than calls of the table have   *)
(* failed, and none when it reports success.                                 *)
THEOREM TakesDownItsOwnHolds == PublicationSpec => TakesDownItsOwn
<1>1. PublicationInv /\ [PublicationNext]_publicationVars =>
        [~Releasing => \A n \in Names :
           rot[n] # rot'[n] => n = Primary \/ \E i \in 1..Len(Targets(shown)) :
                                                n = Targets(shown)[i]]_publicationVars
  <2>1. ASSUME PublicationInv, PublicationNext
        PROVE  ~Releasing => \A n \in Names :
                 rot[n] # rot'[n] => n = Primary \/ \E i \in 1..Len(Targets(shown)) :
                                                      n = Targets(shown)[i]
    BY <2>1, OnlyOwnNames
  <2> QED BY <2>1
<1>2. PublicationInv /\ [PublicationNext]_publicationVars =>
        [step = "release raw" /\ step' = "idle" =>
           LET left == {e \in Names \X {"raw", "batch"} : rot'[e[1]][e[2]] > 0}
           IN  Cardinality(left) <= (IF failed' THEN faults' ELSE 0)]_publicationVars
  <2>1. ASSUME PublicationInv, PublicationNext
        PROVE  step = "release raw" /\ step' = "idle" =>
                 LET left == {e \in Names \X {"raw", "batch"} : rot'[e[1]][e[2]] > 0}
                 IN  Cardinality(left) <= (IF failed' THEN faults' ELSE 0)
    <3>1. ASSUME step = "release raw", step' = "idle"
          PROVE  ReleaseRaw /\ Len(todo) = 1
      <4>1. ReleaseRaw
        BY <2>1, <3>1
           DEF PublicationNext, Working, Switch, UpdateUI, DoAction, Release, ReleaseFails,
               RevokeBatch, RevokeRaw, RegisterRaw, RegisterBatch, RegisterBatchFails
      <4>2. Len(todo) = 1
        BY <3>1, <4>1 DEF ReleaseRaw
      <4> QED BY <4>1, <4>2
    <3> QED BY <2>1, <3>1, AllTakenDown
  <2> QED BY <2>1
<1>3. PublicationSpec => OthersStay
  BY <1>1, PublicationInductive, PTL DEF PublicationSpec, OthersStay
<1>4. PublicationSpec => ReleaseTakesAll
  BY <1>2, PublicationInductive, PTL DEF PublicationSpec, ReleaseTakesAll
<1> QED BY <1>3, <1>4 DEF TakesDownItsOwn

-----------------------------------------------------------------------------
(* Batches of actions: texts of cells. *)

(* Induction through a set: the least number outside it would follow one     *)
(* inside.                                                                   *)
LEMMA SetInduction ==
    ASSUME NEW P \in SUBSET Nat, 0 \in P, \A n \in Nat : n \in P => n + 1 \in P
    PROVE  P = Nat
<1> DEFINE R == OpToRel(<, Nat)
           T == Nat \ P
<1>1. IsWellFoundedOn(R, Nat)
  BY NatLessThanWellFounded
<1>2. \A x, y \in Nat : x < y => <<x, y>> \in R
  BY DEF OpToRel
<1> HIDE DEF R
<1>3. SUFFICES ASSUME T # {}
               PROVE  FALSE
  OBVIOUS
<1>4. \E x \in T : \A y \in T : ~(<<y, x>> \in R)
  <2>1. T \subseteq Nat
    OBVIOUS
  <2> HIDE DEF T
  <2> QED
    BY <1>1, <1>3, <2>1, WFMin
<1>5. PICK x \in T : \A y \in T : ~(<<y, x>> \in R)
  BY <1>4
<1>6. x \in Nat /\ x # 0 /\ x \notin P
  OBVIOUS
<1>7. x - 1 \in Nat /\ x - 1 < x
  BY <1>6
<1>8. x - 1 \in T
  BY <1>6, <1>7
<1> QED
  BY <1>2, <1>5, <1>6, <1>7, <1>8

(* The matches from an offset on, by the ones g has further to the right.    *)
FromOffset(text, expected, g, offset) ==
    IF offset > Len(text) THEN <<>>
    ELSE IF TextMatchesAt(text, expected, offset)
         THEN <<offset>> \o g[offset + Len(expected)]
         ELSE g[offset + 1]

(* The search goes to the right only, so its recursion has a solution: it is *)
(* built from the last offset down.                                          *)
LEMMA MatchesExist ==
    ASSUME NEW text \in Text, NEW expected \in Text, Len(expected) > 0
    PROVE  \E g : g = [offset \in 1..(Len(text) + Len(expected)) |->
                         FromOffset(text, expected, g, offset)]
<1> DEFINE N == Len(text) + Len(expected)
           Solves(g, m) == \A x \in 1..N : x > N - m => g[x] = FromOffset(text, expected, g, x)
           P == {m \in Nat : \E g \in [1..N -> Seq(Nat)] : Solves(g, m)}
<1>0. Len(text) \in Nat /\ Len(expected) \in Nat /\ N \in Nat
  BY DEF Text
<1>1. 0 \in P
  <2>1. [x \in 1..N |-> <<>>] \in [1..N -> Seq(Nat)]
    OBVIOUS
  <2>2. Solves([x \in 1..N |-> <<>>], 0)
    BY <1>0
  <2> QED
    BY <2>1, <2>2
<1>2. ASSUME NEW m \in Nat, m \in P
      PROVE  m + 1 \in P
  <2>1. PICK g \in [1..N -> Seq(Nat)] : Solves(g, m)
    BY <1>2
  <2>2. CASE m >= N
    <3>1. Solves(g, m + 1)
      BY <1>0, <2>1, <2>2
    <3> QED
      BY <3>1
  <2>3. CASE m < N
    <3> DEFINE o == N - m
               h == [g EXCEPT ![o] = FromOffset(text, expected, g, o)]
    <3>1. o \in 1..N
      BY <1>0, <2>3
    <3>2. \A x \in 1..N : x >= o => /\ x <= Len(text) => x + 1 \in 1..N
                                    /\ x <= Len(text) => x + Len(expected) \in 1..N
                                    /\ x + 1 > o /\ x + Len(expected) > o
      BY <1>0, <3>1
    <3>3. FromOffset(text, expected, g, o) \in Seq(Nat)
      <4>1. o <= Len(text) => g[o + 1] \in Seq(Nat) /\ g[o + Len(expected)] \in Seq(Nat)
        <5>1. SUFFICES ASSUME o <= Len(text)
                       PROVE  g[o + 1] \in Seq(Nat) /\ g[o + Len(expected)] \in Seq(Nat)
          OBVIOUS
        <5>2. o + 1 \in 1..N /\ o + Len(expected) \in 1..N
          BY <1>0, <3>1, <3>2, <5>1
        <5> QED
          BY <2>1, <5>2
      <4>2. <<o>> \in Seq(Nat) /\ <<>> \in Seq(Nat)
        BY <3>1
      <4>3. o <= Len(text) => <<o>> \o g[o + Len(expected)] \in Seq(Nat)
        BY <4>1, <4>2, ConcatProperties
      <4>4. o > Len(text) \/ o <= Len(text)
        BY <1>0, <3>1
      <4> QED
        BY <4>1, <4>2, <4>3, <4>4 DEF FromOffset
    <3>4. h \in [1..N -> Seq(Nat)]
      BY <3>3
    <3>5. \A x \in 1..N : x # o => h[x] = g[x]
      OBVIOUS
    <3>6. h[o] = FromOffset(text, expected, g, o)
      BY <3>1
    <3> HIDE DEF h
    <3>7. \A x \in 1..N : x >= o => FromOffset(text, expected, h, x)
                                        = FromOffset(text, expected, g, x)
      <4>1. TAKE x \in 1..N
      <4>2. HAVE x >= o
      <4>3. x <= Len(text) => /\ h[x + 1] = g[x + 1]
                              /\ h[x + Len(expected)] = g[x + Len(expected)]
        <5>1. SUFFICES ASSUME x <= Len(text)
                       PROVE  /\ h[x + 1] = g[x + 1]
                              /\ h[x + Len(expected)] = g[x + Len(expected)]
          OBVIOUS
        <5>2. x + 1 \in 1..N /\ x + 1 # o
          BY <1>0, <3>1, <3>2, <4>2, <5>1
        <5>3. x + Len(expected) \in 1..N /\ x + Len(expected) # o
          BY <1>0, <3>1, <3>2, <4>2, <5>1
        <5> QED
          BY <3>5, <5>2, <5>3
      <4>4. x > Len(text) \/ x <= Len(text)
        BY <1>0
      <4> QED
        BY <4>3, <4>4 DEF FromOffset
    <3>8. Solves(h, m + 1)
      <4>1. TAKE x \in 1..N
      <4>2. HAVE x > N - (m + 1)
      <4>3. x >= o /\ (x = o \/ x > N - m)
        <5>1. x \in Int /\ N \in Int /\ m \in Int
          BY <1>0
        <5> HIDE DEF N
        <5> QED
          BY <4>2, <5>1
      <4>4. CASE x = o
        BY <3>6, <3>7, <4>3, <4>4
      <4>5. CASE x # o /\ x > N - m
        BY <2>1, <3>5, <3>7, <4>3, <4>5
      <4> QED
        BY <4>3, <4>4, <4>5
    <3> QED
      BY <3>4, <3>8
  <2> QED
    BY <1>0, <2>2, <2>3
<1>3. P = Nat
  <2>1. P \in SUBSET Nat
    OBVIOUS
  <2> HIDE DEF P
  <2> QED
    BY <1>1, <1>2, <2>1, SetInduction
<1>4. PICK g \in [1..N -> Seq(Nat)] : Solves(g, N)
  BY <1>0, <1>3
<1>5. \A x \in 1..N : g[x] = FromOffset(text, expected, g, x)
  BY <1>0, <1>4
<1>6. g = [x \in 1..N |-> g[x]]
  BY <1>4
<1>7. [x \in 1..N |-> g[x]] = [x \in 1..N |-> FromOffset(text, expected, g, x)]
  BY <1>5
<1> QED
  BY <1>6, <1>7

(* Every match lies in the text. *)
LEMMA MatchesInText ==
    ASSUME NEW text \in Text, NEW expected \in Text, Len(expected) > 0
    PROVE  Matches(text, expected) \in Seq(1..Len(text))
<1> DEFINE N == Len(text) + Len(expected)
           h == CHOOSE g : g = [offset \in 1..N |-> FromOffset(text, expected, g, offset)]
<1>0. Len(text) \in Nat /\ Len(expected) \in Nat /\ N \in Nat /\ 1 \in 1..N
  BY DEF Text
<1>1. Matches(text, expected) = h[1]
  BY DEF Matches, FromOffset
<1>2. h = [offset \in 1..N |-> FromOffset(text, expected, h, offset)]
  BY MatchesExist
<1> HIDE DEF h
<1>3. \A x \in 1..N : h[x] = FromOffset(text, expected, h, x)
  BY <1>2
<1> DEFINE P == {m \in Nat : \A x \in 1..N : x > N - m => h[x] \in Seq(1..Len(text))}
<1>4. 0 \in P
  BY <1>0
<1>5. ASSUME NEW m \in Nat, m \in P
      PROVE  m + 1 \in P
  <2>1. SUFFICES ASSUME NEW x \in 1..N, x > N - (m + 1)
                 PROVE  h[x] \in Seq(1..Len(text))
    OBVIOUS
  <2>2. \A y \in 1..N : y > x => h[y] \in Seq(1..Len(text))
    BY <1>0, <1>5, <2>1
  <2>3. x > Len(text) \/ (x <= Len(text) /\ x + 1 \in 1..N /\ x + Len(expected) \in 1..N)
    BY <1>0, <2>1
  <2>4. CASE x > Len(text)
    BY <1>3, <2>4, EmptySeq DEF FromOffset
  <2>5. CASE x <= Len(text) /\ x + 1 \in 1..N /\ x + Len(expected) \in 1..N
    <3>1. h[x + 1] \in Seq(1..Len(text)) /\ h[x + Len(expected)] \in Seq(1..Len(text))
      BY <1>0, <2>2, <2>5
    <3>2. <<x>> \in Seq(1..Len(text))
      BY <1>0, <2>5
    <3>3. <<x>> \o h[x + Len(expected)] \in Seq(1..Len(text))
      BY <3>1, <3>2, ConcatProperties
    <3>4. ~(x > Len(text))
      BY <1>0, <2>5
    <3> QED
      BY <1>3, <3>1, <3>3, <3>4 DEF FromOffset
  <2> QED
    BY <2>3, <2>4, <2>5
<1>6. P = Nat
  <2>1. P \in SUBSET Nat
    OBVIOUS
  <2> HIDE DEF P
  <2> QED
    BY <1>4, <1>5, <2>1, SetInduction
<1>7. N \in P
  BY <1>0, <1>6
<1> QED
  BY <1>0, <1>1, <1>7

LEMMA SelectedInText ==
    ASSUME NEW text \in Text, NEW patch, patch.expected \in Text, Len(patch.expected) > 0
    PROVE  Selected(text, patch) \subseteq 1..Len(text)
<1> DEFINE matches == Matches(text, patch.expected)
<1>1. matches \in Seq(1..Len(text))
  BY MatchesInText
<1>2. \A k \in DOMAIN matches : matches[k] \in 1..Len(text)
  BY <1>1
<1> HIDE DEF matches
<1>3. Selected(text, patch) \subseteq {matches[k] : k \in DOMAIN matches}
  BY DEF Selected, matches
<1> QED
  BY <1>2, <1>3

(* What Hangul reads back has no plain line feed, and reading that back      *)
(* again changes nothing.                                                    *)
LEMMA ReadBackShown ==
    ASSUME NEW text \in Text
    PROVE  ReadBack(text) \in Shown
<1>1. PICK n \in Nat : text \in [1..n -> Letters]
  BY SeqDef DEF Text
<1>2. DOMAIN text = 1..n
  BY <1>1
<1>3. \A i \in 1..n : (IF text[i] = "lf" THEN "crlf" ELSE text[i]) \in Letters \ {"lf"}
  BY <1>1 DEF Letters
<1>4. ReadBack(text) \in [1..n -> Letters \ {"lf"}]
  BY <1>2, <1>3 DEF ReadBack
<1> QED
  BY <1>4, SeqDef DEF Shown

LEMMA ShownIsText == Shown \subseteq Text
<1>1. Letters \ {"lf"} \subseteq Letters
  OBVIOUS
<1> QED
  BY <1>1, SeqMonotonic DEF Shown, Text

LEMMA ShownReadBack ==
    ASSUME NEW text \in Shown
    PROVE  ReadBack(text) = text
<1>1. PICK n \in Nat : text \in [1..n -> Letters \ {"lf"}]
  BY SeqDef DEF Shown
<1>2. DOMAIN text = 1..n /\ text = [i \in 1..n |-> text[i]]
  BY <1>1
<1>3. \A i \in 1..n : text[i] # "lf"
  BY <1>1
<1> QED
  BY <1>2, <1>3 DEF ReadBack

LEMMA PartOfText ==
    ASSUME NEW S, NEW text \in Seq(S), NEW m \in Nat \ {0}, NEW n \in 0..Len(text)
    PROVE  SubSeq(text, m, n) \in Seq(S)
<1>1. \A i \in m..n : i \in 1..Len(text)
  OBVIOUS
<1>2. \A i \in m..n : text[i] \in S
  BY <1>1
<1> QED
  BY <1>2, SubSeqProperties

TextCommands == {c \in Commands : IsText(c)}

LEMMA WrittenIsText ==
    ASSUME NEW S \in {Text, Shown}, NEW text \in S, NEW c \in TextCommands,
           c.text \in S, Fits(text, c)
    PROVE  Written(text, c) \in S
<1>0. text \in Text
  BY ShownIsText
<1>1. CASE c.kind = "SetCellText"
  BY <1>1 DEF Written
<1>2. CASE c.kind = "TextPatch"
  <2> DEFINE at == CHOOSE i \in Selected(text, c) : TRUE
  <2>1. c.expected \in Text /\ Len(c.expected) > 0
    <3>1. c.expected \in Seq(Letters) /\ c.expected # <<>>
      BY <1>2 DEF TextCommands, Commands, Text
    <3> QED
      BY <3>1 DEF Text
  <2>2. at \in 1..Len(text)
    <3>1. Selected(text, c) # {}
      BY <1>2 DEF Fits
    <3>2. at \in Selected(text, c)
      BY <3>1
    <3> QED
      BY <1>0, <2>1, <3>2, SelectedInText
  <2>3. Written(text, c) = SubSeq(text, 1, at - 1) \o c.text
                               \o SubSeq(text, at + Len(c.expected), Len(text))
    BY <1>2 DEF Written
  <2> HIDE DEF at
  <2>4. PICK T : S = Seq(T)
    BY DEF Text, Shown
  <2>5. Len(text) \in Nat /\ Len(c.expected) \in Nat
    BY <1>0, <2>1 DEF Text
  <2>6. SubSeq(text, 1, at - 1) \in S
    BY <2>2, <2>4, <2>5, PartOfText
  <2>7. SubSeq(text, at + Len(c.expected), Len(text)) \in S
    BY <2>2, <2>4, <2>5, PartOfText
  <2>8. SubSeq(text, 1, at - 1) \o c.text \in S
    BY <2>4, <2>6, ConcatProperties
  <2> QED
    BY <2>3, <2>4, <2>7, <2>8, ConcatProperties
<1> QED
  BY <1>1, <1>2 DEF TextCommands, IsText

-----------------------------------------------------------------------------
(* Batches of actions: what always holds of a request. *)

Drafts == [body : Nat, cells : Seq(Shown), undone : Nat, tail : Seq(Pieces)]
Requests == [op : {"none", "MUTATE", "HISTORY"}, batch : Batches \cup {NoBatch},
             expected : SUBSET Drafts, before : SUBSET Drafts, origin : SUBSET Drafts]
BatchRuns == [done : Nat, piece : 0..2, partial : BOOLEAN, ok : BOOLEAN,
         digest : SUBSET Nat, append : SUBSET Nat, anchor : SUBSET Nat, created : Nat,
         table : SUBSET Nat, caret : {"body", "tail", "cell"}, copied : BOOLEAN,
         rolled : {"no", "failed", "done"}, boxed : BOOLEAN,
         previous : {"user", "auto"}, lost : BOOLEAN, stale : BOOLEAN]
Receipts == [op : {"none", "MUTATE", "HISTORY"}, ok : BOOLEAN, partial : BOOLEAN,
             retrySafe : BOOLEAN, reconcile : BOOLEAN, undo : BOOLEAN]
Stages == {"idle", "arrived", "checked", "running", "rolling", "tail", "finish",
           "answered"}

(* The cells hold what Hangul shows: a text it has read back once.           *)
BatchTyped ==
    /\ document \in Drafts
    /\ mode \in {"user", "auto"}
    /\ stage \in Stages
    /\ request \in Requests
    /\ run \in BatchRuns
    /\ receipt \in Receipts
    /\ requests \in 0..MaxRequest /\ userEdits \in 0..MaxEdit

Ordered == request.batch.commands
Fills == IsFill(Ordered) \/ IsExpand(Ordered)

(* A request carries the document it met, and was only let through when its  *)
(* client had seen that one; what is asked to be undone is at most one undo  *)
(* away.                                                                     *)
RequestSound ==
    /\ request.op = "none" => stage = "idle" /\ receipt.op = "none"
    /\ request.op = "MUTATE" => request.batch \in Batches
    /\ request.op = "HISTORY" => /\ request.expected # {}
                                 /\ \A d \in request.expected : document.undone <= d.undone + 1
    /\ stage \in {"running", "rolling", "tail", "finish"} => request.op = "MUTATE"
    /\ stage \in {"idle", "arrived", "checked"} => run = NewRun
    /\ stage \notin {"idle", "arrived"} => /\ request.origin = {Origin} /\ Origin \in Drafts
                                           /\ request.before \in {request.origin, {}}
    /\ stage = "checked" => document = Origin
    /\ stage = "running" /\ request.expected # {} => request.origin = request.expected
    /\ stage = "running" => InOrder(request.batch)

SameButTail(d) == /\ d.body = Origin.body /\ d.cells = Origin.cells
                  /\ d.undone = Origin.undone

TailKept(d) == IsPrefix(Origin.tail, d.tail)

(* An append has found the end of the document before anything else, all     *)
(* that a rollback would delete lies behind it, and the caret is there.      *)
Opened(r, d) ==
    /\ TailKept(d)
    /\ IF r.done = 0
       THEN d = Origin /\ r.anchor = {} /\ r.table = {}
       ELSE r.anchor = {Len(Origin.tail)} /\ r.caret # "body"
    /\ \A i \in r.table : i \in DOMAIN d.tail /\ i > Len(Origin.tail)

(* What was done is recorded; an append that is accounted for has a table of *)
(* its own before it writes in a cell.                                       *)
Recorded(r, d) ==
    /\ request.batch.atomic =>
          /\ SameButTail(d)
          /\ r.caret = "cell" \/ r.created > 0 => r.table # {}
          /\ \A j \in 1..r.done : Ordered[j].kind = "TableCreate" => r.created > 0
    /\ ~r.partial => d = Origin

(* After command i the preflight's copy of the cell may be another text.     *)
Blinds(commands, i, cell) ==
    /\ IsText(commands[i]) /\ commands[i].cell = cell
    /\ \/ IsExpand(commands) /\ commands[i].kind = "SetCellText" /\ ~Guarded(commands[i])
       \/ "lf" \in ToSet(commands[i].text)

(* The cells are, command by command, what the preflight has seen on its     *)
(* copies, but for those it is blind to.                                     *)
Foreseen(r, d) ==
    /\ r.created = 0
    /\ Shadowed(Ordered, Origin.cells) # {}
    /\ \A s \in Shadows(Ordered, Origin.cells)[r.done] :
          /\ s \in Seq(Text)
          /\ DOMAIN s \subseteq DOMAIN d.cells
          /\ \A cell \in DOMAIN s :
                (\A i \in 1..r.done : ~Blinds(Ordered, i, cell)) => d.cells[cell] = s[cell]

RunningSound(r, d) ==
    /\ r.done <= Len(Ordered)
    /\ r.rolled = "no" /\ ~r.ok /\ ~r.stale
    /\ request.batch.atomic => Opened(r, d)
    /\ Accounted(request.batch) => Recorded(r, d)
    /\ Fills => Foreseen(r, d)

(* A rollback knows where the append began and has lost nothing before it;   *)
(* when it is over, or was not needed, an unrecorded document is untouched.  *)
EndingSound(st, r, d) ==
    /\ r.done <= Len(Ordered)
    /\ request.batch.atomic => TailKept(d)
    /\ r.stale /\ Fills => Unforeseen(Ordered, r.done + 1)
    /\ st \in {"rolling", "tail"} => /\ request.batch.atomic
                                     /\ r.anchor = {Len(Origin.tail)}
                                     /\ Accounted(request.batch) => SameButTail(d)
    /\ st = "rolling" => r.rolled \in {"no", "failed"}
    /\ st = "tail" => r.rolled \in {"done", "failed"}
    /\ st = "finish" /\ Accounted(request.batch) =>
          /\ r.rolled = "done" => d = Origin
          /\ r.rolled = "no" /\ ~r.partial => d = Origin

AnswerSound ==
    /\ request.batch.atomic => TailKept(document)
    /\ run.done <= Len(Ordered)
    /\ RetrySafeMeansUntouched
    /\ PartialIsReconciled
    /\ SucceededChanged
    /\ ModeGivenBack
    /\ PreflightForesees

BatchInductive ==
    /\ BatchTyped
    /\ RequestSound
    /\ stage = "running" => RunningSound(run, document)
    /\ stage \in {"rolling", "tail", "finish"} => EndingSound(stage, run, document)
    /\ stage = "answered" => AnswerSound

(* What a command that fails leaves behind it.                               *)
FailedSound(r, d) ==
    /\ r.done <= Len(Ordered) /\ r.rolled = "no" /\ r.anchor = run.anchor
    /\ request.batch.atomic => TailKept(d)
    /\ r.stale /\ Fills => Unforeseen(Ordered, r.done + 1)
    /\ Accounted(request.batch) =>
          /\ request.batch.atomic => SameButTail(d)
          /\ ~CanRollBack /\ ~r.partial => d = Origin

-----------------------------------------------------------------------------
(* Documents, runs and commands. *)

LEMMA BatchFacts ==
    /\ MaxRequest \in Nat /\ MaxEdit \in Nat
    /\ Tables \subseteq Seq(Shown)
    /\ \A b \in Batches \cup {NoBatch} : b.commands \in Seq(Commands) /\ b.atomic \in BOOLEAN
    /\ \A b \in Batches : b.commands # <<>>
<1>1. NoBatch.commands \in Seq(Commands) /\ NoBatch.atomic \in BOOLEAN
  BY EmptySeq DEF NoBatch
<1>2. \A b \in Batches : b.commands \in Seq(Commands) /\ b.atomic \in BOOLEAN
                         /\ b.commands # <<>>
  BY BatchAssumption
<1> QED
  BY <1>1, <1>2, BatchAssumption

LEMMA PrefixIs ==
    ASSUME NEW S, NEW s \in Seq(S), NEW t \in Seq(S)
    PROVE  IsPrefix(s, t) <=> /\ Len(s) <= Len(t)
                              /\ \A i \in 1..Len(s) : s[i] = t[i]
<1>1. Len(s) \in Nat /\ Len(t) \in Nat
  OBVIOUS
<1>2. SUFFICES ASSUME Len(s) <= Len(t)
               PROVE  SubSeq(s, 1, Len(s)) = SubSeq(t, 1, Len(s))
                          <=> \A i \in 1..Len(s) : s[i] = t[i]
  BY DEF IsPrefix
<1>3. SubSeq(s, 1, Len(s)) = [i \in 1..Len(s) |-> s[i]]
  BY <1>1
<1>4. SubSeq(t, 1, Len(s)) = [i \in 1..Len(s) |-> t[i]]
  BY <1>1, <1>2
<1> QED
  BY <1>3, <1>4

LEMMA PageFields ==
    ASSUME NEW d \in Drafts
    PROVE  /\ d.body \in Nat /\ d.cells \in Seq(Shown) /\ d.undone \in Nat
           /\ d.tail \in Seq(Pieces)
           /\ \A t \in Seq(Pieces) : /\ [d EXCEPT !.tail = t] \in Drafts
                                     /\ [d EXCEPT !.tail = t].tail = t
                                     /\ [d EXCEPT !.tail = t].body = d.body
                                     /\ [d EXCEPT !.tail = t].cells = d.cells
                                     /\ [d EXCEPT !.tail = t].undone = d.undone
           /\ \A t \in Seq(Shown) : /\ [d EXCEPT !.cells = t] \in Drafts
                                    /\ [d EXCEPT !.cells = t].tail = d.tail
                                    /\ [d EXCEPT !.cells = t].body = d.body
                                    /\ [d EXCEPT !.cells = t].cells = t
                                    /\ [d EXCEPT !.cells = t].undone = d.undone
           /\ \A n \in Nat : /\ [d EXCEPT !.body = n] \in Drafts
                             /\ [d EXCEPT !.body = n].tail = d.tail
                             /\ [d EXCEPT !.body = n].cells = d.cells
                             /\ [d EXCEPT !.body = n].undone = d.undone
<1>1. /\ d.body \in Nat /\ d.cells \in Seq(Shown) /\ d.undone \in Nat
      /\ d.tail \in Seq(Pieces)
  BY DEF Drafts
<1> QED
  BY <1>1 DEF Drafts

LEMMA PageEqual ==
    ASSUME NEW d \in Drafts, NEW e \in Drafts, d.body = e.body, d.cells = e.cells,
           d.undone = e.undone, d.tail = e.tail
    PROVE  d = e
BY DEF Drafts

LEMMA RunFields ==
    ASSUME NEW r \in BatchRuns
    PROVE  /\ r.done \in Nat /\ r.piece \in 0..2 /\ r.partial \in BOOLEAN /\ r.ok \in BOOLEAN
           /\ r.digest \in SUBSET Nat /\ r.append \in SUBSET Nat /\ r.anchor \in SUBSET Nat
           /\ r.created \in Nat /\ r.table \in SUBSET Nat
           /\ r.caret \in {"body", "tail", "cell"} /\ r.copied \in BOOLEAN
           /\ r.rolled \in {"no", "failed", "done"} /\ r.boxed \in BOOLEAN
           /\ r.previous \in {"user", "auto"} /\ r.lost \in BOOLEAN /\ r.stale \in BOOLEAN
BY DEF BatchRuns

LEMMA AfterRun ==
    ASSUME NEW r \in BatchRuns, request.batch.atomic \in BOOLEAN
    PROVE  /\ After(r) \in BatchRuns
           /\ After(r).done = r.done + 1 /\ After(r).piece = 0
           /\ After(r).partial = (r.partial \/ MayMutate(Command))
           /\ After(r).anchor = IF /\ request.batch.atomic
                                   /\ Command.kind = "MoveDocumentEnd" /\ r.anchor = {}
                                THEN r.append ELSE r.anchor
           /\ After(r).ok = r.ok /\ After(r).created = r.created
           /\ After(r).table = r.table /\ After(r).caret = r.caret
           /\ After(r).rolled = r.rolled /\ After(r).stale = r.stale
<1>1. /\ r.done + 1 \in Nat /\ (r.partial \/ MayMutate(Command)) \in BOOLEAN
      /\ r.append \in SUBSET Nat /\ r.anchor \in SUBSET Nat
  BY RunFields
<1>2. (IF /\ request.batch.atomic /\ Command.kind = "MoveDocumentEnd" /\ r.anchor = {}
       THEN r.append ELSE r.anchor) \in SUBSET Nat
  BY <1>1
<1>3. 0 \in 0..2
  OBVIOUS
<1> DEFINE p == r.partial \/ MayMutate(Command)
           a == IF /\ request.batch.atomic /\ Command.kind = "MoveDocumentEnd" /\ r.anchor = {}
                THEN r.append ELSE r.anchor
<1>4. After(r) = [r EXCEPT !.done = r.done + 1, !.piece = 0, !.partial = p, !.anchor = a]
  <2>1. a = IF RollbackAppendTail /\ Command.kind = "MoveDocumentEnd" /\ r.anchor = {}
            THEN r.append ELSE r.anchor
    BY DEF RollbackAppendTail
  <2> HIDE DEF a
  <2> QED
    BY <2>1, Zenon DEF After, BatchRuns
<1>5. p \in BOOLEAN /\ a \in SUBSET Nat
  BY <1>1, <1>2
<1> HIDE DEF p, a
<1>6. [r EXCEPT !.done = r.done + 1, !.piece = 0, !.partial = p, !.anchor = a] \in BatchRuns
  BY <1>1, <1>3, <1>5 DEF BatchRuns
<1>7. /\ After(r).done = r.done + 1 /\ After(r).piece = 0
      /\ After(r).partial = p /\ After(r).anchor = a
  BY <1>4 DEF BatchRuns
<1>8. /\ After(r).ok = r.ok /\ After(r).created = r.created
      /\ After(r).table = r.table /\ After(r).caret = r.caret
      /\ After(r).rolled = r.rolled /\ After(r).stale = r.stale
  BY <1>4 DEF BatchRuns
<1> QED
  BY <1>4, <1>6, <1>7, <1>8 DEF p, a

-----------------------------------------------------------------------------
(* The steps of a batch: a command ends or fails. *)

LEMMA OrderedTyped ==
    ASSUME BatchTyped
    PROVE  Ordered \in Seq(Commands) /\ request.batch.atomic \in BOOLEAN
<1>1. request.batch \in Batches \cup {NoBatch}
  BY DEF BatchTyped, Requests
<1> QED
  BY <1>1, BatchFacts DEF Ordered

LEMMA CommandThere ==
    ASSUME BatchTyped, NEW kind, Running(kind)
    PROVE  /\ Command \in Commands /\ Command = Ordered[run.done + 1] /\ Command.kind = kind
           /\ run.done + 1 \in DOMAIN Ordered /\ run.done + 1 <= Len(Ordered)
<1>1. run.done \in Nat
  BY RunFields DEF BatchTyped
<1>2. Ordered \in Seq(Commands)
  BY OrderedTyped
<1>3. run.done < Len(Ordered)
  BY DEF Running, Ordered
<1>4. run.done + 1 \in 1..Len(Ordered)
  BY <1>1, <1>2, <1>3
<1> QED
  BY <1>1, <1>2, <1>4 DEF Command, Running, Ordered

(* A step after which the batch goes on.                                     *)
LEMMA CommandEnds ==
    ASSUME BatchInductive, stage = "running", NEW r \in BatchRuns, NEW d \in Drafts,
           Steps(r, d), RunningSound(r, d)
    PROVE  BatchInductive'
<1>1. /\ request' = request /\ stage' = stage /\ run' = r /\ document' = d
      /\ mode' = mode /\ receipt' = receipt /\ requests' = requests
      /\ userEdits' = userEdits
  BY DEF Steps
<1>2. BatchTyped'
  BY <1>1 DEF BatchInductive, BatchTyped
<1>3. RequestSound'
  <2>1. Origin' = Origin
    BY <1>1 DEF Origin
  <2>2. request.op = "MUTATE"
    BY DEF BatchInductive, RequestSound
  <2>3. (request.op = "none") = FALSE /\ (request.op = "HISTORY") = FALSE
    BY <2>2
  <2> QED
    BY <1>1, <2>1, <2>3 DEF BatchInductive, RequestSound
<1>4. RunningSound(run, document)'
  <2>1. Origin' = Origin /\ Ordered' = Ordered /\ Fills' = Fills
    BY <1>1 DEF Origin, Ordered, Fills
  <2>2. Opened(run, document)' = Opened(r, d)
    BY <1>1, <2>1 DEF Opened, TailKept
  <2>3. Recorded(run, document)' = Recorded(r, d)
    BY <1>1, <2>1 DEF Recorded, SameButTail
  <2>4. Foreseen(run, document)' = Foreseen(r, d)
    BY <1>1, <2>1 DEF Foreseen
  <2> QED
    BY <1>1, <2>1, <2>2, <2>3, <2>4 DEF RunningSound
<1>5. stage' = "running"
  BY <1>1
<1> QED
  BY <1>2, <1>3, <1>4, <1>5 DEF BatchInductive

(* A step after which it is rolled back or ends.                             *)
LEMMA CommandBreaks ==
    ASSUME BatchInductive, stage = "running", NEW r \in BatchRuns, NEW d \in Drafts,
           Fails(r, d), FailedSound(r, d)
    PROVE  BatchInductive'
<1>1. /\ request' = request /\ run' = r /\ document' = d
      /\ mode' = mode /\ receipt' = receipt /\ requests' = requests
      /\ userEdits' = userEdits
      /\ \/ stage' = "rolling" /\ CanRollBack
         \/ stage' = "finish" /\ ~CanRollBack
  BY DEF Fails
<1>2. stage' \in {"rolling", "finish"}
  BY <1>1
<1>3. BatchTyped'
  BY <1>1, <1>2 DEF BatchInductive, BatchTyped, Stages
<1>4. RequestSound'
  <2>1. Origin' = Origin
    BY <1>1 DEF Origin
  <2>2. request.op = "MUTATE" /\ request.batch \in Batches
    BY DEF BatchInductive, RequestSound
  <2>3. (request.op = "none") = FALSE /\ (request.op = "HISTORY") = FALSE
    BY <2>2
  <2>4. stage' # "idle" /\ stage' # "arrived" /\ stage' # "checked" /\ stage' # "running"
    BY <1>2
  <2>5. /\ request.origin = {Origin} /\ Origin \in Drafts
        /\ request.before \in {request.origin, {}}
    BY DEF BatchInductive, RequestSound
  <2> QED
    BY <1>1, <2>1, <2>2, <2>3, <2>4, <2>5 DEF RequestSound
<1>5. EndingSound(stage, run, document)'
  <2>1. /\ Origin' = Origin /\ Ordered' = Ordered /\ Fills' = Fills
        /\ TailKept(document)' = TailKept(d) /\ SameButTail(document)' = SameButTail(d)
    BY <1>1 DEF Origin, Ordered, Fills, TailKept, SameButTail
  <2>2. CanRollBack => request.batch.atomic /\ run.anchor = {Len(Origin.tail)}
    <3>1. SUFFICES ASSUME CanRollBack
                   PROVE  request.batch.atomic /\ run.anchor = {Len(Origin.tail)}
      OBVIOUS
    <3>2. request.batch.atomic /\ run.anchor # {}
      BY <3>1 DEF CanRollBack, RollbackAppendTail
    <3>3. Opened(run, document)
      BY <3>2 DEF BatchInductive, RunningSound
    <3> QED
      BY <3>2, <3>3 DEF Opened
  <2>3. CASE CanRollBack
    <3>1. stage' = "rolling"
      BY <1>1, <2>3
    <3>2. r.rolled \in {"no", "failed"} /\ r.anchor = {Len(Origin.tail)}
      BY <2>2, <2>3 DEF FailedSound
    <3> QED
      BY <1>1, <2>1, <2>2, <2>3, <3>1, <3>2 DEF FailedSound, EndingSound
  <2>4. CASE ~CanRollBack
    <3>1. stage' = "finish"
      BY <1>1, <2>4
    <3>2. r.rolled # "done"
      BY DEF FailedSound
    <3> QED
      BY <1>1, <2>1, <2>4, <3>1, <3>2 DEF FailedSound, EndingSound
  <2> QED
    BY <2>3, <2>4
<1> QED
  BY <1>2, <1>3, <1>4, <1>5 DEF BatchInductive

LEMMA OriginThere ==
    ASSUME BatchInductive, stage \notin {"idle", "arrived"}
    PROVE  Origin \in Drafts /\ request.origin = {Origin} /\ Len(Origin.tail) \in Nat
<1>1. Origin \in Drafts /\ request.origin = {Origin}
  BY DEF BatchInductive, RequestSound
<1> QED
  BY <1>1, PageFields

(* A text in a table touches nothing but that table, or the body.            *)
LEMMA Writing ==
    ASSUME BatchTyped
    PROVE  /\ WrittenCell \in Drafts
           /\ Len(WrittenCell.tail) = Len(document.tail)
           /\ WrittenCell.cells = document.cells
           /\ run.table # {} => WrittenCell.body = document.body
           /\ WrittenCell.undone = document.undone
           /\ \A i \in 1..Len(document.tail) : i \notin run.table =>
                 WrittenCell.tail[i] = document.tail[i]
<1>1. document \in Drafts /\ document.tail \in Seq(Pieces) /\ document.body + 1 \in Nat
  BY PageFields DEF BatchTyped
<1>2. CASE run.table = {}
  <2>1. WrittenCell = [document EXCEPT !.body = document.body + 1]
    BY <1>1, <1>2 DEF WrittenCell, Drafts
  <2> QED
    BY <1>1, <1>2, <2>1, PageFields
<1>3. CASE run.table # {}
  <2> DEFINE at == CHOOSE i \in run.table : TRUE
             t == [document.tail EXCEPT ![at] = "filled"]
  <2>1. WrittenCell = [document EXCEPT !.tail = t]
    BY <1>1, <1>3 DEF WrittenCell, Drafts
  <2>2. at \in run.table
    BY <1>3
  <2> HIDE DEF at
  <2>3. t \in Seq(Pieces) /\ Len(t) = Len(document.tail)
        /\ \A i \in 1..Len(document.tail) : i # at => t[i] = document.tail[i]
    <3>1. "filled" \in Pieces
      BY DEF Pieces
    <3>2. CASE at \in 1..Len(document.tail)
      BY <1>1, <3>1, <3>2, ExceptSeq
    <3>3. CASE at \notin 1..Len(document.tail)
      <4>1. DOMAIN document.tail = 1..Len(document.tail)
        BY <1>1
      <4>2. t = [i \in DOMAIN document.tail |-> document.tail[i]]
        BY <3>3, <4>1
      <4>3. document.tail = [i \in DOMAIN document.tail |-> document.tail[i]]
        BY <1>1, LenProperties
      <4>4. t = document.tail
        BY <4>2, <4>3
      <4> QED
        BY <1>1, <4>4
    <3> QED
      BY <3>2, <3>3
  <2> HIDE DEF t
  <2>4. /\ [document EXCEPT !.tail = t] \in Drafts
        /\ [document EXCEPT !.tail = t].tail = t
        /\ [document EXCEPT !.tail = t].body = document.body
        /\ [document EXCEPT !.tail = t].cells = document.cells
        /\ [document EXCEPT !.tail = t].undone = document.undone
    BY <1>1, <2>3, PageFields
  <2> QED
    BY <2>1, <2>2, <2>3, <2>4
<1> QED
  BY <1>2, <1>3

LEMMA Inserting ==
    ASSUME BatchTyped, NEW piece \in Pieces
    PROVE  /\ Inserted(piece) \in Drafts
           /\ Inserted(piece).cells = document.cells
           /\ Inserted(piece).undone = document.undone
           /\ InsertedTable \in SUBSET Nat
<1>1. document \in Drafts /\ document.tail \in Seq(Pieces) /\ document.body + 1 \in Nat
      /\ Append(document.tail, piece) \in Seq(Pieces)
  BY PageFields, AppendProperties DEF BatchTyped
<1>2. run.caret \in {"body", "tail", "cell"} /\ run.table \in SUBSET Nat
  BY RunFields DEF BatchTyped
<1>3. CASE run.caret = "tail"
  <2>1. Inserted(piece) = [document EXCEPT !.tail = Append(document.tail, piece)]
    BY <1>1, <1>3 DEF Inserted, Drafts
  <2>2. InsertedTable = {Len(document.tail) + 1}
    BY <1>3 DEF InsertedTable
  <2>3. InsertedTable \in SUBSET Nat
    BY <1>1, <2>2
  <2> DEFINE t == Append(document.tail, piece)
  <2>4. t \in Seq(Pieces)
    BY <1>1
  <2> HIDE DEF t
  <2>5. /\ [document EXCEPT !.tail = t] \in Drafts
        /\ [document EXCEPT !.tail = t].cells = document.cells
        /\ [document EXCEPT !.tail = t].undone = document.undone
    BY <1>1, <2>4, PageFields
  <2>6. Inserted(piece) = [document EXCEPT !.tail = t]
    BY <2>1 DEF t
  <2> QED
    BY <2>3, <2>5, <2>6
<1>4. CASE run.caret = "cell"
  BY <1>2, <1>4, Writing DEF Inserted, InsertedTable
<1>5. CASE run.caret = "body"
  <2>1. Inserted(piece) = [document EXCEPT !.body = document.body + 1]
    BY <1>1, <1>5 DEF Inserted, Drafts
  <2>2. InsertedTable = {}
    BY <1>5 DEF InsertedTable
  <2> QED
    BY <1>1, <2>1, <2>2, PageFields
<1> QED
  BY <1>2, <1>3, <1>4, <1>5

-----------------------------------------------------------------------------
(* The copies the preflight tries the texts on. *)

(* The copies after command n, by those before it.                           *)
NextShadow(commands, before, n) ==
    LET c == commands[n]
    IN  IF ~Tried(commands, c) THEN before
        ELSE {[s EXCEPT ![c.cell] = Written(s[c.cell], c)] :
                 s \in {t \in before : c.cell \in DOMAIN t /\ Fits(t[c.cell], c)}}

(* The recursion over the commands has a solution: it is built from the      *)
(* first command on.                                                         *)
LEMMA ShadowSteps ==
    ASSUME NEW commands \in Seq(Commands), NEW cells
    PROVE  /\ Shadows(commands, cells)[0] = {cells}
           /\ \A n \in 1..Len(commands) :
                 Shadows(commands, cells)[n]
                     = NextShadow(commands, Shadows(commands, cells)[n - 1], n)
<1> DEFINE N == Len(commands)
           Shadow(g, n) == IF n = 0 THEN {cells} ELSE NextShadow(commands, g[n - 1], n)
           h == CHOOSE g : g = [n \in 0..N |-> Shadow(g, n)]
           P == {m \in Nat : \E g : /\ g = [n \in 0..N |-> g[n]]
                                    /\ \A n \in 0..N : n <= m => g[n] = Shadow(g, n)}
<1>0. N \in Nat
  OBVIOUS
<1>1. Shadows(commands, cells) = h
  BY DEF Shadows, NextShadow
<1>2. 0 \in P
  <2> DEFINE g == [n \in 0..N |-> {cells}]
  <2>1. g = [n \in 0..N |-> g[n]]
    OBVIOUS
  <2>2. g[0] = Shadow(g, 0)
    BY <1>0
  <2>3. \A n \in 0..N : n <= 0 => g[n] = Shadow(g, n)
    BY <1>0, <2>2
  <2> HIDE DEF g
  <2> QED
    BY <2>1, <2>3
<1>3. ASSUME NEW m \in Nat, m \in P
      PROVE  m + 1 \in P
  <2>1. PICK g : /\ g = [n \in 0..N |-> g[n]]
                 /\ \A n \in 0..N : n <= m => g[n] = Shadow(g, n)
    BY <1>3
  <2> DEFINE k == [n \in 0..N |-> IF n = m + 1 THEN Shadow(g, n) ELSE g[n]]
  <2>2. \A n \in 0..N : k[n] = IF n = m + 1 THEN Shadow(g, n) ELSE g[n]
    OBVIOUS
  <2>3. k = [n \in 0..N |-> k[n]]
    OBVIOUS
  <2> HIDE DEF k
  <2>4. \A n \in 0..N : n <= m + 1 => Shadow(k, n) = Shadow(g, n)
    <3>1. SUFFICES ASSUME NEW n \in 0..N, n <= m + 1, n # 0
                   PROVE  k[n - 1] = g[n - 1]
      OBVIOUS
    <3>2. n - 1 \in 0..N /\ n - 1 # m + 1
      BY <3>1
    <3> QED
      BY <2>2, <3>2
  <2> HIDE DEF Shadow
  <2>5. \A n \in 0..N : n <= m + 1 => k[n] = Shadow(k, n)
    <3>1. SUFFICES ASSUME NEW n \in 0..N, n <= m + 1
                   PROVE  k[n] = Shadow(g, n)
      BY <2>4
    <3>2. CASE n = m + 1
      BY <2>2, <3>2
    <3>3. CASE n # m + 1
      <4>1. n <= m
        BY <3>1, <3>3
      <4> QED
        BY <2>1, <2>2, <3>3, <4>1
    <3> QED
      BY <3>2, <3>3
  <2> QED
    BY <2>3, <2>5
<1>4. P = Nat
  <2>1. P \in SUBSET Nat
    OBVIOUS
  <2> HIDE DEF P
  <2> QED
    BY <1>2, <1>3, <2>1, SetInduction
<1>5. \E g : g = [n \in 0..N |-> Shadow(g, n)]
  <2>1. PICK g : /\ g = [n \in 0..N |-> g[n]]
                 /\ \A n \in 0..N : n <= N => g[n] = Shadow(g, n)
    BY <1>0, <1>4
  <2> HIDE DEF Shadow
  <2>2. \A n \in 0..N : g[n] = Shadow(g, n)
    BY <1>0, <2>1
  <2>3. [n \in 0..N |-> g[n]] = [n \in 0..N |-> Shadow(g, n)]
    BY <2>2
  <2> QED
    BY <2>1, <2>3
<1>6. h = [n \in 0..N |-> Shadow(h, n)]
  <2> HIDE DEF Shadow
  <2> QED
    BY <1>5
<1> HIDE DEF h
<1>7. \A n \in 0..N : h[n] = Shadow(h, n)
  <2> HIDE DEF Shadow
  <2> QED
    BY <1>6
<1>8. \A n \in 1..N : n \in 0..N /\ n # 0
  BY <1>0
<1>9. 0 \in 0..N
  BY <1>0
<1> QED
  BY <1>1, <1>7, <1>8, <1>9

(* A preflight that passes has a copy after every command.                   *)
LEMMA ShadowsThere ==
    ASSUME NEW commands \in Seq(Commands), NEW cells, Shadowed(commands, cells) # {},
           NEW n \in 0..Len(commands)
    PROVE  Shadows(commands, cells)[n] # {}
<1> DEFINE N == Len(commands)
           h == Shadows(commands, cells)
           P == {m \in Nat : m <= N => h[N - m] # {}}
<1>0. N \in Nat
  OBVIOUS
<1>1. 0 \in P
  BY <1>0 DEF Shadowed
<1>2. \A k \in 1..N : h[k] # {} => h[k - 1] # {}
  <2>1. SUFFICES ASSUME NEW k \in 1..N, h[k - 1] = {}
                 PROVE  h[k] = {}
    OBVIOUS
  <2>2. h[k] = NextShadow(commands, h[k - 1], k)
    BY ShadowSteps
  <2> HIDE DEF h
  <2>3. NextShadow(commands, {}, k) = {}
    BY DEF NextShadow
  <2> QED
    BY <2>1, <2>2, <2>3
<1> HIDE DEF h
<1>3. ASSUME NEW m \in Nat, m \in P
      PROVE  m + 1 \in P
  <2>1. SUFFICES ASSUME m + 1 <= N
                 PROVE  h[N - (m + 1)] # {}
    OBVIOUS
  <2>2. h[N - m] # {}
    BY <1>0, <1>3, <2>1
  <2>3. N - m \in 1..N /\ (N - m) - 1 = N - (m + 1)
    BY <1>0, <2>1
  <2> QED
    BY <1>2, <2>2, <2>3
<1>4. P = Nat
  <2>1. P \in SUBSET Nat
    OBVIOUS
  <2> HIDE DEF P
  <2> QED
    BY <1>1, <1>3, <2>1, SetInduction
<1>5. N - n \in Nat /\ N - n <= N /\ N - (N - n) = n
  BY <1>0
<1>6. N - n \in P
  BY <1>4, <1>5
<1>7. h[N - (N - n)] # {}
  BY <1>5, <1>6
<1> QED
  BY <1>5, <1>7 DEF h

-----------------------------------------------------------------------------
(* Which commands a fill has; where a batch is while it runs. *)

LEMMA FillKinds ==
    ASSUME BatchTyped, Fills, NEW n \in 1..Len(Ordered)
    PROVE  Ordered[n].kind \in {"SelectControl", "CaptureTable", "Cell", "TableAppendRow",
                                "SetCellText", "TextPatch"}
<1>0. Ordered \in Seq(Commands) /\ Len(Ordered) \in Nat
  BY OrderedTyped
<1>1. CASE IsFill(Ordered)
  <2>1. n = 1 \/ n = 2 \/ n \in 3..Len(Ordered)
    BY <1>0
  <2>2. Ordered[1].kind = "SelectControl" /\ Ordered[2].kind = "CaptureTable"
    BY <1>1 DEF IsFill, Opens
  <2>3. \A i \in 3..Len(Ordered) : Ordered[i].kind \in {"SetCellText", "TextPatch"}
    BY <1>1 DEF IsFill, OnlyText, IsText
  <2> QED
    BY <2>1, <2>2, <2>3
<1>2. CASE IsExpand(Ordered)
  <2>1. Ordered[1].kind = "SelectControl" /\ Ordered[2].kind = "CaptureTable"
        /\ Ordered[3].kind = "Cell"
    BY <1>2 DEF IsExpand, Opens
  <2>2. PICK m \in 5..Len(Ordered) :
           /\ \A i \in 4..(m - 1) : Ordered[i].kind = "TableAppendRow"
           /\ \A i \in m..Len(Ordered) : Ordered[i].kind \in {"SetCellText", "TextPatch"}
    BY <1>2 DEF IsExpand, OnlyText, IsText
  <2>3. n = 1 \/ n = 2 \/ n = 3 \/ n \in 4..(m - 1) \/ n \in m..Len(Ordered)
    BY <1>0
  <2> QED
    BY <2>1, <2>2, <2>3
<1> QED
  BY <1>1, <1>2 DEF Fills

(* The other commands are in no batch that fills a table.                    *)
LEMMA NoFill ==
    ASSUME BatchTyped, NEW kind, Running(kind),
           kind \notin {"SelectControl", "CaptureTable", "Cell", "TableAppendRow",
                        "SetCellText", "TextPatch"}
    PROVE  ~Fills
<1>1. run.done + 1 \in DOMAIN Ordered /\ Ordered[run.done + 1].kind = kind
  BY CommandThere
<1>2. DOMAIN Ordered = 1..Len(Ordered)
  BY OrderedTyped
<1> QED
  BY <1>1, <1>2, FillKinds

LEMMA RunningFacts ==
    ASSUME BatchInductive, stage = "running"
    PROVE  /\ BatchTyped /\ RequestSound /\ RunningSound(run, document)
           /\ run \in BatchRuns /\ document \in Drafts /\ run.done \in Nat
           /\ Origin \in Drafts /\ request.origin = {Origin} /\ Len(Origin.tail) \in Nat
           /\ request.op = "MUTATE" /\ request.batch \in Batches
           /\ request.batch.atomic \in BOOLEAN
<1>1. /\ BatchTyped /\ RequestSound /\ RunningSound(run, document)
      /\ run \in BatchRuns /\ document \in Drafts
  BY DEF BatchInductive, BatchTyped
<1>2. request.op = "MUTATE" /\ request.batch \in Batches
  BY <1>1 DEF RequestSound
<1>3. Origin \in Drafts /\ request.origin = {Origin} /\ Len(Origin.tail) \in Nat
  BY OriginThere
<1>4. request.batch.atomic \in BOOLEAN /\ run.done \in Nat
  BY <1>1, OrderedTyped, RunFields
<1> QED
  BY <1>1, <1>2, <1>3, <1>4

(* An append begins with the end of the document.                            *)
LEMMA OpensAtEnd ==
    ASSUME BatchInductive, NEW kind, Running(kind), request.batch.atomic, run.done = 0
    PROVE  kind = "MoveDocumentEnd"
<1>1. stage = "running"
  BY DEF Running
<1>2. InOrder(request.batch)
  BY <1>1 DEF BatchInductive, RequestSound
<1>3. Ordered[0 + 1].kind = kind
  BY <1>1, RunningFacts, CommandThere
<1>4. 0 + 1 = 1
  OBVIOUS
<1> QED
  BY <1>2, <1>3, <1>4 DEF InOrder, Ordered

(* What a command has to show for the batch to go on.                        *)
LEMMA CommandDone ==
    ASSUME BatchInductive, NEW kind, Running(kind), NEW q \in BatchRuns, NEW d \in Drafts,
           q.done = run.done, q.rolled = "no", ~q.ok, ~q.stale,
           request.batch.atomic =>
              /\ TailKept(d) /\ q.caret # "body" /\ q.anchor = run.anchor
              /\ \A i \in q.table : i \in DOMAIN d.tail /\ i > Len(Origin.tail)
              /\ run.done = 0 => q.append = {Len(Origin.tail)},
           Accounted(request.batch) =>
              /\ request.batch.atomic =>
                    /\ SameButTail(d)
                    /\ q.caret = "cell" \/ q.created > 0 => q.table # {}
                    /\ run.created > 0 \/ kind = "TableCreate" => q.created > 0
              /\ ~q.partial /\ ~MayMutate(Command) => d = Origin,
           Fills => Foreseen(After(q), d)
    PROVE  After(q) \in BatchRuns /\ RunningSound(After(q), d)
<1>1. stage = "running"
  BY DEF Running
<1>2. /\ BatchTyped /\ RunningSound(run, document) /\ run.done \in Nat
      /\ request.batch.atomic \in BOOLEAN /\ Len(Origin.tail) \in Nat
  BY <1>1, RunningFacts
<1>3. /\ After(q) \in BatchRuns
      /\ After(q).done = q.done + 1
      /\ After(q).partial = (q.partial \/ MayMutate(Command))
      /\ After(q).anchor = IF /\ request.batch.atomic
                              /\ Command.kind = "MoveDocumentEnd" /\ q.anchor = {}
                           THEN q.append ELSE q.anchor
      /\ After(q).ok = q.ok /\ After(q).created = q.created
      /\ After(q).table = q.table /\ After(q).caret = q.caret
      /\ After(q).rolled = q.rolled /\ After(q).stale = q.stale
  BY <1>2, AfterRun
<1>4. /\ Command.kind = kind /\ Ordered[run.done + 1].kind = kind
      /\ run.done + 1 <= Len(Ordered)
  BY <1>2, CommandThere
<1>5. request.batch.atomic => Opened(After(q), d)
  <2>1. SUFFICES ASSUME request.batch.atomic
                 PROVE  Opened(After(q), d)
    OBVIOUS
  <2>2. Opened(run, document)
    BY <1>2, <2>1 DEF RunningSound
  <2>3. After(q).anchor = {Len(Origin.tail)}
    <3>1. CASE run.done = 0
      <4>1. kind = "MoveDocumentEnd"
        BY <2>1, <3>1, OpensAtEnd
      <4>2. q.anchor = {}
        BY <2>1, <2>2, <3>1 DEF Opened
      <4> QED
        BY <1>3, <1>4, <2>1, <3>1, <4>1, <4>2
    <3>2. CASE run.done # 0
      <4>1. q.anchor = {Len(Origin.tail)}
        BY <2>1, <2>2, <3>2 DEF Opened
      <4> QED
        BY <1>3, <4>1
    <3> QED
      BY <3>1, <3>2
  <2>4. After(q).done # 0
    BY <1>2, <1>3
  <2>5. /\ TailKept(d) /\ After(q).caret # "body"
        /\ \A i \in After(q).table : i \in DOMAIN d.tail /\ i > Len(Origin.tail)
    BY <1>3, <2>1
  <2> QED
    BY <2>3, <2>4, <2>5 DEF Opened
<1>6. Accounted(request.batch) => Recorded(After(q), d)
  <2>1. SUFFICES ASSUME Accounted(request.batch)
                 PROVE  Recorded(After(q), d)
    OBVIOUS
  <2>2. Recorded(run, document)
    BY <1>2, <2>1 DEF RunningSound
  <2>3. ~After(q).partial => d = Origin
    BY <1>3, <2>1
  <2>4. ASSUME request.batch.atomic
        PROVE  /\ SameButTail(d)
               /\ After(q).caret = "cell" \/ After(q).created > 0 => After(q).table # {}
    BY <1>3, <2>1, <2>4
  <2>5. ASSUME request.batch.atomic, NEW j \in 1..After(q).done,
               Ordered[j].kind = "TableCreate"
        PROVE  After(q).created > 0
    <3>1. j \in 1..run.done \/ j = run.done + 1
      BY <1>2, <1>3
    <3>2. run.created > 0 \/ kind = "TableCreate"
      BY <1>4, <2>2, <2>5, <3>1 DEF Recorded
    <3> QED
      BY <1>3, <2>1, <2>5, <3>2
  <2> QED
    BY <2>3, <2>4, <2>5 DEF Recorded
<1>7. After(q).done <= Len(Ordered)
  BY <1>3, <1>4
<1> QED
  BY <1>3, <1>5, <1>6, <1>7 DEF RunningSound

-----------------------------------------------------------------------------
(* The commands one by one. *)

(* A command that changes no text of a cell leaves the copies true.          *)
LEMMA ForeseenKept ==
    ASSUME BatchInductive, NEW kind, Running(kind), Fills, ~IsText(Command),
           NEW q \in BatchRuns, q.done = run.done, q.created = run.created,
           NEW d \in Drafts, DOMAIN document.cells \subseteq DOMAIN d.cells,
           \A c \in DOMAIN document.cells : d.cells[c] = document.cells[c]
    PROVE  Foreseen(After(q), d)
<1>1. stage = "running"
  BY DEF Running
<1>2. /\ BatchTyped /\ RunningSound(run, document) /\ run.done \in Nat
      /\ request.batch.atomic \in BOOLEAN
  BY <1>1, RunningFacts
<1>3. Foreseen(run, document)
  BY <1>2 DEF RunningSound
<1>4. After(q).done = run.done + 1 /\ After(q).created = run.created
  BY <1>2, AfterRun
<1>5. /\ Ordered \in Seq(Commands) /\ Command = Ordered[run.done + 1]
      /\ run.done + 1 \in 1..Len(Ordered) /\ (run.done + 1) - 1 = run.done
  BY <1>2, CommandThere, OrderedTyped
<1>6. Shadows(Ordered, Origin.cells)[run.done + 1] = Shadows(Ordered, Origin.cells)[run.done]
  <2>1. ~Tried(Ordered, Ordered[run.done + 1])
    BY <1>5 DEF Tried
  <2>2. Shadows(Ordered, Origin.cells)[run.done + 1]
            = NextShadow(Ordered, Shadows(Ordered, Origin.cells)[run.done], run.done + 1)
    BY <1>5, ShadowSteps
  <2> QED
    BY <2>1, <2>2 DEF NextShadow
<1>7. ASSUME NEW s \in Shadows(Ordered, Origin.cells)[After(q).done]
      PROVE  /\ s \in Seq(Text)
             /\ DOMAIN s \subseteq DOMAIN d.cells
             /\ \A cell \in DOMAIN s :
                   (\A i \in 1..After(q).done : ~Blinds(Ordered, i, cell))
                       => d.cells[cell] = s[cell]
  <2>1. /\ s \in Seq(Text) /\ DOMAIN s \subseteq DOMAIN document.cells
        /\ \A cell \in DOMAIN s :
              (\A i \in 1..run.done : ~Blinds(Ordered, i, cell))
                  => document.cells[cell] = s[cell]
    BY <1>3, <1>4, <1>6, <1>7 DEF Foreseen
  <2>2. 1..run.done \subseteq 1..After(q).done
    BY <1>2, <1>4
  <2> QED
    BY <2>1, <2>2
<1> QED
  BY <1>3, <1>4, <1>7 DEF Foreseen

(* Behind the start of an append, what is written and what is inserted stay  *)
(* behind it.                                                                *)
LEMMA WritingTail ==
    ASSUME BatchInductive, stage = "running", request.batch.atomic
    PROVE  /\ TailKept(WrittenCell)
           /\ \A i \in run.table : i \in DOMAIN WrittenCell.tail /\ i > Len(Origin.tail)
           /\ Accounted(request.batch) /\ run.table # {} => SameButTail(WrittenCell)
<1>1. /\ BatchTyped /\ RunningSound(run, document) /\ document \in Drafts /\ Origin \in Drafts
      /\ Len(Origin.tail) \in Nat
  BY RunningFacts
<1>2. Opened(run, document)
  BY <1>1 DEF RunningSound
<1>3. Origin.tail \in Seq(Pieces) /\ document.tail \in Seq(Pieces)
      /\ WrittenCell.tail \in Seq(Pieces)
  BY <1>1, PageFields, Writing
<1>4. Len(Origin.tail) <= Len(document.tail)
      /\ \A i \in 1..Len(Origin.tail) : Origin.tail[i] = document.tail[i]
  BY <1>2, <1>3, PrefixIs DEF Opened, TailKept
<1>5. Len(WrittenCell.tail) = Len(document.tail)
  BY <1>1, Writing
<1>6. \A i \in 1..Len(Origin.tail) : i \in 1..Len(document.tail) /\ i \notin run.table
  BY <1>1, <1>2, <1>3, <1>4 DEF Opened
<1>7. \A i \in 1..Len(Origin.tail) : Origin.tail[i] = WrittenCell.tail[i]
  BY <1>1, <1>4, <1>6, Writing
<1>8. TailKept(WrittenCell)
  BY <1>3, <1>4, <1>5, <1>7, PrefixIs DEF TailKept
<1>9. DOMAIN WrittenCell.tail = DOMAIN document.tail
  BY <1>3, <1>5
<1>10. ASSUME Accounted(request.batch), run.table # {}
       PROVE  SameButTail(WrittenCell)
  <2>1. SameButTail(document)
    BY <1>1, <1>10 DEF RunningSound, Recorded
  <2> QED
    BY <1>1, <1>10, <2>1, Writing DEF SameButTail
<1> QED
  BY <1>2, <1>8, <1>9, <1>10 DEF Opened

LEMMA InsertingTail ==
    ASSUME BatchInductive, stage = "running", request.batch.atomic, run.done # 0,
           NEW piece \in Pieces
    PROVE  /\ TailKept(Inserted(piece))
           /\ \A i \in run.table \cup InsertedTable :
                 i \in DOMAIN Inserted(piece).tail /\ i > Len(Origin.tail)
           /\ Accounted(request.batch) => SameButTail(Inserted(piece)) /\ InsertedTable # {}
<1>1. /\ BatchTyped /\ RunningSound(run, document) /\ document \in Drafts /\ Origin \in Drafts
      /\ run \in BatchRuns /\ Len(Origin.tail) \in Nat
  BY RunningFacts
<1>2. Opened(run, document)
  BY <1>1 DEF RunningSound
<1>3. run.caret \in {"tail", "cell"}
  BY <1>1, <1>2, RunFields DEF Opened
<1>4. CASE run.caret = "cell"
  <2>1. Inserted(piece) = WrittenCell /\ InsertedTable = run.table
    BY <1>4 DEF Inserted, InsertedTable
  <2>2. Accounted(request.batch) => run.table # {}
    BY <1>1, <1>4 DEF RunningSound, Recorded
  <2> QED
    BY <2>1, <2>2, WritingTail
<1>5. CASE run.caret = "tail"
  <2> DEFINE t == Append(document.tail, piece)
  <2>1. Origin.tail \in Seq(Pieces) /\ document.tail \in Seq(Pieces)
    BY <1>1, PageFields
  <2>2. /\ t \in Seq(Pieces) /\ Len(t) = Len(document.tail) + 1
        /\ \A i \in 1..Len(document.tail) : t[i] = document.tail[i]
    BY <2>1, AppendProperties
  <2> HIDE DEF t
  <2>3. Inserted(piece) = [document EXCEPT !.tail = t]
    BY <1>1, <1>5 DEF Inserted, Drafts, t
  <2>4. InsertedTable = {Len(document.tail) + 1}
    BY <1>5 DEF InsertedTable
  <2>5. /\ Inserted(piece).tail = t /\ Inserted(piece).body = document.body
        /\ Inserted(piece).cells = document.cells
        /\ Inserted(piece).undone = document.undone
    BY <1>1, <2>2, <2>3, PageFields
  <2>6. /\ Len(Origin.tail) <= Len(document.tail)
        /\ \A i \in 1..Len(Origin.tail) : Origin.tail[i] = document.tail[i]
    BY <1>2, <2>1, PrefixIs DEF Opened, TailKept
  <2>7. Len(document.tail) \in Nat /\ DOMAIN t = 1..(Len(document.tail) + 1)
        /\ DOMAIN document.tail = 1..Len(document.tail)
    BY <2>1, <2>2
  <2>8. \A i \in 1..Len(Origin.tail) : Origin.tail[i] = t[i]
    BY <1>1, <2>2, <2>6, <2>7
  <2>9. IsPrefix(Origin.tail, t)
    BY <1>1, <2>1, <2>2, <2>6, <2>7, <2>8, PrefixIs
  <2>10. TailKept(Inserted(piece))
    BY <2>5, <2>9 DEF TailKept
  <2>11. \A i \in run.table \cup InsertedTable : i \in DOMAIN t /\ i > Len(Origin.tail)
    <3>1. TAKE i \in run.table \cup InsertedTable
    <3>2. CASE i \in run.table
      BY <1>2, <2>7, <3>2 DEF Opened
    <3>3. CASE i = Len(document.tail) + 1
      BY <1>1, <2>6, <2>7, <3>3
    <3> QED
      BY <2>4, <3>2, <3>3
  <2>12. ASSUME Accounted(request.batch)
         PROVE  SameButTail(Inserted(piece)) /\ InsertedTable # {}
    <3>1. SameButTail(document)
      BY <1>1, <2>12 DEF RunningSound, Recorded
    <3> QED
      BY <2>4, <2>5, <3>1 DEF SameButTail
  <2> QED
    BY <2>5, <2>10, <2>11, <2>12
<1> QED
  BY <1>3, <1>4, <1>5

LEMMA CommandFailsSteps ==
    ASSUME BatchInductive, CommandFails
    PROVE  BatchInductive'
<1>1. stage = "running" /\ Fails(run, document)
  BY DEF CommandFails
<1>2. /\ RunningSound(run, document) /\ run \in BatchRuns /\ document \in Drafts
  BY <1>1, RunningFacts
<1>3. FailedSound(run, document)
  BY <1>2 DEF RunningSound, Opened, Recorded, FailedSound
<1> QED
  BY <1>1, <1>2, <1>3, CommandBreaks

(* Find, LeaveTable and CopyControl: nothing is written.                     *)
LEMMA QuietSteps ==
    ASSUME BatchInductive, NEW kind \in {"SelectControl", "CaptureTable", "Cell",
                                         "LeaveTable", "CopyControl"},
           Running(kind), NEW q \in BatchRuns, Steps(After(q), document),
           q.done = run.done, q.rolled = run.rolled, q.ok = run.ok, q.stale = run.stale,
           q.partial = run.partial, q.anchor = run.anchor, q.created = run.created,
           q.table = run.table,
           q.caret = run.caret \/ q.caret = "tail" \/ (q.caret = "cell" /\ kind = "Cell")
    PROVE  BatchInductive'
<1>1. stage = "running"
  BY DEF Running
<1>2. /\ BatchTyped /\ RunningSound(run, document) /\ document \in Drafts
      /\ run.done \in Nat /\ request.batch \in Batches
  BY <1>1, RunningFacts
<1>3. request.batch.atomic => run.done # 0 /\ Opened(run, document)
  <2>1. request.batch.atomic => run.done # 0
    BY OpensAtEnd
  <2> QED
    BY <1>2, <2>1 DEF RunningSound
<1>4. /\ Command.kind = kind /\ Command = Ordered[run.done + 1]
      /\ run.done + 1 \in DOMAIN Ordered
  BY <1>2, CommandThere
<1>5. ASSUME Accounted(request.batch), request.batch.atomic
      PROVE  /\ SameButTail(document)
             /\ q.caret = "cell" \/ q.created > 0 => q.table # {}
             /\ run.created > 0 \/ kind = "TableCreate" => q.created > 0
  <2>1. Recorded(run, document)
    BY <1>2, <1>5 DEF RunningSound
  <2>2. ASSUME kind = "Cell"
        PROVE  q.table # {}
    <3>1. PICK j \in 1..((run.done + 1) - 1) : Ordered[j].kind = "TableCreate"
      BY <1>4, <1>5, <2>2 DEF Accounted, Ordered
    <3>2. j \in 1..run.done
      BY <1>2, <3>1
    <3>3. run.created > 0
      BY <1>5, <2>1, <3>1, <3>2 DEF Recorded
    <3> QED
      BY <1>5, <2>1, <3>3 DEF Recorded
  <2> QED
    BY <1>5, <2>1, <2>2 DEF Recorded
<1>6. Accounted(request.batch) => (~q.partial => document = Origin)
  BY <1>2 DEF RunningSound, Recorded
<1>7. Fills => Foreseen(After(q), document)
  <2>1. ~IsText(Command)
    BY <1>4 DEF IsText
  <2> QED
    BY <1>2, <2>1, ForeseenKept
<1>8. request.batch.atomic =>
        /\ TailKept(document) /\ q.caret # "body" /\ q.anchor = run.anchor
        /\ \A i \in q.table : i \in DOMAIN document.tail /\ i > Len(Origin.tail)
        /\ run.done = 0 => q.append = {Len(Origin.tail)}
  BY <1>3 DEF Opened
<1>9. q.rolled = "no" /\ ~q.ok /\ ~q.stale
  BY <1>2 DEF RunningSound
<1>10. After(q) \in BatchRuns /\ RunningSound(After(q), document)
  BY <1>2, <1>5, <1>6, <1>7, <1>8, <1>9, CommandDone
<1> QED
  BY <1>1, <1>2, <1>10, CommandEnds

LEMMA FindSteps ==
    ASSUME BatchInductive, Find
    PROVE  BatchInductive'
<1> DEFINE q == [run EXCEPT !.caret = IF Running("Cell") THEN "cell" ELSE run.caret]
<1>1. PICK kind \in {"SelectControl", "CaptureTable", "Cell"} : Running(kind)
  BY DEF Find
<1>2. stage = "running"
  BY <1>1 DEF Running
<1>3. run \in BatchRuns /\ BatchTyped
  BY <1>2, RunningFacts
<1>4. Steps(After(q), document)
  BY <1>3 DEF Find, BatchRuns
<1>5. run.caret \in {"body", "tail", "cell"}
  BY <1>3, RunFields
<1>6. q \in BatchRuns
  BY <1>3, <1>5 DEF BatchRuns
<1>7. /\ q.done = run.done /\ q.rolled = run.rolled /\ q.ok = run.ok /\ q.stale = run.stale
      /\ q.partial = run.partial /\ q.anchor = run.anchor /\ q.created = run.created
      /\ q.table = run.table
  BY <1>3 DEF BatchRuns
<1>8. q.caret = run.caret \/ (q.caret = "cell" /\ kind = "Cell")
  <2>1. q.caret = IF Running("Cell") THEN "cell" ELSE run.caret
    BY <1>3 DEF BatchRuns
  <2>2. Running("Cell") => kind = "Cell"
    BY <1>1 DEF Running
  <2> QED
    BY <2>1, <2>2
<1> HIDE DEF q
<1> QED
  BY <1>1, <1>4, <1>6, <1>7, <1>8, QuietSteps

LEMMA LeaveTableSteps ==
    ASSUME BatchInductive, LeaveTable
    PROVE  BatchInductive'
<1> DEFINE q == [run EXCEPT !.caret = "tail"]
<1>1. Running("LeaveTable") /\ Steps(After(q), document)
  BY DEF LeaveTable
<1>2. run \in BatchRuns
  BY <1>1, RunningFacts DEF Running
<1>3. q \in BatchRuns
  BY <1>2 DEF BatchRuns
<1>4. /\ q.done = run.done /\ q.rolled = run.rolled /\ q.ok = run.ok /\ q.stale = run.stale
      /\ q.partial = run.partial /\ q.anchor = run.anchor /\ q.created = run.created
      /\ q.table = run.table /\ q.caret = "tail"
  BY <1>2 DEF BatchRuns
<1> HIDE DEF q
<1> QED
  BY <1>1, <1>3, <1>4, QuietSteps

LEMMA CopyControlSteps ==
    ASSUME BatchInductive, CopyControl
    PROVE  BatchInductive'
<1> DEFINE q == [run EXCEPT !.copied = TRUE]
<1>1. Running("CopyControl") /\ Steps(After(q), document)
  BY DEF CopyControl
<1>2. run \in BatchRuns
  BY <1>1, RunningFacts DEF Running
<1>3. q \in BatchRuns
  BY <1>2 DEF BatchRuns
<1>4. /\ q.done = run.done /\ q.rolled = run.rolled /\ q.ok = run.ok /\ q.stale = run.stale
      /\ q.partial = run.partial /\ q.anchor = run.anchor /\ q.created = run.created
      /\ q.table = run.table /\ q.caret = run.caret
  BY <1>2 DEF BatchRuns
<1> HIDE DEF q
<1> QED
  BY <1>1, <1>3, <1>4, QuietSteps

LEMMA MoveDocumentEndSteps ==
    ASSUME BatchInductive, MoveDocumentEnd
    PROVE  BatchInductive'
<1> DEFINE arrived == [run EXCEPT !.caret = "tail", !.append = {Len(document.tail)}]
           broken == [arrived EXCEPT !.partial = TRUE]
           t == Append(document.tail, "break")
<1>1. Running("MoveDocumentEnd") /\ stage = "running"
  BY DEF MoveDocumentEnd, Running
<1>2. /\ BatchTyped /\ RunningSound(run, document) /\ run \in BatchRuns /\ document \in Drafts
      /\ Origin \in Drafts /\ Len(Origin.tail) \in Nat
  BY <1>1, RunningFacts
<1>3. document.tail \in Seq(Pieces) /\ Origin.tail \in Seq(Pieces)
      /\ Len(document.tail) \in Nat
  BY <1>2, PageFields
<1>4. arrived \in BatchRuns /\ broken \in BatchRuns
  BY <1>2, <1>3 DEF BatchRuns
<1>5. \A q \in {arrived, broken} :
        /\ q.done = run.done /\ q.rolled = run.rolled /\ q.ok = run.ok /\ q.stale = run.stale
        /\ q.anchor = run.anchor /\ q.created = run.created
        /\ q.table = run.table /\ q.caret = "tail" /\ q.append = {Len(document.tail)}
  BY <1>2 DEF BatchRuns
<1>6. arrived.partial = run.partial /\ broken.partial = TRUE
  BY <1>2 DEF BatchRuns
<1>7. \/ Steps(After(arrived), document)
      \/ Steps(After(broken), [document EXCEPT !.tail = t])
  BY <1>2 DEF MoveDocumentEnd, Drafts
<1>8. "break" \in Pieces
  BY DEF Pieces
<1>9. /\ t \in Seq(Pieces) /\ Len(t) = Len(document.tail) + 1
      /\ \A i \in 1..Len(document.tail) : t[i] = document.tail[i]
  BY <1>3, <1>8, AppendProperties
<1> HIDE DEF arrived, broken, t
<1>10. ~Fills
  BY <1>1, <1>2, NoFill
<1>11. ASSUME request.batch.atomic
       PROVE  /\ TailKept(document) /\ IsPrefix(Origin.tail, t)
              /\ \A i \in run.table : i \in DOMAIN document.tail /\ i \in DOMAIN t
                                      /\ i > Len(Origin.tail)
              /\ run.done = 0 => Len(document.tail) = Len(Origin.tail)
  <2>1. Opened(run, document)
    BY <1>2, <1>11 DEF RunningSound
  <2>2. /\ Len(Origin.tail) <= Len(document.tail)
        /\ \A i \in 1..Len(Origin.tail) : Origin.tail[i] = document.tail[i]
    BY <1>3, <2>1, PrefixIs DEF Opened, TailKept
  <2>3. /\ DOMAIN t = 1..(Len(document.tail) + 1)
        /\ DOMAIN document.tail = 1..Len(document.tail)
    BY <1>3, <1>9
  <2>4. \A i \in 1..Len(Origin.tail) : Origin.tail[i] = t[i]
    BY <1>2, <1>3, <1>9, <2>2
  <2>5. IsPrefix(Origin.tail, t)
    <3>1. Len(Origin.tail) <= Len(t)
      BY <1>2, <1>3, <1>9, <2>2
    <3> QED
      BY <1>3, <1>9, <2>4, <3>1, PrefixIs
  <2>6. \A i \in run.table : i \in DOMAIN document.tail /\ i \in DOMAIN t
                             /\ i > Len(Origin.tail)
    BY <1>3, <2>1, <2>3 DEF Opened
  <2>7. TailKept(document) /\ (run.done = 0 => document = Origin)
    BY <2>1 DEF Opened
  <2> QED
    BY <2>5, <2>6, <2>7
<1>12. run.rolled = "no" /\ ~run.ok /\ ~run.stale
  BY <1>2 DEF RunningSound
<1>13. ASSUME Accounted(request.batch)
       PROVE  /\ request.batch.atomic =>
                    /\ SameButTail(document)
                    /\ run.created > 0 => run.table # {}
              /\ ~run.partial => document = Origin
  BY <1>2, <1>13 DEF RunningSound, Recorded
<1>14. CASE Steps(After(arrived), document)
  <2>1. After(arrived) \in BatchRuns /\ RunningSound(After(arrived), document)
    BY <1>1, <1>2, <1>4, <1>5, <1>6, <1>10, <1>11, <1>12, <1>13, CommandDone
  <2> QED
    BY <1>1, <1>2, <1>14, <2>1, CommandEnds
<1>15. CASE Steps(After(broken), [document EXCEPT !.tail = t])
  <2> DEFINE d == [document EXCEPT !.tail = t]
  <2>1. /\ d \in Drafts /\ d.tail = t /\ d.body = document.body /\ d.cells = document.cells
        /\ d.undone = document.undone
    BY <1>2, <1>9, PageFields
  <2>2. Steps(After(broken), d)
    BY <1>15
  <2> HIDE DEF d
  <2>3. request.batch.atomic => TailKept(d)
    BY <1>11, <2>1 DEF TailKept
  <2>4. SameButTail(document) => SameButTail(d)
    BY <2>1 DEF SameButTail
  <2>5. After(broken) \in BatchRuns /\ RunningSound(After(broken), d)
    BY <1>1, <1>4, <1>5, <1>6, <1>10, <1>11, <1>12, <1>13, <2>1, <2>3, <2>4, CommandDone
  <2> QED
    BY <1>1, <2>1, <2>2, <2>5, CommandEnds
<1> QED
  BY <1>7, <1>14, <1>15

LEMMA MoveDocumentEndFailsSteps ==
    ASSUME BatchInductive, MoveDocumentEndFails
    PROVE  BatchInductive'
<1>1. stage = "running"
  BY DEF MoveDocumentEndFails, Running
<1>2. /\ RunningSound(run, document) /\ run \in BatchRuns /\ document \in Drafts
  BY <1>1, RunningFacts
<1>3. Len(document.tail) \in Nat
  BY <1>2, PageFields
<1>4. PICK known \in BOOLEAN :
         Fails([run EXCEPT !.caret = "tail",
                   !.append = IF known THEN {Len(document.tail)} ELSE run.append], document)
  BY <1>2 DEF MoveDocumentEndFails, BatchRuns
<1> DEFINE q == [run EXCEPT !.caret = "tail",
                    !.append = IF known THEN {Len(document.tail)} ELSE run.append]
<1>5. q \in BatchRuns
  <2>1. (IF known THEN {Len(document.tail)} ELSE run.append) \in SUBSET Nat
    BY <1>2, <1>3, RunFields
  <2> QED
    BY <1>2, <2>1 DEF BatchRuns
<1>6. /\ q.done = run.done /\ q.rolled = run.rolled /\ q.stale = run.stale
      /\ q.partial = run.partial /\ q.anchor = run.anchor
  BY <1>2 DEF BatchRuns
<1>7. Fails(q, document)
  BY <1>4
<1> HIDE DEF q
<1>8. FailedSound(q, document)
  BY <1>2, <1>6 DEF RunningSound, Opened, Recorded, FailedSound
<1> QED
  BY <1>1, <1>2, <1>5, <1>7, <1>8, CommandBreaks

LEMMA InsertPieceSteps ==
    ASSUME BatchInductive, InsertPiece
    PROVE  BatchInductive'
<1> DEFINE written == [run EXCEPT !.partial = TRUE]
           next == [written EXCEPT !.piece = run.piece + 1]
           d == Inserted(Line[run.piece + 1])
<1>1. Running("InsertText") /\ stage = "running"
  BY DEF InsertPiece, Running
<1>2. /\ BatchTyped /\ RunningSound(run, document) /\ run \in BatchRuns /\ document \in Drafts
      /\ run.piece \in 0..2
  BY <1>1, RunningFacts, RunFields
<1>3. \/ run.piece = 2 /\ Steps(After(written), d)
      \/ run.piece # 2 /\ Steps(next, d)
  BY <1>2 DEF InsertPiece, BatchRuns
<1>4. written \in BatchRuns /\ (run.piece # 2 => next \in BatchRuns)
  <2>1. written \in BatchRuns
    BY <1>2 DEF BatchRuns
  <2>2. run.piece # 2 => run.piece + 1 \in 0..2
    BY <1>2
  <2> HIDE DEF written
  <2>3. run.piece # 2 => next \in BatchRuns
    BY <2>1, <2>2 DEF BatchRuns
  <2> QED
    BY <2>1, <2>3
<1>5. \A q \in {written, next} :
        /\ q.done = run.done /\ q.rolled = run.rolled /\ q.ok = run.ok /\ q.stale = run.stale
        /\ q.anchor = run.anchor /\ q.created = run.created
        /\ q.table = run.table /\ q.caret = run.caret /\ q.partial = TRUE
  BY <1>2 DEF BatchRuns
<1>6. Line[run.piece + 1] \in Pieces
  <2>1. run.piece = 0 \/ run.piece = 1 \/ run.piece = 2
    BY <1>2
  <2> QED
    BY <2>1 DEF Line, Pieces
<1>7. d \in Drafts
  BY <1>2, <1>6, Inserting
<1>8. request.batch.atomic => run.done # 0
  BY <1>1, OpensAtEnd
<1>9. request.batch.atomic =>
        /\ TailKept(d) /\ run.caret # "body"
        /\ \A i \in run.table : i \in DOMAIN d.tail /\ i > Len(Origin.tail)
        /\ run.anchor = {Len(Origin.tail)}
  <2>1. SUFFICES ASSUME request.batch.atomic
                 PROVE  /\ TailKept(d) /\ run.caret # "body"
                        /\ \A i \in run.table : i \in DOMAIN d.tail /\ i > Len(Origin.tail)
                        /\ run.anchor = {Len(Origin.tail)}
    OBVIOUS
  <2>2. Opened(run, document)
    BY <1>2, <2>1 DEF RunningSound
  <2> QED
    BY <1>1, <1>6, <1>8, <2>1, <2>2, InsertingTail DEF Opened
<1>10. Accounted(request.batch) /\ request.batch.atomic =>
         /\ SameButTail(d)
         /\ run.caret = "cell" \/ run.created > 0 => run.table # {}
         /\ \A j \in 1..run.done : Ordered[j].kind = "TableCreate" => run.created > 0
  <2>1. SUFFICES ASSUME Accounted(request.batch), request.batch.atomic
                 PROVE  SameButTail(d) /\ Recorded(run, document)
    BY DEF Recorded
  <2> QED
    BY <1>1, <1>2, <1>6, <1>8, <2>1, InsertingTail DEF RunningSound
<1>11. ~Fills
  BY <1>1, <1>2, NoFill
<1>12. run.rolled = "no" /\ ~run.ok /\ ~run.stale /\ run.done <= Len(Ordered)
  BY <1>2 DEF RunningSound
<1> HIDE DEF written, next, d
<1>13. CASE Steps(After(written), d)
  <2>1. After(written) \in BatchRuns /\ RunningSound(After(written), d)
    BY <1>1, <1>2, <1>4, <1>5, <1>7, <1>8, <1>9, <1>10, <1>11, <1>12, CommandDone
  <2> QED
    BY <1>1, <1>7, <1>13, <2>1, CommandEnds
<1>14. CASE run.piece # 2 /\ Steps(next, d)
  <2>1. request.batch.atomic => Opened(next, d)
    BY <1>5, <1>8, <1>9 DEF Opened
  <2>2. Accounted(request.batch) => Recorded(next, d)
    BY <1>5, <1>10 DEF Recorded
  <2>3. RunningSound(next, d)
    BY <1>5, <1>11, <1>12, <2>1, <2>2 DEF RunningSound
  <2> QED
    BY <1>1, <1>4, <1>7, <1>14, <2>3, CommandEnds
<1> QED
  BY <1>3, <1>13, <1>14

(* A table is inserted, by TableCreate or PasteTable.                        *)
LEMMA TableSteps ==
    ASSUME BatchInductive, NEW kind \in {"TableCreate", "PasteTable"}, Running(kind),
           NEW q \in BatchRuns, Steps(After(q), Inserted("table")),
           q.done = run.done, q.rolled = run.rolled, q.ok = run.ok, q.stale = run.stale,
           q.anchor = run.anchor, q.created = run.created + 1,
           q.table = InsertedTable, q.caret = run.caret \/ q.caret = "cell"
    PROVE  BatchInductive'
<1> DEFINE d == Inserted("table")
<1>1. stage = "running" /\ "table" \in Pieces
  BY DEF Running, Pieces
<1>2. /\ BatchTyped /\ RunningSound(run, document) /\ run \in BatchRuns /\ run.created \in Nat
  BY <1>1, RunningFacts, RunFields
<1>3. d \in Drafts
  BY <1>1, <1>2, Inserting
<1>4. request.batch.atomic => run.done # 0
  BY OpensAtEnd
<1>5. request.batch.atomic =>
        /\ TailKept(d) /\ q.caret # "body"
        /\ \A i \in q.table : i \in DOMAIN d.tail /\ i > Len(Origin.tail)
  <2>1. SUFFICES ASSUME request.batch.atomic
                 PROVE  /\ TailKept(d) /\ q.caret # "body"
                        /\ \A i \in q.table : i \in DOMAIN d.tail /\ i > Len(Origin.tail)
    OBVIOUS
  <2>2. Opened(run, document)
    BY <1>2, <2>1 DEF RunningSound
  <2>3. run.caret # "body"
    BY <1>4, <2>1, <2>2 DEF Opened
  <2> QED
    BY <1>1, <1>4, <2>1, <2>3, InsertingTail
<1>6. Accounted(request.batch) /\ request.batch.atomic => SameButTail(d) /\ q.table # {}
  BY <1>1, <1>4, InsertingTail
<1>7. ~Fills
  BY <1>2, NoFill
<1>8. run.rolled = "no" /\ ~run.ok /\ ~run.stale
  BY <1>2 DEF RunningSound
<1>9. MayMutate(Command)
  <2>1. Command.kind = kind
    BY DEF Running
  <2> QED
    BY <2>1 DEF MayMutate
<1>10. q.created > 0
  BY <1>2
<1> HIDE DEF d
<1>11. After(q) \in BatchRuns /\ RunningSound(After(q), d)
  BY <1>3, <1>4, <1>5, <1>6, <1>7, <1>8, <1>9, <1>10, CommandDone
<1> QED
  BY <1>1, <1>3, <1>11, CommandEnds DEF d

LEMMA TableCreateSteps ==
    ASSUME BatchInductive, TableCreate
    PROVE  BatchInductive'
<1> DEFINE q == [run EXCEPT !.partial = TRUE, !.created = run.created + 1,
                     !.table = InsertedTable, !.caret = "cell"]
<1>1. Running("TableCreate") /\ stage = "running"
  BY DEF TableCreate, Running
<1>2. /\ BatchTyped /\ run \in BatchRuns /\ run.created \in Nat
  BY <1>1, RunningFacts, RunFields
<1>3. InsertedTable \in SUBSET Nat
  BY <1>2, Inserting DEF Pieces
<1>4. Steps(After(q), Inserted("table"))
  BY <1>2 DEF TableCreate, BatchRuns
<1>5. q \in BatchRuns
  <2>1. run.created + 1 \in Nat
    BY <1>2
  <2> QED
    BY <1>2, <1>3, <2>1 DEF BatchRuns
<1>6. /\ q.done = run.done /\ q.rolled = run.rolled /\ q.ok = run.ok /\ q.stale = run.stale
      /\ q.anchor = run.anchor /\ q.created = run.created + 1
      /\ q.table = InsertedTable /\ q.caret = "cell"
  BY <1>2 DEF BatchRuns
<1> HIDE DEF q
<1> QED
  BY <1>1, <1>4, <1>5, <1>6, TableSteps

(* The table is there, or the block, and the command fails behind it.        *)
LEMMA TableUnknown ==
    ASSUME BatchInductive, NEW kind \in {"TableCreate", "PasteTable"}, Running(kind),
           NEW q \in BatchRuns, Fails(q, Inserted("table")),
           q.done = run.done, q.rolled = run.rolled, q.stale = run.stale,
           q.anchor = run.anchor, q.partial \/ kind = "PasteTable"
    PROVE  BatchInductive'
<1> DEFINE d == Inserted("table")
<1>1. stage = "running" /\ "table" \in Pieces
  BY DEF Running, Pieces
<1>2. /\ BatchTyped /\ RunningSound(run, document) /\ run \in BatchRuns
  BY <1>1, RunningFacts
<1>3. d \in Drafts
  BY <1>1, <1>2, Inserting
<1>4. request.batch.atomic => run.done # 0
  BY OpensAtEnd
<1>5. request.batch.atomic => /\ TailKept(d)
                              /\ Accounted(request.batch) => SameButTail(d)
                              /\ CanRollBack
  <2>1. SUFFICES ASSUME request.batch.atomic
                 PROVE  /\ TailKept(d)
                        /\ Accounted(request.batch) => SameButTail(d)
                        /\ CanRollBack
    OBVIOUS
  <2>2. Opened(run, document)
    BY <1>2, <2>1 DEF RunningSound
  <2>3. run.anchor # {}
    BY <1>4, <2>1, <2>2 DEF Opened
  <2> QED
    BY <1>1, <1>4, <2>1, <2>3, InsertingTail DEF CanRollBack, RollbackAppendTail
<1>6. ASSUME Accounted(request.batch), ~CanRollBack
      PROVE  q.partial
  <2>1. ~request.batch.atomic
    BY <1>5, <1>6
  <2>2. \A i \in DOMAIN Ordered : Ordered[i].kind # "PasteTable"
    BY <1>6, <2>1 DEF Accounted, Ordered
  <2>3. run.done + 1 \in DOMAIN Ordered /\ Ordered[run.done + 1].kind = kind
    BY <1>2, CommandThere
  <2> QED
    BY <2>2, <2>3
<1>7. run.rolled = "no" /\ ~run.stale /\ run.done <= Len(Ordered)
  BY <1>2 DEF RunningSound
<1> HIDE DEF d
<1>8. FailedSound(q, d)
  BY <1>5, <1>6, <1>7 DEF FailedSound
<1> QED
  BY <1>1, <1>3, <1>8, CommandBreaks DEF d

LEMMA TableCreatedUnknownSteps ==
    ASSUME BatchInductive, TableCreatedUnknown
    PROVE  BatchInductive'
<1> DEFINE q == [run EXCEPT !.partial = TRUE]
<1>1. Running("TableCreate") /\ stage = "running" /\ Fails(q, Inserted("table"))
  BY DEF TableCreatedUnknown, Running
<1>2. run \in BatchRuns
  BY <1>1, RunningFacts
<1>3. q \in BatchRuns
  BY <1>2 DEF BatchRuns
<1>4. /\ q.done = run.done /\ q.rolled = run.rolled /\ q.stale = run.stale
      /\ q.anchor = run.anchor /\ q.partial
  BY <1>2 DEF BatchRuns
<1> HIDE DEF q
<1> QED
  BY <1>1, <1>3, <1>4, TableUnknown

LEMMA PasteTableSteps ==
    ASSUME BatchInductive, PasteTable
    PROVE  BatchInductive'
<1> DEFINE q == [run EXCEPT !.created = run.created + 1, !.table = InsertedTable]
<1>1. Running("PasteTable") /\ stage = "running"
  BY DEF PasteTable, Running
<1>2. /\ BatchTyped /\ run \in BatchRuns /\ run.created \in Nat
  BY <1>1, RunningFacts, RunFields
<1>3. InsertedTable \in SUBSET Nat
  BY <1>2, Inserting DEF Pieces
<1>4. Steps(After(q), Inserted("table")) \/ Fails(run, Inserted("table"))
  BY <1>2 DEF PasteTable, BatchRuns
<1>5. q \in BatchRuns
  <2>1. run.created + 1 \in Nat
    BY <1>2
  <2> QED
    BY <1>2, <1>3, <2>1 DEF BatchRuns
<1>6. /\ q.done = run.done /\ q.rolled = run.rolled /\ q.ok = run.ok /\ q.stale = run.stale
      /\ q.anchor = run.anchor /\ q.created = run.created + 1
      /\ q.table = InsertedTable /\ q.caret = run.caret
  BY <1>2 DEF BatchRuns
<1> HIDE DEF q
<1>7. CASE Steps(After(q), Inserted("table"))
  BY <1>1, <1>5, <1>6, <1>7, TableSteps
<1>8. CASE Fails(run, Inserted("table"))
  BY <1>1, <1>2, <1>8, TableUnknown
<1> QED
  BY <1>4, <1>7, <1>8

LEMMA SetCellTextSteps ==
    ASSUME BatchInductive, SetCellText
    PROVE  BatchInductive'
<1> DEFINE q == [run EXCEPT !.caret = "cell"]
           p == [run EXCEPT !.partial = TRUE]
           d == WrittenCell
<1>1. Running("SetCellText") /\ stage = "running" /\ run.created > 0
  BY DEF SetCellText, Running
<1>2. /\ BatchTyped /\ RunningSound(run, document) /\ run \in BatchRuns
      /\ request.batch.atomic \in BOOLEAN
  BY <1>1, RunningFacts
<1>3. Steps(After(q), d) \/ Fails(p, d)
  BY DEF SetCellText
<1>4. q \in BatchRuns /\ p \in BatchRuns
  BY <1>2 DEF BatchRuns
<1>5. /\ q.done = run.done /\ q.rolled = run.rolled /\ q.ok = run.ok /\ q.stale = run.stale
      /\ q.anchor = run.anchor /\ q.created = run.created
      /\ q.table = run.table /\ q.caret = "cell"
  BY <1>2 DEF BatchRuns
<1>6. /\ p.done = run.done /\ p.rolled = run.rolled /\ p.stale = run.stale
      /\ p.anchor = run.anchor /\ p.partial
  BY <1>2 DEF BatchRuns
<1>7. d \in Drafts
  BY <1>2, Writing
<1>8. request.batch.atomic => run.done # 0
  BY <1>1, OpensAtEnd
<1>9. request.batch.atomic =>
        /\ TailKept(d)
        /\ \A i \in run.table : i \in DOMAIN d.tail /\ i > Len(Origin.tail)
        /\ Accounted(request.batch) => SameButTail(d) /\ run.table # {}
  <2>1. SUFFICES ASSUME request.batch.atomic
                 PROVE  Accounted(request.batch) => run.table # {}
    BY <1>1, WritingTail
  <2> QED
    BY <1>1, <1>2, <2>1 DEF RunningSound, Recorded
<1>10. run.rolled = "no" /\ ~run.ok /\ ~run.stale /\ run.done <= Len(Ordered)
  BY <1>2 DEF RunningSound
<1>11. ~Fills
  <2>1. Fills => run.created = 0
    BY <1>2 DEF RunningSound, Foreseen
  <2> QED
    BY <1>1, <2>1
<1>12. MayMutate(Command)
  BY <1>1 DEF MayMutate, Running
<1> HIDE DEF q, p, d
<1>13. CASE Steps(After(q), d)
  <2>1. After(q) \in BatchRuns /\ RunningSound(After(q), d)
    BY <1>1, <1>4, <1>5, <1>7, <1>8, <1>9, <1>10, <1>11, <1>12, CommandDone
  <2> QED
    BY <1>1, <1>7, <1>13, <2>1, CommandEnds
<1>14. CASE Fails(p, d)
  <2>1. FailedSound(p, d)
    BY <1>2, <1>6, <1>9, <1>10 DEF FailedSound
  <2> QED
    BY <1>1, <1>4, <1>7, <1>14, <2>1, CommandBreaks
<1> QED
  BY <1>3, <1>13, <1>14

LEMMA TextShown ==
    ASSUME NEW text \in Text, "lf" \notin ToSet(text)
    PROVE  text \in Shown
<1>1. PICK n \in Nat : text \in [1..n -> Letters]
  BY SeqDef DEF Text
<1>2. \A i \in 1..n : text[i] \in Letters \ {"lf"}
  BY <1>1 DEF ToSet
<1>3. text \in [1..n -> Letters \ {"lf"}]
  BY <1>1, <1>2
<1> QED
  BY <1>3, SeqDef DEF Shown

LEMMA TableAppendRowSteps ==
    ASSUME BatchInductive, TableAppendRow
    PROVE  BatchInductive'
<1> DEFINE cells == Append(document.cells, <<>>)
           d == [document EXCEPT !.cells = cells]
<1>1. Running("TableAppendRow") /\ stage = "running"
  BY DEF TableAppendRow, Running
<1>2. /\ BatchTyped /\ RunningSound(run, document) /\ run \in BatchRuns /\ document \in Drafts
      /\ request.batch.atomic \in BOOLEAN /\ run.done \in Nat
  BY <1>1, RunningFacts
<1>3. Steps(After(run), d)
  BY <1>2 DEF TableAppendRow, Drafts
<1>4. document.cells \in Seq(Shown) /\ <<>> \in Shown
  BY <1>2, PageFields, EmptySeq DEF Shown
<1>5. /\ cells \in Seq(Shown) /\ Len(cells) = Len(document.cells) + 1
      /\ \A i \in 1..Len(document.cells) : cells[i] = document.cells[i]
  BY <1>4, AppendProperties
<1> HIDE DEF cells
<1>6. /\ d \in Drafts /\ d.tail = document.tail /\ d.cells = cells
  BY <1>2, <1>5, PageFields
<1> HIDE DEF d
<1>7. /\ Command.kind = "TableAppendRow" /\ Command = Ordered[run.done + 1]
      /\ run.done + 1 \in DOMAIN Ordered
  BY <1>1, <1>2, CommandThere
<1>8. request.batch.atomic => ~Accounted(request.batch)
  BY <1>7 DEF Accounted, Ordered
<1>9. MayMutate(Command) /\ ~IsText(Command)
  BY <1>7 DEF MayMutate, IsText
<1>10. request.batch.atomic => run.done # 0
  BY <1>1, OpensAtEnd
<1>11. request.batch.atomic =>
         /\ TailKept(d) /\ run.caret # "body"
         /\ \A i \in run.table : i \in DOMAIN d.tail /\ i > Len(Origin.tail)
  BY <1>2, <1>6, <1>10 DEF RunningSound, Opened, TailKept
<1>12. Fills => Foreseen(After(run), d)
  <2>1. DOMAIN document.cells \subseteq DOMAIN cells
        /\ \A i \in DOMAIN document.cells : cells[i] = document.cells[i]
    BY <1>4, <1>5
  <2> QED
    BY <1>1, <1>2, <1>6, <1>9, <2>1, ForeseenKept
<1>13. run.rolled = "no" /\ ~run.ok /\ ~run.stale
  BY <1>2 DEF RunningSound
<1>14. After(run) \in BatchRuns /\ RunningSound(After(run), d)
  BY <1>1, <1>2, <1>6, <1>8, <1>9, <1>10, <1>11, <1>12, <1>13, CommandDone
<1> QED
  BY <1>1, <1>3, <1>6, <1>14, CommandEnds

(* A text that is not there was changed by a command the preflight is blind  *)
(* to.                                                                       *)
LEMMA ForeseenFits ==
    ASSUME BatchInductive, NEW kind, Running(kind), Fills, IsText(Command),
           ~Fits(document.cells[Command.cell], Command)
    PROVE  Unforeseen(Ordered, run.done + 1)
<1> DEFINE c == Command
           h == Shadows(Ordered, Origin.cells)
<1>1. stage = "running"
  BY DEF Running
<1>2. /\ BatchTyped /\ RunningSound(run, document) /\ run.done \in Nat
  BY <1>1, RunningFacts
<1>3. Foreseen(run, document)
  BY <1>2 DEF RunningSound
<1>4. /\ Ordered \in Seq(Commands) /\ c = Ordered[run.done + 1] /\ c \in Commands
      /\ run.done + 1 \in 1..Len(Ordered) /\ (run.done + 1) - 1 = run.done
  BY <1>2, CommandThere, OrderedTyped
<1>5. SUFFICES ASSUME \A i \in 1..run.done : ~Blinds(Ordered, i, c.cell)
               PROVE  FALSE
  BY <1>4 DEF Unforeseen, Blinds
<1>6. h[run.done + 1] # {}
  <2>1. Shadowed(Ordered, Origin.cells) # {}
    BY <1>3 DEF Foreseen
  <2>2. run.done + 1 \in 0..Len(Ordered)
    BY <1>4
  <2> DEFINE n == run.done + 1
  <2>3. n \in 0..Len(Ordered)
    BY <2>2
  <2> HIDE DEF n
  <2>4. Shadows(Ordered, Origin.cells)[n] # {}
    BY <1>4, <2>1, <2>3, ShadowsThere
  <2> QED
    BY <2>4 DEF n
<1>7. h[run.done + 1] = NextShadow(Ordered, h[run.done], run.done + 1)
  BY <1>4, ShadowSteps
<1>8. CASE Tried(Ordered, c)
  <2>1. PICK s \in h[run.done] : c.cell \in DOMAIN s /\ Fits(s[c.cell], c)
    BY <1>4, <1>6, <1>7, <1>8 DEF NextShadow
  <2>2. document.cells[c.cell] = s[c.cell]
    BY <1>3, <1>5, <2>1 DEF Foreseen
  <2> QED
    BY <2>1, <2>2
<1>9. CASE ~Tried(Ordered, c)
  <2>1. c.kind = "SetCellText" /\ c.expected = {}
    BY <1>9 DEF Tried, IsText, Guarded
  <2> QED
    BY <2>1 DEF Fits
<1> QED
  BY <1>8, <1>9

(* A text that is written is the one the preflight wrote on its copies.      *)
LEMMA ForeseenWritten ==
    ASSUME BatchInductive, NEW kind, Running(kind), Fills, IsText(Command),
           Command.cell \in DOMAIN document.cells,
           NEW q \in BatchRuns, q.done = run.done, q.created = run.created,
           NEW d \in Drafts,
           d.cells = [document.cells EXCEPT ![Command.cell] =
                         ReadBack(Written(document.cells[Command.cell], Command))]
    PROVE  Foreseen(After(q), d)
<1> DEFINE c == Command
           h == Shadows(Ordered, Origin.cells)
<1>1. stage = "running"
  BY DEF Running
<1>2. /\ BatchTyped /\ RunningSound(run, document) /\ run.done \in Nat
      /\ request.batch.atomic \in BOOLEAN /\ document \in Drafts
  BY <1>1, RunningFacts
<1>3. Foreseen(run, document)
  BY <1>2 DEF RunningSound
<1>4. After(q).done = run.done + 1 /\ After(q).created = run.created
  BY <1>2, AfterRun
<1>5. /\ Ordered \in Seq(Commands) /\ c = Ordered[run.done + 1] /\ c \in Commands
      /\ run.done + 1 \in 1..Len(Ordered) /\ (run.done + 1) - 1 = run.done
  BY <1>2, CommandThere, OrderedTyped
<1>6. h[run.done + 1] = NextShadow(Ordered, h[run.done], run.done + 1)
  BY <1>5, ShadowSteps
<1>7. document.cells \in Seq(Shown)
  BY <1>2, PageFields
<1>8. DOMAIN d.cells = DOMAIN document.cells
      /\ \A x \in DOMAIN document.cells : x # c.cell => d.cells[x] = document.cells[x]
      /\ d.cells[c.cell] = ReadBack(Written(document.cells[c.cell], c))
  BY <1>7
<1>9. c \in TextCommands /\ c.text \in Text
  BY <1>5 DEF TextCommands, Commands, IsText
<1>10. \A s \in h[run.done] :
          /\ s \in Seq(Text) /\ DOMAIN s \subseteq DOMAIN document.cells
          /\ \A cell \in DOMAIN s :
                (\A i \in 1..run.done : ~Blinds(Ordered, i, cell))
                    => document.cells[cell] = s[cell]
  BY <1>3 DEF Foreseen
<1>11. SUFFICES ASSUME NEW s2 \in h[run.done + 1]
                PROVE  /\ s2 \in Seq(Text)
                       /\ DOMAIN s2 \subseteq DOMAIN d.cells
                       /\ \A cell \in DOMAIN s2 :
                             (\A i \in 1..(run.done + 1) : ~Blinds(Ordered, i, cell))
                                 => d.cells[cell] = s2[cell]
  BY <1>3, <1>4 DEF Foreseen
<1>12. 1..run.done \subseteq 1..(run.done + 1) /\ run.done + 1 \in 1..(run.done + 1)
  BY <1>2
<1>13. CASE ~Tried(Ordered, c)
  <2>1. s2 \in h[run.done]
    BY <1>5, <1>6, <1>13 DEF NextShadow
  <2>2. Blinds(Ordered, run.done + 1, c.cell)
    BY <1>5, <1>13 DEF Tried, Blinds, IsText
  <2> HIDE DEF c, h
  <2> QED
    BY <1>8, <1>10, <1>12, <2>1, <2>2
<1>14. CASE Tried(Ordered, c)
  <2>1. PICK s \in h[run.done] : /\ c.cell \in DOMAIN s /\ Fits(s[c.cell], c)
                                 /\ s2 = [s EXCEPT ![c.cell] = Written(s[c.cell], c)]
    BY <1>5, <1>6, <1>14 DEF NextShadow
  <2>2. /\ s \in Seq(Text) /\ DOMAIN s \subseteq DOMAIN document.cells
        /\ \A cell \in DOMAIN s :
              (\A i \in 1..run.done : ~Blinds(Ordered, i, cell))
                  => document.cells[cell] = s[cell]
    BY <1>10, <2>1
  <2>3. s[c.cell] \in Text /\ c.cell \in 1..Len(s)
    BY <2>1, <2>2
  <2>4. Written(s[c.cell], c) \in Text
    BY <1>9, <2>1, <2>3, WrittenIsText
  <2>5. /\ s2 \in Seq(Text) /\ DOMAIN s2 = DOMAIN s
        /\ \A x \in DOMAIN s : x # c.cell => s2[x] = s[x]
        /\ s2[c.cell] = Written(s[c.cell], c)
    BY <2>1, <2>2, <2>3, <2>4, ExceptSeq
  <2>6. ASSUME \A i \in 1..(run.done + 1) : ~Blinds(Ordered, i, c.cell)
        PROVE  d.cells[c.cell] = s2[c.cell]
    <3>1. document.cells[c.cell] = s[c.cell]
      BY <1>12, <2>1, <2>2, <2>6
    <3>2. "lf" \notin ToSet(c.text)
      BY <1>5, <1>12, <2>6 DEF Blinds
    <3>3. c.text \in Shown
      BY <1>9, <3>2, TextShown
    <3>4. document.cells[c.cell] \in Shown
      BY <1>7
    <3>5. Written(s[c.cell], c) \in Shown
      BY <1>9, <2>1, <3>1, <3>3, <3>4, WrittenIsText
    <3>6. ReadBack(Written(s[c.cell], c)) = Written(s[c.cell], c)
      BY <3>5, ShownReadBack
    <3> QED
      BY <1>8, <2>5, <3>1, <3>6
  <2> HIDE DEF c, h
  <2>7. ASSUME NEW cell \in DOMAIN s2,
               \A i \in 1..(run.done + 1) : ~Blinds(Ordered, i, cell)
        PROVE  d.cells[cell] = s2[cell]
    <3>1. CASE cell = c.cell
      BY <2>6, <2>7, <3>1
    <3>2. CASE cell # c.cell
      BY <1>8, <1>12, <2>2, <2>5, <2>7, <3>2
    <3> QED
      BY <3>1, <3>2
  <2> QED
    BY <1>8, <2>2, <2>5, <2>7
<1> QED
  BY <1>13, <1>14

LEMMA CellWritten ==
    ASSUME BatchTyped, NEW c \in TextCommands, c.cell \in DOMAIN document.cells,
           Fits(document.cells[c.cell], c),
           NEW d, d = [document EXCEPT !.cells[c.cell] =
                          ReadBack(Written(document.cells[c.cell], c))]
    PROVE  /\ d \in Drafts /\ d.tail = document.tail
           /\ d.cells = [document.cells EXCEPT ![c.cell] =
                            ReadBack(Written(document.cells[c.cell], c))]
<1> DEFINE v == ReadBack(Written(document.cells[c.cell], c))
           cells == [document.cells EXCEPT ![c.cell] = v]
<1>1. document \in Drafts /\ document.cells \in Seq(Shown)
  BY PageFields DEF BatchTyped
<1>2. document.cells[c.cell] \in Text /\ c.text \in Text
  <2>1. document.cells[c.cell] \in Shown
    BY <1>1
  <2> QED
    BY <2>1, ShownIsText DEF TextCommands, Commands, IsText
<1>3. v \in Shown
  BY <1>2, WrittenIsText, ReadBackShown
<1> HIDE DEF v
<1>4. cells \in Seq(Shown)
  BY <1>1, <1>3, ExceptSeq
<1>5. d = [document EXCEPT !.cells = cells]
  BY <1>1 DEF Drafts, v
<1> HIDE DEF cells
<1>6. /\ [document EXCEPT !.cells = cells] \in Drafts
      /\ [document EXCEPT !.cells = cells].tail = document.tail
      /\ [document EXCEPT !.cells = cells].cells = cells
  BY <1>1, <1>4, PageFields
<1>7. d \in Drafts /\ d.tail = document.tail /\ d.cells = cells
  BY <1>5, <1>6
<1> QED
  BY <1>7 DEF cells, v

(* The three ends of a text in a cell: written, written in part, not there.  *)
LEMMA ChangeCellSteps ==
    ASSUME BatchInductive, NEW kind \in {"SetCellText", "TextPatch"}, Running(kind),
           ChangeCell
    PROVE  BatchInductive'
<1> DEFINE c == Command
           text == document.cells[c.cell]
           with(b) == [document EXCEPT !.cells[b.cell] = ReadBack(Written(text, b))]
<1>1. stage = "running"
  BY DEF Running
<1>2. /\ BatchTyped /\ RunningSound(run, document) /\ run \in BatchRuns /\ document \in Drafts
      /\ request.batch.atomic \in BOOLEAN /\ run.done \in Nat
  BY <1>1, RunningFacts
<1>3. IsText(c) /\ run.created = 0 /\ c.cell \in DOMAIN document.cells
  BY DEF ChangeCell
<1>4. /\ c.kind = kind /\ c = Ordered[run.done + 1] /\ c \in Commands
      /\ run.done + 1 \in DOMAIN Ordered
  BY <1>2, CommandThere
<1>5. c \in TextCommands
  BY <1>3, <1>4 DEF TextCommands
<1>6. request.batch.atomic => run.done # 0
  BY OpensAtEnd
<1>7. request.batch.atomic => ~Accounted(request.batch)
  <2>1. SUFFICES ASSUME request.batch.atomic, Accounted(request.batch)
                 PROVE  FALSE
    OBVIOUS
  <2>2. PICK j \in 1..((run.done + 1) - 1) : Ordered[j].kind = "TableCreate"
    BY <1>3, <1>4, <2>1 DEF Accounted, Ordered
  <2>3. j \in 1..run.done
    BY <1>2, <2>2
  <2>4. run.created > 0
    BY <1>2, <2>1, <2>2, <2>3 DEF RunningSound, Recorded
  <2> QED
    BY <1>3, <2>4
<1>8. ASSUME NEW d \in Drafts, d.tail = document.tail, request.batch.atomic
      PROVE  /\ TailKept(d) /\ \A i \in run.table : i \in DOMAIN d.tail /\ i > Len(Origin.tail)
  BY <1>2, <1>8 DEF RunningSound, Opened, TailKept
<1>9. run.rolled = "no" /\ ~run.ok /\ ~run.stale /\ run.done <= Len(Ordered)
  BY <1>2 DEF RunningSound
<1>10. CASE Fits(text, c) /\ Steps(After([run EXCEPT !.caret = "cell"]), with(c))
  <2> DEFINE q == [run EXCEPT !.caret = "cell"]
             d == with(c)
  <2>1. Steps(After(q), d)
    BY <1>10
  <2>2. /\ d \in Drafts /\ d.tail = document.tail
        /\ d.cells = [document.cells EXCEPT ![c.cell] = ReadBack(Written(text, c))]
    BY <1>2, <1>3, <1>5, <1>10, CellWritten
  <2>3. /\ q.done = run.done /\ q.rolled = run.rolled /\ q.ok = run.ok
        /\ q.stale = run.stale /\ q.anchor = run.anchor /\ q.created = run.created
        /\ q.table = run.table /\ q.caret = "cell" /\ q \in BatchRuns
    BY <1>2 DEF BatchRuns
  <2> HIDE DEF q, d
  <2>4. Fills => Foreseen(After(q), d)
    BY <1>3, <2>2, <2>3, ForeseenWritten
  <2>5. MayMutate(Command)
    BY <1>4 DEF MayMutate
  <2>6. After(q) \in BatchRuns /\ RunningSound(After(q), d)
    BY <1>6, <1>7, <1>8, <1>9, <2>2, <2>3, <2>4, <2>5, CommandDone
  <2> QED
    BY <1>1, <2>1, <2>2, <2>6, CommandEnds
<1>11. ASSUME NEW n \in 0..Len(c.text), Fits(text, c),
              Fails([run EXCEPT !.partial = TRUE],
                    with([c EXCEPT !.text = SubSeq(c.text, 1, n)]))
       PROVE  BatchInductive'
  <2> DEFINE q == [run EXCEPT !.partial = TRUE]
             part == SubSeq(c.text, 1, n)
             b == [c EXCEPT !.text = part]
             d == with(b)
  <2>1. Fails(q, d)
    BY <1>11
  <2>2. /\ q.done = run.done /\ q.rolled = run.rolled /\ q.stale = run.stale
        /\ q.anchor = run.anchor /\ q.partial /\ q \in BatchRuns
    BY <1>2 DEF BatchRuns
  <2>3. part \in Text
    <3>1. c.text \in Seq(Letters)
      BY <1>5 DEF TextCommands, Commands, IsText, Text
    <3>2. 1 \in Nat \ {0}
      OBVIOUS
    <3> QED
      BY <1>11, <3>1, <3>2, PartOfText DEF Text
  <2> HIDE DEF part
  <2>4. b \in TextCommands /\ b.kind = c.kind /\ b.cell = c.cell /\ b.expected = c.expected
        /\ (c.kind = "TextPatch" => b.occurrence = c.occurrence)
    BY <1>5, <2>3 DEF TextCommands, Commands, IsText
  <2>5. Fits(text, b)
    <3>1. CASE c.kind = "TextPatch"
      <4>1. Selected(text, b) = Selected(text, c)
        BY <2>4, <3>1 DEF Selected
      <4> QED
        BY <1>11, <2>4, <3>1, <4>1 DEF Fits
    <3>2. CASE c.kind # "TextPatch"
      BY <1>11, <2>4, <3>2 DEF Fits
    <3> QED
      BY <3>1, <3>2
  <2> HIDE DEF b
  <2>6. d \in Drafts /\ d.tail = document.tail
    BY <1>2, <1>3, <2>4, <2>5, CellWritten
  <2> HIDE DEF q, d
  <2>7. FailedSound(q, d)
    BY <1>7, <1>8, <1>9, <2>2, <2>6 DEF FailedSound
  <2> QED
    BY <1>1, <2>1, <2>2, <2>6, <2>7, CommandBreaks
<1>12. CASE ~Fits(text, c) /\ Fails([run EXCEPT !.stale = TRUE], document)
  <2> DEFINE q == [run EXCEPT !.stale = TRUE]
  <2>1. Fails(q, document)
    BY <1>12
  <2>2. /\ q.done = run.done /\ q.rolled = run.rolled /\ q.partial = run.partial
        /\ q.anchor = run.anchor /\ q \in BatchRuns
    BY <1>2 DEF BatchRuns
  <2> HIDE DEF q
  <2>3. Fills => Unforeseen(Ordered, q.done + 1)
    BY <1>3, <1>12, <2>2, ForeseenFits
  <2>4. Accounted(request.batch) /\ ~q.partial => document = Origin
    BY <1>2, <2>2 DEF RunningSound, Recorded
  <2>5. FailedSound(q, document)
    BY <1>2, <1>7, <1>8, <1>9, <2>2, <2>3, <2>4 DEF FailedSound
  <2> QED
    BY <1>1, <1>2, <2>1, <2>2, <2>5, CommandBreaks
<1> QED
  BY <1>10, <1>11, <1>12 DEF ChangeCell

-----------------------------------------------------------------------------
(* The end of a batch, and its rollback. *)

(* A step towards the end of a batch, or of its rollback.                    *)
LEMMA EndingSteps ==
    ASSUME BatchInductive, stage \in {"running", "rolling", "tail"},
           NEW st \in {"rolling", "tail", "finish"}, NEW r \in BatchRuns, NEW d \in Drafts,
           stage' = st, run' = r, document' = d,
           UNCHANGED <<mode, request, receipt, requests, userEdits>>,
           EndingSound(st, r, d)
    PROVE  BatchInductive'
<1>1. /\ request' = request /\ mode' = mode /\ receipt' = receipt
      /\ requests' = requests /\ userEdits' = userEdits
  OBVIOUS
<1>2. BatchTyped'
  BY <1>1 DEF BatchInductive, BatchTyped, Stages
<1>3. RequestSound'
  <2>1. Origin' = Origin
    BY <1>1 DEF Origin
  <2>2. request.op = "MUTATE" /\ request.batch \in Batches
    BY DEF BatchInductive, RequestSound
  <2>3. (request.op = "none") = FALSE /\ (request.op = "HISTORY") = FALSE
    BY <2>2
  <2>4. stage' # "idle" /\ stage' # "arrived" /\ stage' # "checked" /\ stage' # "running"
    OBVIOUS
  <2>5. /\ request.origin = {Origin} /\ Origin \in Drafts
        /\ request.before \in {request.origin, {}}
    BY DEF BatchInductive, RequestSound
  <2> QED
    BY <1>1, <2>1, <2>2, <2>3, <2>4, <2>5 DEF RequestSound
<1>4. EndingSound(stage, run, document)'
  <2>1. /\ Origin' = Origin /\ Ordered' = Ordered /\ Fills' = Fills
        /\ TailKept(document)' = TailKept(d) /\ SameButTail(document)' = SameButTail(d)
    BY <1>1 DEF Origin, Ordered, Fills, TailKept, SameButTail
  <2> QED
    BY <1>1, <2>1 DEF EndingSound
<1> QED
  BY <1>2, <1>3, <1>4 DEF BatchInductive

LEMMA EndingFacts ==
    ASSUME BatchInductive, stage \in {"rolling", "tail", "finish"}
    PROVE  /\ BatchTyped /\ RequestSound /\ EndingSound(stage, run, document)
           /\ run \in BatchRuns /\ document \in Drafts /\ run.created \in Nat
           /\ Origin \in Drafts /\ request.origin = {Origin} /\ Len(Origin.tail) \in Nat
           /\ request.op = "MUTATE" /\ request.before \in {{Origin}, {}}
<1>1. /\ BatchTyped /\ RequestSound /\ EndingSound(stage, run, document)
      /\ run \in BatchRuns /\ document \in Drafts
  BY DEF BatchInductive, BatchTyped
<1>2. request.op = "MUTATE" /\ request.before \in {request.origin, {}}
  BY <1>1 DEF RequestSound
<1>3. Origin \in Drafts /\ request.origin = {Origin} /\ Len(Origin.tail) \in Nat
  BY OriginThere
<1>4. run.created \in Nat
  BY <1>1, RunFields
<1> QED
  BY <1>1, <1>2, <1>3, <1>4

LEMMA AllDoneSteps ==
    ASSUME BatchInductive, AllDone
    PROVE  BatchInductive'
<1> DEFINE r == [run EXCEPT !.ok = TRUE]
<1>1. /\ stage = "running" /\ run' = r /\ stage' = "finish" /\ document' = document
      /\ UNCHANGED <<mode, request, receipt, requests, userEdits>>
  BY DEF AllDone
<1>2. RunningSound(run, document) /\ run \in BatchRuns /\ document \in Drafts
  BY <1>1, RunningFacts
<1>3. r \in BatchRuns
  BY <1>2 DEF BatchRuns
<1>4. /\ r.done = run.done /\ r.rolled = run.rolled /\ r.stale = run.stale
      /\ r.partial = run.partial
  BY <1>2 DEF BatchRuns
<1> HIDE DEF r
<1>5. r.rolled = "no" /\ ~r.stale /\ r.done <= Len(Ordered)
  BY <1>2, <1>4 DEF RunningSound
<1>6. request.batch.atomic => TailKept(document)
  BY <1>2 DEF RunningSound, Opened
<1>7. Accounted(request.batch) => (~r.partial => document = Origin)
  BY <1>2, <1>4 DEF RunningSound, Recorded
<1>8. EndingSound("finish", r, document)
  BY <1>5, <1>6, <1>7 DEF EndingSound
<1> QED
  BY <1>1, <1>2, <1>3, <1>8, EndingSteps

LEMMA StartIs ==
    ASSUME BatchInductive, stage \in {"rolling", "tail"}
    PROVE  Start = Len(Origin.tail)
<1>1. run.anchor = {Len(Origin.tail)}
  BY EndingFacts DEF EndingSound
<1> QED
  BY <1>1 DEF Start

(* To delete behind a prefix keeps it.                                       *)
LEMMA RemovedAt ==
    ASSUME NEW s \in Seq(Pieces), NEW t \in Seq(Pieces), IsPrefix(s, t),
           NEW i \in 1..Len(t), i > Len(s)
    PROVE  RemoveAt(t, i) \in Seq(Pieces) /\ IsPrefix(s, RemoveAt(t, i))
<1> DEFINE left == SubSeq(t, 1, i - 1)
           right == SubSeq(t, i + 1, Len(t))
<1>1. Len(s) \in Nat /\ Len(t) \in Nat /\ i - 1 \in Nat /\ i - 1 <= Len(t)
      /\ Len(s) <= i - 1
  OBVIOUS
<1>2. left \in Seq(Pieces) /\ Len(left) = i - 1 /\ \A k \in 1..(i - 1) : left[k] = t[k]
  <2>1. \A k \in 1..(i - 1) : t[k] \in Pieces
    BY <1>1
  <2> QED
    BY <1>1, <2>1, SubSeqProperties
<1>3. right \in Seq(Pieces)
  <2>1. i + 1 \in Nat \ {0} /\ Len(t) \in 0..Len(t)
    BY <1>1
  <2> QED
    BY <2>1, PartOfText
<1> HIDE DEF left, right
<1>5. Len(right) \in Nat
  BY <1>3
<1>4. /\ left \o right \in Seq(Pieces) /\ Len(left \o right) = Len(left) + Len(right)
      /\ \A k \in 1..Len(left) : (left \o right)[k] = left[k]
  <2>1. /\ left \o right \in Seq(Pieces) /\ Len(left \o right) = Len(left) + Len(right)
        /\ \A k \in 1..(Len(left) + Len(right)) :
              (left \o right)[k] = IF k <= Len(left) THEN left[k] ELSE right[k - Len(left)]
    BY <1>2, <1>3, ConcatProperties
  <2>2. \A k \in 1..Len(left) : k \in 1..(Len(left) + Len(right)) /\ k <= Len(left)
    BY <1>2, <1>5
  <2> QED
    BY <2>1, <2>2
<1>6. Len(s) <= Len(left \o right)
  BY <1>1, <1>2, <1>4, <1>5
<1>7. \A k \in 1..Len(s) : s[k] = t[k]
  BY PrefixIs
<1>8. \A k \in 1..Len(s) : s[k] = (left \o right)[k]
  BY <1>1, <1>2, <1>4, <1>7
<1>9. IsPrefix(s, left \o right)
  BY <1>4, <1>6, <1>8, PrefixIs
<1> QED
  BY <1>4, <1>9 DEF RemoveAt, left, right

LEMMA RollbackControlSteps ==
    ASSUME BatchInductive, RollbackControl
    PROVE  BatchInductive'
<1>1. /\ stage = "rolling" /\ stage' = "rolling" /\ run.created > 0
      /\ UNCHANGED <<mode, request, receipt, requests, userEdits>>
  BY DEF RollbackControl
<1>2. /\ BatchTyped /\ EndingSound("rolling", run, document)
      /\ run \in BatchRuns /\ document \in Drafts /\ run.created - 1 \in Nat /\ Origin \in Drafts
  BY <1>1, EndingFacts
<1> DEFINE r == [run EXCEPT !.created = run.created - 1]
           f == [run EXCEPT !.created = run.created - 1, !.rolled = "failed"]
<1>3. r \in BatchRuns /\ f \in BatchRuns
  BY <1>2 DEF BatchRuns
<1>4. \A q \in {r, f} : /\ q.done = run.done /\ q.stale = run.stale /\ q.anchor = run.anchor
                        /\ q.rolled = run.rolled \/ q.rolled = "failed"
  BY <1>2 DEF BatchRuns
<1>5. \/ /\ run' = r
         /\ \E i \in DOMAIN document.tail :
               i > Start /\ document' = [document EXCEPT !.tail = RemoveAt(document.tail, i)]
      \/ run' = f /\ document' = document
  BY <1>2 DEF RollbackControl, BatchRuns, Drafts
<1> HIDE DEF r, f
<1>6. ASSUME NEW q \in {r, f}, NEW d \in Drafts, TailKept(d),
             SameButTail(document) => SameButTail(d)
      PROVE  EndingSound("rolling", q, d)
  <2>1. q.rolled \in {"no", "failed"}
    BY <1>2, <1>4 DEF EndingSound
  <2>2. q.done <= Len(Ordered) /\ (q.stale /\ Fills => Unforeseen(Ordered, q.done + 1))
        /\ request.batch.atomic /\ q.anchor = {Len(Origin.tail)}
    BY <1>2, <1>4 DEF EndingSound
  <2>3. Accounted(request.batch) => SameButTail(d)
    BY <1>2, <1>6 DEF EndingSound
  <2> QED
    BY <1>6, <2>1, <2>2, <2>3 DEF EndingSound
<1>7. TailKept(document)
  BY <1>2 DEF EndingSound
<1>8. CASE run' = f /\ document' = document
  BY <1>1, <1>2, <1>3, <1>6, <1>7, <1>8, EndingSteps
<1>9. ASSUME run' = r, NEW i \in DOMAIN document.tail, i > Start,
             document' = [document EXCEPT !.tail = RemoveAt(document.tail, i)]
      PROVE  BatchInductive'
  <2> DEFINE t == RemoveAt(document.tail, i)
             d == [document EXCEPT !.tail = t]
  <2>1. document.tail \in Seq(Pieces) /\ Origin.tail \in Seq(Pieces)
    BY <1>2, PageFields
  <2>2. i \in 1..Len(document.tail) /\ i > Len(Origin.tail)
    BY <1>1, <1>9, <2>1, StartIs
  <2>3. t \in Seq(Pieces) /\ IsPrefix(Origin.tail, t)
    BY <1>7, <2>1, <2>2, RemovedAt DEF TailKept
  <2> HIDE DEF t
  <2>4. /\ d \in Drafts /\ d.tail = t /\ d.body = document.body /\ d.cells = document.cells
        /\ d.undone = document.undone
    BY <1>2, <2>3, PageFields
  <2>5. document' = d
    BY <1>9 DEF t
  <2> HIDE DEF d
  <2>6. TailKept(d) /\ (SameButTail(document) => SameButTail(d))
    BY <2>3, <2>4 DEF TailKept, SameButTail
  <2>7. EndingSound("rolling", r, d)
    BY <1>6, <2>4, <2>6
  <2> QED
    BY <1>1, <1>3, <1>9, <2>4, <2>5, <2>7, EndingSteps
<1> QED
  BY <1>5, <1>8, <1>9

LEMMA RollbackControlsSteps ==
    ASSUME BatchInductive, RollbackControls
    PROVE  BatchInductive'
<1> DEFINE r == [run EXCEPT !.rolled = IF run.rolled = "failed" THEN "failed" ELSE "done"]
<1>1. /\ stage = "rolling" /\ stage' = "tail" /\ document' = document
      /\ UNCHANGED <<mode, request, receipt, requests, userEdits>>
  BY DEF RollbackControls
<1>2. EndingSound("rolling", run, document) /\ run \in BatchRuns /\ document \in Drafts
  BY <1>1, EndingFacts
<1>3. run' = r
  BY <1>2 DEF RollbackControls, BatchRuns
<1>4. /\ r \in BatchRuns /\ r.done = run.done /\ r.stale = run.stale /\ r.anchor = run.anchor
      /\ r.rolled \in {"done", "failed"}
  BY <1>2 DEF BatchRuns
<1> HIDE DEF r
<1>5. EndingSound("tail", r, document)
  BY <1>2, <1>4 DEF EndingSound
<1> QED
  BY <1>1, <1>2, <1>3, <1>4, <1>5, EndingSteps

(* Behind the start nothing is left, and before it nothing was changed.      *)
LEMMA RollbackTailSteps ==
    ASSUME BatchInductive, RollbackTail
    PROVE  BatchInductive'
<1> DEFINE t == SubSeq(document.tail, 1, Start)
           d == [document EXCEPT !.tail = t]
<1>1. /\ stage = "tail" /\ stage' = "finish" /\ run' = run
      /\ UNCHANGED <<mode, request, receipt, requests, userEdits>>
  BY DEF RollbackTail
<1>2. /\ EndingSound("tail", run, document) /\ run \in BatchRuns /\ document \in Drafts
      /\ Origin \in Drafts /\ Len(Origin.tail) \in Nat
  BY <1>1, EndingFacts
<1>3. document' = d
  BY <1>2 DEF RollbackTail, Drafts
<1>4. document.tail \in Seq(Pieces) /\ Origin.tail \in Seq(Pieces)
  BY <1>2, PageFields
<1>5. t = Origin.tail
  <2>1. Start = Len(Origin.tail)
    BY <1>1, StartIs
  <2>2. TailKept(document)
    BY <1>2 DEF EndingSound
  <2>3. Len(Origin.tail) <= Len(document.tail)
    BY <1>4, <2>2, PrefixIs DEF TailKept
  <2>4. SubSeq(Origin.tail, 1, Len(Origin.tail)) = Origin.tail
    BY <1>4
  <2>5. SubSeq(Origin.tail, 1, Len(Origin.tail)) = SubSeq(document.tail, 1, Len(Origin.tail))
    BY <2>2, <2>3 DEF TailKept, IsPrefix
  <2> QED
    BY <2>1, <2>4, <2>5
<1> HIDE DEF t
<1>6. /\ d \in Drafts /\ d.tail = Origin.tail /\ d.body = document.body
      /\ d.cells = document.cells /\ d.undone = document.undone
  BY <1>2, <1>4, <1>5, PageFields
<1> HIDE DEF d
<1>7. TailKept(d)
  BY <1>4, <1>6, PrefixIs DEF TailKept
<1>8. Accounted(request.batch) => d = Origin
  <2>1. SUFFICES ASSUME Accounted(request.batch)
                 PROVE  d = Origin
    OBVIOUS
  <2>2. SameButTail(document)
    BY <1>2, <2>1 DEF EndingSound
  <2> QED
    BY <1>2, <1>6, <2>2, PageEqual DEF SameButTail
<1>9. EndingSound("finish", run, d)
  BY <1>2, <1>7, <1>8 DEF EndingSound
<1> QED
  BY <1>1, <1>2, <1>3, <1>6, <1>9, EndingSteps

LEMMA RollbackTailFailsSteps ==
    ASSUME BatchInductive, RollbackTailFails
    PROVE  BatchInductive'
<1> DEFINE r == [run EXCEPT !.rolled = "failed"]
<1>1. /\ stage = "tail" /\ stage' = "finish" /\ document' = document /\ run' = r
      /\ UNCHANGED <<mode, request, receipt, requests, userEdits>>
  BY DEF RollbackTailFails
<1>2. EndingSound("tail", run, document) /\ run \in BatchRuns /\ document \in Drafts
  BY <1>1, EndingFacts
<1>3. r \in BatchRuns /\ r.done = run.done /\ r.stale = run.stale /\ r.rolled = "failed"
  BY <1>2 DEF BatchRuns
<1> HIDE DEF r
<1>4. EndingSound("finish", r, document)
  BY <1>2, <1>3 DEF EndingSound
<1> QED
  BY <1>1, <1>2, <1>3, <1>4, EndingSteps

-----------------------------------------------------------------------------
(* Requests, and their answers. *)

LEMMA FillTextSteps ==
    ASSUME BatchInductive, FillText \/ PatchText
    PROVE  BatchInductive'
BY ChangeCellSteps DEF FillText, PatchText

LEMMA DigestIsNat ==
    ASSUME BatchTyped
    PROVE  StructureDigest \in Nat
<1>1. document.tail \in Seq(Pieces)
  BY PageFields DEF BatchTyped
<1>2. IsFiniteSet(1..Len(document.tail)) /\ DOMAIN document.tail = 1..Len(document.tail)
  BY <1>1, FS_Interval
<1> QED
  BY <1>2, FS_Subset, FS_CardinalityType DEF StructureDigest

LEMMA BlankRun ==
    /\ NewRun \in BatchRuns
    /\ NewRun.done = 0 /\ NewRun.rolled = "no" /\ ~NewRun.ok /\ ~NewRun.stale
    /\ NewRun.anchor = {} /\ NewRun.table = {} /\ NewRun.created = 0
    /\ NewRun.caret = "body"
BY DEF NewRun, BatchRuns

LEMMA BlankReceipt ==
    /\ NoReceipt \in Receipts /\ NoReceipt.op = "none"
    /\ \A op \in {"none", "MUTATE", "HISTORY"} :
          /\ Refusal(op) \in Receipts /\ Refusal(op).op = op
          /\ ~Refusal(op).ok /\ ~Refusal(op).partial
BY DEF NoReceipt, Receipts, Refusal

LEMMA BlankRequest == NoRequest \in Requests /\ NoRequest.op = "none"
<1>1. NoBatch \in Batches \cup {NoBatch}
  OBVIOUS
<1> HIDE DEF NoBatch
<1> QED
  BY <1>1 DEF NoRequest, Requests

LEMMA BatchInitially ==
    ASSUME BatchInit
    PROVE  BatchInductive
<1>1. document \in Drafts
  <2>1. \A cells \in Tables : cells \in Seq(Shown)
    BY BatchFacts
  <2>2. <<>> \in Seq(Pieces) /\ <<"base">> \in Seq(Pieces)
    <3>1. "base" \in Pieces
      BY DEF Pieces
    <3> QED
      BY <3>1
  <2>3. {<<>>, <<"base">>} \subseteq Seq(Pieces) /\ {0} \subseteq Nat
        /\ Tables \subseteq Seq(Shown)
    BY <2>2, BatchFacts
  <2>4. document \in [body : {0}, cells : Tables, undone : {0}, tail : {<<>>, <<"base">>}]
    BY DEF BatchInit
  <2> QED
    BY <2>3, <2>4 DEF Drafts
<1>2. BatchTyped
  <2>1. requests \in 0..MaxRequest /\ userEdits \in 0..MaxEdit
    BY BatchFacts DEF BatchInit
  <2> QED
    BY <1>1, <2>1, BlankRun, BlankReceipt, BlankRequest DEF BatchInit, BatchTyped, Stages
<1>3. RequestSound
  <2>1. /\ request.op = "none" /\ receipt.op = "none" /\ run = NewRun /\ stage = "idle"
    BY BlankReceipt, BlankRequest DEF BatchInit
  <2> QED
    BY <2>1 DEF RequestSound
<1>4. stage = "idle"
  BY DEF BatchInit
<1> QED
  BY <1>2, <1>3, <1>4 DEF BatchInductive

(* The request is at rest, and the document is changed in its cells or not.  *)
LEMMA UserEditsSteps ==
    ASSUME BatchInductive, UserEdits
    PROVE  BatchInductive'
<1>1. /\ stage = "idle" /\ stage' = "idle" /\ userEdits < MaxEdit /\ userEdits' = userEdits + 1
      /\ mode' = mode /\ request' = request /\ run' = run /\ receipt' = receipt
      /\ requests' = requests
  BY DEF UserEdits
<1>2. PICK cells \in Tables : document' = [document EXCEPT !.cells = cells]
  BY DEF UserEdits
<1>3. BatchTyped /\ RequestSound /\ document \in Drafts
  BY DEF BatchInductive, BatchTyped
<1>4. cells \in Seq(Shown)
  BY BatchFacts
<1>5. document' \in Drafts /\ document'.undone = document.undone
  BY <1>2, <1>3, <1>4, PageFields
<1>6. userEdits' \in 0..MaxEdit
  BY <1>1, <1>3, BatchFacts DEF BatchTyped
<1>7. BatchTyped'
  BY <1>1, <1>3, <1>5, <1>6 DEF BatchTyped
<1>8. RequestSound'
  BY <1>1, <1>3, <1>5 DEF RequestSound
<1> QED
  BY <1>1, <1>7, <1>8 DEF BatchInductive

LEMMA RequestWaits ==
    ASSUME run' = NewRun, stage' \notin {"running", "rolling", "tail", "finish"},
           stage' # "checked", stage' # "running", stage' \in {"idle", "arrived"},
           request'.op # "none",
           request'.op = "MUTATE" => request'.batch \in Batches,
           request'.op = "HISTORY" =>
              /\ request'.expected # {}
              /\ \A d \in request'.expected : document'.undone <= d.undone + 1
    PROVE  RequestSound'
BY DEF RequestSound

(* A request that was asked for, a new one or one that is sent again.        *)
LEMMA AskSteps ==
    ASSUME BatchInductive, stage = "idle", requests < MaxRequest,
           NEW op \in {"MUTATE", "HISTORY"}, NEW b \in Batches \cup {NoBatch},
           NEW seen \in SUBSET Drafts,
           request' = [NoRequest EXCEPT !.op = op, !.batch = b, !.expected = seen],
           stage' = "arrived", requests' = requests + 1,
           UNCHANGED <<document, mode, run, receipt, userEdits>>,
           op = "MUTATE" => b \in Batches,
           op = "HISTORY" => /\ seen # {}
                             /\ \A d \in seen : document.undone <= d.undone + 1
    PROVE  BatchInductive'
<1>1. /\ document' = document /\ mode' = mode /\ run' = run /\ receipt' = receipt
      /\ userEdits' = userEdits
  OBVIOUS
<1>2. BatchTyped /\ run = NewRun
  BY DEF BatchInductive, RequestSound
<1>3. /\ request' \in Requests /\ request'.op = op /\ request'.batch = b
      /\ request'.expected = seen
  <2>1. request' = [op |-> op, batch |-> b, expected |-> seen, before |-> {}, origin |-> {}]
    BY DEF NoRequest
  <2>2. op \in {"none", "MUTATE", "HISTORY"}
    OBVIOUS
  <2> QED
    BY <2>1, <2>2 DEF Requests
<1>4. requests' \in 0..MaxRequest
  BY <1>2, BatchFacts DEF BatchTyped
<1>5. BatchTyped'
  BY <1>1, <1>2, <1>3, <1>4 DEF BatchTyped, Stages
<1>6. RequestSound'
  <2>1. run' = NewRun
    BY <1>1, <1>2
  <2>2. /\ stage' \notin {"running", "rolling", "tail", "finish"}
        /\ stage' # "checked" /\ stage' # "running" /\ stage' \in {"idle", "arrived"}
    OBVIOUS
  <2>3. request'.op # "none"
    BY <1>3
  <2>4. request'.op = "MUTATE" => request'.batch \in Batches
    BY <1>3
  <2>5. request'.op = "HISTORY" =>
           /\ request'.expected # {}
           /\ \A d \in request'.expected : document'.undone <= d.undone + 1
    BY <1>1, <1>3
  <2> QED
    BY <2>1, <2>2, <2>3, <2>4, <2>5, RequestWaits
<1> QED
  BY <1>5, <1>6 DEF BatchInductive

LEMMA AskMutateSteps ==
    ASSUME BatchInductive, NEW b \in Batches, NEW seen \in SUBSET Drafts, AskMutate(b, seen)
    PROVE  BatchInductive'
<1>1. /\ stage = "idle" /\ requests < MaxRequest /\ stage' = "arrived"
      /\ requests' = requests + 1
      /\ request' = [NoRequest EXCEPT !.op = "MUTATE", !.batch = b, !.expected = seen]
      /\ UNCHANGED <<document, mode, run, receipt, userEdits>>
  BY DEF AskMutate
<1> QED
  BY <1>1, AskSteps

LEMMA AskHistorySteps ==
    ASSUME BatchInductive, NEW seen \in SUBSET Drafts, seen # {},
           \A d \in seen : document.undone <= d.undone + 1, AskHistory(seen)
    PROVE  BatchInductive'
<1>1. /\ stage = "idle" /\ requests < MaxRequest /\ stage' = "arrived"
      /\ requests' = requests + 1
      /\ UNCHANGED <<document, mode, run, receipt, userEdits>>
  BY DEF AskHistory
<1>2. NoBatch \in Batches \cup {NoBatch}
  OBVIOUS
<1>3. request' = [NoRequest EXCEPT !.op = "HISTORY", !.batch = NoBatch, !.expected = seen]
  <2>1. request' = [NoRequest EXCEPT !.op = "HISTORY", !.expected = seen]
    BY DEF AskHistory
  <2>2. NoRequest.batch = NoBatch
    BY DEF NoRequest
  <2> HIDE DEF NoBatch
  <2> QED
    BY <2>1, <2>2 DEF NoRequest
<1> QED
  BY <1>1, <1>2, <1>3, AskSteps

LEMMA RequestFields ==
    ASSUME BatchTyped
    PROVE  /\ request.op \in {"none", "MUTATE", "HISTORY"}
           /\ request.batch \in Batches \cup {NoBatch} /\ request.expected \in SUBSET Drafts
           /\ document \in Drafts /\ document.undone \in Nat
           /\ document.undone <= document.undone + 1
<1>1. document \in Drafts /\ document.undone \in Nat
  BY PageFields DEF BatchTyped
<1> QED
  BY <1>1 DEF BatchTyped, Requests

LEMMA RetrySteps ==
    ASSUME BatchInductive, Retry
    PROVE  BatchInductive'
<1>1. BatchTyped /\ RequestSound
  BY DEF BatchInductive
<1>2. CASE request.op = "MUTATE"
  <2>1. AskMutate(request.batch, request.expected)
    BY <1>2 DEF Retry
  <2>2. request.batch \in Batches /\ request.expected \in SUBSET Drafts
    BY <1>1, <1>2, RequestFields DEF RequestSound
  <2> QED
    BY <2>1, <2>2, AskMutateSteps
<1>3. CASE request.op # "MUTATE"
  <2>1. AskHistory(request.expected) /\ receipt.op # "none"
    BY <1>3 DEF Retry
  <2>2. request.op = "HISTORY"
    BY <1>1, <1>3, <2>1, RequestFields DEF RequestSound
  <2>3. /\ request.expected # {}
        /\ \A d \in request.expected : document.undone <= d.undone + 1
    BY <1>1, <2>2 DEF RequestSound
  <2>4. request.expected \in SUBSET Drafts
    BY <1>1, RequestFields
  <2> QED
    BY <2>1, <2>3, <2>4, AskHistorySteps
<1> QED
  BY <1>2, <1>3

LEMMA ArriveSteps ==
    ASSUME BatchInductive, Arrive
    PROVE  BatchInductive'
<1>1. /\ stage = "arrived" /\ stage' = "checked"
      /\ document' = document /\ mode' = mode /\ run' = run /\ receipt' = receipt
      /\ requests' = requests /\ userEdits' = userEdits
  BY DEF Arrive
<1>2. PICK s \in Captured : request' = [request EXCEPT !.before = s, !.origin = {document}]
  BY DEF Arrive
<1>3. BatchTyped /\ RequestSound /\ document \in Drafts
  BY DEF BatchInductive, BatchTyped
<1>4. s \in SUBSET Drafts /\ (s = {document} \/ s = {})
  BY <1>3 DEF Captured
<1>5. /\ request' \in Requests /\ request'.op = request.op /\ request'.batch = request.batch
      /\ request'.expected = request.expected /\ request'.before = s
      /\ request'.origin = {document}
  BY <1>2, <1>3, <1>4 DEF BatchTyped, Requests
<1>6. BatchTyped'
  BY <1>1, <1>3, <1>5 DEF BatchTyped, Stages
<1>7. Origin' = document
  BY <1>5 DEF Origin
<1>8. RequestSound'
  <2>1. run' = NewRun
    BY <1>1, <1>3 DEF RequestSound
  <2>2. request'.op = "none" => FALSE
    BY <1>1, <1>3, <1>5 DEF RequestSound
  <2>3. stage' # "running" /\ stage' \notin {"running", "rolling", "tail", "finish"}
    BY <1>1
  <2> QED
    BY <1>1, <1>3, <1>4, <1>5, <1>7, <2>1, <2>2, <2>3 DEF RequestSound
<1> QED
  BY <1>1, <1>6, <1>8 DEF BatchInductive

LEMMA CheckedFacts ==
    ASSUME BatchInductive, stage = "checked"
    PROVE  /\ BatchTyped /\ RequestSound /\ document \in Drafts /\ run = NewRun
           /\ Origin \in Drafts /\ request.origin = {Origin} /\ document = Origin
           /\ request.before \in {{Origin}, {}} /\ request.op \in {"MUTATE", "HISTORY"}
           /\ Ordered \in Seq(Commands) /\ Len(Ordered) \in Nat
<1>1. /\ BatchTyped /\ RequestSound /\ document \in Drafts
  BY DEF BatchInductive, BatchTyped
<1>2. /\ run = NewRun /\ document = Origin /\ request.origin = {Origin} /\ Origin \in Drafts
      /\ request.before \in {request.origin, {}}
  BY <1>1 DEF RequestSound
<1>3. request.op # "none"
  BY <1>1 DEF RequestSound
<1>4. request.op \in {"MUTATE", "HISTORY"}
  BY <1>1, <1>3, RequestFields
<1>5. Ordered \in Seq(Commands) /\ Len(Ordered) \in Nat
  BY <1>1, OrderedTyped
<1> QED
  BY <1>1, <1>2, <1>4, <1>5

LEMMA KeptItself ==
    ASSUME NEW d \in Drafts, d.tail = Origin.tail
    PROVE  TailKept(d)
<1>1. d.tail \in Seq(Pieces)
  BY PageFields
<1> QED
  BY <1>1, PrefixIs DEF TailKept

(* Before a batch runs the signature is one the client has seen.             *)
LEMMA UpToDateIs ==
    ASSUME Unchanged, request.expected # {}
    PROVE  request.expected = {document}
BY DEF Unchanged, UpToDate, Captured

(* An answer: what is known of the document, the run and the receipt.        *)
LEMMA AnswerSteps ==
    ASSUME BatchInductive, stage \in {"checked", "finish"}, stage' = "answered",
           UNCHANGED <<request, run, requests, userEdits>>,
           document' \in Drafts, mode' \in {"user", "auto"}, receipt' \in Receipts,
           request.op = "HISTORY" =>
              \A d \in request.expected : document'.undone <= d.undone + 1,
           AnswerSound'
    PROVE  BatchInductive'
<1>1. request' = request /\ run' = run /\ requests' = requests /\ userEdits' = userEdits
  OBVIOUS
<1>2. BatchTyped /\ RequestSound
  BY DEF BatchInductive
<1>3. BatchTyped'
  BY <1>1, <1>2 DEF BatchTyped, Stages
<1>4. RequestSound'
  <2>1. Origin' = Origin
    BY <1>1 DEF Origin
  <2>2. request.op # "none"
    BY <1>2 DEF RequestSound
  <2>3. /\ request.op = "MUTATE" => request.batch \in Batches
        /\ request.op = "HISTORY" => request.expected # {}
        /\ request.origin = {Origin} /\ Origin \in Drafts
        /\ request.before \in {request.origin, {}}
    BY <1>2 DEF RequestSound
  <2>4. /\ stage' \notin {"idle", "arrived", "checked"} /\ stage' # "checked"
        /\ stage' \notin {"running", "rolling", "tail", "finish"} /\ stage' # "running"
    OBVIOUS
  <2> QED
    BY <1>1, <2>1, <2>2, <2>3, <2>4 DEF RequestSound
<1>5. stage' # "running" /\ stage' \notin {"rolling", "tail", "finish"}
  OBVIOUS
<1> QED
  BY <1>3, <1>4, <1>5 DEF BatchInductive

(* A receipt that reports neither a success nor a change, on a document that *)
(* is untouched or was changed by an undo only.                              *)
LEMMA RefusedSound ==
    ASSUME BatchInductive, stage = "checked", UNCHANGED <<request, run>>,
           document' \in Drafts, document'.tail = document.tail,
           stage' = "answered", receipt' \in Receipts, ~receipt'.partial,
           receipt'.op = "MUTATE" => ~receipt'.ok /\ document' = document
    PROVE  AnswerSound'
<1>1. request' = request /\ run' = run
  OBVIOUS
<1>2. /\ run = NewRun /\ request.origin = {Origin} /\ document = Origin /\ Len(Ordered) \in Nat
  BY CheckedFacts
<1>3. Origin' = Origin /\ Ordered' = Ordered
  BY <1>1 DEF Origin, Ordered
<1>4. TailKept(document')
  BY <1>2, KeptItself
<1>5. TailKept(document)'
  BY <1>3, <1>4 DEF TailKept
<1>6. run'.done = 0 /\ ~run'.stale /\ run'.done <= Len(Ordered')
  BY <1>1, <1>2, <1>3, BlankRun
<1>7. RetrySafeMeansUntouched'
  <2>1. receipt'.op = "MUTATE" => request'.origin = {document'}
    BY <1>1, <1>2
  <2> QED
    BY <2>1 DEF RetrySafeMeansUntouched, Answered
<1>8. PartialIsReconciled'
  BY DEF PartialIsReconciled
<1>9. SucceededChanged'
  BY DEF SucceededChanged, Answered
<1>10. ModeGivenBack'
  BY DEF ModeGivenBack, Answered
<1>11. PreflightForesees'
  BY <1>6 DEF PreflightForesees
<1> QED
  BY <1>5, <1>6, <1>7, <1>8, <1>9, <1>10, <1>11 DEF AnswerSound

LEMMA StaleContentSteps ==
    ASSUME BatchInductive, StaleContent
    PROVE  BatchInductive'
<1>1. /\ stage = "checked" /\ stage' = "answered" /\ receipt' = Refusal(request.op)
      /\ document' = document /\ mode' = mode
      /\ UNCHANGED <<request, run, requests, userEdits>>
  BY DEF StaleContent, Answer
<1>2. /\ BatchTyped /\ RequestSound /\ document \in Drafts
      /\ request.op \in {"MUTATE", "HISTORY"}
  BY <1>1, CheckedFacts
<1>3. mode' \in {"user", "auto"}
  BY <1>1, <1>2 DEF BatchTyped
<1>4. request.op \in {"none", "MUTATE", "HISTORY"}
  BY <1>2
<1>5. receipt' \in Receipts /\ ~receipt'.partial /\ ~receipt'.ok
  BY <1>1, <1>4, BlankReceipt
<1>6. AnswerSound'
  BY <1>1, <1>2, <1>5, RefusedSound
<1>7. request.op = "HISTORY" => \A d \in request.expected : document'.undone <= d.undone + 1
  BY <1>1, <1>2 DEF RequestSound
<1> QED
  BY <1>1, <1>2, <1>3, <1>5, <1>6, <1>7, AnswerSteps

(* What was seen is what is there, so one undo is one more than that.        *)
LEMMA HistorySteps ==
    ASSUME BatchInductive, History
    PROVE  BatchInductive'
<1>1. /\ stage = "checked" /\ request.op = "HISTORY" /\ Unchanged /\ mode' = mode
      /\ UNCHANGED <<request, run, requests, userEdits>>
  BY DEF History
<1>2. BatchTyped /\ RequestSound /\ document \in Drafts /\ document.undone \in Nat
  BY <1>1, CheckedFacts, RequestFields
<1>3. PICK undone \in BOOLEAN, fails \in BOOLEAN :
         /\ document' = IF undone THEN [document EXCEPT !.undone = @ + 1] ELSE document
         /\ \E after \in {{document'}, {}} :
              LET ok == ~fails /\ undone /\ after # {} /\ after # {document}
              IN  Answer([Refusal("HISTORY") EXCEPT !.ok = ok, !.undo = ok])
  BY DEF History
<1>4. /\ document' \in Drafts /\ document'.tail = document.tail
      /\ document'.undone <= document.undone + 1
  <2>1. CASE undone
    <3>1. document' = [document EXCEPT !.undone = document.undone + 1]
      BY <1>2, <1>3, <2>1 DEF Drafts
    <3> QED
      BY <1>2, <3>1 DEF Drafts
  <2>2. CASE ~undone
    BY <1>2, <1>3, <2>2
  <2> QED
    BY <2>1, <2>2
<1>5. PICK ok \in BOOLEAN :
         Answer([Refusal("HISTORY") EXCEPT !.ok = ok, !.undo = ok])
  BY <1>3
<1>6. stage' = "answered" /\ receipt' = [Refusal("HISTORY") EXCEPT !.ok = ok, !.undo = ok]
  BY <1>5 DEF Answer
<1>7. receipt' \in Receipts /\ ~receipt'.partial /\ receipt'.op = "HISTORY"
  BY <1>6 DEF Refusal, NoReceipt, Receipts
<1>8. AnswerSound'
  <2>1. receipt'.op # "MUTATE"
    BY <1>7
  <2> QED
    BY <1>1, <1>4, <1>6, <1>7, <2>1, RefusedSound
<1>9. \A d \in request.expected : document'.undone <= d.undone + 1
  <2>1. request.expected = {document}
    BY <1>1, <1>2, UpToDateIs DEF RequestSound
  <2> QED
    BY <1>4, <2>1
<1>10. mode' \in {"user", "auto"}
  BY <1>1, <1>2 DEF BatchTyped
<1> QED
  BY <1>1, <1>4, <1>6, <1>7, <1>8, <1>9, <1>10, AnswerSteps

(* The batch begins, or is refused before anything of the document was.      *)
LEMMA BeginsSound ==
    ASSUME BatchInductive, stage = "checked", request.op = "MUTATE",
           NEW st \in {"running", "finish"}, stage' = st,
           run' \in BatchRuns, mode' \in {"user", "auto"},
           UNCHANGED <<document, request, receipt, requests, userEdits>>,
           st = "running" => InOrder(request.batch) /\ Unchanged,
           st = "running" => RunningSound(run', document),
           st = "finish" => EndingSound("finish", run', document)
    PROVE  BatchInductive'
<1>1. /\ document' = document /\ request' = request /\ receipt' = receipt
      /\ requests' = requests /\ userEdits' = userEdits
  OBVIOUS
<1>2. /\ BatchTyped /\ RequestSound /\ Origin \in Drafts /\ request.origin = {Origin}
      /\ document = Origin /\ request.before \in {{Origin}, {}}
  BY CheckedFacts
<1>3. BatchTyped'
  BY <1>1, <1>2 DEF BatchTyped, Stages
<1>4. /\ Origin' = Origin /\ Ordered' = Ordered /\ Fills' = Fills
      /\ TailKept(document)' = TailKept(document) /\ SameButTail(document)' = SameButTail(document)
  BY <1>1 DEF Origin, Ordered, Fills, TailKept, SameButTail
<1>5. RequestSound'
  <2>1. st = "running" /\ request.expected # {} => request.origin = request.expected
    BY <1>2, UpToDateIs
  <2>2. request.op # "none" /\ request.op # "HISTORY" /\ request.batch \in Batches
    BY <1>2 DEF RequestSound
  <2>3. stage' \notin {"idle", "arrived", "checked"} /\ stage' # "checked"
    OBVIOUS
  <2>4. (stage' = "running") = (st = "running")
    OBVIOUS
  <2> QED
    BY <1>1, <1>2, <1>4, <2>1, <2>2, <2>3, <2>4 DEF RequestSound
<1>6. CASE st = "running"
  <2>1. Opened(run, document)' = Opened(run', document)
    BY <1>1, <1>4 DEF Opened
  <2>2. Recorded(run, document)' = Recorded(run', document)
    BY <1>1, <1>4 DEF Recorded
  <2>3. Foreseen(run, document)' = Foreseen(run', document)
    BY <1>1, <1>4 DEF Foreseen
  <2>4. RunningSound(run, document)'
    BY <1>1, <1>4, <1>6, <2>1, <2>2, <2>3 DEF RunningSound
  <2>5. stage' = "running"
    BY <1>6
  <2> QED
    BY <1>3, <1>5, <2>4, <2>5 DEF BatchInductive
<1>7. CASE st = "finish"
  <2>1. EndingSound(stage, run, document)'
    BY <1>1, <1>4, <1>7 DEF EndingSound
  <2>2. stage' # "running" /\ stage' # "answered"
    BY <1>7
  <2> QED
    BY <1>3, <1>5, <2>1, <2>2 DEF BatchInductive
<1> QED
  BY <1>6, <1>7

LEMMA BatchRefusedSteps ==
    ASSUME BatchInductive, BatchRefused
    PROVE  BatchInductive'
<1>1. /\ stage = "checked" /\ stage' = "finish" /\ request.op = "MUTATE"
      /\ UNCHANGED <<document, request, receipt, requests, userEdits>>
  BY DEF BatchRefused
<1>2. /\ BatchTyped /\ Origin \in Drafts /\ document = Origin /\ Len(Ordered) \in Nat
  BY <1>1, CheckedFacts
<1>3. PICK boxed \in BOOLEAN, lost \in BOOLEAN :
         /\ run' = [NewRun EXCEPT !.boxed = boxed, !.lost = lost, !.previous = mode,
                       !.digest = IF RollbackAppendTail THEN {StructureDigest} ELSE {}]
         /\ mode' = IF boxed THEN "auto" ELSE mode
  BY DEF BatchRefused
<1> DEFINE digest == IF RollbackAppendTail THEN {StructureDigest} ELSE {}
<1>4. mode \in {"user", "auto"} /\ digest \in SUBSET Nat
  BY <1>2, DigestIsNat DEF BatchTyped
<1> HIDE DEF digest
<1>5. run' = [NewRun EXCEPT !.boxed = boxed, !.lost = lost, !.previous = mode,
                 !.digest = digest]
  BY <1>3 DEF digest
<1>6. /\ run' \in BatchRuns /\ run'.done = 0 /\ run'.rolled = "no" /\ ~run'.stale
  <2>1. run' \in BatchRuns
    BY <1>4, <1>5, BlankRun DEF BatchRuns
  <2>2. /\ run'.done = NewRun.done /\ run'.rolled = NewRun.rolled /\ run'.ok = NewRun.ok
        /\ run'.stale = NewRun.stale /\ run'.anchor = NewRun.anchor
        /\ run'.table = NewRun.table /\ run'.created = NewRun.created
        /\ run'.caret = NewRun.caret
    BY <1>5, BlankRun DEF BatchRuns
  <2> QED
    BY <2>1, <2>2, BlankRun
<1>7. mode' \in {"user", "auto"}
  BY <1>3, <1>4
<1>8. TailKept(document)
  BY <1>2, KeptItself
<1>9. EndingSound("finish", run', document)
  BY <1>2, <1>6, <1>8 DEF EndingSound
<1> QED
  BY <1>1, <1>6, <1>7, <1>9, BeginsSound

LEMMA BeginBatchSteps ==
    ASSUME BatchInductive, BeginBatch
    PROVE  BatchInductive'
<1>1. /\ stage = "checked" /\ stage' = "running" /\ request.op = "MUTATE" /\ mode' = "auto"
      /\ Unchanged /\ InOrder(request.batch)
      /\ PreflightPasses(request.batch.commands, document.cells)
      /\ UNCHANGED <<document, request, receipt, requests, userEdits>>
  BY DEF BeginBatch
<1>2. /\ BatchTyped /\ Origin \in Drafts /\ document = Origin
      /\ Ordered \in Seq(Commands) /\ Len(Ordered) \in Nat
  BY <1>1, CheckedFacts
<1>3. PICK d \in {{StructureDigest}, {}} :
         run' = [NewRun EXCEPT !.boxed = TRUE, !.previous = mode,
                    !.digest = IF RollbackAppendTail THEN d ELSE {}]
  BY DEF BeginBatch
<1> DEFINE digest == IF RollbackAppendTail THEN d ELSE {}
<1>4. mode \in {"user", "auto"} /\ digest \in SUBSET Nat
  BY <1>2, DigestIsNat DEF BatchTyped
<1> HIDE DEF digest
<1>5. run' = [NewRun EXCEPT !.boxed = TRUE, !.previous = mode, !.digest = digest]
  BY <1>3 DEF digest
<1>6. /\ run' \in BatchRuns /\ run'.done = 0 /\ run'.rolled = "no" /\ ~run'.stale /\ ~run'.ok
      /\ run'.anchor = {} /\ run'.table = {} /\ run'.created = 0 /\ run'.caret = "body"
  <2>1. run' \in BatchRuns
    BY <1>4, <1>5, BlankRun DEF BatchRuns
  <2>2. /\ run'.done = NewRun.done /\ run'.rolled = NewRun.rolled /\ run'.ok = NewRun.ok
        /\ run'.stale = NewRun.stale /\ run'.anchor = NewRun.anchor
        /\ run'.table = NewRun.table /\ run'.created = NewRun.created
        /\ run'.caret = NewRun.caret
    BY <1>5, BlankRun DEF BatchRuns
  <2> QED
    BY <2>1, <2>2, BlankRun
<1>7. Opened(run', document)
  <2>1. TailKept(document)
    BY <1>2, KeptItself
  <2> QED
    BY <1>2, <1>6, <2>1 DEF Opened
<1>8. Recorded(run', document)
  <2>1. SameButTail(document)
    BY <1>2 DEF SameButTail
  <2>2. \A j \in 1..run'.done : FALSE
    BY <1>6
  <2> QED
    BY <1>2, <1>6, <2>1, <2>2 DEF Recorded
<1>9. Fills => Foreseen(run', document)
  <2>1. SUFFICES ASSUME Fills
                 PROVE  Foreseen(run', document)
    OBVIOUS
  <2>2. Shadowed(Ordered, Origin.cells) # {}
    BY <1>1, <1>2, <2>1 DEF PreflightPasses, Fills, Ordered
  <2>3. Shadows(Ordered, Origin.cells)[run'.done] = {Origin.cells}
    BY <1>2, <1>6, ShadowSteps
  <2>4. Origin.cells \in Seq(Text)
    <3>1. Origin.cells \in Seq(Shown)
      BY <1>2, PageFields
    <3> QED
      BY <3>1, ShownIsText, SeqMonotonic
  <2> QED
    BY <1>2, <1>6, <2>2, <2>3, <2>4 DEF Foreseen
<1>10. RunningSound(run', document)
  BY <1>2, <1>6, <1>7, <1>8, <1>9 DEF RunningSound
<1>11. mode' \in {"user", "auto"}
  BY <1>1
<1> QED
  BY <1>1, <1>6, <1>10, <1>11, BeginsSound

(* What a failed Execute says of itself is so.                               *)
LEMMA ExecutedSound ==
    ASSUME BatchInductive, stage = "finish", NEW restored \in BOOLEAN,
           NEW digest \in {{StructureDigest}, {}}
    PROVE  LET e == Executed(restored, digest)
           IN  /\ e.ok \in BOOLEAN /\ e.partial \in BOOLEAN /\ e.retrySafe \in BOOLEAN
               /\ e.ok => restored /\ e.retrySafe
               /\ ~e.ok /\ e.retrySafe => ~e.partial
               /\ ~e.ok /\ ~e.partial /\ Accounted(request.batch) => document = Origin
<1> DEFINE e == Executed(restored, digest)
           same == run.digest # {} /\ digest = run.digest
           changed == run.digest # {} /\ digest # {} /\ ~same
           ok == run.ok /\ restored
           partial == IF ok THEN run.partial
                      ELSE IF run.rolled # "no" THEN run.rolled = "failed" \/ ~same
                      ELSE run.partial \/ changed
<1>1. EndingSound("finish", run, document) /\ run \in BatchRuns
  BY EndingFacts
<1>2. /\ run.ok \in BOOLEAN /\ run.partial \in BOOLEAN /\ run.lost \in BOOLEAN
      /\ run.rolled \in {"no", "failed", "done"}
  BY <1>1, RunFields
<1>3. e = [ok |-> ok, partial |-> partial, retrySafe |-> ok \/ (~run.lost /\ ~partial)]
  BY DEF Executed
<1>4. ok \in BOOLEAN /\ (ok => restored)
  BY <1>2
<1>5. partial \in BOOLEAN
  <2>1. same \in BOOLEAN /\ changed \in BOOLEAN
    OBVIOUS
  <2>2. (run.rolled = "failed" \/ ~same) \in BOOLEAN /\ (run.partial \/ changed) \in BOOLEAN
    BY <1>2, <2>1
  <2> HIDE DEF same, changed
  <2> QED
    BY <1>2, <2>2
<1>6. ~ok /\ ~partial /\ Accounted(request.batch) => document = Origin
  <2>1. SUFFICES ASSUME ~ok, ~partial, Accounted(request.batch)
                 PROVE  document = Origin
    OBVIOUS
  <2>2. CASE run.rolled = "no"
    BY <1>1, <2>1, <2>2 DEF EndingSound
  <2>3. CASE run.rolled # "no"
    <3>1. run.rolled = "done"
      BY <1>2, <2>1, <2>3
    <3> QED
      BY <1>1, <2>1, <3>1 DEF EndingSound
  <2> QED
    BY <2>2, <2>3
<1> HIDE DEF ok, partial
<1>7. e.ok = ok /\ e.partial = partial /\ e.retrySafe = (ok \/ (~run.lost /\ ~partial))
  BY <1>3
<1>8. e.retrySafe \in BOOLEAN /\ (~ok /\ e.retrySafe => ~partial) /\ (ok => e.retrySafe)
  BY <1>2, <1>4, <1>5, <1>7
<1> QED
  BY <1>4, <1>5, <1>6, <1>7, <1>8

LEMMA FinishBatchSteps ==
    ASSUME BatchInductive, FinishBatch
    PROVE  BatchInductive'
<1>1. /\ stage = "finish" /\ UNCHANGED <<document, request, run, requests, userEdits>>
  BY DEF FinishBatch
<1>2. PICK restored \in IF run.boxed THEN BOOLEAN ELSE {TRUE}, again \in BOOLEAN,
           digest \in {{StructureDigest}, {}}, after \in Captured :
         /\ mode' = IF restored \/ again THEN run.previous ELSE mode
         /\ Answer(MutateReceipt(Executed(restored, digest), after))
  BY DEF FinishBatch
<1> DEFINE e == Executed(restored, digest)
           seen == after # {} /\ after # request.before
<1>3. restored \in BOOLEAN
  BY <1>2
<1>4. /\ e.ok \in BOOLEAN /\ e.partial \in BOOLEAN /\ e.retrySafe \in BOOLEAN
      /\ e.ok => restored /\ e.retrySafe
      /\ ~e.ok /\ e.retrySafe => ~e.partial
      /\ ~e.ok /\ ~e.partial /\ Accounted(request.batch) => document = Origin
  BY <1>1, <1>3, ExecutedSound
<1>5. /\ BatchTyped /\ RequestSound /\ EndingSound("finish", run, document)
      /\ run \in BatchRuns /\ document \in Drafts /\ request.op = "MUTATE"
      /\ request.origin = {Origin} /\ request.before \in {{Origin}, {}}
  BY <1>1, EndingFacts
<1>6. stage' = "answered" /\ receipt' = MutateReceipt(e, after)
  BY <1>2 DEF Answer
<1> HIDE DEF e
<1>7. /\ receipt' = [op |-> "MUTATE", ok |-> e.ok /\ seen, undo |-> e.ok /\ seen,
                     partial |-> e.partial /\ ~(e.ok /\ seen),
                     retrySafe |-> IF e.ok THEN seen ELSE e.retrySafe,
                     reconcile |-> IF e.ok THEN ~seen ELSE e.partial /\ ~e.retrySafe]
  BY <1>6 DEF MutateReceipt
<1>8. seen \in BOOLEAN /\ (seen /\ request.before # {} => document # Origin)
  <2>1. after \in {{document}, {}}
    BY <1>2 DEF Captured
  <2> QED
    BY <1>5, <2>1
<1> HIDE DEF seen
<1>9. /\ receipt'.ok = (e.ok /\ seen) /\ receipt'.partial = (e.partial /\ ~(e.ok /\ seen))
      /\ receipt'.retrySafe = (IF e.ok THEN seen ELSE e.retrySafe)
      /\ receipt'.reconcile = (IF e.ok THEN ~seen ELSE e.partial /\ ~e.retrySafe)
  BY <1>7
<1>10. receipt' \in Receipts
  <2>1. /\ (e.ok /\ seen) \in BOOLEAN /\ (e.partial /\ ~(e.ok /\ seen)) \in BOOLEAN
        /\ (IF e.ok THEN seen ELSE e.retrySafe) \in BOOLEAN
        /\ (IF e.ok THEN ~seen ELSE e.partial /\ ~e.retrySafe) \in BOOLEAN
    BY <1>4, <1>8
  <2> QED
    BY <1>7, <2>1 DEF Receipts
<1>11. mode' \in {"user", "auto"} /\ (restored => mode' = run.previous)
  <2>1. mode \in {"user", "auto"} /\ run.previous \in {"user", "auto"}
    BY <1>5, RunFields DEF BatchTyped
  <2> QED
    BY <1>2, <2>1
<1>12. request' = request /\ run' = run /\ document' = document
  BY <1>1
<1>13. Origin' = Origin /\ Ordered' = Ordered
  BY <1>12 DEF Origin, Ordered
<1>14. AnswerSound'
  <2>1. /\ (request.batch.atomic => TailKept(document))'
        /\ (run.done <= Len(Ordered))'
    BY <1>5, <1>12, <1>13 DEF EndingSound, TailKept
  <2>2. RetrySafeMeansUntouched'
    <3>1. SUFFICES ASSUME ~receipt'.ok, receipt'.retrySafe, Accounted(request.batch)
                   PROVE  request.origin = {document}
      BY <1>12 DEF RetrySafeMeansUntouched
    <3>2. ~e.ok /\ e.retrySafe
      BY <1>4, <1>8, <1>9, <3>1
    <3> QED
      BY <1>4, <1>5, <3>1, <3>2
  <2>3. PartialIsReconciled'
    <3>1. receipt'.partial => ~receipt'.retrySafe /\ receipt'.reconcile
      BY <1>4, <1>8, <1>9
    <3> QED
      BY <3>1 DEF PartialIsReconciled
  <2>4. SucceededChanged'
    <3>1. SUFFICES ASSUME receipt'.ok, request.before # {}
                   PROVE  request.origin # {document}
      BY <1>12 DEF SucceededChanged
    <3>2. document # Origin
      BY <1>4, <1>8, <1>9, <3>1
    <3> QED
      BY <1>5, <3>2
  <2>5. ModeGivenBack'
    <3>1. receipt'.ok => restored
      BY <1>4, <1>8, <1>9
    <3> QED
      BY <1>11, <1>12, <3>1 DEF ModeGivenBack
  <2>6. PreflightForesees'
    BY <1>5, <1>12 DEF EndingSound, PreflightForesees, Fills, Ordered
  <2> QED
    BY <2>1, <2>2, <2>3, <2>4, <2>5, <2>6 DEF AnswerSound
<1>15. request.op # "HISTORY"
  BY <1>5
<1> QED
  BY <1>1, <1>5, <1>6, <1>10, <1>11, <1>12, <1>14, <1>15, AnswerSteps

LEMMA TakeSteps ==
    ASSUME BatchInductive, Take
    PROVE  BatchInductive'
<1>1. /\ stage = "answered" /\ stage' = "idle" /\ run' = NewRun
      /\ document' = document /\ mode' = mode /\ receipt' = receipt
      /\ requests' = requests /\ userEdits' = userEdits
  BY DEF Take
<1>2. BatchTyped /\ RequestSound
  BY DEF BatchInductive
<1>3. request' = [op |-> request.op, batch |-> request.batch,
                  expected |-> request.expected, before |-> {}, origin |-> {}]
  BY DEF Take, NoRequest
<1>4. /\ request.op \in {"none", "MUTATE", "HISTORY"}
      /\ request.batch \in Batches \cup {NoBatch} /\ request.expected \in SUBSET Drafts
  BY <1>2, RequestFields
<1>5. /\ request' \in Requests /\ request'.op = request.op
      /\ request'.batch = request.batch /\ request'.expected = request.expected
  BY <1>3, <1>4 DEF Requests
<1>6. BatchTyped'
  BY <1>1, <1>2, <1>5, BlankRun DEF BatchTyped, Stages
<1>7. RequestSound'
  <2>1. request.op # "none"
    BY <1>1, <1>2 DEF RequestSound
  <2>2. /\ request.op = "MUTATE" => request.batch \in Batches
        /\ request.op = "HISTORY" =>
              /\ request.expected # {}
              /\ \A d \in request.expected : document.undone <= d.undone + 1
    BY <1>2 DEF RequestSound
  <2>3. /\ stage' \notin {"running", "rolling", "tail", "finish"} /\ stage' # "checked"
        /\ stage' # "running" /\ stage' \in {"idle", "arrived"}
    BY <1>1
  <2> QED
    BY <1>1, <1>5, <2>1, <2>2, <2>3, RequestWaits
<1> QED
  BY <1>1, <1>6, <1>7 DEF BatchInductive

LEMMA BatchStays ==
    ASSUME BatchInductive, UNCHANGED batchVars
    PROVE  BatchInductive'
<1>1. /\ document' = document /\ mode' = mode /\ stage' = stage /\ request' = request
      /\ run' = run /\ receipt' = receipt /\ requests' = requests /\ userEdits' = userEdits
  BY DEF batchVars
<1>2. BatchTyped'
  BY <1>1 DEF BatchInductive, BatchTyped
<1>3. /\ Origin' = Origin /\ Ordered' = Ordered /\ Fills' = Fills
      /\ TailKept(document)' = TailKept(document) /\ SameButTail(document)' = SameButTail(document)
  BY <1>1 DEF Origin, Ordered, Fills, TailKept, SameButTail
<1>4. RequestSound'
  BY <1>1, <1>3 DEF BatchInductive, RequestSound
<1>5. RunningSound(run, document)' = RunningSound(run, document)
  <2>1. Opened(run, document)' = Opened(run, document)
    BY <1>1, <1>3 DEF Opened
  <2>2. Recorded(run, document)' = Recorded(run, document)
    BY <1>1, <1>3 DEF Recorded
  <2>3. Foreseen(run, document)' = Foreseen(run, document)
    BY <1>1, <1>3 DEF Foreseen
  <2> QED
    BY <1>1, <1>3, <2>1, <2>2, <2>3 DEF RunningSound
<1>6. EndingSound(stage, run, document)' = EndingSound(stage, run, document)
  BY <1>1, <1>3 DEF EndingSound
<1>7. AnswerSound' = AnswerSound
  <2>1. /\ RetrySafeMeansUntouched' = RetrySafeMeansUntouched
        /\ PartialIsReconciled' = PartialIsReconciled
        /\ SucceededChanged' = SucceededChanged
        /\ ModeGivenBack' = ModeGivenBack
        /\ PreflightForesees' = PreflightForesees
    BY <1>1 DEF RetrySafeMeansUntouched, PartialIsReconciled, SucceededChanged,
                ModeGivenBack, PreflightForesees, Answered
  <2> QED
    BY <1>1, <1>3, <2>1 DEF AnswerSound
<1> QED
  BY <1>1, <1>2, <1>4, <1>5, <1>6, <1>7 DEF BatchInductive

LEMMA BatchSteps ==
    ASSUME BatchInductive, [BatchNext]_batchVars
    PROVE  BatchInductive'
<1>1. ASSUME NEW b \in Batches, NEW seen \in {{document}, {}}, AskMutate(b, seen)
      PROVE  BatchInductive'
  <2>1. seen \in SUBSET Drafts
    BY RequestFields DEF BatchInductive
  <2> QED
    BY <1>1, <2>1, AskMutateSteps
<1>2. CASE AskHistory({document})
  <2>1. {document} \in SUBSET Drafts /\ document.undone <= document.undone + 1
    BY RequestFields DEF BatchInductive
  <2> QED
    BY <1>2, <2>1, AskHistorySteps
<1>3. CASE BatchRest \/ UNCHANGED batchVars
  BY <1>3, BatchStays DEF BatchRest
<1> QED
  BY <1>1, <1>2, <1>3, UserEditsSteps, RetrySteps, ArriveSteps, StaleContentSteps,
     HistorySteps, BatchRefusedSteps, BeginBatchSteps, CommandFailsSteps,
     MoveDocumentEndSteps, MoveDocumentEndFailsSteps, InsertPieceSteps, TableCreateSteps,
     TableCreatedUnknownSteps, SetCellTextSteps, FindSteps, TableAppendRowSteps,
     FillTextSteps, LeaveTableSteps, CopyControlSteps, PasteTableSteps,
     RollbackControlSteps, RollbackControlsSteps, RollbackTailSteps,
     RollbackTailFailsSteps, AllDoneSteps, FinishBatchSteps, TakeSteps
  DEF BatchNext

(* For any batches the parser lets pass, any tables and any number of        *)
(* requests and edits, every state of the batches satisfies the inductive    *)
(* invariant: what a run has recorded, where its append began and what the   *)
(* preflight has seen are true of the document.                              *)
THEOREM BatchesSound == BatchSpec => []BatchInductive
<1>1. BatchInit => BatchInductive
  BY BatchInitially
<1>2. BatchInductive /\ [BatchNext]_batchVars => BatchInductive'
  BY BatchSteps
<1> QED
  BY <1>1, <1>2, PTL DEF BatchSpec

LEMMA TypesFollow ==
    ASSUME BatchInductive
    PROVE  BatchTypes
<1>1. BatchTyped /\ run \in BatchRuns /\ document \in Drafts
  BY DEF BatchInductive, BatchTyped
<1>2. Drafts \subseteq Document
  <2>1. Seq(Shown) \subseteq Seq(Text)
    BY ShownIsText, SeqMonotonic
  <2> QED
    BY <2>1 DEF Drafts, Document
<1>3. /\ request.op \in {"none", "MUTATE", "HISTORY"} /\ request.expected \subseteq Document
      /\ request.before \subseteq Document /\ request.origin \subseteq Document
  <2>1. request \in Requests
    BY <1>1 DEF BatchTyped
  <2>2. /\ request.op \in {"none", "MUTATE", "HISTORY"} /\ request.expected \in SUBSET Drafts
        /\ request.before \in SUBSET Drafts /\ request.origin \in SUBSET Drafts
    BY <2>1 DEF Requests
  <2> QED
    BY <1>2, <2>2
<1>4. run.done \in 0..Len(request.batch.commands)
  <2>1. run.done \in Nat /\ Len(Ordered) \in Nat
    BY <1>1, RunFields, OrderedTyped
  <2>2. run.done <= Len(Ordered)
    <3>1. CASE stage \in {"idle", "arrived", "checked"}
      <4>1. run.done = 0
        BY <3>1, BlankRun DEF BatchInductive, RequestSound
      <4> QED
        BY <2>1, <4>1
    <3>2. CASE stage \notin {"idle", "arrived", "checked"}
      <4>1. \/ stage = "running" \/ stage \in {"rolling", "tail", "finish"}
            \/ stage = "answered"
        BY <1>1, <3>2 DEF BatchTyped, Stages
      <4> QED
        BY <4>1 DEF BatchInductive, RunningSound, EndingSound, AnswerSound
    <3> QED
      BY <3>1, <3>2
  <2> QED
    BY <2>1, <2>2 DEF Ordered
<1>5. receipt.op \in {"none", "MUTATE", "HISTORY"}
  BY <1>1 DEF BatchTyped, Receipts
<1>6. /\ document \in Document /\ mode \in {"user", "auto"}
      /\ requests \in 0..MaxRequest /\ userEdits \in 0..MaxEdit
  BY <1>1, <1>2 DEF BatchTyped
<1>7. stage \in {"idle", "arrived", "checked", "running", "rolling", "tail", "finish",
                 "answered"}
  BY <1>1 DEF BatchTyped, Stages
<1>8. /\ run.previous \in {"user", "auto"} /\ run.caret \in {"body", "tail", "cell"}
      /\ run.piece \in 0..2 /\ run.digest \subseteq Nat /\ run.append \subseteq Nat
      /\ run.anchor \subseteq Nat /\ run.created \in Nat /\ run.table \subseteq Nat
      /\ run.rolled \in {"no", "failed", "done"}
  BY <1>1, RunFields
<1> QED
  BY <1>3, <1>4, <1>5, <1>6, <1>7, <1>8 DEF BatchTypes

(* A batch never runs on a document its client has not seen, no rollback     *)
(* deletes what was there before the append, the mode of the messages is     *)
(* given back by every success, and an undo asked for again is done once.    *)
THEOREM BatchesAreCoherent == BatchSpec => []BatchCoherent
<1>1. BatchInductive => BatchCoherent
  <2>1. SUFFICES ASSUME BatchInductive
                 PROVE  BatchCoherent
    OBVIOUS
  <2>2. OriginalKept
    BY <2>1 DEF BatchInductive, AnswerSound, OriginalKept, TailKept
  <2>3. ModeGivenBack
    BY <2>1 DEF BatchInductive, AnswerSound, ModeGivenBack, Answered
  <2>4. StaleRefused /\ UndoneOnce
    BY <2>1 DEF BatchInductive, RequestSound, StaleRefused, UndoneOnce
  <2> QED
    BY <2>1, <2>2, <2>3, <2>4, TypesFollow DEF BatchCoherent
<1> QED
  BY <1>1, BatchesSound, PTL

(* A batch that failed and is safe to retry left the document as it was,     *)
(* whichever call failed and however far its rollback came; a partial change *)
(* is always to be reconciled; and a text that is not there is refused       *)
(* before anything is changed, unless the batch itself hid it.               *)
THEOREM FailuresAreTold == BatchSpec => []FailuresTold
<1>1. BatchInductive => FailuresTold
  <2>1. SUFFICES ASSUME BatchInductive
                 PROVE  FailuresTold
    OBVIOUS
  <2>2. RetrySafeMeansUntouched
    BY <2>1 DEF BatchInductive, AnswerSound, RetrySafeMeansUntouched, Answered
  <2>3. PartialIsReconciled
    BY <2>1 DEF BatchInductive, AnswerSound, PartialIsReconciled, Answered
  <2>4. PreflightForesees
    <3>1. SUFFICES ASSUME run.stale, Fills
                   PROVE  Unforeseen(Ordered, run.done + 1)
      BY DEF PreflightForesees, Fills, Ordered
    <3>2. BatchTyped
      BY <2>1 DEF BatchInductive
    <3>3. CASE stage \in {"idle", "arrived", "checked"}
      BY <2>1, <3>1, <3>3, BlankRun DEF BatchInductive, RequestSound
    <3>4. CASE stage = "running"
      BY <2>1, <3>1, <3>4 DEF BatchInductive, RunningSound
    <3>5. CASE stage \in {"rolling", "tail", "finish"}
      BY <2>1, <3>1, <3>5 DEF BatchInductive, EndingSound
    <3>6. CASE stage = "answered"
      BY <2>1, <3>1, <3>6 DEF BatchInductive, AnswerSound, PreflightForesees, Fills, Ordered
    <3> QED
      BY <3>2, <3>3, <3>4, <3>5, <3>6 DEF BatchTyped, Stages
  <2> QED
    BY <2>2, <2>3, <2>4 DEF FailuresTold
<1> QED
  BY <1>1, BatchesSound, PTL

(* A batch is never answered as a success when nothing was done to the       *)
(* document it met with a complete signature.                                *)
THEOREM SuccessIsAChange == BatchSpec => []SucceededChanged
<1>1. BatchInductive => SucceededChanged
  BY DEF BatchInductive, AnswerSound, SucceededChanged, Answered
<1> QED
  BY <1>1, BatchesSound, PTL

=============================================================================
