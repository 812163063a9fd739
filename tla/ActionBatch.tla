---------------------------- MODULE ActionBatch ----------------------------
(***************************************************************************)
(* One MUTATE or HISTORY request of the HLB1 protocol, run on the thread   *)
(* of Hangul: the signature before, the check of the expected signature,   *)
(* the validation, the commands of the batch with every call to Hangul     *)
(* that may fail, the rollback of an append, and the receipt from which    *)
(* the client learns whether it may send the same batch again.             *)
(*                                                                         *)
(* The document is a body, the cells of a table in it, a count of the      *)
(* edits undone, and a tail, the sequence of what follows the body.  The   *)
(* signature of the content is the document itself, or nothing when it     *)
(* cannot be captured completely; the structure digest sees the number of  *)
(* tables only, never the text.                                            *)
(***************************************************************************)
EXTENDS CellText

CONSTANTS Batches,      \* the batches a client may send
          Tables,       \* what the cells of the table may hold at first
          MaxRequest,   \* bounds the requests
          MaxEdit       \* bounds what the user edits

Kinds == {"MoveDocumentEnd", "InsertText", "TableCreate", "SetCellText",
          "LeaveTable", "CopyControl", "PasteTable", "SelectControl",
          "CaptureTable", "Cell", "TableAppendRow", "TextPatch"}

(* What the parser lets pass: an expected text is never empty in a patch.    *)
Commands == [kind : Kinds \ {"SetCellText", "TextPatch"}]
       \cup [kind : {"SetCellText"}, cell : Nat, expected : SUBSET Text,
             text : Text]
       \cup [kind : {"TextPatch"}, cell : Nat, expected : Text \ {<<>>},
             occurrence : Nat, text : Text]

ASSUME BatchAssumption ==
    /\ MaxRequest \in Nat /\ MaxEdit \in Nat
    /\ Batches \subseteq [commands : Seq(Commands) \ {<<>>}, atomic : BOOLEAN]
    /\ Tables \subseteq Seq(Shown)

VARIABLES document,  \* the document
          mode,      \* the message box mode of Hangul: of the user, or automatic
          stage,     \* where the request is
          request,   \* the request and its signatures
          run,       \* the ExecutionResult and the Context of the batch
          receipt,   \* the answer to the last request
          requests,
          userEdits

batchVars == <<document, mode, stage, request, run, receipt, requests, userEdits>>

Pieces == {"base", "break", "text", "table", "filled"}
Document == [body : Nat, cells : Seq(Text), undone : Nat, tail : Seq(Pieces)]

NoBatch == [commands |-> <<>>, atomic |-> FALSE]
NoRequest == [op |-> "none", batch |-> NoBatch, expected |-> {}, before |-> {},
              origin |-> {}]
NewRun == [done |-> 0, piece |-> 0, partial |-> FALSE, ok |-> FALSE, digest |-> {},
           append |-> {}, anchor |-> {}, created |-> 0, table |-> {}, caret |-> "body",
           copied |-> FALSE, rolled |-> "no", boxed |-> FALSE, previous |-> "user",
           lost |-> FALSE,     \* the selection was not restored after the preflight
           stale |-> FALSE]    \* history: a command did not find its text
NoReceipt == [op |-> "none", ok |-> FALSE, partial |-> FALSE, retrySafe |-> TRUE,
              reconcile |-> FALSE, undo |-> FALSE]

BatchTypes ==
    /\ document \in Document
    /\ mode \in {"user", "auto"} /\ run.previous \in {"user", "auto"}
    /\ run.caret \in {"body", "tail", "cell"}
    /\ stage \in {"idle", "arrived", "checked", "running", "rolling", "tail", "finish",
                   "answered"}
    /\ request.op \in {"none", "MUTATE", "HISTORY"}
    /\ request.expected \subseteq Document
    /\ request.before \subseteq Document /\ request.origin \subseteq Document
    /\ run.done \in 0..Len(request.batch.commands) /\ run.piece \in 0..2
    /\ run.digest \subseteq Nat /\ run.append \subseteq Nat /\ run.anchor \subseteq Nat
    /\ run.created \in Nat /\ run.table \subseteq Nat
    /\ run.rolled \in {"no", "failed", "done"}
    /\ receipt.op \in {"none", "MUTATE", "HISTORY"}
    /\ requests \in 0..MaxRequest /\ userEdits \in 0..MaxEdit

(* A table counts for the digest whether its cells are filled or not. *)
IsTable(piece) == piece \in {"table", "filled"}
StructureDigest == Cardinality({i \in DOMAIN document.tail : IsTable(document.tail[i])})

(* What CaptureSignature returns: a complete signature or none. *)
Captured == {{document}, {}}

RollbackAppendTail == request.batch.atomic    \* or a ReferenceLayoutBulk that appends

BatchInit ==
    /\ document \in [body : {0}, cells : Tables, undone : {0}, tail : {<<>>, <<"base">>}]
    /\ mode = "user"
    /\ stage = "idle"
    /\ request = NoRequest
    /\ run = NewRun
    /\ receipt = NoReceipt
    /\ requests = 0
    /\ userEdits = 0
----------------------------------------------------------------------------
(* The user writes in the table between two requests. *)
UserEdits ==
    /\ stage = "idle"
    /\ userEdits < MaxEdit
    /\ \E cells \in Tables \ {document.cells} :
         document' = [document EXCEPT !.cells = cells]
    /\ userEdits' = userEdits + 1
    /\ UNCHANGED <<mode, stage, request, run, receipt, requests>>

(* A client sends a batch, with the signature it saw or without one. *)
AskMutate(b, seen) ==
    /\ stage = "idle"
    /\ requests < MaxRequest
    /\ request' = [NoRequest EXCEPT !.op = "MUTATE", !.batch = b, !.expected = seen]
    /\ stage' = "arrived"
    /\ requests' = requests + 1
    /\ UNCHANGED <<document, mode, run, receipt, userEdits>>

(* A client asks to undo the edit that led to what it saw, one of this run  *)
(* or an older one; after a failure it may ask again for the same.          *)
AskHistory(seen) ==
    /\ stage = "idle"
    /\ requests < MaxRequest
    /\ request' = [NoRequest EXCEPT !.op = "HISTORY", !.expected = seen]
    /\ stage' = "arrived"
    /\ requests' = requests + 1
    /\ UNCHANGED <<document, mode, run, receipt, userEdits>>

Answer(r) == receipt' = r /\ stage' = "answered"

(* Execute captures the signature before ExecuteOperation. *)
Arrive ==
    /\ stage = "arrived"
    /\ \E s \in Captured : request' = [request EXCEPT !.before = s, !.origin = {document}]
    /\ stage' = "checked"
    /\ UNCHANGED <<document, mode, run, receipt, requests, userEdits>>

Refusal(op) == [NoReceipt EXCEPT !.op = op]

(* The expected signature is compared with one captured anew. *)
StaleContent ==
    /\ stage = "checked"
    /\ request.expected # {}
    /\ \E now \in Captured : now # request.expected
    /\ Answer(Refusal(request.op))
    /\ UNCHANGED <<document, mode, request, run, requests, userEdits>>

(* Mutant: a signature that cannot be captured is taken for the expected one. *)
UpToDateUnlessKnown(now) == now \subseteq request.expected

UpToDate(now) == now = request.expected

Unchanged == request.expected = {} \/ \E now \in Captured : UpToDate(now)

(* Undo(1): Hangul may refuse, fail after it undid, or do it; the signature  *)
(* after it may be incomplete.                                               *)
History ==
    /\ stage = "checked"
    /\ request.op = "HISTORY"
    /\ Unchanged
    /\ \E undone \in BOOLEAN, failed \in BOOLEAN :
         /\ document' = IF undone THEN [document EXCEPT !.undone = @ + 1] ELSE document
         /\ \E after \in {{document'}, {}} :
              LET ok == ~failed /\ undone /\ after # {} /\ after # {document}
              IN  Answer([Refusal("HISTORY") EXCEPT !.ok = ok, !.undo = ok])
    /\ UNCHANGED <<mode, request, run, requests, userEdits>>

(* The order of the commands, the identity of the document, the caret, the   *)
(* selection and the assets, then the message box mode, HAction and the      *)
(* preflight of the texts; nothing is touched before all of them hold, but   *)
(* the preflight may lose the selection of the user.                         *)
BatchRefused ==
    /\ stage = "checked"
    /\ request.op = "MUTATE"
    /\ Unchanged
    /\ \E boxed \in BOOLEAN, lost \in BOOLEAN :
         /\ lost => /\ boxed
                    /\ IsFill(request.batch.commands) \/ IsExpand(request.batch.commands)
         /\ run' = [NewRun EXCEPT !.boxed = boxed, !.lost = lost, !.previous = mode,
                       !.digest = IF RollbackAppendTail THEN {StructureDigest} ELSE {}]
         /\ mode' = IF boxed THEN "auto" ELSE mode
    /\ stage' = "finish"
    /\ UNCHANGED <<document, request, receipt, requests, userEdits>>

InOrder(b) ==
    /\ b.atomic => b.commands[1].kind = "MoveDocumentEnd"
    /\ \A i \in DOMAIN b.commands :
          b.commands[i].kind = "PasteTable" =>
              \E j \in 1..(i - 1) : b.commands[j].kind = "CopyControl"

BeginBatch ==
    /\ stage = "checked"
    /\ request.op = "MUTATE"
    /\ Unchanged
    /\ InOrder(request.batch)
    /\ PreflightPasses(request.batch.commands, document.cells)
    /\ \E d \in {{StructureDigest}, {}} :
         run' = [NewRun EXCEPT !.boxed = TRUE, !.previous = mode,
                    !.digest = IF RollbackAppendTail THEN d ELSE {}]
    /\ mode' = "auto"
    /\ stage' = "running"
    /\ UNCHANGED <<document, request, receipt, requests, userEdits>>
----------------------------------------------------------------------------
Command == request.batch.commands[run.done + 1]
Running(kind) ==
    /\ stage = "running"
    /\ run.done < Len(request.batch.commands)
    /\ Command.kind = kind

MayMutate(command) ==
    command.kind \notin {"MoveDocumentEnd", "LeaveTable", "CopyControl",
                         "SelectControl", "CaptureTable", "Cell"}

(* Mutant: the rollback starts at the last MOVE_DOC_END. *)
AfterLast(r) ==
    [r EXCEPT !.done = @ + 1, !.piece = 0,
        !.partial = @ \/ MayMutate(Command),
        !.anchor = IF RollbackAppendTail /\ Command.kind = "MoveDocumentEnd"
                   THEN r.append ELSE @]

(* The loop of Execute after a command that succeeded: the first             *)
(* MOVE_DOC_END says where a rollback of the append would start.             *)
After(r) ==
    [r EXCEPT !.done = @ + 1, !.piece = 0,
        !.partial = @ \/ MayMutate(Command),
        !.anchor = IF RollbackAppendTail /\ Command.kind = "MoveDocumentEnd" /\ @ = {}
                   THEN r.append ELSE @]

Steps(r, d) ==
    /\ run' = r
    /\ document' = d
    /\ UNCHANGED <<mode, stage, request, receipt, requests, userEdits>>

(* Mutant: the start is used whether it is known or not. *)
CanRollBackAnyway == RollbackAppendTail

(* The failure of a command, or an exception, which also leaves it: an       *)
(* append whose start is known is rolled back, anything else is left.        *)
CanRollBack == RollbackAppendTail /\ run.anchor # {}

Fails(r, d) ==
    /\ run' = r
    /\ document' = d
    /\ stage' = IF CanRollBack THEN "rolling" ELSE "finish"
    /\ UNCHANGED <<mode, request, receipt, requests, userEdits>>

CommandFails ==
    /\ stage = "running"
    /\ run.done < Len(request.batch.commands)
    /\ Fails(run, document)

(* A cell of the table the batch created last in the tail, or else of one in *)
(* the body.                                                                 *)
WrittenCell ==
    IF run.table = {} THEN [document EXCEPT !.body = @ + 1]
    ELSE [document EXCEPT !.tail[CHOOSE i \in run.table : TRUE] = "filled"]

(* What is inserted goes to the caret. *)
Inserted(piece) ==
    CASE run.caret = "tail" -> [document EXCEPT !.tail = Append(@, piece)]
      [] run.caret = "cell" -> WrittenCell
      [] run.caret = "body" -> [document EXCEPT !.body = @ + 1]

(* Where the table that is inserted is: in the tail, in a cell of the last   *)
(* one, or in the body.                                                      *)
InsertedTable ==
    CASE run.caret = "tail" -> {Len(document.tail) + 1}
      [] run.caret = "cell" -> run.table
      [] run.caret = "body" -> {}

(* An empty paragraph at the end of the document is where an append starts;  *)
(* one is added when there is none.  The start is taken before that.         *)
EndIsEmpty == document.tail = <<>> \/ Last(document.tail) = "break"

(* Mutant: the start is the caret after the break. *)
MoveDocumentEndThenAnchor ==
    /\ Running("MoveDocumentEnd")
    /\ LET moved == [run EXCEPT !.caret = "tail", !.append = {Len(document.tail)}]
       IN  IF EndIsEmpty
           THEN Steps(After(moved), document)
           ELSE Steps(After([moved EXCEPT !.partial = TRUE,
                                          !.append = {Len(document.tail) + 1}]),
                      [document EXCEPT !.tail = Append(@, "break")])

MoveDocumentEnd ==
    /\ Running("MoveDocumentEnd")
    /\ LET moved == [run EXCEPT !.caret = "tail", !.append = {Len(document.tail)}]
       IN  IF EndIsEmpty
           THEN Steps(After(moved), document)
           ELSE Steps(After([moved EXCEPT !.partial = TRUE]),
                      [document EXCEPT !.tail = Append(@, "break")])

(* The caret is at the end, and BreakPara fails or GetPos does. *)
MoveDocumentEndFails ==
    /\ Running("MoveDocumentEnd")
    /\ \E known \in BOOLEAN :
         Fails([run EXCEPT !.caret = "tail",
                   !.append = IF known THEN {Len(document.tail)} ELSE @], document)

(* Two lines of text: a segment, a paragraph break and a segment, each one   *)
(* recorded once it is in the document.                                      *)
Line == <<"text", "break", "text">>

(* Mutant: the last piece of a text is left out. *)
InsertPieceShort ==
    /\ Running("InsertText")
    /\ LET written == [run EXCEPT !.partial = TRUE]
           d == Inserted(Line[run.piece + 1])
       IN  Steps(IF run.piece = 1 THEN After(written)
                                  ELSE [written EXCEPT !.piece = @ + 1], d)

(* Mutant: the text never ends. *)
InsertPieceEndless ==
    /\ Running("InsertText")
    /\ Steps([run EXCEPT !.partial = TRUE, !.piece = @ + 1], Inserted(Line[run.piece + 1]))

(* Mutant: only a command that ended counts as a change. *)
InsertPieceUnrecorded ==
    /\ Running("InsertText")
    /\ LET d == Inserted(Line[run.piece + 1])
       IN  Steps(IF run.piece = 2 THEN After(run)
                                  ELSE [run EXCEPT !.piece = @ + 1], d)

InsertPiece ==
    /\ Running("InsertText")
    /\ LET written == [run EXCEPT !.partial = TRUE]
           d == Inserted(Line[run.piece + 1])
       IN  Steps(IF run.piece = 2 THEN After(written)
                                  ELSE [written EXCEPT !.piece = @ + 1], d)

(* TableCreate, then the new table is captured and made a character; only    *)
(* then is its control known to the rollback.                                *)
TableCreate ==
    /\ Running("TableCreate")
    /\ Steps(After([run EXCEPT !.partial = TRUE, !.created = @ + 1,
                               !.table = InsertedTable, !.caret = "cell"]),
             Inserted("table"))

TableCreatedUnknown ==
    /\ Running("TableCreate")
    /\ Fails([run EXCEPT !.partial = TRUE], Inserted("table"))

SetCellText ==
    /\ Running("SetCellText")
    /\ run.created > 0
    /\ \/ Steps(After([run EXCEPT !.caret = "cell"]), WrittenCell)
       \/ Fails([run EXCEPT !.partial = TRUE], WrittenCell)   \* the text read back differs

(* The selection, the table and the anchor are only found.                   *)
Find ==
    /\ \/ Running("SelectControl") \/ Running("CaptureTable") \/ Running("Cell")
    /\ Steps(After([run EXCEPT !.caret = IF Running("Cell") THEN "cell" ELSE @]),
             document)

TableAppendRow ==
    /\ Running("TableAppendRow")
    /\ Steps(After(run), [document EXCEPT !.cells = Append(@, <<>>)])

(* A cell of the table that was there: its text is compared and replaced; a  *)
(* failure may leave it with the first pieces of the new one, or with all of *)
(* it but not read back.                                                     *)
ChangeCell ==
    /\ IsText(Command) /\ run.created = 0
    /\ Command.cell \in DOMAIN document.cells
    /\ LET text == document.cells[Command.cell]
           with(c) == [document EXCEPT !.cells[c.cell] = ReadBack(Written(text, c))]
       IN  IF Fits(text, Command)
           THEN \/ Steps(After([run EXCEPT !.caret = "cell"]), with(Command))
                \/ \E n \in 0..Len(Command.text) :
                      /\ n = 0 => Command.text = <<>>
                      /\ Fails([run EXCEPT !.partial = TRUE],
                               with([Command EXCEPT !.text = SubSeq(@, 1, n)]))
           ELSE Fails([run EXCEPT !.stale = TRUE], document)

FillText ==
    /\ Running("SetCellText")
    /\ ChangeCell

PatchText ==
    /\ Running("TextPatch")
    /\ ChangeCell

(* The caret goes back to the paragraph of the table. *)
LeaveTable ==
    /\ Running("LeaveTable")
    /\ run.created > 0
    /\ Steps(After([run EXCEPT !.caret = "tail"]), document)

CopyControl ==
    /\ Running("CopyControl")
    /\ Steps(After([run EXCEPT !.copied = TRUE]), document)

(* The block is inserted, then found, captured and formatted like the        *)
(* original; a failure on the way is not recorded as a change.               *)
PasteTable ==
    /\ Running("PasteTable")
    /\ run.copied
    /\ \/ Steps(After([run EXCEPT !.created = @ + 1, !.table = InsertedTable]),
                Inserted("table"))
       \/ Fails(run, Inserted("table"))
----------------------------------------------------------------------------
Start == IF run.anchor = {} THEN 0 ELSE CHOOSE n \in run.anchor : TRUE

(* RollbackAppendTail: the controls the batch created are deleted one by     *)
(* one; one that cannot be deleted does not stop it.                         *)
RollbackControl ==
    /\ stage = "rolling"
    /\ run.created > 0
    /\ \/ /\ \E i \in DOMAIN document.tail :
               /\ i > Start /\ IsTable(document.tail[i])
               /\ document' = [document EXCEPT !.tail = RemoveAt(@, i)]
          /\ run' = [run EXCEPT !.created = @ - 1]
       \/ /\ run' = [run EXCEPT !.created = @ - 1, !.rolled = "failed"]
          /\ UNCHANGED document
    /\ UNCHANGED <<mode, stage, request, receipt, requests, userEdits>>

RollbackControls ==
    /\ stage = "rolling"
    /\ run.created = 0
    /\ run' = [run EXCEPT !.rolled = IF @ = "failed" THEN "failed" ELSE "done"]
    /\ stage' = "tail"
    /\ UNCHANGED <<document, mode, request, receipt, requests, userEdits>>

(* The tail is read twice, compared with itself and deleted. *)
RollbackTail ==
    /\ stage = "tail"
    /\ document' = [document EXCEPT !.tail = SubSeq(@, 1, Start)]
    /\ stage' = "finish"
    /\ UNCHANGED <<mode, request, run, receipt, requests, userEdits>>

RollbackTailFails ==
    /\ stage = "tail"
    /\ run' = [run EXCEPT !.rolled = "failed"]
    /\ stage' = "finish"
    /\ UNCHANGED <<document, mode, request, receipt, requests, userEdits>>

AllDone ==
    /\ stage = "running"
    /\ run.done = Len(request.batch.commands)
    /\ run' = [run EXCEPT !.ok = TRUE]
    /\ stage' = "finish"
    /\ UNCHANGED <<document, mode, request, receipt, requests, userEdits>>
----------------------------------------------------------------------------
(* Mutant: a rollback that deleted the tail is believed when the structure   *)
(* is as before, whatever it could not delete.                               *)
ExecutedByDigest(restored, digest) ==
    LET ok == run.ok /\ restored
        same == run.digest # {} /\ digest = run.digest
        partial == IF ok THEN run.partial ELSE IF run.rolled # "no" THEN ~same ELSE run.partial
    IN  [ok |-> ok, partial |-> partial, retrySafe |-> ok \/ (~run.lost /\ ~partial)]

(* finish: the mode of the message boxes is given back; a failure of that is *)
(* a failure of the batch.  Then the digests and the rollback decide what is *)
(* known of the document.                                                    *)
Executed(restored, digest) ==
    LET ok == run.ok /\ restored
        same == run.digest # {} /\ digest = run.digest
        changed == run.digest # {} /\ digest # {} /\ ~same
        partial == IF ok THEN run.partial
                   ELSE IF run.rolled # "no" THEN run.rolled = "failed" \/ ~same
                   ELSE run.partial \/ changed
    IN  [ok |-> ok, partial |-> partial, retrySafe |-> ok \/ (~run.lost /\ ~partial)]

(* Mutant: what Execute said is sent as it is. *)
MutateReceiptAsTold(e, after) ==
    [op |-> "MUTATE", ok |-> e.ok, undo |-> e.ok, partial |-> e.partial,
     retrySafe |-> e.retrySafe, reconcile |-> e.partial /\ ~e.retrySafe]

(* Mutant: every success is taken for a change. *)
MutateReceiptOfSuccess(e, after) ==
    [op |-> "MUTATE", ok |-> e.ok, undo |-> e.ok, partial |-> e.partial /\ ~e.ok,
     retrySafe |-> e.ok \/ e.retrySafe, reconcile |-> ~e.ok /\ e.partial /\ ~e.retrySafe]

(* The receipt of MUTATE: a change that can be seen clears what Execute said *)
(* of itself; a success without one is a failure to be reconciled.           *)
MutateReceipt(e, after) ==
    LET contentChanged == after # {} /\ after # request.before
    IN  [op |-> "MUTATE",
         ok |-> e.ok /\ contentChanged,
         undo |-> e.ok /\ contentChanged,
         partial |-> e.partial /\ ~(e.ok /\ contentChanged),
         retrySafe |-> IF e.ok THEN contentChanged ELSE e.retrySafe,
         reconcile |-> IF e.ok THEN ~contentChanged ELSE e.partial /\ ~e.retrySafe]

(* Mutant: the mode is left to the destructor. *)
FinishLater ==
    /\ stage = "finish"
    /\ \E again \in BOOLEAN, digest \in {{StructureDigest}, {}}, after \in Captured :
         /\ mode' = IF again THEN run.previous ELSE mode
         /\ Answer(MutateReceipt(Executed(TRUE, digest), after))
    /\ UNCHANGED <<document, request, run, requests, userEdits>>

FinishBatch ==
    /\ stage = "finish"
    /\ \E restored \in IF run.boxed THEN BOOLEAN ELSE {TRUE},
          again \in BOOLEAN,                  \* the destructor tries once more
          digest \in {{StructureDigest}, {}},
          after \in Captured :
         /\ mode' = IF restored \/ again THEN run.previous ELSE mode
         /\ Answer(MutateReceipt(Executed(restored, digest), after))
    /\ UNCHANGED <<document, request, run, requests, userEdits>>

(* The client has the receipt. *)
Take ==
    /\ stage = "answered"
    /\ stage' = "idle"
    /\ request' = [NoRequest EXCEPT !.op = request.op, !.batch = request.batch,
                       !.expected = request.expected]
    /\ run' = NewRun
    /\ UNCHANGED <<document, mode, receipt, requests, userEdits>>

(* A request that failed and is safe to retry is sent again as it was. *)
Retry ==
    /\ receipt.op # "none" /\ ~receipt.ok /\ receipt.retrySafe
    /\ IF request.op = "MUTATE" THEN AskMutate(request.batch, request.expected)
                             ELSE AskHistory(request.expected)

BatchRest == stage = "idle" /\ requests = MaxRequest /\ UNCHANGED batchVars

BatchNext ==
    \/ UserEdits
    \/ \E b \in Batches, seen \in {{document}, {}} : AskMutate(b, seen)
    \/ AskHistory({document})
    \/ Retry
    \/ Arrive \/ StaleContent \/ History \/ BatchRefused \/ BeginBatch
    \/ CommandFails \/ MoveDocumentEnd \/ MoveDocumentEndFails \/ InsertPiece
    \/ TableCreate \/ TableCreatedUnknown \/ SetCellText \/ Find \/ TableAppendRow
    \/ FillText \/ PatchText \/ LeaveTable \/ CopyControl \/ PasteTable
    \/ RollbackControl \/ RollbackControls \/ RollbackTail \/ RollbackTailFails \/ AllDone
    \/ FinishBatch \/ Take \/ BatchRest

BatchSpec == BatchInit /\ [][BatchNext]_batchVars
----------------------------------------------------------------------------
(* The occurrences of a text in another: every match that does not reach     *)
(* into an earlier occurrence.                                               *)
Occurrences(text, expected) ==
    CHOOSE S \in SUBSET (DOMAIN text) :
        \A i \in DOMAIN text :
            i \in S <=> /\ TextMatchesAt(text, expected, i)
                       /\ \A j \in S : j < i => j + Len(expected) <= i

(* A patch changes the occurrence with its number, or the only one.          *)
Patched(state, patch) ==
    LET text == state.cells[patch.cell]
        all  == Occurrences(text, patch.expected)
        meant == {i \in all : IF patch.occurrence = 0 THEN all = {i}
                              ELSE Cardinality({j \in all : j <= i}) = patch.occurrence}
        after(i) == SubSeq(text, 1, i - 1) \o ReadBack(patch.text)
                        \o SubSeq(text, i + Len(patch.expected), Len(text))
    IN  IF meant = {} THEN [state EXCEPT !.fits = FALSE]
        ELSE [state EXCEPT !.cells[patch.cell] = after(CHOOSE i \in meant : TRUE)]

Filled(state, fill) ==
    IF \E expected \in fill.expected : ~SameParagraphText(state.cells[fill.cell], expected)
    THEN [state EXCEPT !.fits = FALSE]
    ELSE [state EXCEPT !.cells[fill.cell] = ReadBack(fill.text)]

(* What a batch does to a document when every command succeeds. *)
Apply(state, command) ==
    LET kind == command.kind
        at(piece) == IF state.caret = "tail" THEN [state EXCEPT !.tail = Append(@, piece)]
                     ELSE [state EXCEPT !.body = @ + 1]
        open == state.tail = <<>> \/ Last(state.tail) = "break"
    IN  CASE kind = "MoveDocumentEnd" ->
               [state EXCEPT !.caret = "tail",
                   !.tail = IF open THEN @ ELSE Append(@, "break")]
          [] kind = "InsertText" ->
               IF state.caret = "tail" THEN [state EXCEPT !.tail = @ \o Line]
                                       ELSE [state EXCEPT !.body = @ + Len(Line)]
          [] kind \in {"TableCreate", "PasteTable"} -> at("table")
          [] kind = "SetCellText" ->
               IF \E i \in DOMAIN state.tail : i > state.old /\ state.tail[i] = "table"
               THEN [state EXCEPT !.tail = [i \in DOMAIN @ |->
                        IF i > state.old /\ @[i] = "table" THEN "filled" ELSE @[i]]]
               ELSE Filled(state, command)
          [] kind = "TextPatch" -> Patched(state, command)
          [] kind = "TableAppendRow" -> [state EXCEPT !.cells = Append(@, <<>>)]
          [] OTHER -> state

Whole(b, d) ==
    LET s == FoldLeft(Apply, [body |-> d.body, cells |-> d.cells, tail |-> d.tail,
                                  old |-> Len(d.tail), caret |-> "body", fits |-> TRUE],
                      b.commands)
    IN  IF s.fits THEN {[d EXCEPT !.body = s.body, !.cells = s.cells, !.tail = s.tail]} ELSE {}

Origin == CHOOSE d \in request.origin : TRUE
Answered(op) == stage = "answered" /\ receipt.op = op

(* A batch with a paste outside a rollback may fail after the insertion and  *)
(* say nothing of it, and a rollback does not undo what was done to a table  *)
(* that was there before: both are left out here.                            *)
Accounted(b) ==
    IF b.atomic
    THEN \A i \in DOMAIN b.commands :
            /\ b.commands[i].kind # "TableAppendRow"
            /\ IsText(b.commands[i]) \/ b.commands[i].kind = "Cell" =>
                   \E j \in 1..(i - 1) : b.commands[j].kind = "TableCreate"
    ELSE \A i \in DOMAIN b.commands : b.commands[i].kind # "PasteTable"

(* A client that is told it may send the batch again finds the document as   *)
(* it was: whatever failed, at whichever call, the text written before it    *)
(* was recorded or taken back, the paragraph break included.                 *)
RetrySafeMeansUntouched ==
    Answered("MUTATE") /\ ~receipt.ok /\ receipt.retrySafe /\ Accounted(request.batch) =>
        request.origin = {document}

(* A batch that is answered as a success did all its commands, once, to the  *)
(* document it found: each text it expected was there, and each patch met    *)
(* the occurrence it counts off, or the only one.                            *)
SucceededIsWhole ==
    Answered("MUTATE") /\ receipt.ok => Whole(request.batch, Origin) = {document}

(* A success is never reported for a document nothing was done to, when the  *)
(* signature before it was complete.                                         *)
SucceededChanged ==
    Answered("MUTATE") /\ receipt.ok /\ request.before # {} => request.origin # {document}

(* No rollback deletes what was in the document before the append. *)
OriginalKept ==
    stage = "answered" /\ request.batch.atomic => IsPrefix(Origin.tail, document.tail)

(* The client refuses an answer that is a partial change and safe to retry;  *)
(* none is sent, and a partial change is always to be reconciled.            *)
PartialIsReconciled ==
    Answered("MUTATE") /\ receipt.partial => ~receipt.retrySafe /\ receipt.reconcile

(* A batch is answered as a success only when the messages are shown to the  *)
(* user again as before it.                                                  *)
ModeGivenBack ==
    Answered("MUTATE") /\ receipt.ok => mode = run.previous

(* A batch with the signature a client saw never runs on a document the user *)
(* has edited since.                                                         *)
StaleRefused ==
    stage = "running" /\ request.expected # {} => request.origin = request.expected

(* However often the undo of one edit is asked for again after an answer     *)
(* that failed, it is done once.                                             *)
UndoneOnce ==
    request.op = "HISTORY" => \A d \in request.expected : document.undone <= d.undone + 1

(* A batch runs on the document its client has seen, takes nothing of it     *)
(* away, and hands back the mode it changed; an undo is done once.           *)
BatchCoherent ==
  /\ BatchTypes
  /\ OriginalKept
  /\ ModeGivenBack
  /\ StaleRefused
  /\ UndoneOnce

(* A text that another command of the batch has changed behind the back of   *)
(* the preflight: one that was left out, in a table that was to grow, or one *)
(* with a line break, which Hangul reads back in another form.               *)
Unforeseen(commands, j) ==
    \E i \in 1..(j - 1) :
        /\ IsText(commands[i]) /\ commands[i].cell = commands[j].cell
        /\ \/ IsExpand(commands) /\ commands[i].kind = "SetCellText" /\ ~Guarded(commands[i])
           \/ "lf" \in ToSet(commands[i].text)

(* A batch that fills a table and is refused for a text that is not there is *)
(* refused before it has changed anything, also when its own commands change *)
(* the text.                                                                 *)
PreflightForesees ==
    LET commands == request.batch.commands
    IN  run.stale /\ (IsFill(commands) \/ IsExpand(commands)) =>
            Unforeseen(commands, run.done + 1)

(* A batch that failed says so truly: safe to retry means untouched, and a   *)
(* partial change is to be reconciled; what can be known before is refused   *)
(* before.                                                                   *)
FailuresTold == RetrySafeMeansUntouched /\ PartialIsReconciled /\ PreflightForesees

(* A batch that is answered as a success did all of its commands, and a      *)
(* change it reports is one the document has.                                *)
SuccessesTold == SucceededIsWhole /\ SucceededChanged

=============================================================================
