# GSG HWP: a TLA+ model

GSG HWP lets an MCP client write documents in a running Hangul (HWP) word
processor on Windows. The client talks to a *supervisor* process over stdio; the
supervisor forwards tool calls to a *worker* process, which it can restart or
hot-reload; the worker runs the tools, drives Hangul over COM on one
single-threaded *lane* per Hangul process, and reads and commands a DLL that is
loaded into Hangul itself. Everything that writes a document goes through a
*journal* of operations on disk, shared by every worker process of the user.

The interesting failures are not in any one function. A call can time out, be
cancelled or lose its worker at any point while Hangul goes on working on it; a
retry can arrive while the first run is alive, or at another worker process; the
answer can be lost after the document has changed. The journal, the supervisor,
the dispatcher and the lanes each hold a part of what makes this safe, and this
project states those parts and checks them.

Paths: `S` is `src/plugins/gsg-hwp/skills/automate-hancom-documents/scripts`,
`A` is `src/plugins/gsg-hwp/addon`.

## The system

| Component | State it keeps | Operations | Interacts with |
| --- | --- | --- | --- |
| Worker supervisor (`S/hwp_mcp_worker_*.py`, `hwp_mcp_hot_reload.py`) | request stream of capacity 1, `_restarting`, `_cycle_ready`, cycle scope, activity table, reload flags, source hash | `call_tool`, `reload`, `status`, the serve loop and its responders | stdio pipes to the worker; event loop shared with the MCP server |
| Operation journal and idempotency (`S/hwp_operation_journal*.py`, `hwp_operation_idempotency.py`) | one JSON file per (document session, operation id), under a process lock and a lock file | `begin`, `mark_executing`, `heartbeat`, `mark_*`, recovery, lookups, `prune` | every worker process of the user; called by the executor |
| Operation executor (`S/hwp_mcp_operation_executor.py`) | none of its own (leases of documents, blocked closes) | `execute`, `get_operation_status` | journal, dispatcher, live bridge |
| Thread dispatcher (`S/hwp_mcp_dispatch.py`) | thread pools, cleanup work by process, quiet period, retry times | `run`, `run_mutation`, `schedule_idle_cleanup`, `notify_public_activity`, `submit_retriable_cleanup`, `close` | operations of the executor run in its threads; cleanup calls the live bridge |
| Process lane and mutation watchdog (`S/hwp_live_process_lane.py`) | bounded queue, semaphore, `closed`, `poisoned` per Hangul process; deadlines of armed mutations | `submit`, `poison`, `shutdown`, the lane thread; `arm`, `observe`, the watchdog thread | one COM apartment per lane; native heartbeat through the status page |
| Live bridge and sessions (`S/hwp_live_bridge*.py`, `hwp_live_session*.py`) | known Hangul processes, quarantine, poisoned lanes, blocked closes, connections | `_call`, `_call_mutation`, recovery probe, poison recovery, close | lanes, watchdog, journal, caches |
| Edit history and undo checkpoints (`S/hwp_live_edit_history*.py`) | checkpoint stack per document, mirrored in an undo stack Hangul owns | begin, commit, undo, rollback | Hangul through the lane |
| Preview store (`S/hwp_live_preview_*.py`) | preview images and manifests on disk, a lock file | publish, read, retain, clean up | several workers share the directory |
| State, style and result caches, event watch (`S/hwp_live_state_cache.py`, `hwp_live_events.py`, ...) | cached document state with the token it was read under; event queue | read, invalidate, wait for change | native events, write epochs |
| Native graph cache and stream (`S/hwp_native_graph_cache.py`, `_hwp_native_graph_*.py`) | spooled document graph by generation | refresh, page through, evict | DLL, spool files |
| Custom actions (`S/hwp_custom_action_*.py`) | user macros on disk | add, bind, run, remove | live bridge |
| Native bridge DLL (`A/HancomLiveBridgeNative`) | shared status page (sequence lock, request slots, heartbeat), activation state, write epoch | publish status, run a batch, append atomically with rollback | read by Python while Hangul's thread writes |
| Native document graph (`A/.../DocumentGraph*.cpp`) | snapshots of the object model | capture, patch | Hangul |
| Event bridge, launcher, API harness (`A/Hancom*`) | child processes, COM subscriptions | start, forward, stop | Windows |
| Installer and updater (`src/plugins/gsg-hwp/scripts`) | staged release, backup, activation marker | stage, activate, restore | file system, running clients |
| Document tools, layout, import, search | none | pure translation, geometry, conversion, ranking | the executor |

What is hard here, and what makes each part correct:

- **Supervisor.** A deadline or a cancellation races the loop, a restart and
  other calls. Correct means: a caller is told "safe to retry" only of a call
  that never runs; a request reaches one worker; nobody waits for a restart that
  has ended; restarts end; a reload waits for quiescence; calls run on the code
  that is on disk.
- **Journal, idempotency, executor.** A run may die, hang or come late after it
  was declared dead, in another process; a status query, a repetition, a
  recovery and pruning work on the same file. Correct means: an attempt writes
  the document at most once; what a caller was told committed stays so and is
  replayed; the archive of attempts is complete; a save is settled by evidence.
- **Dispatcher.** Cancelling a call whose thread already started must not
  withdraw its attempt. Idle cleanup is coalesced by process, waits for a quiet
  period, retries with a back-off and must end on close.
- **Lane and watchdog.** A lane that hangs is poisoned while requests are queued,
  running or being submitted; every request must be answered, none may run
  after the poisoning, and shutdown must stop the thread. The watchdog must tell
  a slow Hangul (heartbeat moves) from a hung one.
- **Live bridge.** A process that timed out is quarantined, probed and released
  or replaced while calls for it arrive; an unsaved document must not be closed.
- **Edit history.** Our stack and Hangul's undo stack may disagree after a
  partial failure.
- **Preview store, graph cache, caches.** Readers race eviction; a cached value
  may be stale when it is used.
- **Native bridge.** The status page is read without a lock.
- **Updater.** It may be stopped between any two file operations.

## Plan, and what was done

Order of work, the behaviour that protects the user's document first:

1. *(done)* the journal: `OperationJournal`, `OperationIdempotency` and the
   abstract `OperationPromise`; proved: type correctness, the audit trail, one
   edit per attempt.
2. *(done)* `WorkerSupervisor`, `BridgeLane`.
3. *(done)* the graph store of the DLL: `GraphStore` and the abstract
   `GenerationRegister` it implements, proved; `GraphStoreMigration`, the
   conversion of older stores.
4. *(done)* what the DLL does inside Hangul: `BridgePublication`,
   `CheckpointRestore`, `ActionBatch`, `TabActivation`.
5. *(done)* the document graph between capture and client: `GraphCapture`,
   `GraphRegistry`, `GraphStream`.
6. *(done)* proofs of every safety property of the journal, the supervisor, the
   lane, the store and its conversion, the publication, the restores, the
   batches, the registry, the capture and the switching of tabs, but for two:
   what a batch that succeeded made of the document, and the stream.
7. *(left)* models: a second session of one Hangul process in `BridgeLane`, the
   runner of the idle cleanup, text patches by range or search in
   `ActionBatch`.

## Modules

| Module | Models |
| --- | --- |
| `OperationJournal` | what each transaction of the journal makes of the entry it finds |
| `OperationIdempotency` | calls in several processes: prepare, execution, commit, status queries, reconciliation, crashes, the clock and pruning |
| `OperationPromise` | abstract: one attempt at a time, one result, until forgotten |
| `OperationIdempotencyProofs` | theorems about `OperationIdempotency` |
| `WorkerSupervisor` | the supervisor process, its worker and the files it watches |
| `WorkerSupervisorProofs` | theorems about `WorkerSupervisor` |
| `BridgeLane` | the calls of the live bridge to one Hangul process, its lane and its gate |
| `BridgeLaneProofs` | theorems about `BridgeLane` |
| `GraphStore` | the generations of a captured document on disk, published by several processes |
| `GenerationRegister` | abstract: a newest generation that is taken and then reached, and never goes back |
| `GraphStoreProofs` | theorems about `GraphStore` |
| `GraphStoreMigration` | the conversion of a store written by an earlier version |
| `GraphStoreMigrationProofs` | theorems about `GraphStoreMigration` |
| `BridgePublication` | the registrations of the DLL in the running object table |
| `CheckpointRestore` | saving a checkpoint of a document and restoring it |
| `NativeBridgeProofs` | theorems about `CheckpointRestore`, `BridgePublication` and `ActionBatch` |
| `GraphCapture` | one capture of a document, from the checkpoint to the published artifact |
| `GraphRegistry` | the sessions, cursors and patch uploads the DLL keeps for its clients |
| `DocumentGraphProofs` | theorems about `GraphRegistry` and `GraphCapture` |
| `GraphStream` | the frames of one cursor and the receiver that puts them together |
| `CellText` | the texts of table cells, the commands that change one and the preflight that tries them |
| `ActionBatch` | a batch of commands on a document, its rollback and the receipt; undo |
| `TabActivation` | switching Hangul to the tab a call is about, and back |
| `TabActivationProofs` | theorems about `TabActivation` |
| `MC...` | model values and small functions for TLC |

How they fit together: `OperationIdempotency` composes the transactions of
`OperationJournal` and implements `OperationPromise`. `GraphStore` implements
`GenerationRegister`; it starts from a root that `GraphStoreMigration` has
converted. A capture (`GraphCapture`) ends in one call to `Publish` of the
store; a `GraphOpen` of the registry is one capture; a cursor of the registry is
read by the stream. `TabActivation` brings the tab to the front on which
`ActionBatch` and `CheckpointRestore` then work, and `BridgePublication` makes
the objects findable that `TabActivation` calls. Where one module stands for a
step of another, the step is the outcome the other module shows: a capture ends
with a published artifact or with nothing, an activation with the tab in front
or with a failure.

### OperationJournal and OperationIdempotency

Every operation of `OperationJournal` (Python) runs under a thread lock and a
lock on a file that all workers share, so the model makes each transaction one
function of an entry (`BeginEntry`, `MarkExecutingEntry`, `HeartbeatEntry`,
`MarkTerminalEntry`, `MarkVerifiedEntry`, `MarkCommittedEntry`,
`RecordSaveReconciliationEntry`, `Recovered`) with the conditions under which it
raises (`...Raises`). A file that does not exist is the state `absent`; a file
that a crash left half written is `torn`, which every later read refuses.

An *executor* is one call in one worker process, as it goes through
`prepare` (`Begin`, `MarkExecuting`), the thread pool (`StartMutation`,
`WithdrawMutation`), Hangul (`Operate`, `UnexpectedError`), `commit` (`Commit`,
`MarkCommitted`, `Answer`, `FinishReconcile`) and the status queries
(`GetOperationStatus`, `ImmediateStatus`, `RecordSaveReconciliation`). An action
is one transaction or one step outside; between two of them another process may
do anything, and the call may crash (`Crash`, `CrashInCreate`). Results are
reduced to what decides something: whether there is one, whether it reports a
partial change, whether Hangul's native completion and the file fingerprint
prove a save. `run`, `edits` and `acked` are history variables: the attempt a
call was granted, the number of times each attempt wrote, the attempts
acknowledged as committed.

Bounds: `MaxTime`, `MaxAttempt` (recoveries), `MaxTerminalFiles` and
`MaxTerminalBytes` (limits of retention, deliberately so small that they bite).
Time is discrete; `StaleTimeout` 2 with one tick more gives heartbeats that are
fresh, at the limit and late. The history
variable `punctual`, chosen in `Init`, says whether a live run always refreshes
its heartbeat before it can go stale; where it does not, a run may be declared
dead while it works, as happens to a suspended machine. `RunOwnsEntry` is
promised only of the punctual, everything else of both.

### WorkerSupervisor

The supervisor runs on one event loop, so an action is what happens between two
awaits. `call` holds each tool call's place in `call_tool` and its
`WorkerCallState`; `asked` each `reload()`; `loop` the place of `_serve`;
`stream` the capacity-one stream, with the item handed to a waiting receiver
(`inbox`, as anyio's memory stream does) apart from the buffered one, and the
request kept over a restart (`pending`); `sup` the supervisor's fields, with
`attached` and `woken` for the calls that hold the current `_cycle_ready` event
or one that is set; `source` the version of the watched files; `worker` the
process of the cycle and the version it imported. `executed` is history.

Actions: `CallTool`, `Proceed`, `SendQueued`, `GiveUpWaiting`, `GiveUp` are the
steps of `call_tool`; `AskReload` is `reload`; `BeginCycle`, `Opened`,
`OpenFails`, `CycleCancelled` open and end cycles; `WaitForRequest`,
`TakeRequest` (with `Handle`, one disjunct per branch of the loop),
`FinishReload`, `ReloadFails` serve requests; `Respond`, `LoseTransport`,
`CancelResponder` are a responder task; `Execute`, `CrashWorker`,
`ChangeSource` are the worker and the disk.

Abstractions: a deadline may pass at any time once the call waits; a failure is
reduced to its kind and to `retry_safe`; a source version never comes back, as
the hash identifies the content; the time a session takes to close is part of
the step that leaves the cycle. The orderly shutdown is not modelled, because
the server ends its calls first. Each call and each reload is made once, so the
model may stop (`CHECK_DEADLOCK FALSE`).

### BridgeLane

One Hangul process with one session. `call` holds each call's place in
`HancomBridge._call`, `future` the state of its future, `answer` what its caller
is told, `others` the mutations it has found and not yet cancelled. `lane` is
the `HwpProcessLane` (queue, free permits, closed, poisoned) and whether the
bridge still has it in its table; `worker` its thread and what that works on;
`tracked` the futures the bridge knows to be on the lane; `gate` the entry in
`_poison_recoveries` with the two flags that help to lift it; `session` and
`hangul` what became of the connection and of the process.

Two locks matter. A section under `_lifecycle_lock` is one action with the guard
`lock = None`; only the section that submits to the lane can wait inside, and
then `lock` names the call. `lane._lock` is held over several steps only by who
closes the lane (`guard`), a call after the exit of Hangul or the thread itself
after a disconnect, while it cancels one queued future after the other
(`CancelNext`) and runs its callback (`Release`).

A call enters (`Enter` and its variants, with the recovery of a gate that may
go), takes a permit (`Acquire`, or `QueueDeadline`, `DialogInQueue`, `SeeExit`),
submits (`Submit`, `WaitForLane`, `SubmitAfterWait`, `SubmitRefused`) and waits
(`ReturnResult`, `ReturnFailure`, `GiveUpQueued`, `GiveUpRunning`). Giving up on
a running operation sets the gate (`SetGate`), cancels the mutations behind it
and sends a probe (`CancelOthers`). The thread takes and finishes (`Take`,
`Finish`, `FinishDisconnect`, `FinishProbe`, `Untrack`) and `ConfirmSave` is the
status query that proves a save by its file.

Abstractions: a deadline (of the call, of the watchdog, or a dialog seen) may
pass at any time; the bridge observes the exit of Hangul exactly; an operation
ends well, with a failure known to have changed nothing (`resolved`), with one
that leaves the outcome open (`unresolved`) or with the loss of the process; a
recovery is one step, since its inputs only grow and the code looks again under
the lock before it lifts the gate. A call that comes after a disconnect leaves
the model, since it is no longer one of this process. Each call is made once, so
the model may stop (`CHECK_DEADLOCK FALSE`).

### GraphStore, GenerationRegister and GraphStoreMigration

`GraphStore` is `DocumentGraphStore.cpp`: several processes, one object each,
on one directory. The disk is `identity` (the file that claims the root),
`journal` and `torn` (the last whole entry of the reservations, and whether a
piece of another follows), `checkpoint` (the high-water file), `cand` (candidate
directories) and `gen` (what each generation directory holds: nothing, some
files, all of them, all with the commit marker). `mutex` is the named mutex of
the allocator. Per store there are the place in the running call (`pc`), the
serial it works on (`target`), the generation it serves (`active`) and holds
while it loads or publishes (`lease`, `lineage`), the generations its readers
pin (`pins`), what its cleanup has still to delete (`doomed`) and the directory
a capture has prepared (`prepared`). `issued`, `reissued`, `acked` and `stuck`,
what resisted the deletions of the running call, are history.

`Initialize` is `CallInitialize`, `Acquire`, `EnsureIdentity`, `Reconcile` with
`Repair` or with `StartGenesis` and `FinishGenesis`, `Scan`, `SweepCandidates`,
`Load`, `TryDelete`, `Swept`, `Install`; `Publish` is `CallPublish`, `Acquire`,
`Reconcile`, `Reserve`, `StartAppend`, `FinishAppend`, `Mark`, `BuildCopied` or
`BuildPrepared` with `ReleasePrepared`, `Promote`, `Hold`, `Commit`, `Swap`,
`Retire`, `Acknowledge`. Every file operation has an action, or for a deletion
(`TryDelete`, which may leave any of what it met) an alternative, that fails, a
process may `Crash` between any two of them (Windows gives the mutex of the dead
to the next), and `PinActive`, `Unpin`, `Prepare` and `Close` are what readers
and captures do meanwhile. The content of a generation and its validation are
one value. Bound: serials up to `MaxSerial`; the code's limit is 2^64 - 1, and
the branch that refuses at the limit is `SerialsExhausted`.

`GenerationRegister` knows the serials that were `taken` and the ones that were
`reached`: serials are taken in rising order, each before it is reached, and both sets only
grow. The store implements it with the last whole entry of the journal and the
newest committed generation, which is what a client may rely on without knowing
of mutex, journal or marker.

`GraphStoreMigration` is `CompleteLegacyMigration` and
`ResumeLegacyMigration`. Files are numbers (journal, checkpoint, one marker per
committed generation, identity), each absent, legacy or of an epoch, which is
the identifier an attempt draws. A conversion stages every file (`CreateIdentity`,
`StageFile`), writes an intent with receipts of what it found and what it staged
(`StartIntent`, `SealIntent`), replaces file by file (`Copy`, `Clear` of the
read-only flag of a marker, `Move`), the identity last (`Repair`, then the same
three), and drops intent and stage (`DropIntent`, `DropStage`). Any operation
may fail and the process may die at any of them; `MaxFaults` counts both. The
next `Initialize` resumes from the receipts (`ResumeReplaced`,
`ResumeUncovered`), begins anew, discards or refuses.

### BridgePublication

`UpdateUI`, `DoAction` and `ReleaseBridgePublication` of `Bridge.cpp`, with
`BridgeStatus.cpp`. `rot` is the running object table of Windows, with the
number of registrations of each kind under each name; `held` the cookies and
the object pointer the module keeps; `alive` the references of the objects;
`page` the two cookies on the status page. `todo` and `step` are the names and
the step of the running call: for each name the old pair is revoked
(`RevokeBatch`, `RevokeRaw`), a new one registered (`RegisterRaw`,
`RegisterBatch`), and the half pair taken back when the second half fails
(`RegisterBatchFails`). `Release` and `ReleaseFails` begin the taking down of
everything, `ReleaseRaw` goes on with it. Any call of the table may fail,
`MaxFaults` times; `Switch` is the user, or Hangul that shows no document.

### CheckpointRestore

`SAVE_DOCUMENT_FILE` and `RESTORE_DOCUMENT_FILE` of `ActionLifecycle.cpp`.
`doc` is the live document (its body, and one bit for the form a block loses),
`back` and `fwd` what Undo and Redo would show, `disk` the file of the user, `cp`
the checkpoint, `files` the recovery copies by the call that wrote them, `kept`
the copies a message has named, `moved` that Hangul's session is on the path of
a copy. `pc` and `call` are the running restore: it compares, saves a recovery
copy, tries the undo of the engine, the reopening of the file or the insertion
of the encoded block, verifies, and rolls back when it cannot verify. `res` is
the answer. Every method of Hangul may fail, may lie, and may leave the document
broken; a signature may be missing or incomplete, in which case the number of
pages decides; the user may type between any two steps (`UserEdit`); Hangul may
die (`HangulDies`). Bounds: calls, edits, the depth of undo. Safety only: a
restore is one call that Hangul answers or not.

### GraphCapture

`CaptureDocumentGraphToStore` (`OfficialApiCapability.cpp`) with
`DocumentGraphCapture.cpp` and `DocumentGraphCaptureSpool.cpp`. `doc`, `caret`
and `restorable` are the document and its selection; the capture takes a
baseline, runs its readers twice (`pass`, `payloads`), restores the selection
and compares with the baseline after each pass, detaches what the first pass
read to a `worker` thread that builds the artifact while the second pass reads,
replays and compares the two artifacts, publishes one, and cleans up (`spools`,
`prepared`, `owned`, `spoolRoot`, `session`). A reader reads one value of the
document, the one at its own moment; the user may edit between any two steps,
`MaxEdits` times. Any step may fail, the worker ends when it likes, and a client
may ask for cancellation (`cancel`, `observed`). Fairness: the capture goes on
and its thread ends.

### GraphRegistry and GraphStream

`GraphRegistry` is the state `DocumentGraphProtocol.cpp` keeps for its clients:
`caps` (capability sessions), `cursors`, `uploads`, the directory of the process
(`dir`) with the graphs (`roots`) and the uploaded patches (`files`), `opening`
for the `GraphOpen` whose capture runs outside the lock, `owners` for the
automation objects of each document. A handler runs under the lock of the
registry, so it is one action, with `GraphOpen` cut where the capture runs:
meanwhile the object of a client may be released, the version change or another
handler run. Writes of a chunk may be torn and sent again, replies lost, the
process may die (`StartupCleanup` clears what it left). Bounds: owners, versions,
requests of an upload, faults. Documents, sessions and cursors are symmetric, and
the run has no liveness property.

`GraphStream` is `GraphNext` with its fragments, frames and terminal, `BlobRead`
and `BlobPack`, and the receiver of the repository, `AcceptGraphResponseFrame`.
The stream is a sequence of tokens, a digest of a prefix is that prefix, `cursor`
is the place of the sender and `client` what the receiver has put together. A
call is asked for with a frame size, packed, encoded, answered and taken
(`call`), and the answer may be lost, the encoding fail, also that of the terminal frame, which is counted all the
same, or a frame come twice.
Sizes keep the numbers of the source (headers of 56 and 24 bytes), so that the
instance has frames without room for a fragment, with one and with several.

### ActionBatch

`MUTATE` and `HISTORY` of the HLB1 protocol: `ProtocolBundle.cpp`,
`ActionExecutor.cpp` (`Execute`), `ActionDispatch.cpp`, `ActionTable.cpp`,
`ActionTextPatch.cpp` and the parts of `ActionLifecycle.cpp` they call. `document` is
a body, the cells of a table and a tail of pieces, `mode` the message box mode of
Hangul, `request` the request and the signatures it was compared with, `run` the
result that `Execute` builds up and the positions it keeps, among them the place
of the table created last (`run.table`), `receipt` the answer. A client asks
(`AskMutate`, `AskHistory`), or repeats a request whose receipt allows it
(`Retry`); the request is compared with the document (`Arrive`, `StaleContent`),
refused by its validation (`BatchRefused`) or begun (`BeginBatch`); each command
is an action with every point at which it may fail. A failed append is rolled
back: the controls it created are deleted one by one, and one that cannot be
deleted does not stop the others (`RollbackControl`, `RollbackControls`), then
the tail (`RollbackTail`). `FinishBatch` makes the receipt. Any call of Hangul
may fail, any signature and any digest may be missing.

A command is what the parser lets pass (`Commands`): the text a patch expects is
never empty. Eight batches of the instance are the ones the code distinguishes
without looking at texts: empty of effect, appending with and without rollback,
creating, filling and leaving a table, pasting once and twice, and changing the
body.

Eight more replace and patch texts in the cells of a table, with rows appended
to it or not. `CellText` has the search for an occurrence, what a command
expects in a cell and what it writes there, and the preflight
(`PreflightTableTextCommands`): a batch that does nothing but fill one table is
tried on copies of the cells (`Shadowed`), so that it is refused before
anything is changed when one of its texts does not fit. The same texts are then
met again by the commands (`ChangeCell`), one after the other, in the document.
`Patched` and `Filled`, from which `SucceededIsWhole` says what a batch should
have done, are defined apart from them, by the set of occurrences. The user may
write in the table between two requests; a batch may carry the signature its
client saw, or none.

### TabActivation

`BeginActivation`, `RunActivation` and `FinishActivation` of
`BatchAutomation.cpp`, and the Python callers `activate_candidate` and
`restore_active_document` (`hwp_live_rot.py`) and `activate_native_document`
(`hwp_live_native_batch.py`). `active` is the tab in front, `object` the members
of each automation object (its state, the pending document and token, its
references), `thread` the thread of each activation with what it was given,
`signalled` the two events of each token, `client` the call: it begins an
activation, waits for an event with a timeout, falls back to the native call,
verifies, works, and switches back. A call keeps the tab it is to restore
(`restore`); it loses it when it validates anew with its own tab in front
(`ValidateAgain`, `_validate` of `hwp_live_session_core.py`) and when
`restore_activation` fails at its books before it restores (`NotGivenBack`).
Faults, up to `MaxFaults`, are failed threads, calls, reads and validations,
deaths of a worker, the revocation of an object and a switch by the user;
`disturbed` records that the promise about the tab in front is void. A call that
is repeated while Hangul is busy is another call. Fairness: calls and threads go
on.

## What the runs show

A property of a run is a conjunction of named parts, each with its own comment
in the module, where it also says what it leaves out. `TypeOK` is one part of an
invariant of every run.

| Run | Instance | Shows |
| --- | --- | --- |
| `journal_calls` | 2 calls in 2 processes on one operation id, an edit or a save; 3 ticks, one recovery, room for 1 settled entry | `EntriesAccounted`: one write per attempt (`OncePerAttempt`), a complete archive (`AuditTrail`). `RepliesAreTrue`: what was told committed stays so (`AckDurable`), what is settled happened or says that it declined (`SettledWasApplied`), a save is proved by its file (`SaveProvedByFile`), status knows it (`StatusKnowsCommitted`). `RunOwnsEntry`. `PromiseKept`: the journal implements `OperationPromise`. `EveryCallEnds` |
| `supervisor_calls` | a call that writes, `hwp_disconnect`, a reload, 1 change of the sources | `WaitersServed`: nobody waits for a cycle that has ended (`NoOrphanedWaiter`, `OpenMeansServed`). `RetrySafe`. `CyclesAreOrderly`: `StartedOnce`, `ReloadAwaitsQuiescence`, `LostCycleTakesNoCall`, `RunsCurrentSource`, `ReloadNotForgotten`. `RestartsEnd` |
| `lane_calls` | a save, a read, a disconnect; 2 permits | `LaneAccounted`: `PermitsConserved`, `NoStrandedFuture`. `OutcomesTold`: `RetrySafe`, `UnknownOutcomeGates`. `ReadbackLiftsGate`. `CallsEndInSession` |
| `store_crashes` | 2 processes, 2 serials | `GenerationsSafe`: `SerialNeverReused`, `AckedSurvives`, `LeasedIntact`, `Reopenable`. `OpensWell`: `OpensNewest`, `CleanAfterOpen`, `SweepSpares`. `RegisterSpec`: the store implements `GenerationRegister`. `CallsReturn` |
| `migration_faults` | 3 generations, 5 faults | `AlwaysRecoverable`: the root is legacy, resumable or converted (`NothingLost`), and leaves no temporary file (`NoResidue`). `FilesStay`: `EvidenceStays`, `OneLineage`. `Converts` |
| `bridge_publication` | 2 windows, 2 documents, 2 faults | `RegistrationsOwned`: `Tracked`, `ObjectsOwned`, `PageNotAhead`. `TakesDownItsOwn`: `OthersStay`, `ReleaseTakesAll`. `PublishedAgain` |
| `checkpoint_restore` | 2 restores, 3 edits, undo of depth 1, 3 bodies of which two have as many pages | `CopiesAccounted`: a way back is on disk (`WayBack`, `NoLitter`, `FileFollowsDocument`). `AnswersAreTrue`: `UntouchedUnlessPartial`, `RestoredIsCheckpoint`, `EditsAreSeen`, `StepPutBack`. `CopiesStay` |
| `graph_stream` | 2 records, 3 frame sizes, 2 faults | `StreamAgrees`: `ReceivedIsPrefix`, `TerminalIsWhole`, `AnswersAreAccepted`, `FramesFit`, `StrandedByLossOnly`, `PackAgreed`. `StreamEnds` |
| `graph_registry` | 2 documents, 2 sessions, 2 cursors, 1 patch of 2 bytes, 1 fault | `RegistryCoherent`: `NothingOutlivesItsOwner`, `CursorHasItsSession`, `IdleIsEmpty`, `SealedIsDeclared`. `GraphsShared`: `StorageLive`, `SharedGraphAgrees`. `ValidatedStays` |
| `graph_capture` | 2 contents, 2 readers, 4 edits | `CaptureTidy`: `CaretGivenBack`, `WorkerOutlived`, `NothingLeftBehind`, `CancelledTouchesNothing`. `GraphIsSound`: `TornTakesFour`, `PublishedIsComplete`, `PublishedIsProved`. `CaptureEnds` |
| `action_batch` | 2 requests of 16 batches or undo, 2 tables, 1 edit of the user | `BatchCoherent`: `OriginalKept`, `ModeGivenBack`, `StaleRefused`, `UndoneOnce`. `FailuresTold`: `RetrySafeMeansUntouched`, `PartialIsReconciled`, `PreflightForesees`. `SuccessesTold`: `SucceededIsWhole`, `SucceededChanged` |
| `tab_races` | 2 calls, 2 documents, 2 objects, 1 fault | `ActivationCoherent`: `WorkerOutlived`, `TokenIsForGoal`. `TabsRespected`: `WorksOnTarget`, `TabGivenBack`. `AllEnds`: `ActivationEnds`, `CallsEnd` |

**Bounds.** The races of the journal are between a run that was given up and the
one that took its place, so two calls are enough; retention needs one file more
than its limit, recovery a second attempt. In the supervisor one call running
and one in the stream, kept or waiting, are the pairs the code distinguishes,
and the code compares source hashes only for equality. On the lane two permits
let one operation run, one wait behind it and one wait for a permit; the order
of the locks needs one call that closes and one that submits. The store needs
two processes, one that dies or holds a lease and one that comes after it; the
second serial is needed to retire the first. Five faults let a conversion fail
at one file, fail again while it resumes, and die while it drops its intent.
Two windows and two documents are one that is published and one that must be
left alone. Two bodies of equal length show where a page count decides. Four
edits are what it takes to fool two passes; with three the capture is shown to
be sound. The sixteen batches are described above; two requests are one and
its repetition. The two tables have a text with overlapping matches, one whose
matches lie apart, a cell with one match and an empty cell. One activation can disturb one other, and needs an object to share
with it.

**Fairness.** `OperationIdempotency!FairSpec` has weak fairness of the steps a
call takes by itself: thread pools and event loop run what is ready and Hangul
answers (a hung Hangul is the watchdog's business). Crashes, cancellations,
recoveries and pruning are never owed. `WorkerSupervisor!FairSpec` has weak
fairness of what the serve loop does by itself (`ServeAlone`), of a call that may
go on, of deadlines, which are timers, and of a cancelled responder. A worker
owes no answer, to a call, at its start (`Opened`) or to a reload
(`FinishReload`), for which the loop has no deadline; `RestartsEnd` lets a
restart wait for one of the last two, and for nothing else. A client owes no
action. `BridgeLane!FairSpec` has weak fairness of every call, whose waits all
have a deadline, and of what the thread of the lane does by itself; an operation
inside Hangul may hang forever. `GraphStore!Spec` has weak fairness of file
operations and strong fairness of the mutex, which Windows hands to its waiters
in turn, also after the death of a holder. `GraphStoreMigration!Spec` says that
a caller who was refused calls again and a call that runs goes on.
`PublicationSpec` has strong fairness of `UpdateUI`, which Hangul calls
from its idle loop. `GraphStream!Spec` says that the caller asks for frames of
the largest size and takes replies that arrive; nothing is owed of other sizes
or of faults. `CaptureSpec` and `TabActivation!FairSpec` have weak
fairness of the code's own threads. `CheckpointRestore`, `GraphRegistry` and
`ActionBatch` state safety only: their handlers run in one call or wait for a
client who may never come.

**Deadlock** is checked, except in `supervisor_calls` and `lane_calls`, where
each call is made once and everything may be done.

**Mutants.** `PROJECT.json` names for every part of every property a plausible
bug (a dropped guard, a swapped order, a missing reset), defined in the module
before the definition it changes and commented `Mutant:`. Under each the run
reports the property violated.

## Seen while modelling

What the code does in corners where a property would not hold, or holds only
with the exception its comment names. None of it contradicts a statement of the
repository, so none is a run that expects a violation.

- `recover_record` drops operation, path and baseline fingerprint: a recovered
  save is committed on the native verdict alone, and a status query by request
  does not find it. `SaveProvedByFile` and `StatusKnowsCommitted` are promised
  of operations that were not recovered.
- `mark_verified` compares neither the payload nor the attempt. A run that comes
  back after its own entry was declared dead and pruned, and after its operation
  id was used anew, settles the new entry (`SaveProvedByFile` leaves it out).
- An operation that declines (an ambiguous target, or none) says that it is safe
  to retry, and is committed: the same operation id replays its answer and tries
  nothing (`SettledWasApplied` names it).
- A restart waits without a deadline for the new worker's answers to
  `initialize`, `list_tools` and `hwp_runtime_info`, and for the answer to a
  reload (`RestartsEnd` names both).
- A reload that is being answered in the serve loop is forgotten when the cycle
  is isolated (`ReloadNotForgotten` names it). The reloaded flag travels with
  the next request and is lost with it.
- After the exit of Hangul, closing a lane holds its lock while callbacks take
  the lifecycle lock, and submitting takes them in the other order: two calls
  wait for each other. `CallsEndInSession` promises an end while the session
  lasts.
- The gate counts the failure of any future it finds on the lane as an open
  outcome, also that of a read, and only the end of the session lifts it
  (`ReadbackLiftsGate` leaves it out).
- The intent of a conversion that outlives the switch of the identity, by a
  failed deletion or a crash, keeps the root from ever opening (`DeadEnd`).
- A generation whose deletion is refused stays: `TryDeleteGeneration` answers
  nothing, and `Initialize` and `Publish` succeed over it (`CleanAfterOpen`
  leaves it out).
- When the file of the user is restored while the recovery copy is a block, the
  rollback has nothing to put back into the file (`FileFollowsDocument` leaves
  it out).
- A lost reply to `GraphNext` strands the stream: the sender has moved on and
  refuses the same request. A terminal frame that could not be encoded does the
  same, since the sender moves on without looking whether it has a frame
  (`StrandedByLossOnly`, `StreamEnds`).
- `FinishActivation` frees the object before it chooses the event to set, so the
  thread of one activation may set the event of the next; the caller's own look
  at the tab in front catches it.
- `restore_activation` forgets the tab it is to restore and then reads a snapshot,
  or the count of pages, for its books: when that fails the tab is never given
  back. A second validation in one call, when the first is not confirmed but its
  tab is in front, overwrites the tab to restore with none (`TabGivenBack` leaves
  both out).
- The rollback of a batch of text patches in Python takes `partial_mutation`,
  which the bridge sums over a batch, for that of the command that failed, and
  may begin with the inverse of a patch that was never made.
- The preflight of a batch that fills a table that is still to grow skips a
  `SET_CELL` without an expected text and does not note its new text, so that a
  later patch of the same cell is judged on the old one and fails after the
  batch has begun (`Unforeseen`).
- The preflight keeps the text as the client sent it, while Hangul reads a line
  break back as CR LF: a patch that expects what an earlier command of the same
  batch wrote fits the copy and not the cell (`Unforeseen`).
- A paste outside a rollback that fails after the block was inserted is not
  recorded as a change, and the batch is called safe to retry (`Accounted`
  leaves it out).

`hazards` in `PROJECT.json` lists the hazards of the code at their lines, with the
properties that cover them or the reason why none does.

## What is proved

Every safety property of the twelve runs but two, and the two refinements, for
every value of the constants that satisfies the named assumptions, by TLAPS. The assumptions say
what values the code can have: limits that are numbers and, where a constructor
rejects zero, not zero; sets of calls that do not overlap; model values that
stand for "none" or "any" and are not elements of the sets they are added to. No
theorem uses fairness.

A proof takes each function or helper by itself, then each action, so that a
change of one action invalidates few steps; *frame* lemmas dispose of the calls,
stores or files an action does not touch.

**`OperationIdempotencyProofs`**, for any numbers of sessions, requests, payloads
and calls:

- `TypeCorrect`: `Spec => []TypeOK`. The only step that is not plain typing is
  recovery, which appends to the archive and so needs the archive's length.
- `AuditTrailKept`: `Spec => []AuditTrail`. Inductive together with `TypeOK`:
  only `Recovered` extends the archive and the attempt number, in one step, and
  only from a stopped or given-up entry that has no partial result.
- `OncePerAttemptHolds`: `Spec => []OncePerAttempt`. `OncePerAttempt` alone is
  not inductive, since a step that edits needs to know that its attempt has not
  edited before. `RunAccounting` says so: the attempt a live call holds is held
  by no other call of the entry, is not above the recorded one, and has no edit
  until the operation returns. With the two before it gives `AllAccounted`, the
  invariant `EntriesAccounted` of `journal_calls`.
- `RepliesTrue`: `Spec => []RepliesAreTrue`, and `KeepsPromise`:
  `Spec => PromiseKept`, the refinement of `OperationPromise`. Both rest on
  `Truth`: a settled entry stands for a run that wrote or declined (`EntryTrue`),
  and what a call has in hand was made by the run it claims, from the return of
  the operation through verification to the answer (`CallTrue`). So
  `mark_verified`, however late it comes, settles an entry with the result of a
  run that wrote, or of one that declined. That the latter has not written, and
  never will, is `Silence`, an invariant beside it.
- `RunOwnsEntryHolds`: `Spec => []RunOwnsEntry`. `Owners`: while heartbeats are
  punctual the heartbeat of an entry whose run is alive is younger than
  `StaleTimeout`, so that no recovery takes the entry from it.

**`WorkerSupervisorProofs`**, for any sets of calls and reloads:
`WaitersServedHolds`, `RetrySafeHolds` and `CyclesOrderly`. To the properties the
invariant adds where a call may be (`CallSound`: what is in the stream and not
cancelled has not started and is told nothing; it is in one place of the stream)
and what the slots of the loop imply (`Slots`: a request is kept over a restart
only when the restart is a reload). `Wakes` and `SameCycle` sum up what a step
may do to the waiters.

**`BridgeLaneProofs`**, for any sets of calls and any queue limit:
`LaneAccountedHolds`, `OutcomesToldHolds` and `ReadbackLifts`. Permits are
conserved because the calls that hold one are counted (`Permits`): from the
acquisition until the future has ended. `Staged` relates the place of a call to
its future, `WorkerHolds` and `QueueSound` say what the thread works on and that
nothing queued is ever outside the queue or behind `Stop`, `Tracks` that the bridge
knows every future that has not ended, and `Gated` that a running mutation of
unknown outcome is one of those its gate waits for.

**`GraphStoreProofs`**, for any number of stores and any largest serial:

- `TypeCorrect`, `SerialsUnique`, `PublicationsSurvive`, `LeasesHold`,
  `AlwaysReopenable` and, together, `GenerationsAreSafe`:
  `Spec => []GenerationsSafe`, the invariant of `store_crashes`.
- `OpensWellHolds`: `Spec => OpensWell`.
- `ImplementsRegister`: `Spec => RegisterSpec`; every step maps to one step of
  the register or to a stutter, fairness not being part of the register.

Their inductive invariant `IInv` has three parts besides the types and the two
history properties. `Covered` says of the directory that the checkpoint is not
ahead of the journal and that every serial ever issued or found on disk is at or
below the last whole entry, which is why a torn tail that is cut off loses no
serial in use. `Local(s)` says of each store what its step implies: it owns the
mutex exactly inside the critical section (`Owner`), the serial it works on is
the newest and not yet issued (`Allotted`), what it and its readers hold is
committed (`Held`), what it has loaded is not older than what was acknowledged
(`Loaded`), and a committed generation is on its list of deletions only while
there is a newer one (`Spared`), without which `AckedSurvives` is not inductive.
That an opened store finds no generation without its marker but for those it
could not delete (`CleanAfterOpen`) needs one thing more, `Clearing`: from the
moment `Initialize` has listed the directory nothing without a marker is outside
its list, but for what resisted (`stuck`), because whoever could make such a
generation has to hold the mutex (`ListsAreComplete`).

**`GraphStoreMigrationProofs`**, for any number of generations and faults:
`AlwaysRecoverableHolds` and `FilesStayHolds`. The invariant is a disjunction, the
six lives a root can be in: without authority (`Unclaimed`), incoherent
(`Evidence`), legacy as it was (`Intact`), being converted, converted (`Done`),
created (`Born`). A root that is being converted is `After(n)` for some number n
of replaced files, which is the whole argument: whatever fails, the intent knows
both sides of every file.

**`DocumentGraphProofs`**. Of `GraphRegistry`, for any numbers of documents, sessions, cursors and
uploads and any patch: `RegistryCoherentHolds`, `GraphsSharedHolds`,
`ValidatedStaysHolds`. Besides the two invariants the proof needs that the
capture that is under way has an owner and, unless it was orphaned, its session,
and that no cursor reads its directory yet (`OpeningSound`), and that an upload
has as many bytes on disk as it has accepted (`UploadsSound`).

Of `GraphCapture`, for any numbers of readers (at least one) and edits:
`CaptureTidyHolds` and `GraphIsSoundHolds`. `CaptureInv` says which spools,
artifacts, thread and session there are at each step (`PassesInOrder`,
`CancelledEarly`), what a capture that is over has left (`Over`), and which step
or status accounts for a caret that is not the user's (`CaretTracked`).
`TornTakesFour` is about edits between the readings of two passes, which no
variable records. `EditsCounted` counts them instead: a document that differs
from the baseline has been edited, a pass that read something else too, and to
find the baseline again when it compares it takes a second edit. Two passes that
read the same torn content have cost two edits each.

**`NativeBridgeProofs`**. Of `CheckpointRestore`, for any bodies, numbers of restores and edits and
depth of the history: `CopiesAccountedHolds`, `AnswersAreTrueHolds`,
`CopiesStayHolds`. The invariant follows the evidence through a restore: what is
copied and signed was found live (`Captured`), a restored checkpoint had a whole
signature (`CheckpointSound`), the way of replacing the document fits what the
copy is (`Routed`), what Redo would put back was live (`Engine`), and so was what
the file of the user holds (`FileKnown`).

Of `BridgePublication`, for any finite sets of windows and documents (Windows
has no more handles than that) and any number of failures:
`RegistrationsOwnedHolds` and `TakesDownItsOwnHolds`. `Tracked` and
`ObjectsOwned` are not inductive, since a registration overwrites its entry: it
needs that a name is registered only when nothing of it is held (`CallInOrder`),
which rests on a publication that stops at its first failure. In `BooksKept` an
object may outlive both its cookies only between the two halves of its own
revocation. `OwnTargets` says that a publication works on the names of what was
shown when it began. For the count of `ReleaseTakesAll` the invariant follows
`LeftBehind`, what a release has gone past and not taken down: it begins empty,
because every name with a cookie is on the list of the release
(`HeldSequenced`), and each step adds at most the one pair for which a call has
just failed (`OneMoreLeft`).

Of `ActionBatch`, for any batches the parser lets pass, any tables and any number
of requests and edits: `BatchesAreCoherent`, `FailuresAreTold` and the
half of `SuccessesTold` that does not compute texts, `SuccessIsAChange`. The
invariant, `BatchInductive`, has one part for each stretch of a request. While
commands run (`RunningSound`), an append has found the end of the document before
anything else, so that all a rollback deletes lies behind it (`Opened`), and a
batch that has recorded nothing has changed nothing (`Recorded`); a rollback that
was not complete says so, and one that was has left the document it met
(`EndingSound`); the receipt is made from these (`AnswerSound`). That a text is
refused before anything is changed needs `Foreseen`: after each command the
copies of the preflight and the cells of the document hold the same texts,
except in cells it is blind to. It compares two computations of the same command
(`Shadows` and `ChangeCell`) and asks of what either computes only that a match
lies in the text (`MatchesInText`). For that and for the sequence of copies the
recursive functions `Matches` and `Shadows` have to be shown to exist, by
well-founded induction over sets of numbers (`WFMin` of the library, which takes
no operator as a parameter). `BatchAssumption` is the only assumption.

**`TabActivationProofs`**, for any calls, documents, objects and faults:
`ActivationCoherentHolds` and `TabsRespectedHolds`. The references of an object
are its place in the table, its threads and the proxies of its callers
(`Counted`); a pending object has exactly one thread that will decide it
(`ObjectSound`, `ThreadSound`); a token that nothing knows has no events set
(`Quiet`), so that a number that is used again starts clean, and there is
always one left (`TokensSuffice`). For as long as nothing has disturbed the calls
(`Undisturbed`), one call runs at a time and waits for every thread there is, and
the tab it came from is Home: this is what makes a failed activation harmless. A
call that loses the tab it is to restore is itself a disturbance.

**Only model-checked.** Two safety invariants: `StreamAgrees` of `GraphStream`,
whose frames are a recursive function and whose receiver folds over them, and of
`ActionBatch` that a success is all of its commands (`SucceededIsWhole` in
`SuccessesTold`), where `Whole` folds over the batch. Both are induction over
data.
Liveness under fairness (`EveryCallEnds`,
`RestartsEnd`, `CallsEndInSession`, `CallsReturn`, `Converts`, `PublishedAgain`,
`StreamEnds`, `CaptureEnds`, `AllEnds`) is out of the prover's reach and stays with
TLC.

## Not modelled

The components listed as `not_modelled` in `PROJECT.json`, each with its
reason. Of the modelled parts:

- Texts, argument validation, the shape of answers; wire formats and their
  parsers, on both sides. A digest stands for what it is computed from, a
  signature for the document, or for nothing when it is incomplete.
- Hangul itself, which is not in the repository: a call of its object model is
  one step with the outcomes its caller tells apart.
- The file system below the journal and the store: rename and replace are
  atomic, as the code assumes; a create or an append may be torn.
- A second Hangul process that shares `%TEMP%`, and a second capture at the same
  time, which `gCaptureLane` excludes.
- In batches: text patches by range or search, merges, captions, pictures, reference layouts, and
  the restoring of a file inside a batch. Their points of failure are of the
  kinds modelled; their content is not decided by anything a run could tell
  apart.
- The quiet period and the back-off of the idle cleanup, and the comparison of
  heartbeats by the watchdog: timers, which here may pass at any time.

By lines most of the repository is outside: smoke tests that drive the DLL
(some 45,000 lines), readers and writers of Hangul's object model, codecs of
records and frames, geometry, image comparison, document conversion and
tables of the API. These keep no state between two calls and nothing in them
runs concurrently, so that a model would repeat them line by line and a run
would show what a unit test shows. The model covers the code that keeps state,
orders writes, holds locks, retries and recovers.
