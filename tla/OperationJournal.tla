-------------------------- MODULE OperationJournal --------------------------
(***************************************************************************)
(* The journal of document operations: one small JSON file per pair of     *)
(* document session and request id (hwp_operation_journal.py and the       *)
(* _recovery, _store, _contract and _retention modules).                   *)
(*                                                                         *)
(* Every journal operation runs in one transaction, under a lock of the    *)
(* process and a lock on a file shared by all worker processes, so each is *)
(* one function of the entry it finds; this module has those functions,    *)
(* and OperationIdempotency the processes that call them.  A file that     *)
(* does not exist is an entry whose state is "absent", a file that a crash *)
(* left half written one whose state is "torn".                            *)
(***************************************************************************)
EXTENDS Integers, Sequences, FiniteSets

CONSTANTS
    Session,        \* document sessions (window, document id and path, hashed)
    Request,        \* operation ids chosen by the callers
    Digest,         \* payloads of the requests
    Workflow,       \* [Digest -> {"edit", "save"}]: canonical_workflow
    Path,           \* file paths of the documents
    PathOf,         \* [Session -> Path]: full_name, a part of the session key
    MaxTime,        \* bound of the clock
    MaxAttempt,     \* bound of the attempts of an entry
    StaleTimeout,   \* age of a heartbeat at which an attempt counts as stale
    TerminalTTL,    \* age at which a finished entry is removed
    MaxTerminalFiles,
    MaxTerminalBytes

ASSUME WorkflowAssumption == Workflow \in [Digest -> {"edit", "save"}]
ASSUME NonEmptyAssumption == Session # {} /\ Request # {} /\ Digest # {}
\* "any" stands for a lookup without a path.
ASSUME PathAssumption == PathOf \in [Session -> Path] /\ "any" \notin Path
\* OperationJournal.__init__ and JournalRetentionPolicy reject other values.
ASSUME LimitAssumption ==
    /\ MaxTime \in Nat
    /\ MaxAttempt \in Nat \ {0}
    /\ StaleTimeout \in Nat \ {0}
    /\ TerminalTTL \in Nat \ {0}
    /\ MaxTerminalFiles \in Nat \ {0}
    /\ MaxTerminalBytes \in Nat \ {0}

Key == Session \X Request
Attempt == 1 .. MaxAttempt
Time == 0 .. MaxTime

Active   == {"accepted", "executing"}
Settled  == {"verified", "committed"}
Stopped  == {"failed", "aborted"}
Terminal == Settled \cup Stopped

\* What a result tells the journal: the attempt whose run produced it (history:
\* the code stores no such link), whether it reports a partial mutation, declines
\* (a status such as "ambiguous" or "not_found", nothing was written), has the
\* native completion values of Save, and is proved by the file on disk.
NoResult == [run |-> 0, present |-> FALSE, partial |-> FALSE,
             declined |-> FALSE, native |-> FALSE, proved |-> FALSE]
Result == [run: 0 .. MaxAttempt, present: BOOLEAN, partial: BOOLEAN,
           declined: BOOLEAN, native: BOOLEAN, proved: BOOLEAN]

\* JournalAttemptSnapshot, of which the properties use two fields.
Snapshot == [state: Active \cup Terminal, partial: BOOLEAN]

\* JournalRecord.  named: request_id, document_session, document_path and
\* save_fingerprint_before, which begin sets and recover_record drops together.
Entry == [state: {"absent", "torn"} \cup Active \cup Terminal,
          digest: Digest, attempt: Attempt, named: BOOLEAN,
          operation: {"edit", "save", "none"},
          updated: Time, heartbeat: Time, previous: Seq(Snapshot),
          result: Result]

IsFile(entry) == entry.state # "absent"
IsRecord(entry) == entry.state \notin {"absent", "torn"}

NewRecord(d, now) ==
    [state |-> "accepted", digest |-> d, attempt |-> 1, named |-> TRUE,
     operation |-> Workflow[d], updated |-> now, heartbeat |-> now,
     previous |-> << >>, result |-> NoResult]

AbsentEntry(d) ==
    [state |-> "absent", digest |-> d, attempt |-> 1, named |-> FALSE,
     operation |-> "none", updated |-> 0, heartbeat |-> 0,
     previous |-> << >>, result |-> NoResult]

TornEntry(d) == [AbsentEntry(d) EXCEPT !.state = "torn"]

Stamped(entry, state, now) ==
    [entry EXCEPT !.state = state, !.updated = now, !.heartbeat = now]

\* Mutant: the heartbeat is declared stale one tick early.
IsStaleEarly(entry, now) == now - entry.heartbeat >= StaleTimeout - 1

IsStale(entry, now) == now - entry.heartbeat >= StaleTimeout

-----------------------------------------------------------------------------
(* recover_record: what an explicitly confirmed recovery does to an entry. *)

\* Mutant: an active attempt is archived as it stands.
ArchivedAsIs(entry) == [state |-> entry.state, partial |-> entry.result.partial]

ArchivedSnapshot(entry) ==
    [state   |-> IF entry.state \in Active THEN "aborted" ELSE entry.state,
     partial |-> entry.result.partial]

\* Mutant: the next execution is recorded under the number of the last one.
SameAttempt(entry, now) ==
    [state |-> "accepted", digest |-> entry.digest,
     attempt |-> entry.attempt, named |-> FALSE, operation |-> "none",
     updated |-> now, heartbeat |-> now,
     previous |-> Append(entry.previous, ArchivedSnapshot(entry)),
     result |-> NoResult]

\* The JournalRecord of the next attempt keeps the digest, the attempt number
\* and the archive, and nothing that names the operation.
NextAttempt(entry, now) ==
    [state |-> "accepted", digest |-> entry.digest,
     attempt |-> entry.attempt + 1, named |-> FALSE, operation |-> "none",
     updated |-> now, heartbeat |-> now,
     previous |-> Append(entry.previous, ArchivedSnapshot(entry)),
     result |-> NoResult]

Reconciled(entry, now) ==
    IF entry.state \in Active THEN Stamped(entry, "aborted", now) ELSE entry

Reexecutes(entry, recovery) == recovery = "recover" /\ ~entry.result.partial

Recovered(entry, recovery, now) ==
    IF Reexecutes(entry, recovery) THEN NextAttempt(entry, now)
                                   ELSE Reconciled(entry, now)

-----------------------------------------------------------------------------
(* begin: the decision of a call, and the entry it leaves. *)

\* A recovery is admitted for an entry that is stopped, or active and stale.
Recoverable(entry, now) ==
    \/ entry.state \in Stopped
    \/ entry.state \in Active /\ IsStale(entry, now)

BeginDecision(entry, d, recovery, now) ==
    CASE entry.state = "absent" -> "execute"
      [] entry.state = "torn" -> "error"
      [] IsRecord(entry) /\ entry.digest # d -> "conflict"
      [] entry.digest = d /\ entry.state \in Settled -> "replay"
      [] entry.digest = d /\ entry.state \in Active /\ ~IsStale(entry, now) ->
            "in_progress"
      [] entry.digest = d /\ Recoverable(entry, now) /\ recovery = "none" ->
            IF entry.state \in Active THEN "stale" ELSE entry.state
      [] entry.digest = d /\ Recoverable(entry, now) /\ recovery # "none" ->
            IF Reexecutes(entry, recovery) THEN "execute" ELSE "reconcile"

BeginEntry(entry, d, recovery, now) ==
    CASE entry.state = "absent" -> NewRecord(d, now)
      [] IsRecord(entry) /\ entry.digest = d /\ entry.state = "verified" ->
            [entry EXCEPT !.state = "committed", !.updated = now]
      [] IsRecord(entry) /\ entry.digest = d /\ Recoverable(entry, now)
                         /\ recovery # "none" ->
            Recovered(entry, recovery, now)
      [] OTHER -> entry

-----------------------------------------------------------------------------
(* The transitions of an attempt.  A guard that fails leaves the file alone; *)
(* where the code raises instead of returning, a predicate says when.       *)

MarkExecutingRaises(entry) == entry.state # "accepted"
MarkExecutingEntry(entry, now) == Stamped(entry, "executing", now)

HeartbeatEntry(entry, now) ==
    IF entry.state \in Active THEN Stamped(entry, entry.state, now) ELSE entry

MarkTerminalEntry(entry, state, result, now) ==
    IF entry.state \in Active
    THEN [Stamped(entry, state, now) EXCEPT
             !.result = IF result.present THEN result ELSE @]
    ELSE entry

\* Mutant: a second run may verify an attempt that is settled.
MarkVerifiedTolerates(entry) == entry.state \notin {"executing", "committed"}

MarkVerifiedRaises(entry) == entry.state # "executing"
MarkVerifiedEntry(entry, result, now) ==
    [entry EXCEPT !.state = "verified", !.updated = now, !.result = result]

MarkCommittedRaises(entry) == entry.state \notin Settled
MarkCommittedEntry(entry, now) ==
    IF entry.state = "verified"
    THEN [entry EXCEPT !.state = "committed", !.updated = now]
    ELSE entry

\* Mutant: the state of the entry is not checked again.
ReconcileUnchecked(entry, result, confirmed, now) ==
    [Stamped(entry, IF confirmed THEN "committed" ELSE "failed", now)
        EXCEPT !.result = result]

RecordSaveReconciliationEntry(entry, result, confirmed, now) ==
    IF entry.state = "failed"
    THEN [Stamped(entry, IF confirmed THEN "committed" ELSE "failed", now)
             EXCEPT !.result = result]
    ELSE entry

=============================================================================
