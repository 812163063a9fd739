------------------------ MODULE OperationIdempotency ------------------------
(***************************************************************************)
(* The calls that write documents, as they go through the journal:         *)
(* OperationIdempotency.prepare, execution, commit and                     *)
(* status_without_connection (hwp_operation_idempotency.py) under          *)
(* HwpMcpOperationExecutor.execute and get_operation_status                *)
(* (hwp_mcp_operation_executor.py), with the dispatcher's run_mutation and *)
(* the pruning of the journal beside them.                                 *)
(*                                                                         *)
(* An executor is one call in one worker process.  Each action is one      *)
(* transaction on the journal or one step outside it, since nothing else   *)
(* orders calls of different processes: a call may crash or lose its place *)
(* between any two of its steps.                                           *)
(***************************************************************************)
EXTENDS OperationJournal

CONSTANT Executor   \* calls in flight at once, over all worker processes

VARIABLES
    now,        \* the clock
    punctual,   \* history: live runs are never so slow or so unlucky that their
                \* heartbeat goes stale (no suspended machine, no dead
                \* heartbeat thread)
    journal,    \* [Key -> Entry]
    pc,         \* where each call is
    ticket,     \* OperationTicket of each call
    outcome,    \* what the operation, or the status lookup, of a call found
    run,        \* history: the attempt a call was granted, 0 for none, or for
                \* one whose entry was removed since
    edits,      \* history: how often each attempt of an entry wrote the document
    acked       \* history: the attempts whose caller was told "committed"

vars == <<now, punctual, journal, pc, ticket, outcome, run, edits, acked>>
history == <<run, edits, acked>>

Steps == {"idle", "granted", "queued", "running", "returned", "verified",
          "answering", "resolving", "reconciling"}

\* The steps between the grant of an attempt and the return of its operation.
Executing == {"granted", "queued", "running"}

\* The steps during which the heartbeat thread of execution() runs.
Beating == {"queued", "running", "returned", "verified", "answering"}

Ticket == [key: Key, digest: Digest, operation: {"edit", "save", "none"},
           named: BOOLEAN]

\* What Hangul reports, after enforce_operation_verification: executed and read
\* back, executed without evidence, executed with a readback that disagrees, a
\* partial change, a failure that wrote nothing, an edit that was not made
\* because its target is ambiguous or not there, which is no failure, and no
\* answer at all.
Reports == {"verified", "unproved", "refuted", "partial", "unapplied", "declined",
            "lost"}

\* ok: the caller is told the operation is committed.
Outcome == [report: Reports, ok: BOOLEAN, result: Result]

NoTicket == [key |-> CHOOSE k \in Key : TRUE, digest |-> CHOOSE d \in Digest : TRUE,
             operation |-> "none", named |-> FALSE]
NoOutcome == [report |-> "lost", ok |-> FALSE, result |-> NoResult]

Init ==
    /\ now = 0
    /\ punctual \in BOOLEAN
    /\ journal = [k \in Key |-> AbsentEntry(CHOOSE d \in Digest : TRUE)]
    /\ pc = [e \in Executor |-> "idle"]
    /\ ticket = [e \in Executor |-> NoTicket]
    /\ outcome = [e \in Executor |-> NoOutcome]
    /\ run = [e \in Executor |-> 0]
    /\ edits = [k \in Key |-> [a \in Attempt |-> 0]]
    /\ acked = [k \in Key |-> {}]

EntryOf(e) == journal[ticket[e].key]
Put(k, entry) == journal' = [journal EXCEPT ![k] = entry]

\* The call ends, with an answer or an exception.
Leave(e) ==
    /\ pc' = [pc EXCEPT ![e] = "idle"]
    /\ ticket' = [ticket EXCEPT ![e] = NoTicket]
    /\ outcome' = [outcome EXCEPT ![e] = NoOutcome]
    /\ run' = [run EXCEPT ![e] = 0]

Goto(e, step) == pc' = [pc EXCEPT ![e] = step]

-----------------------------------------------------------------------------
(* prepare                                                                 *)

\* begin decides.  Only "execute" and "reconcile" let the call go on; every
\* other decision, and the exception a torn file raises, is answered at once.
Begin(e, k, d, recovery) ==
    LET entry == journal[k]
        decision == BeginDecision(entry, d, recovery, now)
        begun == BeginEntry(entry, d, recovery, now)
    IN  /\ pc[e] = "idle"
        /\ begun.attempt \in Attempt        \* MaxAttempt bounds recoveries
        /\ Put(k, begun)
        /\ IF decision \in {"execute", "reconcile"}
           THEN /\ Goto(e, IF decision = "execute" THEN "granted"
                                                   ELSE "resolving")
                /\ ticket' = [ticket EXCEPT ![e] =
                     [key |-> k, digest |-> d, operation |-> begun.operation,
                      named |-> begun.named]]
                /\ run' = [run EXCEPT ![e] =
                     IF decision = "execute" THEN begun.attempt ELSE 0]
           ELSE UNCHANGED <<pc, ticket, run>>
        /\ UNCHANGED <<now, punctual, outcome, edits, acked>>

\* The worker dies while it writes the new file: "x" mode created it already.
CrashInCreate(k) ==
    /\ journal[k].state = "absent"
    /\ Put(k, TornEntry(journal[k].digest))
    /\ UNCHANGED <<now, punctual, pc, ticket, outcome, run, edits, acked>>

\* mark_executing, a transaction of its own; it raises out of prepare.
MarkExecuting(e) ==
    /\ pc[e] = "granted"
    /\ IF MarkExecutingRaises(EntryOf(e))
       THEN Leave(e) /\ UNCHANGED journal
       ELSE /\ Put(ticket[e].key, MarkExecutingEntry(EntryOf(e), now))
            /\ Goto(e, "queued")
            /\ UNCHANGED <<ticket, outcome, run>>
    /\ UNCHANGED <<now, punctual, edits, acked>>

-----------------------------------------------------------------------------
(* execution and run_mutation                                              *)

\* The heartbeat thread, every heartbeat_interval_seconds.  It dies with an
\* exception when its file is gone, which changes nothing here.
Heartbeat(e) ==
    /\ pc[e] \in Beating
    /\ IsRecord(EntryOf(e))
    /\ Put(ticket[e].key, HeartbeatEntry(EntryOf(e), now))
    /\ UNCHANGED <<now, punctual, pc, ticket, outcome, history>>

\* mark_aborted or mark_failed without a result, then the exception goes on:
\* the client cancels a mutation that no thread has started, or the dispatcher
\* is closed.  A mutation that has started is waited for instead.
WithdrawMutation(e, state) ==
    /\ pc[e] = "queued"
    /\ IF IsRecord(EntryOf(e))
       THEN Put(ticket[e].key, MarkTerminalEntry(EntryOf(e), state, NoResult, now))
       ELSE UNCHANGED journal
    /\ Leave(e)
    /\ UNCHANGED <<now, punctual, edits, acked>>

StartMutation(e) ==
    /\ pc[e] = "queued"
    /\ Goto(e, "running")
    /\ UNCHANGED <<now, punctual, journal, ticket, outcome, history>>

Edited(e, applies) ==
    IF applies /\ run[e] # 0
    THEN [edits EXCEPT ![ticket[e].key][run[e]] = @ + 1]
    ELSE edits

\* Mutant: an operation that was tried once more, with its target read anew, and
\* has written is reported by its first answer.
OperateRetried(e, report, applies) ==
    /\ pc[e] = "running"
    /\ report \in {"verified", "unproved", "refuted", "partial"} => applies
    /\ report = "unapplied" => ~applies
    /\ report \in {"unproved", "declined"} => Workflow[ticket[e].digest] = "edit"
    /\ outcome' = [outcome EXCEPT ![e] =
         [report |-> report, ok |-> FALSE,
          result |-> [run |-> run[e], present |-> TRUE,
                      partial |-> report = "partial",
                      declined |-> report = "declined",
                      native |-> /\ Workflow[ticket[e].digest] = "save"
                                 /\ report \in {"verified", "refuted"},
                      proved |-> FALSE]]]
    /\ edits' = Edited(e, applies)
    /\ Goto(e, "returned")
    /\ UNCHANGED <<now, punctual, journal, ticket, run, acked>>

\* The native operation returns, or its answer is lost; a save without evidence
\* is made a refuted one (enforce_operation_verification).  Only edits decline:
\* a save has no target, and its preflight refuses nothing that execute asks.
Operate(e, report, applies) ==
    /\ pc[e] = "running"
    /\ report \in {"verified", "unproved", "refuted", "partial"} => applies
    /\ report \in {"unapplied", "declined"} => ~applies
    /\ report \in {"unproved", "declined"} => Workflow[ticket[e].digest] = "edit"
    /\ outcome' = [outcome EXCEPT ![e] =
         [report |-> report, ok |-> FALSE,
          result |-> [run |-> run[e], present |-> TRUE,
                      partial |-> report = "partial",
                      declined |-> report = "declined",
                      native |-> /\ Workflow[ticket[e].digest] = "save"
                                 /\ report \in {"verified", "refuted"},
                      proved |-> FALSE]]]
    /\ edits' = Edited(e, applies)
    /\ Goto(e, "returned")
    /\ UNCHANGED <<now, punctual, journal, ticket, run, acked>>

\* An exception that is not a HwpLiveError leaves the attempt as it stands.
UnexpectedError(e, applies) ==
    /\ pc[e] = "running"
    /\ edits' = Edited(e, applies)
    /\ Leave(e)
    /\ UNCHANGED <<now, punctual, journal, acked>>

-----------------------------------------------------------------------------
(* commit                                                                  *)

\* reconcile_save_fingerprint: "confirmed" needs the native completion values
\* and the file to agree, "likely" is a changed and stable file without them.
\* The native reopen of save_reopen_verify counts as a confirmation.
Dispositions(result, named) ==
    {"unavailable"} \cup (IF named THEN {"likely", "unchanged"} ELSE {})
                    \cup (IF named /\ result.native THEN {"confirmed"} ELSE {})

Evidenced(result, disposition) ==
    CASE disposition = "confirmed" ->
            [result EXCEPT !.partial = FALSE, !.proved = TRUE]
      [] disposition = "likely" -> [result EXCEPT !.partial = TRUE]
      [] OTHER -> result

IsExecuted(report) == report \in {"verified", "unproved", "refuted"}

\* _attach_successful_save_fingerprint applies to a ticket of a save that still
\* has its operation and path.
ChecksFingerprint(e) ==
    /\ ticket[e].operation = "save"
    /\ ticket[e].named
    /\ IsExecuted(outcome[e].report)

\* Mutants: only an explicit failure report fails the commit; a changed file
\* counts as a proved save.
CommitsUnlessLost(e, disposition) ==
    IF ChecksFingerprint(e)
    THEN disposition = "confirmed"
    ELSE outcome[e].report # "lost"

CommitsLikelySave(e, disposition) ==
    IF ChecksFingerprint(e)
    THEN disposition \in {"confirmed", "likely"}
    ELSE \/ outcome[e].report \in {"verified", "declined"}
         \/ outcome[e].report = "unproved" /\ ticket[e].operation # "save"

\* The commit succeeds unless the result is a failure, a partial change or one
\* whose verification failed; a result that declines is none of these.
Commits(e, disposition) ==
    IF ChecksFingerprint(e)
    THEN disposition = "confirmed"
    ELSE \/ outcome[e].report \in {"verified", "declined"}
         \/ outcome[e].report = "unproved" /\ ticket[e].operation # "save"

Commit(e, disposition) ==
    LET result == IF ChecksFingerprint(e)
                  THEN Evidenced(outcome[e].result, disposition)
                  ELSE outcome[e].result
        k == ticket[e].key
    IN  /\ pc[e] = "returned"
        /\ IF ChecksFingerprint(e)
           THEN disposition \in Dispositions(outcome[e].result, TRUE)
           ELSE disposition = "unavailable"
        /\ IF Commits(e, disposition)
           THEN IF MarkVerifiedRaises(EntryOf(e))
                THEN Leave(e) /\ UNCHANGED journal
                ELSE /\ Put(k, MarkVerifiedEntry(EntryOf(e), result, now))
                     /\ Goto(e, "verified")
                     /\ outcome' = [outcome EXCEPT ![e].ok = TRUE,
                                                   ![e].result = result]
                     /\ UNCHANGED <<ticket, run>>
           ELSE IF ~IsRecord(EntryOf(e))
                THEN Leave(e) /\ UNCHANGED journal
                ELSE /\ Put(k, MarkTerminalEntry(EntryOf(e), "failed", result, now))
                     /\ Goto(e, "answering")
                     /\ outcome' = [outcome EXCEPT ![e].result = result]
                     /\ UNCHANGED <<ticket, run>>
        /\ UNCHANGED <<now, punctual, edits, acked>>

\* Mutant: the second transaction of commit waits for the state it expects.
MarkCommittedWaits(e) ==
    /\ pc[e] = "verified"
    /\ ~MarkCommittedRaises(EntryOf(e))
    /\ Put(ticket[e].key, MarkCommittedEntry(EntryOf(e), now))
    /\ Goto(e, "answering")
    /\ UNCHANGED <<ticket, outcome, run, now, punctual, edits, acked>>

MarkCommitted(e) ==
    /\ pc[e] = "verified"
    /\ IF MarkCommittedRaises(EntryOf(e))
       THEN Leave(e) /\ UNCHANGED journal
       ELSE /\ Put(ticket[e].key, MarkCommittedEntry(EntryOf(e), now))
            /\ Goto(e, "answering")
            /\ UNCHANGED <<ticket, outcome, run>>
    /\ UNCHANGED <<now, punctual, edits, acked>>

\* snapshot, and the answer.  _immediate_save_reconciliation looks up the
\* status of a save whose answer was lost before it answers.
AnswersAtOnce(e) ==
    ~(ticket[e].operation = "save" /\ outcome[e].report = "lost")

\* Mutant: the answer does not notice that the entry was removed meanwhile.
AnswerForgotten(e) ==
    /\ pc[e] = "answering"
    /\ AnswersAtOnce(e) \/ ~IsRecord(EntryOf(e))
    /\ acked' = IF outcome[e].ok
                THEN [acked EXCEPT ![ticket[e].key] = @ \cup {run[e]}]
                ELSE acked
    /\ Leave(e)
    /\ UNCHANGED <<now, punctual, journal, edits>>

Answer(e) ==
    /\ pc[e] = "answering"
    /\ AnswersAtOnce(e) \/ ~IsRecord(EntryOf(e))
    /\ acked' = IF outcome[e].ok /\ run[e] # 0 /\ IsRecord(EntryOf(e))
                THEN [acked EXCEPT ![ticket[e].key] = @ \cup {run[e]}]
                ELSE acked
    /\ Leave(e)
    /\ UNCHANGED <<now, punctual, journal, edits>>

\* A reconcile ticket runs the resolve-only operation and takes the snapshot.
FinishReconcile(e) ==
    /\ pc[e] = "resolving"
    /\ Leave(e)
    /\ UNCHANGED <<now, punctual, journal, edits, acked>>

-----------------------------------------------------------------------------
(* status_without_connection                                               *)

\* Mutant: the lookup only knows the operations that did not succeed.
FoundUnsettled(r, selector) ==
    {k \in Key : /\ IsRecord(journal[k])
                 /\ journal[k].named
                 /\ journal[k].state # "committed"
                 /\ k[2] = r
                 /\ selector \in Path => PathOf[k[1]] = selector}

\* lookup_request_with_issues: a torn file is an issue of no known request, and
\* an entry without its names matches no request.
Found(r, selector) ==
    {k \in Key : /\ IsRecord(journal[k])
                 /\ journal[k].named
                 /\ k[2] = r
                 /\ selector \in Path => PathOf[k[1]] = selector}
Issues == {k \in Key : journal[k].state = "torn"}

OfflineStatus(r, selector) ==
    IF Found(r, selector) = {} /\ Issues = {} THEN "none"
    ELSE IF Cardinality(Found(r, selector)) # 1 THEN "lookup_failure"
    ELSE journal[CHOOSE k \in Found(r, selector) : TRUE].state

\* The failed save found by a lookup is compared with the file on disk; what
\* the lookup read is kept for the next transaction.
ReadFailedSave(e, k, disposition) ==
    /\ journal[k].state = "failed"
    /\ journal[k].operation = "save"
    /\ disposition \in Dispositions(journal[k].result, journal[k].named)
    /\ IF disposition \in {"confirmed", "likely"}
       THEN /\ Goto(e, "reconciling")
            /\ ticket' = [ticket EXCEPT ![e] =
                 [key |-> k, digest |-> journal[k].digest,
                  operation |-> "save", named |-> TRUE]]
            /\ outcome' = [outcome EXCEPT ![e] =
                 [report |-> "lost", ok |-> disposition = "confirmed",
                  result |-> [Evidenced(journal[k].result, disposition) EXCEPT
                                 !.present = TRUE]]]
            /\ run' = [run EXCEPT ![e] = 0]
       ELSE Leave(e)
    /\ UNCHANGED <<now, punctual, journal, edits, acked>>

\* get_operation_status: only a failed save makes it change anything.
GetOperationStatus(e, r, selector, disposition) ==
    /\ pc[e] = "idle"
    /\ Cardinality(Found(r, selector)) = 1
    /\ \E k \in Found(r, selector) : ReadFailedSave(e, k, disposition)

\* _immediate_save_reconciliation, with the path of the ticket as selector.
ImmediateStatus(e, disposition) ==
    LET found == Found(ticket[e].key[2], PathOf[ticket[e].key[1]])
    IN  /\ pc[e] = "answering"
        /\ ~AnswersAtOnce(e)
        /\ IsRecord(EntryOf(e))
        /\ IF \E k \in found : /\ found = {k}
                               /\ journal[k].state = "failed"
                               /\ journal[k].operation = "save"
           THEN \E k \in found : ReadFailedSave(e, k, disposition)
           ELSE /\ disposition = "unavailable"
                /\ Leave(e)
                /\ UNCHANGED <<now, punctual, journal, edits, acked>>

\* record_save_reconciliation does not compare the attempt with the one read.
RecordSaveReconciliation(e) ==
    /\ pc[e] = "reconciling"
    /\ IF IsRecord(EntryOf(e))
       THEN Put(ticket[e].key,
                RecordSaveReconciliationEntry(EntryOf(e), outcome[e].result,
                                              outcome[e].ok, now))
       ELSE UNCHANGED journal
    /\ Leave(e)
    /\ UNCHANGED <<now, punctual, edits, acked>>

-----------------------------------------------------------------------------
(* The environment: crashes, the clock, and prune                          *)

Crash(e) ==
    /\ pc[e] # "idle"
    /\ Leave(e)
    /\ UNCHANGED <<now, punctual, journal, edits, acked>>

\* With punctual heartbeats, time waits for the live runs to refresh theirs.
Tick ==
    /\ now < MaxTime
    /\ punctual =>
         \A e \in Executor :
            (pc[e] \in Executing \cup Beating /\ EntryOf(e).state \in Active) =>
                now + 1 - EntryOf(e).heartbeat < StaleTimeout
    /\ now' = now + 1
    /\ UNCHANGED <<punctual, journal, pc, ticket, outcome, history>>

\* The size of a file grows with its archived attempts.
Size(entry) == entry.attempt

IsPrunable(k) == journal[k].state \in Terminal
IsExpired(k) == journal[k].updated <= now - TerminalTTL

Older(k, l) == journal[k].updated <= journal[l].updated

OldestFirst(evicted, all) == \A k \in evicted, l \in all \ evicted : Older(k, l)

TotalSize(keys) ==
    Cardinality({unit \in keys \X Attempt : unit[2] <= Size(journal[unit[1]])})

Fits(keys) == /\ Cardinality(keys) <= MaxTerminalFiles
              /\ TotalSize(keys) <= MaxTerminalBytes

\* The loop stops at the first prefix, oldest first, whose removal is enough.
IsOverLimit(evicted, all) ==
    /\ OldestFirst(evicted, all)
    /\ Fits(all \ evicted)
    /\ evicted # {} =>
         \E last \in evicted :
            /\ OldestFirst(evicted \ {last}, all)
            /\ ~Fits(all \ (evicted \ {last}))

\* (history) The attempt a result came from is forgotten with the entry.
Disowned(result) == [result EXCEPT !.run = 0]

\* Some files may resist deletion; those that go take their history with them.
Prune(removed) ==
    LET terminal == {k \in Key : IsPrunable(k)}
        expired  == {k \in terminal : IsExpired(k)}
        retained == terminal \ expired
    IN  /\ removed # {}
        /\ \E evicted \in SUBSET retained :
              /\ IsOverLimit(evicted, retained)
              /\ removed \subseteq expired \cup evicted
        /\ journal' = [k \in Key |-> IF k \in removed
                                     THEN AbsentEntry(journal[k].digest)
                                     ELSE journal[k]]
        /\ run' = [e \in Executor |-> IF ticket[e].key \in removed THEN 0
                                                                   ELSE run[e]]
        /\ edits' = [k \in Key |-> IF k \in removed
                                   THEN [a \in Attempt |-> 0] ELSE edits[k]]
        /\ acked' = [k \in Key |-> IF k \in removed THEN {} ELSE acked[k]]
        /\ outcome' = [e \in Executor |-> IF ticket[e].key \in removed
                                          THEN [outcome[e] EXCEPT !.result = Disowned(@)]
                                          ELSE outcome[e]]
        /\ UNCHANGED <<now, punctual, pc, ticket>>

-----------------------------------------------------------------------------

AllDispositions == {"confirmed", "likely", "unchanged", "unavailable"}

\* The steps that a call takes by itself once it has begun.
Progress(e) ==
    \/ MarkExecuting(e)
    \/ StartMutation(e)
    \/ \E report \in Reports, applies \in BOOLEAN : Operate(e, report, applies)
    \/ \E disposition \in AllDispositions : Commit(e, disposition)
    \/ MarkCommitted(e)
    \/ Answer(e)
    \/ FinishReconcile(e)
    \/ \E disposition \in AllDispositions : ImmediateStatus(e, disposition)
    \/ RecordSaveReconciliation(e)

Call(e) ==
    \/ \E k \in Key, d \in Digest, recovery \in {"none", "reconcile", "recover"} :
          Begin(e, k, d, recovery)
    \/ Progress(e)
    \/ Heartbeat(e)
    \/ \E state \in Stopped : WithdrawMutation(e, state)
    \/ \E applies \in BOOLEAN : UnexpectedError(e, applies)
    \/ \E r \in Request, selector \in Path \cup {"any"},
          disposition \in AllDispositions :
          GetOperationStatus(e, r, selector, disposition)
    \/ Crash(e)

Next ==
    \/ \E e \in Executor : Call(e)
    \/ \E k \in Key : CrashInCreate(k)
    \/ \E removed \in SUBSET Key : Prune(removed)
    \/ Tick

Spec == Init /\ [][Next]_vars

\* The event loop and the thread pool run what is ready, and Hangul answers
\* every call it is given; crashes, cancellations, recoveries and pruning are
\* never owed.
FairSpec == Spec /\ \A e \in Executor : WF_vars(Progress(e))

-----------------------------------------------------------------------------
(* Properties                                                              *)

\* Every variable has the type its declaration names.
TypeOK ==
    /\ now \in Time
    /\ punctual \in BOOLEAN
    /\ journal \in [Key -> Entry]
    /\ pc \in [Executor -> Steps]
    /\ ticket \in [Executor -> Ticket]
    /\ outcome \in [Executor -> Outcome]
    /\ run \in [Executor -> 0 .. MaxAttempt]
    /\ edits \in [Key -> [Attempt -> Nat]]
    /\ acked \in [Key -> SUBSET Attempt]

\* Whatever is retried, recovered or delayed, the operation of one attempt
\* writes the document at most once, and no attempt beyond the recorded one has
\* written: the number of edits is bounded by the executions the user confirmed.
OncePerAttempt ==
    \A k \in Key, a \in Attempt :
        /\ edits[k][a] <= 1
        /\ edits[k][a] = 1 => IsRecord(journal[k]) /\ a <= journal[k].attempt

\* Once a caller was told that its operation is committed, the entry stays
\* committed with the result of that very run for as long as it is retained, so
\* that a repetition of the request is a replay of what the caller saw.
AckDurable ==
    \A k \in Key : \A a \in acked[k] :
        journal[k].state = "committed" /\ journal[k].result.run = a

\* The archive accounts for every earlier attempt, each of them ended; an
\* attempt that changed the document in part is never followed by another
\* execution (the user has to reconcile it).
AuditTrail ==
    \A k \in Key :
        /\ Len(journal[k].previous) = journal[k].attempt - 1
        /\ \A i \in DOMAIN journal[k].previous :
              /\ journal[k].previous[i].state \in Stopped
              /\ ~journal[k].previous[i].partial

\* What a repeated request replays did happen: the run whose result a settled
\* entry holds wrote the document, once, or says that it declined, and then it
\* wrote nothing and never will.
SettledWasApplied ==
    \A k \in Key :
        journal[k].state \in Settled =>
            /\ journal[k].result.present
            /\ journal[k].result.run # 0 =>
                  edits[k][journal[k].result.run] =
                      IF journal[k].result.declined THEN 0 ELSE 1

\* A run holds an attempt number that no other run holds and that its entry has
\* reached, and wrote nothing before its operation returned.
RunAccounting ==
    \A e \in Executor : run[e] # 0 =>
        /\ pc[e] \in Executing \cup Beating
        /\ IsRecord(EntryOf(e))
        /\ run[e] <= EntryOf(e).attempt
        /\ pc[e] \in Executing => edits[ticket[e].key][run[e]] = 0
        /\ \A f \in Executor \ {e} :
              ticket[f].key = ticket[e].key => run[f] # run[e]

\* While heartbeats are punctual, a run that may still write the document or
\* report its result finds its own attempt in the journal, still active: it was
\* not taken over by a recovery, not removed by prune and not ended by a status
\* query, and no second run of the entry is under way.
RunOwnsEntry ==
    punctual =>
        \A e \in Executor :
            pc[e] \in Executing \cup {"returned"} =>
                /\ EntryOf(e).state \in Active
                /\ EntryOf(e).attempt = run[e]
                /\ \A f \in Executor \ {e} :
                      pc[f] \in Executing \cup {"returned"} =>
                          ticket[f].key # ticket[e].key

\* "Save workflows keep the stricter rule: their verdict comes from the file
\* fingerprint" (comment in commit): a save is settled only with a result that
\* the file on disk proved.  It holds of the first attempt only: the record of a
\* recovered one has lost its operation and its baseline, and is committed on
\* the word of Hangul alone.  It leaves out a run that comes back after its own
\* entry was removed and the operation id was used anew: mark_verified compares
\* neither payload nor attempt, so such a run settles the new entry.
SaveProvedByFile ==
    \A k \in Key :
        /\ journal[k].state \in Settled
        /\ journal[k].attempt = 1
        /\ journal[k].result.run # 0
        /\ Workflow[journal[k].digest] = "save"
        => journal[k].result.proved

\* "There is no record of this operation_id, or it has expired" (the message of
\* status): a status query never says so of an operation whose committed result
\* the journal still holds, whichever session the document is open in, so that
\* the lookup alone has to find it.  It holds of the first attempt only: the
\* record of a recovered one has lost its request and its path.
StatusKnowsCommitted ==
    \A k \in Key :
        journal[k].state = "committed" /\ journal[k].attempt = 1 =>
            \A selector \in {"any", PathOf[k[1]]} :
                OfflineStatus(k[2], selector) # "none"

\* The six states of an entry, seen as the four an operation goes through.
PhaseOf(entry) ==
    CASE entry.state = "absent" -> "unknown"
      [] entry.state = "torn" -> "spoiled"
      [] entry.state \in Active -> "open"
      [] entry.state \in Stopped -> "stopped"
      [] entry.state \in Settled -> "done"

Promise == INSTANCE OperationPromise WITH
    phase  <- [k \in Key |-> PhaseOf(journal[k])],
    tries  <- [k \in Key |-> journal[k].attempt],
    answer <- [k \in Key |-> IF journal[k].state \in Settled
                             THEN journal[k].result ELSE NoResult]

\* The journal, with every interleaving of its transactions, keeps the promise
\* of OperationPromise: one attempt at a time, and a result that never changes.
PromiseKept == Promise!Spec

\* A call that found its entry changed, aborted, taken over or removed by
\* somebody else still ends: no run waits for a state that will not come.
EveryCallEnds == \A e \in Executor : pc[e] # "idle" ~> pc[e] = "idle"

\* The record of an operation accounts for all that was done to the document:
\* entries have their type, one attempt writes at most once, and the archive
\* holds every earlier attempt, none of which changed the document in part and
\* was executed again.
EntriesAccounted == TypeOK /\ OncePerAttempt /\ AuditTrail

\* What a caller is told is true: an acknowledged operation is durable, a settled
\* one was applied, or declined as it says, a first save was proved by its file,
\* and the status of a committed operation is found.
RepliesAreTrue ==
  /\ AckDurable
  /\ SettledWasApplied
  /\ SaveProvedByFile
  /\ StatusKnowsCommitted

=============================================================================
