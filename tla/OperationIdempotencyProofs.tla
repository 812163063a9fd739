--------------------- MODULE OperationIdempotencyProofs ---------------------
(***************************************************************************)
(* Theorems about OperationIdempotency, for any number of sessions,        *)
(* requests and calls in flight and with heartbeats as unreliable as can   *)
(* be.  The first part keeps the books: the types, one write per attempt,  *)
(* the archive.  The second part is about the answers: what a caller is    *)
(* told is true, the journal implements OperationPromise, and a run whose  *)
(* heartbeats are punctual owns its entry.                                 *)
(***************************************************************************)
EXTENDS OperationIdempotency, TLAPS

USE DEF Attempt, Time

Recovery == {"none", "reconcile", "recover"}

-----------------------------------------------------------------------------
(* What the functions of the journal return.                               *)

LEMMA AbsentType == \A d \in Digest : AbsentEntry(d) \in Entry /\ TornEntry(d) \in Entry
<1> SUFFICES ASSUME NEW d \in Digest
             PROVE  AbsentEntry(d) \in Entry /\ TornEntry(d) \in Entry
  OBVIOUS
<1>1. << >> \in Seq(Snapshot)
  OBVIOUS
<1>2. NoResult \in Result
  BY LimitAssumption DEF NoResult, Result
<1>3. AbsentEntry(d) \in Entry
  BY <1>1, <1>2, LimitAssumption DEF AbsentEntry, Entry
<1>4. TornEntry(d) \in Entry
  BY <1>3 DEF TornEntry, Entry
<1> QED BY <1>3, <1>4

LEMMA NewRecordType == \A d \in Digest, t \in Time : NewRecord(d, t) \in Entry
BY LimitAssumption, WorkflowAssumption
   DEF NewRecord, Entry, NoResult, Result, Active, Terminal

LEMMA StampedType ==
    ASSUME NEW entry \in Entry, NEW t \in Time, NEW state \in Active \cup Terminal
    PROVE  Stamped(entry, state, t) \in Entry
BY DEF Stamped, Entry

LEMMA NextAttemptType ==
    ASSUME NEW entry \in Entry, NEW t \in Time, Recoverable(entry, t),
           entry.attempt + 1 \in Attempt
    PROVE  NextAttempt(entry, t) \in Entry
<1>1. ArchivedSnapshot(entry) \in Snapshot
  BY DEF ArchivedSnapshot, Snapshot, Entry, Result, Recoverable, Active, Stopped, Terminal
<1>2. Append(entry.previous, ArchivedSnapshot(entry)) \in Seq(Snapshot)
  BY <1>1 DEF Entry
<1> QED BY <1>2, LimitAssumption DEF NextAttempt, Entry, NoResult, Result, Active, Terminal

LEMMA BeginEntryType ==
    ASSUME NEW entry \in Entry, NEW d \in Digest, NEW recovery \in Recovery,
           NEW t \in Time, BeginEntry(entry, d, recovery, t).attempt \in Attempt
    PROVE  BeginEntry(entry, d, recovery, t) \in Entry
<1>1. CASE entry.state = "absent"
  BY <1>1, NewRecordType DEF BeginEntry, IsRecord
<1>2. CASE /\ entry.state # "absent"
           /\ IsRecord(entry) /\ entry.digest = d /\ entry.state = "verified"
  <2>1. BeginEntry(entry, d, recovery, t)
          = [entry EXCEPT !.state = "committed", !.updated = t]
    BY <1>2 DEF BeginEntry, Recoverable, Active, Stopped
  <2> QED BY <2>1 DEF Entry, Terminal, Settled
<1>3. CASE /\ entry.state # "absent" /\ entry.state # "verified"
           /\ IsRecord(entry) /\ entry.digest = d
           /\ Recoverable(entry, t) /\ recovery # "none"
  <2>1. BeginEntry(entry, d, recovery, t) = Recovered(entry, recovery, t)
    BY <1>3 DEF BeginEntry, Recoverable, Active, Stopped
  <2>2. CASE Reexecutes(entry, recovery)
    <3>1. BeginEntry(entry, d, recovery, t) = NextAttempt(entry, t)
      BY <2>1, <2>2 DEF Recovered
    <3>2. entry.attempt + 1 \in Attempt
      BY <3>1 DEF NextAttempt
    <3> QED BY <3>1, <3>2, <1>3, NextAttemptType
  <2>3. CASE ~Reexecutes(entry, recovery)
    BY <2>1, <2>3, StampedType DEF Recovered, Reconciled, Terminal, Stopped
  <2> QED BY <2>2, <2>3
<1>4. CASE BeginEntry(entry, d, recovery, t) = entry
  BY <1>4
<1> QED BY <1>1, <1>2, <1>3, <1>4 DEF BeginEntry

LEMMA StepEntryTypes ==
    ASSUME NEW entry \in Entry, NEW t \in Time, NEW result \in Result,
           NEW state \in Stopped, NEW confirmed \in BOOLEAN
    PROVE  /\ MarkExecutingEntry(entry, t) \in Entry
           /\ HeartbeatEntry(entry, t) \in Entry
           /\ MarkTerminalEntry(entry, state, result, t) \in Entry
           /\ MarkVerifiedEntry(entry, result, t) \in Entry
           /\ MarkCommittedEntry(entry, t) \in Entry
           /\ RecordSaveReconciliationEntry(entry, result, confirmed, t) \in Entry
<1> USE DEF Active, Terminal, Settled, Stopped
<1>1. MarkExecutingEntry(entry, t) \in Entry
  BY StampedType DEF MarkExecutingEntry
<1>2. HeartbeatEntry(entry, t) \in Entry
  BY StampedType DEF HeartbeatEntry
<1>3. MarkTerminalEntry(entry, state, result, t) \in Entry
  BY DEF MarkTerminalEntry, Stamped, Entry
<1>4. MarkVerifiedEntry(entry, result, t) \in Entry
  BY DEF MarkVerifiedEntry, Entry
<1>5. MarkCommittedEntry(entry, t) \in Entry
  BY DEF MarkCommittedEntry, Entry
<1>6. RecordSaveReconciliationEntry(entry, result, confirmed, t) \in Entry
  BY DEF RecordSaveReconciliationEntry, Stamped, Entry
<1> QED BY <1>1, <1>2, <1>3, <1>4, <1>5, <1>6

-----------------------------------------------------------------------------
(* Type correctness.                                                       *)

LEMMA SomeKey == (CHOOSE k \in Key : TRUE) \in Key /\ (CHOOSE d \in Digest : TRUE) \in Digest
<1>1. PICK s \in Session, r \in Request : TRUE
  BY NonEmptyAssumption
<1>2. <<s, r>> \in Key
  BY <1>1 DEF Key
<1> QED BY <1>2, NonEmptyAssumption

LEMMA EmptyTypes == NoTicket \in Ticket /\ NoOutcome \in Outcome /\ NoResult \in Result
<1>1. NoResult \in Result
  BY LimitAssumption DEF NoResult, Result
<1> QED BY <1>1, SomeKey DEF NoTicket, Ticket, NoOutcome, Outcome, Reports

LEMMA LeaveType ==
    ASSUME TypeOK, NEW e \in Executor, Leave(e)
    PROVE  /\ pc' \in [Executor -> Steps]
           /\ ticket' \in [Executor -> Ticket]
           /\ outcome' \in [Executor -> Outcome]
           /\ run' \in [Executor -> 0 .. MaxAttempt]
BY EmptyTypes, LimitAssumption DEF TypeOK, Leave, Steps

LEMMA PutType ==
    ASSUME TypeOK, NEW k \in Key, NEW entry \in Entry, Put(k, entry)
    PROVE  journal' \in [Key -> Entry]
BY DEF TypeOK, Put

LEMMA EntryOfType ==
    ASSUME TypeOK, NEW e \in Executor
    PROVE  ticket[e].key \in Key /\ EntryOf(e) \in Entry
BY DEF TypeOK, Ticket, EntryOf

LEMMA EvidencedType ==
    ASSUME NEW result \in Result, NEW disposition
    PROVE  Evidenced(result, disposition) \in Result
BY DEF Evidenced, Result

LEMMA ReadFailedSaveType ==
    ASSUME TypeOK, NEW e \in Executor, NEW k \in Key, NEW disposition,
           ReadFailedSave(e, k, disposition)
    PROVE  TypeOK'
<1>1. journal[k] \in Entry
  BY DEF TypeOK
<1>2. CASE disposition \in {"confirmed", "likely"}
  <2>1. [Evidenced(journal[k].result, disposition) EXCEPT !.present = TRUE] \in Result
    BY <1>1, EvidencedType DEF Entry, Result
  <2> DEFINE found == [key |-> k, digest |-> journal[k].digest,
                       operation |-> "save", named |-> TRUE]
             evidence == [report |-> "lost", ok |-> disposition = "confirmed",
                          result |-> [Evidenced(journal[k].result, disposition)
                                        EXCEPT !.present = TRUE]]
  <2>2. /\ pc' = [pc EXCEPT ![e] = "reconciling"]
        /\ ticket' = [ticket EXCEPT ![e] = found]
        /\ outcome' = [outcome EXCEPT ![e] = evidence]
        /\ run' = [run EXCEPT ![e] = 0]
        /\ UNCHANGED <<now, punctual, journal, edits, acked>>
    BY <1>2 DEF ReadFailedSave, Goto
  <2>3. found \in Ticket
    BY <1>1 DEF Ticket, Entry
  <2>4. evidence \in Outcome
    BY <2>1 DEF Outcome, Reports
  <2>5. 0 \in 0 .. MaxAttempt
    BY LimitAssumption
  <2> HIDE DEF found, evidence
  <2> QED BY <2>2, <2>3, <2>4, <2>5 DEF TypeOK, Steps
<1>3. CASE disposition \notin {"confirmed", "likely"}
  BY <1>3, LeaveType DEF ReadFailedSave, TypeOK
<1> QED BY <1>2, <1>3

LEMMA EditedType ==
    ASSUME TypeOK, NEW e \in Executor, NEW applies \in BOOLEAN
    PROVE  Edited(e, applies) \in [Key -> [Attempt -> Nat]]
<1>1. edits \in [Key -> [Attempt -> Nat]]
  BY DEF TypeOK
<1>2. ticket[e].key \in Key
  BY EntryOfType
<1>3. run[e] # 0 => run[e] \in Attempt
  BY LimitAssumption DEF TypeOK, Attempt
<1>4. ASSUME NEW k \in Key, NEW a \in Attempt
      PROVE  [edits[k] EXCEPT ![a] = @ + 1] \in [Attempt -> Nat]
  <2>1. edits[k] \in [Attempt -> Nat]
    BY <1>1
  <2>2. edits[k][a] \in Nat
    BY <2>1
  <2>3. \A n \in Nat : n + 1 \in Nat
    OBVIOUS
  <2>4. edits[k][a] + 1 \in Nat
    BY <2>2, <2>3
  <2> QED BY <2>1, <2>4
<1> QED BY <1>1, <1>2, <1>3, <1>4 DEF Edited

LEMMA InitType == Init => TypeOK
BY LimitAssumption, SomeKey, EmptyTypes, AbsentType DEF Init, TypeOK, Steps

LEMMA NextType == TypeOK /\ [Next]_vars => TypeOK'
<1> SUFFICES ASSUME TypeOK, [Next]_vars
             PROVE  TypeOK'
  OBVIOUS
<1>1. ASSUME NEW e \in Executor, NEW k \in Key, NEW d \in Digest,
             NEW recovery \in Recovery, Begin(e, k, d, recovery)
      PROVE  TypeOK'
  <2> DEFINE begun == BeginEntry(journal[k], d, recovery, now)
  <2>1. begun \in Entry
    BY <1>1, BeginEntryType DEF Begin, TypeOK
  <2>2. journal' \in [Key -> Entry]
    BY <1>1, <2>1, PutType DEF Begin
  <2>3. [key |-> k, digest |-> d, operation |-> begun.operation, named |-> begun.named]
          \in Ticket
    BY <2>1 DEF Ticket, Entry
  <2>4. begun.attempt \in 0 .. MaxAttempt
    BY <2>1, LimitAssumption DEF Entry
  <2>5. 0 \in 0 .. MaxAttempt
    BY LimitAssumption
  <2> QED BY <1>1, <2>2, <2>3, <2>4, <2>5 DEF Begin, TypeOK, Goto, Steps
<1>2. ASSUME NEW e \in Executor, MarkExecuting(e)
      PROVE  TypeOK'
  <2>1. CASE MarkExecutingRaises(EntryOf(e))
    BY <1>2, <2>1, LeaveType DEF MarkExecuting, TypeOK
  <2>2. CASE ~MarkExecutingRaises(EntryOf(e))
    <3>1. journal' \in [Key -> Entry]
      BY <1>2, <2>2, EntryOfType, PutType, StepEntryTypes, EmptyTypes
         DEF MarkExecuting, TypeOK, Stopped
    <3> QED BY <1>2, <2>2, <3>1 DEF MarkExecuting, TypeOK, Goto, Steps
  <2> QED BY <2>1, <2>2
<1>3. ASSUME NEW e \in Executor, Heartbeat(e)
      PROVE  TypeOK'
  <2>1. journal' \in [Key -> Entry]
    BY <1>3, EntryOfType, PutType, StepEntryTypes, EmptyTypes
       DEF Heartbeat, TypeOK, Stopped
  <2> QED BY <1>3, <2>1 DEF Heartbeat, TypeOK, history
<1>4. ASSUME NEW e \in Executor, NEW state \in Stopped, WithdrawMutation(e, state)
      PROVE  TypeOK'
  <2>1. journal' \in [Key -> Entry]
    <3>1. CASE IsRecord(EntryOf(e))
      BY <1>4, <3>1, EntryOfType, PutType, StepEntryTypes, EmptyTypes
         DEF WithdrawMutation, TypeOK
    <3>2. CASE ~IsRecord(EntryOf(e))
      BY <1>4, <3>2 DEF WithdrawMutation, TypeOK
    <3> QED BY <3>1, <3>2
  <2> QED BY <1>4, <2>1, LeaveType DEF WithdrawMutation, TypeOK
<1>5. ASSUME NEW e \in Executor, StartMutation(e)
      PROVE  TypeOK'
  BY <1>5 DEF StartMutation, TypeOK, Goto, Steps, history
<1>6. ASSUME NEW e \in Executor, NEW report \in Reports, NEW applies \in BOOLEAN,
             Operate(e, report, applies)
      PROVE  TypeOK'
  <2>1. outcome' \in [Executor -> Outcome]
    BY <1>6 DEF Operate, TypeOK, Outcome, Result
  <2> QED BY <1>6, <2>1, EditedType DEF Operate, TypeOK, Goto, Steps
<1>7. ASSUME NEW e \in Executor, NEW applies \in BOOLEAN, UnexpectedError(e, applies)
      PROVE  TypeOK'
  BY <1>7, EditedType, LeaveType DEF UnexpectedError, TypeOK
<1>8. ASSUME NEW e \in Executor, NEW disposition, Commit(e, disposition)
      PROVE  TypeOK'
  <2> DEFINE result == IF ChecksFingerprint(e)
                       THEN Evidenced(outcome[e].result, disposition)
                       ELSE outcome[e].result
  <2>1. result \in Result
    BY EvidencedType DEF TypeOK, Outcome
  <2>2. CASE Leave(e) /\ UNCHANGED journal
    BY <1>8, <2>2, LeaveType DEF Commit, TypeOK
  <2>0. UNCHANGED <<now, punctual, edits, acked>> /\ TypeOK
    BY <1>8 DEF Commit
  <2>3. CASE /\ Put(ticket[e].key, MarkVerifiedEntry(EntryOf(e), result, now))
             /\ Goto(e, "verified")
             /\ outcome' = [outcome EXCEPT ![e].ok = TRUE, ![e].result = result]
             /\ UNCHANGED <<ticket, run>>
    <3>1. journal' \in [Key -> Entry]
      BY <2>1, <2>3, EntryOfType, PutType, StepEntryTypes DEF TypeOK, Stopped
    <3> HIDE DEF result
    <3>2. outcome' \in [Executor -> Outcome]
      BY <2>1, <2>3 DEF TypeOK, Outcome
    <3>3. pc' \in [Executor -> Steps] /\ UNCHANGED <<ticket, run>>
      BY <2>3 DEF TypeOK, Goto, Steps
    <3> QED BY <2>0, <3>1, <3>2, <3>3 DEF TypeOK
  <2>4. CASE /\ Put(ticket[e].key, MarkTerminalEntry(EntryOf(e), "failed", result, now))
             /\ Goto(e, "answering")
             /\ outcome' = [outcome EXCEPT ![e].result = result]
             /\ UNCHANGED <<ticket, run>>
    <3>1. journal' \in [Key -> Entry]
      BY <2>1, <2>4, EntryOfType, PutType, StepEntryTypes DEF TypeOK, Stopped
    <3> HIDE DEF result
    <3>2. outcome' \in [Executor -> Outcome]
      BY <2>1, <2>4 DEF TypeOK, Outcome
    <3>3. pc' \in [Executor -> Steps] /\ UNCHANGED <<ticket, run>>
      BY <2>4 DEF TypeOK, Goto, Steps
    <3> QED BY <2>0, <3>1, <3>2, <3>3 DEF TypeOK
  <2> QED BY <1>8, <2>2, <2>3, <2>4 DEF Commit
<1>9. ASSUME NEW e \in Executor, MarkCommitted(e)
      PROVE  TypeOK'
  <2>1. CASE MarkCommittedRaises(EntryOf(e))
    BY <1>9, <2>1, LeaveType DEF MarkCommitted, TypeOK
  <2>2. CASE ~MarkCommittedRaises(EntryOf(e))
    <3>1. journal' \in [Key -> Entry]
      BY <1>9, <2>2, EntryOfType, PutType, StepEntryTypes, EmptyTypes
         DEF MarkCommitted, TypeOK, Stopped
    <3> QED BY <1>9, <2>2, <3>1 DEF MarkCommitted, TypeOK, Goto, Steps
  <2> QED BY <2>1, <2>2
<1>10. ASSUME NEW e \in Executor, Answer(e)
       PROVE  TypeOK'
  <2>1. run[e] # 0 => run[e] \in Attempt
    BY LimitAssumption DEF TypeOK
  <2>2. acked' \in [Key -> SUBSET Attempt]
    BY <1>10, <2>1, EntryOfType DEF Answer, TypeOK
  <2> QED BY <1>10, <2>2, LeaveType DEF Answer, TypeOK
<1>11. ASSUME NEW e \in Executor, FinishReconcile(e)
       PROVE  TypeOK'
  BY <1>11, LeaveType DEF FinishReconcile, TypeOK
<1>12. ASSUME NEW e \in Executor, NEW disposition, ImmediateStatus(e, disposition)
       PROVE  TypeOK'
  BY <1>12, LeaveType, ReadFailedSaveType DEF ImmediateStatus, TypeOK, Found
<1>13. ASSUME NEW e \in Executor, NEW r, NEW selector, NEW disposition,
              GetOperationStatus(e, r, selector, disposition)
       PROVE  TypeOK'
  BY <1>13, ReadFailedSaveType DEF GetOperationStatus, Found
<1>14. ASSUME NEW e \in Executor, RecordSaveReconciliation(e)
       PROVE  TypeOK'
  <2>1. journal' \in [Key -> Entry]
    <3>1. CASE IsRecord(EntryOf(e))
      <4>1. outcome[e].result \in Result /\ outcome[e].ok \in BOOLEAN
        BY DEF TypeOK, Outcome
      <4> QED BY <1>14, <3>1, <4>1, EntryOfType, PutType, StepEntryTypes
              DEF RecordSaveReconciliation, TypeOK, Stopped
    <3>2. CASE ~IsRecord(EntryOf(e))
      BY <1>14, <3>2 DEF RecordSaveReconciliation, TypeOK
    <3> QED BY <3>1, <3>2
  <2> QED BY <1>14, <2>1, LeaveType DEF RecordSaveReconciliation, TypeOK
<1>15. ASSUME NEW e \in Executor, Crash(e)
       PROVE  TypeOK'
  BY <1>15, LeaveType DEF Crash, TypeOK
<1>16. ASSUME NEW k \in Key, CrashInCreate(k)
       PROVE  TypeOK'
  <2>1. TornEntry(journal[k].digest) \in Entry
    BY AbsentType DEF TypeOK, Entry
  <2> QED BY <1>16, <2>1, PutType DEF CrashInCreate, TypeOK
<1>17. ASSUME NEW removed \in SUBSET Key, Prune(removed)
       PROVE  TypeOK'
  <2>1. journal' \in [Key -> Entry]
    <3>1. \A k \in Key : AbsentEntry(journal[k].digest) \in Entry
      BY AbsentType DEF TypeOK, Entry
    <3> QED BY <1>17, <3>1 DEF Prune, TypeOK
  <2>2. run' \in [Executor -> 0 .. MaxAttempt]
    BY <1>17, LimitAssumption DEF Prune, TypeOK
  <2>3. outcome' \in [Executor -> Outcome]
    <3>1. \A result \in Result : Disowned(result) \in Result
      BY LimitAssumption DEF Disowned, Result
    <3>2. outcome' = [e \in Executor |-> IF ticket[e].key \in removed
                         THEN [outcome[e] EXCEPT !.result = Disowned(outcome[e].result)]
                         ELSE outcome[e]]
      BY <1>17 DEF Prune
    <3> QED BY <3>1, <3>2 DEF TypeOK, Outcome
  <2>4. edits' \in [Key -> [Attempt -> Nat]] /\ acked' \in [Key -> SUBSET Attempt]
    BY <1>17 DEF Prune, TypeOK
  <2> QED BY <1>17, <2>1, <2>2, <2>3, <2>4 DEF Prune, TypeOK
<1>18. CASE Tick
  BY <1>18, LimitAssumption DEF Tick, TypeOK, history
<1>19. CASE UNCHANGED vars
  BY <1>19 DEF vars, TypeOK
<1>20. ASSUME NEW e \in Executor, Progress(e)
       PROVE  TypeOK'
  BY <1>2, <1>5, <1>6, <1>8, <1>9, <1>10, <1>11, <1>12, <1>14, <1>20 DEF Progress
<1>21. ASSUME NEW e \in Executor, Call(e)
       PROVE  TypeOK'
  BY <1>1, <1>3, <1>4, <1>7, <1>13, <1>15, <1>20, <1>21 DEF Call, Recovery
<1> QED BY <1>16, <1>17, <1>18, <1>19, <1>21 DEF Next

\* Every variable keeps its type, for every number of sessions, requests and
\* calls and every value of the limits.
THEOREM TypeCorrect == Spec => []TypeOK
BY InitType, NextType, PTL DEF Spec

-----------------------------------------------------------------------------
(* What every step but pruning leaves of an entry.                         *)

Archived(entry) ==
    /\ Len(entry.previous) = entry.attempt - 1
    /\ \A i \in DOMAIN entry.previous :
          entry.previous[i].state \in Stopped /\ ~entry.previous[i].partial

Keeps(old, new) ==
    /\ Archived(old) => Archived(new)
    /\ IsRecord(old) => IsRecord(new) /\ old.attempt <= new.attempt
    /\ old.state \in Settled => new.state \in Settled /\ new.result = old.result
    /\ old.state = "committed" => new.state = "committed"

LEMMA KeepsItself == \A entry \in Entry : Keeps(entry, entry)
BY DEF Keeps, Entry

LEMMA NextAttemptKeeps ==
    ASSUME NEW entry \in Entry, NEW t \in Time, Recoverable(entry, t),
           ~entry.result.partial
    PROVE  Keeps(entry, NextAttempt(entry, t))
<1> DEFINE shot == ArchivedSnapshot(entry)
           next == NextAttempt(entry, t)
<1>1. shot \in Snapshot /\ shot.state \in Stopped /\ ~shot.partial
  BY DEF ArchivedSnapshot, Snapshot, Entry, Result, Recoverable, Active, Stopped, Terminal
<1>2. ASSUME Archived(entry)
      PROVE  Archived(next)
  <2>1. entry.previous \in Seq(Snapshot)
    BY DEF Entry
  <2>2. next.previous = Append(entry.previous, shot) /\ next.attempt = entry.attempt + 1
    BY DEF NextAttempt
  <2>3. entry.attempt \in Int
    BY DEF Entry
  <2> HIDE DEF shot, next
  <2>4. /\ Len(next.previous) = Len(entry.previous) + 1
        /\ DOMAIN next.previous = 1 .. Len(entry.previous) + 1
        /\ \A i \in 1 .. Len(entry.previous) : next.previous[i] = entry.previous[i]
        /\ next.previous[Len(entry.previous) + 1] = shot
    BY <1>1, <2>1, <2>2
  <2>5. DOMAIN entry.previous = 1 .. Len(entry.previous) /\ Len(entry.previous) \in Nat
    BY <2>1
  <2> QED BY <1>1, <1>2, <2>2, <2>3, <2>4, <2>5 DEF Archived
<1>3. /\ next.state = "accepted" /\ next.attempt = entry.attempt + 1
      /\ entry.attempt \in Int
      /\ entry.state \notin Settled
  BY DEF NextAttempt, Entry, Recoverable, Active, Stopped, Settled
<1> QED BY <1>2, <1>3 DEF Keeps, IsRecord, Settled

LEMMA BeginKeeps ==
    ASSUME NEW entry \in Entry, NEW d \in Digest, NEW recovery \in Recovery,
           NEW t \in Time
    PROVE  Keeps(entry, BeginEntry(entry, d, recovery, t))
<1>1. CASE entry.state = "absent"
  <2>1. BeginEntry(entry, d, recovery, t) = NewRecord(d, t)
    BY <1>1 DEF BeginEntry, IsRecord
  <2>2. Archived(NewRecord(d, t))
    BY DEF Archived, NewRecord
  <2> QED BY <1>1, <2>1, <2>2 DEF Keeps, IsRecord, Settled
<1>2. CASE /\ entry.state # "absent"
           /\ IsRecord(entry) /\ entry.digest = d /\ entry.state = "verified"
  <2>1. BeginEntry(entry, d, recovery, t)
          = [entry EXCEPT !.state = "committed", !.updated = t]
    BY <1>2 DEF BeginEntry, Recoverable, Active, Stopped
  <2> QED BY <1>2, <2>1 DEF Entry, Keeps, Archived, IsRecord, Settled
<1>3. CASE /\ entry.state # "absent" /\ entry.state # "verified"
           /\ IsRecord(entry) /\ entry.digest = d
           /\ Recoverable(entry, t) /\ recovery # "none"
  <2>1. BeginEntry(entry, d, recovery, t) = Recovered(entry, recovery, t)
    BY <1>3 DEF BeginEntry, Recoverable, Active, Stopped
  <2>2. CASE Reexecutes(entry, recovery)
    BY <1>3, <2>1, <2>2, NextAttemptKeeps DEF Recovered, Reexecutes
  <2>3. CASE ~Reexecutes(entry, recovery) /\ entry.state \in Active
    <3>1. BeginEntry(entry, d, recovery, t) = Stamped(entry, "aborted", t)
      BY <2>1, <2>3 DEF Recovered, Reconciled
    <3> QED BY <2>3, <3>1
            DEF Stamped, Entry, Keeps, Archived, IsRecord, Settled, Active
  <2>4. CASE ~Reexecutes(entry, recovery) /\ entry.state \notin Active
    BY <2>1, <2>4, KeepsItself DEF Recovered, Reconciled
  <2> QED BY <2>2, <2>3, <2>4
<1>4. CASE BeginEntry(entry, d, recovery, t) = entry
  BY <1>4, KeepsItself
<1> QED BY <1>1, <1>2, <1>3, <1>4 DEF BeginEntry

LEMMA StepKeeps ==
    ASSUME NEW entry \in Entry, NEW t \in Time, NEW result \in Result,
           NEW state \in Stopped, NEW confirmed \in BOOLEAN
    PROVE  /\ ~MarkExecutingRaises(entry) => Keeps(entry, MarkExecutingEntry(entry, t))
           /\ Keeps(entry, HeartbeatEntry(entry, t))
           /\ Keeps(entry, MarkTerminalEntry(entry, state, result, t))
           /\ ~MarkVerifiedRaises(entry) =>
                 Keeps(entry, MarkVerifiedEntry(entry, result, t))
           /\ Keeps(entry, MarkCommittedEntry(entry, t))
           /\ Keeps(entry, RecordSaveReconciliationEntry(entry, result, confirmed, t))
<1> USE DEF Keeps, Archived, IsRecord, Entry, Stamped, Active, Settled, Stopped
<1>1. ~MarkExecutingRaises(entry) => Keeps(entry, MarkExecutingEntry(entry, t))
  BY DEF MarkExecutingRaises, MarkExecutingEntry
<1>2. Keeps(entry, HeartbeatEntry(entry, t))
  BY DEF HeartbeatEntry
<1>3. Keeps(entry, MarkTerminalEntry(entry, state, result, t))
  BY DEF MarkTerminalEntry
<1>4. ~MarkVerifiedRaises(entry) => Keeps(entry, MarkVerifiedEntry(entry, result, t))
  BY DEF MarkVerifiedRaises, MarkVerifiedEntry
<1>5. Keeps(entry, MarkCommittedEntry(entry, t))
  BY DEF MarkCommittedEntry
<1>6. Keeps(entry, RecordSaveReconciliationEntry(entry, result, confirmed, t))
  BY DEF RecordSaveReconciliationEntry
<1> QED BY <1>1, <1>2, <1>3, <1>4, <1>5, <1>6

LEMMA TornKeeps == \A entry \in Entry, d \in Digest :
    entry.state = "absent" => Keeps(entry, TornEntry(d))
BY DEF Keeps, TornEntry, AbsentEntry, Archived, IsRecord, Settled

JournalKept == \A k \in Key : Keeps(journal[k], journal'[k])

LEMMA PutKeeps ==
    ASSUME TypeOK, NEW k \in Key, NEW entry, Keeps(journal[k], entry), Put(k, entry)
    PROVE  JournalKept
BY KeepsItself DEF TypeOK, Put, JournalKept

LEMMA SameKeeps == TypeOK /\ UNCHANGED journal => JournalKept
BY KeepsItself DEF TypeOK, JournalKept

LEMMA MarkExecutingKeeps ==
    ASSUME TypeOK, NEW e \in Executor, MarkExecuting(e)
    PROVE  JournalKept
<1>1. CASE MarkExecutingRaises(EntryOf(e))
  BY <1>1, SameKeeps DEF MarkExecuting
<1>2. CASE ~MarkExecutingRaises(EntryOf(e))
  BY <1>2, EntryOfType, EmptyTypes, StepKeeps, PutKeeps
     DEF MarkExecuting, TypeOK, Stopped, EntryOf
<1> QED BY <1>1, <1>2

LEMMA HeartbeatKeeps ==
    ASSUME TypeOK, NEW e \in Executor, Heartbeat(e)
    PROVE  JournalKept
BY EntryOfType, EmptyTypes, StepKeeps, PutKeeps DEF Heartbeat, TypeOK, Stopped, EntryOf

LEMMA WithdrawKeeps ==
    ASSUME TypeOK, NEW e \in Executor, NEW state \in Stopped, WithdrawMutation(e, state)
    PROVE  JournalKept
<1>1. CASE IsRecord(EntryOf(e))
  BY <1>1, EntryOfType, EmptyTypes, StepKeeps, PutKeeps
     DEF WithdrawMutation, TypeOK, EntryOf
<1>2. CASE ~IsRecord(EntryOf(e))
  BY <1>2, SameKeeps DEF WithdrawMutation
<1> QED BY <1>1, <1>2

\* The result that commit gives to the journal.
CommittedResult(e, disposition) ==
    IF ChecksFingerprint(e) THEN Evidenced(outcome[e].result, disposition)
                            ELSE outcome[e].result

LEMMA CommittedResultType ==
    ASSUME TypeOK, NEW e \in Executor, NEW disposition
    PROVE  /\ CommittedResult(e, disposition) \in Result
           /\ CommittedResult(e, disposition).run = outcome[e].result.run
           /\ CommittedResult(e, disposition).present = outcome[e].result.present
           /\ CommittedResult(e, disposition).native = outcome[e].result.native
           /\ CommittedResult(e, disposition).declined = outcome[e].result.declined
<1>1. PICK result \in Result : result = outcome[e].result
  BY DEF TypeOK, Outcome
<1>2. /\ Evidenced(result, disposition) \in Result
      /\ Evidenced(result, disposition).run = result.run
      /\ Evidenced(result, disposition).present = result.present
      /\ Evidenced(result, disposition).native = result.native
      /\ Evidenced(result, disposition).declined = result.declined
  BY DEF Evidenced, Result
<1> QED BY <1>1, <1>2 DEF CommittedResult

LEMMA CommitSplit ==
    ASSUME NEW e \in Executor, NEW disposition, Commit(e, disposition)
    PROVE  /\ pc[e] = "returned" /\ UNCHANGED <<now, edits, acked>>
           /\ \/ Leave(e) /\ UNCHANGED journal
              \/ /\ Commits(e, disposition) /\ ~MarkVerifiedRaises(EntryOf(e))
                 /\ Put(ticket[e].key,
                        MarkVerifiedEntry(EntryOf(e), CommittedResult(e, disposition), now))
                 /\ Goto(e, "verified")
                 /\ outcome' = [outcome EXCEPT ![e].ok = TRUE,
                                   ![e].result = CommittedResult(e, disposition)]
                 /\ UNCHANGED <<ticket, run>>
              \/ /\ IsRecord(EntryOf(e))
                 /\ Put(ticket[e].key,
                        MarkTerminalEntry(EntryOf(e), "failed",
                                          CommittedResult(e, disposition), now))
                 /\ Goto(e, "answering")
                 /\ outcome' = [outcome EXCEPT ![e].result = CommittedResult(e, disposition)]
                 /\ UNCHANGED <<ticket, run>>
BY DEF Commit, CommittedResult

LEMMA CommitKeeps ==
    ASSUME TypeOK, NEW e \in Executor, NEW disposition, Commit(e, disposition)
    PROVE  JournalKept
BY CommitSplit, CommittedResultType, EntryOfType, StepKeeps, PutKeeps, SameKeeps
   DEF TypeOK, Stopped, EntryOf

LEMMA MarkCommittedKeeps ==
    ASSUME TypeOK, NEW e \in Executor, MarkCommitted(e)
    PROVE  JournalKept
<1>1. CASE MarkCommittedRaises(EntryOf(e))
  BY <1>1, SameKeeps DEF MarkCommitted
<1>2. CASE ~MarkCommittedRaises(EntryOf(e))
  BY <1>2, EntryOfType, EmptyTypes, StepKeeps, PutKeeps
     DEF MarkCommitted, TypeOK, Stopped, EntryOf
<1> QED BY <1>1, <1>2

LEMMA RecordSaveKeeps ==
    ASSUME TypeOK, NEW e \in Executor, RecordSaveReconciliation(e)
    PROVE  JournalKept
<1>1. outcome[e].result \in Result /\ outcome[e].ok \in BOOLEAN
  BY DEF TypeOK, Outcome
<1>2. CASE IsRecord(EntryOf(e))
  BY <1>1, <1>2, EntryOfType, StepKeeps, PutKeeps
     DEF RecordSaveReconciliation, TypeOK, Stopped, EntryOf
<1>3. CASE ~IsRecord(EntryOf(e))
  BY <1>3, SameKeeps DEF RecordSaveReconciliation
<1> QED BY <1>2, <1>3

LEMMA NextKeeps ==
    ASSUME TypeOK, [Next]_vars, ~(\E removed \in SUBSET Key : Prune(removed))
    PROVE  JournalKept
<1>1. ASSUME NEW e \in Executor, Progress(e)
      PROVE  JournalKept
  <2>1. ASSUME NEW k \in Key, NEW disposition, ReadFailedSave(e, k, disposition)
        PROVE  JournalKept
    BY <2>1, SameKeeps DEF ReadFailedSave
  <2>2. ASSUME NEW disposition, ImmediateStatus(e, disposition)
        PROVE  JournalKept
    BY <2>1, <2>2, SameKeeps DEF ImmediateStatus, Found
  <2>3. ASSUME \/ StartMutation(e) \/ Answer(e) \/ FinishReconcile(e)
               \/ \E report \in Reports, applies \in BOOLEAN :
                     Operate(e, report, applies)
        PROVE  JournalKept
    BY <2>3, SameKeeps DEF StartMutation, Answer, FinishReconcile, Operate
  <2> QED BY <1>1, <2>2, <2>3, MarkExecutingKeeps, CommitKeeps, MarkCommittedKeeps,
             RecordSaveKeeps DEF Progress
<1>2. ASSUME NEW e \in Executor, Call(e)
      PROVE  JournalKept
  <2>1. ASSUME NEW k \in Key, NEW d \in Digest, NEW recovery \in Recovery,
               Begin(e, k, d, recovery)
        PROVE  JournalKept
    BY <2>1, BeginKeeps, PutKeeps DEF Begin, TypeOK
  <2>2. ASSUME NEW r, NEW selector, NEW disposition,
               GetOperationStatus(e, r, selector, disposition)
        PROVE  JournalKept
    BY <2>2, SameKeeps DEF GetOperationStatus, ReadFailedSave
  <2>3. ASSUME Crash(e) \/ \E applies \in BOOLEAN : UnexpectedError(e, applies)
        PROVE  JournalKept
    BY <2>3, SameKeeps DEF Crash, UnexpectedError
  <2> QED BY <1>1, <1>2, <2>1, <2>2, <2>3, HeartbeatKeeps, WithdrawKeeps
          DEF Call, Recovery
<1>3. ASSUME NEW k \in Key, CrashInCreate(k)
      PROVE  JournalKept
  BY <1>3, TornKeeps, PutKeeps DEF CrashInCreate, TypeOK, Entry
<1>4. CASE Tick \/ UNCHANGED vars
  BY <1>4, SameKeeps DEF Tick, vars
<1> QED BY <1>2, <1>3, <1>4 DEF Next

-----------------------------------------------------------------------------
(* The archive.                                                            *)

LEMMA NextAudit ==
    ASSUME TypeOK, AuditTrail, [Next]_vars
    PROVE  AuditTrail'
<1>1. CASE \E removed \in SUBSET Key : Prune(removed)
  <2>1. \A d \in Digest : Archived(AbsentEntry(d))
    BY DEF Archived, AbsentEntry
  <2> QED BY <1>1, <2>1 DEF Prune, AuditTrail, Archived, TypeOK, Entry
<1>2. CASE ~(\E removed \in SUBSET Key : Prune(removed))
  <2>1. JournalKept
    BY <1>2, NextKeeps
  <2>2. \A k \in Key : Archived(journal[k])
    BY DEF AuditTrail, Archived
  <2>3. \A k \in Key : Archived(journal'[k])
    BY <2>1, <2>2 DEF JournalKept, Keeps
  <2> QED BY <2>3 DEF AuditTrail, Archived
<1> QED BY <1>1, <1>2

\* Every earlier attempt of an operation is on record as ended, and none that
\* changed the document in part was executed again.
THEOREM AuditTrailKept == Spec => []AuditTrail
<1>1. Init => AuditTrail
  BY DEF Init, AuditTrail, AbsentEntry
<1> QED BY <1>1, TypeCorrect, NextAudit, PTL DEF Spec

-----------------------------------------------------------------------------
(* Attempts and edits.                                                     *)

Accounts == TypeOK /\ OncePerAttempt /\ RunAccounting

\* A step takes nothing from, and grants nothing to, the run of call f.
Carries(f) ==
    \/ run'[f] = 0
    \/ /\ run'[f] = run[f] /\ ticket'[f] = ticket[f]
       /\ pc'[f] \in Executing \cup Beating
       /\ pc'[f] \in Executing => pc[f] \in Executing

AllCarry == \A f \in Executor : Carries(f)

LEMMA LeaveCarries ==
    ASSUME TypeOK, RunAccounting, NEW e \in Executor, Leave(e)
    PROVE  AllCarry
BY DEF TypeOK, RunAccounting, Leave, AllCarry, Carries

LEMMA StayCarries ==
    ASSUME TypeOK, RunAccounting, UNCHANGED <<pc, ticket, run>>
    PROVE  AllCarry
BY DEF TypeOK, RunAccounting, AllCarry, Carries

LEMMA GotoCarries ==
    ASSUME TypeOK, RunAccounting, NEW e \in Executor, NEW step \in Beating, Goto(e, step),
           step \in Executing => pc[e] \in Executing, UNCHANGED <<ticket, run>>
    PROVE  AllCarry
BY DEF TypeOK, RunAccounting, Goto, AllCarry, Carries

LEMMA CarriedAccounts ==
    ASSUME Accounts, TypeOK', JournalKept, AllCarry, UNCHANGED edits
    PROVE  Accounts'
<1> USE DEF Accounts
<1>1. OncePerAttempt'
  <2> SUFFICES ASSUME NEW k \in Key, NEW a \in Attempt
               PROVE  /\ edits'[k][a] <= 1
                      /\ edits'[k][a] = 1 =>
                            IsRecord(journal'[k]) /\ a <= journal'[k].attempt
    BY DEF OncePerAttempt
  <2>1. journal[k].attempt \in Int /\ journal'[k].attempt \in Int /\ a \in Int
    BY DEF TypeOK, Entry
  <2> QED BY <2>1 DEF OncePerAttempt, JournalKept, Keeps
<1>2. RunAccounting'
  <2> SUFFICES ASSUME NEW e \in Executor, run'[e] # 0
               PROVE  /\ pc'[e] \in Executing \cup Beating
                      /\ IsRecord(journal'[ticket'[e].key])
                      /\ run'[e] <= journal'[ticket'[e].key].attempt
                      /\ pc'[e] \in Executing => edits'[ticket'[e].key][run'[e]] = 0
                      /\ \A f \in Executor \ {e} :
                            ticket'[f].key = ticket'[e].key => run'[f] # run'[e]
    BY DEF RunAccounting, EntryOf
  <2>1. /\ run'[e] = run[e] /\ ticket'[e] = ticket[e]
        /\ pc'[e] \in Executing \cup Beating
        /\ pc'[e] \in Executing => pc[e] \in Executing
    BY DEF AllCarry, Carries
  <2>2. ticket[e].key \in Key
    BY DEF TypeOK, Ticket
  <2>3. IsRecord(journal'[ticket[e].key]) /\ run[e] <= journal'[ticket[e].key].attempt
    <3>1. IsRecord(EntryOf(e)) /\ run[e] <= EntryOf(e).attempt
      BY <2>1 DEF RunAccounting
    <3>2. /\ journal[ticket[e].key].attempt \in Int /\ run[e] \in Int
          /\ journal'[ticket[e].key].attempt \in Int
      BY <2>2 DEF TypeOK, Entry
    <3> QED BY <2>2, <3>1, <3>2 DEF JournalKept, Keeps, EntryOf
  <2>4. ASSUME NEW f \in Executor \ {e}, ticket'[f].key = ticket'[e].key
        PROVE  run'[f] # run'[e]
    BY <2>1, <2>4 DEF AllCarry, Carries, RunAccounting
  <2>5. pc'[e] \in Executing => edits'[ticket'[e].key][run'[e]] = 0
    BY <2>1 DEF RunAccounting
  <2> QED BY <2>1, <2>3, <2>4, <2>5
<1> QED BY <1>1, <1>2

LEMMA EditAccounts ==
    ASSUME Accounts, TypeOK', JournalKept, AllCarry,
           NEW e \in Executor, NEW applies \in BOOLEAN, pc[e] = "running",
           edits' = Edited(e, applies), run'[e] = 0 \/ pc'[e] \notin Executing
    PROVE  Accounts'
<1>0. /\ edits \in [Key -> [Attempt -> Nat]]
      /\ run \in [Executor -> 0 .. MaxAttempt]
      /\ ticket \in [Executor -> Ticket]
      /\ \A k \in Key : journal[k].attempt \in Int /\ journal'[k].attempt \in Int
  <2>1. \A k \in Key : journal[k] \in Entry /\ journal'[k] \in Entry
    BY DEF Accounts, TypeOK
  <2>2. \A entry \in Entry : entry.attempt \in Int
    BY LimitAssumption DEF Entry
  <2> QED BY <2>1, <2>2 DEF Accounts, TypeOK
<1>1. CASE applies /\ run[e] # 0
  <2> DEFINE k0 == ticket[e].key
  <2>1. /\ k0 \in Key /\ run[e] \in Attempt
        /\ IsRecord(journal[k0]) /\ run[e] <= journal[k0].attempt /\ edits[k0][run[e]] = 0
    BY <1>1, LimitAssumption
       DEF Accounts, TypeOK, Ticket, RunAccounting, EntryOf, Executing
  <2>2. edits' = [edits EXCEPT ![k0][run[e]] = 1]
    BY <1>1, <2>1 DEF Edited, Accounts, TypeOK
  <2>3. ASSUME NEW k \in Key, NEW a \in Attempt
        PROVE  edits'[k][a] = IF k = k0 /\ a = run[e] THEN 1 ELSE edits[k][a]
    <3>1. edits' = [edits EXCEPT ![k0] = [edits[k0] EXCEPT ![run[e]] = 1]]
      BY <2>2
    <3> HIDE DEF k0
    <3>2. CASE k = k0
      <4>1. edits'[k] = [edits[k0] EXCEPT ![run[e]] = 1]
        BY <1>0, <2>1, <3>1, <3>2
      <4>2. edits[k0] \in [Attempt -> Nat]
        BY <1>0, <2>1
      <4> QED BY <2>1, <3>2, <4>1, <4>2
    <3>3. CASE k # k0
      BY <1>0, <2>1, <3>1, <3>3
    <3> QED BY <3>2, <3>3
  <2>4. OncePerAttempt'
    <3> SUFFICES ASSUME NEW k \in Key, NEW a \in Attempt
                 PROVE  /\ edits'[k][a] <= 1
                        /\ edits'[k][a] = 1 =>
                              IsRecord(journal'[k]) /\ a <= journal'[k].attempt
      BY DEF OncePerAttempt
    <3>1. journal[k].attempt \in Int /\ journal'[k].attempt \in Int /\ a \in Int
      <4> HIDE DEF Entry, k0
      <4>1. journal[k] \in Entry /\ journal'[k] \in Entry
        BY DEF Accounts, TypeOK
      <4>2. \A entry \in Entry : entry.attempt \in Int
        BY LimitAssumption DEF Entry
      <4>3. a \in Int
        BY LimitAssumption
      <4> QED
        BY <4>1, <4>2, <4>3
    <3>2. Keeps(journal[k], journal'[k])
      BY DEF JournalKept
    <3>3. CASE k = k0 /\ a = run[e]
      BY <2>1, <2>3, <3>1, <3>2, <3>3 DEF Keeps
    <3>4. CASE ~(k = k0 /\ a = run[e])
      BY <2>3, <3>1, <3>2, <3>4 DEF Keeps, Accounts, OncePerAttempt
    <3> QED BY <3>3, <3>4
  <2>5. RunAccounting'
    <3> SUFFICES ASSUME NEW f \in Executor, run'[f] # 0
                 PROVE  /\ pc'[f] \in Executing \cup Beating
                        /\ IsRecord(journal'[ticket'[f].key])
                        /\ run'[f] <= journal'[ticket'[f].key].attempt
                        /\ pc'[f] \in Executing => edits'[ticket'[f].key][run'[f]] = 0
                        /\ \A g \in Executor \ {f} :
                              ticket'[g].key = ticket'[f].key => run'[g] # run'[f]
      BY DEF RunAccounting, EntryOf
    <3>1. /\ run'[f] = run[f] /\ ticket'[f] = ticket[f]
          /\ pc'[f] \in Executing \cup Beating
          /\ pc'[f] \in Executing => pc[f] \in Executing
      BY DEF AllCarry, Carries
    <3>2. ticket[f].key \in Key /\ run[f] \in Attempt
      BY <1>0, <3>1, LimitAssumption DEF Ticket
    <3>3. IsRecord(journal'[ticket[f].key]) /\ run[f] <= journal'[ticket[f].key].attempt
      <4>1. IsRecord(EntryOf(f)) /\ run[f] <= EntryOf(f).attempt
        BY <3>1 DEF Accounts, RunAccounting
      <4>2. /\ journal[ticket[f].key].attempt \in Int /\ run[f] \in Int
            /\ journal'[ticket[f].key].attempt \in Int
        BY <1>0, <3>2
      <4> QED BY <3>2, <4>1, <4>2 DEF JournalKept, Keeps, EntryOf
    <3>4. ASSUME NEW g \in Executor \ {f}, ticket'[g].key = ticket'[f].key
          PROVE  run'[g] # run'[f]
      BY <3>1, <3>4 DEF AllCarry, Carries, Accounts, RunAccounting
    <3>5. ASSUME pc'[f] \in Executing
          PROVE  edits'[ticket'[f].key][run'[f]] = 0
      <4>1. f # e
        BY <3>5
      <4>2. ~(ticket[f].key = k0 /\ run[f] = run[e])
        BY <1>1, <4>1 DEF Accounts, RunAccounting
      <4>3. edits[ticket[f].key][run[f]] = 0
        BY <3>1, <3>5 DEF Accounts, RunAccounting
      <4> QED BY <2>3, <3>1, <3>2, <4>2, <4>3
    <3> QED BY <3>1, <3>3, <3>4, <3>5
  <2> QED BY <2>4, <2>5 DEF Accounts
<1>2. CASE ~(applies /\ run[e] # 0)
  BY <1>2, CarriedAccounts DEF Edited
<1> QED BY <1>1, <1>2

\* A decision to execute grants a number that the entry had not reached.
LEMMA BeginGrants ==
    ASSUME NEW entry \in Entry, NEW d \in Digest, NEW recovery \in Recovery,
           NEW t \in Time, BeginDecision(entry, d, recovery, t) = "execute"
    PROVE  LET begun == BeginEntry(entry, d, recovery, t)
           IN  /\ IsRecord(begun)
               /\ ~IsRecord(entry) \/ begun.attempt = entry.attempt + 1
<1> DEFINE begun == BeginEntry(entry, d, recovery, t)
<1> USE DEF IsRecord, Recoverable, Active, Settled, Stopped
<1>1. CASE entry.state = "absent"
  <2>1. begun = NewRecord(d, t)
    BY <1>1 DEF BeginEntry
  <2> QED BY <1>1, <2>1 DEF NewRecord
<1>2. CASE entry.state # "absent"
  <2>1. entry.state \in {"torn"} \cup Active \cup Terminal
    BY <1>2 DEF Entry
  <2>2. /\ IsRecord(entry) /\ entry.digest = d /\ Recoverable(entry, t)
        /\ recovery # "none" /\ Reexecutes(entry, recovery)
    BY <1>2, <2>1 DEF BeginDecision, Terminal
  <2>3. begun = NextAttempt(entry, t)
    BY <1>2, <2>2 DEF BeginEntry, Recovered
  <2> QED BY <2>3 DEF NextAttempt
<1> QED BY <1>1, <1>2

LEMMA BeginAccounts ==
    ASSUME Accounts, TypeOK', NEW e \in Executor, NEW k \in Key, NEW d \in Digest,
           NEW recovery \in Recovery, Begin(e, k, d, recovery)
    PROVE  Accounts'
<1> DEFINE begun == BeginEntry(journal[k], d, recovery, now)
           decision == BeginDecision(journal[k], d, recovery, now)
<1>1. journal[k] \in Entry /\ now \in Time
  BY DEF Accounts, TypeOK
<1>2. JournalKept
  BY <1>1, BeginKeeps, PutKeeps DEF Begin, Accounts
<1>3. UNCHANGED edits /\ pc[e] = "idle" /\ journal' = [journal EXCEPT ![k] = begun]
  BY DEF Begin, Put
<1>4. CASE decision \notin {"execute", "reconcile"}
  <2>1. UNCHANGED <<pc, ticket, run>>
    BY <1>4 DEF Begin
  <2> QED BY <1>2, <1>3, <2>1, StayCarries, CarriedAccounts DEF Accounts
<1>5. CASE decision = "reconcile"
  <2>1. AllCarry
    <3>1. ASSUME NEW f \in Executor
          PROVE  Carries(f)
      <4>1. CASE f = e
        BY <1>5, <4>1 DEF Begin, Carries, Accounts, TypeOK
      <4>2. CASE f # e
        BY <1>5, <4>2
           DEF Begin, Goto, Carries, Accounts, TypeOK, RunAccounting
      <4> QED BY <4>1, <4>2
    <3> QED BY <3>1 DEF AllCarry
  <2> QED BY <1>2, <1>3, <2>1, CarriedAccounts
<1>6. CASE decision = "execute"
  <2> DEFINE a == begun.attempt
  <2>1. /\ IsRecord(begun) /\ a \in Attempt
        /\ ~IsRecord(journal[k]) \/ a = journal[k].attempt + 1
    BY <1>1, <1>6, BeginGrants DEF Begin
  <2>2. /\ journal'[k] = begun
        /\ \A l \in Key \ {k} : journal'[l] = journal[l]
    BY <1>3 DEF Accounts, TypeOK
  <2>3. /\ pc' = [pc EXCEPT ![e] = "granted"]
        /\ run' = [run EXCEPT ![e] = a]
        /\ ticket' = [ticket EXCEPT ![e] = ticket'[e]]
        /\ ticket'[e].key = k
    BY <1>6 DEF Begin, Goto, Accounts, TypeOK
  <2>4. \A l \in Key : journal[l].attempt \in Int /\ journal'[l].attempt \in Int
    <3>1. \A l \in Key : journal[l] \in Entry /\ journal'[l] \in Entry
      BY DEF Accounts, TypeOK
    <3>2. \A entry \in Entry : entry.attempt \in Int
      BY LimitAssumption DEF Entry
    <3> QED BY <3>1, <3>2
  <2> HIDE DEF a, begun
  <2>5. OncePerAttempt'
    BY <1>2, <1>3, <2>4 DEF Accounts, OncePerAttempt, JournalKept, Keeps
  <2>6. ASSUME NEW f \in Executor, ticket[f].key = k, run[f] # 0
        PROVE  run[f] # a
    <3>1. IsRecord(journal[k]) /\ run[f] <= journal[k].attempt
      BY <2>6 DEF Accounts, RunAccounting, EntryOf
    <3>2. run[f] \in Int
      BY DEF Accounts, TypeOK
    <3> QED BY <2>1, <2>4, <3>1, <3>2
  <2>7. edits[k][a] = 0
    <3>0. edits \in [Key -> [Attempt -> Nat]]
      BY DEF Accounts, TypeOK
    <3>1. edits[k][a] \in Nat
      BY <2>1, <3>0
    <3>2. edits[k][a] <= 1 /\ edits[k][a] # 1
      BY <2>1, <2>4 DEF Accounts, OncePerAttempt
    <3> QED BY <3>1, <3>2
  <2>8. RunAccounting'
    <3> SUFFICES ASSUME NEW f \in Executor, run'[f] # 0
                 PROVE  /\ pc'[f] \in Executing \cup Beating
                        /\ IsRecord(journal'[ticket'[f].key])
                        /\ run'[f] <= journal'[ticket'[f].key].attempt
                        /\ pc'[f] \in Executing => edits'[ticket'[f].key][run'[f]] = 0
                        /\ \A g \in Executor \ {f} :
                              ticket'[g].key = ticket'[f].key => run'[g] # run'[f]
      BY DEF RunAccounting, EntryOf
    <3>1. \A g \in Executor \ {e} :
             run'[g] = run[g] /\ ticket'[g] = ticket[g] /\ pc'[g] = pc[g]
      BY <2>3 DEF Accounts, TypeOK
    <3>2. run'[e] = a /\ ticket'[e].key = k /\ pc'[e] = "granted"
      BY <2>3 DEF Accounts, TypeOK
    <3>3. a # 0 /\ a \in Int
      BY <2>1
    <3>4. CASE f = e
      <4>1. a <= journal'[k].attempt
        BY <2>2, <2>4, <3>3 DEF a
      <4>2. ASSUME NEW g \in Executor \ {f}, ticket'[g].key = ticket'[f].key
            PROVE  run'[g] # run'[f]
        BY <2>6, <3>1, <3>2, <3>3, <3>4, <4>2
      <4> QED BY <1>3, <2>1, <2>2, <2>7, <3>2, <3>4, <4>1, <4>2 DEF Executing
    <3>5. CASE f # e
      <4>1. /\ pc[f] \in Executing \cup Beating /\ IsRecord(EntryOf(f))
            /\ run[f] <= EntryOf(f).attempt
            /\ pc[f] \in Executing => edits[ticket[f].key][run[f]] = 0
        BY <3>1, <3>5 DEF Accounts, RunAccounting
      <4>2. ticket[f].key \in Key /\ run[f] \in Int
        BY DEF Accounts, TypeOK, Ticket
      <4>3. IsRecord(journal'[ticket[f].key]) /\ run[f] <= journal'[ticket[f].key].attempt
        BY <1>2, <2>4, <4>1, <4>2 DEF JournalKept, Keeps, EntryOf
      <4>4. ASSUME NEW g \in Executor \ {f}, ticket'[g].key = ticket'[f].key
            PROVE  run'[g] # run'[f]
        <5>1. CASE g = e
          BY <2>6, <3>1, <3>2, <3>5, <4>4, <5>1
        <5>2. CASE g # e
          BY <3>1, <3>5, <4>4, <5>2 DEF Accounts, RunAccounting
        <5> QED BY <5>1, <5>2
      <4> QED BY <1>3, <3>1, <3>5, <4>1, <4>3, <4>4
    <3> QED BY <3>4, <3>5
  <2> QED BY <2>5, <2>8 DEF Accounts
<1> QED BY <1>4, <1>5, <1>6

LEMMA PruneAccounts ==
    ASSUME Accounts, TypeOK', NEW removed \in SUBSET Key, Prune(removed)
    PROVE  Accounts'
<1>1. /\ journal' = [k \in Key |-> IF k \in removed THEN AbsentEntry(journal[k].digest)
                                                     ELSE journal[k]]
      /\ run' = [f \in Executor |-> IF ticket[f].key \in removed THEN 0 ELSE run[f]]
      /\ edits' = [k \in Key |-> IF k \in removed
                                 THEN [a \in Attempt |-> 0] ELSE edits[k]]
      /\ UNCHANGED <<pc, ticket>>
  BY DEF Prune
<1>2. \A f \in Executor : ticket[f].key \in Key /\ run[f] \in 0 .. MaxAttempt
  BY DEF Accounts, TypeOK, Ticket
<1>3. OncePerAttempt'
  BY <1>1 DEF Accounts, OncePerAttempt
<1>4. RunAccounting'
  BY <1>1, <1>2 DEF Accounts, RunAccounting, EntryOf
<1> QED BY <1>3, <1>4 DEF Accounts

\* The write of a call in progress, which its step ends.
Writes(e, applies) ==
    /\ AllCarry /\ pc[e] = "running" /\ edits' = Edited(e, applies)
    /\ run'[e] = 0 \/ pc'[e] \notin Executing

\* What a step other than pruning does to the runs and to the document.
Fate ==
    \/ AllCarry /\ UNCHANGED edits
    \/ \E e \in Executor, applies \in BOOLEAN : Writes(e, applies)
    \/ \E e \in Executor, k \in Key, d \in Digest, recovery \in Recovery :
          Begin(e, k, d, recovery)

LEMMA NextFate ==
    ASSUME Accounts, [Next]_vars, ~(\E removed \in SUBSET Key : Prune(removed))
    PROVE  Fate
<1> USE DEF Beating, Executing
<1>1. ASSUME AllCarry, UNCHANGED edits
      PROVE  Fate
  BY <1>1 DEF Fate
<1>2. ASSUME NEW e \in Executor, Leave(e), UNCHANGED edits
      PROVE  Fate
  BY <1>1, <1>2, LeaveCarries DEF Accounts
<1>3. ASSUME NEW e \in Executor, NEW step \in Beating, Goto(e, step),
             step \in Executing => pc[e] \in Executing,
             UNCHANGED <<ticket, run, edits>>
      PROVE  Fate
  BY <1>1, <1>3, GotoCarries DEF Accounts
<1>4. ASSUME UNCHANGED <<pc, ticket, run, edits>>
      PROVE  Fate
  BY <1>1, <1>4, StayCarries DEF Accounts
<1>5. ASSUME NEW e \in Executor, NEW k \in Key, NEW disposition,
             ReadFailedSave(e, k, disposition)
      PROVE  Fate
  <2>1. CASE disposition \in {"confirmed", "likely"}
    <3>1. ASSUME NEW f \in Executor
          PROVE  Carries(f)
      BY <1>5, <2>1 DEF ReadFailedSave, Goto, Carries, Accounts, TypeOK, RunAccounting
    <3> QED BY <1>1, <1>5, <3>1 DEF ReadFailedSave, AllCarry
  <2>2. CASE disposition \notin {"confirmed", "likely"}
    BY <1>2, <1>5, <2>2 DEF ReadFailedSave
  <2> QED BY <2>1, <2>2
<1>6. ASSUME NEW e \in Executor, Progress(e)
      PROVE  Fate
  <2>1. ASSUME MarkExecuting(e)
        PROVE  Fate
    BY <1>2, <1>3, <2>1 DEF MarkExecuting
  <2>2. ASSUME StartMutation(e)
        PROVE  Fate
    BY <1>3, <2>2 DEF StartMutation, history
  <2>3. ASSUME NEW report \in Reports, NEW applies \in BOOLEAN,
               Operate(e, report, applies)
        PROVE  Fate
    <3>1. AllCarry
      BY <2>3, GotoCarries DEF Operate, Accounts
    <3>2. pc[e] = "running" /\ edits' = Edited(e, applies) /\ pc'[e] = "returned"
      BY <2>3 DEF Operate, Goto, Accounts, TypeOK
    <3> QED BY <3>1, <3>2 DEF Fate, Writes, Executing
  <2>4. ASSUME NEW disposition, Commit(e, disposition)
        PROVE  Fate
    BY <1>2, <1>3, <2>4, CommitSplit
  <2>5. ASSUME MarkCommitted(e)
        PROVE  Fate
    BY <1>2, <1>3, <2>5 DEF MarkCommitted
  <2>6. ASSUME Answer(e) \/ FinishReconcile(e) \/ RecordSaveReconciliation(e)
        PROVE  Fate
    BY <1>2, <2>6 DEF Answer, FinishReconcile, RecordSaveReconciliation
  <2>7. ASSUME NEW disposition, ImmediateStatus(e, disposition)
        PROVE  Fate
    BY <1>2, <1>5, <2>7 DEF ImmediateStatus, Found
  <2> QED BY <1>6, <2>1, <2>2, <2>3, <2>4, <2>5, <2>6, <2>7 DEF Progress
<1>7. ASSUME NEW e \in Executor, Call(e)
      PROVE  Fate
  <2>1. ASSUME NEW applies \in BOOLEAN, UnexpectedError(e, applies)
        PROVE  Fate
    <3>1. AllCarry
      BY <2>1, LeaveCarries DEF UnexpectedError, Accounts
    <3>2. pc[e] = "running" /\ edits' = Edited(e, applies) /\ run'[e] = 0
      BY <2>1 DEF UnexpectedError, Leave, Accounts, TypeOK
    <3> QED BY <3>1, <3>2 DEF Fate, Writes, Executing
  <2>2. ASSUME NEW r, NEW selector, NEW disposition,
               GetOperationStatus(e, r, selector, disposition)
        PROVE  Fate
    BY <1>5, <2>2 DEF GetOperationStatus, Found
  <2>3. ASSUME Heartbeat(e)
        PROVE  Fate
    BY <1>4, <2>3 DEF Heartbeat, history
  <2>4. ASSUME Crash(e) \/ \E state \in Stopped : WithdrawMutation(e, state)
        PROVE  Fate
    BY <1>2, <2>4 DEF Crash, WithdrawMutation
  <2>5. ASSUME NEW k \in Key, NEW d \in Digest, NEW recovery \in Recovery,
               Begin(e, k, d, recovery)
        PROVE  Fate
    BY <2>5 DEF Fate
  <2> QED BY <1>6, <1>7, <2>1, <2>2, <2>3, <2>4, <2>5 DEF Call, Recovery
<1>8. CASE Tick \/ UNCHANGED vars \/ \E k \in Key : CrashInCreate(k)
  BY <1>4, <1>8 DEF Tick, vars, history, CrashInCreate
<1> QED BY <1>7, <1>8 DEF Next

LEMMA NextAccounts ==
    ASSUME Accounts, [Next]_vars
    PROVE  Accounts'
<1>0. TypeOK'
  BY NextType DEF Accounts
<1>1. CASE \E removed \in SUBSET Key : Prune(removed)
  BY <1>0, <1>1, PruneAccounts
<1>2. CASE ~(\E removed \in SUBSET Key : Prune(removed))
  <2>1. JournalKept /\ Fate
    BY <1>2, NextKeeps, NextFate DEF Accounts
  <2> QED BY <1>0, <2>1, CarriedAccounts, EditAccounts, BeginAccounts DEF Fate, Writes
<1> QED BY <1>1, <1>2

\* However calls crash, come late and overlap, one attempt writes the document
\* at most once.
THEOREM OncePerAttemptHolds == Spec => []OncePerAttempt
<1>1. Init => Accounts
  <2> SUFFICES ASSUME Init PROVE Accounts
    OBVIOUS
  <2>1. TypeOK
    BY InitType
  <2>2. OncePerAttempt /\ RunAccounting
    BY DEF Init, OncePerAttempt, RunAccounting
  <2> QED BY <2>1, <2>2 DEF Accounts
<1>2. Accounts /\ [Next]_vars => Accounts'
  BY NextAccounts
<1>3. Accounts => OncePerAttempt
  BY DEF Accounts
<1> QED BY <1>1, <1>2, <1>3, PTL DEF Spec

\* With any number of calls, crashes and late heartbeats the journal accounts for
\* everything that was done to the document: the three theorems in one.
THEOREM AllAccounted == Spec => []EntriesAccounted
<1>1. TypeOK /\ OncePerAttempt /\ AuditTrail => EntriesAccounted
  BY DEF EntriesAccounted
<1> QED BY <1>1, TypeCorrect, OncePerAttemptHolds, AuditTrailKept, PTL

-----------------------------------------------------------------------------
(* What one step other than pruning may make of an entry, and of all.      *)

Touches(old, new) ==
    \/ new = old
    \/ /\ \E d \in Digest, recovery \in Recovery, t \in Time :
              new = BeginEntry(old, d, recovery, t)
       /\ new.attempt \in Attempt
    \/ old.state = "absent" /\ \E d \in Digest : new = TornEntry(d)
    \/ ~MarkExecutingRaises(old) /\ \E t \in Time : new = MarkExecutingEntry(old, t)
    \/ \E t \in Time : new = HeartbeatEntry(old, t)
    \/ \E state \in Stopped, result \in Result, t \in Time :
          new = MarkTerminalEntry(old, state, result, t)
    \/ /\ ~MarkVerifiedRaises(old)
       /\ \E result \in Result, t \in Time : new = MarkVerifiedEntry(old, result, t)
    \/ ~MarkCommittedRaises(old) /\ \E t \in Time : new = MarkCommittedEntry(old, t)
    \/ \E result \in Result, confirmed \in BOOLEAN, t \in Time :
          new = RecordSaveReconciliationEntry(old, result, confirmed, t)

OneTouched ==
    \/ UNCHANGED journal
    \/ \E k \in Key, new \in Entry : Touches(journal[k], new) /\ Put(k, new)

\* What the entry of a first attempt is called, and how it may change.
Named(entry) ==
    IsRecord(entry) /\ entry.attempt = 1 =>
        entry.named /\ entry.operation = Workflow[entry.digest]

KeepsName(old, new) ==
    /\ Named(old) => Named(new)
    /\ IsRecord(old) => new.digest = old.digest

\* A result that does not decline comes from a run that wrote.
Wrote(k, result) ==
    result.run # 0 /\ ~result.declined => edits[k][result.run] = 1

\* The trace of a call: what it was told and what it is about to tell.
CallTrue(e) ==
    /\ outcome[e].ok => pc[e] \in {"verified", "answering", "reconciling"}
    /\ pc[e] \in {"returned", "verified"} => outcome[e].result.run = run[e]
    /\ (pc[e] = "verified" /\ run[e] # 0) =>
          EntryOf(e).state \in Settled /\ EntryOf(e).result.run = run[e]
    /\ (pc[e] = "answering" /\ outcome[e].ok /\ run[e] # 0) =>
          EntryOf(e).state = "committed" /\ EntryOf(e).result.run = run[e]
    /\ pc[e] = "idle" => ~outcome[e].result.native
    /\ outcome[e].result.native => Wrote(ticket[e].key, outcome[e].result)
    /\ pc[e] = "returned" =>
          /\ outcome[e].result.present
          /\ IsExecuted(outcome[e].report) => Wrote(ticket[e].key, outcome[e].result)
    /\ pc[e] = "reconciling" =>
          /\ outcome[e].result.present
          /\ outcome[e].ok => outcome[e].result.native /\ outcome[e].result.proved
    /\ (run[e] # 0 /\ EntryOf(e).attempt = 1) =>
          ticket[e].named /\ ticket[e].operation = Workflow[EntryOf(e).digest]

\* What an entry says is true of the document and of the files.
EntryTrue(k) ==
    /\ Named(journal[k])
    /\ journal[k].result.native => Wrote(k, journal[k].result)
    /\ journal[k].state \in Settled =>
          /\ journal[k].result.present
          /\ Wrote(k, journal[k].result)
          /\ (/\ journal[k].attempt = 1 /\ Workflow[journal[k].digest] = "save"
              /\ journal[k].result.run # 0) => journal[k].result.proved
    /\ \A a \in acked[k] :
          journal[k].state = "committed" /\ journal[k].result.run = a

Truth ==
    /\ Accounts
    /\ \A k \in Key : EntryTrue(k)
    /\ \A e \in Executor : CallTrue(e)

\* While heartbeats are punctual: the attempt of a call that may still write or
\* report stands in the journal, active and fresh, and is nobody else's.
Owns(e) ==
    pc[e] \in Executing \cup {"returned"} =>
        /\ EntryOf(e).state \in Active
        /\ EntryOf(e).attempt = run[e]
        /\ now - EntryOf(e).heartbeat < StaleTimeout
        /\ \A f \in Executor \ {e} :
              pc[f] \in Executing \cup {"returned"} => ticket[f].key # ticket[e].key

Owners == punctual => \A e \in Executor : Owns(e)

-----------------------------------------------------------------------------
(* Every step but pruning touches one entry by one function of the journal. *)

LEMMA PutTouches ==
    ASSUME TypeOK', NEW k \in Key, NEW new, Touches(journal[k], new), Put(k, new), TypeOK
    PROVE  OneTouched
<1>1. new \in Entry
  <2>1. journal' = [journal EXCEPT ![k] = new] /\ journal \in [Key -> Entry]
    BY DEF Put, TypeOK
  <2>2. journal'[k] = new
    BY <2>1
  <2> QED BY <2>2 DEF TypeOK
<1> QED BY <1>1 DEF OneTouched

LEMMA NextTouches ==
    ASSUME TypeOK, TypeOK', [Next]_vars, ~(\E removed \in SUBSET Key : Prune(removed))
    PROVE  OneTouched
<1>0. now \in Time /\ \A e \in Executor : ticket[e].key \in Key
  BY DEF TypeOK, Ticket
<1>1. ASSUME UNCHANGED journal
      PROVE  OneTouched
  BY <1>1 DEF OneTouched
<1>2. ASSUME NEW e \in Executor, NEW k \in Key, NEW d \in Digest,
             NEW recovery \in Recovery, Begin(e, k, d, recovery)
      PROVE  OneTouched
  <2>1. Touches(journal[k], BeginEntry(journal[k], d, recovery, now))
    BY <1>0, <1>2 DEF Begin, Touches
  <2> QED BY <1>2, <2>1, PutTouches DEF Begin
<1>3. ASSUME NEW e \in Executor, MarkExecuting(e)
      PROVE  OneTouched
  <2>1. CASE MarkExecutingRaises(EntryOf(e))
    BY <1>1, <1>3, <2>1 DEF MarkExecuting
  <2>2. CASE ~MarkExecutingRaises(EntryOf(e))
    <3>1. Touches(EntryOf(e), MarkExecutingEntry(EntryOf(e), now))
      BY <1>0, <2>2 DEF Touches
    <3> QED BY <1>0, <1>3, <2>2, <3>1, PutTouches DEF MarkExecuting, EntryOf
  <2> QED BY <2>1, <2>2
<1>4. ASSUME NEW e \in Executor, Heartbeat(e)
      PROVE  OneTouched
  <2>1. Touches(EntryOf(e), HeartbeatEntry(EntryOf(e), now))
    BY <1>0 DEF Touches
  <2> QED BY <1>0, <1>4, <2>1, PutTouches DEF Heartbeat, EntryOf
<1>5. ASSUME NEW e \in Executor, NEW state \in Stopped, NEW result \in Result,
             Put(ticket[e].key, MarkTerminalEntry(EntryOf(e), state, result, now))
      PROVE  OneTouched
  <2>1. Touches(EntryOf(e), MarkTerminalEntry(EntryOf(e), state, result, now))
    BY <1>0 DEF Touches
  <2> QED BY <1>0, <1>5, <2>1, PutTouches DEF EntryOf
<1>6. ASSUME NEW e \in Executor, NEW state \in Stopped, WithdrawMutation(e, state)
      PROVE  OneTouched
  BY <1>1, <1>5, <1>6, EmptyTypes DEF WithdrawMutation
<1>7. ASSUME NEW e \in Executor, NEW disposition, Commit(e, disposition)
      PROVE  OneTouched
  <2>1. CommittedResult(e, disposition) \in Result
    BY CommittedResultType
  <2>2. CASE UNCHANGED journal
    BY <1>1, <2>2
  <2>3. CASE /\ ~MarkVerifiedRaises(EntryOf(e))
             /\ Put(ticket[e].key,
                    MarkVerifiedEntry(EntryOf(e), CommittedResult(e, disposition), now))
    <3>1. Touches(EntryOf(e),
                  MarkVerifiedEntry(EntryOf(e), CommittedResult(e, disposition), now))
      BY <1>0, <2>1, <2>3 DEF Touches
    <3> QED BY <1>0, <2>3, <3>1, PutTouches DEF EntryOf
  <2>4. CASE Put(ticket[e].key,
                 MarkTerminalEntry(EntryOf(e), "failed",
                                   CommittedResult(e, disposition), now))
    BY <1>5, <2>1, <2>4 DEF Stopped
  <2> QED BY <1>7, <2>2, <2>3, <2>4, CommitSplit
<1>8. ASSUME NEW e \in Executor, MarkCommitted(e)
      PROVE  OneTouched
  <2>1. CASE MarkCommittedRaises(EntryOf(e))
    BY <1>1, <1>8, <2>1 DEF MarkCommitted
  <2>2. CASE ~MarkCommittedRaises(EntryOf(e))
    <3>1. Touches(EntryOf(e), MarkCommittedEntry(EntryOf(e), now))
      BY <1>0, <2>2 DEF Touches
    <3> QED BY <1>0, <1>8, <2>2, <3>1, PutTouches DEF MarkCommitted, EntryOf
  <2> QED BY <2>1, <2>2
<1>9. ASSUME NEW e \in Executor, RecordSaveReconciliation(e)
      PROVE  OneTouched
  <2> DEFINE new == RecordSaveReconciliationEntry(EntryOf(e), outcome[e].result,
                                                  outcome[e].ok, now)
  <2>1. outcome[e].result \in Result /\ outcome[e].ok \in BOOLEAN
    BY DEF TypeOK, Outcome
  <2>2. Touches(EntryOf(e), new)
    BY <1>0, <2>1 DEF Touches
  <2>3. UNCHANGED journal \/ Put(ticket[e].key, new)
    BY <1>9 DEF RecordSaveReconciliation
  <2> HIDE DEF new
  <2> QED BY <1>0, <1>1, <2>2, <2>3, PutTouches DEF EntryOf
<1>10. ASSUME NEW e \in Executor, Progress(e)
       PROVE  OneTouched
  <2>1. ASSUME \/ StartMutation(e) \/ Answer(e) \/ FinishReconcile(e)
               \/ \E report \in Reports, applies \in BOOLEAN :
                     Operate(e, report, applies)
        PROVE  OneTouched
    BY <1>1, <2>1 DEF StartMutation, Answer, FinishReconcile, Operate
  <2>2. ASSUME NEW disposition, ImmediateStatus(e, disposition)
        PROVE  OneTouched
    BY <1>1, <2>2 DEF ImmediateStatus, ReadFailedSave
  <2> QED BY <1>3, <1>7, <1>8, <1>9, <1>10, <2>1, <2>2 DEF Progress
<1>11. ASSUME NEW e \in Executor, Call(e)
       PROVE  OneTouched
  <2>1. ASSUME \/ Crash(e) \/ \E applies \in BOOLEAN : UnexpectedError(e, applies)
        PROVE  OneTouched
    BY <1>1, <2>1 DEF Crash, UnexpectedError
  <2>2. ASSUME NEW r, NEW selector, NEW disposition,
               GetOperationStatus(e, r, selector, disposition)
        PROVE  OneTouched
    BY <1>1, <2>2 DEF GetOperationStatus, ReadFailedSave
  <2> QED BY <1>2, <1>4, <1>6, <1>10, <1>11, <2>1, <2>2 DEF Call, Recovery
<1>12. ASSUME NEW k \in Key, CrashInCreate(k)
       PROVE  OneTouched
  <2>1. Touches(journal[k], TornEntry(journal[k].digest))
    BY <1>12 DEF CrashInCreate, Touches, TypeOK, Entry
  <2> QED BY <1>12, <2>1, PutTouches DEF CrashInCreate
<1>13. CASE Tick \/ UNCHANGED vars
  BY <1>1, <1>13 DEF Tick, vars
<1> QED BY <1>11, <1>12, <1>13 DEF Next

-----------------------------------------------------------------------------
(* What a touched entry keeps, and how it moves in the eyes of a caller.   *)

\* Which of the functions of the journal gave the new entry, by cases: the ones
\* begin has, and the ones of StepEntryTypes.
LEMMA BeginCases ==
    ASSUME NEW entry \in Entry, NEW d \in Digest, NEW recovery \in Recovery, NEW t \in Time
    PROVE  LET new == BeginEntry(entry, d, recovery, t)
           IN  \/ new = entry
               \/ entry.state = "absent" /\ new = NewRecord(d, t)
               \/ /\ entry.state = "verified"
                  /\ new = [entry EXCEPT !.state = "committed", !.updated = t]
               \/ entry.state \in Active /\ new = Stamped(entry, "aborted", t)
               \/ /\ Recoverable(entry, t) /\ ~entry.result.partial
                  /\ new = NextAttempt(entry, t)
<1> DEFINE new == BeginEntry(entry, d, recovery, t)
<1>1. CASE entry.state = "absent"
  BY <1>1 DEF BeginEntry, IsRecord
<1>2. CASE /\ entry.state # "absent"
           /\ IsRecord(entry) /\ entry.digest = d /\ entry.state = "verified"
  BY <1>2 DEF BeginEntry, Recoverable, Active, Stopped
<1>3. CASE /\ entry.state # "absent" /\ entry.state # "verified"
           /\ IsRecord(entry) /\ entry.digest = d
           /\ Recoverable(entry, t) /\ recovery # "none"
  <2>1. new = Recovered(entry, recovery, t)
    BY <1>3 DEF BeginEntry
  <2> QED BY <1>3, <2>1 DEF Recovered, Reexecutes, Reconciled
<1>4. CASE new = entry
  BY <1>4
<1> QED BY <1>1, <1>2, <1>3, <1>4 DEF BeginEntry

LEMMA TouchesKeeps ==
    ASSUME NEW old \in Entry, NEW new, Touches(old, new)
    PROVE  Keeps(old, new)
<1>1. /\ NoResult \in Result /\ "failed" \in Stopped /\ TRUE \in BOOLEAN
      /\ 0 \in Time
  BY EmptyTypes, LimitAssumption DEF Stopped
<1>2. \A t \in Time :
         /\ ~MarkExecutingRaises(old) => Keeps(old, MarkExecutingEntry(old, t))
         /\ Keeps(old, HeartbeatEntry(old, t))
         /\ Keeps(old, MarkCommittedEntry(old, t))
  BY <1>1, StepKeeps
<1>3. \A t \in Time, result \in Result : 
         /\ \A state \in Stopped : Keeps(old, MarkTerminalEntry(old, state, result, t))
         /\ ~MarkVerifiedRaises(old) => Keeps(old, MarkVerifiedEntry(old, result, t))
         /\ \A confirmed \in BOOLEAN :
               Keeps(old, RecordSaveReconciliationEntry(old, result, confirmed, t))
  BY <1>1, StepKeeps
<1> QED BY <1>2, <1>3, KeepsItself, BeginKeeps, TornKeeps DEF Touches

LEMMA TouchesName ==
    ASSUME NEW old \in Entry, NEW new, Touches(old, new)
    PROVE  KeepsName(old, new)
<1> USE DEF KeepsName, Named, IsRecord, Active
<1>1. CASE new = old
  BY <1>1
<1>2. ASSUME NEW d \in Digest, NEW recovery \in Recovery, NEW t \in Time,
             new = BeginEntry(old, d, recovery, t)
      PROVE  KeepsName(old, new)
  <2>1. CASE old.state = "absent" /\ new = NewRecord(d, t)
    BY <2>1 DEF NewRecord
  <2>2. CASE old.state = "verified" /\ new = [old EXCEPT !.state = "committed", !.updated = t]
    BY <2>2 DEF Entry
  <2>3. CASE old.state \in Active /\ new = Stamped(old, "aborted", t)
    BY <2>3 DEF Entry, Stamped
  <2>4. CASE Recoverable(old, t) /\ new = NextAttempt(old, t)
    <3>1. old.attempt \in Nat \ {0}
      BY DEF Entry
    <3> QED BY <2>4, <3>1 DEF NextAttempt
  <2> QED BY <1>1, <1>2, <2>1, <2>2, <2>3, <2>4, BeginCases
<1>3. CASE old.state = "absent" /\ \E d \in Digest : new = TornEntry(d)
  BY <1>3 DEF TornEntry, AbsentEntry
<1>4. CASE ~MarkExecutingRaises(old) /\ \E t \in Time : new = MarkExecutingEntry(old, t)
  BY <1>4 DEF MarkExecutingRaises, MarkExecutingEntry, Stamped, Entry
<1>5. CASE \E t \in Time : new = HeartbeatEntry(old, t)
  BY <1>5 DEF HeartbeatEntry, Stamped, Entry
<1>6. CASE \E state \in Stopped, result \in Result, t \in Time :
              new = MarkTerminalEntry(old, state, result, t)
  BY <1>6 DEF MarkTerminalEntry, Stamped, Entry
<1>7. CASE ~MarkVerifiedRaises(old) /\ \E result \in Result, t \in Time :
              new = MarkVerifiedEntry(old, result, t)
  BY <1>7 DEF MarkVerifiedRaises, MarkVerifiedEntry, Entry
<1>8. CASE \E t \in Time : new = MarkCommittedEntry(old, t)
  BY <1>8 DEF MarkCommittedEntry, Entry
<1>9. CASE \E result \in Result, confirmed \in BOOLEAN, t \in Time :
              new = RecordSaveReconciliationEntry(old, result, confirmed, t)
  BY <1>9 DEF RecordSaveReconciliationEntry, Stamped, Entry
<1> QED BY <1>1, <1>2, <1>3, <1>4, <1>5, <1>6, <1>7, <1>8, <1>9 DEF Touches

AnswerOf(entry) == IF entry.state \in Settled THEN entry.result ELSE NoResult

\* The step of OperationPromise that a new entry amounts to, if any.
Moves(old, new) ==
    \/ /\ PhaseOf(new) = PhaseOf(old) /\ new.attempt = old.attempt
       /\ AnswerOf(new) = AnswerOf(old)
    \/ /\ PhaseOf(old) = "unknown" /\ PhaseOf(new) \in {"open", "spoiled"}
       /\ new.attempt = old.attempt /\ AnswerOf(new) = AnswerOf(old)
    \/ /\ PhaseOf(old) = "open" /\ PhaseOf(new) = "stopped"
       /\ new.attempt = old.attempt /\ AnswerOf(new) = AnswerOf(old)
    \/ /\ PhaseOf(old) \in {"open", "stopped"} /\ PhaseOf(new) = "open"
       /\ old.attempt < MaxAttempt /\ new.attempt = old.attempt + 1
       /\ AnswerOf(new) = AnswerOf(old)
    \/ /\ PhaseOf(old) \in {"open", "stopped"} /\ PhaseOf(new) = "done"
       /\ new.attempt = old.attempt /\ AnswerOf(new) \in Result

\* An entry that is not there is at its first attempt.
Fresh(entry) == entry.state \in {"absent", "torn"} => entry.attempt = 1

LEMMA PhaseCases ==
    ASSUME NEW entry
    PROVE  /\ entry.state = "absent" => PhaseOf(entry) = "unknown"
           /\ entry.state = "torn" => PhaseOf(entry) = "spoiled"
           /\ entry.state \in Active => PhaseOf(entry) = "open"
           /\ entry.state \in Stopped => PhaseOf(entry) = "stopped"
           /\ entry.state \in Settled => PhaseOf(entry) = "done"
BY DEF PhaseOf, Active, Stopped, Settled

LEMMA TouchesMoves ==
    ASSUME NEW old \in Entry, NEW new \in Entry, Touches(old, new), Fresh(old)
    PROVE  Moves(old, new) /\ Fresh(new)
<1> USE DEF Fresh, AnswerOf, Active, Stopped, Settled
<1>0. /\ old.attempt \in Nat \ {0} /\ new.attempt \in Nat \ {0}
      /\ new.attempt <= MaxAttempt /\ MaxAttempt \in Nat
      /\ old.state \in {"absent", "torn", "accepted", "executing", "verified",
                        "committed", "failed", "aborted"}
      /\ new.result \in Result
  BY LimitAssumption DEF Entry, Terminal
<1>1. CASE new = old
  BY <1>1 DEF Moves
<1>2. ASSUME NEW d \in Digest, NEW recovery \in Recovery, NEW t \in Time,
             new = BeginEntry(old, d, recovery, t)
      PROVE  Moves(old, new) /\ Fresh(new)
  <2>1. CASE old.state = "absent" /\ new = NewRecord(d, t)
    <3>1. new.state = "accepted" /\ new.attempt = 1
      BY <2>1 DEF NewRecord
    <3> QED BY <2>1, <3>1, PhaseCases DEF Moves
  <2>2. CASE old.state = "verified" /\ new = [old EXCEPT !.state = "committed", !.updated = t]
    <3>1. new.state = "committed" /\ new.attempt = old.attempt /\ new.result = old.result
      BY <2>2 DEF Entry
    <3> QED BY <2>2, <3>1, PhaseCases DEF Moves
  <2>3. CASE old.state \in Active /\ new = Stamped(old, "aborted", t)
    <3>1. new.state = "aborted" /\ new.attempt = old.attempt
      BY <2>3 DEF Stamped, Entry
    <3> QED BY <2>3, <3>1, PhaseCases DEF Moves
  <2>4. CASE Recoverable(old, t) /\ new = NextAttempt(old, t)
    <3>1. new.state = "accepted" /\ new.attempt = old.attempt + 1
      BY <2>4 DEF NextAttempt
    <3>2. old.state \in Active \cup Stopped /\ old.attempt < MaxAttempt
      BY <1>0, <2>4, <3>1 DEF Recoverable
    <3> QED BY <3>1, <3>2, PhaseCases DEF Moves
  <2> HIDE DEF Fresh, AnswerOf, Active, Stopped, Settled
  <2>5. LET begun == BeginEntry(old, d, recovery, t)
        IN  \/ begun = old
            \/ old.state = "absent" /\ begun = NewRecord(d, t)
            \/ /\ old.state = "verified"
               /\ begun = [old EXCEPT !.state = "committed", !.updated = t]
            \/ old.state \in Active /\ begun = Stamped(old, "aborted", t)
            \/ /\ Recoverable(old, t) /\ ~old.result.partial
               /\ begun = NextAttempt(old, t)
    BY BeginCases
  <2>6. \/ new = old
        \/ old.state = "absent" /\ new = NewRecord(d, t)
        \/ /\ old.state = "verified"
           /\ new = [old EXCEPT !.state = "committed", !.updated = t]
        \/ old.state \in Active /\ new = Stamped(old, "aborted", t)
        \/ Recoverable(old, t) /\ new = NextAttempt(old, t)
    BY <1>2, <2>5
  <2> QED BY <1>1, <2>1, <2>2, <2>3, <2>4, <2>6
<1>3. CASE old.state = "absent" /\ \E d \in Digest : new = TornEntry(d)
  <2>1. new.state = "torn" /\ new.attempt = 1
    BY <1>3 DEF TornEntry, AbsentEntry
  <2> QED BY <1>3, <2>1, PhaseCases DEF Moves
<1>4. CASE ~MarkExecutingRaises(old) /\ \E t \in Time : new = MarkExecutingEntry(old, t)
  <2>1. old.state = "accepted" /\ new.state = "executing" /\ new.attempt = old.attempt
    BY <1>4 DEF MarkExecutingRaises, MarkExecutingEntry, Stamped, Entry
  <2> QED BY <2>1, PhaseCases DEF Moves
<1>5. CASE \E t \in Time : new = HeartbeatEntry(old, t)
  <2>1. new.state = old.state /\ new.attempt = old.attempt /\ new.result = old.result
    BY <1>5 DEF HeartbeatEntry, Stamped, Entry
  <2> QED BY <1>0, <2>1, PhaseCases DEF Moves
<1>6. CASE \E state \in Stopped, result \in Result, t \in Time :
              new = MarkTerminalEntry(old, state, result, t)
  <2>1. CASE old.state \in Active
    <3>1. new.state \in Stopped /\ new.attempt = old.attempt
      BY <1>6, <2>1 DEF MarkTerminalEntry, Stamped, Entry
    <3> QED BY <2>1, <3>1, PhaseCases DEF Moves
  <2>2. CASE old.state \notin Active
    BY <1>1, <1>6, <2>2 DEF MarkTerminalEntry
  <2> QED BY <2>1, <2>2
<1>7. CASE ~MarkVerifiedRaises(old) /\ \E result \in Result, t \in Time :
              new = MarkVerifiedEntry(old, result, t)
  <2>1. old.state = "executing" /\ new.state = "verified" /\ new.attempt = old.attempt
    BY <1>7 DEF MarkVerifiedRaises, MarkVerifiedEntry, Entry
  <2> QED BY <1>0, <2>1, PhaseCases DEF Moves
<1>8. CASE \E t \in Time : new = MarkCommittedEntry(old, t)
  <2>1. CASE old.state = "verified"
    <3>1. new.state = "committed" /\ new.attempt = old.attempt /\ new.result = old.result
      BY <1>8, <2>1 DEF MarkCommittedEntry, Entry
    <3> QED BY <2>1, <3>1, PhaseCases DEF Moves
  <2>2. CASE old.state # "verified"
    BY <1>1, <1>8, <2>2 DEF MarkCommittedEntry
  <2> QED BY <2>1, <2>2
<1>9. CASE \E result \in Result, confirmed \in BOOLEAN, t \in Time :
              new = RecordSaveReconciliationEntry(old, result, confirmed, t)
  <2>1. CASE old.state = "failed"
    <3>1. new.state \in {"committed", "failed"} /\ new.attempt = old.attempt
      BY <1>9, <2>1 DEF RecordSaveReconciliationEntry, Stamped, Entry
    <3> QED BY <1>0, <2>1, <3>1, PhaseCases DEF Moves
  <2>2. CASE old.state # "failed"
    BY <1>1, <1>9, <2>2 DEF RecordSaveReconciliationEntry
  <2> QED BY <2>1, <2>2
<1> QED BY <1>1, <1>2, <1>3, <1>4, <1>5, <1>6, <1>7, <1>8, <1>9 DEF Touches

AllFresh == \A k \in Key : Fresh(journal[k])

\* A step that touches one entry is a step of the promise for its key, or none.
LEMMA TouchPromised ==
    ASSUME TypeOK, TypeOK', AllFresh, OneTouched
    PROVE  [Promise!Next]_(Promise!vars) /\ AllFresh'
<1> DEFINE Phase == [k \in Key |-> PhaseOf(journal[k])]
           Tries == [k \in Key |-> journal[k].attempt]
           Told  == [k \in Key |-> AnswerOf(journal[k])]
<1>1. CASE UNCHANGED journal
  BY <1>1 DEF Promise!vars, AllFresh, Fresh, AnswerOf
<1>2. ASSUME NEW k \in Key, NEW new \in Entry, Touches(journal[k], new), Put(k, new)
      PROVE  [Promise!Next]_(Promise!vars) /\ AllFresh'
  <2>1. journal[k] \in Entry /\ journal \in [Key -> Entry]
    BY DEF TypeOK
  <2>2. Moves(journal[k], new) /\ Fresh(new)
    BY <1>2, <2>1, TouchesMoves DEF AllFresh
  <2>3. journal'[k] = new /\ \A l \in Key \ {k} : journal'[l] = journal[l]
    BY <1>2, <2>1 DEF Put
  <2>4. AllFresh'
    BY <2>2, <2>3 DEF AllFresh, Fresh
  <2>5. /\ Phase' = [Phase EXCEPT ![k] = PhaseOf(new)]
        /\ Tries' = [Tries EXCEPT ![k] = new.attempt]
        /\ Told' = [Told EXCEPT ![k] = AnswerOf(new)]
    <3>1. /\ Phase' = [l \in Key |-> PhaseOf(journal'[l])]
          /\ Tries' = [l \in Key |-> journal'[l].attempt]
          /\ Told' = [l \in Key |-> AnswerOf(journal'[l])]
      BY DEF PhaseOf, AnswerOf
    <3> QED BY <2>3, <3>1
  <2>6. /\ Phase[k] = PhaseOf(journal[k]) /\ Tries[k] = journal[k].attempt
        /\ Told[k] = AnswerOf(journal[k])
        /\ Phase \in [Key -> {PhaseOf(journal[l]) : l \in Key}]
        /\ Tries \in [Key -> {journal[l].attempt : l \in Key}]
        /\ Told \in [Key -> {AnswerOf(journal[l]) : l \in Key}]
    OBVIOUS
  <2>7. Promise!vars = <<Phase, Tries, Told>>
    BY DEF Promise!vars, AnswerOf
  <2> HIDE DEF Phase, Tries, Told
  <2>8. CASE /\ PhaseOf(new) = PhaseOf(journal[k]) /\ new.attempt = journal[k].attempt
             /\ AnswerOf(new) = AnswerOf(journal[k])
    <3>1. UNCHANGED <<Phase, Tries, Told>>
      BY <2>5, <2>6, <2>8
    <3> QED BY <2>4, <2>7, <3>1 DEF Phase, Tries, Told, Promise!vars, AnswerOf
  <2>9. CASE /\ PhaseOf(journal[k]) = "unknown" /\ PhaseOf(new) \in {"open", "spoiled"}
             /\ new.attempt = journal[k].attempt /\ AnswerOf(new) = AnswerOf(journal[k])
    <3>1. Phase[k] = "unknown" /\ UNCHANGED <<Tries, Told>>
      BY <2>5, <2>6, <2>9
    <3>2. Promise!Open(k) \/ Promise!Spoil(k)
      BY <2>5, <2>9, <3>1 DEF Promise!Open, Promise!Spoil, Phase, Tries, Told, AnswerOf
    <3> QED BY <2>4, <3>2 DEF Promise!Next
  <2>10. CASE /\ PhaseOf(journal[k]) = "open" /\ PhaseOf(new) = "stopped"
              /\ new.attempt = journal[k].attempt /\ AnswerOf(new) = AnswerOf(journal[k])
    <3>1. Phase[k] = "open" /\ UNCHANGED <<Tries, Told>>
      BY <2>5, <2>6, <2>10
    <3>2. Promise!Stop(k)
      BY <2>5, <2>10, <3>1 DEF Promise!Stop, Phase, Tries, Told, AnswerOf
    <3> QED BY <2>4, <3>2 DEF Promise!Next
  <2>11. CASE /\ PhaseOf(journal[k]) \in {"open", "stopped"} /\ PhaseOf(new) = "open"
              /\ journal[k].attempt < MaxAttempt /\ new.attempt = journal[k].attempt + 1
              /\ AnswerOf(new) = AnswerOf(journal[k])
    <3>1. /\ Phase[k] \in {"open", "stopped"} /\ UNCHANGED Told
          /\ Tries[k] < MaxAttempt /\ Tries' = [Tries EXCEPT ![k] = @ + 1]
      BY <2>5, <2>6, <2>11
    <3>2. Promise!Reopen(k)
      BY <2>5, <2>11, <3>1 DEF Promise!Reopen, Phase, Tries, Told, AnswerOf
    <3> QED BY <2>4, <3>2 DEF Promise!Next
  <2>12. CASE /\ PhaseOf(journal[k]) \in {"open", "stopped"} /\ PhaseOf(new) = "done"
              /\ new.attempt = journal[k].attempt /\ AnswerOf(new) \in Result
    <3>1. Phase[k] \in {"open", "stopped"} /\ UNCHANGED Tries
      BY <2>5, <2>6, <2>12
    <3>2. Promise!Finish(k)
      BY <2>5, <2>12, <3>1 DEF Promise!Finish, Phase, Tries, Told, AnswerOf
    <3> QED BY <2>4, <3>2 DEF Promise!Next
  <2> QED BY <2>2, <2>8, <2>9, <2>10, <2>11, <2>12 DEF Moves
<1> QED BY <1>1, <1>2 DEF OneTouched

LEMMA PrunePromised ==
    ASSUME TypeOK, AllFresh, NEW removed \in SUBSET Key, Prune(removed)
    PROVE  [Promise!Next]_(Promise!vars) /\ AllFresh'
<1>1. journal' = [k \in Key |-> IF k \in removed THEN AbsentEntry(journal[k].digest)
                                                 ELSE journal[k]]
  BY DEF Prune
<1>2. \A k \in removed : journal[k].state \in Terminal
  BY DEF Prune, IsPrunable
<1>3. \A k \in removed : PhaseOf(journal[k]) \in {"stopped", "done"}
  BY <1>2, PhaseCases DEF Terminal
<1>4. \A d : /\ AbsentEntry(d).state = "absent" /\ AbsentEntry(d).attempt = 1
             /\ PhaseOf(AbsentEntry(d)) = "unknown"
  BY PhaseCases DEF AbsentEntry
<1>5. AllFresh'
  BY <1>1, <1>4 DEF AllFresh, Fresh
<1>6. Promise!Forget(removed)
  BY <1>1, <1>3, <1>4 DEF Promise!Forget, Settled
<1> QED BY <1>5, <1>6 DEF Promise!Next

\* The journal implements OperationPromise: whatever crashes, repeats or comes
\* late, one attempt at a time is open, a new one follows only on a stopped or
\* given-up one, and a result that is there is the only one until forgotten.
THEOREM KeepsPromise == Spec => PromiseKept
<1>1. Init => AllFresh /\ Promise!Init
  <2> SUFFICES ASSUME Init PROVE AllFresh /\ Promise!Init
    OBVIOUS
  <2>1. \A k \in Key : journal[k].state = "absent" /\ journal[k].attempt = 1
    BY DEF Init, AbsentEntry
  <2> QED BY <2>1, PhaseCases DEF AllFresh, Fresh, Promise!Init, Settled
<1>2. ASSUME TypeOK, AllFresh, [Next]_vars
      PROVE  [Promise!Next]_(Promise!vars) /\ AllFresh'
  <2>1. TypeOK'
    BY <1>2, NextType
  <2>2. CASE \E removed \in SUBSET Key : Prune(removed)
    BY <1>2, <2>2, PrunePromised
  <2>3. CASE ~(\E removed \in SUBSET Key : Prune(removed))
    <3>1. OneTouched
      BY <1>2, <2>1, <2>3, NextTouches
    <3> QED BY <1>2, <2>1, <3>1, TouchPromised
  <2> QED BY <2>2, <2>3
<1> QED BY <1>1, <1>2, TypeCorrect, PTL DEF Spec, PromiseKept, Promise!Spec

-----------------------------------------------------------------------------
(* What a step leaves true of the entries and calls it does not change.    *)

NamesKept == \A k \in Key : KeepsName(journal[k], journal'[k])

EditsGrow == \A k \in Key, a \in Attempt : edits[k][a] = 1 => edits'[k][a] = 1

LEMMA OneTouchedKeeps ==
    ASSUME TypeOK, OneTouched
    PROVE  JournalKept /\ NamesKept
<1>0. journal \in [Key -> Entry]
  BY DEF TypeOK
<1>1. CASE UNCHANGED journal
  BY <1>0, <1>1, KeepsItself DEF JournalKept, NamesKept, KeepsName
<1>2. ASSUME NEW k \in Key, NEW new \in Entry, Touches(journal[k], new), Put(k, new)
      PROVE  JournalKept /\ NamesKept
  <2>1. Keeps(journal[k], new) /\ KeepsName(journal[k], new)
    BY <1>0, <1>2, TouchesKeeps, TouchesName
  <2>2. \A l \in Key : journal'[l] = IF l = k THEN new ELSE journal[l]
    BY <1>0, <1>2 DEF Put
  <2>3. \A entry \in Entry : KeepsName(entry, entry)
    BY DEF KeepsName
  <2> QED BY <1>0, <2>1, <2>2, <2>3, KeepsItself DEF JournalKept, NamesKept
<1> QED BY <1>1, <1>2 DEF OneTouched

LEMMA EditedGrows ==
    ASSUME Accounts, NEW e \in Executor, NEW applies \in BOOLEAN,
           pc[e] = "running", edits' = Edited(e, applies)
    PROVE  /\ EditsGrow
           /\ applies /\ run[e] # 0 => edits'[ticket[e].key][run[e]] = 1
<1>1. /\ edits \in [Key -> [Attempt -> Nat]] /\ ticket[e].key \in Key
      /\ run[e] # 0 => run[e] \in Attempt
  BY LimitAssumption DEF Accounts, TypeOK, Ticket
<1>2. CASE ~(applies /\ run[e] # 0)
  BY <1>1, <1>2 DEF Edited, EditsGrow
<1>3. CASE applies /\ run[e] # 0
  <2>1. edits[ticket[e].key][run[e]] = 0
    BY <1>3 DEF Accounts, RunAccounting, Executing
  <2> DEFINE k == ticket[e].key
             row == [edits[k] EXCEPT ![run[e]] = 1]
  <2>2. edits' = [edits EXCEPT ![k] = row]
    BY <1>1, <1>3, <2>1 DEF Edited
  <2>3. edits[k] \in [Attempt -> Nat] /\ run[e] \in Attempt
    BY <1>1, <1>3
  <2>4. row[run[e]] = 1 /\ \A a \in Attempt : edits[k][a] = 1 => row[a] = 1
    BY <2>3
  <2> HIDE DEF row
  <2> QED BY <1>1, <2>2, <2>4 DEF EditsGrow
<1> QED BY <1>2, <1>3

LEMMA SameEdits == UNCHANGED edits => EditsGrow
BY DEF EditsGrow

LEMMA WroteKept ==
    ASSUME EditsGrow, NEW k \in Key, NEW result \in Result, Wrote(k, result)
    PROVE  result.run # 0 /\ ~result.declined => edits'[k][result.run] = 1
BY LimitAssumption DEF EditsGrow, Wrote, Result

\* A change of an entry that settles nothing and brings no result.
Quiet(old, new) ==
    /\ new.result = old.result \/ new.result = NoResult
    /\ new.state \in Settled => old.state \in Settled

LEMMA QuietTouches ==
    ASSUME NEW entry \in Entry, NEW d \in Digest, NEW recovery \in Recovery,
           NEW t \in Time, NEW state \in Stopped
    PROVE  /\ Quiet(entry, BeginEntry(entry, d, recovery, t))
           /\ Quiet(entry, TornEntry(d))
           /\ ~MarkExecutingRaises(entry) => Quiet(entry, MarkExecutingEntry(entry, t))
           /\ Quiet(entry, HeartbeatEntry(entry, t))
           /\ Quiet(entry, MarkTerminalEntry(entry, state, NoResult, t))
           /\ ~MarkCommittedRaises(entry) => Quiet(entry, MarkCommittedEntry(entry, t))
<1> USE DEF Quiet, Settled, Active, Stopped
<1>1. Quiet(entry, BeginEntry(entry, d, recovery, t))
  <2> DEFINE new == BeginEntry(entry, d, recovery, t)
  <2>1. \/ new = entry \/ new = NewRecord(d, t)
        \/ entry.state = "verified" /\ new = [entry EXCEPT !.state = "committed", !.updated = t]
        \/ new = Stamped(entry, "aborted", t) \/ new = NextAttempt(entry, t)
    BY BeginCases
  <2> HIDE DEF new
  <2>2. CASE new = NewRecord(d, t)
    <3>1. new.result = NoResult /\ new.state = "accepted"
      BY <2>2 DEF NewRecord
    <3> QED BY <3>1 DEF new
  <2>3. CASE /\ entry.state = "verified"
             /\ new = [entry EXCEPT !.state = "committed", !.updated = t]
    <3>1. new.result = entry.result
      BY <2>3 DEF Entry
    <3> QED BY <2>3, <3>1 DEF new
  <2>4. CASE new = Stamped(entry, "aborted", t)
    <3>1. new.result = entry.result /\ new.state = "aborted"
      BY <2>4 DEF Stamped, Entry
    <3> QED BY <3>1 DEF new
  <2>5. CASE new = NextAttempt(entry, t)
    <3>1. new.result = NoResult /\ new.state = "accepted"
      BY <2>5 DEF NextAttempt
    <3> QED BY <3>1 DEF new
  <2>6. CASE new = entry
    BY <2>6 DEF new
  <2> QED BY <2>1, <2>2, <2>3, <2>4, <2>5, <2>6
<1>2. Quiet(entry, TornEntry(d))
  BY DEF TornEntry, AbsentEntry
<1>3. ~MarkExecutingRaises(entry) => Quiet(entry, MarkExecutingEntry(entry, t))
  BY DEF MarkExecutingEntry, Stamped, Entry
<1>4. Quiet(entry, HeartbeatEntry(entry, t))
  BY DEF HeartbeatEntry, Stamped, Entry
<1>5. Quiet(entry, MarkTerminalEntry(entry, state, NoResult, t))
  BY DEF MarkTerminalEntry, Stamped, Entry, NoResult
<1>6. ~MarkCommittedRaises(entry) => Quiet(entry, MarkCommittedEntry(entry, t))
  BY DEF MarkCommittedRaises, MarkCommittedEntry, Entry
<1> QED BY <1>1, <1>2, <1>3, <1>4, <1>5, <1>6

LEMMA EntryAttempt == \A entry \in Entry : entry.attempt \in Nat \ {0}
BY LimitAssumption DEF Entry

LEMMA EntryFrame ==
    ASSUME TypeOK, TypeOK', JournalKept, NamesKept, EditsGrow, NEW k \in Key,
           EntryTrue(k), Quiet(journal[k], journal'[k]), acked'[k] = acked[k]
    PROVE  EntryTrue(k)'
<1> DEFINE old == journal[k]
           new == journal'[k]
<1>1. Keeps(old, new) /\ KeepsName(old, new)
  BY DEF JournalKept, NamesKept
<1>2. /\ old.result \in Result /\ new.result \in Result
      /\ old.attempt \in Nat \ {0} /\ new.attempt \in Nat \ {0}
  <2>1. old \in Entry /\ new \in Entry
    BY DEF TypeOK
  <2>2. \A entry \in Entry : entry.result \in Result
    BY DEF Entry
  <2> QED BY <2>1, <2>2, EntryAttempt
<1>3. Named(new)
  BY <1>1 DEF EntryTrue, KeepsName
<1>4. new.result.native =>
          (new.result.run # 0 /\ ~new.result.declined => edits'[k][new.result.run] = 1)
  BY <1>2, WroteKept DEF EntryTrue, Quiet, NoResult
<1>5. ASSUME new.state \in Settled
      PROVE  /\ new.result.present
             /\ new.result.run # 0 /\ ~new.result.declined =>
                   edits'[k][new.result.run] = 1
             /\ (/\ new.attempt = 1 /\ Workflow[new.digest] = "save"
                 /\ new.result.run # 0) => new.result.proved
  <2>1. old.state \in Settled /\ new.result = old.result /\ IsRecord(old)
    BY <1>1, <1>5 DEF Quiet, Keeps, IsRecord, Settled
  <2>2. new.digest = old.digest /\ (new.attempt = 1 => old.attempt = 1)
    BY <1>1, <1>2, <2>1 DEF Keeps, KeepsName
  <2> HIDE DEF old, new
  <2> QED BY <1>2, <2>1, <2>2, WroteKept DEF EntryTrue, old
<1>6. \A a \in acked'[k] : new.state = "committed" /\ new.result.run = a
  BY <1>1 DEF EntryTrue, Keeps, Settled
<1> QED BY <1>3, <1>4, <1>5, <1>6 DEF EntryTrue, Wrote, Named, IsRecord

LEMMA CallFrame ==
    ASSUME Accounts, TypeOK', JournalKept, NamesKept, EditsGrow, NEW e \in Executor,
           CallTrue(e), pc'[e] = pc[e], ticket'[e] = ticket[e],
           outcome'[e] = outcome[e], run'[e] = run[e]
    PROVE  CallTrue(e)'
<1> DEFINE k == ticket[e].key
           old == journal[k]
           new == journal'[k]
<1>1. k \in Key /\ EntryOf(e) = old /\ EntryOf(e)' = new /\ outcome[e].result \in Result
  BY DEF Accounts, TypeOK, Ticket, Outcome, EntryOf
<1>2. Keeps(old, new) /\ KeepsName(old, new)
  BY <1>1 DEF JournalKept, NamesKept
<1>3. old.attempt \in Nat \ {0} /\ new.attempt \in Nat \ {0}
  <2>1. old \in Entry /\ new \in Entry
    BY <1>1 DEF Accounts, TypeOK
  <2> QED BY <2>1, EntryAttempt
<1>4. run[e] # 0 => IsRecord(old)
  BY <1>1 DEF Accounts, RunAccounting
<1>5. Wrote(k, outcome[e].result) => Wrote(k, outcome[e].result)'
  BY <1>1, WroteKept DEF Wrote
<1> HIDE DEF k, old, new
<1>6. (run[e] # 0 /\ new.attempt = 1) =>
          ticket[e].named /\ ticket[e].operation = Workflow[new.digest]
  BY <1>1, <1>2, <1>3, <1>4 DEF Keeps, KeepsName, CallTrue
<1>7. /\ old.state \in Settled => new.state \in Settled /\ new.result = old.result
      /\ old.state = "committed" => new.state = "committed" /\ new.result = old.result
  BY <1>2 DEF Keeps, Settled
<1> QED BY <1>1, <1>5, <1>6, <1>7 DEF CallTrue, k

LEMMA LeaveTrue ==
    ASSUME TypeOK, NEW e \in Executor, Leave(e)
    PROVE  CallTrue(e)'
<1>1. pc'[e] = "idle" /\ outcome'[e] = NoOutcome /\ run'[e] = 0
  BY DEF Leave, TypeOK
<1> QED BY <1>1 DEF CallTrue, NoOutcome, NoResult

\* One call moves, by itself or together with an entry.
LEMMA OneMoves ==
    ASSUME Truth, Accounts', JournalKept, NamesKept, EditsGrow, NEW e \in Executor,
           \A f \in Executor \ {e} : /\ pc'[f] = pc[f] /\ ticket'[f] = ticket[f]
                                     /\ outcome'[f] = outcome[f] /\ run'[f] = run[f],
           CallTrue(e)', \A k \in Key : EntryTrue(k)'
    PROVE  Truth'
<1>1. \A f \in Executor \ {e} : CallTrue(f)'
  BY CallFrame DEF Truth, Accounts
<1> QED BY <1>1 DEF Truth

LEMMA QuietEntries ==
    ASSUME Truth, Accounts', JournalKept, NamesKept, EditsGrow, UNCHANGED acked,
           UNCHANGED journal \/ \E k \in Key : \E new : Put(k, new) /\ Quiet(journal[k], new)
    PROVE  \A k \in Key : EntryTrue(k)'
<1>1. \A k \in Key : Quiet(journal[k], journal'[k])
  BY DEF Put, Quiet, Truth, Accounts, TypeOK
<1> QED BY <1>1, EntryFrame DEF Truth, Accounts

-----------------------------------------------------------------------------
(* A call that declined wrote nothing, and never will.                     *)

Declines(result) == result.declined /\ result.run # 0

\* Attempt a of an entry is over and wrote nothing.
Silent(k, a) ==
    /\ IsRecord(journal[k]) /\ a <= journal[k].attempt
    /\ edits[k][a] = 0
    /\ \A f \in Executor : pc[f] \in Executing /\ ticket[f].key = k => run[f] # a

SilentEntry(k) == Declines(journal[k].result) => Silent(k, journal[k].result.run)

SilentCall(e) ==
    /\ pc[e] = "idle" => ~outcome[e].result.declined
    /\ pc[e] = "returned" /\ outcome[e].report = "declined" =>
          outcome[e].result.declined /\ Workflow[ticket[e].digest] = "edit"
    /\ Declines(outcome[e].result) => Silent(ticket[e].key, outcome[e].result.run)

\* A run works on the payload that its entry has.
SameDigests == \A e \in Executor : run[e] # 0 => ticket[e].digest = EntryOf(e).digest

Silence ==
    /\ SameDigests
    /\ \A k \in Key : SilentEntry(k)
    /\ \A e \in Executor : SilentCall(e)

LEMMA SilentKept ==
    ASSUME Accounts, TypeOK', JournalKept, Fate, NEW k \in Key, NEW a \in Attempt,
           Silent(k, a)
    PROVE  Silent(k, a)'
<1>0. /\ journal[k] \in Entry /\ journal'[k] \in Entry
      /\ journal[k].attempt \in Nat \ {0} /\ journal'[k].attempt \in Nat \ {0}
      /\ a \in Nat \ {0}
  <2>1. journal[k] \in Entry /\ journal'[k] \in Entry
    BY DEF Accounts, TypeOK
  <2> QED BY <2>1, EntryAttempt, LimitAssumption
<1>1. IsRecord(journal'[k]) /\ a <= journal'[k].attempt
  <2>1. Keeps(journal[k], journal'[k])
    BY DEF JournalKept
  <2> QED BY <1>0, <2>1 DEF Silent, Keeps
<1>2. AllCarry => \A f \in Executor : pc'[f] \in Executing /\ ticket'[f].key = k => run'[f] # a
  BY <1>0 DEF AllCarry, Carries, Silent
<1>3. CASE AllCarry /\ UNCHANGED edits
  BY <1>1, <1>2, <1>3 DEF Silent
<1>4. ASSUME NEW e \in Executor, NEW applies \in BOOLEAN, Writes(e, applies)
      PROVE  Silent(k, a)'
  <2>1. ~(ticket[e].key = k /\ run[e] = a)
    <3>1. pc[e] \in Executing
      BY <1>4 DEF Writes, Executing
    <3> QED BY <3>1 DEF Silent
  <2>2. /\ edits \in [Key -> [Attempt -> Nat]] /\ ticket[e].key \in Key
        /\ run[e] # 0 => run[e] \in Attempt
    <3>1. /\ edits \in [Key -> [Attempt -> Nat]] /\ run[e] \in 0 .. MaxAttempt
          /\ ticket[e].key \in Key
      BY EntryOfType DEF Accounts, TypeOK
    <3> QED BY <3>1, LimitAssumption
  <2>3. edits'[k][a] = edits[k][a]
    <3>1. edits' = Edited(e, applies)
      BY <1>4 DEF Writes
    <3>2. CASE ~(applies /\ run[e] # 0)
      BY <3>1, <3>2 DEF Edited
    <3>3. CASE applies /\ run[e] # 0
      <4> DEFINE l == ticket[e].key
                 row == [edits[l] EXCEPT ![run[e]] = @ + 1]
      <4>1. edits' = [edits EXCEPT ![l] = row]
        BY <3>1, <3>3 DEF Edited
      <4>2. edits[l] \in [Attempt -> Nat] /\ run[e] \in Attempt
        BY <2>2, <3>3
      <4>3. a # run[e] => row[a] = edits[l][a]
        BY <4>2
      <4> HIDE DEF row
      <4>4. edits'[k] = IF k = l THEN row ELSE edits[k]
        BY <2>2, <4>1
      <4> QED BY <2>1, <4>3, <4>4
    <3> QED BY <3>2, <3>3
  <2> QED BY <1>1, <1>2, <1>4, <2>3 DEF Silent, Writes
<1>5. ASSUME NEW e \in Executor, NEW l \in Key, NEW d \in Digest, NEW recovery \in Recovery,
             Begin(e, l, d, recovery)
      PROVE  Silent(k, a)'
  <2> DEFINE begun == BeginEntry(journal[l], d, recovery, now)
             decision == BeginDecision(journal[l], d, recovery, now)
  <2>1. UNCHANGED edits
    BY <1>5 DEF Begin
  <2>2. CASE decision # "execute"
    <3>1. ASSUME NEW f \in Executor, pc'[f] \in Executing
          PROVE  pc'[f] = pc[f] /\ ticket'[f] = ticket[f] /\ run'[f] = run[f]
      BY <1>5, <2>2, <3>1 DEF Begin, Goto, Accounts, TypeOK, Executing
    <3> QED BY <1>1, <2>1, <3>1 DEF Silent
  <2>3. CASE decision = "execute"
    <3>1. /\ journal[l] \in Entry /\ now \in Time
          /\ \A f \in Executor \ {e} :
                pc'[f] = pc[f] /\ ticket'[f] = ticket[f] /\ run'[f] = run[f]
          /\ run'[e] = begun.attempt /\ ticket'[e].key = l
      BY <1>5, <2>3 DEF Begin, Goto, Accounts, TypeOK
    <3>2. ~IsRecord(journal[l]) \/ begun.attempt = journal[l].attempt + 1
      BY <2>3, <3>1, BeginGrants
    <3> HIDE DEF begun
    <3>3. l = k => run'[e] # a
      BY <1>0, <3>1, <3>2 DEF Silent
    <3> QED BY <1>1, <2>1, <3>1, <3>3 DEF Silent
  <2> QED BY <2>2, <2>3
<1> QED BY <1>3, <1>4, <1>5 DEF Fate

LEMMA DigestsKept ==
    ASSUME Accounts, TypeOK', NamesKept, Fate, SameDigests
    PROVE  SameDigests'
<1>1. ASSUME NEW f \in Executor, run[f] # 0, run'[f] = run[f], ticket'[f] = ticket[f]
      PROVE  ticket'[f].digest = EntryOf(f)'.digest
  <2>1. /\ IsRecord(EntryOf(f)) /\ ticket[f].key \in Key
        /\ ticket[f].digest = EntryOf(f).digest
    BY <1>1, EntryOfType DEF Accounts, RunAccounting, SameDigests
  <2> QED BY <1>1, <2>1 DEF NamesKept, KeepsName, EntryOf
<1>2. AllCarry => SameDigests'
  BY <1>1 DEF AllCarry, Carries, SameDigests
<1>3. ASSUME NEW e \in Executor, NEW k \in Key, NEW d \in Digest, NEW recovery \in Recovery,
             Begin(e, k, d, recovery)
      PROVE  SameDigests'
  <2> DEFINE entry == journal[k]
             begun == BeginEntry(entry, d, recovery, now)
             decision == BeginDecision(entry, d, recovery, now)
  <2>1. /\ \A f \in Executor \ {e} : ticket'[f] = ticket[f] /\ run'[f] = run[f]
        /\ entry \in Entry /\ now \in Time /\ journal'[k] = begun
    BY <1>3 DEF Begin, Put, Accounts, TypeOK
  <2>2. CASE decision \notin {"execute", "reconcile"}
    <3>1. ticket'[e] = ticket[e] /\ run'[e] = run[e]
      BY <1>3, <2>2 DEF Begin
    <3> QED BY <1>1, <2>1, <3>1 DEF SameDigests
  <2>3. CASE decision = "reconcile"
    <3>1. run'[e] = 0
      BY <1>3, <2>3 DEF Begin, Accounts, TypeOK
    <3> QED BY <1>1, <2>1, <3>1 DEF SameDigests
  <2>4. CASE decision = "execute"
    <3>1. ticket'[e].key = k /\ ticket'[e].digest = d
      BY <1>3, <2>4 DEF Begin, Accounts, TypeOK
    <3>2. begun.digest = d
      <4>1. CASE entry.state = "absent"
        <5>1. begun = NewRecord(d, now)
          BY <4>1 DEF BeginEntry, IsRecord
        <5> QED BY <5>1 DEF NewRecord
      <4>2. CASE entry.state # "absent"
        <5>1. entry.state \in {"torn"} \cup Active \cup Terminal
          BY <2>1, <4>2 DEF Entry
        <5>2. IsRecord(entry) /\ entry.digest = d
          BY <2>4, <4>2, <5>1
             DEF BeginDecision, Terminal, IsRecord, Recoverable, Active, Settled, Stopped
        <5> QED BY <2>1, <5>2 DEF NamesKept, KeepsName
      <4> QED BY <4>1, <4>2
    <3>3. EntryOf(e)' = begun
      BY <2>1, <3>1 DEF EntryOf
    <3> QED BY <1>1, <2>1, <3>1, <3>2, <3>3 DEF SameDigests
  <2> QED BY <2>2, <2>3, <2>4
<1> QED BY <1>2, <1>3 DEF Fate, Writes

\* What an entry or a call says of an attempt of entry k.
Said(k, result) ==
    /\ Declines(result)
    /\ \/ result = journal[k].result
       \/ \E e \in Executor : ticket[e].key = k /\ result = outcome[e].result

\* A result repeats what was said of its attempt.
Echoes(k, result) ==
    Declines(result) => \E r \in Result : Said(k, r) /\ r.run = result.run

EntriesEcho == \A k \in Key : Echoes(k, journal'[k].result)

\* What holds at every step but pruning: attempts that are silent remain so.
StillSilent ==
    /\ Accounts /\ TypeOK' /\ Silence /\ SameDigests'
    /\ \A k \in Key, result \in Result : Said(k, result) => Silent(k, result.run)'

LEMMA AlwaysStillSilent ==
    ASSUME Accounts, Silence, [Next]_vars, ~(\E removed \in SUBSET Key : Prune(removed))
    PROVE  StillSilent
<1>1. TypeOK' /\ TypeOK
  BY NextType DEF Accounts
<1>2. JournalKept /\ NamesKept /\ Fate
  BY <1>1, NextTouches, OneTouchedKeeps, NextFate
<1>3. ASSUME NEW k \in Key, NEW result \in Result, Said(k, result)
      PROVE  Silent(k, result.run)'
  <2>1. result.run \in Attempt
    BY <1>3, LimitAssumption DEF Said, Declines, Result
  <2>2. Silent(k, result.run)
    BY <1>3 DEF Said, Silence, SilentEntry, SilentCall
  <2> QED BY <1>1, <1>2, <2>1, <2>2, SilentKept
<1> QED BY <1>1, <1>2, <1>3, DigestsKept DEF StillSilent, Silence

LEMMA QuietEcho ==
    ASSUME TypeOK,
           UNCHANGED journal \/ \E k \in Key : \E new : Put(k, new) /\ Quiet(journal[k], new)
    PROVE  EntriesEcho
<1> SUFFICES ASSUME NEW k \in Key, Declines(journal'[k].result)
             PROVE  \E r \in Result : Said(k, r) /\ r.run = journal'[k].result.run
  BY DEF EntriesEcho, Echoes
<1>1. Quiet(journal[k], journal'[k])
  BY DEF Put, Quiet, TypeOK
<1>2. journal'[k].result = journal[k].result /\ journal[k].result \in Result
  BY <1>1 DEF Quiet, Declines, NoResult, TypeOK, Entry
<1> QED BY <1>2 DEF Said

LEMMA OneSpeaks ==
    ASSUME StillSilent, EntriesEcho, NEW e \in Executor,
           \A f \in Executor \ {e} : /\ pc'[f] = pc[f] /\ ticket'[f] = ticket[f]
                                     /\ outcome'[f] = outcome[f],
           SilentCall(e)'
    PROVE  Silence'
<1>1. ASSUME NEW k \in Key PROVE SilentEntry(k)'
  BY DEF EntriesEcho, Echoes, StillSilent, SilentEntry
<1>2. ASSUME NEW f \in Executor \ {e} PROVE SilentCall(f)'
  <2>1. SilentCall(f) /\ outcome[f].result \in Result /\ ticket[f].key \in Key
    BY DEF StillSilent, Silence, Accounts, TypeOK, Outcome, Ticket
  <2>2. Declines(outcome[f].result) => Said(ticket[f].key, outcome[f].result)
    BY DEF Said
  <2>3. Declines(outcome[f].result) => Silent(ticket[f].key, outcome[f].result.run)'
    BY <2>1, <2>2 DEF StillSilent
  <2>4. pc'[f] = pc[f] /\ ticket'[f] = ticket[f] /\ outcome'[f] = outcome[f]
    OBVIOUS
  <2> QED BY <2>1, <2>3, <2>4 DEF SilentCall, Silent
<1> QED BY <1>1, <1>2 DEF Silence, StillSilent

LEMMA LeaveSilent ==
    ASSUME StillSilent, EntriesEcho, NEW e \in Executor, Leave(e)
    PROVE  Silence'
<1>1. /\ outcome'[e].result = NoResult /\ pc'[e] = "idle"
      /\ \A f \in Executor \ {e} : /\ pc'[f] = pc[f] /\ ticket'[f] = ticket[f]
                                   /\ outcome'[f] = outcome[f]
  BY DEF Leave, StillSilent, Accounts, TypeOK, NoOutcome
<1>2. SilentCall(e)'
  BY <1>1 DEF SilentCall, Declines, NoResult
<1> QED BY <1>1, <1>2, OneSpeaks

LEMMA StaySilent ==
    ASSUME StillSilent, EntriesEcho, UNCHANGED <<pc, ticket, outcome>>
    PROVE  Silence'
<1>1. CASE Executor = {}
  BY <1>1 DEF EntriesEcho, Echoes, StillSilent, SilentEntry, Silence
<1>2. ASSUME NEW e \in Executor PROVE Silence'
  <2>1. SilentCall(e) /\ outcome[e].result \in Result /\ ticket[e].key \in Key
    BY DEF StillSilent, Silence, Accounts, TypeOK, Outcome, Ticket
  <2>2. Declines(outcome[e].result) => Silent(ticket[e].key, outcome[e].result.run)'
    BY <2>1 DEF StillSilent, Said
  <2>3. SilentCall(e)'
    BY <2>1, <2>2 DEF SilentCall, Silent
  <2> QED BY <2>3, OneSpeaks
<1> QED BY <1>1, <1>2

\* A call goes on, with a result that says nothing new.
LEMMA GoSilent ==
    ASSUME StillSilent, EntriesEcho, NEW e \in Executor,
           \A f \in Executor \ {e} : /\ pc'[f] = pc[f] /\ ticket'[f] = ticket[f]
                                     /\ outcome'[f] = outcome[f],
           pc'[e] \notin {"idle", "returned"},
           Echoes(ticket'[e].key, outcome'[e].result)
    PROVE  Silence'
<1>1. ticket'[e].key \in Key
  BY DEF StillSilent, TypeOK, Ticket
<1>2. SilentCall(e)'
  BY <1>1 DEF SilentCall, Echoes, StillSilent
<1> QED BY <1>2, OneSpeaks

LEMMA StepSilent ==
    ASSUME StillSilent, EntriesEcho, NEW e \in Executor, NEW step \in Steps, Goto(e, step),
           step \notin {"idle", "returned"}, UNCHANGED <<ticket, outcome>>
    PROVE  Silence'
<1>1. /\ pc'[e] = step /\ ticket'[e].key = ticket[e].key
      /\ outcome'[e].result = outcome[e].result /\ outcome[e].result \in Result
      /\ \A f \in Executor \ {e} : /\ pc'[f] = pc[f] /\ ticket'[f] = ticket[f]
                                   /\ outcome'[f] = outcome[f]
  BY DEF Goto, StillSilent, Accounts, TypeOK, Outcome
<1>2. Echoes(ticket'[e].key, outcome'[e].result)
  BY <1>1 DEF Echoes, Said
<1> QED BY <1>1, <1>2, GoSilent

LEMMA BeginSilence ==
    ASSUME StillSilent, NEW e \in Executor, NEW k \in Key, NEW d \in Digest,
           NEW recovery \in Recovery, Begin(e, k, d, recovery)
    PROVE  Silence'
<1> DEFINE begun == BeginEntry(journal[k], d, recovery, now)
           decision == BeginDecision(journal[k], d, recovery, now)
<1>0. journal[k] \in Entry /\ now \in Time /\ TypeOK /\ "failed" \in Stopped
  BY DEF StillSilent, Accounts, TypeOK, Stopped
<1>1. EntriesEcho
  <2>1. Put(k, begun) /\ Quiet(journal[k], begun)
    BY <1>0, QuietTouches DEF Begin
  <2> HIDE DEF begun
  <2> QED BY <1>0, <2>1, QuietEcho
<1>2. CASE decision \notin {"execute", "reconcile"}
  BY <1>1, <1>2, StaySilent DEF Begin
<1>3. CASE decision \in {"execute", "reconcile"}
  <2>1. /\ pc[e] = "idle" /\ outcome' = outcome /\ pc'[e] \in {"granted", "resolving"}
        /\ \A f \in Executor \ {e} : pc'[f] = pc[f] /\ ticket'[f] = ticket[f]
    BY <1>0, <1>3 DEF Begin, Goto, TypeOK
  <2>2. ~outcome'[e].result.declined
    BY <2>1 DEF StillSilent, Silence, SilentCall
  <2> QED BY <1>1, <2>1, <2>2, GoSilent DEF Echoes, Declines
<1> QED BY <1>2, <1>3

\* A run that declines has written nothing, and nobody else runs its attempt.
LEMMA OperateSilence ==
    ASSUME StillSilent, NEW e \in Executor, NEW report \in Reports,
           NEW applies \in BOOLEAN, Operate(e, report, applies)
    PROVE  Silence'
<1> DEFINE k == ticket[e].key
<1>1. /\ pc[e] = "running" /\ UNCHANGED <<journal, ticket, run>> /\ k \in Key
      /\ pc'[e] = "returned" /\ ticket'[e] = ticket[e]
      /\ outcome'[e].report = report /\ outcome'[e].result.run = run[e]
      /\ outcome'[e].result.declined = (report = "declined")
      /\ \A f \in Executor \ {e} : /\ pc'[f] = pc[f] /\ ticket'[f] = ticket[f]
                                   /\ outcome'[f] = outcome[f]
  BY DEF Operate, Goto, StillSilent, Accounts, TypeOK, Ticket
<1>2. EntriesEcho
  BY <1>1, QuietEcho DEF StillSilent, Accounts
<1>3. ASSUME report = "declined", run[e] # 0
      PROVE  Silent(k, run[e])'
  <2>1. UNCHANGED edits
    BY <1>3 DEF Operate, Edited
  <2>2. /\ IsRecord(journal[k]) /\ run[e] <= journal[k].attempt
        /\ edits[k][run[e]] = 0
        /\ \A f \in Executor \ {e} : ticket[f].key = k => run[f] # run[e]
    BY <1>1, <1>3 DEF StillSilent, Accounts, RunAccounting, EntryOf, Executing
  <2> QED BY <1>1, <2>1, <2>2 DEF Silent, Executing
<1>4. report = "declined" => Workflow[ticket[e].digest] = "edit"
  BY DEF Operate
<1>5. SilentCall(e)'
  <2>1. Declines(outcome'[e].result) => Silent(k, run[e])'
    BY <1>1, <1>3 DEF Declines
  <2> QED BY <1>1, <1>4, <2>1 DEF SilentCall, Silent
<1> QED BY <1>1, <1>2, <1>5, OneSpeaks

LEMMA CommitSilence ==
    ASSUME StillSilent, NEW e \in Executor, NEW disposition, Commit(e, disposition)
    PROVE  Silence'
<1>a. PICK k \in Key : k = ticket[e].key
  BY EntryOfType DEF StillSilent, Accounts
<1>b. PICK old \in Entry : old = EntryOf(e)
  BY EntryOfType DEF StillSilent, Accounts
<1>c. PICK result \in Result : result = CommittedResult(e, disposition)
  BY CommittedResultType DEF StillSilent, Accounts
<1>0. /\ old = journal[k] /\ now \in Time /\ TypeOK
      /\ outcome[e].result \in Result
      /\ result.run = outcome[e].result.run
      /\ result.declined = outcome[e].result.declined
  BY <1>a, <1>b, <1>c, CommittedResultType
     DEF EntryOf, StillSilent, Accounts, TypeOK, Outcome
<1>1. Echoes(k, result)
  BY <1>0, <1>a DEF Echoes, Said, Declines
<1>2. CASE Leave(e) /\ UNCHANGED journal
  BY <1>0, <1>2, QuietEcho, LeaveSilent
<1>3. ASSUME NEW new, Put(k, new), new.result \in {result, old.result}
      PROVE  EntriesEcho
  <2> SUFFICES ASSUME NEW l \in Key PROVE Echoes(l, journal'[l].result)
    BY DEF EntriesEcho
  <2>1. journal'[l] = IF l = k THEN new ELSE journal[l]
    BY <1>0, <1>3 DEF Put, TypeOK
  <2>2. journal[l].result \in Result
    BY <1>0 DEF TypeOK, Entry
  <2>3. Echoes(l, journal[l].result)
    BY <2>2 DEF Echoes, Said
  <2> QED BY <1>0, <1>1, <1>3, <2>1, <2>3
<1>4. ASSUME NEW step \in {"verified", "answering"}, Goto(e, step), EntriesEcho,
             UNCHANGED ticket, outcome'[e].result = result,
             \A f \in Executor \ {e} : outcome'[f] = outcome[f]
      PROVE  Silence'
  <2>1. /\ pc'[e] = step /\ ticket'[e].key = k
        /\ \A f \in Executor \ {e} : pc'[f] = pc[f] /\ ticket'[f] = ticket[f]
    BY <1>0, <1>4, <1>a DEF Goto, TypeOK
  <2> QED BY <1>1, <1>4, <2>1, GoSilent
<1>5. CASE /\ Put(k, MarkVerifiedEntry(old, result, now)) /\ Goto(e, "verified")
           /\ outcome' = [outcome EXCEPT ![e].ok = TRUE, ![e].result = result]
           /\ UNCHANGED ticket
  <2>1. MarkVerifiedEntry(old, result, now).result = result
    BY DEF MarkVerifiedEntry, Entry
  <2>2. EntriesEcho
    BY <1>3, <1>5, <2>1
  <2>3. outcome'[e].result = result /\ \A f \in Executor \ {e} : outcome'[f] = outcome[f]
    BY <1>0, <1>5 DEF TypeOK, Outcome
  <2> QED BY <1>4, <1>5, <2>2, <2>3
<1>6. CASE /\ Put(k, MarkTerminalEntry(old, "failed", result, now)) /\ Goto(e, "answering")
           /\ outcome' = [outcome EXCEPT ![e].result = result]
           /\ UNCHANGED ticket
  <2>1. MarkTerminalEntry(old, "failed", result, now).result \in {result, old.result}
    BY DEF MarkTerminalEntry, Stamped, Entry
  <2>2. EntriesEcho
    BY <1>3, <1>6, <2>1
  <2>3. outcome'[e].result = result /\ \A f \in Executor \ {e} : outcome'[f] = outcome[f]
    BY <1>0, <1>6 DEF TypeOK, Outcome
  <2> QED BY <1>4, <1>6, <2>2, <2>3
<1> QED BY <1>2, <1>5, <1>6, <1>a, <1>b, <1>c, CommitSplit

LEMMA ReadFailedSaveSilence ==
    ASSUME StillSilent, NEW e \in Executor, NEW k \in Key, NEW disposition,
           ReadFailedSave(e, k, disposition)
    PROVE  Silence'
<1>0. /\ EntriesEcho /\ TypeOK /\ journal[k].result \in Result
  BY QuietEcho DEF ReadFailedSave, StillSilent, Accounts, TypeOK, Entry
<1>1. CASE disposition \notin {"confirmed", "likely"}
  BY <1>0, <1>1, LeaveSilent DEF ReadFailedSave
<1>2. CASE disposition \in {"confirmed", "likely"}
  <2> DEFINE result == [Evidenced(journal[k].result, disposition) EXCEPT !.present = TRUE]
  <2>1. /\ pc'[e] = "reconciling" /\ ticket'[e].key = k /\ outcome'[e].result = result
        /\ \A f \in Executor \ {e} : /\ pc'[f] = pc[f] /\ ticket'[f] = ticket[f]
                                     /\ outcome'[f] = outcome[f]
    BY <1>0, <1>2 DEF ReadFailedSave, Goto, TypeOK
  <2>2. /\ result.run = journal[k].result.run
        /\ result.declined = journal[k].result.declined
    BY <1>0 DEF Evidenced, Result
  <2> HIDE DEF result
  <2>3. Echoes(k, result)
    BY <1>0, <2>2 DEF Echoes, Said, Declines
  <2> QED BY <1>0, <2>1, <2>3, GoSilent
<1> QED BY <1>1, <1>2

LEMMA RecordSaveSilence ==
    ASSUME StillSilent, NEW e \in Executor, RecordSaveReconciliation(e)
    PROVE  Silence'
<1>a. PICK k \in Key : k = ticket[e].key
  BY EntryOfType DEF StillSilent, Accounts
<1> DEFINE new == RecordSaveReconciliationEntry(journal[k], outcome[e].result,
                                                outcome[e].ok, now)
<1>0. /\ TypeOK /\ Leave(e) /\ outcome[e].result \in Result /\ journal[k] \in Entry
      /\ UNCHANGED journal \/ Put(k, new)
  BY <1>a DEF RecordSaveReconciliation, EntryOf, StillSilent, Accounts, TypeOK, Outcome
<1>1. new.result \in {outcome[e].result, journal[k].result}
  BY <1>0 DEF RecordSaveReconciliationEntry, Stamped, Entry
<1> HIDE DEF new
<1>2. ASSUME NEW l \in Key PROVE Echoes(l, journal'[l].result)
  <2>1. journal'[l] = journal[l] \/ (l = k /\ journal'[l] = new)
    BY <1>0 DEF Put, TypeOK
  <2>2. journal[l].result \in Result
    BY <1>0 DEF TypeOK, Entry
  <2>3. Echoes(l, journal[l].result) /\ Echoes(k, outcome[e].result)
    BY <1>0, <1>a, <2>2 DEF Echoes, Said
  <2> QED BY <1>1, <2>1, <2>3
<1> QED BY <1>0, <1>2, LeaveSilent DEF EntriesEcho

LEMMA PruneSilence ==
    ASSUME Accounts, TypeOK', Silence, NEW removed \in SUBSET Key, Prune(removed)
    PROVE  Silence'
<1>1. /\ journal' = [k \in Key |-> IF k \in removed THEN AbsentEntry(journal[k].digest)
                                                    ELSE journal[k]]
      /\ run' = [e \in Executor |-> IF ticket[e].key \in removed THEN 0 ELSE run[e]]
      /\ edits' = [k \in Key |-> IF k \in removed THEN [a \in Attempt |-> 0] ELSE edits[k]]
      /\ outcome' = [e \in Executor |-> IF ticket[e].key \in removed
                                        THEN [outcome[e] EXCEPT !.result = Disowned(@)]
                                        ELSE outcome[e]]
      /\ UNCHANGED <<pc, ticket>>
  BY DEF Prune
<1>2. \A e \in Executor : ticket[e].key \in Key /\ outcome[e] \in Outcome
  BY DEF Accounts, TypeOK, Ticket
<1>3. SameDigests'
  BY <1>1, <1>2 DEF Silence, SameDigests, EntryOf
<1>4. ASSUME NEW k \in Key \ removed, NEW a, Silent(k, a)
      PROVE  Silent(k, a)'
  <2>1. journal'[k] = journal[k] /\ edits'[k] = edits[k]
    BY <1>1
  <2>2. \A f \in Executor : ticket'[f].key = k => run'[f] = run[f]
    BY <1>1
  <2> QED BY <1>1, <1>4, <2>1, <2>2 DEF Silent
<1>5. ASSUME NEW k \in Key PROVE SilentEntry(k)'
  <2>1. CASE k \in removed
    <3>1. journal'[k].result = NoResult
      BY <1>1, <2>1 DEF AbsentEntry
    <3> QED BY <3>1 DEF SilentEntry, Declines, NoResult
  <2>2. CASE k \notin removed
    <3>1. journal'[k] = journal[k] /\ SilentEntry(k)
      BY <1>1, <2>2 DEF Silence
    <3> QED BY <1>4, <2>2, <3>1 DEF SilentEntry
  <2> QED BY <2>1, <2>2
<1>6. ASSUME NEW e \in Executor PROVE SilentCall(e)'
  <2>0. SilentCall(e) /\ pc'[e] = pc[e] /\ ticket'[e] = ticket[e]
    BY <1>1 DEF Silence
  <2>1. CASE ticket[e].key \in removed
    <3>1. /\ outcome'[e].result.run = 0 /\ outcome'[e].report = outcome[e].report
          /\ outcome'[e].result.declined = outcome[e].result.declined
      BY <1>1, <1>2, <2>1 DEF Disowned, Outcome, Result
    <3> QED BY <2>0, <3>1 DEF SilentCall, Declines
  <2>2. CASE ticket[e].key \notin removed
    <3>1. outcome'[e] = outcome[e]
      BY <1>1, <2>2
    <3>2. PICK k \in Key \ removed : k = ticket[e].key
      BY <1>2, <2>2
    <3>3. Declines(outcome[e].result) => Silent(k, outcome[e].result.run)
      BY <2>0, <3>2 DEF SilentCall
    <3>4. Declines(outcome[e].result) => Silent(k, outcome[e].result.run)'
      <4>1. \A a : Silent(k, a) => Silent(k, a)'
        BY <1>4
      <4> QED BY <3>1, <3>3, <4>1 DEF Silent
    <3> QED BY <2>0, <3>1, <3>2, <3>4 DEF SilentCall, Silent
  <2> QED BY <2>1, <2>2
<1> QED BY <1>3, <1>5, <1>6 DEF Silence

LEMMA NextSilence ==
    ASSUME Accounts, Silence, [Next]_vars
    PROVE  Silence'
<1>1. TypeOK /\ TypeOK' /\ now \in Time /\ "failed" \in Stopped
  BY NextType DEF Accounts, TypeOK, Stopped
<1>2. CASE \E removed \in SUBSET Key : Prune(removed)
  BY <1>1, <1>2, PruneSilence
<1>3. CASE ~(\E removed \in SUBSET Key : Prune(removed))
  <2>0. StillSilent
    BY <1>3, AlwaysStillSilent
  <2>1. ASSUME NEW e \in Executor, Leave(e), UNCHANGED journal PROVE Silence'
    BY <1>1, <2>0, <2>1, QuietEcho, LeaveSilent
  <2>2. ASSUME NEW e \in Executor, Progress(e) PROVE Silence'
    <3>0. EntryOf(e) = journal[ticket[e].key] /\ EntryOf(e) \in Entry /\ ticket[e].key \in Key
          /\ \E d : d \in Digest
      BY <1>1, EntryOfType, SomeKey DEF EntryOf
    <3>1. ASSUME MarkExecuting(e) PROVE Silence'
      <4>1. CASE MarkExecutingRaises(EntryOf(e))
        BY <2>1, <3>1, <4>1 DEF MarkExecuting
      <4>2. CASE ~MarkExecutingRaises(EntryOf(e))
        <5>1. EntriesEcho
          BY <1>1, <3>0, <3>1, <4>2, QuietTouches, QuietEcho DEF MarkExecuting, Recovery
        <5> QED BY <2>0, <3>1, <4>2, <5>1, StepSilent DEF MarkExecuting, Steps
      <4> QED BY <4>1, <4>2
    <3>2. ASSUME StartMutation(e) PROVE Silence'
      <4>1. EntriesEcho
        BY <1>1, <3>2, QuietEcho DEF StartMutation
      <4> QED BY <2>0, <3>2, <4>1, StepSilent DEF StartMutation, Steps
    <3>3. ASSUME MarkCommitted(e) PROVE Silence'
      <4>1. CASE MarkCommittedRaises(EntryOf(e))
        BY <2>1, <3>3, <4>1 DEF MarkCommitted
      <4>2. CASE ~MarkCommittedRaises(EntryOf(e))
        <5>1. EntriesEcho
          BY <1>1, <3>0, <3>3, <4>2, QuietTouches, QuietEcho DEF MarkCommitted, Recovery
        <5> QED BY <2>0, <3>3, <4>2, <5>1, StepSilent DEF MarkCommitted, Steps
      <4> QED BY <4>1, <4>2
    <3>4. ASSUME Answer(e) \/ FinishReconcile(e) PROVE Silence'
      BY <2>1, <3>4 DEF Answer, FinishReconcile
    <3>5. ASSUME NEW disposition, ImmediateStatus(e, disposition) PROVE Silence'
      BY <2>0, <2>1, <3>5, ReadFailedSaveSilence DEF ImmediateStatus, Found
    <3> QED BY <2>0, <2>2, <3>1, <3>2, <3>3, <3>4, <3>5, OperateSilence, CommitSilence,
               RecordSaveSilence DEF Progress
  <2>3. ASSUME NEW e \in Executor, Call(e) PROVE Silence'
    <3>0. EntryOf(e) = journal[ticket[e].key] /\ EntryOf(e) \in Entry /\ ticket[e].key \in Key
          /\ \E d : d \in Digest
      BY <1>1, EntryOfType, SomeKey DEF EntryOf
    <3>1. ASSUME Heartbeat(e) PROVE Silence'
      <4>1. EntriesEcho
        BY <1>1, <3>0, <3>1, QuietTouches, QuietEcho DEF Heartbeat, Recovery
      <4> QED BY <2>0, <3>1, <4>1, StaySilent DEF Heartbeat
    <3>2. ASSUME NEW state \in Stopped, WithdrawMutation(e, state) PROVE Silence'
      <4>1. EntriesEcho
        BY <1>1, <3>0, <3>2, QuietTouches, QuietEcho DEF WithdrawMutation, Recovery
      <4> QED BY <2>0, <3>2, <4>1, LeaveSilent DEF WithdrawMutation
    <3>3. ASSUME Crash(e) \/ \E applies \in BOOLEAN : UnexpectedError(e, applies)
          PROVE  Silence'
      BY <2>1, <3>3 DEF Crash, UnexpectedError
    <3>4. ASSUME NEW r, NEW selector, NEW disposition,
                 GetOperationStatus(e, r, selector, disposition)
          PROVE  Silence'
      BY <2>0, <3>4, ReadFailedSaveSilence DEF GetOperationStatus, Found
    <3> QED BY <2>0, <2>2, <2>3, <3>1, <3>2, <3>3, <3>4, BeginSilence DEF Call, Recovery
  <2>4. ASSUME NEW k \in Key, CrashInCreate(k) PROVE Silence'
    <3>1. Quiet(journal[k], TornEntry(journal[k].digest))
      BY DEF Quiet, TornEntry, AbsentEntry, Settled
    <3>2. EntriesEcho
      BY <1>1, <2>4, <3>1, QuietEcho DEF CrashInCreate
    <3> QED BY <2>0, <2>4, <3>2, StaySilent DEF CrashInCreate
  <2>5. CASE Tick \/ UNCHANGED vars
    <3>1. EntriesEcho
      BY <1>1, <2>5, QuietEcho DEF Tick, vars
    <3> QED BY <2>0, <2>5, <3>1, StaySilent DEF Tick, vars
  <2> QED BY <1>3, <2>3, <2>4, <2>5 DEF Next
<1> QED BY <1>2, <1>3

LEMMA InitSilence == Init => Silence
<1> SUFFICES ASSUME Init PROVE Silence
  OBVIOUS
<1>1. SameDigests
  BY DEF Init, SameDigests
<1>2. \A k \in Key : SilentEntry(k)
  BY DEF Init, SilentEntry, AbsentEntry, Declines, NoResult
<1>3. \A e \in Executor : SilentCall(e)
  BY DEF Init, SilentCall, NoOutcome, NoResult, Declines
<1> QED BY <1>1, <1>2, <1>3 DEF Silence

-----------------------------------------------------------------------------
(* Each action leaves Truth true.                                          *)

\* What a step keeps, whatever it does to the control state of call e.
LEMMA CallParts ==
    ASSUME Accounts, TypeOK', JournalKept, NamesKept, EditsGrow, NEW e \in Executor,
           CallTrue(e), ticket'[e] = ticket[e], run'[e] = run[e]
    PROVE  /\ EntryOf(e)' = journal'[ticket[e].key]
           /\ EntryOf(e).state \in Settled =>
                 EntryOf(e)'.state \in Settled /\ EntryOf(e)'.result = EntryOf(e).result
           /\ EntryOf(e).state = "committed" => EntryOf(e)'.state = "committed"
           /\ (run'[e] # 0 /\ EntryOf(e)'.attempt = 1) =>
                 /\ ticket'[e].named
                 /\ ticket'[e].operation = Workflow[EntryOf(e)'.digest]
           /\ Wrote(ticket[e].key, outcome[e].result) =>
                 (outcome[e].result.run # 0 /\ ~outcome[e].result.declined =>
                     edits'[ticket[e].key][outcome[e].result.run] = 1)
<1> DEFINE k == ticket[e].key
           old == journal[k]
           new == journal'[k]
<1>1. k \in Key /\ EntryOf(e) = old /\ EntryOf(e)' = new /\ outcome[e].result \in Result
  BY DEF Accounts, TypeOK, Ticket, Outcome, EntryOf
<1>2. Keeps(old, new) /\ KeepsName(old, new)
  BY <1>1 DEF JournalKept, NamesKept
<1>3. old.attempt \in Nat \ {0} /\ new.attempt \in Nat \ {0}
  <2>1. old \in Entry /\ new \in Entry
    BY <1>1 DEF Accounts, TypeOK
  <2> QED BY <2>1, EntryAttempt
<1>4. run[e] # 0 => IsRecord(old)
  BY <1>1 DEF Accounts, RunAccounting
<1>5. Wrote(k, outcome[e].result) =>
          (outcome[e].result.run # 0 /\ ~outcome[e].result.declined =>
              edits'[k][outcome[e].result.run] = 1)
  BY <1>1, WroteKept
<1> HIDE DEF k, old, new
<1>6. (run[e] # 0 /\ new.attempt = 1) =>
          ticket[e].named /\ ticket[e].operation = Workflow[new.digest]
  BY <1>1, <1>2, <1>3, <1>4 DEF Keeps, KeepsName, CallTrue
<1>7. /\ old.state \in Settled => new.state \in Settled /\ new.result = old.result
      /\ old.state = "committed" => new.state = "committed"
  BY <1>2 DEF Keeps, Settled
<1> QED BY <1>1, <1>5, <1>6, <1>7 DEF k, new

\* A call ends, and its entry changes quietly or not at all.
LEMMA LeaveTruth ==
    ASSUME Truth, Accounts', JournalKept, NamesKept, EditsGrow, UNCHANGED acked,
           NEW e \in Executor, Leave(e),
           UNCHANGED journal \/ \E k \in Key : \E new : Put(k, new) /\ Quiet(journal[k], new)
    PROVE  Truth'
<1>1. \A k \in Key : EntryTrue(k)'
  BY QuietEntries
<1>2. CallTrue(e)'
  BY LeaveTrue DEF Truth, Accounts
<1>3. \A f \in Executor \ {e} : /\ pc'[f] = pc[f] /\ ticket'[f] = ticket[f]
                                /\ outcome'[f] = outcome[f] /\ run'[f] = run[f]
  BY DEF Leave, Truth, Accounts, TypeOK
<1> QED BY <1>1, <1>2, <1>3, OneMoves

\* No call moves.
LEMMA StayTruth ==
    ASSUME Truth, Accounts', JournalKept, NamesKept, EditsGrow, UNCHANGED acked,
           UNCHANGED <<pc, ticket, outcome, run>>,
           UNCHANGED journal \/ \E k \in Key : \E new : Put(k, new) /\ Quiet(journal[k], new)
    PROVE  Truth'
<1>1. \A k \in Key : EntryTrue(k)'
  BY QuietEntries
<1>2. \A f \in Executor : CallTrue(f)'
  BY CallFrame DEF Truth, Accounts
<1> QED BY <1>1, <1>2 DEF Truth

\* A call goes on to wait or to run.
LEMMA GoTruth ==
    ASSUME Truth, Accounts', JournalKept, NamesKept, EditsGrow, UNCHANGED acked,
           NEW e \in Executor, NEW step \in {"queued", "running"}, Goto(e, step),
           pc[e] \in Executing, UNCHANGED <<ticket, outcome, run>>,
           UNCHANGED journal \/ \E k \in Key : \E new : Put(k, new) /\ Quiet(journal[k], new)
    PROVE  Truth'
<1>1. \A k \in Key : EntryTrue(k)'
  BY QuietEntries
<1>2. pc' = [pc EXCEPT ![e] = step] /\ pc \in [Executor -> Steps]
  BY DEF Goto, Truth, Accounts, TypeOK
<1>3. CallTrue(e)'
  <2>1. CallTrue(e) /\ ~outcome[e].ok
    BY DEF Truth, CallTrue, Executing
  <2>2. /\ (run'[e] # 0 /\ EntryOf(e)'.attempt = 1) =>
             ticket'[e].named /\ ticket'[e].operation = Workflow[EntryOf(e)'.digest]
        /\ Wrote(ticket[e].key, outcome[e].result) =>
              (outcome[e].result.run # 0 /\ ~outcome[e].result.declined =>
                  edits'[ticket[e].key][outcome[e].result.run] = 1)
    BY <2>1, CallParts DEF Truth, Accounts
  <2> QED BY <1>2, <2>1, <2>2 DEF CallTrue, Wrote
<1> QED BY <1>1, <1>2, <1>3, OneMoves

LEMMA BeginTruth ==
    ASSUME Truth, Accounts', JournalKept, NamesKept, NEW e \in Executor, NEW k \in Key,
           NEW d \in Digest, NEW recovery \in Recovery, Begin(e, k, d, recovery)
    PROVE  Truth'
<1> DEFINE entry == journal[k]
           decision == BeginDecision(entry, d, recovery, now)
           begun == BeginEntry(entry, d, recovery, now)
<1>0. /\ entry \in Entry /\ now \in Time /\ EditsGrow /\ UNCHANGED acked
      /\ Put(k, begun) /\ journal'[k] = begun
  BY SameEdits DEF Begin, Truth, Accounts, TypeOK, Put
<1>1. Quiet(entry, begun)
  BY <1>0, QuietTouches DEF Stopped
<1>2. CASE decision \notin {"execute", "reconcile"}
  BY <1>0, <1>1, <1>2, StayTruth DEF Begin
<1>3. CASE decision \in {"execute", "reconcile"}
  <2> DEFINE step == IF decision = "execute" THEN "granted" ELSE "resolving"
             held == [key |-> k, digest |-> d, operation |-> begun.operation,
                      named |-> begun.named]
             grant == IF decision = "execute" THEN begun.attempt ELSE 0
  <2>1. /\ pc[e] = "idle" /\ UNCHANGED outcome
        /\ pc' = [pc EXCEPT ![e] = step] /\ ticket' = [ticket EXCEPT ![e] = held]
        /\ run' = [run EXCEPT ![e] = grant]
    BY <1>3 DEF Begin, Goto
  <2>2. /\ pc \in [Executor -> Steps] /\ ticket \in [Executor -> Ticket]
        /\ run \in [Executor -> 0 .. MaxAttempt]
    BY DEF Truth, Accounts, TypeOK
  <2>3. (grant # 0 /\ begun.attempt = 1) =>
            begun.named /\ begun.operation = Workflow[begun.digest]
    <3> SUFFICES ASSUME decision = "execute", begun.attempt = 1
                 PROVE  begun.named /\ begun.operation = Workflow[begun.digest]
      OBVIOUS
    <3>1. IsRecord(begun)
      BY <1>0, BeginGrants
    <3>2. Named(entry) /\ KeepsName(entry, begun)
      BY <1>0 DEF Truth, EntryTrue, NamesKept
    <3> QED BY <3>1, <3>2 DEF Named, KeepsName
  <2>4. EntryOf(e)' = begun
    BY <1>0, <2>1, <2>2 DEF EntryOf
  <2>5. pc'[e] = step /\ ticket'[e] = held /\ run'[e] = grant
    BY <2>1, <2>2
  <2>6. CallTrue(e)'
    <3>1. ~outcome[e].ok /\ ~outcome[e].result.native
      BY <2>1 DEF Truth, CallTrue
    <3>2. step \in {"granted", "resolving"} /\ UNCHANGED outcome
      BY <2>1
    <3> HIDE DEF begun, step, grant
    <3> QED BY <2>3, <2>4, <2>5, <3>1, <3>2 DEF CallTrue
  <2>7. \A l \in Key : EntryTrue(l)'
    BY <1>0, <1>1, QuietEntries
  <2> HIDE DEF begun, step, grant, held
  <2> QED BY <1>0, <2>1, <2>2, <2>6, <2>7, OneMoves
<1> QED BY <1>2, <1>3

LEMMA QuietPut ==
    ASSUME TypeOK, NEW e \in Executor, NEW new, Put(ticket[e].key, new),
           Quiet(EntryOf(e), new)
    PROVE  \E k \in Key : \E entry : Put(k, entry) /\ Quiet(journal[k], entry)
BY EntryOfType DEF EntryOf

LEMMA MarkExecutingTruth ==
    ASSUME Truth, Accounts', JournalKept, NamesKept, NEW e \in Executor, MarkExecuting(e)
    PROVE  Truth'
<1>0. /\ EditsGrow /\ UNCHANGED acked /\ TypeOK /\ now \in Time /\ EntryOf(e) \in Entry
  BY SameEdits, EntryOfType DEF MarkExecuting, Truth, Accounts, TypeOK
<1>1. CASE MarkExecutingRaises(EntryOf(e))
  BY <1>0, <1>1, LeaveTruth DEF MarkExecuting
<1>2. CASE ~MarkExecutingRaises(EntryOf(e))
  <2>1. Quiet(EntryOf(e), MarkExecutingEntry(EntryOf(e), now))
    BY <1>0, <1>2 DEF Quiet, MarkExecutingEntry, Stamped, Entry, Settled
  <2>2. \E k \in Key : \E new : Put(k, new) /\ Quiet(journal[k], new)
    BY <1>0, <1>2, <2>1, QuietPut DEF MarkExecuting
  <2> QED BY <1>0, <1>2, <2>2, GoTruth DEF MarkExecuting, Executing
<1> QED BY <1>1, <1>2

LEMMA HeartbeatTruth ==
    ASSUME Truth, Accounts', JournalKept, NamesKept, NEW e \in Executor, Heartbeat(e)
    PROVE  Truth'
<1>0. /\ EditsGrow /\ UNCHANGED acked /\ TypeOK /\ now \in Time /\ EntryOf(e) \in Entry
      /\ UNCHANGED <<pc, ticket, outcome, run>>
  BY SameEdits, EntryOfType DEF Heartbeat, history, Truth, Accounts, TypeOK
<1>1. Quiet(EntryOf(e), HeartbeatEntry(EntryOf(e), now))
  BY <1>0 DEF Quiet, HeartbeatEntry, Stamped, Entry
<1>2. \E k \in Key : \E new : Put(k, new) /\ Quiet(journal[k], new)
  BY <1>0, <1>1, QuietPut DEF Heartbeat
<1> QED BY <1>0, <1>2, StayTruth

LEMMA WithdrawTruth ==
    ASSUME Truth, Accounts', JournalKept, NamesKept, NEW e \in Executor,
           NEW state \in Stopped, WithdrawMutation(e, state)
    PROVE  Truth'
<1>0. /\ EditsGrow /\ UNCHANGED acked /\ TypeOK /\ now \in Time /\ EntryOf(e) \in Entry
      /\ Leave(e)
  BY SameEdits, EntryOfType DEF WithdrawMutation, Truth, Accounts, TypeOK
<1>1. Quiet(EntryOf(e), MarkTerminalEntry(EntryOf(e), state, NoResult, now))
  BY <1>0 DEF Quiet, MarkTerminalEntry, Stamped, Entry, NoResult, Stopped, Settled
<1>2. UNCHANGED journal \/ \E k \in Key : \E new : Put(k, new) /\ Quiet(journal[k], new)
  BY <1>0, <1>1, QuietPut DEF WithdrawMutation
<1> QED BY <1>0, <1>2, LeaveTruth

LEMMA OperateTruth ==
    ASSUME Truth, Accounts', JournalKept, NamesKept, NEW e \in Executor,
           NEW report \in Reports, NEW applies \in BOOLEAN, Operate(e, report, applies)
    PROVE  Truth'
<1> DEFINE result == [run |-> run[e], present |-> TRUE, partial |-> report = "partial",
                      declined |-> report = "declined",
                      native |-> /\ Workflow[ticket[e].digest] = "save"
                                 /\ report \in {"verified", "refuted"},
                      proved |-> FALSE]
<1>0. /\ pc[e] = "running" /\ UNCHANGED <<journal, ticket, run, acked>>
      /\ IsExecuted(report) => applies
      /\ outcome' = [outcome EXCEPT ![e] = [report |-> report, ok |-> FALSE,
                                            result |-> result]]
      /\ edits' = Edited(e, applies) /\ pc' = [pc EXCEPT ![e] = "returned"]
  BY DEF Operate, Goto, IsExecuted
<1>1. EditsGrow /\ (applies /\ run[e] # 0 => edits'[ticket[e].key][run[e]] = 1)
  BY <1>0, EditedGrows DEF Truth
<1>2. \A k \in Key : EntryTrue(k)'
  BY <1>0, <1>1, QuietEntries
<1>3. /\ pc'[e] = "returned" /\ ticket'[e] = ticket[e] /\ run'[e] = run[e]
      /\ outcome'[e] = [report |-> report, ok |-> FALSE, result |-> result]
  BY <1>0 DEF Truth, Accounts, TypeOK
<1>4. /\ result.run = run[e] /\ result.present
      /\ result.native => report \in {"verified", "refuted"}
  OBVIOUS
<1> HIDE DEF result
<1>5. CallTrue(e)'
  <2>1. (run'[e] # 0 /\ EntryOf(e)'.attempt = 1) =>
           ticket'[e].named /\ ticket'[e].operation = Workflow[EntryOf(e)'.digest]
    BY <1>1, <1>3, CallParts DEF Truth, Accounts
  <2>2. IsExecuted(report) => (run[e] # 0 => edits'[ticket[e].key][run[e]] = 1)
    BY <1>0, <1>1
  <2> QED BY <1>3, <1>4, <2>1, <2>2 DEF CallTrue, Wrote, IsExecuted
<1>6. \A f \in Executor \ {e} : /\ pc'[f] = pc[f] /\ ticket'[f] = ticket[f]
                                /\ outcome'[f] = outcome[f] /\ run'[f] = run[f]
  BY <1>0 DEF Truth, Accounts, TypeOK
<1> QED BY <1>1, <1>2, <1>5, <1>6, OneMoves

LEMMA UnexpectedTruth ==
    ASSUME Truth, Accounts', JournalKept, NamesKept, NEW e \in Executor,
           NEW applies \in BOOLEAN, UnexpectedError(e, applies)
    PROVE  Truth'
<1>1. EditsGrow
  BY EditedGrows DEF UnexpectedError, Truth
<1> QED BY <1>1, LeaveTruth DEF UnexpectedError

\* The entries a transaction on one key does not touch.
LEMMA OtherEntries ==
    ASSUME Truth, Accounts', JournalKept, NamesKept, EditsGrow, UNCHANGED acked,
           NEW k \in Key, NEW new, Put(k, new)
    PROVE  journal'[k] = new /\ \A l \in Key \ {k} : EntryTrue(l)'
<1>1. journal'[k] = new /\ \A l \in Key \ {k} : journal'[l] = journal[l]
  BY DEF Put, Truth, Accounts, TypeOK
<1>2. \A l \in Key \ {k} : Quiet(journal[l], journal'[l])
  BY <1>1 DEF Quiet
<1> QED BY <1>1, <1>2, EntryFrame DEF Truth, Accounts

\* The verdict of a first save comes from its file.
LEMMA CommitProves ==
    ASSUME Truth, Silence, NEW e \in Executor, NEW disposition, pc[e] = "returned",
           Commits(e, disposition)
    PROVE  /\ IsExecuted(outcome[e].report) \/ outcome[e].result.declined
           /\ (/\ EntryOf(e).attempt = 1 /\ Workflow[EntryOf(e).digest] = "save"
               /\ run[e] # 0) => CommittedResult(e, disposition).proved
<1>1. IsExecuted(outcome[e].report) \/ outcome[e].report = "declined"
  BY DEF Commits, ChecksFingerprint, IsExecuted
<1>2. outcome[e].report = "declined" =>
          outcome[e].result.declined /\ Workflow[ticket[e].digest] = "edit"
  BY DEF Silence, SilentCall
<1>3. ASSUME EntryOf(e).attempt = 1, Workflow[EntryOf(e).digest] = "save", run[e] # 0
      PROVE  CommittedResult(e, disposition).proved
  <2>1. ticket[e].named /\ ticket[e].operation = "save"
    BY <1>3 DEF Truth, CallTrue
  <2>2. IsExecuted(outcome[e].report)
    BY <1>1, <1>3, <1>2 DEF Silence, SameDigests
  <2>3. ChecksFingerprint(e) /\ disposition = "confirmed"
    BY <2>1, <2>2 DEF Commits, ChecksFingerprint
  <2>4. outcome[e].result \in Result
    BY DEF Truth, Accounts, TypeOK, Outcome
  <2> QED BY <2>3, <2>4 DEF CommittedResult, Evidenced, Result
<1> QED BY <1>1, <1>3, <1>2

LEMMA NotOkAlready ==
    ASSUME NEW f \in [Executor -> Outcome], NEW e \in Executor, ~f[e].ok, NEW r
    PROVE  [f EXCEPT ![e].result = r] = [f EXCEPT ![e].ok = FALSE, ![e].result = r]
<1>1. PICK o \in Outcome : o = f[e]
  OBVIOUS
<1>2. o = [report |-> o.report, ok |-> o.ok, result |-> o.result] /\ o.ok = FALSE
  BY <1>1 DEF Outcome
<1>3. [o EXCEPT !.ok = FALSE] = o
  BY <1>2
<1>4. DEFINE g == [f EXCEPT ![e].ok = FALSE]
<1>5. g = [f EXCEPT ![e] = [o EXCEPT !.ok = FALSE]]
  BY <1>1
<1>6. g = f
  BY <1>1, <1>3, <1>5
<1>7. [f EXCEPT ![e].ok = FALSE, ![e].result = r] = [g EXCEPT ![e].result = r]
  OBVIOUS
<1> QED BY <1>6, <1>7

LEMMA CommitTruth ==
    ASSUME Truth, Silence, Accounts', JournalKept, NamesKept, NEW e \in Executor,
           NEW disposition, Commit(e, disposition)
    PROVE  Truth'
<1>a. PICK k \in Key : k = ticket[e].key
  BY EntryOfType DEF Truth, Accounts
<1>b. PICK old \in Entry : old = EntryOf(e)
  BY EntryOfType DEF Truth, Accounts
<1>c. PICK result \in Result : result = CommittedResult(e, disposition)
  BY CommittedResultType DEF Truth, Accounts
<1>0. /\ pc[e] = "returned" /\ UNCHANGED <<edits, acked>> /\ EditsGrow
      /\ old = journal[k] /\ now \in Time /\ TypeOK
  BY <1>a, <1>b, CommitSplit, SameEdits DEF EntryOf, Truth, Accounts, TypeOK
<1>1. /\ result.run = run[e] /\ result.present
      /\ result.native => Wrote(k, result)
      /\ IsExecuted(outcome[e].report) => Wrote(k, result)
  BY <1>0, <1>a, <1>c, CommittedResultType DEF Truth, CallTrue, Wrote
<1>2. Wrote(k, result) => Wrote(k, result)'
  BY <1>0 DEF Wrote
<1>3. EntryTrue(k) /\ CallTrue(e)
  BY <1>0 DEF Truth
<1>4. CASE Leave(e) /\ UNCHANGED journal
  BY <1>0, <1>4, LeaveTruth
<1>5. ASSUME NEW step \in {"verified", "answering"}, NEW ok \in BOOLEAN, NEW new,
             Put(k, new), Goto(e, step), UNCHANGED <<ticket, run>>,
             outcome' = [outcome EXCEPT ![e].ok = ok, ![e].result = result],
             step = "answering" => ~ok,
             step = "verified" => new.state \in Settled /\ new.result = result,
             EntryTrue(k)'
      PROVE  Truth'
  <2>1. /\ pc'[e] = step /\ ticket'[e] = ticket[e] /\ run'[e] = run[e]
        /\ outcome'[e].ok = ok /\ outcome'[e].result = result
    BY <1>5 DEF Goto, Truth, Accounts, TypeOK, Outcome
  <2>2. \A f \in Executor \ {e} : /\ pc'[f] = pc[f] /\ ticket'[f] = ticket[f]
                                  /\ outcome'[f] = outcome[f] /\ run'[f] = run[f]
    BY <1>5 DEF Goto, Truth, Accounts, TypeOK
  <2>3. journal'[k] = new /\ \A l \in Key : EntryTrue(l)'
    BY <1>0, <1>5, OtherEntries
  <2>4. /\ EntryOf(e)' = new
        /\ (run'[e] # 0 /\ EntryOf(e)'.attempt = 1) =>
             ticket'[e].named /\ ticket'[e].operation = Workflow[EntryOf(e)'.digest]
    BY <1>0, <1>3, <1>a, <2>1, <2>3, CallParts DEF Truth, Accounts
  <2>5. CallTrue(e)'
    <3>1. result.native => (result.run # 0 /\ ~result.declined =>
                                edits'[ticket'[e].key][result.run] = 1)
      BY <1>1, <1>a, <1>0, <2>1 DEF Wrote
    <3>2. step = "verified" => EntryOf(e)'.state \in Settled /\ EntryOf(e)'.result.run = run'[e]
      BY <1>1, <1>5, <2>1, <2>4
    <3> QED BY <1>1, <1>5, <2>1, <2>4, <3>1, <3>2 DEF CallTrue, Wrote
  <2> QED BY <1>0, <2>2, <2>3, <2>5, OneMoves
<1>6. CASE /\ Commits(e, disposition) /\ ~MarkVerifiedRaises(old)
           /\ Put(k, MarkVerifiedEntry(old, result, now)) /\ Goto(e, "verified")
           /\ outcome' = [outcome EXCEPT ![e].ok = TRUE, ![e].result = result]
           /\ UNCHANGED <<ticket, run>>
  <2> DEFINE new == MarkVerifiedEntry(old, result, now)
  <2>1. /\ new.state = "verified" /\ new.result = result /\ new.attempt = old.attempt
        /\ new.digest = old.digest /\ new.named = old.named
        /\ new.operation = old.operation /\ old.state = "executing"
    BY <1>0, <1>6 DEF MarkVerifiedEntry, MarkVerifiedRaises, Entry
  <2>2. journal'[k] = new /\ UNCHANGED acked
    BY <1>0, <1>6, OtherEntries
  <2>3. /\ Wrote(k, result)
        /\ (/\ new.attempt = 1 /\ Workflow[new.digest] = "save"
            /\ run[e] # 0) => result.proved
    <3>1. /\ IsExecuted(outcome[e].report) \/ result.declined
          /\ (/\ new.attempt = 1 /\ Workflow[new.digest] = "save"
              /\ run[e] # 0) => result.proved
      BY <1>0, <1>6, <1>b, <1>c, <2>1, CommitProves, CommittedResultType DEF Truth, Accounts
    <3> QED BY <1>1, <3>1 DEF Wrote
  <2> HIDE DEF new
  <2>4. Named(new)
    BY <1>0, <1>3, <2>1 DEF EntryTrue, Named, IsRecord
  <2>5. acked[k] = {}
    BY <1>0, <1>3, <2>1 DEF EntryTrue, Truth, Accounts, TypeOK
  <2>6. EntryTrue(k)'
    BY <1>1, <1>2, <2>1, <2>2, <2>3, <2>4, <2>5 DEF EntryTrue, Named, IsRecord
  <2> QED BY <1>5, <1>6, <2>1, <2>6 DEF Settled, new
<1>7. CASE /\ IsRecord(old) /\ Put(k, MarkTerminalEntry(old, "failed", result, now))
           /\ Goto(e, "answering")
           /\ outcome' = [outcome EXCEPT ![e].result = result]
           /\ UNCHANGED <<ticket, run>>
  <2> DEFINE new == MarkTerminalEntry(old, "failed", result, now)
  <2>1. ~outcome[e].ok
    BY <1>0, <1>3 DEF CallTrue
  <2>2. outcome' = [outcome EXCEPT ![e].ok = FALSE, ![e].result = result]
    <3>1. outcome \in [Executor -> Outcome]
      BY <1>0 DEF TypeOK
    <3> QED BY <1>7, <2>1, <3>1, NotOkAlready
  <2>3. journal'[k] = new /\ UNCHANGED acked
    BY <1>0, <1>7, OtherEntries
  <2>4. CASE old.state \in Active
    <3>1. /\ new.state = "failed" /\ new.result = result /\ new.attempt = old.attempt
          /\ new.digest = old.digest /\ new.named = old.named
          /\ new.operation = old.operation
      BY <1>0, <1>1, <2>4 DEF MarkTerminalEntry, Stamped, Entry
    <3>2. acked[k] = {} /\ Named(journal[k])
      BY <1>0, <1>3, <2>4 DEF EntryTrue, Active, Truth, Accounts, TypeOK
    <3> HIDE DEF new
    <3>3. Named(new)
      BY <1>0, <2>4, <3>1, <3>2 DEF Named, IsRecord, Active
    <3>4. EntryTrue(k)'
      BY <1>1, <1>2, <2>3, <3>1, <3>2, <3>3 DEF EntryTrue, Named, IsRecord, Settled
    <3> QED BY <1>5, <1>7, <2>2, <3>4 DEF new
  <2>5. CASE old.state \notin Active
    <3>1. new = old
      BY <2>5 DEF MarkTerminalEntry
    <3>2. Quiet(journal[k], journal'[k])
      BY <1>0, <2>3, <3>1 DEF Quiet
    <3>3. EntryTrue(k)'
      BY <1>0, <1>3, <2>3, <3>2, EntryFrame DEF Truth, Accounts
    <3> HIDE DEF new
    <3> QED BY <1>5, <1>7, <2>2, <3>3 DEF new
  <2> QED BY <2>4, <2>5
<1> QED BY <1>4, <1>6, <1>7, <1>a, <1>b, <1>c, CommitSplit

LEMMA MarkCommittedTruth ==
    ASSUME Truth, Accounts', JournalKept, NamesKept, NEW e \in Executor, MarkCommitted(e)
    PROVE  Truth'
<1>0. /\ EditsGrow /\ UNCHANGED acked /\ TypeOK /\ now \in Time /\ pc[e] = "verified"
      /\ ticket[e].key \in Key /\ EntryOf(e) \in Entry
  BY SameEdits, EntryOfType DEF MarkCommitted, Truth, Accounts, TypeOK
<1>1. CASE MarkCommittedRaises(EntryOf(e))
  BY <1>0, <1>1, LeaveTruth DEF MarkCommitted
<1>2. CASE ~MarkCommittedRaises(EntryOf(e))
  <2> DEFINE new == MarkCommittedEntry(EntryOf(e), now)
  <2>1. /\ Put(ticket[e].key, new) /\ pc' = [pc EXCEPT ![e] = "answering"]
        /\ UNCHANGED <<ticket, outcome, run>>
    BY <1>2 DEF MarkCommitted, Goto
  <2>2. Quiet(EntryOf(e), new) /\ new.state = "committed" /\ new.result = EntryOf(e).result
    BY <1>0, <1>2 DEF Quiet, MarkCommittedRaises, MarkCommittedEntry, Settled, Entry
  <2> HIDE DEF new
  <2>3. \E k \in Key : \E entry : Put(k, entry) /\ Quiet(journal[k], entry)
    BY <1>0, <2>1, <2>2, QuietPut
  <2>4. \A k \in Key : EntryTrue(k)'
    BY <1>0, <2>3, QuietEntries
  <2>5. journal'[ticket[e].key] = new
    BY <1>0, <2>1, OtherEntries
  <2>6. CallTrue(e)'
    <3>1. /\ CallTrue(e) /\ pc'[e] = "answering"
          /\ ticket'[e] = ticket[e] /\ run'[e] = run[e] /\ outcome'[e] = outcome[e]
      BY <2>1 DEF Truth, Accounts, TypeOK
    <3>2. /\ EntryOf(e)' = new
          /\ (run'[e] # 0 /\ EntryOf(e)'.attempt = 1) =>
               ticket'[e].named /\ ticket'[e].operation = Workflow[EntryOf(e)'.digest]
          /\ Wrote(ticket[e].key, outcome[e].result) =>
               (outcome[e].result.run # 0 /\ ~outcome[e].result.declined =>
                   edits'[ticket[e].key][outcome[e].result.run] = 1)
      BY <1>0, <2>5, <3>1, CallParts DEF Truth, Accounts
    <3>3. run'[e] # 0 => new.state = "committed" /\ new.result.run = run'[e]
      BY <1>0, <2>2, <3>1 DEF CallTrue
    <3> QED BY <3>1, <3>2, <3>3 DEF CallTrue, Wrote
  <2>7. \A f \in Executor \ {e} : /\ pc'[f] = pc[f] /\ ticket'[f] = ticket[f]
                                  /\ outcome'[f] = outcome[f] /\ run'[f] = run[f]
    BY <2>1 DEF Truth, Accounts, TypeOK
  <2> QED BY <1>0, <2>4, <2>6, <2>7, OneMoves
<1> QED BY <1>1, <1>2

LEMMA AnswerTruth ==
    ASSUME Truth, Accounts', JournalKept, NamesKept, NEW e \in Executor, Answer(e)
    PROVE  Truth'
<1>0. /\ EditsGrow /\ TypeOK /\ ticket[e].key \in Key /\ pc[e] = "answering"
      /\ UNCHANGED <<journal, edits>> /\ Leave(e)
  BY SameEdits, EntryOfType DEF Answer, Truth, Accounts
<1>1. \A k \in Key : \A a \in acked'[k] :
         a \in acked[k] \/ /\ k = ticket[e].key /\ a = run[e] /\ outcome[e].ok
                           /\ run[e] # 0
  BY <1>0 DEF Answer, TypeOK
<1>2. ASSUME NEW k \in Key PROVE EntryTrue(k)'
  <2>1. EntryTrue(k) /\ CallTrue(e)
    BY DEF Truth
  <2>2. \A a \in acked'[k] : journal[k].state = "committed" /\ journal[k].result.run = a
    BY <1>0, <1>1, <2>1 DEF EntryTrue, CallTrue, EntryOf
  <2> QED BY <1>0, <2>1, <2>2 DEF EntryTrue, Named, IsRecord, Wrote
<1>3. CallTrue(e)'
  BY <1>0, LeaveTrue
<1>4. \A f \in Executor \ {e} : /\ pc'[f] = pc[f] /\ ticket'[f] = ticket[f]
                                /\ outcome'[f] = outcome[f] /\ run'[f] = run[f]
  BY <1>0 DEF Leave, TypeOK
<1> QED BY <1>0, <1>2, <1>3, <1>4, OneMoves

LEMMA ReadFailedSaveTruth ==
    ASSUME Truth, Accounts', JournalKept, NamesKept, NEW e \in Executor, NEW k \in Key,
           NEW disposition, ReadFailedSave(e, k, disposition)
    PROVE  Truth'
<1>0. /\ EditsGrow /\ UNCHANGED <<acked, journal, edits>> /\ TypeOK
      /\ journal[k].result \in Result
  BY SameEdits DEF ReadFailedSave, Truth, Accounts, TypeOK, Entry
<1>1. CASE disposition \notin {"confirmed", "likely"}
  BY <1>0, <1>1, LeaveTruth DEF ReadFailedSave
<1>2. CASE disposition \in {"confirmed", "likely"}
  <2> DEFINE result == [Evidenced(journal[k].result, disposition) EXCEPT !.present = TRUE]
             ok == disposition = "confirmed"
             held == [key |-> k, digest |-> journal[k].digest,
                      operation |-> "save", named |-> TRUE]
  <2>1. /\ pc' = [pc EXCEPT ![e] = "reconciling"] /\ ticket' = [ticket EXCEPT ![e] = held]
        /\ outcome' = [outcome EXCEPT ![e] = [report |-> "lost", ok |-> ok,
                                              result |-> result]]
        /\ run' = [run EXCEPT ![e] = 0]
    BY <1>2 DEF ReadFailedSave, Goto
  <2>2. /\ result.present /\ result.run = journal[k].result.run
        /\ result.declined = journal[k].result.declined
        /\ result.native = journal[k].result.native
        /\ ok => result.native /\ result.proved
    BY <1>0, <1>2 DEF ReadFailedSave, Dispositions, Evidenced, Result
  <2>3. /\ pc'[e] = "reconciling" /\ ticket'[e].key = k /\ run'[e] = 0
        /\ outcome'[e].ok = ok /\ outcome'[e].result = result
    BY <1>0, <2>1 DEF TypeOK
  <2>4. result.native => (result.run # 0 /\ ~result.declined => edits'[k][result.run] = 1)
    BY <1>0, <2>2 DEF Truth, EntryTrue, Wrote
  <2>5. \A f \in Executor \ {e} : /\ pc'[f] = pc[f] /\ ticket'[f] = ticket[f]
                                  /\ outcome'[f] = outcome[f] /\ run'[f] = run[f]
    BY <1>0, <2>1 DEF TypeOK
  <2> HIDE DEF result, ok, held
  <2>6. CallTrue(e)'
    BY <2>2, <2>3, <2>4 DEF CallTrue, Wrote
  <2>7. \A l \in Key : EntryTrue(l)'
    BY <1>0, QuietEntries
  <2> QED BY <1>0, <2>5, <2>6, <2>7, OneMoves
<1> QED BY <1>1, <1>2

LEMMA RecordSaveTruth ==
    ASSUME Truth, Accounts', JournalKept, NamesKept, NEW e \in Executor,
           RecordSaveReconciliation(e)
    PROVE  Truth'
<1>a. PICK k \in Key : k = ticket[e].key
  BY EntryOfType DEF Truth, Accounts
<1>b. PICK result \in Result : result = outcome[e].result
  BY DEF Truth, Accounts, TypeOK, Outcome
<1>c. PICK ok \in BOOLEAN : ok = outcome[e].ok
  BY DEF Truth, Accounts, TypeOK, Outcome
<1> DEFINE old == journal[k]
           new == RecordSaveReconciliationEntry(old, result, ok, now)
<1>0. /\ EditsGrow /\ UNCHANGED <<acked, edits>> /\ TypeOK /\ pc[e] = "reconciling"
      /\ Leave(e) /\ old \in Entry /\ EntryOf(e) = old
  BY <1>a, SameEdits DEF RecordSaveReconciliation, Truth, Accounts, TypeOK, EntryOf
<1>1. CASE UNCHANGED journal
  BY <1>0, <1>1, LeaveTruth
<1>2. CASE Put(k, new) /\ old.state # "failed"
  <2>1. new = old
    BY <1>2 DEF RecordSaveReconciliationEntry
  <2>2. Quiet(journal[k], new)
    BY <2>1 DEF Quiet
  <2> HIDE DEF new, old
  <2> QED BY <1>0, <1>2, <2>2, LeaveTruth
<1>3. CASE Put(k, new) /\ old.state = "failed"
  <2>1. /\ new.state = IF ok THEN "committed" ELSE "failed"
        /\ new.result = result /\ new.digest = old.digest /\ new.attempt = old.attempt
        /\ new.named = old.named /\ new.operation = old.operation
    BY <1>0, <1>3 DEF RecordSaveReconciliationEntry, Stamped, Entry
  <2>2. EntryTrue(k) /\ CallTrue(e)
    BY DEF Truth
  <2>3. /\ result.native => (result.run # 0 /\ ~result.declined => edits'[k][result.run] = 1)
        /\ result.present /\ (ok => result.native /\ result.proved)
    BY <1>a, <1>b, <1>c, <1>0, <2>2 DEF CallTrue, Wrote
  <2>4. acked[k] = {} /\ Named(old)
    BY <1>0, <1>3, <2>2 DEF EntryTrue, TypeOK
  <2>5. journal'[k] = new /\ \A l \in Key \ {k} : EntryTrue(l)'
    BY <1>0, <1>3, OtherEntries
  <2> HIDE DEF new, old
  <2>6. Named(new)
    BY <1>3, <2>1, <2>4 DEF Named, IsRecord
  <2>7. EntryTrue(k)'
    BY <1>0, <2>1, <2>3, <2>4, <2>5, <2>6 DEF EntryTrue, Named, IsRecord, Wrote, Settled
  <2>8. CallTrue(e)'
    BY <1>0, LeaveTrue
  <2>9. \A f \in Executor \ {e} : /\ pc'[f] = pc[f] /\ ticket'[f] = ticket[f]
                                  /\ outcome'[f] = outcome[f] /\ run'[f] = run[f]
    BY <1>0 DEF Leave, TypeOK
  <2> QED BY <1>0, <2>5, <2>7, <2>8, <2>9, OneMoves
<1>4. UNCHANGED journal \/ Put(k, new)
  BY <1>0, <1>a, <1>b, <1>c DEF RecordSaveReconciliation
<1> QED BY <1>1, <1>2, <1>3, <1>4

\* What pruning removes, it forgets in every trace.
LEMMA PruneTruth ==
    ASSUME Truth, Accounts', NEW removed \in SUBSET Key, Prune(removed)
    PROVE  Truth'
<1>1. /\ journal' = [k \in Key |-> IF k \in removed THEN AbsentEntry(journal[k].digest)
                                                    ELSE journal[k]]
      /\ run' = [e \in Executor |-> IF ticket[e].key \in removed THEN 0 ELSE run[e]]
      /\ edits' = [k \in Key |-> IF k \in removed THEN [a \in Attempt |-> 0] ELSE edits[k]]
      /\ acked' = [k \in Key |-> IF k \in removed THEN {} ELSE acked[k]]
      /\ outcome' = [e \in Executor |-> IF ticket[e].key \in removed
                                        THEN [outcome[e] EXCEPT !.result = Disowned(@)]
                                        ELSE outcome[e]]
      /\ UNCHANGED <<pc, ticket>>
  BY DEF Prune
<1>2. ASSUME NEW k \in Key PROVE EntryTrue(k)'
  <2>1. CASE k \in removed
    <3>1. journal'[k].state = "absent" /\ journal'[k].result = NoResult /\ acked'[k] = {}
      BY <1>1, <2>1 DEF AbsentEntry
    <3> QED BY <3>1 DEF EntryTrue, Named, IsRecord, Wrote, NoResult, Settled
  <2>2. CASE k \notin removed
    BY <1>1, <2>2 DEF Truth, EntryTrue, Named, IsRecord, Wrote
  <2> QED BY <2>1, <2>2
<1>3. ASSUME NEW e \in Executor PROVE CallTrue(e)'
  <2>0. CallTrue(e) /\ ticket[e].key \in Key /\ outcome[e] \in Outcome
    BY DEF Truth, Accounts, TypeOK, Ticket
  <2>1. CASE ticket[e].key \in removed
    <3>1. /\ run'[e] = 0 /\ outcome'[e].result.run = 0 /\ outcome'[e].ok = outcome[e].ok
          /\ outcome'[e].report = outcome[e].report
          /\ outcome'[e].result.native = outcome[e].result.native
          /\ outcome'[e].result.present = outcome[e].result.present
          /\ outcome'[e].result.proved = outcome[e].result.proved
      BY <1>1, <2>0, <2>1 DEF Disowned, Outcome, Result
    <3> QED BY <1>1, <2>0, <3>1 DEF CallTrue, Wrote
  <2>2. CASE ticket[e].key \notin removed
    BY <1>1, <2>0, <2>2 DEF CallTrue, Wrote, EntryOf
  <2> QED BY <2>1, <2>2
<1> QED BY <1>2, <1>3 DEF Truth

LEMMA NextTruth ==
    ASSUME Truth, Silence, [Next]_vars
    PROVE  Truth'
<1>1. Accounts /\ Accounts' /\ TypeOK /\ TypeOK'
  BY NextAccounts DEF Truth, Accounts
<1>2. CASE \E removed \in SUBSET Key : Prune(removed)
  BY <1>1, <1>2, PruneTruth
<1>3. CASE ~(\E removed \in SUBSET Key : Prune(removed))
  <2>1. JournalKept /\ NamesKept
    BY <1>1, <1>3, NextTouches, OneTouchedKeeps
  <2>2. ASSUME NEW e \in Executor, Progress(e) PROVE Truth'
    <3>1. ASSUME StartMutation(e) PROVE Truth'
      BY <1>1, <2>1, <3>1, SameEdits, GoTruth DEF StartMutation, history, Executing
    <3>2. ASSUME FinishReconcile(e) PROVE Truth'
      BY <1>1, <2>1, <3>2, SameEdits, LeaveTruth DEF FinishReconcile
    <3>3. ASSUME NEW disposition, ImmediateStatus(e, disposition) PROVE Truth'
      <4>1. CASE Leave(e) /\ UNCHANGED <<now, punctual, journal, edits, acked>>
        BY <1>1, <2>1, <4>1, SameEdits, LeaveTruth
      <4>2. CASE \E k \in Found(ticket[e].key[2], PathOf[ticket[e].key[1]]) :
                    ReadFailedSave(e, k, disposition)
        BY <1>1, <2>1, <4>2, ReadFailedSaveTruth DEF Found
      <4> QED BY <3>3, <4>1, <4>2 DEF ImmediateStatus
    <3> QED BY <1>1, <2>1, <2>2, <3>1, <3>2, <3>3, MarkExecutingTruth, OperateTruth,
               CommitTruth, MarkCommittedTruth, AnswerTruth, RecordSaveTruth DEF Progress
  <2>3. ASSUME NEW e \in Executor, Call(e) PROVE Truth'
    <3>1. ASSUME Crash(e) PROVE Truth'
      BY <1>1, <2>1, <3>1, SameEdits, LeaveTruth DEF Crash
    <3>2. ASSUME NEW r, NEW selector, NEW disposition,
                 GetOperationStatus(e, r, selector, disposition)
          PROVE  Truth'
      BY <1>1, <2>1, <3>2, ReadFailedSaveTruth DEF GetOperationStatus, Found
    <3> QED BY <1>1, <2>1, <2>2, <2>3, <3>1, <3>2, BeginTruth, HeartbeatTruth,
               WithdrawTruth, UnexpectedTruth DEF Call, Recovery
  <2>4. ASSUME NEW k \in Key, CrashInCreate(k) PROVE Truth'
    <3>1. Put(k, TornEntry(journal[k].digest)) /\ UNCHANGED <<pc, ticket, outcome, run, edits, acked>>
      BY <2>4 DEF CrashInCreate
    <3>2. Quiet(journal[k], TornEntry(journal[k].digest))
      BY DEF Quiet, TornEntry, AbsentEntry, Settled
    <3> QED BY <1>1, <2>1, <3>1, <3>2, SameEdits, StayTruth
  <2>5. CASE Tick \/ UNCHANGED vars
    BY <1>1, <2>1, <2>5, SameEdits, StayTruth DEF Tick, history, vars
  <2> QED BY <1>3, <2>3, <2>4, <2>5 DEF Next
<1> QED BY <1>2, <1>3

LEMMA InitTruth == Init => Truth
<1> SUFFICES ASSUME Init PROVE Truth
  OBVIOUS
<1>1. Accounts
  BY InitType DEF Accounts, Init, OncePerAttempt, RunAccounting, AbsentEntry
<1>2. ASSUME NEW k \in Key PROVE EntryTrue(k)
  BY DEF Init, EntryTrue, Named, IsRecord, AbsentEntry, NoResult, Settled
<1>3. ASSUME NEW e \in Executor PROVE CallTrue(e)
  BY DEF Init, CallTrue, NoOutcome, NoResult
<1> QED BY <1>1, <1>2, <1>3 DEF Truth

LEMMA AlwaysTruth == Spec => [](Truth /\ Silence)
<1>1. Init => Truth /\ Silence
  BY InitTruth, InitSilence
<1>2. Truth /\ Silence /\ [Next]_vars => (Truth /\ Silence)'
  BY NextTruth, NextSilence DEF Truth
<1> QED BY <1>1, <1>2, PTL DEF Spec

\* A status query finds the entry of a first attempt under its request, with or
\* without its path.
LEMMA FirstIsFound ==
    ASSUME TypeOK, NEW k \in Key, Named(journal[k]), IsRecord(journal[k]),
           journal[k].attempt = 1, NEW selector \in {"any", PathOf[k[1]]}
    PROVE  OfflineStatus(k[2], selector) # "none"
<1> DEFINE found == Found(k[2], selector)
<1>1. k \in found
  BY PathAssumption DEF Found, Named, Key
<1>2. \A l \in found : journal[l].state # "none"
  BY DEF Found, TypeOK, Entry, Active, Terminal, Settled, Stopped
<1>3. (CHOOSE l \in found : TRUE) \in found
  BY <1>1
<1> HIDE DEF found
<1>4. /\ found # {}
      /\ journal[CHOOSE l \in found : TRUE].state # "none"
  BY <1>1, <1>2, <1>3
<1> QED BY <1>4 DEF OfflineStatus, found

\* What a caller is told is true, for any number of callers and whatever
\* crashes, is cancelled or is pruned: an acknowledged operation stays committed
\* with its result, a settled one was applied once or declined and was never
\* applied, a first save was proved by its file, and the status of a committed operation is found.
THEOREM RepliesTrue == Spec => []RepliesAreTrue
<1>1. Truth /\ Silence => RepliesAreTrue
  <2> SUFFICES ASSUME Truth, Silence PROVE RepliesAreTrue
    OBVIOUS
  <2>1. AckDurable
    BY DEF Truth, EntryTrue, AckDurable
  <2>2. SettledWasApplied
    BY DEF Truth, EntryTrue, Silence, SilentEntry, Declines, Silent, SettledWasApplied, Wrote
  <2>3. SaveProvedByFile
    BY DEF Truth, EntryTrue, SaveProvedByFile
  <2>4. StatusKnowsCommitted
    BY FirstIsFound DEF Truth, Accounts, EntryTrue, StatusKnowsCommitted, IsRecord
  <2> QED BY <2>1, <2>2, <2>3, <2>4 DEF RepliesAreTrue
<1> QED BY <1>1, AlwaysTruth, PTL

-----------------------------------------------------------------------------
(* While heartbeats are punctual, a run owns its entry.                    *)

Holding == Executing \cup {"returned"}

\* A live and fresh entry stays as it is, or has its heartbeat renewed.
Spared(old, new, t) ==
    old.state \in Active /\ t - old.heartbeat < StaleTimeout =>
        /\ new.state \in Active /\ new.attempt = old.attempt
        /\ t - new.heartbeat < StaleTimeout

\* Every entry is spared, unless the call that holds it lets go of it.
AllSpared ==
    \A k \in Key :
        \/ Spared(journal[k], journal'[k], now)
        \/ \E e \in Executor : /\ pc[e] \in Holding /\ pc'[e] \notin Holding
                               /\ ticket[e].key = k

\* No call takes hold of an entry.
NoneTakes ==
    \A f \in Executor : pc'[f] \in Holding =>
        /\ pc[f] \in Holding /\ ticket'[f] = ticket[f]
        /\ run'[f] = run[f] \/ EntryOf(f).state \notin Active

LEMMA SparedOwners ==
    ASSUME TypeOK, Owners, AllSpared, NoneTakes, UNCHANGED <<now, punctual>>
    PROVE  Owners'
<1> SUFFICES ASSUME punctual, NEW e \in Executor, pc'[e] \in Holding PROVE Owns(e)'
  BY DEF Owners, Owns, Holding
<1>1. /\ pc[e] \in Holding /\ ticket'[e] = ticket[e]
      /\ run'[e] = run[e] \/ EntryOf(e).state \notin Active
  BY DEF NoneTakes
<1>2. /\ EntryOf(e).state \in Active /\ EntryOf(e).attempt = run[e]
      /\ now - EntryOf(e).heartbeat < StaleTimeout
      /\ \A f \in Executor \ {e} : pc[f] \in Holding => ticket[f].key # ticket[e].key
  BY <1>1 DEF Owners, Owns, Holding
<1>3. ticket[e].key \in Key /\ EntryOf(e) = journal[ticket[e].key]
      /\ EntryOf(e)' = journal'[ticket[e].key]
  BY <1>1, EntryOfType DEF EntryOf
<1>4. Spared(EntryOf(e), EntryOf(e)', now)
  BY <1>2, <1>3 DEF AllSpared
<1>5. /\ EntryOf(e)'.state \in Active /\ EntryOf(e)'.attempt = run'[e]
      /\ now' - EntryOf(e)'.heartbeat < StaleTimeout
  BY <1>1, <1>2, <1>4 DEF Spared
<1>6. \A f \in Executor \ {e} : pc'[f] \in Holding => ticket'[f].key # ticket'[e].key
  BY <1>1, <1>2 DEF NoneTakes
<1> QED BY <1>5, <1>6 DEF Owns, Holding

LEMMA SparedItself == \A entry, t : Spared(entry, entry, t)
BY DEF Spared

\* The transactions of calls that hold nothing, on whatever entry.
LEMMA TransactionsSpare ==
    ASSUME NEW entry \in Entry, NEW t \in Time, NEW d \in Digest, NEW recovery \in Recovery,
           NEW result, NEW confirmed
    PROVE  /\ Spared(entry, BeginEntry(entry, d, recovery, t), t)
           /\ ~MarkExecutingRaises(entry) => Spared(entry, MarkExecutingEntry(entry, t), t)
           /\ Spared(entry, HeartbeatEntry(entry, t), t)
           /\ ~MarkCommittedRaises(entry) => Spared(entry, MarkCommittedEntry(entry, t), t)
           /\ Spared(entry, RecordSaveReconciliationEntry(entry, result, confirmed, t), t)
<1> USE DEF Spared, Active
<1>0. t - t < StaleTimeout /\ entry.heartbeat \in Int /\ t \in Int
  BY LimitAssumption DEF Entry
<1>1. Spared(entry, BeginEntry(entry, d, recovery, t), t)
  <2> SUFFICES ASSUME entry.state \in Active, t - entry.heartbeat < StaleTimeout
               PROVE  BeginEntry(entry, d, recovery, t) = entry
    OBVIOUS
  <2>1. ~Recoverable(entry, t)
    BY <1>0, LimitAssumption DEF Recoverable, IsStale, Stopped
  <2> QED BY <2>1 DEF BeginEntry, IsRecord
<1>2. ~MarkExecutingRaises(entry) => Spared(entry, MarkExecutingEntry(entry, t), t)
  BY <1>0 DEF MarkExecutingEntry, Stamped, Entry
<1>3. Spared(entry, HeartbeatEntry(entry, t), t)
  BY <1>0 DEF HeartbeatEntry, Stamped, Entry
<1>4. ~MarkCommittedRaises(entry) => Spared(entry, MarkCommittedEntry(entry, t), t)
  BY DEF MarkCommittedRaises, Settled
<1>5. Spared(entry, RecordSaveReconciliationEntry(entry, result, confirmed, t), t)
  BY DEF RecordSaveReconciliationEntry
<1> QED BY <1>1, <1>2, <1>3, <1>4, <1>5

LEMMA PutSpares ==
    ASSUME TypeOK, NEW k \in Key, NEW new, Put(k, new), Spared(journal[k], new, now)
    PROVE  AllSpared
BY SparedItself DEF AllSpared, Put, TypeOK

\* The call that holds an entry lets go of it as it changes it.
LEMMA LetGoSpares ==
    ASSUME TypeOK, NEW e \in Executor, NEW new, Put(ticket[e].key, new),
           pc[e] \in Holding, pc'[e] \notin Holding
    PROVE  AllSpared
BY SparedItself, EntryOfType DEF AllSpared, Put, TypeOK

LEMMA SameSpares == UNCHANGED journal => AllSpared
BY SparedItself DEF AllSpared

LEMMA LeaveTakesNone ==
    ASSUME TypeOK, NEW e \in Executor, Leave(e)
    PROVE  NoneTakes /\ pc'[e] \notin Holding
BY DEF Leave, NoneTakes, Holding, Executing, TypeOK

LEMMA GotoTakesNone ==
    ASSUME TypeOK, NEW e \in Executor, NEW step, Goto(e, step),
           step \in Holding => pc[e] \in Holding, UNCHANGED <<ticket, run>>
    PROVE  NoneTakes /\ pc'[e] = step
BY DEF Goto, NoneTakes, TypeOK

\* What a call may execute was absent, stopped or stale, and is fresh now.
LEMMA GrantedFresh ==
    ASSUME NEW entry \in Entry, NEW d \in Digest, NEW recovery \in Recovery,
           NEW t \in Time, BeginDecision(entry, d, recovery, t) = "execute"
    PROVE  /\ BeginEntry(entry, d, recovery, t).state \in Active
           /\ BeginEntry(entry, d, recovery, t).heartbeat = t
           /\ ~(entry.state \in Active /\ t - entry.heartbeat < StaleTimeout)
<1> DEFINE begun == BeginEntry(entry, d, recovery, t)
<1> USE DEF IsRecord, Recoverable, Active, Settled, Stopped
<1>1. CASE entry.state = "absent"
  <2>1. begun = NewRecord(d, t)
    BY <1>1 DEF BeginEntry
  <2> QED BY <1>1, <2>1 DEF NewRecord
<1>2. CASE entry.state # "absent"
  <2>1. entry.state \in {"torn"} \cup Active \cup Terminal
    BY <1>2 DEF Entry
  <2>2. /\ IsRecord(entry) /\ entry.digest = d /\ Recoverable(entry, t)
        /\ recovery # "none" /\ Reexecutes(entry, recovery)
    BY <1>2, <2>1 DEF BeginDecision, Terminal
  <2>3. begun = NextAttempt(entry, t)
    BY <1>2, <2>2 DEF BeginEntry, Recovered
  <2>4. begun.state \in Active /\ begun.heartbeat = t
    BY <2>3 DEF NextAttempt
  <2>5. t - entry.heartbeat \in Int
    BY LimitAssumption DEF Entry
  <2>6. ~(entry.state \in Active /\ t - entry.heartbeat < StaleTimeout)
    BY <2>2, <2>5, LimitAssumption DEF IsStale
  <2> QED BY <2>4, <2>6
<1> QED BY <1>1, <1>2

LEMMA BeginOwners ==
    ASSUME TypeOK, TypeOK', Owners, NEW e \in Executor, NEW k \in Key, NEW d \in Digest,
           NEW recovery \in Recovery, Begin(e, k, d, recovery)
    PROVE  Owners'
<1> DEFINE entry == journal[k]
           decision == BeginDecision(entry, d, recovery, now)
           begun == BeginEntry(entry, d, recovery, now)
<1>0. /\ entry \in Entry /\ now \in Time /\ Put(k, begun) /\ pc[e] = "idle"
      /\ UNCHANGED <<now, punctual>> /\ begun \in Entry
  BY BeginEntryType DEF Begin, TypeOK
<1>1. AllSpared
  BY <1>0, TransactionsSpare, PutSpares
<1>2. CASE decision # "execute"
  <2>1. NoneTakes
    BY <1>0, <1>2 DEF Begin, Goto, NoneTakes, Holding, Executing, TypeOK
  <2> QED BY <1>0, <1>1, <2>1, SparedOwners
<1>3. CASE decision = "execute"
  <2> SUFFICES ASSUME punctual, NEW f \in Executor, pc'[f] \in Holding
               PROVE  Owns(f)'
    BY <1>0 DEF Owners, Owns, Holding
  <2>1. /\ pc' = [pc EXCEPT ![e] = "granted"] /\ run' = [run EXCEPT ![e] = begun.attempt]
        /\ ticket' = [ticket EXCEPT ![e] = [key |-> k, digest |-> d,
                          operation |-> begun.operation, named |-> begun.named]]
    BY <1>3 DEF Begin, Goto
  <2>2. /\ pc'[e] = "granted" /\ run'[e] = begun.attempt /\ ticket'[e].key = k
        /\ \A g \in Executor \ {e} : /\ pc'[g] = pc[g] /\ run'[g] = run[g]
                                     /\ ticket'[g] = ticket[g]
    BY <2>1 DEF TypeOK
  <2>3. /\ begun.state \in Active /\ begun.heartbeat = now
        /\ ~(entry.state \in Active /\ now - entry.heartbeat < StaleTimeout)
    BY <1>0, <1>3, GrantedFresh
  <2>4. ~(entry.state \in Active /\ now - entry.heartbeat < StaleTimeout)
    BY <2>3
  <2>5. \A g \in Executor \ {e} : pc[g] \in Holding => ticket[g].key # k
    BY <2>4 DEF Owners, Owns, Holding, EntryOf
  <2>6. CASE f = e
    <3>1. EntryOf(f)' = begun
      BY <1>0, <2>2, <2>6 DEF EntryOf, Put, TypeOK
    <3>2. now' - begun.heartbeat < StaleTimeout
      BY <1>0, <2>3, LimitAssumption
    <3>3. \A g \in Executor \ {e} : pc'[g] \in Holding => ticket'[g].key # k
      BY <2>2, <2>5
    <3> HIDE DEF begun
    <3> QED BY <2>2, <2>3, <2>6, <3>1, <3>2, <3>3 DEF Owns, Holding
  <2>7. CASE f # e
    <3>1. /\ pc[f] \in Holding /\ ticket'[f] = ticket[f] /\ run'[f] = run[f]
          /\ ticket[f].key \in Key \ {k} /\ Owns(f)
      BY <2>2, <2>5, <2>7, EntryOfType DEF Owners
    <3>2. EntryOf(f)' = EntryOf(f)
      BY <1>0, <3>1 DEF EntryOf, Put, TypeOK
    <3>3. \A g \in Executor \ {f} : pc'[g] \in Holding => ticket'[g].key # ticket[f].key
      BY <2>2, <3>1 DEF Owns, Holding
    <3> QED BY <1>0, <3>1, <3>2, <3>3 DEF Owns, Holding
  <2> QED BY <2>6, <2>7
<1> QED BY <1>2, <1>3

LEMMA ReadFailedSaveOwners ==
    ASSUME TypeOK, Owners, NEW e \in Executor, NEW k, NEW disposition,
           ReadFailedSave(e, k, disposition)
    PROVE  Owners'
<1>1. UNCHANGED <<now, punctual, journal>>
  BY DEF ReadFailedSave
<1>2. NoneTakes
  BY LeaveTakesNone DEF ReadFailedSave, Goto, NoneTakes, Holding, Executing, TypeOK
<1> QED BY <1>1, <1>2, SameSpares, SparedOwners

LEMMA ProgressOwners ==
    ASSUME TypeOK, Owners, NEW e \in Executor, Progress(e)
    PROVE  Owners'
<1>0. /\ now \in Time /\ EntryOf(e) \in Entry /\ ticket[e].key \in Key
      /\ EntryOf(e) = journal[ticket[e].key]
      /\ \E d : d \in Digest
  BY EntryOfType, SomeKey DEF TypeOK, EntryOf
<1>1. ASSUME MarkExecuting(e) PROVE Owners'
  <2>0. pc[e] = "granted" /\ UNCHANGED <<now, punctual>>
    BY <1>1 DEF MarkExecuting
  <2>1. CASE Leave(e) /\ UNCHANGED journal
    BY <2>0, <2>1, SameSpares, LeaveTakesNone, SparedOwners
  <2>2. CASE /\ ~MarkExecutingRaises(EntryOf(e))
             /\ Put(ticket[e].key, MarkExecutingEntry(EntryOf(e), now))
             /\ Goto(e, "queued") /\ UNCHANGED <<ticket, outcome, run>>
    <3>1. AllSpared
      BY <1>0, <2>2, TransactionsSpare, PutSpares DEF Recovery
    <3>2. NoneTakes
      BY <2>0, <2>2, GotoTakesNone DEF Holding, Executing
    <3> QED BY <2>0, <3>1, <3>2, SparedOwners
  <2> QED BY <1>1, <2>1, <2>2 DEF MarkExecuting
<1>2. ASSUME StartMutation(e) PROVE Owners'
  <2>1. NoneTakes
    BY <1>2, GotoTakesNone DEF StartMutation, history, Holding, Executing
  <2> QED BY <1>2, <2>1, SameSpares, SparedOwners DEF StartMutation
<1>3. ASSUME NEW report, NEW applies, Operate(e, report, applies) PROVE Owners'
  <2>1. NoneTakes
    BY <1>3, GotoTakesNone DEF Operate, Holding, Executing
  <2> QED BY <1>3, <2>1, SameSpares, SparedOwners DEF Operate
<1>4. ASSUME NEW disposition, Commit(e, disposition) PROVE Owners'
  <2>0. pc[e] \in Holding /\ UNCHANGED <<now, punctual>>
    BY <1>4 DEF Commit, Holding
  <2>1. CASE Leave(e) /\ UNCHANGED journal
    BY <2>0, <2>1, SameSpares, LeaveTakesNone, SparedOwners
  <2>2. ASSUME NEW step \in {"verified", "answering"}, Goto(e, step), NEW new,
               Put(ticket[e].key, new), UNCHANGED <<ticket, run>>
        PROVE  Owners'
    <3>1. step \notin Holding
      BY DEF Holding, Executing
    <3>2. NoneTakes /\ pc'[e] = step
      BY <2>2, <3>1, GotoTakesNone
    <3>3. AllSpared
      BY <2>0, <2>2, <3>1, <3>2, LetGoSpares
    <3> QED BY <2>0, <3>2, <3>3, SparedOwners
  <2> QED BY <1>4, <2>1, <2>2, CommitSplit
<1>5. ASSUME MarkCommitted(e) PROVE Owners'
  <2>0. pc[e] = "verified" /\ UNCHANGED <<now, punctual>>
    BY <1>5 DEF MarkCommitted
  <2>1. CASE Leave(e) /\ UNCHANGED journal
    BY <2>0, <2>1, SameSpares, LeaveTakesNone, SparedOwners
  <2>2. CASE /\ ~MarkCommittedRaises(EntryOf(e))
             /\ Put(ticket[e].key, MarkCommittedEntry(EntryOf(e), now))
             /\ Goto(e, "answering") /\ UNCHANGED <<ticket, outcome, run>>
    <3>1. AllSpared
      BY <1>0, <2>2, TransactionsSpare, PutSpares DEF Recovery
    <3>2. NoneTakes
      BY <2>0, <2>2, GotoTakesNone DEF Holding, Executing
    <3> QED BY <2>0, <3>1, <3>2, SparedOwners
  <2> QED BY <1>5, <2>1, <2>2 DEF MarkCommitted
<1>6. ASSUME Answer(e) \/ FinishReconcile(e) PROVE Owners'
  BY <1>6, SameSpares, LeaveTakesNone, SparedOwners DEF Answer, FinishReconcile
<1>7. ASSUME NEW disposition, ImmediateStatus(e, disposition) PROVE Owners'
  <2>1. CASE Leave(e) /\ UNCHANGED <<now, punctual, journal, edits, acked>>
    BY <2>1, SameSpares, LeaveTakesNone, SparedOwners
  <2>2. CASE \E k \in Found(ticket[e].key[2], PathOf[ticket[e].key[1]]) :
                ReadFailedSave(e, k, disposition)
    BY <2>2, ReadFailedSaveOwners
  <2> QED BY <1>7, <2>1, <2>2 DEF ImmediateStatus
<1>8. ASSUME RecordSaveReconciliation(e) PROVE Owners'
  <2>1. Leave(e) /\ UNCHANGED <<now, punctual>>
    BY <1>8 DEF RecordSaveReconciliation
  <2>2. CASE UNCHANGED journal
    BY <2>1, <2>2, SameSpares, LeaveTakesNone, SparedOwners
  <2>3. CASE Put(ticket[e].key, RecordSaveReconciliationEntry(EntryOf(e),
                                    outcome[e].result, outcome[e].ok, now))
    <3>1. AllSpared
      BY <1>0, <2>3, TransactionsSpare, PutSpares DEF Recovery
    <3> QED BY <2>1, <3>1, LeaveTakesNone, SparedOwners
  <2> QED BY <1>8, <2>2, <2>3 DEF RecordSaveReconciliation
<1> QED BY <1>1, <1>2, <1>3, <1>4, <1>5, <1>6, <1>7, <1>8 DEF Progress

LEMMA CallOwners ==
    ASSUME TypeOK, TypeOK', Owners, NEW e \in Executor, Call(e)
    PROVE  Owners'
<1>1. ASSUME Heartbeat(e) PROVE Owners'
  <2>1. EntryOf(e) = journal[ticket[e].key] /\ EntryOf(e) \in Entry /\ ticket[e].key \in Key
        /\ now \in Time /\ \E d : d \in Digest
    BY EntryOfType, SomeKey DEF EntryOf, TypeOK
  <2>2. AllSpared
    BY <1>1, <2>1, TransactionsSpare, PutSpares DEF Heartbeat, Recovery
  <2>3. NoneTakes
    BY <1>1 DEF Heartbeat, history, NoneTakes
  <2> QED BY <1>1, <2>2, <2>3, SparedOwners DEF Heartbeat
<1>2. ASSUME NEW state, WithdrawMutation(e, state) PROVE Owners'
  <2>1. Leave(e) /\ pc[e] \in Holding /\ UNCHANGED <<now, punctual>>
    BY <1>2 DEF WithdrawMutation, Holding, Executing
  <2>2. NoneTakes /\ pc'[e] \notin Holding
    BY <2>1, LeaveTakesNone
  <2>3. AllSpared
    BY <1>2, <2>1, <2>2, SameSpares, LetGoSpares DEF WithdrawMutation
  <2> QED BY <2>1, <2>2, <2>3, SparedOwners
<1>3. ASSUME NEW applies, UnexpectedError(e, applies) PROVE Owners'
  BY <1>3, SameSpares, LeaveTakesNone, SparedOwners DEF UnexpectedError
<1>4. ASSUME NEW r, NEW selector, NEW disposition,
             GetOperationStatus(e, r, selector, disposition)
      PROVE  Owners'
  BY <1>4, ReadFailedSaveOwners DEF GetOperationStatus
<1>5. ASSUME Crash(e) PROVE Owners'
  BY <1>5, SameSpares, LeaveTakesNone, SparedOwners DEF Crash
<1> QED BY <1>1, <1>2, <1>3, <1>4, <1>5, BeginOwners, ProgressOwners DEF Call, Recovery

LEMMA PruneOwners ==
    ASSUME TypeOK, Owners, NEW removed \in SUBSET Key, Prune(removed)
    PROVE  Owners'
<1>1. /\ \A k \in removed : journal[k].state \notin Active
      /\ UNCHANGED <<now, punctual, pc, ticket>>
      /\ \A k \in Key \ removed : journal'[k] = journal[k]
      /\ \A e \in Executor : ticket[e].key \notin removed => run'[e] = run[e]
  BY DEF Prune, IsPrunable, Terminal, Active, Settled, Stopped, TypeOK
<1>2. AllSpared
  BY <1>1 DEF AllSpared, Spared
<1>3. NoneTakes
  BY <1>1 DEF NoneTakes, EntryOf
<1> QED BY <1>1, <1>2, <1>3, SparedOwners

\* A punctual clock waits for the heartbeats of the runs.
LEMMA TickOwners ==
    ASSUME TypeOK, Owners, Tick
    PROVE  Owners'
<1> SUFFICES ASSUME punctual, NEW e \in Executor, pc[e] \in Holding PROVE Owns(e)'
  BY DEF Owners, Owns, Holding, Tick
<1>1. /\ UNCHANGED <<pc, ticket, journal, run>> /\ now' = now + 1 /\ Owns(e)
  BY DEF Owners, Tick, history
<1>2. pc[e] \in Executing \cup Beating /\ EntryOf(e).state \in Active
  BY <1>1 DEF Owns, Holding, Beating
<1>3. now + 1 - EntryOf(e).heartbeat < StaleTimeout
  BY <1>2 DEF Tick
<1>4. pc' = pc /\ run' = run /\ ticket' = ticket /\ EntryOf(e)' = EntryOf(e)
  BY <1>1 DEF EntryOf
<1>5. now' - EntryOf(e)'.heartbeat < StaleTimeout
  <2>1. now \in Int /\ EntryOf(e).heartbeat \in Int
    BY EntryOfType DEF TypeOK, Entry
  <2> QED BY <1>1, <1>3, <1>4, <2>1
<1> QED BY <1>1, <1>2, <1>4, <1>5 DEF Owns

LEMMA NextOwners ==
    ASSUME TypeOK, TypeOK', Owners, [Next]_vars
    PROVE  Owners'
<1>1. ASSUME NEW k \in Key, CrashInCreate(k) PROVE Owners'
  <2>1. Spared(journal[k], TornEntry(journal[k].digest), now)
    BY <1>1 DEF CrashInCreate, Spared, Active
  <2>2. AllSpared
    BY <1>1, <2>1, PutSpares DEF CrashInCreate
  <2>3. NoneTakes
    BY <1>1 DEF CrashInCreate, NoneTakes
  <2> QED BY <1>1, <2>2, <2>3, SparedOwners DEF CrashInCreate
<1>2. CASE UNCHANGED vars
  BY <1>2 DEF vars, Owners, Owns, EntryOf
<1> QED BY <1>1, <1>2, CallOwners, PruneOwners, TickOwners DEF Next

\* As long as no heartbeat is late, a run that may still write the document or
\* report its result finds its own attempt in the journal, active, and no other
\* run of the entry is under way.
THEOREM RunOwnsEntryHolds == Spec => []RunOwnsEntry
<1>1. Init => Owners
  BY DEF Init, Owners, Owns, Executing
<1>2. TypeOK /\ TypeOK' /\ Owners /\ [Next]_vars => Owners'
  BY NextOwners
<1>3. Owners => RunOwnsEntry
  BY DEF Owners, Owns, RunOwnsEntry
<1> QED BY <1>1, <1>2, <1>3, TypeCorrect, PTL DEF Spec

=============================================================================
