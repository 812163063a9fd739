------------------------------ MODULE BridgeLane ------------------------------
(***************************************************************************)
(* The calls that HancomBridge (hwp_live_bridge.py) makes to one Hangul    *)
(* process in one session, from the connection of the document until the   *)
(* session is lost or disconnected.                                        *)
(*                                                                         *)
(* Every call runs on the lane of the process (HwpProcessLane in           *)
(* hwp_live_process_lane.py), one thread with a queue of futures and a     *)
(* semaphore that bounds the futures in it.  A call that outlives its      *)
(* deadline while it runs cannot be stopped: the process is put behind a   *)
(* gate that refuses mutations and admits reads, until the outcome of what *)
(* is still running has been decided.                                      *)
(*                                                                         *)
(* Two locks are taken: the lifecycle lock of the bridge and the lock of   *)
(* the lane.  A section under the lifecycle lock is one action, except the *)
(* one that submits to the lane and so may wait for the other lock inside. *)
(***************************************************************************)
EXTENDS Naturals, Sequences, FiniteSets

CONSTANTS
    Mutation,      \* calls with mutation=True
    Save,          \* mutations with save_operation=True
    Read,          \* calls made by _call_recovery_read
    Disconnect,    \* calls of disconnect
    QueueLimit,    \* process_queue_limit, permits of the lane
    Worker,        \* the thread of the lane
    Probe, Stop,   \* entries of the queue that belong to no call
    None

Call == Mutation \union Read \union Disconnect

ASSUME CallAssumption ==
    /\ Save \subseteq Mutation
    /\ Mutation \intersect Read = {}
    /\ Disconnect \intersect (Mutation \union Read) = {}
    /\ {Worker, Probe, Stop, None} \intersect Call = {}
    /\ Cardinality({Worker, Probe, Stop, None}) = 4
ASSUME LimitAssumption == QueueLimit \in Nat \ {0}

VARIABLES
    hangul,        \* the process: "alive", "exited"
    session,       \* "connected", "lost" (_lost_sessions), "cleared"
    lane,          \* the lane and whether _process_lanes still holds it
    guard,         \* who holds lane._lock from one step to the next
    dropping,      \* the call whose cancelled future still has to run its callback
    worker,        \* the thread of the lane and what it works on
    lock,          \* the call that holds _lifecycle_lock from one step to the next
    future,        \* the future of each call
    tracked,       \* _process_futures; its mutations are _mutation_futures
    gate,          \* _poisoned_processes, _poison_recoveries and the two flags
    call,          \* where each call stands in _call
    others,        \* mutations that a call which set the gate has yet to cancel
    answer         \* what each call is told

vars == << hangul, session, lane, guard, dropping, worker, lock, future,
           tracked, gate, call, others, answer >>

Outcome == {"ok", "resolved", "unresolved", "lost"}
Future  == {"none", "queued", "running", "cancelled"} \union Outcome

(* What a call is told.  Of a mutation, "reconcile" says that it started,  *)
(* and NotStarted that it did not and will not.                            *)
Answers     == {"none", "result", "failed", "retry", "refused", "modal", "late",
                "reconcile", "lost", "cancelled", "unavailable"}
NotStarted  == {"retry", "refused", "modal"}

Steps == {"new", "acquiring", "acquired", "submitting", "waiting", "gating",
          "clearing", "probing", "poisoning", "cancelling", "done"}
WorkerSteps == {"idle", "running", "finished", "probing", "shutting",
                "poisoning", "cancelling", "ending", "stopped"}

Open == [on |-> FALSE, futures |-> {}, contexts |-> {}, reconcile |-> FALSE,
         identity |-> FALSE, outcome |-> FALSE]

Init ==
    /\ hangul = "alive" /\ session = "connected"
    /\ lane = [queue |-> << >>, free |-> QueueLimit, closed |-> FALSE,
               poisoned |-> FALSE, registered |-> TRUE]
    /\ guard = None /\ dropping = None /\ lock = None
    /\ worker = [at |-> "idle", item |-> None]
    /\ future = [c \in Call |-> "none"]
    /\ tracked = {} /\ gate = Open
    /\ call = [c \in Call |-> "new"]
    /\ others = [c \in Call |-> {}]
    /\ answer = [c \in Call |-> "none"]

-----------------------------------------------------------------------------
(* The gate                                                                *)

IsDone(c) == future[c] \in Outcome \union {"cancelled"}

\* Mutant: the gate goes although something is still running.
IsLiftedEarly(g, readback) ==
    /\ readback \/ g.identity \/ session # "connected"
    /\ ~g.reconcile \/ g.outcome \/ \A c \in g.futures : future[c] # "unresolved"

(* Mutant: only a decided outcome lifts the gate, and no end of the calls. *)
IsLiftedByVerdict(g, readback) ==
    /\ readback \/ g.identity \/ session # "connected"
    /\ IF g.futures = {} THEN readback
       ELSE g.outcome /\ \A c \in g.futures : IsDone(c)

(* _recover_poisoned_process finds that gate g may go.  The document is    *)
(* known to be the right one, and everything that was on the lane when the *)
(* gate was set has come to a decided end.                                 *)
IsLifted(g, readback) ==
    /\ readback \/ g.identity \/ session # "connected"
    /\ IF g.futures = {} THEN readback
       ELSE /\ \A c \in g.futures : IsDone(c)
            /\ \/ ~g.reconcile
               \/ g.outcome
               \/ \A c \in g.futures : future[c] # "unresolved"

Recovered(g, readback) == IF IsLifted(g, readback) THEN Open ELSE g

-----------------------------------------------------------------------------
(* Shared effects                                                          *)

Leave(c, a) ==
    /\ call' = [call EXCEPT ![c] = "done"]
    /\ answer' = [answer EXCEPT ![c] = a]

(* A party, the caller or the thread of the lane, goes to a step.          *)
IsAt(p, s) == IF p = Worker THEN worker.at = s ELSE call[p] = s

GoTo(p, s) ==
    IF p = Worker
      THEN /\ worker' = [at |-> s, item |-> IF s = "idle" THEN None ELSE worker.item]
           /\ UNCHANGED call
      ELSE call' = [call EXCEPT ![p] = s] /\ UNCHANGED worker

(* The bridge forgets the process: _invalidate_process and                 *)
(* _clear_connection_state.  The lane it took out of its table has still   *)
(* to be closed.                                                           *)
Forget(s) ==
    /\ session' = IF session = "connected" THEN s ELSE session
    /\ lane' = [lane EXCEPT !.registered = FALSE]
    /\ gate' = Open
    /\ tracked' = {}

(* A call learns that Hangul has gone.                                     *)
NoteExit(c) ==
    /\ hangul = "exited"
    /\ Forget("lost")
    /\ answer' = [answer EXCEPT ![c] = "lost"]
    /\ call' = [call EXCEPT ![c] = IF lane.registered THEN "poisoning" ELSE "done"]

-----------------------------------------------------------------------------
(* A call up to its future                                                 *)

(* The session is gone; after a disconnect the call is not one of this     *)
(* process any more.                                                       *)
EnterUnconnected(c) ==
    /\ call[c] = "new" /\ lock = None
    /\ session # "connected"
    /\ Leave(c, "lost")
    /\ UNCHANGED << hangul, session, lane, guard, dropping, worker, lock, future,
                    tracked, gate, others >>

(* A mutation is refused while the gate cannot be lifted, a read goes on.  *)
Enter(c) ==
    /\ call[c] = "new" /\ lock = None
    /\ session = "connected"
    /\ gate.on => hangul = "alive"
    /\ gate' = Recovered(gate, FALSE)
    /\ IF gate'.on /\ c \in Mutation
         THEN Leave(c, "refused")
         ELSE call' = [call EXCEPT ![c] = "acquiring"] /\ UNCHANGED answer
    /\ UNCHANGED << hangul, session, lane, guard, dropping, worker, lock, future,
                    tracked, others >>

EnterAfterExit(c) ==
    /\ call[c] = "new" /\ lock = None
    /\ session = "connected" /\ gate.on
    /\ NoteExit(c)
    /\ UNCHANGED << hangul, guard, dropping, worker, lock, future, others >>

Acquire(c) ==
    /\ call[c] = "acquiring"
    /\ lane.free > 0
    /\ lane' = [lane EXCEPT !.free = @ - 1]
    /\ call' = [call EXCEPT ![c] = "acquired"]
    /\ UNCHANGED << hangul, session, guard, dropping, worker, lock, future,
                    tracked, gate, others, answer >>

QueueDeadline(c) ==
    /\ call[c] = "acquiring" /\ lock = None
    /\ gate.on => hangul = "alive"
    /\ gate' = Recovered(gate, FALSE)
    /\ Leave(c, IF gate'.on THEN "refused" ELSE "retry")
    /\ UNCHANGED << hangul, session, lane, guard, dropping, worker, lock, future,
                    tracked, others >>

(* A dialog of Hangul blocks the lane and c has not got into it.           *)
DialogInQueue(c) ==
    /\ call[c] = "acquiring" /\ hangul = "alive"
    /\ call' = [call EXCEPT ![c] = "gating"]
    /\ answer' = [answer EXCEPT ![c] = "modal"]
    /\ UNCHANGED << hangul, session, lane, guard, dropping, worker, lock, future,
                    tracked, gate, others >>

\* Mutant: a lane that has been closed takes the future.
EnqueueUnchecked(c) ==
    /\ lane' = [lane EXCEPT !.queue = Append(@, c)]
    /\ future' = [future EXCEPT ![c] = "queued"]
    /\ tracked' = tracked \union {c}
    /\ call' = [call EXCEPT ![c] = "waiting"]
    /\ UNCHANGED answer

(* HwpProcessLane.submit, and the registration of the future.              *)
Enqueue(c) ==
    IF lane.closed
      THEN /\ lane' = [lane EXCEPT !.free = @ + 1]
           /\ Leave(c, "unavailable")
           /\ UNCHANGED << future, tracked >>
      ELSE /\ lane' = [lane EXCEPT !.queue = Append(@, c)]
           /\ future' = [future EXCEPT ![c] = "queued"]
           /\ tracked' = tracked \union {c}
           /\ call' = [call EXCEPT ![c] = "waiting"]
           /\ UNCHANGED answer

\* Mutant: the permit of a call that is refused is not given back.
SubmitRefusedKeepingPermit(c) ==
    /\ call[c] = "acquired" /\ lock = None
    /\ c \in Mutation /\ gate.on
    /\ Leave(c, "refused")
    /\ UNCHANGED << hangul, session, lane, guard, dropping, worker, lock, future,
                    tracked, gate, others >>

(* The gate was set while the mutation waited for its permit.              *)
SubmitRefused(c) ==
    /\ call[c] = "acquired" /\ lock = None
    /\ c \in Mutation /\ gate.on
    /\ lane' = [lane EXCEPT !.free = @ + 1]
    /\ Leave(c, "refused")
    /\ UNCHANGED << hangul, session, guard, dropping, worker, lock, future,
                    tracked, gate, others >>

MaySubmit(c) == call[c] = "acquired" /\ lock = None /\ (c \in Mutation => ~gate.on)

Submit(c) ==
    /\ MaySubmit(c)
    /\ guard = None
    /\ Enqueue(c)
    /\ UNCHANGED << hangul, session, guard, dropping, worker, lock, gate, others >>

(* The lock of the lane is taken: c waits for it with the lifecycle lock.  *)
WaitForLane(c) ==
    /\ MaySubmit(c)
    /\ guard # None
    /\ lock' = c
    /\ call' = [call EXCEPT ![c] = "submitting"]
    /\ UNCHANGED << hangul, session, lane, guard, dropping, worker, future, tracked,
                    gate, others, answer >>

SubmitAfterWait(c) ==
    /\ call[c] = "submitting" /\ guard = None
    /\ lock' = None
    /\ Enqueue(c)
    /\ UNCHANGED << hangul, session, guard, dropping, worker, gate, others >>

-----------------------------------------------------------------------------
(* A call that waits for its future                                        *)

(* A read that comes back is a readback: it confirms the document.         *)
ReturnResult(c) ==
    /\ call[c] = "waiting" /\ lock = None
    /\ future[c] = "ok"
    /\ c \in Read /\ session = "connected" /\ gate.on => hangul = "alive"
    /\ gate' = IF c \in Read /\ session = "connected" /\ gate.on
                 THEN Recovered([gate EXCEPT !.identity = TRUE], TRUE)
                 ELSE gate
    /\ Leave(c, "result")
    /\ UNCHANGED << hangul, session, lane, guard, dropping, worker, lock, future,
                    tracked, others >>

(* The operation failed, or another call cancelled it: the gate is then    *)
(* the reason, unless the deadline of c came first or the gate is gone.    *)
ReturnFailure(c) ==
    /\ call[c] = "waiting" /\ lock = None
    /\ \/ future[c] \in {"resolved", "unresolved"} /\ Leave(c, "failed")
       \/ future[c] = "cancelled" /\ gate.on /\ Leave(c, "refused")
       \/ future[c] = "cancelled" /\ Leave(c, "cancelled")
    /\ UNCHANGED << hangul, session, lane, guard, dropping, worker, lock, future,
                    tracked, gate, others >>

(* The exit of Hangul is seen by the wait, or reported by the future.      *)
SeeExit(c) ==
    /\ call[c] \in {"acquiring", "waiting"} /\ lock = None
    /\ NoteExit(c)
    /\ UNCHANGED << hangul, guard, dropping, worker, lock, future, others >>

\* Mutant: the future stays in the queue.
GiveUpWithoutCancel(c) ==
    /\ call[c] = "waiting" /\ lock = None
    /\ future[c] = "queued"
    /\ Leave(c, "retry")
    /\ UNCHANGED << hangul, session, lane, guard, dropping, worker, lock, future,
                    tracked, gate, others >>

\* Mutant: the caller gives the permit back as well as the callback.
GiveUpTwice(c) ==
    /\ call[c] = "waiting" /\ lock = None
    /\ future[c] = "queued"
    /\ future' = [future EXCEPT ![c] = "cancelled"]
    /\ lane' = [lane EXCEPT !.free = @ + 2]
    /\ tracked' = tracked \ {c}
    /\ Leave(c, "retry")
    /\ UNCHANGED << hangul, session, guard, dropping, worker, lock, gate, others >>

(* The deadline (or a dialog) finds the future in the queue: it is         *)
(* cancelled.  For a dialog the code reports the phase as "running".       *)
GiveUpQueued(c) ==
    /\ call[c] = "waiting" /\ lock = None
    /\ future[c] = "queued"
    /\ future' = [future EXCEPT ![c] = "cancelled"]
    /\ lane' = [lane EXCEPT !.free = @ + 1]
    /\ tracked' = tracked \ {c}
    /\ \/ Leave(c, "retry")
       \/ hangul = "alive" /\ Leave(c, IF c \in Mutation THEN "reconcile" ELSE "late")
    /\ UNCHANGED << hangul, session, guard, dropping, worker, lock, gate, others >>

\* Mutant: a mutation that runs is waited for without a limit.
GiveUpRunningRead(c) ==
    /\ call[c] = "waiting" /\ hangul = "alive"
    /\ future[c] = "running" /\ c \notin Mutation
    /\ call' = [call EXCEPT ![c] = "gating"]
    /\ answer' = [answer EXCEPT ![c] = "late"]
    /\ UNCHANGED << hangul, session, lane, guard, dropping, worker, lock, future,
                    tracked, gate, others >>

(* ... or running: the process is put behind the gate.                     *)
GiveUpRunning(c) ==
    /\ call[c] = "waiting" /\ hangul = "alive"
    /\ future[c] = "running"
    /\ call' = [call EXCEPT ![c] = "gating"]
    /\ answer' = [answer EXCEPT ![c] = IF c \in Mutation THEN "reconcile" ELSE "late"]
    /\ UNCHANGED << hangul, session, lane, guard, dropping, worker, lock, future,
                    tracked, gate, others >>

(* _poison_process_lane, the section under the lifecycle lock.             *)
SetGate(c) ==
    /\ call[c] = "gating" /\ lock = None
    /\ gate' = [gate EXCEPT
                  !.on = TRUE,
                  !.futures = @ \union tracked,
                  !.contexts = @ \union ({c} \intersect Mutation),
                  !.reconcile = \/ @
                                \/ answer[c] = "reconcile"
                                \/ \E m \in tracked \intersect Mutation :
                                        future[m] = "running"]
    /\ lane' = [lane EXCEPT !.registered = TRUE]
    /\ others' = [others EXCEPT ![c] = tracked \intersect Mutation]
    /\ call' = [call EXCEPT ![c] = IF gate.on THEN "clearing" ELSE "probing"]
    /\ UNCHANGED << hangul, session, guard, dropping, worker, lock, future, tracked,
                    answer >>

(* The mutations behind the call that set the gate are cancelled, and the  *)
(* first one to set it sends a probe for the document after them.          *)
CancelOthers(c) ==
    /\ call[c] \in {"clearing", "probing"} /\ lock = None
    /\ call[c] = "probing" => guard = None
    /\ LET late  == {m \in others[c] : future[m] = "queued"}
           probe == /\ call[c] = "probing" /\ gate.on
                    /\ session = "connected" /\ ~lane.closed
       IN  /\ future' = [m \in Call |-> IF m \in late THEN "cancelled" ELSE future[m]]
           /\ tracked' = tracked \ late
           /\ lane' = [lane EXCEPT !.free = @ + Cardinality(late),
                                   !.queue = IF probe THEN Append(@, Probe) ELSE @]
    /\ others' = [others EXCEPT ![c] = {}]
    /\ call' = [call EXCEPT ![c] = "done"]
    /\ UNCHANGED << hangul, session, guard, dropping, worker, lock, gate, answer >>

-----------------------------------------------------------------------------
(* Closing the lane: poison after the exit of Hangul by whoever noted it,  *)
(* shutdown after a disconnect by the thread of the lane itself.  Both     *)
(* hold the lock of the lane while they cancel what is queued, and the     *)
(* callback of a cancelled future takes the lifecycle lock.                *)

Poison(p) ==
    /\ IsAt(p, "poisoning") /\ guard = None
    /\ IF lane.poisoned
         THEN /\ GoTo(p, IF p = Worker THEN "idle" ELSE "done")
              /\ UNCHANGED << lane, guard >>
         ELSE /\ lane' = [lane EXCEPT !.poisoned = TRUE, !.closed = TRUE]
              /\ guard' = p
              /\ GoTo(p, "cancelling")
    /\ UNCHANGED << hangul, session, dropping, lock, future, tracked, gate, others,
                    answer >>

Shutdown ==
    /\ worker.at = "shutting" /\ guard = None
    /\ IF lane.closed
         THEN GoTo(Worker, "ending") /\ UNCHANGED << lane, guard >>
         ELSE /\ lane' = [lane EXCEPT !.closed = TRUE]
              /\ guard' = Worker
              /\ GoTo(Worker, "cancelling")
    /\ UNCHANGED << hangul, session, dropping, lock, future, tracked, gate, others,
                    answer >>

CancelNext(p) ==
    /\ IsAt(p, "cancelling") /\ dropping = None
    /\ lane.queue # << >>
    /\ LET c == Head(lane.queue)
           live == c \in Call /\ future[c] = "queued"
       IN  /\ future' = IF live THEN [future EXCEPT ![c] = "cancelled"] ELSE future
           /\ lane' = [lane EXCEPT !.queue = Tail(@), !.free = IF live THEN @ + 1 ELSE @]
           /\ dropping' = IF live THEN c ELSE None
    /\ UNCHANGED << hangul, session, guard, worker, lock, tracked, gate, call, others,
                    answer >>

Release(p) ==
    /\ IsAt(p, "cancelling") /\ dropping # None
    /\ lock = None
    /\ tracked' = tracked \ {dropping}
    /\ dropping' = None
    /\ UNCHANGED << hangul, session, lane, guard, worker, lock, future, gate, call,
                    others, answer >>

EndCancel(p) ==
    /\ IsAt(p, "cancelling") /\ dropping = None
    /\ lane.queue = << >>
    /\ lane' = [lane EXCEPT !.queue = << Stop >>]
    /\ guard' = None
    /\ GoTo(p, CASE p # Worker -> "done"
                 [] p = Worker /\ worker.item = Probe -> "idle"
                 [] OTHER -> "ending")
    /\ UNCHANGED << hangul, session, dropping, lock, future, tracked, gate, others,
                    answer >>

-----------------------------------------------------------------------------
(* The thread of the lane                                                  *)

Take ==
    /\ worker.at = "idle" /\ lane.queue # << >>
    /\ LET item == Head(lane.queue)
           runs == item \in Call /\ future[item] = "queued"
       IN  /\ worker' = CASE item = Stop  -> [at |-> "stopped", item |-> None]
                          [] item = Probe -> [at |-> "probing", item |-> Probe]
                          [] runs         -> [at |-> "running", item |-> item]
                          [] OTHER        -> worker
           /\ future' = IF runs THEN [future EXCEPT ![item] = "running"] ELSE future
    /\ lane' = [lane EXCEPT !.queue = Tail(@)]
    /\ UNCHANGED << hangul, session, guard, dropping, lock, tracked, gate, call, others,
                    answer >>

(* A disconnect may be held back by a save; a read does not act.           *)
Outcomes(c) ==
    IF hangul = "exited" THEN {"lost", "unresolved"}
    ELSE CASE c \in Mutation -> {"ok", "resolved", "unresolved"}
           [] c \in Read -> {"ok", "unresolved"}
           [] OTHER -> {"unresolved"}

(* The operation ends and the permit goes back.                            *)
Finish ==
    /\ worker.at = "running"
    /\ worker.item \in Mutation => lock = None
    /\ \E o \in Outcomes(worker.item) : future' = [future EXCEPT ![worker.item] = o]
    /\ lane' = [lane EXCEPT !.free = @ + 1]
    /\ worker' = [worker EXCEPT !.at = "finished"]
    /\ UNCHANGED << hangul, session, guard, dropping, lock, tracked, gate, call, others,
                    answer >>

FinishDisconnect ==
    /\ worker.at = "running" /\ worker.item \in Disconnect
    /\ lock = None
    /\ IF session = "connected"
         THEN /\ Forget("cleared")
              /\ GoTo(Worker, IF lane.registered THEN "shutting" ELSE "ending")
         ELSE GoTo(Worker, "ending") /\ UNCHANGED << session, lane, gate, tracked >>
    /\ UNCHANGED << hangul, guard, dropping, lock, future, others, answer >>

EndDisconnect ==
    /\ worker.at = "ending"
    /\ future' = [future EXCEPT
                    ![worker.item] = IF hangul = "alive" THEN "ok" ELSE "lost"]
    /\ lane' = [lane EXCEPT !.free = @ + 1]
    /\ worker' = [worker EXCEPT !.at = "finished"]
    /\ UNCHANGED << hangul, session, guard, dropping, lock, tracked, gate, call, others,
                    answer >>

(* release_process_future, the part under the lifecycle lock.              *)
Untrack ==
    /\ worker.at = "finished" /\ lock = None
    /\ tracked' = tracked \ {worker.item}
    /\ worker' = [at |-> "idle", item |-> None]
    /\ UNCHANGED << hangul, session, lane, guard, dropping, lock, future, gate, call,
                    others, answer >>

(* The probe finds the document or not.  Found, it confirms the document   *)
(* but not its contents, unless nothing is left to reconcile.              *)
FinishProbe ==
    /\ worker.at = "probing" /\ lock = None
    /\ \/ /\ hangul = "alive" /\ session = "connected" /\ gate.on
          /\ LET resolves == \/ ~gate.reconcile
                             \/ \A c \in gate.futures : future[c] \in {"ok", "cancelled"}
             IN  gate' = Recovered([gate EXCEPT !.identity = TRUE], resolves)
          /\ GoTo(Worker, "idle")
          /\ UNCHANGED << session, lane, tracked >>
       \/ /\ GoTo(Worker, "idle")
          /\ UNCHANGED << session, lane, tracked, gate >>
       \/ /\ hangul = "exited"
          /\ Forget("lost")
          /\ GoTo(Worker, IF lane.registered THEN "poisoning" ELSE "idle")
    /\ UNCHANGED << hangul, guard, dropping, lock, future, others, answer >>

-----------------------------------------------------------------------------
(* What happens around the bridge                                          *)

ExitHangul ==
    /\ hangul = "alive"
    /\ hangul' = "exited"
    /\ UNCHANGED << session, lane, guard, dropping, worker, lock, future, tracked,
                    gate, call, others, answer >>

(* reconcile_confirmed_save: a status query has proved the saves that set  *)
(* the gate by the file on disk.                                           *)
ConfirmSave ==
    /\ gate.on /\ gate.contexts # {} /\ gate.contexts \subseteq Save
    /\ hangul = "alive" /\ session = "connected" /\ lock = None
    /\ gate' = Recovered([gate EXCEPT !.outcome = TRUE], FALSE)
    /\ UNCHANGED << hangul, session, lane, guard, dropping, worker, lock, future,
                    tracked, call, others, answer >>

-----------------------------------------------------------------------------
Closing(p) == Poison(p) \/ CancelNext(p) \/ Release(p) \/ EndCancel(p)

CallStep(c) ==
    \/ EnterUnconnected(c) \/ Enter(c) \/ EnterAfterExit(c)
    \/ Acquire(c) \/ QueueDeadline(c) \/ DialogInQueue(c)
    \/ SubmitRefused(c) \/ Submit(c) \/ WaitForLane(c) \/ SubmitAfterWait(c)
    \/ ReturnResult(c) \/ ReturnFailure(c) \/ SeeExit(c)
    \/ GiveUpQueued(c) \/ GiveUpRunning(c) \/ SetGate(c) \/ CancelOthers(c)
    \/ Closing(c)

(* What the thread of the lane does by itself, Hangul apart.               *)
WorkerStep == Take \/ Untrack \/ Shutdown \/ EndDisconnect \/ Closing(Worker)

HangulStep == Finish \/ FinishDisconnect \/ FinishProbe \/ ExitHangul \/ ConfirmSave

Next == (\E c \in Call : CallStep(c)) \/ WorkerStep \/ HangulStep

Spec == Init /\ [][Next]_vars

(* Python threads run on and every wait of a call has a deadline.  Hangul  *)
(* owes nothing: an operation may hang forever.                            *)
FairSpec ==
    /\ Spec
    /\ \A c \in Call : WF_vars(CallStep(c))
    /\ WF_vars(WorkerStep)

-----------------------------------------------------------------------------
(* Properties                                                              *)

TypeOK ==
    /\ hangul \in {"alive", "exited"}
    /\ session \in {"connected", "lost", "cleared"}
    /\ lane \in [queue : Seq(Call \union {Probe, Stop}), free : 0..QueueLimit,
                 closed : BOOLEAN, poisoned : BOOLEAN, registered : BOOLEAN]
    /\ guard \in Call \union {Worker, None}
    /\ dropping \in Call \union {None}
    /\ lock \in Call \union {None}
    /\ worker \in [at : WorkerSteps, item : Call \union {Probe, None}]
    /\ future \in [Call -> Future]
    /\ tracked \subseteq Call
    /\ gate \in [on : BOOLEAN, futures : SUBSET Call, contexts : SUBSET Mutation,
                 reconcile : BOOLEAN, identity : BOOLEAN, outcome : BOOLEAN]
    /\ call \in [Call -> Steps]
    /\ others \in [Call -> SUBSET Mutation]
    /\ answer \in [Call -> Answers]

Started(c) == future[c] \in Outcome \union {"running"}

(* Permits are never lost or made up: those that are free, those of calls  *)
(* about to submit and those of futures that have not ended add up to      *)
(* process_queue_limit, through cancellations, poisoning and shutdown.     *)
PermitsConserved ==
    lane.free + Cardinality({c \in Call : \/ call[c] \in {"acquired", "submitting"}
                                          \/ future[c] \in {"queued", "running"}})
      = QueueLimit

(* A mutation that was answered mutation_started=false never starts.       *)
RetrySafe ==
    \A m \in Mutation : call[m] = "done" /\ answer[m] \in NotStarted => ~Started(m)

(* While a mutation whose caller gave up is running, the gate is on and    *)
(* waits for its end.                                                      *)
UnknownOutcomeGates ==
    \A m \in Mutation :
        call[m] = "done" /\ answer[m] = "reconcile" /\ future[m] = "running"
            /\ session = "connected" => gate.on /\ m \in gate.futures

(* Nobody waits for a lane that has stopped: a future is submitted before  *)
(* the lane is closed, and then cancelled with the rest, or not at all.    *)
NoStrandedFuture ==
    worker.at = "stopped" => \A c \in Call : future[c] # "queued"

(* "Read the state of the document again" (_poison_recovery_error says to  *)
(* the user): a read that comes back lifts the gate when nothing is left   *)
(* to decide, that is, all that was on the lane has ended and in a known   *)
(* way.  A read that failed counts like a mutation that did.               *)
ReadbackLiftsGate ==
    [][\A r \in Read :
          /\ call[r] = "waiting" /\ call'[r] = "done" /\ answer'[r] = "result"
          /\ session = "connected"
          /\ \A c \in gate.futures : IsDone(c)
          /\ gate.futures # {}
          /\ \A c \in gate.futures : future[c] # "unresolved"
          => ~gate'.on]_vars

(* While Hangul lives and the session lasts every call ends, however long  *)
(* an operation hangs and whatever the gate refuses.                       *)
CallsEndInSession ==
    [](hangul = "alive" /\ session = "connected")
        => <>(\A c \in Call : call[c] = "done")

(* The books of the lane agree with what runs on it: every permit is with   *)
(* one operation or free, and a worker that stopped left no future behind.  *)
LaneAccounted == TypeOK /\ PermitsConserved /\ NoStrandedFuture

(* Nobody is told less than what may have happened: an operation called     *)
(* safe to retry never runs, and one of unknown outcome holds the gate.     *)
OutcomesTold == RetrySafe /\ UnknownOutcomeGates

===============================================================================
