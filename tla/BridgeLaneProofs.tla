-------------------------- MODULE BridgeLaneProofs --------------------------
(***************************************************************************)
(* Theorems about BridgeLane: the permits of the lane are conserved and no *)
(* future is stranded, nobody is told less than what may have happened,    *)
(* and a readback lifts the gate.                                          *)
(*                                                                         *)
(* The inductive invariant adds to the properties where a future and its   *)
(* call stand together, what the thread of the lane holds, what is in the  *)
(* queue, and that the futures that have not ended are tracked.            *)
(***************************************************************************)
EXTENDS BridgeLane, FiniteSetTheorems, TLAPS

\* A call holds a permit from its acquisition until its future has ended.
Holds(c) == \/ call[c] \in {"acquired", "submitting"}
            \/ future[c] \in {"queued", "running"}
Holders == {c \in Call : Holds(c)}

Permits == IsFiniteSet(Holders) /\ lane.free + Cardinality(Holders) = QueueLimit

\* A call has no future before it submits one, and a call that was told that its
\* mutation did not start is past the submission or never gets there.  One of unknown
\* outcome has started, and one that closes the lane has noted that Hangul is gone.
Staged ==
    \A c \in Call :
        /\ call[c] \in {"new", "acquiring", "acquired", "submitting"} =>
              future[c] = "none"
        /\ answer[c] \in NotStarted =>
              /\ call[c] \in {"gating", "clearing", "probing", "done"}
              /\ future[c] \in {"none", "cancelled"}
        /\ answer[c] = "reconcile" => future[c] \notin {"none", "queued"}
        /\ call[c] \in {"poisoning", "cancelling"} => answer[c] = "lost"

\* What the thread of the lane works on.
WorkerHolds ==
    /\ worker.at \in {"running", "shutting", "ending"} =>
          worker.item \in Call /\ future[worker.item] = "running"
    /\ worker.at = "cancelling" =>
          \/ worker.item = Probe
          \/ worker.item \in Call /\ future[worker.item] = "running"
    /\ worker.at = "finished" => worker.item \in Call /\ future[worker.item] \in Outcome
    /\ worker.at \in {"probing", "poisoning"} => worker.item = Probe

InQueue(x) == \E i \in DOMAIN lane.queue : lane.queue[i] = x

\* A queued future is in the queue of the lane, Stop comes alone and last, and
\* nothing is left behind it.
QueueSound ==
    /\ \A c \in Call : future[c] = "queued" => InQueue(c)
    /\ InQueue(Stop) => lane.queue = << Stop >> /\ lane.closed
    /\ worker.at = "stopped" => lane.closed /\ \A c \in Call : future[c] # "queued"
    /\ \A p \in Call \union {Worker} : IsAt(p, "cancelling") => lane.closed

\* As long as the session lasts the bridge knows every future that has not ended.
Tracks ==
    /\ dropping # None => future[dropping] = "cancelled"
    /\ session = "connected" =>
          \A c \in Call : future[c] \in {"queued", "running"} => c \in tracked

\* The gate was set for a mutation of unknown outcome, and has to wait for it.
Gated ==
    \A m \in Mutation :
        /\ session = "connected" /\ answer[m] = "reconcile" /\ future[m] = "running"
        /\ call[m] \in {"clearing", "probing", "done"}
        => gate.on /\ m \in gate.futures

IInv == /\ TypeOK /\ Permits
        /\ Staged /\ WorkerHolds /\ QueueSound /\ Tracks /\ Gated

-----------------------------------------------------------------------------
(* Constants, and permits as a sum.                                        *)

LEMMA ThreeAtMost ==
    ASSUME NEW a, NEW b, NEW c
    PROVE  Cardinality({a, b, c}) <= 3
<1>1. IsFiniteSet({a}) /\ Cardinality({a}) = 1
  BY FS_Singleton
<1>2. IsFiniteSet({a} \cup {b}) /\ Cardinality({a} \cup {b}) \in {1, 2}
  BY <1>1, FS_AddElement
<1>3. Cardinality(({a} \cup {b}) \cup {c}) \in {1, 2, 3}
  BY <1>2, FS_AddElement
<1>4. {a, b, c} = ({a} \cup {b}) \cup {c}
  OBVIOUS
<1> QED BY <1>3, <1>4

LEMMA Distinct ==
    /\ Worker \notin Call /\ Probe \notin Call /\ Stop \notin Call /\ None \notin Call
    /\ Worker # Probe /\ Worker # Stop /\ Worker # None
    /\ Probe # Stop /\ Probe # None /\ Stop # None
<1> DEFINE all == {Worker, Probe, Stop, None}
<1>1. Cardinality(all) = 4 /\ all \intersect Call = {}
  BY CallAssumption
<1>2. ASSUME NEW a, NEW b, NEW c, all = {a, b, c} PROVE FALSE
  <2>1. Cardinality(all) <= 3
    BY <1>2, ThreeAtMost, Zenon
  <2> HIDE DEF all
  <2> QED BY <1>1, <2>1
<1> HIDE DEF all
<1>3. /\ Worker # Probe /\ Worker # Stop /\ Worker # None
      /\ Probe # Stop /\ Probe # None /\ Stop # None
  BY <1>2 DEF all
<1> QED BY <1>1, <1>3 DEF all

LEMMA PermitsSame ==
    ASSUME Permits, \A c \in Call : Holds(c)' <=> Holds(c), lane'.free = lane.free
    PROVE  Permits'
<1>1. Holders' = Holders
  BY DEF Holders
<1> QED BY <1>1 DEF Permits

LEMMA PermitTaken ==
    ASSUME Permits, lane.free \in 0 .. QueueLimit, NEW c \in Call, ~Holds(c), Holds(c)',
           \A d \in Call \ {c} : Holds(d)' <=> Holds(d), lane'.free = lane.free - 1
    PROVE  Permits'
<1>1. Holders' = Holders \cup {c} /\ c \notin Holders
  BY DEF Holders
<1>2. /\ IsFiniteSet(Holders \cup {c})
      /\ Cardinality(Holders \cup {c}) = Cardinality(Holders) + 1
  BY <1>1, FS_AddElement DEF Permits
<1>3. Cardinality(Holders) \in Nat
  BY FS_CardinalityType DEF Permits
<1> QED BY <1>1, <1>2, <1>3, LimitAssumption DEF Permits

LEMMA PermitBack ==
    ASSUME Permits, lane.free \in 0 .. QueueLimit, NEW c \in Call, Holds(c), ~Holds(c)',
           \A d \in Call \ {c} : Holds(d)' <=> Holds(d), lane'.free = lane.free + 1
    PROVE  Permits'
<1>1. Holders' = Holders \ {c} /\ c \in Holders
  BY DEF Holders
<1>2. /\ IsFiniteSet(Holders \ {c})
      /\ Cardinality(Holders \ {c}) = Cardinality(Holders) - 1
  BY <1>1, FS_RemoveElement DEF Permits
<1>3. Cardinality(Holders) \in Nat
  BY FS_CardinalityType DEF Permits
<1> QED BY <1>1, <1>2, <1>3, LimitAssumption DEF Permits

LEMMA PermitsBack ==
    ASSUME Permits, lane.free \in 0 .. QueueLimit, NEW late \in SUBSET Call,
           \A c \in late : Holds(c) /\ ~Holds(c)',
           \A d \in Call \ late : Holds(d)' <=> Holds(d),
           lane'.free = lane.free + Cardinality(late)
    PROVE  Permits'
<1>1. Holders' = Holders \ late /\ late \subseteq Holders
  BY DEF Holders
<1>2. /\ IsFiniteSet(Holders \ late) /\ IsFiniteSet(late)
      /\ Cardinality(Holders \ late) = Cardinality(Holders) - Cardinality(Holders \cap late)
  BY <1>1, FS_Difference, FS_Subset DEF Permits
<1>3. Holders \cap late = late
  BY <1>1
<1>4. Cardinality(Holders) \in Nat /\ Cardinality(late) \in Nat
  BY <1>2, FS_CardinalityType DEF Permits
<1>5. Cardinality(Holders') = Cardinality(Holders) - Cardinality(late) /\ IsFiniteSet(Holders')
  BY <1>1, <1>2, <1>3
<1>6. lane'.free + Cardinality(Holders') = QueueLimit
  BY <1>4, <1>5, LimitAssumption DEF Permits
<1> QED BY <1>5, <1>6 DEF Permits

-----------------------------------------------------------------------------
(* Permits: each step takes one, gives back those of the futures it ends,  *)
(* or none.                                                                *)

Accounted == lane'.free \in 0 .. QueueLimit /\ Permits'

LEMMA SameAccounted ==
    ASSUME IInv, \A c \in Call : Holds(c)' <=> Holds(c), lane'.free = lane.free
    PROVE  Accounted
<1>1. Permits' /\ lane.free \in 0 .. QueueLimit
  BY PermitsSame DEF IInv, TypeOK
<1> QED BY <1>1 DEF Accounted

LEMMA TakenAccounted ==
    ASSUME IInv, lane.free > 0, NEW c \in Call, ~Holds(c), Holds(c)',
           \A d \in Call \ {c} : Holds(d)' <=> Holds(d), lane'.free = lane.free - 1
    PROVE  Accounted
<1>1. lane.free \in 0 .. QueueLimit
  BY DEF IInv, TypeOK
<1>2. Permits'
  BY <1>1, PermitTaken DEF IInv
<1> QED BY <1>1, <1>2, LimitAssumption DEF Accounted

LEMMA BackAccounted ==
    ASSUME IInv, NEW c \in Call, Holds(c), ~Holds(c)',
           \A d \in Call \ {c} : Holds(d)' <=> Holds(d), lane'.free = lane.free + 1
    PROVE  Accounted
<1>1. lane.free \in 0 .. QueueLimit
  BY DEF IInv, TypeOK
<1>2. Permits'
  BY <1>1, PermitBack DEF IInv
<1>3. Cardinality(Holders') \in Nat
  BY <1>2, FS_CardinalityType DEF Permits
<1> QED BY <1>1, <1>2, <1>3, LimitAssumption DEF Accounted, Permits

LEMMA BatchAccounted ==
    ASSUME IInv, NEW late \in SUBSET Call,
           \A c \in late : Holds(c) /\ ~Holds(c)',
           \A d \in Call \ late : Holds(d)' <=> Holds(d),
           lane'.free = lane.free + Cardinality(late)
    PROVE  Accounted
<1>1. lane.free \in 0 .. QueueLimit
  BY DEF IInv, TypeOK
<1>2. Permits'
  BY <1>1, PermitsBack DEF IInv
<1>3. Cardinality(Holders') \in Nat
  BY <1>2, FS_CardinalityType DEF Permits
<1>4. late \subseteq Holders
  BY DEF Holders
<1>5. Cardinality(late) \in Nat
  BY <1>4, FS_Subset, FS_CardinalityType DEF IInv, Permits
<1> QED BY <1>1, <1>2, <1>3, <1>5, LimitAssumption DEF Accounted, Permits

LEMMA EnqueueAccounted ==
    ASSUME IInv, NEW c \in Call, call[c] \in {"acquired", "submitting"}, Enqueue(c)
    PROVE  Accounted
<1>0. /\ call \in [Call -> Steps] /\ future \in [Call -> Future] /\ Holds(c)
      /\ future[c] = "none"
  BY DEF IInv, TypeOK, Holds, Staged
<1>1. CASE lane.closed
  <2>1. /\ lane'.free = lane.free + 1 /\ future' = future
        /\ call' = [call EXCEPT ![c] = "done"]
    BY <1>1 DEF Enqueue, Leave, IInv, TypeOK
  <2> QED BY <1>0, <2>1, BackAccounted DEF Holds
<1>2. CASE ~lane.closed
  <2>1. /\ lane'.free = lane.free /\ future' = [future EXCEPT ![c] = "queued"]
        /\ call' = [call EXCEPT ![c] = "waiting"]
    BY <1>2 DEF Enqueue, IInv, TypeOK
  <2> QED BY <1>0, <2>1, SameAccounted DEF Holds
<1> QED BY <1>1, <1>2

\* The callback of a cancelled future is between the cancellation and the rest.
LEMMA ClosingAccounted ==
    ASSUME IInv, NEW p \in Call \union {Worker}, Closing(p)
    PROVE  Accounted
<1>0. call \in [Call -> Steps] /\ future \in [Call -> Future]
  BY DEF IInv, TypeOK
<1>1. ASSUME NEW s \in {"done", "cancelling", "idle", "ending"}, GoTo(p, s),
             p \in Call => call[p] \in {"poisoning", "cancelling"}
      PROVE  \A c \in Call : call'[c] \in {"acquired", "submitting"} <=>
                             call[c] \in {"acquired", "submitting"}
  BY <1>0, <1>1, Distinct DEF GoTo
<1>2. ASSUME Poison(p) PROVE Accounted
  <2>1. lane'.free = lane.free /\ UNCHANGED future
    BY <1>2 DEF Poison, IInv, TypeOK
  <2>2. \E s \in {"done", "cancelling", "idle", "ending"} : GoTo(p, s)
    BY <1>2 DEF Poison
  <2>3. p \in Call => call[p] \in {"poisoning", "cancelling"}
    BY <1>2, Distinct DEF Poison, IsAt
  <2> QED BY <1>1, <2>1, <2>2, <2>3, SameAccounted DEF Holds
<1>3. ASSUME CancelNext(p) PROVE Accounted
  <2> DEFINE c == Head(lane.queue)
  <2>1. CASE c \in Call /\ future[c] = "queued"
    <3>1. /\ future' = [future EXCEPT ![c] = "cancelled"] /\ UNCHANGED call
          /\ lane'.free = lane.free + 1
      BY <1>3, <2>1 DEF CancelNext, IInv, TypeOK
    <3>2. call[c] \notin {"acquired", "submitting"}
      BY <2>1 DEF IInv, Staged
    <3> HIDE DEF c
    <3> QED BY <1>0, <2>1, <3>1, <3>2, BackAccounted DEF Holds
  <2>2. CASE ~(c \in Call /\ future[c] = "queued")
    <3>1. UNCHANGED <<future, call>> /\ lane'.free = lane.free
      BY <1>3, <2>2 DEF CancelNext, IInv, TypeOK
    <3> QED BY <3>1, SameAccounted DEF Holds
  <2> QED BY <2>1, <2>2
<1>4. ASSUME Release(p) PROVE Accounted
  BY <1>4, SameAccounted DEF Release, Holds
<1>5. ASSUME EndCancel(p) PROVE Accounted
  <2>1. lane'.free = lane.free /\ UNCHANGED future
    BY <1>5 DEF EndCancel, IInv, TypeOK
  <2>2. \E s \in {"done", "cancelling", "idle", "ending"} : GoTo(p, s)
    BY <1>5 DEF EndCancel
  <2>3. p \in Call => call[p] \in {"poisoning", "cancelling"}
    BY <1>5, Distinct DEF EndCancel, IsAt
  <2> QED BY <1>1, <2>1, <2>2, <2>3, SameAccounted DEF Holds
<1> QED BY <1>2, <1>3, <1>4, <1>5 DEF Closing

LEMMA CallAccounted ==
    ASSUME IInv, NEW c \in Call, CallStep(c)
    PROVE  Accounted
<1>0. /\ call \in [Call -> Steps] /\ future \in [Call -> Future]
      /\ call[c] \in {"new", "acquiring", "acquired", "submitting"} => future[c] = "none"
  BY DEF IInv, TypeOK, Staged
<1>1. ASSUME NEW s, call' = [call EXCEPT ![c] = s], UNCHANGED future,
             call[c] \notin {"acquired", "submitting"}, s \notin {"acquired", "submitting"},
             lane'.free = lane.free
      PROVE  Accounted
  BY <1>0, <1>1, SameAccounted DEF Holds
<1>2. ASSUME EnterUnconnected(c) \/ Enter(c) \/ QueueDeadline(c) \/ DialogInQueue(c)
             \/ ReturnResult(c) \/ ReturnFailure(c) \/ GiveUpRunning(c)
      PROVE  Accounted
  <2>1. \E s \in {"done", "acquiring", "gating"} : call' = [call EXCEPT ![c] = s]
    BY <1>2 DEF EnterUnconnected, Enter, QueueDeadline, DialogInQueue, ReturnResult,
                ReturnFailure, GiveUpRunning, Leave
  <2>2. UNCHANGED <<future, lane>> /\ call[c] \in {"new", "acquiring", "waiting"}
    BY <1>2 DEF EnterUnconnected, Enter, QueueDeadline, DialogInQueue, ReturnResult,
                ReturnFailure, GiveUpRunning
  <2> QED BY <1>1, <2>1, <2>2
<1>3. ASSUME EnterAfterExit(c) \/ SeeExit(c) PROVE Accounted
  <2>1. \E s \in {"poisoning", "done"} : call' = [call EXCEPT ![c] = s]
    BY <1>3 DEF EnterAfterExit, SeeExit, NoteExit
  <2>2. /\ UNCHANGED future /\ call[c] \in {"new", "acquiring", "waiting"}
        /\ lane' = [lane EXCEPT !.registered = FALSE]
    BY <1>3 DEF EnterAfterExit, SeeExit, NoteExit, Forget
  <2>3. lane'.free = lane.free
    BY <2>2 DEF IInv, TypeOK
  <2> QED BY <1>1, <2>1, <2>2, <2>3
<1>4. ASSUME SetGate(c) PROVE Accounted
  <2>1. \E s \in {"clearing", "probing"} : call' = [call EXCEPT ![c] = s]
    BY <1>4 DEF SetGate
  <2>2. UNCHANGED future /\ call[c] = "gating" /\ lane'.free = lane.free
    BY <1>4 DEF SetGate, IInv, TypeOK
  <2> QED BY <1>1, <2>1, <2>2
<1>5. ASSUME Acquire(c) PROVE Accounted
  <2>1. /\ call' = [call EXCEPT ![c] = "acquired"] /\ UNCHANGED future
        /\ call[c] = "acquiring" /\ lane.free > 0 /\ lane'.free = lane.free - 1
    BY <1>5 DEF Acquire, IInv, TypeOK
  <2> QED BY <1>0, <2>1, TakenAccounted DEF Holds
<1>6. ASSUME SubmitRefused(c) PROVE Accounted
  <2>1. /\ call' = [call EXCEPT ![c] = "done"] /\ UNCHANGED future
        /\ call[c] = "acquired" /\ lane'.free = lane.free + 1
    BY <1>6 DEF SubmitRefused, Leave, IInv, TypeOK
  <2> QED BY <1>0, <2>1, BackAccounted DEF Holds
<1>7. ASSUME Submit(c) \/ SubmitAfterWait(c) PROVE Accounted
  BY <1>7, EnqueueAccounted DEF Submit, MaySubmit, SubmitAfterWait
<1>8. ASSUME WaitForLane(c) PROVE Accounted
  <2>1. /\ call' = [call EXCEPT ![c] = "submitting"] /\ UNCHANGED <<future, lane>>
        /\ call[c] = "acquired"
    BY <1>8 DEF WaitForLane, MaySubmit
  <2> QED BY <1>0, <2>1, SameAccounted DEF Holds
<1>9. ASSUME GiveUpQueued(c) PROVE Accounted
  <2>1. /\ call' = [call EXCEPT ![c] = "done"] /\ call[c] = "waiting"
        /\ future' = [future EXCEPT ![c] = "cancelled"] /\ future[c] = "queued"
        /\ lane'.free = lane.free + 1
    BY <1>9 DEF GiveUpQueued, Leave, IInv, TypeOK
  <2> QED BY <1>0, <2>1, BackAccounted DEF Holds
<1>10. ASSUME CancelOthers(c) PROVE Accounted
  <2> DEFINE late == {m \in others[c] : future[m] = "queued"}
  <2>1. /\ future' = [m \in Call |-> IF m \in late THEN "cancelled" ELSE future[m]]
        /\ call' = [call EXCEPT ![c] = "done"] /\ call[c] \in {"clearing", "probing"}
        /\ lane'.free = lane.free + Cardinality(late)
    BY <1>10 DEF CancelOthers, IInv, TypeOK
  <2>2. late \in SUBSET Call /\ \A m \in late : future[m] = "queued"
    BY DEF IInv, TypeOK, Call
  <2>3. \A m \in late : call[m] \notin {"acquired", "submitting"}
    BY <2>2 DEF IInv, Staged
  <2> HIDE DEF late
  <2> QED BY <1>0, <2>1, <2>2, <2>3, BatchAccounted DEF Holds
<1> QED BY <1>2, <1>3, <1>4, <1>5, <1>6, <1>7, <1>8, <1>9, <1>10, ClosingAccounted
        DEF CallStep

LEMMA LaneAccountedStep ==
    ASSUME IInv, WorkerStep \/ HangulStep
    PROVE  Accounted
<1>0. call \in [Call -> Steps] /\ future \in [Call -> Future]
  BY DEF IInv, TypeOK
<1>1. ASSUME Take PROVE Accounted
  <2> DEFINE c == Head(lane.queue)
  <2>1. /\ future' = IF c \in Call /\ future[c] = "queued"
                     THEN [future EXCEPT ![c] = "running"] ELSE future
        /\ UNCHANGED call /\ lane'.free = lane.free
    BY <1>1 DEF Take, IInv, TypeOK
  <2> HIDE DEF c
  <2> QED BY <1>0, <2>1, SameAccounted DEF Holds
<1>2. ASSUME Untrack \/ ExitHangul \/ ConfirmSave PROVE Accounted
  BY <1>2, SameAccounted DEF Untrack, ExitHangul, ConfirmSave, Holds
<1>3. ASSUME Shutdown PROVE Accounted
  <2>1. UNCHANGED <<future, call>> /\ lane'.free = lane.free
    BY <1>3 DEF Shutdown, GoTo, IInv, TypeOK
  <2> QED BY <2>1, SameAccounted DEF Holds
<1>4. ASSUME NEW o \in Outcome, future' = [future EXCEPT ![worker.item] = o],
             worker.at \in {"running", "ending"}, UNCHANGED call,
             lane'.free = lane.free + 1
      PROVE  Accounted
  <2>1. worker.item \in Call /\ future[worker.item] = "running"
    BY <1>4 DEF IInv, WorkerHolds
  <2>2. call[worker.item] \notin {"acquired", "submitting"}
    BY <2>1 DEF IInv, Staged
  <2>3. o \notin {"queued", "running"}
    BY DEF Outcome
  <2> QED BY <1>0, <1>4, <2>1, <2>2, <2>3, BackAccounted DEF Holds
<1>5. ASSUME EndDisconnect PROVE Accounted
  <2>1. lane'.free = lane.free + 1
    BY <1>5 DEF EndDisconnect, IInv, TypeOK
  <2> QED BY <1>4, <1>5, <2>1 DEF EndDisconnect, Outcome
<1>6. ASSUME Finish PROVE Accounted
  <2>1. lane'.free = lane.free + 1
    BY <1>6 DEF Finish, IInv, TypeOK
  <2>2. Outcomes(worker.item) \subseteq Outcome
    BY DEF Outcomes, Outcome
  <2> QED BY <1>4, <1>6, <2>1, <2>2 DEF Finish
<1>7. ASSUME FinishDisconnect \/ FinishProbe PROVE Accounted
  <2>1. UNCHANGED <<future, call>>
    BY <1>7 DEF FinishDisconnect, FinishProbe, GoTo
  <2>2. lane' = lane \/ lane' = [lane EXCEPT !.registered = FALSE]
    BY <1>7 DEF FinishDisconnect, FinishProbe, Forget
  <2>3. lane'.free = lane.free
    BY <2>2 DEF IInv, TypeOK
  <2> QED BY <2>1, <2>3, SameAccounted DEF Holds
<1> QED BY <1>1, <1>2, <1>3, <1>5, <1>6, <1>7, ClosingAccounted DEF WorkerStep, HangulStep

LEMMA NextAccounted ==
    ASSUME IInv, [Next]_vars
    PROVE  Accounted
<1>1. CASE UNCHANGED vars
  BY <1>1, SameAccounted DEF vars, Holds
<1> QED BY <1>1, CallAccounted, LaneAccountedStep DEF Next

-----------------------------------------------------------------------------
(* Types.  The permits in the lane stay in their range because they are    *)
(* accounted for.                                                          *)

Item == Call \union {Probe, Stop}
LaneType == [queue : Seq(Item), free : 0..QueueLimit,
             closed : BOOLEAN, poisoned : BOOLEAN, registered : BOOLEAN]
GateType == [on : BOOLEAN, futures : SUBSET Call, contexts : SUBSET Mutation,
             reconcile : BOOLEAN, identity : BOOLEAN, outcome : BOOLEAN]
WorkerType == [at : WorkerSteps, item : Call \union {Probe, None}]

LEMMA FreeEdit ==
    ASSUME NEW l \in LaneType, NEW f \in 0..QueueLimit
    PROVE  [l EXCEPT !.free = f] \in LaneType
BY DEF LaneType

LEMMA QueueEdit ==
    ASSUME NEW l \in LaneType, NEW q \in Seq(Item)
    PROVE  [l EXCEPT !.queue = q] \in LaneType
BY DEF LaneType

LEMMA QueueTypes ==
    ASSUME NEW l \in LaneType, NEW x \in Item
    PROVE  /\ Append(l.queue, x) \in Seq(Item)
           /\ l.queue # << >> => Tail(l.queue) \in Seq(Item) /\ Head(l.queue) \in Item
           /\ << x >> \in Seq(Item)
<1>1. l.queue \in Seq(Item)
  BY DEF LaneType
<1> QED BY <1>1

LEMMA GateTypes ==
    ASSUME NEW g \in GateType, NEW readback
    PROVE  Recovered(g, readback) \in GateType /\ Open \in GateType
BY DEF Recovered, Open, GateType

LEMMA Parts ==
    TypeOK <=> /\ hangul \in {"alive", "exited"}
               /\ session \in {"connected", "lost", "cleared"}
               /\ lane \in LaneType
               /\ guard \in Call \union {Worker, None}
               /\ dropping \in Call \union {None}
               /\ lock \in Call \union {None}
               /\ worker \in WorkerType
               /\ future \in [Call -> Future]
               /\ tracked \subseteq Call
               /\ gate \in GateType
               /\ call \in [Call -> Steps]
               /\ others \in [Call -> SUBSET Mutation]
               /\ answer \in [Call -> Answers]
BY DEF TypeOK, LaneType, Item, WorkerType, GateType

LEMMA EnqueueType ==
    ASSUME TypeOK, NEW c \in Call, lane'.free \in 0..QueueLimit, Enqueue(c),
           UNCHANGED << hangul, session, guard, dropping, worker, gate, others >>,
           lock' \in Call \union {None}
    PROVE  TypeOK'
<1>1. lane' \in LaneType
  <2>1. lane \in LaneType /\ c \in Item
    BY Parts DEF Item
  <2>2. CASE lane.closed
    <3>1. lane' = [lane EXCEPT !.free = @ + 1]
      BY <2>2 DEF Enqueue
    <3>2. lane'.free = lane.free + 1
      BY <2>1, <3>1 DEF LaneType
    <3> QED BY <2>1, <3>1, <3>2, FreeEdit
  <2>3. CASE ~lane.closed
    <3>1. lane' = [lane EXCEPT !.queue = Append(@, c)]
      BY <2>3 DEF Enqueue
    <3>2. Append(lane.queue, c) \in Seq(Item)
      BY <2>1, QueueTypes
    <3> QED BY <2>1, <3>1, <3>2, QueueEdit
  <2> QED BY <2>2, <2>3
<1>2. /\ future' \in [Call -> Future] /\ tracked' \subseteq Call
      /\ call' \in [Call -> Steps] /\ answer' \in [Call -> Answers]
  <2>1. /\ future \in [Call -> Future] /\ tracked \subseteq Call
        /\ call \in [Call -> Steps] /\ answer \in [Call -> Answers]
    BY Parts
  <2>2. "queued" \in Future /\ "unavailable" \in Answers /\ {"done", "waiting"} \subseteq Steps
    BY DEF Future, Answers, Steps
  <2> QED BY <2>1, <2>2 DEF Enqueue, Leave
<1>3. /\ hangul' \in {"alive", "exited"} /\ session' \in {"connected", "lost", "cleared"}
      /\ guard' \in Call \union {Worker, None} /\ dropping' \in Call \union {None}
      /\ worker' \in WorkerType /\ gate' \in GateType /\ others' \in [Call -> SUBSET Mutation]
  BY Parts
<1> QED BY <1>1, <1>2, <1>3 DEF TypeOK, LaneType, Item, WorkerType, GateType

LEMMA GoToType ==
    ASSUME TypeOK, NEW p \in Call \union {Worker}, NEW s, GoTo(p, s),
           p = Worker => s \in WorkerSteps, p # Worker => s \in Steps
    PROVE  call' \in [Call -> Steps] /\ worker' \in WorkerType
<1>1. CASE p = Worker
  <2>1. worker.item \in Call \union {Probe, None}
    BY DEF TypeOK
  <2> QED BY <1>1, <2>1, Parts DEF GoTo, WorkerType
<1>2. CASE p # Worker
  BY <1>2, Parts DEF GoTo
<1> QED BY <1>1, <1>2

LEMMA Words ==
    /\ {"none", "queued", "running", "cancelled", "ok", "resolved", "unresolved", "lost"}
          \subseteq Future
    /\ Outcome \subseteq Future
    /\ {"none", "result", "failed", "retry", "refused", "modal", "late",
        "reconcile", "lost", "cancelled", "unavailable"} \subseteq Answers
    /\ {"new", "acquiring", "acquired", "submitting", "waiting", "gating",
        "clearing", "probing", "poisoning", "cancelling", "done"} \subseteq Steps
    /\ {"idle", "running", "finished", "probing", "shutting",
        "poisoning", "cancelling", "ending", "stopped"} \subseteq WorkerSteps
BY DEF Future, Outcome, Answers, Steps, WorkerSteps

\* The types of all but the lane.
Others ==
    /\ hangul \in {"alive", "exited"}
    /\ session \in {"connected", "lost", "cleared"}
    /\ guard \in Call \union {Worker, None}
    /\ dropping \in Call \union {None}
    /\ lock \in Call \union {None}
    /\ worker \in WorkerType
    /\ future \in [Call -> Future]
    /\ tracked \subseteq Call
    /\ gate \in GateType
    /\ call \in [Call -> Steps]
    /\ others \in [Call -> SUBSET Mutation]
    /\ answer \in [Call -> Answers]

LEMMA TypeSplit == TypeOK <=> lane \in LaneType /\ Others
BY Parts DEF Others

LEMMA TypeSplitNext == lane' \in LaneType /\ Others' => TypeOK'
BY DEF TypeOK, Others, LaneType, Item, WorkerType, GateType

LEMMA RecoveredType ==
    ASSUME gate \in GateType, NEW readback
    PROVE  /\ Recovered(gate, readback) \in GateType /\ Open \in GateType
           /\ Recovered([gate EXCEPT !.identity = TRUE], readback) \in GateType
           /\ Recovered([gate EXCEPT !.outcome = TRUE], readback) \in GateType
<1>1. [gate EXCEPT !.identity = TRUE] \in GateType /\ [gate EXCEPT !.outcome = TRUE] \in GateType
  BY DEF GateType
<1> QED BY <1>1, GateTypes

LEMMA ForgetType ==
    ASSUME TypeOK, NEW s \in {"lost", "cleared"}, Forget(s)
    PROVE  /\ session' \in {"connected", "lost", "cleared"} /\ lane' \in LaneType
           /\ gate' \in GateType /\ tracked' \subseteq Call
<1>1. lane \in LaneType /\ Open \in GateType /\ session \in {"connected", "lost", "cleared"}
  BY Parts, RecoveredType
<1>2. [lane EXCEPT !.registered = FALSE] \in LaneType
  BY <1>1 DEF LaneType
<1> QED BY <1>1, <1>2 DEF Forget

LEMMA CallTypes ==
    ASSUME TypeOK, lane'.free \in 0..QueueLimit, NEW c \in Call, CallStep(c), ~Closing(c)
    PROVE  TypeOK'
<1>0. lane \in LaneType /\ Others
  BY TypeSplit
<1>1. ASSUME EnterUnconnected(c) \/ Enter(c) \/ QueueDeadline(c) \/ DialogInQueue(c)
             \/ ReturnResult(c) \/ ReturnFailure(c) \/ GiveUpRunning(c) \/ WaitForLane(c)
      PROVE  TypeOK'
  <2>1. UNCHANGED <<hangul, session, lane, guard, dropping, worker, future, tracked, others>>
    BY <1>1 DEF EnterUnconnected, Enter, QueueDeadline, DialogInQueue, ReturnResult,
                ReturnFailure, GiveUpRunning, WaitForLane
  <2>2. gate' \in GateType
    BY <1>0, <1>1, RecoveredType DEF Others, EnterUnconnected, Enter, QueueDeadline,
       DialogInQueue, ReturnResult, ReturnFailure, GiveUpRunning, WaitForLane
  <2>3. /\ \E s \in Steps : call' = [call EXCEPT ![c] = s]
        /\ UNCHANGED answer \/ \E a \in Answers : answer' = [answer EXCEPT ![c] = a]
        /\ lock' \in {lock, c}
    BY <1>1, Words DEF EnterUnconnected, Enter, QueueDeadline, DialogInQueue, ReturnResult,
                ReturnFailure, GiveUpRunning, WaitForLane, Leave
  <2>4. call' \in [Call -> Steps] /\ answer' \in [Call -> Answers] /\ lock' \in Call \union {None}
    BY <1>0, <2>3 DEF Others
  <2>5. Others'
    BY <1>0, <2>1, <2>2, <2>4 DEF Others
  <2> QED BY <1>0, <2>1, <2>5, TypeSplitNext
<1>2. ASSUME EnterAfterExit(c) \/ SeeExit(c) PROVE TypeOK'
  <2>1. /\ UNCHANGED <<hangul, guard, dropping, worker, lock, future, others>>
        /\ Forget("lost") /\ answer' = [answer EXCEPT ![c] = "lost"]
        /\ \E s \in Steps : call' = [call EXCEPT ![c] = s]
    BY <1>2, Words DEF EnterAfterExit, SeeExit, NoteExit
  <2>2. Others' /\ lane' \in LaneType
    BY <1>0, <2>1, ForgetType, Words DEF Others
  <2> QED BY <2>2, TypeSplitNext
<1>3. ASSUME Acquire(c) \/ SubmitRefused(c) PROVE TypeOK'
  <2>1. /\ UNCHANGED <<hangul, session, guard, dropping, worker, lock, future, tracked,
                       gate, others>>
        /\ \E s \in Steps : call' = [call EXCEPT ![c] = s]
        /\ UNCHANGED answer \/ \E a \in Answers : answer' = [answer EXCEPT ![c] = a]
        /\ \E f : lane' = [lane EXCEPT !.free = f]
    BY <1>3, Words DEF Acquire, SubmitRefused, Leave
  <2>2. lane' \in LaneType
    BY <1>0, <2>1 DEF LaneType
  <2>3. Others'
    BY <1>0, <2>1 DEF Others
  <2> QED BY <2>2, <2>3, TypeSplitNext
<1>4. ASSUME Submit(c) \/ SubmitAfterWait(c) PROVE TypeOK'
  <2>1. lock' \in Call \union {None}
    BY <1>0, <1>4 DEF Submit, SubmitAfterWait, Others
  <2> QED BY <1>4, <2>1, EnqueueType DEF Submit, SubmitAfterWait
<1>5. ASSUME GiveUpQueued(c) PROVE TypeOK'
  <2>1. /\ UNCHANGED <<hangul, session, guard, dropping, worker, lock, gate, others>>
        /\ call' = [call EXCEPT ![c] = "done"]
        /\ \E a \in Answers : answer' = [answer EXCEPT ![c] = a]
        /\ future' = [future EXCEPT ![c] = "cancelled"]
        /\ tracked' = tracked \ {c}
        /\ \E f : lane' = [lane EXCEPT !.free = f]
    BY <1>5, Words DEF GiveUpQueued, Leave
  <2>2. lane' \in LaneType
    BY <1>0, <2>1 DEF LaneType
  <2>3. Others'
    BY <1>0, <2>1, Words DEF Others
  <2> QED BY <2>2, <2>3, TypeSplitNext
<1>6. ASSUME SetGate(c) PROVE TypeOK'
  <2>1. gate' \in GateType
    <3>1. tracked \subseteq Call /\ {c} \intersect Mutation \subseteq Mutation
      BY <1>0 DEF Others
    <3> QED BY <1>0, <1>6, <3>1 DEF SetGate, Others, GateType
  <2>2. lane' \in LaneType
    BY <1>0, <1>6 DEF SetGate, LaneType
  <2>3. /\ call' \in [Call -> Steps] /\ others' \in [Call -> SUBSET Mutation]
        /\ UNCHANGED << hangul, session, guard, dropping, worker, lock, future, tracked,
                        answer >>
    BY <1>0, <1>6, Words DEF SetGate, Others
  <2>4. Others'
    BY <1>0, <2>1, <2>3 DEF Others
  <2> QED BY <2>2, <2>4, TypeSplitNext
<1>7. ASSUME CancelOthers(c) PROVE TypeOK'
  <2>1. /\ \E late : /\ future' = [m \in Call |-> IF m \in late THEN "cancelled" ELSE future[m]]
                     /\ tracked' = tracked \ late
        /\ \E f : \/ lane' = [lane EXCEPT !.free = f, !.queue = lane.queue]
                  \/ lane' = [lane EXCEPT !.free = f, !.queue = Append(lane.queue, Probe)]
        /\ others' = [others EXCEPT ![c] = {}] /\ call' = [call EXCEPT ![c] = "done"]
        /\ UNCHANGED << hangul, session, guard, dropping, worker, lock, gate, answer >>
    BY <1>7 DEF CancelOthers
  <2>2. lane' \in LaneType
    <3>1. Append(lane.queue, Probe) \in Seq(Item) /\ lane.queue \in Seq(Item)
      BY <1>0, QueueTypes DEF LaneType, Item
    <3>2. \E f, q : q \in Seq(Item) /\ lane' = [lane EXCEPT !.free = f, !.queue = q]
      BY <2>1, <3>1
    <3> QED BY <1>0, <3>2 DEF LaneType
  <2>3. /\ future' \in [Call -> Future] /\ tracked' \subseteq Call
        /\ others' \in [Call -> SUBSET Mutation] /\ call' \in [Call -> Steps]
    BY <1>0, <2>1, Words DEF Others
  <2>4. Others'
    BY <1>0, <2>1, <2>3 DEF Others
  <2> QED BY <2>2, <2>4, TypeSplitNext
<1> QED BY <1>1, <1>2, <1>3, <1>4, <1>5, <1>6, <1>7 DEF CallStep

LEMMA ClosingTypes ==
    ASSUME TypeOK, lane'.free \in 0..QueueLimit, NEW p \in Call \union {Worker}, Closing(p)
    PROVE  TypeOK'
<1>0. lane \in LaneType /\ Others
  BY TypeSplit
<1>1. ASSUME Poison(p) PROVE TypeOK'
  <2>1. lane' \in LaneType
    BY <1>0, <1>1 DEF Poison, LaneType
  <2>2. call' \in [Call -> Steps] /\ worker' \in WorkerType
    <3>1. \E s : /\ GoTo(p, s) /\ (p = Worker => s \in WorkerSteps)
                /\ (p # Worker => s \in Steps)
      BY <1>1, Words DEF Poison
    <3> QED BY <3>1, GoToType
  <2>3. Others'
    BY <1>0, <1>1, <2>2 DEF Poison, Others
  <2> QED BY <2>1, <2>3, TypeSplitNext
<1>2. ASSUME CancelNext(p) PROVE TypeOK'
  <2>1. lane' \in LaneType
    <3>1. Tail(lane.queue) \in Seq(Item)
      <4>1. lane.queue # << >> /\ Probe \in Item
        BY <1>2 DEF CancelNext, Item
      <4> QED BY <1>0, <4>1, QueueTypes
    <3>2. \E f : lane' = [lane EXCEPT !.queue = Tail(@), !.free = f]
      BY <1>2 DEF CancelNext
    <3> QED BY <1>0, <3>1, <3>2 DEF LaneType
  <2>2. Others'
    BY <1>0, <1>2, Words DEF CancelNext, Others
  <2> QED BY <2>1, <2>2, TypeSplitNext
<1>3. ASSUME Release(p) PROVE TypeOK'
  <2>1. Others'
    BY <1>0, <1>3 DEF Release, Others
  <2> QED BY <1>0, <1>3, <2>1, TypeSplitNext DEF Release
<1>4. ASSUME EndCancel(p) PROVE TypeOK'
  <2>1. lane' \in LaneType
    <3>1. << Stop >> \in Seq(Item)
      BY DEF Item
    <3> QED BY <1>0, <1>4, <3>1 DEF EndCancel, LaneType
  <2>2. call' \in [Call -> Steps] /\ worker' \in WorkerType
    <3>1. \E s : /\ GoTo(p, s) /\ (p = Worker => s \in WorkerSteps)
                /\ (p # Worker => s \in Steps)
      <4>1. CASE p # Worker
        BY <1>4, <4>1, Words DEF EndCancel
      <4>2. CASE p = Worker
        BY <1>4, <4>2, Words DEF EndCancel
      <4> QED BY <4>1, <4>2
    <3> QED BY <3>1, GoToType
  <2>3. Others'
    BY <1>0, <1>4, <2>2 DEF EndCancel, Others
  <2> QED BY <2>1, <2>3, TypeSplitNext
<1> QED BY <1>1, <1>2, <1>3, <1>4 DEF Closing

LEMMA LaneStepTypes ==
    ASSUME IInv, lane'.free \in 0..QueueLimit, WorkerStep \/ HangulStep,
           ~Closing(Worker)
    PROVE  TypeOK'
<1>0. TypeOK /\ lane \in LaneType /\ Others /\ WorkerHolds
  BY TypeSplit DEF IInv
<1>1. ASSUME Take PROVE TypeOK'
  <2>1. Tail(lane.queue) \in Seq(Item) /\ Head(lane.queue) \in Item
    <3>1. lane.queue # << >> /\ Probe \in Item
      BY <1>1 DEF Take, Item
    <3> QED BY <1>0, <3>1, QueueTypes
  <2> DEFINE item == Head(lane.queue)
  <2>2. lane' = [lane EXCEPT !.queue = Tail(@)]
    BY <1>1 DEF Take
  <2>3. lane' \in LaneType
    BY <1>0, <2>1, <2>2 DEF LaneType
  <2>4. /\ UNCHANGED << hangul, session, guard, dropping, lock, tracked, gate, call, others,
                    answer >>
        /\ \/ worker' = [at |-> "stopped", item |-> None]
           \/ worker' = [at |-> "probing", item |-> Probe]
           \/ item \in Call /\ worker' = [at |-> "running", item |-> item]
           \/ worker' = worker
        /\ UNCHANGED future \/ future' = [future EXCEPT ![item] = "running"]
    BY <1>1 DEF Take
  <2> HIDE DEF item
  <2>5. worker' \in WorkerType /\ future' \in [Call -> Future]
    BY <1>0, <2>4, Words DEF WorkerType, Others
  <2>6. Others'
    BY <1>0, <2>4, <2>5 DEF Others
  <2> QED BY <2>3, <2>6, TypeSplitNext
<1>2. ASSUME Untrack \/ ExitHangul \/ ConfirmSave PROVE TypeOK'
  <2>1. CASE Untrack
    <3>1. worker' \in WorkerType
      BY <2>1, Words DEF Untrack, WorkerType
    <3>2. Others'
      BY <1>0, <2>1, <3>1 DEF Untrack, Others
    <3> QED BY <1>0, <2>1, <3>2, TypeSplitNext DEF Untrack
  <2>2. CASE ExitHangul
    <3>1. Others'
      BY <1>0, <2>2 DEF ExitHangul, Others
    <3> QED BY <1>0, <2>2, <3>1, TypeSplitNext DEF ExitHangul
  <2>3. CASE ConfirmSave
    <3>1. gate' \in GateType
      BY <1>0, <2>3, RecoveredType DEF ConfirmSave, Others
    <3>2. Others'
      BY <1>0, <2>3, <3>1 DEF ConfirmSave, Others
    <3> QED BY <1>0, <2>3, <3>2, TypeSplitNext DEF ConfirmSave
  <2> QED BY <1>2, <2>1, <2>2, <2>3
<1>3. ASSUME Shutdown PROVE TypeOK'
  <2>1. lane' \in LaneType
    BY <1>0, <1>3 DEF Shutdown, LaneType
  <2>2. call' \in [Call -> Steps] /\ worker' \in WorkerType
    BY <1>0, <1>3, GoToType, Words DEF Shutdown
  <2>3. Others'
    BY <1>0, <1>3, <2>2 DEF Shutdown, Others
  <2> QED BY <2>1, <2>3, TypeSplitNext
<1>4. ASSUME EndDisconnect \/ Finish PROVE TypeOK'
  <2>1. \E f : lane' = [lane EXCEPT !.free = f]
    BY <1>4 DEF EndDisconnect, Finish
  <2>2. lane' \in LaneType
    BY <1>0, <2>1 DEF LaneType
  <2>3. \E o \in Outcome : future' = [future EXCEPT ![worker.item] = o]
    BY <1>4 DEF EndDisconnect, Finish, Outcomes, Outcome
  <2>4. worker' = [worker EXCEPT !.at = "finished"]
    BY <1>4 DEF EndDisconnect, Finish
  <2>5. worker' \in WorkerType /\ future' \in [Call -> Future]
    BY <1>0, <2>3, <2>4, Words DEF WorkerType, Others
  <2>6. UNCHANGED << hangul, session, guard, dropping, lock, tracked, gate, call, others,
                    answer >>
    BY <1>4 DEF EndDisconnect, Finish
  <2>7. Others'
    BY <1>0, <2>5, <2>6 DEF Others
  <2> QED BY <2>2, <2>7, TypeSplitNext
<1>5. ASSUME FinishDisconnect \/ FinishProbe PROVE TypeOK'
  <2>1. /\ UNCHANGED << hangul, guard, dropping, lock, future, others, answer >>
        /\ \E s \in WorkerSteps : GoTo(Worker, s)
    BY <1>5, Words DEF FinishDisconnect, FinishProbe
  <2>2. call' \in [Call -> Steps] /\ worker' \in WorkerType
    BY <1>0, <2>1, GoToType
  <2>3. \/ UNCHANGED << session, lane, gate, tracked >>
        \/ Forget("cleared") \/ Forget("lost")
        \/ /\ UNCHANGED << session, lane, tracked >>
           /\ \E r : gate' = Recovered([gate EXCEPT !.identity = TRUE], r)
    BY <1>5 DEF FinishDisconnect, FinishProbe
  <2>4. /\ session' \in {"connected", "lost", "cleared"} /\ lane' \in LaneType
        /\ gate' \in GateType /\ tracked' \subseteq Call
    BY <1>0, <2>3, ForgetType, RecoveredType DEF Others
  <2>5. Others'
    BY <1>0, <2>1, <2>2, <2>4 DEF Others
  <2> QED BY <2>4, <2>5, TypeSplitNext
<1> QED BY <1>1, <1>2, <1>3, <1>4, <1>5 DEF WorkerStep, HangulStep

LEMMA NextType ==
    ASSUME IInv, [Next]_vars
    PROVE  TypeOK' /\ Permits'
<1>1. TypeOK /\ lane'.free \in 0..QueueLimit /\ Permits'
  BY NextAccounted DEF Accounted, IInv
<1>2. CASE UNCHANGED vars
  <2>1. lane \in LaneType /\ Others
    BY <1>1, TypeSplit
  <2>2. Others'
    BY <1>2, <2>1 DEF vars, Others
  <2> QED BY <1>1, <1>2, <2>1, <2>2, TypeSplitNext DEF vars
<1> QED BY <1>1, <1>2, CallTypes, ClosingTypes, LaneStepTypes DEF Next, CallStep, WorkerStep

-----------------------------------------------------------------------------
(* Where a call and its future stand.                                      *)

\* A future only moves on: none, queued, running, and an outcome.
FuturesMove ==
    \A c \in Call :
        \/ future'[c] = future[c]
        \/ /\ future[c] = "none" /\ future'[c] = "queued"
           /\ call[c] \in {"acquired", "submitting"} /\ call'[c] = "waiting"
           /\ answer'[c] = answer[c]
        \/ future[c] = "queued" /\ future'[c] \in {"running", "cancelled"}
        \/ /\ future[c] = "running" /\ future'[c] \in Outcome
           /\ worker.at \in {"running", "ending"} /\ worker.item = c
           /\ worker' = [worker EXCEPT !.at = "finished"]

\* A call goes on to submit, or to an answer.
CallsMove ==
    \A c \in Call :
        \/ call'[c] = call[c] /\ answer'[c] = answer[c]
        \/ /\ call[c] = "new" /\ call'[c] = "acquiring" /\ answer'[c] = answer[c]
        \/ /\ call[c] = "acquiring" /\ call'[c] = "acquired" /\ answer'[c] = answer[c]
        \/ /\ call[c] = "acquired" /\ call'[c] = "submitting" /\ answer'[c] = answer[c]
        \/ /\ call[c] \in {"acquired", "submitting"} /\ call'[c] = "waiting"
           /\ answer'[c] = answer[c]
        \/ /\ call[c] \in {"new", "acquiring", "acquired", "submitting"}
           /\ call'[c] \in {"done", "gating"} /\ future'[c] = future[c]
           /\ answer'[c] # "reconcile"
        \/ /\ call[c] = "waiting" /\ call'[c] \in {"done", "gating"}
           /\ answer'[c] \in NotStarted => future'[c] = "cancelled"
           /\ answer'[c] = "reconcile" =>
                 \/ future'[c] = "cancelled"
                 \/ future'[c] = "running" /\ call'[c] = "gating"
        \/ /\ call[c] \in {"new", "acquiring", "waiting"}
           /\ call'[c] \in {"poisoning", "done"} /\ answer'[c] = "lost"
        \/ /\ call[c] = "gating" /\ call'[c] \in {"clearing", "probing"}
           /\ answer'[c] = answer[c]
           /\ gate'.on /\ tracked \subseteq gate'.futures
        \/ /\ call[c] \in {"clearing", "probing"}
           /\ call'[c] = "done" /\ answer'[c] = answer[c]
        \/ /\ call[c] \in {"poisoning", "cancelling"} /\ answer'[c] = answer[c]
           /\ \/ call'[c] = "done"
              \/ call'[c] = "cancelling" /\ lane'.closed

LEMMA StagedMoves ==
    ASSUME Staged, FuturesMove, CallsMove
    PROVE  Staged'
<1> SUFFICES ASSUME NEW c \in Call
             PROVE  /\ call'[c] \in {"new", "acquiring", "acquired", "submitting"} =>
                          future'[c] = "none"
                    /\ answer'[c] \in NotStarted =>
                          /\ call'[c] \in {"gating", "clearing", "probing", "done"}
                          /\ future'[c] \in {"none", "cancelled"}
                    /\ answer'[c] = "reconcile" => future'[c] \notin {"none", "queued"}
                    /\ call'[c] \in {"poisoning", "cancelling"} => answer'[c] = "lost"
  BY DEF Staged
<1> QED BY DEF Staged, FuturesMove, CallsMove, NotStarted, Outcome

\* What the futures of the others do while call c changes its own.
LEMMA OneFuture ==
    ASSUME TypeOK, NEW c \in Call, NEW s, future' = [future EXCEPT ![c] = s]
    PROVE  future'[c] = s /\ \A d \in Call \ {c} : future'[d] = future[d]
BY DEF TypeOK

LEMMA OneCall ==
    ASSUME TypeOK, NEW c \in Call, NEW s, call' = [call EXCEPT ![c] = s]
    PROVE  call'[c] = s /\ \A d \in Call \ {c} : call'[d] = call[d]
BY DEF TypeOK

LEMMA OneAnswer ==
    ASSUME TypeOK, NEW c \in Call, NEW a, answer' = [answer EXCEPT ![c] = a]
    PROVE  answer'[c] = a /\ \A d \in Call \ {c} : answer'[d] = answer[d]
BY DEF TypeOK

LEMMA EnqueueMoves ==
    ASSUME IInv, NEW c \in Call, call[c] \in {"acquired", "submitting"}, Enqueue(c)
    PROVE  FuturesMove /\ CallsMove
<1>0. TypeOK /\ future[c] = "none"
  BY DEF IInv, Staged
<1>1. CASE lane.closed
  <2>1. /\ call' = [call EXCEPT ![c] = "done"] /\ answer' = [answer EXCEPT ![c] = "unavailable"]
        /\ future' = future
    BY <1>1 DEF Enqueue, Leave
  <2>2. call'[c] = "done" /\ \A d \in Call \ {c} : call'[d] = call[d]
    BY <1>0, <2>1, OneCall
  <2>3. answer'[c] = "unavailable" /\ \A d \in Call \ {c} : answer'[d] = answer[d]
    BY <1>0, <2>1, OneAnswer
  <2>4. FuturesMove
    BY <2>1 DEF FuturesMove
  <2> QED BY <2>1, <2>2, <2>3, <2>4 DEF CallsMove
<1>2. CASE ~lane.closed
  <2>1. /\ call' = [call EXCEPT ![c] = "waiting"] /\ answer' = answer
        /\ future' = [future EXCEPT ![c] = "queued"]
    BY <1>2 DEF Enqueue
  <2>2. call'[c] = "waiting" /\ \A d \in Call \ {c} : call'[d] = call[d]
    BY <1>0, <2>1, OneCall
  <2>3. future'[c] = "queued" /\ \A d \in Call \ {c} : future'[d] = future[d]
    BY <1>0, <2>1, OneFuture
  <2>4. FuturesMove
    BY <1>0, <2>1, <2>2, <2>3 DEF FuturesMove
  <2> QED BY <2>1, <2>2, <2>4 DEF CallsMove
<1> QED BY <1>1, <1>2

LEMMA CallMoves ==
    ASSUME IInv, NEW c \in Call, CallStep(c), ~Closing(c)
    PROVE  FuturesMove /\ CallsMove
<1>0. TypeOK /\ Mutation \subseteq Call
  BY DEF IInv, Call
<1>1. ASSUME NEW s, NEW a, call' = [call EXCEPT ![c] = s], answer' = [answer EXCEPT ![c] = a],
             UNCHANGED future,
             \/ /\ call[c] \in {"new", "acquiring", "acquired", "submitting"}
                /\ s \in {"done", "gating"} /\ a # "reconcile"
             \/ /\ call[c] = "waiting" /\ s \in {"done", "gating"}
                /\ a \in NotStarted => future[c] = "cancelled"
                /\ a = "reconcile" => future[c] = "running" /\ s = "gating"
             \/ /\ call[c] \in {"new", "acquiring", "waiting"}
                /\ s \in {"poisoning", "done"} /\ a = "lost"
      PROVE  FuturesMove /\ CallsMove
  <2>1. FuturesMove
    BY <1>1 DEF FuturesMove
  <2>2. /\ call'[c] = s /\ answer'[c] = a
        /\ \A d \in Call \ {c} : call'[d] = call[d] /\ answer'[d] = answer[d]
    BY <1>0, <1>1, OneCall, OneAnswer
  <2>3. future'[c] = future[c]
    BY <1>1
  <2> QED BY <1>1, <2>1, <2>2, <2>3 DEF CallsMove
<1>2. ASSUME NEW s, call' = [call EXCEPT ![c] = s], UNCHANGED <<answer, future>>,
             \/ call[c] = "new" /\ s = "acquiring"
             \/ call[c] = "acquiring" /\ s = "acquired"
             \/ call[c] = "acquired" /\ s = "submitting"
             \/ /\ call[c] = "gating" /\ s \in {"clearing", "probing"}
                /\ gate'.on /\ tracked \subseteq gate'.futures
      PROVE  FuturesMove /\ CallsMove
  <2>1. FuturesMove
    BY <1>2 DEF FuturesMove
  <2> QED BY <1>0, <1>2, <2>1, OneCall DEF CallsMove
<1>3. ASSUME Enter(c) PROVE FuturesMove /\ CallsMove
  BY <1>1, <1>2, <1>3 DEF Enter, Leave
<1>4. ASSUME EnterUnconnected(c) \/ QueueDeadline(c) \/ DialogInQueue(c) \/ SubmitRefused(c)
      PROVE FuturesMove /\ CallsMove
  BY <1>1, <1>4 DEF EnterUnconnected, QueueDeadline, DialogInQueue, SubmitRefused, Leave
<1>5. ASSUME ReturnResult(c) \/ ReturnFailure(c) \/ GiveUpRunning(c)
      PROVE FuturesMove /\ CallsMove
  BY <1>1, <1>5 DEF ReturnResult, ReturnFailure, GiveUpRunning, Leave, NotStarted
<1>6. ASSUME EnterAfterExit(c) \/ SeeExit(c) PROVE FuturesMove /\ CallsMove
  BY <1>1, <1>6 DEF EnterAfterExit, SeeExit, NoteExit
<1>7. ASSUME Acquire(c) \/ WaitForLane(c) PROVE FuturesMove /\ CallsMove
  BY <1>2, <1>7 DEF Acquire, WaitForLane, MaySubmit
<1>11. ASSUME SetGate(c) PROVE FuturesMove /\ CallsMove
  <2>1. gate'.on /\ tracked \subseteq gate'.futures
    BY <1>0, <1>11 DEF SetGate, TypeOK
  <2> QED BY <1>2, <1>11, <2>1 DEF SetGate
<1>8. ASSUME Submit(c) \/ SubmitAfterWait(c) PROVE FuturesMove /\ CallsMove
  BY <1>8, EnqueueMoves DEF Submit, MaySubmit, SubmitAfterWait
<1>9. ASSUME GiveUpQueued(c) PROVE FuturesMove /\ CallsMove
  <2>1. /\ call[c] = "waiting" /\ future[c] = "queued"
        /\ future' = [future EXCEPT ![c] = "cancelled"]
        /\ call' = [call EXCEPT ![c] = "done"]
        /\ \E a : answer' = [answer EXCEPT ![c] = a]
    BY <1>9 DEF GiveUpQueued, Leave
  <2>2. call'[c] = "done" /\ \A d \in Call \ {c} : call'[d] = call[d]
    BY <1>0, <2>1, OneCall
  <2>3. future'[c] = "cancelled" /\ \A d \in Call \ {c} : future'[d] = future[d]
    BY <1>0, <2>1, OneFuture
  <2>4. \A d \in Call \ {c} : answer'[d] = answer[d]
    BY <1>0, <2>1, OneAnswer
  <2>5. FuturesMove
    BY <2>1, <2>3 DEF FuturesMove
  <2> QED BY <2>1, <2>2, <2>3, <2>4, <2>5 DEF CallsMove
<1>10. ASSUME CancelOthers(c) PROVE FuturesMove /\ CallsMove
  <2>1. /\ \A m \in Call : \/ future'[m] = future[m]
                           \/ future[m] = "queued" /\ future'[m] = "cancelled"
        /\ call' = [call EXCEPT ![c] = "done"] /\ answer' = answer
        /\ call[c] \in {"clearing", "probing"}
    BY <1>10 DEF CancelOthers
  <2> QED BY <1>0, <2>1, OneCall DEF FuturesMove, CallsMove
<1> QED BY <1>3, <1>4, <1>5, <1>6, <1>7, <1>8, <1>9, <1>10, <1>11
        DEF CallStep

LEMMA ClosingMoves ==
    ASSUME IInv, NEW p \in Call \union {Worker}, Closing(p)
    PROVE  FuturesMove /\ CallsMove
<1>0. TypeOK
  BY DEF IInv
<1>1. ASSUME UNCHANGED << future, answer >>, p = Worker => UNCHANGED call,
             p # Worker =>
               /\ call[p] \in {"poisoning", "cancelling"}
               /\ \/ call' = [call EXCEPT ![p] = "done"]
                  \/ call' = [call EXCEPT ![p] = "cancelling"] /\ lane'.closed
      PROVE  FuturesMove /\ CallsMove
  <2>1. future' = future /\ answer' = answer
    BY <1>1
  <2>2. FuturesMove
    BY <2>1 DEF FuturesMove
  <2>3. CASE p = Worker
    <3>1. call' = call
      BY <1>1, <2>3
    <3>2. CallsMove
      BY <2>1, <3>1 DEF CallsMove
    <3> QED BY <2>2, <3>2
  <2>4. CASE p # Worker
    <3>1. /\ \/ call'[p] = "done"
             \/ call'[p] = "cancelling" /\ lane'.closed
          /\ \A d \in Call \ {p} : call'[d] = call[d]
      BY <1>0, <1>1, <2>4, OneCall
    <3>2. CallsMove
      BY <1>1, <2>1, <2>4, <3>1 DEF CallsMove
    <3> QED BY <2>2, <3>2
  <2> QED BY <2>3, <2>4
<1>2. ASSUME Poison(p) PROVE FuturesMove /\ CallsMove
  <2>1. UNCHANGED << future, answer >> /\ (p # Worker => call[p] = "poisoning")
    BY <1>2 DEF Poison, IsAt
  <2>2. CASE lane.poisoned
    <3>1. GoTo(p, IF p = Worker THEN "idle" ELSE "done")
      BY <1>2, <2>2 DEF Poison
    <3> QED BY <1>1, <2>1, <3>1 DEF GoTo
  <2>3. CASE ~lane.poisoned
    <3>1. GoTo(p, "cancelling") /\ lane' = [lane EXCEPT !.poisoned = TRUE, !.closed = TRUE]
      BY <1>2, <2>3 DEF Poison
    <3>2. lane'.closed
      BY <1>0, <3>1 DEF TypeOK
    <3> QED BY <1>1, <2>1, <3>1, <3>2 DEF GoTo
  <2> QED BY <2>2, <2>3
<1>3. ASSUME CancelNext(p) PROVE FuturesMove /\ CallsMove
  <2> DEFINE c == Head(lane.queue)
  <2>1. /\ UNCHANGED <<call, answer>>
        /\ \/ future' = future
           \/ /\ c \in Call /\ future[c] = "queued"
              /\ future' = [future EXCEPT ![c] = "cancelled"]
    BY <1>3 DEF CancelNext
  <2> HIDE DEF c
  <2> QED BY <1>0, <2>1, OneFuture DEF FuturesMove, CallsMove
<1>4. ASSUME Release(p) PROVE FuturesMove /\ CallsMove
  BY <1>4 DEF Release, FuturesMove, CallsMove
<1>5. ASSUME EndCancel(p) PROVE FuturesMove /\ CallsMove
  <2>1. UNCHANGED << future, answer >> /\ (p # Worker => call[p] = "cancelling")
    BY <1>5 DEF EndCancel, IsAt
  <2>2. /\ p = Worker => UNCHANGED call
        /\ p # Worker => call' = [call EXCEPT ![p] = "done"]
    BY <1>5 DEF EndCancel, GoTo
  <2> QED BY <1>1, <2>1, <2>2
<1> QED BY <1>2, <1>3, <1>4, <1>5 DEF Closing

LEMMA LaneMoves ==
    ASSUME IInv, WorkerStep \/ HangulStep
    PROVE  FuturesMove /\ CallsMove
<1>0. TypeOK /\ WorkerHolds
  BY DEF IInv
<1>1. CASE Closing(Worker)
  BY <1>1, ClosingMoves
<1>2. CASE ~Closing(Worker)
  <2>1. UNCHANGED <<call, answer>>
    BY <1>2 DEF WorkerStep, HangulStep, Take, Untrack, Shutdown, EndDisconnect, Finish,
       FinishDisconnect, FinishProbe, ExitHangul, ConfirmSave, GoTo
  <2>2. ASSUME Take PROVE FuturesMove
    <3> DEFINE item == Head(lane.queue)
    <3>1. \/ future' = future
          \/ /\ item \in Call /\ future[item] = "queued"
             /\ future' = [future EXCEPT ![item] = "running"]
      BY <2>2 DEF Take
    <3> HIDE DEF item
    <3> QED BY <1>0, <3>1, OneFuture DEF FuturesMove
  <2>3. ASSUME EndDisconnect \/ Finish PROVE FuturesMove
    <3>1. \E o \in Outcome : future' = [future EXCEPT ![worker.item] = o]
      BY <2>3 DEF EndDisconnect, Finish, Outcomes, Outcome
    <3>2. worker.item \in Call /\ future[worker.item] = "running"
      BY <1>0, <2>3 DEF WorkerHolds, EndDisconnect, Finish
    <3>3. worker.at \in {"running", "ending"} /\ worker' = [worker EXCEPT !.at = "finished"]
      BY <2>3 DEF EndDisconnect, Finish
    <3>4. /\ future'[worker.item] \in Outcome
          /\ \A d \in Call \ {worker.item} : future'[d] = future[d]
      BY <1>0, <3>1, <3>2, OneFuture
    <3> QED BY <3>2, <3>3, <3>4 DEF FuturesMove
  <2>4. ASSUME Untrack \/ Shutdown \/ FinishDisconnect \/ FinishProbe \/ ExitHangul \/ ConfirmSave
        PROVE  FuturesMove
    BY <2>4 DEF Untrack, Shutdown, FinishDisconnect, FinishProbe, ExitHangul, ConfirmSave,
       FuturesMove
  <2>5. FuturesMove
    BY <1>2, <2>2, <2>3, <2>4 DEF WorkerStep, HangulStep
  <2> QED BY <2>1, <2>5 DEF CallsMove
<1> QED BY <1>1, <1>2

LEMMA NextMoves ==
    ASSUME IInv, [Next]_vars
    PROVE  FuturesMove /\ CallsMove /\ Staged'
<1>1. CASE UNCHANGED vars
  <2>1. \A c \in Call : future'[c] = future[c]
    BY <1>1 DEF vars
  <2>2. FuturesMove
    BY <2>1 DEF FuturesMove
  <2>3. \A c \in Call : call'[c] = call[c] /\ answer'[c] = answer[c]
    BY <1>1 DEF vars
  <2>4. CallsMove
    BY <2>3 DEF CallsMove
  <2> QED BY <2>2, <2>4, StagedMoves DEF IInv
<1>2. FuturesMove /\ CallsMove
  BY <1>1, CallMoves, ClosingMoves, LaneMoves DEF Next, CallStep
<1> QED BY <1>2, StagedMoves DEF IInv

-----------------------------------------------------------------------------
(* The thread of the lane.                                                 *)

\* What the thread works on stays as it is unless the thread itself ends it.
LEMMA HeldStays ==
    ASSUME IInv, FuturesMove, NEW c \in Call, worker'.at # "finished"
    PROVE  /\ future[c] = "running" => future'[c] = "running"
           /\ future[c] \in Outcome => future'[c] = future[c]
<1>1. worker' # [worker EXCEPT !.at = "finished"]
  BY DEF IInv, TypeOK
<1> QED BY <1>1 DEF FuturesMove, Outcome

LEMMA ThreadSame ==
    ASSUME IInv, FuturesMove, worker' = worker
    PROVE  WorkerHolds'
<1>1. WorkerHolds /\ worker \in [at : WorkerSteps, item : Call \union {Probe, None}]
  BY DEF IInv, TypeOK
<1>2. CASE worker.at = "finished"
  <2>1. worker.item \in Call /\ future[worker.item] \in Outcome
    BY <1>1, <1>2 DEF WorkerHolds
  <2>2. future'[worker.item] = future[worker.item]
    BY <2>1 DEF FuturesMove, Outcome
  <2> QED BY <1>2, <2>1, <2>2 DEF WorkerHolds
<1>3. CASE worker.at # "finished"
  <2>1. \A c \in Call : future[c] = "running" => future'[c] = "running"
    BY <1>3, HeldStays
  <2> QED BY <1>1, <1>3, <2>1 DEF WorkerHolds
<1> QED BY <1>2, <1>3

LEMMA ThreadGoes ==
    ASSUME IInv, FuturesMove, NEW s, GoTo(Worker, s),
           \/ s = "idle"
           \/ s \in {"shutting", "cancelling", "ending"} /\ worker.at \in {"running", "shutting"}
           \/ s = "cancelling" /\ worker.at = "poisoning"
           \/ s = "ending" /\ worker.at = "cancelling" /\ worker.item # Probe
           \/ s = "poisoning" /\ worker.at = "probing"
    PROVE  WorkerHolds'
<1>1. WorkerHolds
  BY DEF IInv
<1>2. worker'.at = s /\ (s # "idle" => worker'.item = worker.item)
  BY DEF GoTo
<1>3. worker'.at # "finished"
  BY <1>2
<1>4. \A c \in Call : future[c] = "running" => future'[c] = "running"
  BY <1>3, HeldStays
<1>5. CASE s = "idle"
  BY <1>2, <1>5 DEF WorkerHolds
<1>6. CASE s # "idle"
  <2>1. worker'.item = worker.item
    BY <1>2, <1>6
  <2>2. CASE worker.item = Probe /\ s \in {"cancelling", "poisoning"}
    BY <1>2, <2>1, <2>2 DEF WorkerHolds
  <2>3. CASE ~(worker.item = Probe /\ s \in {"cancelling", "poisoning"})
    <3>1. worker.item \in Call /\ future[worker.item] = "running"
      BY <1>1, <1>6, <2>3 DEF WorkerHolds
    <3>2. future'[worker.item] = "running" /\ s \notin {"probing", "poisoning", "finished"}
      BY <1>1, <1>4, <1>6, <2>3, <3>1, Distinct DEF WorkerHolds
    <3> QED BY <1>2, <2>1, <3>1, <3>2 DEF WorkerHolds
  <2> QED BY <2>2, <2>3
<1> QED BY <1>5, <1>6

LEMMA ClosingThread ==
    ASSUME IInv, FuturesMove, NEW p \in Call \union {Worker}, Closing(p)
    PROVE  WorkerHolds'
<1>1. CASE p # Worker
  <2>1. worker' = worker
    BY <1>1 DEF Closing, Poison, CancelNext, Release, EndCancel, GoTo
  <2> QED BY <2>1, ThreadSame
<1>2. CASE p = Worker
  <2>1. ASSUME Poison(p) PROVE WorkerHolds'
    <3>1. GoTo(Worker, "idle") \/ GoTo(Worker, "cancelling")
      BY <1>2, <2>1 DEF Poison
    <3>2. worker.at = "poisoning"
      BY <1>2, <2>1 DEF Poison, IsAt
    <3> QED BY <3>1, <3>2, ThreadGoes
  <2>2. ASSUME CancelNext(p) \/ Release(p) PROVE WorkerHolds'
    BY <2>2, ThreadSame DEF CancelNext, Release
  <2>3. ASSUME EndCancel(p) PROVE WorkerHolds'
    <3>1. GoTo(Worker, "idle") \/ (GoTo(Worker, "ending") /\ worker.item # Probe)
      BY <1>2, <2>3 DEF EndCancel
    <3>2. worker.at = "cancelling"
      BY <1>2, <2>3 DEF EndCancel, IsAt
    <3> QED BY <3>1, <3>2, ThreadGoes
  <2> QED BY <2>1, <2>2, <2>3 DEF Closing
<1> QED BY <1>1, <1>2

LEMMA LaneThread ==
    ASSUME IInv, FuturesMove, WorkerStep \/ HangulStep
    PROVE  WorkerHolds'
<1>0. TypeOK /\ WorkerHolds
  BY DEF IInv
<1>1. ASSUME Take PROVE WorkerHolds'
  <2> DEFINE item == Head(lane.queue)
  <2>1. \/ worker' = [at |-> "stopped", item |-> None]
        \/ worker' = [at |-> "probing", item |-> Probe]
        \/ /\ item \in Call /\ worker' = [at |-> "running", item |-> item]
           /\ future' = [future EXCEPT ![item] = "running"]
        \/ worker' = worker
    BY <1>1 DEF Take
  <2> HIDE DEF item
  <2>2. CASE worker' = [at |-> "stopped", item |-> None]
    BY <2>2 DEF WorkerHolds
  <2>3. CASE worker' = [at |-> "probing", item |-> Probe]
    BY <2>3 DEF WorkerHolds
  <2>4. CASE /\ item \in Call /\ worker' = [at |-> "running", item |-> item]
             /\ future' = [future EXCEPT ![item] = "running"]
    <3>1. future'[item] = "running"
      BY <1>0, <2>4, OneFuture
    <3>2. worker'.at = "running" /\ worker'.item = item /\ item \in Call
      BY <2>4
    <3> QED BY <3>1, <3>2 DEF WorkerHolds
  <2>5. CASE worker' = worker
    BY <2>5, ThreadSame
  <2> QED BY <2>1, <2>2, <2>3, <2>4, <2>5
<1>2. ASSUME Untrack PROVE WorkerHolds'
  BY <1>2 DEF Untrack, WorkerHolds
<1>3. ASSUME Shutdown PROVE WorkerHolds'
  <2>1. (GoTo(Worker, "ending") \/ GoTo(Worker, "cancelling")) /\ worker.at = "shutting"
    BY <1>3 DEF Shutdown
  <2> QED BY <2>1, ThreadGoes
<1>4. ASSUME EndDisconnect \/ Finish PROVE WorkerHolds'
  <2>1. \E o \in Outcome : future' = [future EXCEPT ![worker.item] = o]
    BY <1>4 DEF EndDisconnect, Finish, Outcomes, Outcome
  <2>2. worker.item \in Call
    BY <1>0, <1>4 DEF WorkerHolds, EndDisconnect, Finish
  <2>3. worker' = [worker EXCEPT !.at = "finished"]
    BY <1>4 DEF EndDisconnect, Finish
  <2>4. future'[worker.item] \in Outcome
    BY <1>0, <2>1, <2>2, OneFuture
  <2>5. worker'.at = "finished" /\ worker'.item = worker.item
    BY <1>0, <2>3 DEF TypeOK
  <2> QED BY <2>2, <2>4, <2>5 DEF WorkerHolds
<1>5. ASSUME FinishDisconnect PROVE WorkerHolds'
  <2>1. (GoTo(Worker, "ending") \/ GoTo(Worker, "shutting")) /\ worker.at = "running"
    BY <1>5 DEF FinishDisconnect
  <2> QED BY <2>1, ThreadGoes
<1>6. ASSUME FinishProbe PROVE WorkerHolds'
  <2>1. (GoTo(Worker, "idle") \/ GoTo(Worker, "poisoning")) /\ worker.at = "probing"
    BY <1>6 DEF FinishProbe
  <2> QED BY <2>1, ThreadGoes
<1>7. ASSUME ExitHangul \/ ConfirmSave PROVE WorkerHolds'
  BY <1>7, ThreadSame DEF ExitHangul, ConfirmSave
<1> QED BY <1>1, <1>2, <1>3, <1>4, <1>5, <1>6, <1>7, ClosingThread DEF WorkerStep, HangulStep

LEMMA NextThread ==
    ASSUME IInv, [Next]_vars
    PROVE  WorkerHolds'
<1>0. FuturesMove
  BY NextMoves
<1>1. CASE UNCHANGED vars
  <2>1. worker' = worker
    BY <1>1 DEF vars
  <2> QED BY <1>0, <2>1, ThreadSame
<1>2. ASSUME NEW c \in Call, CallStep(c) PROVE WorkerHolds'
  <2>1. CASE Closing(c)
    BY <1>0, <2>1, ClosingThread
  <2>2. CASE ~Closing(c)
    <3>1. worker' = worker
      BY <1>2, <2>2 DEF CallStep, EnterUnconnected, Enter, EnterAfterExit, Acquire,
         QueueDeadline, DialogInQueue, SubmitRefused, Submit, WaitForLane, SubmitAfterWait,
         ReturnResult, ReturnFailure, SeeExit, GiveUpQueued, GiveUpRunning, SetGate, CancelOthers
    <3> QED BY <1>0, <3>1, ThreadSame
  <2> QED BY <2>1, <2>2
<1> QED BY <1>0, <1>1, <1>2, LaneThread DEF Next

-----------------------------------------------------------------------------
(* The queue of the lane.                                                  *)

NewlyQueued(c) == future'[c] = "queued" /\ future[c] # "queued"

\* Whoever cancels has closed the lane, and a lane that is closed stays closed.
ClosedMove ==
    /\ lane.closed => lane'.closed
    /\ worker'.at = "cancelling" => worker.at = "cancelling" \/ lane'.closed

LEMMA StillClosed ==
    ASSUME QueueSound, CallsMove, ClosedMove
    PROVE  \A p \in Call \union {Worker} : IsAt(p, "cancelling")' => lane'.closed
<1>1. \A c \in Call : call[c] = "cancelling" => lane.closed
  BY Distinct DEF QueueSound, IsAt
<1>2. worker.at = "cancelling" => lane.closed
  BY DEF QueueSound, IsAt
<1>3. \A c \in Call : call'[c] = "cancelling" => lane'.closed
  BY <1>1 DEF CallsMove, ClosedMove
<1>4. worker'.at = "cancelling" => lane'.closed
  BY <1>2 DEF ClosedMove
<1> QED BY <1>3, <1>4, Distinct DEF IsAt

LEMMA QueueKept ==
    ASSUME QueueSound, CallsMove, ClosedMove, lane'.queue = lane.queue,
           \A c \in Call : ~NewlyQueued(c),
           worker'.at = "stopped" => worker.at = "stopped"
    PROVE  QueueSound'
<1>1. \A x : InQueue(x)' <=> InQueue(x)
  BY DEF InQueue
<1>2. \A c \in Call : future'[c] = "queued" => InQueue(c)'
  BY <1>1 DEF NewlyQueued, QueueSound
<1>3. InQueue(Stop)' => lane'.queue = << Stop >> /\ lane'.closed
  BY <1>1 DEF QueueSound, ClosedMove
<1>4. worker'.at = "stopped" => lane'.closed /\ \A c \in Call : future'[c] # "queued"
  BY DEF QueueSound, ClosedMove, NewlyQueued
<1> QED BY <1>2, <1>3, <1>4, StillClosed DEF QueueSound

LEMMA QueueGrows ==
    ASSUME IInv, CallsMove, ClosedMove, NEW x \in Call \union {Probe},
           lane'.queue = Append(lane.queue, x), ~lane.closed,
           \A c \in Call : NewlyQueued(c) => c = x,
           worker' = worker
    PROVE  QueueSound'
<1>0. QueueSound /\ lane.queue \in Seq(Item)
  BY DEF IInv, TypeOK, Item
<1>1. /\ \A i \in DOMAIN lane.queue : i \in DOMAIN lane'.queue /\ lane'.queue[i] = lane.queue[i]
      /\ InQueue(x)'
      /\ \A i \in DOMAIN lane'.queue : i \in DOMAIN lane.queue \/ lane'.queue[i] = x
  <2> DEFINE q == lane.queue
  <2>1. Append(q, x) = lane'.queue /\ q \in Seq(Item) /\ x \in Item
    BY <1>0 DEF Item
  <2>2. /\ DOMAIN Append(q, x) = 1 .. (Len(q) + 1) /\ DOMAIN q = 1 .. Len(q) /\ Len(q) \in Nat
        /\ \A i \in 1 .. Len(q) : Append(q, x)[i] = q[i]
        /\ Append(q, x)[Len(q) + 1] = x
    BY <2>1
  <2> HIDE DEF q
  <2>3. /\ DOMAIN lane'.queue = 1 .. (Len(q) + 1)
        /\ \A i \in 1 .. Len(q) : lane'.queue[i] = q[i]
        /\ lane'.queue[Len(q) + 1] = x
    BY <2>1, <2>2
  <2>4. Len(q) + 1 \in DOMAIN lane'.queue
    BY <2>2, <2>3
  <2>5. InQueue(x)'
    BY <2>3, <2>4 DEF InQueue
  <2>6. \A i \in DOMAIN lane'.queue : i \in DOMAIN q \/ lane'.queue[i] = x
    BY <2>2, <2>3
  <2>7. \A i \in DOMAIN q : i \in DOMAIN lane'.queue /\ lane'.queue[i] = q[i]
    BY <2>2, <2>3
  <2> QED BY <2>5, <2>6, <2>7 DEF q
<1>2. \A c \in Call : future'[c] = "queued" => InQueue(c)'
  <2>1. \A c \in Call : InQueue(c) => InQueue(c)'
    BY <1>1 DEF InQueue
  <2> QED BY <1>0, <1>1, <2>1 DEF NewlyQueued, QueueSound
<1>3. ~InQueue(Stop)'
  <2>1. ~InQueue(Stop) /\ x # Stop
    BY <1>0, Distinct DEF QueueSound
  <2> QED BY <1>1, <2>1 DEF InQueue
<1>4. worker'.at # "stopped"
  BY <1>0 DEF QueueSound
<1> QED BY <1>0, <1>2, <1>3, <1>4, StillClosed DEF QueueSound

LEMMA QueueDrops ==
    ASSUME IInv, CallsMove, ClosedMove, lane.queue # << >>, lane'.queue = Tail(lane.queue),
           \A c \in Call : ~NewlyQueued(c),
           Head(lane.queue) \in Call => future'[Head(lane.queue)] # "queued",
           worker'.at = "stopped" => worker.at = "stopped" \/ Head(lane.queue) = Stop
    PROVE  QueueSound'
<1>0. QueueSound /\ lane.queue \in Seq(Item)
  BY DEF IInv, TypeOK, Item
<1> DEFINE q == lane.queue
<1>1. /\ DOMAIN q = 1 .. Len(q) /\ Len(q) \in Nat /\ Len(q) > 0
      /\ lane'.queue \in Seq(Item) /\ DOMAIN lane'.queue = 1 .. (Len(q) - 1)
      /\ \A i \in 1 .. (Len(q) - 1) : lane'.queue[i] = q[i + 1]
      /\ Head(q) = q[1]
  BY <1>0
<1> HIDE DEF q
<1>2. ASSUME NEW x, InQueue(x), x # Head(q) PROVE InQueue(x)'
  <2>1. PICK i \in 1 .. Len(q) : q[i] = x
    BY <1>1, <1>2 DEF InQueue, q
  <2>2. i # 1
    BY <1>1, <1>2, <2>1
  <2>3. i - 1 \in 1 .. (Len(q) - 1) /\ (i - 1) + 1 = i
    BY <1>1, <2>1, <2>2
  <2>4. lane'.queue[i - 1] = x
    BY <1>1, <2>1, <2>3
  <2> QED BY <1>1, <2>3, <2>4 DEF InQueue
<1>3. \A c \in Call : future'[c] = "queued" => InQueue(c)'
  <2> SUFFICES ASSUME NEW c \in Call, future'[c] = "queued" PROVE InQueue(c)'
    OBVIOUS
  <2>1. InQueue(c) /\ c # Head(q)
    BY <1>0 DEF NewlyQueued, QueueSound, q
  <2> QED BY <1>2, <2>1
<1>4. ASSUME InQueue(Stop) PROVE DOMAIN lane'.queue = {}
  <2>1. q = << Stop >>
    BY <1>0, <1>4 DEF QueueSound, q
  <2>2. Len(q) = 1
    BY <2>1
  <2> QED BY <1>1, <2>2
<1>5. ~InQueue(Stop)'
  <2>1. CASE InQueue(Stop)
    BY <1>4, <2>1 DEF InQueue
  <2>2. CASE ~InQueue(Stop)
    <3>1. \A i \in 1 .. (Len(q) - 1) : i + 1 \in 1 .. Len(q)
      BY <1>1
    <3>2. \A i \in 1 .. Len(q) : q[i] # Stop
      BY <1>1, <2>2 DEF InQueue, q
    <3> QED BY <1>1, <3>1, <3>2 DEF InQueue
  <2> QED BY <2>1, <2>2
<1>6. ASSUME worker'.at = "stopped" PROVE lane'.closed /\ \A c \in Call : future'[c] # "queued"
  <2>1. CASE worker.at = "stopped"
    BY <1>0, <2>1 DEF QueueSound, ClosedMove, NewlyQueued
  <2>2. CASE Head(q) = Stop
    <3>1. 1 \in DOMAIN q /\ q[1] = Stop
      BY <1>1, <2>2
    <3>2. InQueue(Stop)
      BY <3>1 DEF InQueue, q
    <3>3. lane.closed /\ DOMAIN lane'.queue = {}
      BY <1>0, <1>4, <3>2 DEF QueueSound
    <3>4. \A c \in Call : ~InQueue(c)'
      BY <3>3 DEF InQueue
    <3> QED BY <1>3, <3>3, <3>4 DEF ClosedMove
  <2> QED BY <1>6, <2>1, <2>2 DEF q
<1> QED BY <1>0, <1>3, <1>5, <1>6, StillClosed DEF QueueSound

LEMMA ClosingQueue ==
    ASSUME IInv, FuturesMove, CallsMove, NEW p \in Call \union {Worker}, Closing(p)
    PROVE  QueueSound'
<1>0. TypeOK /\ QueueSound
  BY DEF IInv
<1>1. ASSUME Poison(p) PROVE QueueSound'
  <2>1. \/ UNCHANGED lane /\ GoTo(p, IF p = Worker THEN "idle" ELSE "done")
        \/ /\ lane' = [lane EXCEPT !.poisoned = TRUE, !.closed = TRUE]
           /\ GoTo(p, "cancelling")
    BY <1>1 DEF Poison
  <2>2. lane'.queue = lane.queue /\ (lane.closed => lane'.closed)
    BY <1>0, <2>1 DEF TypeOK
  <2>3. /\ worker'.at = "cancelling" => worker.at = "cancelling" \/ lane'.closed
        /\ worker'.at = "stopped" => worker.at = "stopped"
    <3>1. CASE UNCHANGED lane /\ GoTo(p, IF p = Worker THEN "idle" ELSE "done")
      BY <3>1 DEF GoTo
    <3>2. CASE /\ lane' = [lane EXCEPT !.poisoned = TRUE, !.closed = TRUE]
               /\ GoTo(p, "cancelling")
      <4>1. lane'.closed
        BY <1>0, <3>2 DEF TypeOK
      <4>2. worker' = worker \/ worker'.at = "cancelling"
        BY <3>2 DEF GoTo
      <4> QED BY <4>1, <4>2
    <3> QED BY <2>1, <3>1, <3>2
  <2>4. future' = future
    BY <1>1 DEF Poison
  <2> QED BY <1>0, <2>2, <2>3, <2>4, QueueKept DEF ClosedMove, NewlyQueued
<1>2. ASSUME CancelNext(p) PROVE QueueSound'
  <2> DEFINE c == Head(lane.queue)
             live == c \in Call /\ future[c] = "queued"
  <2>1. /\ lane' = [lane EXCEPT !.queue = Tail(@), !.free = IF live THEN @ + 1 ELSE @]
        /\ future' = IF live THEN [future EXCEPT ![c] = "cancelled"] ELSE future
        /\ worker' = worker /\ lane.queue # << >>
    BY <1>2 DEF CancelNext
  <2>2. lane'.queue = Tail(lane.queue) /\ lane'.closed = lane.closed
    BY <1>0, <2>1 DEF TypeOK
  <2> HIDE DEF c
  <2>3. /\ \A d \in Call : ~NewlyQueued(d)
        /\ c \in Call => future'[c] # "queued"
    BY <1>0, <2>1, OneFuture DEF NewlyQueued
  <2> QED BY <2>1, <2>2, <2>3, QueueDrops DEF ClosedMove, c
<1>3. ASSUME Release(p) PROVE QueueSound'
  <2>1. lane' = lane /\ future' = future /\ worker' = worker
    BY <1>3 DEF Release
  <2> QED BY <1>0, <2>1, QueueKept DEF ClosedMove, NewlyQueued
<1>4. ASSUME EndCancel(p) PROVE QueueSound'
  <2>1. /\ lane' = [lane EXCEPT !.queue = << Stop >>] /\ lane.queue = << >>
        /\ future' = future /\ IsAt(p, "cancelling")
    BY <1>4 DEF EndCancel
  <2>2. lane.closed /\ lane'.closed = lane.closed /\ lane'.queue = << Stop >>
    BY <1>0, <2>1 DEF QueueSound, TypeOK
  <2>3. \A c \in Call : future'[c] # "queued"
    <3>1. lane.queue = << >> /\ DOMAIN lane.queue = {}
      BY <2>1
    <3>2. \A c \in Call : ~InQueue(c)
      BY <3>1 DEF InQueue
    <3> QED BY <1>0, <2>1, <3>2 DEF QueueSound
  <2>4. \A q \in Call \union {Worker} : IsAt(q, "cancelling")' => lane'.closed
    BY <2>2
  <2> QED BY <2>2, <2>3, <2>4 DEF QueueSound
<1> QED BY <1>1, <1>2, <1>3, <1>4 DEF Closing

LEMMA CallQueue ==
    ASSUME IInv, FuturesMove, CallsMove, NEW c \in Call, CallStep(c), ~Closing(c)
    PROVE  QueueSound'
<1>0. TypeOK /\ QueueSound /\ lane.free \in Int
  BY DEF IInv, TypeOK
<1>1. worker' = worker
  BY DEF CallStep, EnterUnconnected, Enter, EnterAfterExit, Acquire,
     QueueDeadline, DialogInQueue, SubmitRefused, Submit, WaitForLane, SubmitAfterWait,
     ReturnResult, ReturnFailure, SeeExit, GiveUpQueued, GiveUpRunning, SetGate, CancelOthers
<1>2. ASSUME lane'.queue = lane.queue, lane'.closed = lane.closed,
             \A d \in Call : ~NewlyQueued(d)
      PROVE  QueueSound'
  BY <1>0, <1>1, <1>2, QueueKept DEF ClosedMove
<1>3. ASSUME EnterUnconnected(c) \/ Enter(c) \/ QueueDeadline(c) \/ DialogInQueue(c)
             \/ ReturnResult(c) \/ ReturnFailure(c) \/ GiveUpRunning(c) \/ WaitForLane(c)
      PROVE  QueueSound'
  <2>1. lane' = lane /\ future' = future
    BY <1>3 DEF EnterUnconnected, Enter, QueueDeadline, DialogInQueue, ReturnResult,
                ReturnFailure, GiveUpRunning, WaitForLane
  <2> QED BY <1>2, <2>1 DEF NewlyQueued
<1>4. ASSUME EnterAfterExit(c) \/ SeeExit(c) \/ SetGate(c) \/ Acquire(c) \/ SubmitRefused(c)
      PROVE  QueueSound'
  <2>1. /\ \/ \E b : lane' = [lane EXCEPT !.registered = b]
           \/ \E f : lane' = [lane EXCEPT !.free = f]
        /\ future' = future
    BY <1>4 DEF EnterAfterExit, SeeExit, NoteExit, Forget, SetGate, Acquire, SubmitRefused
  <2>2. lane'.queue = lane.queue /\ lane'.closed = lane.closed
    BY <1>0, <2>1 DEF TypeOK
  <2> QED BY <1>2, <2>1, <2>2 DEF NewlyQueued
<1>5. ASSUME Submit(c) \/ SubmitAfterWait(c) PROVE QueueSound'
  <2>0. Enqueue(c)
    BY <1>5 DEF Submit, SubmitAfterWait
  <2>1. CASE lane.closed
    <3>1. lane' = [lane EXCEPT !.free = @ + 1] /\ future' = future
      BY <2>0, <2>1 DEF Enqueue
    <3>2. lane'.queue = lane.queue /\ lane'.closed = lane.closed
      BY <1>0, <3>1 DEF TypeOK
    <3> QED BY <1>2, <3>1, <3>2 DEF NewlyQueued
  <2>2. CASE ~lane.closed
    <3>1. /\ lane' = [lane EXCEPT !.queue = Append(@, c)]
          /\ future' = [future EXCEPT ![c] = "queued"]
      BY <2>0, <2>2 DEF Enqueue
    <3>2. lane'.queue = Append(lane.queue, c) /\ lane'.closed = lane.closed
      BY <1>0, <3>1 DEF TypeOK
    <3>3. \A d \in Call : NewlyQueued(d) => d = c
      BY <1>0, <3>1, OneFuture DEF NewlyQueued
    <3> QED BY <1>1, <2>2, <3>2, <3>3, QueueGrows DEF ClosedMove
  <2> QED BY <2>1, <2>2
<1>6. ASSUME GiveUpQueued(c) PROVE QueueSound'
  <2>1. /\ \E f : lane' = [lane EXCEPT !.free = f]
        /\ future' = [future EXCEPT ![c] = "cancelled"]
    BY <1>6 DEF GiveUpQueued
  <2>2. lane'.queue = lane.queue /\ lane'.closed = lane.closed
    BY <1>0, <2>1 DEF TypeOK
  <2>3. \A d \in Call : ~NewlyQueued(d)
    BY <1>0, <2>1, OneFuture DEF NewlyQueued
  <2> QED BY <1>2, <2>2, <2>3
<1>7. ASSUME CancelOthers(c) PROVE QueueSound'
  <2>1. /\ \A d \in Call : future'[d] \in {future[d], "cancelled"}
        /\ \/ \E f : lane' = [lane EXCEPT !.free = f, !.queue = lane.queue]
           \/ /\ \E f : lane' = [lane EXCEPT !.free = f, !.queue = Append(lane.queue, Probe)]
              /\ ~lane.closed
    BY <1>7 DEF CancelOthers
  <2>2. \A d \in Call : ~NewlyQueued(d)
    BY <2>1 DEF NewlyQueued
  <2>3. /\ lane'.closed = lane.closed
        /\ \/ lane'.queue = lane.queue
           \/ lane'.queue = Append(lane.queue, Probe) /\ ~lane.closed
    BY <1>0, <2>1 DEF TypeOK
  <2>4. CASE lane'.queue = lane.queue
    BY <1>2, <2>2, <2>3, <2>4
  <2>5. CASE lane'.queue = Append(lane.queue, Probe) /\ ~lane.closed
    <3>1. Probe \in Call \union {Probe}
      OBVIOUS
    <3> QED BY <1>1, <2>2, <2>3, <2>5, <3>1, QueueGrows DEF ClosedMove
  <2> QED BY <2>3, <2>4, <2>5
<1> QED BY <1>3, <1>4, <1>5, <1>6, <1>7 DEF CallStep

LEMMA LaneQueue ==
    ASSUME IInv, FuturesMove, CallsMove, WorkerStep \/ HangulStep
    PROVE  QueueSound'
<1>0. TypeOK /\ QueueSound
  BY DEF IInv
<1>1. ASSUME Take PROVE QueueSound'
  <2> DEFINE item == Head(lane.queue)
             runs == item \in Call /\ future[item] = "queued"
  <2>1. /\ lane' = [lane EXCEPT !.queue = Tail(@)] /\ lane.queue # << >>
        /\ future' = IF runs THEN [future EXCEPT ![item] = "running"] ELSE future
        /\ worker.at = "idle"
    BY <1>1 DEF Take
  <2>2. lane'.queue = Tail(lane.queue) /\ lane'.closed = lane.closed
    BY <1>0, <2>1 DEF TypeOK
  <2>3. \/ item = Stop /\ worker'.at = "stopped"
        \/ worker'.at \in {"probing", "running"} \/ worker' = worker
    BY <1>1 DEF Take
  <2> HIDE DEF item
  <2>4. /\ \A d \in Call : ~NewlyQueued(d)
        /\ item \in Call => future'[item] # "queued"
    <3>1. CASE runs
      <4>1. /\ future'[item] = "running"
            /\ \A d \in Call \ {item} : future'[d] = future[d]
        BY <1>0, <2>1, <3>1, OneFuture
      <4> QED BY <4>1 DEF NewlyQueued
    <3>2. CASE ~runs
      BY <2>1, <3>2 DEF NewlyQueued
    <3> QED BY <3>1, <3>2
  <2>5. worker'.at = "stopped" => item = Stop
    BY <2>1, <2>3
  <2>6. worker'.at # "cancelling"
    BY <2>1, <2>3
  <2> QED BY <2>1, <2>2, <2>4, <2>5, <2>6, QueueDrops DEF ClosedMove, item
<1>2. ASSUME lane'.queue = lane.queue, lane.closed => lane'.closed,
             \A d \in Call : ~NewlyQueued(d),
             worker'.at = "cancelling" => worker.at = "cancelling" \/ lane'.closed,
             worker'.at = "stopped" => worker.at = "stopped"
      PROVE  QueueSound'
  BY <1>0, <1>2, QueueKept DEF ClosedMove
<1>3. ASSUME Untrack \/ ExitHangul \/ ConfirmSave PROVE QueueSound'
  <2>1. lane' = lane /\ future' = future
    BY <1>3 DEF Untrack, ExitHangul, ConfirmSave
  <2>2. worker' = worker \/ worker'.at = "idle"
    <3>1. Untrack => worker' = [at |-> "idle", item |-> None]
      BY DEF Untrack
    <3>2. ExitHangul \/ ConfirmSave => worker' = worker
      BY DEF ExitHangul, ConfirmSave
    <3> QED BY <1>3, <3>1, <3>2
  <2> QED BY <1>2, <2>1, <2>2 DEF NewlyQueued
<1>4. ASSUME Shutdown PROVE QueueSound'
  <2>1. CASE lane.closed
    <3>1. lane' = lane /\ future' = future /\ worker'.at = "ending"
      BY <1>4, <2>1 DEF Shutdown, GoTo
    <3> QED BY <1>2, <3>1 DEF NewlyQueued
  <2>2. CASE ~lane.closed
    <3>1. /\ lane' = [lane EXCEPT !.closed = TRUE] /\ future' = future
          /\ worker'.at = "cancelling"
      BY <1>4, <2>2 DEF Shutdown, GoTo
    <3>2. lane'.queue = lane.queue /\ lane'.closed
      BY <1>0, <3>1 DEF TypeOK
    <3> QED BY <1>2, <3>1, <3>2 DEF NewlyQueued
  <2> QED BY <2>1, <2>2
<1>5. ASSUME EndDisconnect \/ Finish PROVE QueueSound'
  <2>1. \E o \in Outcome : future' = [future EXCEPT ![worker.item] = o]
    BY <1>5 DEF EndDisconnect, Finish, Outcomes, Outcome
  <2>2. worker.item \in Call
    BY <1>5 DEF IInv, WorkerHolds, EndDisconnect, Finish
  <2>3. worker' = [worker EXCEPT !.at = "finished"] /\ \E f : lane' = [lane EXCEPT !.free = f]
    BY <1>5 DEF EndDisconnect, Finish
  <2>4. \A d \in Call : ~NewlyQueued(d)
    BY <1>0, <2>1, <2>2, OneFuture DEF NewlyQueued, Outcome
  <2>5. /\ worker'.at = "finished" /\ lane'.queue = lane.queue /\ lane'.closed = lane.closed
    BY <1>0, <2>3 DEF TypeOK
  <2> QED BY <1>2, <2>4, <2>5
<1>6. ASSUME FinishDisconnect \/ FinishProbe PROVE QueueSound'
  <2>1. future' = future /\ (lane' = lane \/ lane' = [lane EXCEPT !.registered = FALSE])
    BY <1>6 DEF FinishDisconnect, FinishProbe, Forget
  <2>2. \E s \in {"shutting", "ending", "idle", "poisoning"} : GoTo(Worker, s)
    BY <1>6 DEF FinishDisconnect, FinishProbe
  <2>3. worker'.at \notin {"cancelling", "stopped"}
    BY <2>2 DEF GoTo
  <2>4. lane'.queue = lane.queue /\ lane'.closed = lane.closed
    BY <1>0, <2>1 DEF TypeOK
  <2> QED BY <1>2, <2>1, <2>3, <2>4 DEF NewlyQueued
<1> QED BY <1>1, <1>3, <1>4, <1>5, <1>6, ClosingQueue DEF WorkerStep, HangulStep

LEMMA NextQueue ==
    ASSUME IInv, [Next]_vars
    PROVE  QueueSound'
<1>0. FuturesMove /\ CallsMove
  BY NextMoves
<1>1. CASE UNCHANGED vars
  <2>1. lane' = lane /\ future' = future /\ worker' = worker
    BY <1>1 DEF vars
  <2> QED BY <1>0, <2>1, QueueKept DEF IInv, ClosedMove, NewlyQueued
<1> QED BY <1>0, <1>1, CallQueue, ClosingQueue, LaneQueue DEF Next

-----------------------------------------------------------------------------
(* The futures that the bridge knows, and the gate that waits for them.    *)

\* A session never comes back, and as long as it lasts a future is tracked from its
\* submission to its end.
TrackedMove ==
    session' = "connected" =>
        /\ session = "connected"
        /\ \A c \in Call : future'[c] \in {"queued", "running"} =>
              /\ c \in tracked => c \in tracked'
              /\ future[c] = "none" => c \in tracked'

DroppingMove == dropping' \in {dropping, None} \/ future'[dropping'] = "cancelled"

\* The gate goes on waiting for what still runs.
GateMove ==
    session' = "connected" =>
        \A m \in Call : future[m] = "running" /\ gate.on /\ m \in gate.futures =>
            gate'.on /\ m \in gate'.futures

Books == TrackedMove /\ DroppingMove /\ GateMove

LEMMA TracksMove ==
    ASSUME IInv, FuturesMove, Books
    PROVE  Tracks'
<1>0. /\ Tracks /\ dropping \in Call \union {None}
  BY DEF IInv, TypeOK
<1>1. dropping' # None => future'[dropping'] = "cancelled"
  BY <1>0 DEF Books, DroppingMove, Tracks, FuturesMove
<1>2. ASSUME session' = "connected", NEW c \in Call, future'[c] \in {"queued", "running"}
      PROVE  c \in tracked'
  <2>1. session = "connected" /\ (future[c] \in {"queued", "running"} \/ future[c] = "none")
    BY <1>2 DEF Books, TrackedMove, FuturesMove
  <2> QED BY <1>0, <1>2, <2>1 DEF Books, TrackedMove, Tracks
<1> QED BY <1>1, <1>2 DEF Tracks

LEMMA GatedMoves ==
    ASSUME IInv, FuturesMove, CallsMove, Books
    PROVE  Gated'
<1>0. Gated /\ Staged /\ Tracks /\ Mutation \subseteq Call
  BY DEF IInv, Call
<1> SUFFICES ASSUME NEW m \in Mutation, session' = "connected", answer'[m] = "reconcile",
                    future'[m] = "running", call'[m] \in {"clearing", "probing", "done"}
             PROVE  gate'.on /\ m \in gate'.futures
  BY DEF Gated
<1>1. m \in Call /\ session = "connected"
  BY <1>0 DEF Books, TrackedMove
<1>2. CASE call[m] \in {"clearing", "probing", "done"} /\ answer[m] = "reconcile"
  <2>1. future[m] = "running"
    BY <1>0, <1>1, <1>2 DEF FuturesMove, Staged, Outcome
  <2>2. gate.on /\ m \in gate.futures
    BY <1>0, <1>1, <1>2, <2>1 DEF Gated
  <2> QED BY <1>1, <2>1, <2>2 DEF Books, GateMove
<1>3. CASE ~(call[m] \in {"clearing", "probing", "done"} /\ answer[m] = "reconcile")
  <2>1. answer[m] = "reconcile" => call[m] \notin {"poisoning", "cancelling"}
    BY <1>0, <1>1 DEF Staged
  <2>2. call[m] = "gating" /\ answer[m] = "reconcile" /\ gate'.on /\ tracked \subseteq gate'.futures
    BY <1>1, <1>3, <2>1 DEF CallsMove
  <2>3. future[m] = "running"
    BY <1>0, <1>1, <2>2 DEF FuturesMove, Staged, Outcome
  <2>4. m \in tracked
    BY <1>0, <1>1, <2>3 DEF Tracks
  <2> QED BY <2>2, <2>4
<1> QED BY <1>2, <1>3

\* A gate that waits for what runs is not lifted.
LEMMA GateStays ==
    ASSUME NEW g, NEW r, NEW m \in g.futures, future[m] = "running"
    PROVE  Recovered(g, r) = g
<1>1. ~IsDone(m) /\ g.futures # {}
  BY DEF IsDone, Outcome
<1>2. ~IsLifted(g, r)
  BY <1>1 DEF IsLifted
<1> QED BY <1>2 DEF Recovered

LEMMA RecoveredGate ==
    ASSUME IInv, NEW r,
           \/ gate' = Recovered(gate, r)
           \/ gate' = Recovered([gate EXCEPT !.identity = TRUE], r)
           \/ gate' = Recovered([gate EXCEPT !.outcome = TRUE], r)
    PROVE  GateMove
<1> SUFFICES ASSUME NEW m \in Call, future[m] = "running", gate.on, m \in gate.futures
             PROVE  gate'.on /\ m \in gate'.futures
  BY DEF GateMove
<1>0. gate \in GateType
  BY Parts DEF IInv
<1>1. ASSUME NEW g, g.on, m \in g.futures, gate' = Recovered(g, r)
      PROVE  gate'.on /\ m \in gate'.futures
  <2>1. gate' = g
    BY <1>1, GateStays
  <2> QED BY <1>1, <2>1
<1>2. /\ [gate EXCEPT !.identity = TRUE].on /\ [gate EXCEPT !.identity = TRUE].futures = gate.futures
      /\ [gate EXCEPT !.outcome = TRUE].on /\ [gate EXCEPT !.outcome = TRUE].futures = gate.futures
  BY <1>0 DEF GateType
<1> QED BY <1>1, <1>2

LEMMA ForgetBooks ==
    ASSUME NEW s \in {"lost", "cleared"}, Forget(s), dropping' = dropping
    PROVE  Books
<1>1. session' # "connected"
  BY DEF Forget
<1> QED BY <1>1 DEF Books, TrackedMove, DroppingMove, GateMove

LEMMA EnqueueBooks ==
    ASSUME IInv, FuturesMove, NEW c \in Call, Enqueue(c), UNCHANGED << session, dropping, gate >>
    PROVE  Books
<1>0. TypeOK
  BY DEF IInv
<1>1. DroppingMove /\ GateMove
  BY DEF DroppingMove, GateMove
<1>2. TrackedMove
  <2>1. CASE lane.closed
    <3>1. tracked' = tracked /\ future' = future
      BY <2>1 DEF Enqueue
    <3> QED BY <3>1 DEF TrackedMove
  <2>2. CASE ~lane.closed
    <3>1. tracked' = tracked \union {c} /\ future' = [future EXCEPT ![c] = "queued"]
      BY <2>2 DEF Enqueue
    <3>2. \A d \in Call \ {c} : future'[d] = future[d]
      BY <1>0, <3>1, OneFuture
    <3> QED BY <3>1, <3>2 DEF TrackedMove
  <2> QED BY <2>1, <2>2
<1> QED BY <1>1, <1>2 DEF Books

\* Only what has ended is not tracked any longer.
LEMMA UntrackBooks ==
    ASSUME NEW gone, tracked' = tracked \ gone, UNCHANGED << session, gate >>, DroppingMove,
           \A c \in gone : future'[c] \notin {"queued", "running"},
           \A c \in Call : future[c] = "none" => future'[c] = "none"
    PROVE  Books
<1>1. TrackedMove
  BY DEF TrackedMove
<1>2. GateMove
  BY DEF GateMove
<1> QED BY <1>1, <1>2 DEF Books

LEMMA CallBooks ==
    ASSUME IInv, FuturesMove, NEW c \in Call, CallStep(c), ~Closing(c)
    PROVE  Books
<1>0. TypeOK
  BY DEF IInv
<1>1. ASSUME EnterUnconnected(c) \/ Enter(c) \/ QueueDeadline(c) \/ DialogInQueue(c)
             \/ ReturnResult(c) \/ ReturnFailure(c) \/ GiveUpRunning(c) \/ WaitForLane(c)
             \/ Acquire(c) \/ SubmitRefused(c)
      PROVE  Books
  <2>1. UNCHANGED << session, tracked, future, dropping >>
    BY <1>1 DEF EnterUnconnected, Enter, QueueDeadline, DialogInQueue, ReturnResult,
                ReturnFailure, GiveUpRunning, WaitForLane, Acquire, SubmitRefused
  <2>2. \/ gate' = gate
        \/ \E r : \/ gate' = Recovered(gate, r)
                  \/ gate' = Recovered([gate EXCEPT !.identity = TRUE], r)
    BY <1>1 DEF EnterUnconnected, Enter, QueueDeadline, DialogInQueue, ReturnResult,
                ReturnFailure, GiveUpRunning, WaitForLane, Acquire, SubmitRefused
  <2>3. GateMove
    <3>1. CASE gate' = gate
      BY <3>1 DEF GateMove
    <3>2. CASE gate' # gate
      BY <2>2, <3>2, RecoveredGate
    <3> QED BY <3>1, <3>2
  <2>4. TrackedMove /\ DroppingMove
    BY <2>1 DEF TrackedMove, DroppingMove
  <2> QED BY <2>3, <2>4 DEF Books
<1>2. ASSUME EnterAfterExit(c) \/ SeeExit(c) PROVE Books
  BY <1>2, ForgetBooks DEF EnterAfterExit, SeeExit, NoteExit
<1>3. ASSUME Submit(c) \/ SubmitAfterWait(c) PROVE Books
  BY <1>3, EnqueueBooks DEF Submit, SubmitAfterWait
<1>4. ASSUME GiveUpQueued(c) PROVE Books
  <2>1. /\ future' = [future EXCEPT ![c] = "cancelled"] /\ tracked' = tracked \ {c}
        /\ UNCHANGED << session, gate, dropping >> /\ future[c] = "queued"
    BY <1>4 DEF GiveUpQueued
  <2>2. future'[c] = "cancelled" /\ \A d \in Call \ {c} : future'[d] = future[d]
    BY <1>0, <2>1, OneFuture
  <2>3. DroppingMove /\ \A d \in Call : future[d] = "none" => future'[d] = "none"
    BY <2>1, <2>2 DEF DroppingMove
  <2> QED BY <2>1, <2>2, <2>3, UntrackBooks
<1>5. ASSUME SetGate(c) PROVE Books
  <2>1. UNCHANGED << session, tracked, future, dropping >>
    BY <1>5 DEF SetGate
  <2>2. gate'.on /\ gate.futures \subseteq gate'.futures
    BY <1>0, <1>5 DEF SetGate, TypeOK
  <2>3. GateMove
    BY <2>2 DEF GateMove
  <2>4. TrackedMove /\ DroppingMove
    BY <2>1 DEF TrackedMove, DroppingMove
  <2> QED BY <2>3, <2>4 DEF Books
<1>6. ASSUME CancelOthers(c) PROVE Books
  <2> DEFINE late == {m \in others[c] : future[m] = "queued"}
  <2>1. /\ future' = [m \in Call |-> IF m \in late THEN "cancelled" ELSE future[m]]
        /\ tracked' = tracked \ late
        /\ UNCHANGED << session, gate, dropping >>
    BY <1>6 DEF CancelOthers
  <2>2. late \subseteq Call /\ \A m \in late : future[m] = "queued"
    BY <1>0 DEF TypeOK, Call
  <2> HIDE DEF late
  <2>3. /\ \A m \in late : future'[m] = "cancelled"
        /\ \A d \in Call : future[d] = "none" => future'[d] = "none"
    BY <2>1, <2>2
  <2>4. DroppingMove
    BY <2>1 DEF DroppingMove
  <2> QED BY <2>1, <2>3, <2>4, UntrackBooks
<1> QED BY <1>1, <1>2, <1>3, <1>4, <1>5, <1>6 DEF CallStep

LEMMA ClosingBooks ==
    ASSUME IInv, FuturesMove, NEW p \in Call \union {Worker}, Closing(p)
    PROVE  Books
<1>0. TypeOK /\ Tracks
  BY DEF IInv
<1>1. ASSUME Poison(p) \/ EndCancel(p) PROVE Books
  <2>1. UNCHANGED << session, tracked, future, dropping, gate >>
    BY <1>1 DEF Poison, EndCancel
  <2> QED BY <2>1 DEF Books, TrackedMove, DroppingMove, GateMove
<1>2. ASSUME CancelNext(p) PROVE Books
  <2> DEFINE c == Head(lane.queue)
             live == c \in Call /\ future[c] = "queued"
  <2>1. /\ future' = IF live THEN [future EXCEPT ![c] = "cancelled"] ELSE future
        /\ dropping' = IF live THEN c ELSE None
        /\ UNCHANGED << session, tracked, gate >>
    BY <1>2 DEF CancelNext
  <2> HIDE DEF c
  <2>2. CASE live
    <3>1. future'[c] = "cancelled" /\ \A d \in Call \ {c} : future'[d] = future[d]
      BY <1>0, <2>1, <2>2, OneFuture
    <3> QED BY <2>1, <2>2, <3>1 DEF Books, TrackedMove, DroppingMove, GateMove
  <2>3. CASE ~live
    BY <2>1, <2>3 DEF Books, TrackedMove, DroppingMove, GateMove
  <2> QED BY <2>2, <2>3
<1>3. ASSUME Release(p) PROVE Books
  <2>1. /\ tracked' = tracked \ {dropping} /\ dropping' = None /\ dropping # None
        /\ UNCHANGED << session, gate, future >>
    BY <1>3 DEF Release
  <2>2. future'[dropping] = "cancelled"
    BY <1>0, <2>1 DEF Tracks
  <2>3. DroppingMove
    BY <2>1 DEF DroppingMove
  <2>4. PICK gone : gone = {dropping}
    OBVIOUS
  <2>5. /\ tracked' = tracked \ gone
        /\ \A d \in gone : future'[d] \notin {"queued", "running"}
        /\ \A d \in Call : future[d] = "none" => future'[d] = "none"
    BY <2>1, <2>2, <2>4
  <2> QED BY <2>1, <2>3, <2>5, UntrackBooks
<1> QED BY <1>1, <1>2, <1>3 DEF Closing

LEMMA LaneBooks ==
    ASSUME IInv, FuturesMove, WorkerStep \/ HangulStep
    PROVE  Books
<1>0. TypeOK /\ WorkerHolds
  BY DEF IInv
<1>1. ASSUME Take PROVE Books
  <2> DEFINE item == Head(lane.queue)
             runs == item \in Call /\ future[item] = "queued"
  <2>1. /\ future' = IF runs THEN [future EXCEPT ![item] = "running"] ELSE future
        /\ UNCHANGED << session, tracked, gate, dropping >>
    BY <1>1 DEF Take
  <2> HIDE DEF item
  <2>2. CASE runs
    <3>1. future'[item] = "running" /\ \A d \in Call \ {item} : future'[d] = future[d]
      BY <1>0, <2>1, <2>2, OneFuture
    <3> QED BY <2>1, <2>2, <3>1 DEF Books, TrackedMove, DroppingMove, GateMove
  <2>3. CASE ~runs
    BY <2>1, <2>3 DEF Books, TrackedMove, DroppingMove, GateMove
  <2> QED BY <2>2, <2>3
<1>2. ASSUME Untrack PROVE Books
  <2>1. /\ tracked' = tracked \ {worker.item}
        /\ UNCHANGED << session, gate, future, dropping >>
    BY <1>2 DEF Untrack
  <2>2. future'[worker.item] \in Outcome
    BY <1>0, <1>2, <2>1 DEF Untrack, WorkerHolds
  <2>3. DroppingMove
    BY <2>1 DEF DroppingMove
  <2>4. PICK gone : gone = {worker.item}
    OBVIOUS
  <2>5. /\ tracked' = tracked \ gone
        /\ \A d \in gone : future'[d] \notin {"queued", "running"}
        /\ \A d \in Call : future[d] = "none" => future'[d] = "none"
    BY <2>1, <2>2, <2>4 DEF Outcome
  <2> QED BY <2>1, <2>3, <2>5, UntrackBooks
<1>3. ASSUME Shutdown \/ ExitHangul PROVE Books
  <2>1. UNCHANGED << session, tracked, future, dropping, gate >>
    BY <1>3 DEF Shutdown, ExitHangul
  <2> QED BY <2>1 DEF Books, TrackedMove, DroppingMove, GateMove
<1>4. ASSUME EndDisconnect \/ Finish PROVE Books
  <2>1. /\ \E o \in Outcome : future' = [future EXCEPT ![worker.item] = o]
        /\ UNCHANGED << session, tracked, dropping, gate >>
    BY <1>4 DEF EndDisconnect, Finish, Outcomes, Outcome
  <2>2. worker.item \in Call /\ future[worker.item] = "running"
    BY <1>0, <1>4 DEF WorkerHolds, EndDisconnect, Finish
  <2>3. \A d \in Call \ {worker.item} : future'[d] = future[d]
    BY <1>0, <2>1, <2>2, OneFuture
  <2> QED BY <2>1, <2>2, <2>3 DEF Books, TrackedMove, DroppingMove, GateMove
<1>5. ASSUME UNCHANGED << session, tracked, future, dropping >>, GateMove PROVE Books
  BY <1>5 DEF Books, TrackedMove, DroppingMove
<1>6. ASSUME FinishDisconnect PROVE Books
  <2>1. UNCHANGED << future, dropping >>
    BY <1>6 DEF FinishDisconnect
  <2>2. Forget("cleared") \/ UNCHANGED << session, gate, tracked >>
    BY <1>6 DEF FinishDisconnect
  <2>3. CASE Forget("cleared")
    BY <2>1, <2>3, ForgetBooks
  <2>4. CASE UNCHANGED << session, gate, tracked >>
    BY <1>5, <2>1, <2>4 DEF GateMove
  <2> QED BY <2>2, <2>3, <2>4
<1>7. ASSUME FinishProbe PROVE Books
  <2>1. UNCHANGED << future, dropping >>
    BY <1>7 DEF FinishProbe
  <2>2. \/ Forget("lost") \/ UNCHANGED << session, gate, tracked >>
        \/ /\ UNCHANGED << session, tracked >>
           /\ \E r : gate' = Recovered([gate EXCEPT !.identity = TRUE], r)
    BY <1>7 DEF FinishProbe
  <2>3. CASE Forget("lost")
    BY <2>1, <2>3, ForgetBooks
  <2>4. CASE UNCHANGED << session, gate, tracked >>
    BY <1>5, <2>1, <2>4 DEF GateMove
  <2>5. CASE /\ UNCHANGED << session, tracked >>
             /\ \E r : gate' = Recovered([gate EXCEPT !.identity = TRUE], r)
    <3>1. GateMove
      BY <2>5, RecoveredGate
    <3> QED BY <1>5, <2>1, <2>5, <3>1
  <2> QED BY <2>2, <2>3, <2>4, <2>5
<1>8. ASSUME ConfirmSave PROVE Books
  <2>1. UNCHANGED << session, tracked, future, dropping >>
    BY <1>8 DEF ConfirmSave
  <2>2. GateMove
    BY <1>8, RecoveredGate DEF ConfirmSave
  <2> QED BY <1>5, <2>1, <2>2
<1> QED BY <1>1, <1>2, <1>3, <1>4, <1>6, <1>7, <1>8, ClosingBooks DEF WorkerStep, HangulStep

LEMMA NextBooks ==
    ASSUME IInv, [Next]_vars
    PROVE  Tracks' /\ Gated'
<1>0. FuturesMove /\ CallsMove
  BY NextMoves
<1>1. Books
  <2>1. CASE UNCHANGED vars
    <3>1. UNCHANGED << session, tracked, future, dropping, gate >>
      BY <2>1 DEF vars
    <3> QED BY <3>1 DEF Books, TrackedMove, DroppingMove, GateMove
  <2> QED BY <1>0, <2>1, CallBooks, ClosingBooks, LaneBooks DEF Next
<1> QED BY <1>0, <1>1, TracksMove, GatedMoves

-----------------------------------------------------------------------------
(* The invariant.                                                          *)

LEMMA InitInv == Init => IInv
<1> SUFFICES ASSUME Init PROVE IInv
  OBVIOUS
<1>1. TypeOK
  <2>1. lane \in LaneType
    <3>1. << >> \in Seq(Item) /\ QueueLimit \in 0..QueueLimit
      BY LimitAssumption
    <3> QED BY <3>1 DEF Init, LaneType
  <2>2. Open \in GateType
    BY DEF Open, GateType
  <2>3. worker \in WorkerType
    BY Words DEF Init, WorkerType
  <2>4. Others
    BY <2>2, <2>3, Words DEF Init, Others
  <2> QED BY <2>1, <2>4, TypeSplit
<1>2. Permits
  <2>1. Holders = {}
    BY DEF Init, Holders, Holds
  <2>2. IsFiniteSet({}) /\ Cardinality({}) = 0
    BY FS_EmptySet
  <2>3. lane.free = QueueLimit
    BY DEF Init
  <2> QED BY <2>1, <2>2, <2>3, LimitAssumption DEF Permits
<1>3. Staged /\ Gated
  <2>1. \A c \in Call : future[c] = "none" /\ answer[c] = "none" /\ call[c] = "new"
    BY DEF Init
  <2>2. Mutation \subseteq Call
    BY DEF Call
  <2> QED BY <2>1, <2>2 DEF Staged, Gated, NotStarted
<1>4. WorkerHolds /\ Tracks
  BY DEF Init, WorkerHolds, Tracks
<1>5. QueueSound
  <2>1. \A x : ~InQueue(x)
    <3>1. lane.queue = << >>
      BY DEF Init
    <3>2. DOMAIN lane.queue = {}
      BY <3>1
    <3> QED BY <3>2 DEF InQueue
  <2>2. \A c \in Call : future[c] # "queued"
    BY DEF Init
  <2>3. worker.at = "idle" /\ \A p \in Call \union {Worker} : ~IsAt(p, "cancelling")
    BY DEF Init, IsAt
  <2> QED BY <2>1, <2>2, <2>3 DEF QueueSound
<1> QED BY <1>1, <1>2, <1>3, <1>4, <1>5 DEF IInv

LEMMA NextInv == IInv /\ [Next]_vars => IInv'
BY NextType, NextMoves, NextThread, NextQueue, NextBooks DEF IInv

\* The invariant of the lane that the theorems below rest on.
THEOREM Inductive == Spec => []IInv
BY InitInv, NextInv, PTL DEF Spec

-----------------------------------------------------------------------------
(* The properties.                                                         *)

\* The permits of the lane are never lost or made up, and nobody waits for a lane that
\* has stopped: through every cancellation, poisoning and shutdown, whoever closes
\* the lane and whatever is being submitted meanwhile.
THEOREM LaneAccountedHolds == Spec => []LaneAccounted
<1>1. IInv => LaneAccounted
  BY DEF IInv, LaneAccounted, Permits, Holders, Holds, PermitsConserved, QueueSound,
     NoStrandedFuture
<1> QED BY <1>1, Inductive, PTL

\* A mutation that was reported as not started never starts, and one that was reported
\* as of unknown outcome holds the gate against further mutations while it runs.
THEOREM OutcomesToldHolds == Spec => []OutcomesTold
<1>1. IInv => RetrySafe
  BY DEF IInv, RetrySafe, Staged, Started, Outcome, Call
<1>2. IInv => UnknownOutcomeGates
  BY DEF IInv, UnknownOutcomeGates, Gated
<1>3. IInv => OutcomesTold
  BY <1>1, <1>2 DEF OutcomesTold
<1> QED BY <1>3, Inductive, PTL

\* A readback that comes back lifts the gate when all that was on the lane has ended
\* in a known way.
THEOREM ReadbackLifts == Spec => ReadbackLiftsGate
<1> DEFINE Lifts(r) ==
      /\ call[r] = "waiting" /\ call'[r] = "done" /\ answer'[r] = "result"
      /\ session = "connected"
      /\ \A c \in gate.futures : IsDone(c)
      /\ gate.futures # {}
      /\ \A c \in gate.futures : future[c] # "unresolved"
      => ~gate'.on
<1>1. ASSUME IInv, [Next]_vars, NEW r \in Read,
             call[r] = "waiting", call'[r] = "done", answer'[r] = "result",
             session = "connected",
             \A c \in gate.futures : IsDone(c), gate.futures # {},
             \A c \in gate.futures : future[c] # "unresolved"
      PROVE  ~gate'.on
  <2>0. TypeOK /\ r \in Call /\ r # Worker
    BY <1>1, Distinct DEF IInv, Call
  <2>1. call' # call
    BY <1>1
  <2>2. PICK c \in Call : CallStep(c)
    <3>1. ASSUME WorkerStep \/ HangulStep PROVE UNCHANGED call
      BY <3>1 DEF WorkerStep, HangulStep, Take, Untrack, Shutdown, EndDisconnect, Closing,
         Poison, CancelNext, Release, EndCancel, Finish, FinishDisconnect, FinishProbe,
         ExitHangul, ConfirmSave, GoTo
    <3>2. UNCHANGED vars => UNCHANGED call
      BY DEF vars
    <3> QED BY <1>1, <2>1, <3>1, <3>2 DEF Next
  <2>3. \E s \in Steps \union {call[c]} : call' = [call EXCEPT ![c] = s]
    <3>1. \/ call' = call
          \/ \E s \in Steps : call' = [call EXCEPT ![c] = s]
      <4>1. CASE Closing(c)
        BY <2>2, <4>1, Distinct DEF Closing, Poison, CancelNext, Release, EndCancel, GoTo, Steps
      <4>2. CASE ~Closing(c)
        BY <2>2, <4>2 DEF CallStep, EnterUnconnected, Enter, EnterAfterExit, Acquire,
           QueueDeadline, DialogInQueue, SubmitRefused, Submit, WaitForLane, SubmitAfterWait,
           ReturnResult, ReturnFailure, SeeExit, GiveUpQueued, GiveUpRunning, SetGate,
           CancelOthers, Enqueue, Leave, NoteExit, Steps
      <4> QED BY <4>1, <4>2
    <3> QED BY <2>0, <3>1 DEF TypeOK
  <2>4. c = r
    BY <1>1, <2>0, <2>3, OneCall
  <2>5. ReturnResult(r)
    <3>1. \A a : answer' = [answer EXCEPT ![r] = a] => a = "result"
      BY <1>1, <2>0, OneAnswer
    <3>2. ~ReturnFailure(r) /\ ~SeeExit(r) /\ ~GiveUpQueued(r)
      BY <3>1 DEF ReturnFailure, SeeExit, NoteExit, GiveUpQueued, Leave
    <3>3. ~GiveUpRunning(r)
      BY <1>1, <2>0, OneCall DEF GiveUpRunning
    <3>4. ~Closing(r)
      <4>1. CASE CancelNext(r) \/ Release(r)
        BY <2>1, <4>1 DEF CancelNext, Release
      <4>2. ~Poison(r) /\ ~EndCancel(r)
        BY <1>1, <2>0 DEF Poison, EndCancel, IsAt
      <4> QED BY <2>1, <4>1, <4>2 DEF Closing
    <3> QED BY <1>1, <2>2, <2>4, <3>2, <3>3, <3>4 DEF CallStep, EnterUnconnected, Enter,
          EnterAfterExit, Acquire, QueueDeadline, DialogInQueue, SubmitRefused, Submit,
          WaitForLane, MaySubmit, SubmitAfterWait, SetGate, CancelOthers
  <2>6. CASE ~gate.on
    <3>1. gate' = gate
      BY <2>5, <2>6 DEF ReturnResult
    <3> QED BY <2>6, <3>1
  <2>7. CASE gate.on
    <3> DEFINE g == [gate EXCEPT !.identity = TRUE]
    <3>1. gate' = Recovered(g, TRUE)
      BY <1>1, <2>5, <2>7 DEF ReturnResult
    <3>2. g.futures = gate.futures
      BY <2>0 DEF TypeOK
    <3> HIDE DEF g
    <3>3. IsLifted(g, TRUE)
      BY <1>1, <3>2 DEF IsLifted
    <3> QED BY <3>1, <3>3 DEF Recovered, Open
  <2> QED BY <2>6, <2>7
<1>2. IInv /\ [Next]_vars => \A r \in Read : Lifts(r)
  BY <1>1
<1>3. IInv /\ [Next]_vars => [\A r \in Read : Lifts(r)]_vars
  BY <1>2
<1> QED BY <1>3, Inductive, PTL DEF Spec, ReadbackLiftsGate

=============================================================================
