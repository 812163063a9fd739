-------------------------- MODULE WorkerSupervisor --------------------------
(***************************************************************************)
(* HwpWorkerSupervisor (hwp_mcp_worker_supervisor.py): the process between *)
(* the MCP client and the worker that drives Hangul.  Tool calls and       *)
(* reload requests go through a stream of capacity one to the serve loop,  *)
(* which opens one worker after the other (a cycle each) and starts a      *)
(* responder task for every call.  A call that times out or is cancelled   *)
(* after it was started isolates the worker: the cycle is cancelled and a  *)
(* new worker opened.  A reload, or a change of the source files, restarts *)
(* the worker once it is idle.                                             *)
(*                                                                         *)
(* All of it runs on one event loop, so an action is what happens between  *)
(* two awaits.                                                             *)
(***************************************************************************)
EXTENDS Integers

CONSTANTS
    Call,           \* tool calls, each made once
    Reload,         \* hwp_reload calls, each made once
    Disconnecting,  \* the calls of hwp_disconnect
    Effect,         \* [Call -> {"read", "document"}]: worker_tool_effect
    MaxSource,      \* bound of the changes of the source files
    Quiesced,       \* the WorkerQuiesced request
    None            \* no request

ASSUME CallAssumption ==
    /\ Disconnecting \subseteq Call
    /\ Effect \in [Call -> {"read", "document"}]
    /\ MaxSource \in Nat
ASSUME DisjointAssumption ==
    /\ Call \cap Reload = {}
    /\ Quiesced \notin Call \cup Reload
    /\ None \notin Call \cup Reload \cup {Quiesced}

VARIABLES
    call,       \* [Call -> record]: call_tool of each call, and its state
    asked,      \* [Reload -> ...]: reload() of each request
    loop,       \* where the serve loop is
    stream,     \* the request stream, and the request kept over a restart
    sup,        \* the fields of the supervisor and its cycle scope
    source,     \* the version of the source files
    worker,     \* the worker process of the current cycle
    executed    \* history: the calls that a worker has executed

vars == <<call, asked, loop, stream, sup, source, worker, executed>>

Request == Call \cup Reload \cup {Quiesced}
Version == 0 .. MaxSource

\* "waiting": for _cycle_ready; "sending": for room in the stream.
CallSteps == {"new", "waiting", "sending", "receiving", "done"}
Answers == {"none", "result", "transport_lost", "timeout", "disconnected",
            "cancelled"}
\* answer, and retry_safe as the caller is told.
CallState == [pc: CallSteps, started: BOOLEAN, cancelled: BOOLEAN,
              answer: Answers, safe: BOOLEAN]

LoopSteps == {"top", "opening", "ready", "waiting", "reloading", "down"}

\* inbox: what the stream has handed to the loop that waits in receive().
Stream == [inbox: Request \cup {None}, buffer: Request \cup {None},
           pending: Call \cup Reload \cup {None}]

\* loaded: loaded_source_hash; flagged: the requests being answered whose
\* answer carries reloaded = True; serving: the reload answered in the loop;
\* attached: the calls that hold the current _cycle_ready; woken: those whose
\* _cycle_ready is set.
Supervisor ==
    [restarting: BOOLEAN, attached: SUBSET Call, woken: SUBSET Call,
     requested: BOOLEAN, reloaded: BOOLEAN, isolated: BOOLEAN, lost: BOOLEAN,
     loaded: Version, active: SUBSET Call, flagged: SUBSET (Call \cup Reload),
     serving: Reload \cup {None}]

Worker == [alive: BOOLEAN, code: Version]

Init ==
    /\ call = [c \in Call |-> [pc |-> "new", started |-> FALSE, cancelled |-> FALSE,
                               answer |-> "none", safe |-> FALSE]]
    /\ asked = [r \in Reload |-> "new"]
    /\ loop = "top"
    /\ stream = [inbox |-> None, buffer |-> None, pending |-> None]
    /\ sup = [restarting |-> TRUE, attached |-> {}, woken |-> {},
              requested |-> FALSE, reloaded |-> FALSE, isolated |-> FALSE,
              lost |-> FALSE, loaded |-> 0, active |-> {}, flagged |-> {},
              serving |-> None]
    /\ source = 0
    /\ worker = [alive |-> FALSE, code |-> 0]
    /\ executed = {}

IsBusy(s) == s.active # {} \/ s.serving # None

\* Mutant: every restart makes a new event, also while calls wait for one.
AlwaysNewEvent(s) == [s EXCEPT !.restarting = TRUE, !.attached = {}]

\* A new _cycle_ready is made only when the old one is set.
BeginRestart(s) ==
    [s EXCEPT !.restarting = TRUE,
              !.attached = IF s.restarting THEN @ ELSE {}]

\* Between two cycles there is no scope to cancel.
Isolation(s) ==
    [BeginRestart(s) EXCEPT !.isolated = @ \/ loop # "top"]

\* The stream hands a request to the loop that waits for one, unless that is
\* being cancelled; otherwise it has room for one request.
IsHandedOver == loop = "waiting" /\ stream.inbox = None /\ ~sup.isolated
HasRoom == IsHandedOver \/ stream.buffer = None
Sent(request) ==
    IF IsHandedOver THEN [stream EXCEPT !.inbox = request]
                    ELSE [stream EXCEPT !.buffer = request]

Answered(c, answer, safe) ==
    [call EXCEPT ![c] = [@ EXCEPT !.pc = "done", !.answer = answer, !.safe = safe]]

\* send_reply: nobody reads the reply of a call that has given up.
Replied(c, answer, safe) ==
    IF call[c].pc = "receiving" THEN Answered(c, answer, safe) ELSE call

Started(s, c, isReloaded) ==
    [s EXCEPT !.active = @ \cup {c},
              !.flagged = IF isReloaded THEN @ \cup {c} ELSE @]

-----------------------------------------------------------------------------
(* call_tool and reload *)

Submit(c) ==
    /\ IF HasRoom
       THEN /\ stream' = Sent(c)
            /\ call' = [call EXCEPT ![c] = [@ EXCEPT !.pc = "receiving"]]
       ELSE /\ call' = [call EXCEPT ![c] = [@ EXCEPT !.pc = "sending"]]
            /\ UNCHANGED stream

CallTool(c) ==
    /\ call[c].pc = "new"
    /\ loop # "down"
    /\ \/ /\ c \in Disconnecting
          /\ IsBusy(sup) \/ sup.restarting
          /\ sup' = Isolation(sup)
          /\ call' = Answered(c, "disconnected", TRUE)
          /\ UNCHANGED stream
       \/ /\ c \notin Disconnecting
          /\ sup.restarting
          /\ sup' = [sup EXCEPT !.attached = @ \cup {c}]
          /\ call' = [call EXCEPT ![c] = [@ EXCEPT !.pc = "waiting"]]
          /\ UNCHANGED stream
       \/ /\ ~sup.restarting
          /\ c \in Disconnecting => ~IsBusy(sup)
          /\ Submit(c)
          /\ UNCHANGED sup
    /\ UNCHANGED <<asked, loop, source, worker, executed>>

\* _cycle_ready is set; the call does not look at _restarting again.
Proceed(c) ==
    /\ call[c].pc = "waiting"
    /\ c \in sup.woken
    /\ Submit(c)
    /\ UNCHANGED <<asked, loop, sup, source, worker, executed>>

SendQueued(c) ==
    /\ call[c].pc = "sending"
    /\ HasRoom
    /\ Submit(c)
    /\ UNCHANGED <<asked, loop, sup, source, worker, executed>>

\* worker_restart_timeout, worker_timeout in phase predispatch, or the client's
\* cancellation while the call waits for the restart.
GiveUpWaiting(c, answer) ==
    /\ call[c].pc = "waiting"
    /\ call' = Answered(c, answer, answer = "timeout")
    /\ UNCHANGED <<asked, loop, stream, sup, source, worker, executed>>

\* The deadline passes or the client cancels: the call marks itself cancelled,
\* closes its streams, and looks whether it was started.
GiveUp(c, answer) ==
    /\ call[c].pc \in {"sending", "receiving"}
    /\ sup' = IF call[c].started THEN Isolation(sup) ELSE sup
    /\ call' = [call EXCEPT ![c] =
          [@ EXCEPT !.pc = "done", !.cancelled = TRUE, !.answer = answer,
                    !.safe = /\ answer = "timeout"
                             /\ ~call[c].started \/ Effect[c] = "read"]]
    /\ UNCHANGED <<asked, loop, stream, source, worker, executed>>

AskReload(r) ==
    /\ asked[r] = "new"
    /\ loop # "down"
    /\ \/ /\ sup.restarting
          /\ asked' = [asked EXCEPT ![r] = "unknown"]
          /\ UNCHANGED <<sup, stream>>
       \/ /\ ~sup.restarting
          /\ IsBusy(sup) \/ ~HasRoom
          /\ asked' = [asked EXCEPT ![r] = "deferred"]
          /\ sup' = [sup EXCEPT !.requested = TRUE]
          /\ UNCHANGED stream
       \/ /\ ~sup.restarting
          /\ ~IsBusy(sup) /\ HasRoom
          /\ asked' = [asked EXCEPT ![r] = "waiting"]
          /\ stream' = Sent(r)
          /\ UNCHANGED sup
    /\ UNCHANGED <<call, loop, source, worker, executed>>

-----------------------------------------------------------------------------
(* _serve: the cycles *)

\* The hash of the sources is taken before the worker is started.
BeginCycle ==
    /\ loop = "top"
    /\ loop' = "opening"
    /\ sup' = [sup EXCEPT !.loaded = source, !.isolated = FALSE]
    /\ UNCHANGED <<call, asked, stream, source, worker, executed>>

\* An exception out of the cycle ends the supervisor, and every call with it.
Down ==
    /\ loop' = "down"
    /\ call' = [c \in Call |-> [call[c] EXCEPT !.pc = "done"]]
    /\ asked' = [r \in Reload |-> IF asked[r] = "waiting" THEN "ended" ELSE asked[r]]
    /\ UNCHANGED <<stream, sup, source, worker, executed>>

OpenFails == loop = "opening" /\ Down

\* Mutant: the request is kept for the next restart too.
PendingStays == stream

WithoutPending == [stream EXCEPT !.pending = None]

\* The worker imports its code some time after the hash was taken.  The request
\* that was kept over the restart is handled at once.
Opened(code) ==
    LET kept == stream.pending
        isCall == kept \in Call /\ ~call[kept].cancelled
        ready == [sup EXCEPT !.restarting = FALSE, !.lost = FALSE,
                             !.woken = @ \cup sup.attached,
                             !.reloaded = @ /\ kept = None]
    IN  /\ loop = "opening"
        /\ ~sup.isolated
        /\ code \in sup.loaded .. source
        /\ worker' = [alive |-> TRUE, code |-> code]
        /\ stream' = WithoutPending
        /\ \/ /\ isCall
              /\ call' = [call EXCEPT ![kept] = [@ EXCEPT !.started = TRUE]]
              /\ sup' = Started(ready, kept, sup.reloaded)
              /\ loop' = "ready"
           \/ /\ kept \in Reload
              /\ sup' = [ready EXCEPT !.serving = kept,
                                      !.flagged = IF sup.reloaded THEN @ \cup {kept} ELSE @]
              /\ loop' = "reloading"
              /\ UNCHANGED call
           \/ /\ ~isCall /\ kept \notin Reload
              /\ sup' = ready
              /\ loop' = "ready"
              /\ UNCHANGED call
        /\ UNCHANGED <<asked, source, executed>>

\* A cancelled cycle ends once its responders have ended; a reload that was
\* being answered gets no answer.
CycleCancelled ==
    /\ sup.isolated
    /\ sup.active = {}
    /\ \/ loop \in {"opening", "ready", "reloading"}
       \/ loop = "waiting" /\ stream.inbox = None
    /\ loop' = "top"
    /\ sup' = [sup EXCEPT !.serving = None, !.flagged = {}, !.isolated = FALSE]
    /\ worker' = [worker EXCEPT !.alive = FALSE]
    /\ UNCHANGED <<call, asked, stream, source, executed>>

-----------------------------------------------------------------------------
(* _serve: the requests of a cycle *)

WaitForRequest ==
    /\ loop = "ready"
    /\ ~sup.isolated
    /\ stream.buffer = None
    /\ loop' = "waiting"
    /\ UNCHANGED <<call, asked, stream, sup, source, worker, executed>>

\* Mutant: calls are not told that the worker is going to be restarted.
ReloadingUnnoticed(s) ==
    [s EXCEPT !.requested = FALSE, !.reloaded = TRUE, !.isolated = FALSE]

Reloading(s) ==
    [BeginRestart(s) EXCEPT !.requested = FALSE, !.reloaded = TRUE,
                            !.isolated = FALSE]

\* The loop leaves the cycle to open a worker that answers "reloaded".
PlannedRestart(s, taken, kept) ==
    /\ loop' = "top"
    /\ sup' = Reloading(s)
    /\ stream' = [taken EXCEPT !.pending = kept]
    /\ worker' = [worker EXCEPT !.alive = FALSE]
    /\ UNCHANGED call

SourceChanged == source # sup.loaded

\* Mutant: a change of the sources is noticed at the next quiescence only.
ReloadNeededIfAsked(request) ==
    /\ ~sup.reloaded
    /\ request \in Reload \/ (sup.requested /\ ~IsBusy(sup))

IsReloadNeeded(request) ==
    /\ ~sup.reloaded
    /\ request \in Reload \/ SourceChanged \/ (sup.requested /\ ~IsBusy(sup))

\* Mutant: the loop starts requests of a cycle that has lost its transport.
NeverRefused(c) == FALSE

IsRefused(c) == sup.lost

\* Mutants: a call that has given up is started all the same; a quiescence
\* signal is believed without looking at the activity.
NeverSkipped(request) == FALSE
BelievedQuiescence == FALSE

IsSkipped(request) == request \in Call /\ call[request].cancelled
IsStaleQuiescence == IsBusy(sup)

\* Mutants: the signal is kept over the restart like any request; nothing is.
KeepsAny(request) == request
KeepsNothing(request) == None

Kept(request) == IF request = Quiesced THEN None ELSE request

\* Every request takes the reloaded flag with it, whatever becomes of it.
Handle(request, taken) ==
    LET next == [sup EXCEPT !.reloaded = FALSE]
        deferred == [next EXCEPT !.requested = @ \/ IsReloadNeeded(request)]
    IN  \/ /\ IsSkipped(request)
           /\ loop' = "ready" /\ sup' = next /\ stream' = taken
           /\ UNCHANGED <<call, worker>>
        \/ /\ request \in Call /\ ~IsSkipped(request) /\ IsRefused(request)
           /\ call' = IF sup.isolated THEN call
                                      ELSE Replied(request, "transport_lost", FALSE)
           /\ loop' = "ready" /\ sup' = next /\ stream' = taken
           /\ UNCHANGED worker
        \/ /\ request = Quiesced
           /\ IF ~IsStaleQuiescence /\ (sup.requested \/ SourceChanged)
              THEN PlannedRestart(next, taken, Kept(request))
              ELSE /\ loop' = "ready" /\ sup' = next /\ stream' = taken
                   /\ UNCHANGED <<call, worker>>
        \/ /\ request # Quiesced /\ ~IsSkipped(request)
           /\ request \in Call => ~IsRefused(request)
           /\ IsReloadNeeded(request) /\ ~IsBusy(sup)
           /\ PlannedRestart(next, taken, Kept(request))
        \/ /\ request \in Call /\ ~IsSkipped(request) /\ ~IsRefused(request)
           /\ IsReloadNeeded(request) => IsBusy(sup)
           /\ call' = [call EXCEPT ![request] = [@ EXCEPT !.started = TRUE]]
           /\ sup' = Started(deferred, request, sup.reloaded)
           /\ loop' = "ready" /\ stream' = taken
           /\ UNCHANGED worker
        \/ /\ request \in Reload
           /\ IsReloadNeeded(request) => IsBusy(sup)
           /\ sup' = [deferred EXCEPT !.serving = request,
                                      !.flagged = IF sup.reloaded THEN @ \cup {request}
                                                                  ELSE @]
           /\ loop' = "reloading" /\ stream' = taken
           /\ UNCHANGED <<call, worker>>

TakeRequest ==
    /\ \/ /\ loop = "waiting"
          /\ stream.inbox # None
          /\ Handle(stream.inbox, [stream EXCEPT !.inbox = None])
       \/ /\ loop = "ready"
          /\ ~sup.isolated
          /\ stream.buffer # None
          /\ Handle(stream.buffer, [stream EXCEPT !.buffer = None])
    /\ UNCHANGED <<asked, source, executed>>

\* read_worker_status returned, and the reload is answered in the loop.
FinishReload ==
    /\ loop = "reloading"
    /\ ~sup.isolated
    /\ worker.alive
    /\ asked' = [asked EXCEPT ![sup.serving] = "answered"]
    /\ LET next == [sup EXCEPT !.serving = None, !.flagged = @ \ {sup.serving}]
       IN  IF sup.requested /\ sup.active = {}
           THEN PlannedRestart(next, stream, None)
           ELSE /\ sup' = next
                /\ loop' = "ready"
                /\ UNCHANGED <<stream, call, worker>>
    /\ UNCHANGED <<source, executed>>

ReloadFails == loop = "reloading" /\ ~worker.alive /\ Down

-----------------------------------------------------------------------------
(* _respond_worker_call *)

\* Mutant: the last responder leaves a lost cycle as it is.
FinishedQuietly(s, c) == [s EXCEPT !.active = @ \ {c}, !.flagged = @ \ {c}]

\* WorkerActivity.finish, and the isolation that the last responder of a cycle
\* whose transport is lost asks for.
Finished(s, c) ==
    LET next == [s EXCEPT !.active = @ \ {c}, !.flagged = @ \ {c}]
    IN  IF next.lost /\ ~IsBusy(next) THEN Isolation(next) ELSE next

\* The signal is dropped when the stream is full.
SignalledQuiescence(c) ==
    IF sup.active = {c} /\ sup.serving = None /\ HasRoom THEN Sent(Quiesced)
                                                         ELSE stream

Execute(c) ==
    /\ c \in sup.active
    /\ worker.alive
    /\ executed' = executed \cup {c}
    /\ UNCHANGED <<call, asked, loop, stream, sup, source, worker>>

Respond(c) ==
    /\ c \in sup.active
    /\ c \in executed
    /\ worker.alive
    /\ ~sup.isolated
    /\ call' = Replied(c, "result", FALSE)
    /\ sup' = Finished(sup, c)
    /\ stream' = SignalledQuiescence(c)
    /\ UNCHANGED <<asked, loop, source, worker, executed>>

\* Any exception of the session counts as a lost transport.
LoseTransport(c) ==
    /\ c \in sup.active
    /\ call' = Replied(c, "transport_lost", FALSE)
    /\ sup' = Finished([BeginRestart(sup) EXCEPT !.lost = TRUE], c)
    /\ stream' = SignalledQuiescence(c)
    /\ UNCHANGED <<asked, loop, source, worker, executed>>

\* A cancelled responder gives no answer.
CancelResponder(c) ==
    /\ c \in sup.active
    /\ sup.isolated
    /\ sup' = Finished(sup, c)
    /\ stream' = SignalledQuiescence(c)
    /\ UNCHANGED <<call, asked, loop, source, worker, executed>>

-----------------------------------------------------------------------------
(* The environment *)

ChangeSource ==
    /\ source < MaxSource
    /\ loop # "down"
    /\ source' = source + 1
    /\ UNCHANGED <<call, asked, loop, stream, sup, worker, executed>>

CrashWorker ==
    /\ worker.alive
    /\ worker' = [worker EXCEPT !.alive = FALSE]
    /\ UNCHANGED <<call, asked, loop, stream, sup, source, executed>>

Serve ==
    \/ BeginCycle
    \/ \E code \in Version : Opened(code)
    \/ CycleCancelled
    \/ WaitForRequest
    \/ TakeRequest
    \/ FinishReload
    \/ ReloadFails

Responder(c) == Respond(c) \/ LoseTransport(c) \/ CancelResponder(c)

Caller(c) == Proceed(c) \/ SendQueued(c)

Expire(c) == GiveUpWaiting(c, "timeout") \/ GiveUp(c, "timeout")

Next ==
    \/ Serve
    \/ OpenFails
    \/ \E c \in Call :
          \/ CallTool(c)
          \/ Caller(c)
          \/ Expire(c)
          \/ GiveUpWaiting(c, "cancelled")
          \/ GiveUp(c, "cancelled")
          \/ Execute(c)
          \/ Responder(c)
    \/ \E r \in Reload : AskReload(r)
    \/ ChangeSource
    \/ CrashWorker

Spec == Init /\ [][Next]_vars

\* What the loop does by itself.  Opened and FinishReload are left out: they wait
\* for the worker to answer initialize, list_tools and hwp_runtime_info.
ServeAlone ==
    \/ BeginCycle
    \/ CycleCancelled
    \/ WaitForRequest
    \/ TakeRequest
    \/ ReloadFails

\* The event loop runs every task that can go on, and deadlines pass.  No answer
\* of the worker is owed, to a call, at its start or to a reload, and no action
\* of a client.
FairSpec ==
    /\ Spec
    /\ WF_vars(ServeAlone)
    /\ \A c \in Call : /\ WF_vars(Caller(c))
                       /\ WF_vars(Expire(c))
                       /\ WF_vars(CancelResponder(c))

-----------------------------------------------------------------------------
(* Properties                                                              *)

\* Every variable has the type its declaration names.
TypeOK ==
    /\ call \in [Call -> CallState]
    /\ asked \in [Reload -> {"new", "unknown", "deferred", "waiting", "answered",
                             "ended"}]
    /\ loop \in LoopSteps
    /\ stream \in Stream
    /\ sup \in Supervisor
    /\ source \in Version
    /\ worker \in Worker
    /\ executed \subseteq Call

\* A caller that is told it may safely repeat a call that writes the document is
\* told so of a call that no worker has executed, and that none will execute
\* later: deadlines race the loop, restarts and the stream.
RetrySafe ==
    \A c \in Call :
        call[c].safe /\ Effect[c] = "document" => c \notin executed

\* A request that is kept while the worker restarts, or that is still in the
\* stream when the worker is isolated, is not given to two workers.
StartedOnce ==
    [][\A c \in sup'.active \ sup.active : ~call[c].started]_vars

\* "Reload requested while any worker call is active returns deferred and occurs
\* only after the worker reaches quiescence" (qa-operation-internals.md): the
\* loop gives a worker up for a reload only when no call is being answered, also
\* when a signal of an earlier quiescence comes late.
ReloadAwaitsQuiescence ==
    [][loop # "top" /\ loop' = "top" => sup.active = {}]_vars

\* Once a responder has found the transport lost, the loop starts no further
\* call on that worker.
LostCycleTakesNoCall ==
    [][sup.lost => sup'.active \subseteq sup.active \/ ~sup'.lost]_vars

\* A call that finds the worker idle runs on the source files as they are, even
\* if they changed while that worker was being started.  (The exception is the
\* first request after a reload: the code compares it with nothing.)
RunsCurrentSource ==
    [][\A c \in sup'.active \ sup.active :
          ~IsBusy(sup) /\ c \notin sup'.flagged => worker'.code = source]_vars

\* No call waits for a restart that has ended, or whose event nobody will set.
NoOrphanedWaiter ==
    loop # "down" =>
        \A c \in Call : call[c].pc = "waiting" =>
            c \in sup.woken \/ (c \in sup.attached /\ sup.restarting)

\* When the status says idle or busy, and calls are let in at once, there is a
\* loop that serves them, on a worker whose transport is not known to be lost.
OpenMeansServed ==
    ~sup.restarting /\ loop # "down" =>
        loop \in {"ready", "waiting", "reloading"} /\ ~sup.isolated /\ ~sup.lost

\* The loop waits for an answer of the worker, for which it has no deadline.
AwaitsWorker == loop \in {"opening", "reloading"}

\* A restart, whoever asked for it, ends with a worker that serves calls again (or
\* with the end of the supervisor), unless a worker leaves the loop without the
\* answer it waits for, at its start or to a reload, for good: no responder that
\* is still to end, no request in the stream and no lost transport holds it up.
RestartsEnd ==
    sup.restarting ~> \/ ~sup.restarting
                      \/ loop = "down"
                      \/ []AwaitsWorker

\* A reload that was accepted travels with the restarts until it is answered:
\* the one way to lose it is an isolation (hwp_disconnect, a timeout) of the
\* cycle that is answering it, after which its caller waits for good.
Held(r) == r \in {stream.inbox, stream.buffer, stream.pending, sup.serving}

ReloadNotForgotten ==
    [][\A r \in Reload :
         asked[r] = "waiting" /\ Held(r) =>
            \/ Held(r)'
            \/ asked[r]' # "waiting"
            \/ loop = "reloading" /\ sup.isolated]_vars

\* Whoever waits for the supervisor has somebody to wait for: no event of a
\* restart is orphaned, and the gate is open only in front of a worker that serves.
WaitersServed == TypeOK /\ NoOrphanedWaiter /\ OpenMeansServed

\* The cycles of the worker follow one another in order: a call is started once,
\* a reload waits until nothing runs, a cycle that was lost takes no call, a worker
\* runs the sources of its start, and an accepted reload is carried along.
CyclesAreOrderly ==
  /\ StartedOnce
  /\ ReloadAwaitsQuiescence
  /\ LostCycleTakesNoCall
  /\ RunsCurrentSource
  /\ ReloadNotForgotten

=============================================================================
