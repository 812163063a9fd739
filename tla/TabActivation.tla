---------------------------- MODULE TabActivation ----------------------------
(***************************************************************************)
(* The switch to the tab of a document and back, around a call of a tool:  *)
(* activate_candidate, restore_active_document (hwp_live_rot.py) and       *)
(* activate_native_document (hwp_live_native_batch.py) in the Python       *)
(* workers, BeginActivation, RunActivation and FinishActivation            *)
(* (BatchAutomation.cpp) in Hangul.                                        *)
(*                                                                         *)
(* An object of the bridge starts one thread per activation and answers    *)
(* with a token, the name of two events; the thread switches the tab,      *)
(* stores the outcome and sets one of the events.  The caller waits, looks *)
(* which tab is in front, works, and switches back.  The UI thread runs    *)
(* one call at a time, so that BeginActivation is one step; threads,       *)
(* workers and the user go on between any two steps.                       *)
(***************************************************************************)
EXTENDS Naturals, FiniteSets

CONSTANTS
    Client,     \* calls of tools, over all worker processes
    Doc,        \* the open documents, each in its tab
    Wants,      \* [Client -> SUBSET Doc]: the documents a call may be about
    Home,       \* the tab in front when it all begins
    Object,     \* BatchAutomation objects of the window
    Target,     \* [Object -> Doc \cup {None}]: targetDocumentId_, None for 0
    MaxFaults,  \* bounds failures, deaths, revocations and switches of the user
    None

ASSUME ActivationAssumption ==
    /\ IsFiniteSet(Client)
    /\ Wants \in [Client -> SUBSET Doc]
    /\ Home \in Doc /\ None \notin Doc \cup Object
    /\ Target \in [Object -> Doc \cup {None}]
    /\ MaxFaults \in Nat

VARIABLES
    active,     \* Active_XHwpDocument
    object,     \* [Object -> record]: the members of each object
    thread,     \* [Token -> record]: the thread of each activation
    signalled,  \* [Token -> set]: which of its two events are set
    client,     \* [Client -> record]: where each call is
    faults,     \* what has gone wrong so far
    disturbed   \* history: the user switched tabs, calls overlapped, or one died,
                \* timed out, lost its tab (ValidateAgain, NotGivenBack) or was told
                \* that the tab is not restored

vars == <<active, object, thread, signalled, client, faults, disturbed>>

\* What gActivationSequence numbers; a number that nothing knows is used again.
\* A call activates its document, and then the one that was in front.
Token == 1 .. 2 * Cardinality(Client)
Signal == {"success", "failure"}

\* token: the activation whose events the members hold; refs: references_.
ObjectState == [state: {"idle", "pending", "succeeded", "failed"},
                document: Doc \cup {None}, token: {0} \cup Token,
                refs: Nat, published: BOOLEAN]

ThreadState == [at: {"none", "switch", "check", "finish", "signal"},
                object: Object \cup {None}, document: Doc \cup {None},
                outcome: Signal]

\* goal: the tab being activated, wanted or restore; held: the proxy of the
\* native call; via: the object an operation went through, touched: the
\* document it ran on.
ClientState == [at: {"idle", "begin", "opening", "waiting", "fallback", "verify",
                     "failed", "working", "guarded", "worked", "done"},
                phase: {"activate", "restore"},
                goal: Doc \cup {None}, wanted: Doc \cup {None},
                restore: Doc \cup {None}, token: {0} \cup Token,
                held: Object \cup {None}, via: Object \cup {None},
                touched: Doc \cup {None}]

Resting == [at |-> "idle", phase |-> "activate",
            goal |-> None, wanted |-> None, restore |-> None, token |-> 0,
            held |-> None, via |-> None, touched |-> None]

Unborn == [at |-> "none", object |-> None, document |-> None,
           outcome |-> "failure"]

Init ==
    /\ active = Home
    /\ object = [o \in Object |-> [state |-> "idle", document |-> None, token |-> 0,
                                   refs |-> 1, published |-> TRUE]]
    /\ thread = [t \in Token |-> Unborn]
    /\ signalled = [t \in Token |-> {}]
    /\ client = [c \in Client |-> Resting]
    /\ faults = 0
    /\ disturbed = FALSE

-----------------------------------------------------------------------------
(* Shared effects                                                          *)

Fault == faults < MaxFaults /\ faults' = faults + 1

Become(c, record) == client' = [client EXCEPT ![c] = record]
Goto(c, step) == Become(c, [client[c] EXCEPT !.at = step])

\* The proxy of the native call is dropped.
LetGo(c) ==
    object' = [o \in Object |-> IF o = client[c].held
                                THEN [object[o] EXCEPT !.refs = @ - 1]
                                ELSE object[o]]

IsKnown(t, objects, clients) ==
    \/ \E o \in Object : objects[o].token = t
    \/ \E c \in Client : clients[c].token = t

\* Events go with their last handle.
EventsClosed ==
    signalled' = [t \in Token |-> IF IsKnown(t, object', client')
                                  THEN signalled[t] ELSE {}]

\* activate_native_document ends: the caller goes to a step without the proxy.
Leave(c, step) ==
    /\ LetGo(c)
    /\ Become(c, [client[c] EXCEPT !.at = step, !.held = None, !.token = 0])
    /\ EventsClosed

\* The object of the document, or else that of the window.
Routes(d) ==
    LET published == {o \in Object : object[o].published}
        own == {o \in published : Target[o] = d}
    IN  IF own # {} THEN own ELSE {o \in published : Target[o] = None}

\* The restoration ends the call; "done" is also where a dead worker is.
End(c) == Become(c, [Resting EXCEPT !.at = "done"])

-----------------------------------------------------------------------------
(* BeginActivation, called by activate_native_document                     *)

\* Mutant: an activation under way is shared with calls for other documents.
SharesAny(o, d) == object[o].state = "pending"

IsShared(o, d) == object[o].state = "pending" /\ object[o].document = d
IsBusy(o, d) == object[o].state = "pending" /\ ~IsShared(o, d)

Holds(c, o, token) ==
    Become(c, [client[c] EXCEPT !.at = "opening", !.held = o, !.token = token])

Share(c) ==
    /\ client[c].at = "begin"
    /\ \E o \in Routes(client[c].goal) :
          /\ IsShared(o, client[c].goal)
          /\ Holds(c, o, object[o].token)
          /\ object' = [object EXCEPT ![o].refs = @ + 1]
    /\ UNCHANGED <<active, thread, signalled, disturbed, faults>>

\* ERROR_BUSY: NativeActivationCallError, and the document is asked directly.
RefuseBusy(c) ==
    /\ client[c].at = "begin"
    /\ \E o \in Routes(client[c].goal) : IsBusy(o, client[c].goal)
    /\ Goto(c, "fallback")
    /\ UNCHANGED <<active, object, thread, signalled, disturbed, faults>>

\* Mutants: the thread works on an object it does not own; the events of the
\* last activation are used again, as they are.
BegunUnowned(o, d, token) ==
    [object[o] EXCEPT !.state = "pending", !.document = d, !.token = token,
                      !.refs = @ + 1]
BegunOnOldEvents(o, d, token) ==
    [object[o] EXCEPT !.state = "pending", !.document = d, !.refs = @ + 2,
                      !.token = IF @ = 0 THEN token ELSE @]

\* The events of the last activation are closed and two new ones created; the
\* thread and the proxy of the caller hold a reference each.
Begun(o, d, token) ==
    [object[o] EXCEPT !.state = "pending", !.document = d, !.token = token,
                      !.refs = @ + 2]

Free == {t \in Token : thread[t].at = "none" /\ ~IsKnown(t, object, client)}

Start(c) ==
    /\ client[c].at = "begin"
    /\ LET token == CHOOSE t \in Free : TRUE
       IN  \E o \in Routes(client[c].goal) :
              /\ object[o].state # "pending"
              /\ object' = [object EXCEPT ![o] = Begun(o, client[c].goal, token)]
              /\ thread' = [thread EXCEPT ![token] =
                    [Unborn EXCEPT !.at = "switch", !.object = o,
                                   !.document = client[c].goal]]
              /\ Holds(c, o, object'[o].token)
    /\ EventsClosed
    /\ UNCHANGED <<active, disturbed, faults>>

\* Mutant: an activation that could not be started stays pending.
NotStartedPending(o, d) ==
    [object[o] EXCEPT !.state = "pending", !.document = d, !.token = 0]

NotStarted(o, d) ==
    [object[o] EXCEPT !.state = "failed", !.document = d, !.token = 0]

\* The events, the marshalling or the thread fail: FinishActivation at once.
StartFails(c) ==
    /\ client[c].at = "begin"
    /\ \E o \in Routes(client[c].goal) :
          /\ object[o].state # "pending"
          /\ object' = [object EXCEPT ![o] = NotStarted(o, client[c].goal)]
    /\ Goto(c, "fallback")
    /\ Fault
    /\ EventsClosed
    /\ UNCHANGED <<active, thread, disturbed>>

\* There is no object, or the bind to one fails with an error of its own.
NoBatch(c) ==
    /\ client[c].at = "begin"
    /\ \/ /\ Routes(client[c].goal) = {}
          /\ Goto(c, "fallback")
          /\ UNCHANGED faults
       \/ Goto(c, "failed") /\ Fault
    /\ UNCHANGED <<active, object, thread, signalled, disturbed>>

-----------------------------------------------------------------------------
(* RunActivation                                                           *)

Advance(t, record) == thread' = [thread EXCEPT ![t] = record]

\* FindItem and SetActive_XHwpDocument, marshalled to the UI thread.
Switch(t) ==
    /\ thread[t].at = "switch"
    /\ \/ /\ active' = thread[t].document
          /\ Advance(t, [thread[t] EXCEPT !.at = "check"])
          /\ UNCHANGED faults
       \/ /\ Advance(t, [thread[t] EXCEPT !.at = "finish"])
          /\ Fault
          /\ UNCHANGED active
    /\ UNCHANGED <<object, signalled, client, disturbed>>

\* Active_XHwpDocument, in a call of its own, which may fail like any.
Check(t) ==
    /\ thread[t].at = "check"
    /\ \/ /\ Advance(t, [thread[t] EXCEPT !.at = "finish",
                    !.outcome = IF active = thread[t].document
                                THEN "success" ELSE "failure"])
          /\ UNCHANGED faults
       \/ /\ Advance(t, [thread[t] EXCEPT !.at = "finish"])
          /\ Fault
    /\ UNCHANGED <<active, object, signalled, client, disturbed>>

\* FinishActivation: the outcome is stored, and the object is free for another
\* activation, before the event is looked up and set.
Finish(t) ==
    /\ thread[t].at = "finish"
    /\ object' = [object EXCEPT ![thread[t].object].state =
                     IF thread[t].outcome = "success" THEN "succeeded"
                                                      ELSE "failed"]
    /\ Advance(t, [thread[t] EXCEPT !.at = "signal"])
    /\ UNCHANGED <<active, signalled, client, disturbed, faults>>

\* Once another activation has begun, the handle that was read may be closed,
\* or be, or have become, that of an event of the other activation.  The thread
\* goes when its watch for a late window is over, and with it its reference.
SetEvent(t) ==
    LET o == thread[t].object
        current == object[o].token
    IN  /\ thread[t].at = "signal"
        /\ \/ /\ current # 0
              /\ signalled' = [signalled EXCEPT ![current] = @ \cup {thread[t].outcome}]
           \/ current # t /\ UNCHANGED signalled
        /\ object' = [object EXCEPT ![o].refs = @ - 1]
        /\ Advance(t, Unborn)
        /\ UNCHANGED <<active, client, disturbed, faults>>

-----------------------------------------------------------------------------
(* activate_native_document, after ActivateDocument                        *)

\* An event can be opened while the object or another waiter holds it.
Exists(token, o, c) ==
    /\ token # 0
    /\ \/ object[o].token = token
       \/ \E other \in Client \ {c} :
             client[other].at = "waiting" /\ client[other].token = token

\* The error of a closed event is none that activate_native_document or its
\* callers know: the call ends with it, and gives no tab back.
OpenEvents(c) ==
    /\ client[c].at = "opening"
    /\ IF Exists(client[c].token, client[c].held, c)
       THEN Goto(c, "waiting") /\ UNCHANGED <<object, signalled>>
       ELSE LetGo(c) /\ End(c) /\ EventsClosed
    /\ UNCHANGED <<active, thread, disturbed, faults>>

Succeeded(c) ==
    /\ client[c].at = "waiting"
    /\ "success" \in signalled[client[c].token]
    /\ Leave(c, "verify")
    /\ UNCHANGED <<active, thread, disturbed, faults>>

\* The error raised here, and that of the timeout, is a RuntimeError too, and so
\* becomes NativeActivationCallError: the document is asked directly.
NotActivated(c) ==
    /\ client[c].at = "waiting"
    /\ signalled[client[c].token] = {"failure"}
    /\ Leave(c, "fallback")
    /\ UNCHANGED <<active, thread, disturbed, faults>>

\* Mutant: the caller waits for an event however long it takes.
NoTimeout(c) == FALSE
IsTimedOut(c) == signalled[client[c].token] = {}

\* 45 seconds: the thread is slow, or it has set another event.
Timeout(c) ==
    /\ client[c].at = "waiting"
    /\ IsTimedOut(c)
    /\ \/ thread[client[c].token].at = "none" /\ UNCHANGED faults
       \/ Fault
    /\ Leave(c, "fallback")
    /\ disturbed' = TRUE
    /\ UNCHANGED <<active, thread>>

-----------------------------------------------------------------------------
(* activate_candidate and restore_active_document                          *)

\* The tab that is in front is remembered, unless it is the right one.
Look(c, d) ==
    /\ client[c].at = "idle"
    /\ Become(c, IF active = d
                 THEN [Resting EXCEPT !.at = "working", !.wanted = d]
                 ELSE [Resting EXCEPT !.at = "begin", !.wanted = d, !.goal = d,
                                      !.restore = active])
    /\ disturbed' = (disturbed \/ \E other \in Client :
                                     client[other].at \notin {"idle", "done"})
    /\ UNCHANGED <<active, object, thread, signalled, faults>>

\* SetActive_XHwpDocument of the document itself.
Fallback(c) ==
    /\ client[c].at = "fallback"
    /\ \/ active' = client[c].goal /\ Goto(c, "verify") /\ UNCHANGED faults
       \/ Goto(c, "failed") /\ Fault /\ UNCHANGED active
    /\ UNCHANGED <<object, thread, signalled, disturbed>>

Restoring(c) ==
    [client[c] EXCEPT !.at = "begin", !.phase = "restore", !.goal = client[c].restore,
                      !.via = None, !.touched = None]

IsActive(c) == active = client[c].goal

Verify(c) ==
    /\ client[c].at = "verify"
    /\ \/ /\ IF ~IsActive(c) THEN Goto(c, "failed")
             ELSE IF client[c].phase = "restore" THEN End(c)
             ELSE Goto(c, "working")
          /\ UNCHANGED faults
       \/ Goto(c, "failed") /\ Fault
    /\ UNCHANGED <<active, object, thread, signalled, disturbed>>

\* A failed activation is undone before the error goes on.  A failed
\* restoration is told.
Failed(c) ==
    /\ client[c].at = "failed"
    /\ IF client[c].phase = "restore"
       THEN End(c) /\ disturbed' = TRUE
       ELSE Become(c, Restoring(c)) /\ UNCHANGED disturbed
    /\ UNCHANGED <<active, object, thread, signalled, faults>>

-----------------------------------------------------------------------------
(* The operation of the call                                               *)

\* require_active_candidate, in Python.
Guard(c) ==
    /\ client[c].at = "working"
    /\ Goto(c, IF active = client[c].wanted THEN "guarded" ELSE "worked")
    /\ UNCHANGED <<active, object, thread, signalled, disturbed, faults>>

\* Mutant: the object of a document does not look which tab is in front.
TargetUnverified(o) == TRUE

\* VerifyTarget, in the call that works: nothing comes between.
TargetVerified(o) == Target[o] = None \/ active = Target[o]

Operate(c) ==
    /\ client[c].at = "guarded"
    /\ \/ \E o \in Routes(client[c].wanted) :
             /\ TargetVerified(o)
             /\ Become(c, [client[c] EXCEPT !.at = "worked", !.via = o,
                                            !.touched = active])
       \/ Goto(c, "worked")
    /\ UNCHANGED <<active, object, thread, signalled, disturbed, faults>>

\* A call validates before each of its operations.  When the candidate it keeps
\* cannot be confirmed (a read fails, the document has a new name), it looks
\* again, finds the right tab in front, and overwrites the tab that it was to
\* restore with none.  A look that finds another tab is one of another call.
ValidateAgain(c) ==
    /\ client[c].at \in {"working", "worked"}
    /\ client[c].restore # None /\ active = client[c].wanted
    /\ Become(c, [client[c] EXCEPT !.at = "working", !.restore = None,
                                   !.via = None, !.touched = None])
    /\ disturbed' = TRUE
    /\ Fault
    /\ UNCHANGED <<active, object, thread, signalled>>

\* restore_activation, whatever became of the operation.
GiveBack(c) ==
    /\ client[c].at = "worked"
    /\ IF client[c].restore = None THEN End(c) ELSE Become(c, Restoring(c))
    /\ UNCHANGED <<active, object, thread, signalled, disturbed, faults>>

\* restore_activation has forgotten the tab by the time it reads the snapshot,
\* or the count of pages, for its books: the error of that read ends the call.
NotGivenBack(c) ==
    /\ client[c].at = "worked"
    /\ client[c].restore # None
    /\ End(c)
    /\ disturbed' = TRUE
    /\ Fault
    /\ UNCHANGED <<active, object, thread, signalled>>

-----------------------------------------------------------------------------
(* The environment                                                         *)

UserSwitches(d) ==
    /\ d # active
    /\ active' = d
    /\ Fault
    /\ disturbed' = TRUE
    /\ UNCHANGED <<object, thread, signalled, client>>

\* The worker process ends; COM takes its proxies back.
Die(c) ==
    /\ client[c].at \notin {"idle", "done"}
    /\ LetGo(c)
    /\ End(c)
    /\ EventsClosed
    /\ disturbed' = TRUE
    /\ Fault
    /\ UNCHANGED <<active, thread>>

\* The bridge revokes an object; what still holds it keeps it.
Unpublish(o) ==
    /\ object[o].published
    /\ object' = [object EXCEPT ![o].published = FALSE, ![o].refs = @ - 1]
    /\ Fault
    /\ UNCHANGED <<active, thread, signalled, client, disturbed>>

-----------------------------------------------------------------------------

ClientStep(c) ==
    \/ Share(c) \/ RefuseBusy(c) \/ Start(c) \/ StartFails(c) \/ NoBatch(c)
    \/ OpenEvents(c) \/ Succeeded(c) \/ NotActivated(c) \/ Timeout(c)
    \/ Fallback(c) \/ Verify(c) \/ Failed(c)
    \/ Guard(c) \/ Operate(c) \/ ValidateAgain(c) \/ GiveBack(c) \/ NotGivenBack(c)

ThreadStep(t) ==
    \/ Switch(t) \/ Check(t) \/ Finish(t) \/ SetEvent(t)

\* Every thread is gone, and every call over or waiting for a clock.
Rest ==
    /\ \A c \in Client : client[c].at \in {"done", "waiting"}
    /\ \A t \in Token : thread[t].at = "none"
    /\ UNCHANGED vars

Next ==
    \/ \E c \in Client : \E d \in Wants[c] : Look(c, d)
    \/ \E c \in Client : ClientStep(c)
    \/ \E t \in Token : ThreadStep(t)
    \/ \E d \in Doc : UserSwitches(d)
    \/ \E c \in Client : Die(c)
    \/ \E o \in Object : Unpublish(o)
    \/ Rest

Spec == Init /\ [][Next]_vars

\* Python goes on, and so do the threads of the bridge: Hangul answers every
\* call on its tabs, with an error if need be.  Since a call and an activation
\* have finitely many steps, none waits for good while others go on.
FairSpec ==
    /\ Spec
    /\ WF_vars(\E c \in Client : ClientStep(c))
    /\ WF_vars(\E t \in Token : ThreadStep(t))

-----------------------------------------------------------------------------
(* Properties                                                              *)

\* Every variable has the type its declaration names.
TypeOK ==
    /\ active \in Doc
    /\ object \in [Object -> ObjectState]
    /\ thread \in [Token -> ThreadState]
    /\ signalled \in [Token -> SUBSET Signal]
    /\ client \in [Client -> ClientState]
    /\ faults \in 0 .. MaxFaults
    /\ disturbed \in BOOLEAN

\* The object outlives the threads it started and the calls it answers,
\* whatever is unpublished and whoever dies meanwhile.
WorkerOutlived ==
    /\ \A t \in Token : thread[t].at # "none" =>
          object[thread[t].object].refs > 0
    /\ \A o \in Object : object[o].published => object[o].refs > 0
    /\ \A c \in Client : client[c].held # None => object[client[c].held].refs > 0

\* A call waits for the tab it asked for: the token it was given is of an
\* activation of its own document, also when somebody else started it.
TokenIsForGoal ==
    \A c \in Client : client[c].token # 0 =>
        \/ thread[client[c].token].document = client[c].goal
        \/ thread[client[c].token].at = "none"

\* An operation through the object of a document never runs on another tab,
\* however the user, other calls and late threads switch between the look of
\* the call and its work.
WorksOnTarget ==
    \A c \in Client :
        client[c].via # None /\ Target[client[c].via] # None =>
            client[c].touched = client[c].wanted

\* When the calls are over and no thread is about to switch, the tab that was
\* in front is in front again: also after activations, looks and operations that
\* failed.  Not so after an activation that timed out, whose thread may switch
\* the tab at any time; nor after a call that failed to update its books before
\* the restoration, or that validated anew and kept no tab to restore: the code
\* then leaves its own tab in front.
TabGivenBack ==
    /\ ~disturbed
    /\ \A c \in Client : client[c].at \in {"idle", "done"}
    /\ \A t \in Token : thread[t].at # "switch"
    => active = Home

\* An activation that was begun is decided, so that its object takes others.
ActivationEnds == []<>(\A o \in Object : object[o].state # "pending")

\* A call always ends, also one whose event somebody else's activation took.
CallsEnd == []<>(\A c \in Client : client[c].at \in {"idle", "done"})

\* The state of an activation is owned: a worker's object lives as long as its
\* thread, and a token that is waited for is one for the tab that was asked for.
ActivationCoherent == TypeOK /\ WorkerOutlived /\ TokenIsForGoal

\* Calls work on the tab they were sent to, and the user gets back the tab that
\* was in front.
TabsRespected == WorksOnTarget /\ TabGivenBack

\* Activations are decided and calls end, whatever threads fail or lag.
AllEnds == ActivationEnds /\ CallsEnd

=============================================================================
