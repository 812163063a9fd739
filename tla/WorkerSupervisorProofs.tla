----------------------- MODULE WorkerSupervisorProofs -----------------------
(***************************************************************************)
(* Theorems about WorkerSupervisor: whoever waits is served or ends with   *)
(* the supervisor, a call that may be repeated was not executed, and the   *)
(* cycles of the worker follow one another in order.                       *)
(*                                                                         *)
(* The inductive invariant adds to the properties where a call stands when *)
(* it is in the stream: in one place of it, not started, and not told      *)
(* anything yet, unless it has given up.                                   *)
(***************************************************************************)
EXTENDS WorkerSupervisor, TLAPS

Queued(c) == c \in {stream.inbox, stream.buffer, stream.pending}

CallSound(c) ==
    /\ call[c].pc \in {"new", "waiting", "sending"} =>
          ~call[c].started /\ ~call[c].cancelled /\ ~Queued(c)
    /\ call[c].pc # "done" => ~call[c].safe
    /\ c \in sup.active \cup executed => call[c].started
    /\ call[c].safe /\ Effect[c] = "document" => ~call[c].started
    /\ Queued(c) /\ ~call[c].cancelled /\ loop # "down" =>
          call[c].pc = "receiving" /\ ~call[c].started
    /\ stream.inbox = c => stream.buffer # c /\ stream.pending # c
    /\ stream.buffer = c => stream.pending # c

CallsSound == \A c \in Call : CallSound(c)

\* A request is kept over a restart only, and its restart was a reload; a worker
\* runs the sources of its start or later ones.
Slots ==
    /\ stream.pending # None => loop \in {"top", "opening", "down"} /\ sup.reloaded
    /\ sup.serving # None => loop \in {"reloading", "down"}
    /\ loop \in {"ready", "waiting", "reloading"} =>
          sup.loaded <= worker.code /\ worker.code <= source

IInv == WaitersServed /\ CallsSound /\ Slots

-----------------------------------------------------------------------------
(* What the helpers make of the supervisor, the stream and a call.         *)

\* Nobody who waits is left behind when the fields of the supervisor go from s to t.
Wakes(s, t) ==
    /\ s.woken \subseteq t.woken
    /\ s.restarting /\ t.restarting => s.attached \subseteq t.attached
    /\ s.restarting /\ ~t.restarting => s.attached \subseteq t.woken

\* The fields that a restart leaves alone.
SameCycle(s, t) ==
    /\ t.loaded = s.loaded /\ t.serving = s.serving /\ t.reloaded = s.reloaded
    /\ t.active = s.active /\ t.flagged = s.flagged

LEMMA BeginRestartFacts ==
    ASSUME NEW s \in Supervisor
    PROVE  /\ BeginRestart(s) \in Supervisor /\ BeginRestart(s).restarting
           /\ Wakes(s, BeginRestart(s)) /\ SameCycle(s, BeginRestart(s))
           /\ BeginRestart(s).lost = s.lost
BY DEF BeginRestart, Supervisor, Wakes, SameCycle

LEMMA IsolationFacts ==
    ASSUME NEW s \in Supervisor
    PROVE  /\ Isolation(s) \in Supervisor /\ Isolation(s).restarting
           /\ Wakes(s, Isolation(s)) /\ SameCycle(s, Isolation(s))
           /\ Isolation(s).lost = s.lost
<1>1. BeginRestart(s) \in Supervisor
  BY BeginRestartFacts
<1>2. PICK b \in BOOLEAN : Isolation(s) = [BeginRestart(s) EXCEPT !.isolated = b]
  BY <1>1 DEF Isolation, Supervisor
<1> DEFINE r == BeginRestart(s)
          t == Isolation(s)
<1>3. t = [r EXCEPT !.isolated = b]
  BY <1>2
<1>4. /\ r \in Supervisor /\ r.restarting /\ Wakes(s, r) /\ SameCycle(s, r) /\ r.lost = s.lost
  BY BeginRestartFacts
<1> HIDE DEF r, t
<1>5. /\ t \in Supervisor /\ t.restarting = r.restarting /\ t.woken = r.woken
      /\ t.attached = r.attached /\ t.lost = r.lost /\ SameCycle(r, t)
  BY <1>3, <1>4 DEF Supervisor, SameCycle
<1>6. Wakes(s, t) /\ SameCycle(s, t)
  BY <1>4, <1>5 DEF Wakes, SameCycle
<1> QED BY <1>4, <1>5, <1>6 DEF t

LEMMA ReloadingFacts ==
    ASSUME NEW s \in Supervisor
    PROVE  /\ Reloading(s) \in Supervisor /\ Reloading(s).restarting /\ Reloading(s).reloaded
           /\ Wakes(s, Reloading(s))
           /\ Reloading(s).loaded = s.loaded /\ Reloading(s).serving = s.serving
           /\ Reloading(s).active = s.active /\ Reloading(s).lost = s.lost
<1> DEFINE r == BeginRestart(s)
          t == Reloading(s)
<1>1. t = [r EXCEPT !.requested = FALSE, !.reloaded = TRUE, !.isolated = FALSE]
  BY DEF Reloading
<1>2. /\ r \in Supervisor /\ r.restarting /\ Wakes(s, r) /\ SameCycle(s, r) /\ r.lost = s.lost
  BY BeginRestartFacts
<1> HIDE DEF r, t
<1>3. /\ t \in Supervisor /\ t.restarting = r.restarting /\ t.woken = r.woken
      /\ t.attached = r.attached /\ t.lost = r.lost /\ t.reloaded /\ t.loaded = r.loaded
      /\ t.serving = r.serving /\ t.active = r.active
  BY <1>1, <1>2 DEF Supervisor
<1>4. Wakes(s, t)
  BY <1>2, <1>3 DEF Wakes
<1> QED BY <1>2, <1>3, <1>4 DEF t, SameCycle

LEMMA FinishedFacts ==
    ASSUME NEW s \in Supervisor, NEW c \in Call
    PROVE  /\ Finished(s, c) \in Supervisor
           /\ Finished(s, c).restarting \/
                 /\ Finished(s, c).restarting = s.restarting
                 /\ Finished(s, c).isolated = s.isolated
           /\ Wakes(s, Finished(s, c))
           /\ Finished(s, c).loaded = s.loaded /\ Finished(s, c).serving = s.serving
           /\ Finished(s, c).reloaded = s.reloaded /\ Finished(s, c).lost = s.lost
           /\ Finished(s, c).active = s.active \ {c}
           /\ Finished(s, c).flagged = s.flagged \ {c}
<1> DEFINE next == [s EXCEPT !.active = @ \ {c}, !.flagged = @ \ {c}]
<1>1. /\ next \in Supervisor /\ Wakes(s, next) /\ next.restarting = s.restarting
      /\ next.isolated = s.isolated /\ next.loaded = s.loaded /\ next.serving = s.serving
      /\ next.reloaded = s.reloaded /\ next.lost = s.lost
      /\ next.active = s.active \ {c} /\ next.flagged = s.flagged \ {c}
  BY DEF Supervisor, Wakes
<1>2. Finished(s, c) = next \/ Finished(s, c) = Isolation(next)
  BY DEF Finished
<1>3. next.woken = s.woken /\ next.attached = s.attached
  BY DEF Supervisor
<1> HIDE DEF next
<1>4. CASE Finished(s, c) = next
  BY <1>1, <1>4
<1>5. CASE Finished(s, c) = Isolation(next)
  <2>1. /\ Isolation(next) \in Supervisor /\ Isolation(next).restarting
        /\ Wakes(next, Isolation(next)) /\ SameCycle(next, Isolation(next))
        /\ Isolation(next).lost = next.lost
    BY <1>1, IsolationFacts
  <2>2. Wakes(s, Isolation(next))
    BY <1>1, <1>3, <2>1 DEF Wakes
  <2> QED BY <1>1, <1>5, <2>1, <2>2 DEF SameCycle
<1> QED BY <1>2, <1>4, <1>5

\* A request is sent into an empty place.
SentInto(x) ==
    /\ stream' \in Stream /\ stream'.pending = stream.pending
    /\ \/ stream.inbox = None /\ stream'.inbox = x /\ stream'.buffer = stream.buffer
       \/ stream.buffer = None /\ stream'.buffer = x /\ stream'.inbox = stream.inbox

LEMMA SentFacts ==
    ASSUME stream \in Stream, NEW x \in Request, HasRoom, stream' = Sent(x)
    PROVE  SentInto(x)
BY DEF Stream, HasRoom, IsHandedOver, Sent, SentInto

LEMMA SignalFacts ==
    ASSUME stream \in Stream, NEW c \in Call, stream' = SignalledQuiescence(c)
    PROVE  stream' = stream \/ SentInto(Quiesced)
<1>1. Quiesced \in Request
  BY DEF Request
<1> QED BY <1>1, SentFacts DEF SignalledQuiescence

LEMMA OneCall ==
    ASSUME call \in [Call -> CallState], NEW c \in Call, NEW r, call' = [call EXCEPT ![c] = r]
    PROVE  /\ call'[c] = r /\ \A d \in Call \ {c} : call'[d] = call[d]
           /\ r \in CallState => call' \in [Call -> CallState]
OBVIOUS

LEMMA AnsweredFacts ==
    ASSUME call \in [Call -> CallState], NEW c \in Call, NEW a \in Answers, NEW b \in BOOLEAN,
           call' = Answered(c, a, b)
    PROVE  /\ call' \in [Call -> CallState] /\ \A d \in Call \ {c} : call'[d] = call[d]
           /\ call'[c].pc = "done" /\ call'[c].safe = b
           /\ call'[c].started = call[c].started /\ call'[c].cancelled = call[c].cancelled
<1> DEFINE r == [call[c] EXCEPT !.pc = "done", !.answer = a, !.safe = b]
<1>1. call[c] \in CallState
  OBVIOUS
<1>2. /\ r \in CallState /\ r.pc = "done" /\ r.safe = b
      /\ r.started = call[c].started /\ r.cancelled = call[c].cancelled
  BY <1>1 DEF CallState, CallSteps
<1>3. call' = [call EXCEPT ![c] = r]
  BY DEF Answered
<1> HIDE DEF r
<1> QED BY <1>2, <1>3, OneCall

LEMMA StepFacts ==
    ASSUME call \in [Call -> CallState], NEW c \in Call, NEW s \in CallSteps,
           call' = [call EXCEPT ![c] = [@ EXCEPT !.pc = s]]
    PROVE  /\ call' \in [Call -> CallState] /\ \A d \in Call \ {c} : call'[d] = call[d]
           /\ call'[c].pc = s /\ call'[c].safe = call[c].safe
           /\ call'[c].started = call[c].started /\ call'[c].cancelled = call[c].cancelled
<1> DEFINE r == [call[c] EXCEPT !.pc = s]
<1>1. call[c] \in CallState
  OBVIOUS
<1>2. /\ r \in CallState /\ r.pc = s /\ r.safe = call[c].safe
      /\ r.started = call[c].started /\ r.cancelled = call[c].cancelled
  BY <1>1 DEF CallState
<1>3. call' = [call EXCEPT ![c] = r]
  OBVIOUS
<1> HIDE DEF r
<1> QED BY <1>2, <1>3, OneCall

LEMMA StartFacts ==
    ASSUME call \in [Call -> CallState], NEW c \in Call,
           call' = [call EXCEPT ![c] = [@ EXCEPT !.started = TRUE]]
    PROVE  /\ call' \in [Call -> CallState] /\ \A d \in Call \ {c} : call'[d] = call[d]
           /\ call'[c].pc = call[c].pc /\ call'[c].safe = call[c].safe
           /\ call'[c].started /\ call'[c].cancelled = call[c].cancelled
<1> DEFINE r == [call[c] EXCEPT !.started = TRUE]
<1>1. call[c] \in CallState
  OBVIOUS
<1>2. /\ r \in CallState /\ r.pc = call[c].pc /\ r.safe = call[c].safe
      /\ r.started /\ r.cancelled = call[c].cancelled
  BY <1>1 DEF CallState
<1>3. call' = [call EXCEPT ![c] = r]
  OBVIOUS
<1> HIDE DEF r
<1> QED BY <1>2, <1>3, OneCall

-----------------------------------------------------------------------------
(* The parts of the invariant that a step does not touch.                  *)

SlotsKept(d) ==
    /\ stream'.inbox = d => stream.inbox = d
    /\ stream'.buffer = d => stream.buffer = d
    /\ stream'.pending = d => stream.pending = d

\* A step that is not about call d.
Apart(d) ==
    /\ call'[d] = call[d] /\ SlotsKept(d)
    /\ d \in sup'.active \cup executed' => d \in sup.active \cup executed

LEMMA ApartSound ==
    ASSUME NEW d \in Call, CallSound(d), Apart(d), loop = "down" => loop' = "down"
    PROVE  CallSound(d)'
BY DEF CallSound, Apart, SlotsKept, Queued

LEMMA WaitersMove ==
    ASSUME NoOrphanedWaiter, Wakes(sup, sup'), loop = "down" => loop' = "down",
           sup.restarting \in BOOLEAN, sup'.restarting \in BOOLEAN,
           \A c \in Call : call'[c].pc = "waiting" =>
              call[c].pc = "waiting" \/ (c \in sup'.attached /\ sup'.restarting)
    PROVE  NoOrphanedWaiter'
BY DEF NoOrphanedWaiter, Wakes

LEMMA WakesSelf == \A s : Wakes(s, s)
BY DEF Wakes

\* The supervisor stays as it is, and so do the requests that are kept or served.
Idle == /\ UNCHANGED << loop, sup >> /\ source' >= source /\ worker'.code = worker.code
        /\ stream'.pending = stream.pending

LEMMA IdleKeeps ==
    ASSUME IInv, Idle, TypeOK'
    PROVE  OpenMeansServed' /\ Slots'
<1>1. OpenMeansServed /\ Slots /\ TypeOK
  BY DEF IInv, WaitersServed
<1>2. loop' = loop /\ sup' = sup /\ source' >= source /\ worker'.code = worker.code
      /\ stream'.pending = stream.pending
  BY DEF Idle
<1>3. OpenMeansServed'
  BY <1>1, <1>2 DEF OpenMeansServed
<1>4. sup.loaded \in Int /\ worker.code \in Int /\ source \in Int /\ source' \in Int
  BY <1>1, CallAssumption DEF TypeOK, Supervisor, Worker, Version
<1> QED BY <1>1, <1>2, <1>3, <1>4 DEF Slots

LEMMA IdleWaiters ==
    ASSUME IInv, Idle,
           \A c \in Call : call'[c].pc = "waiting" => call[c].pc = "waiting"
    PROVE  NoOrphanedWaiter'
<1>1. NoOrphanedWaiter /\ sup' = sup /\ loop' = loop
  BY DEF IInv, WaitersServed, Idle
<1> QED BY <1>1 DEF NoOrphanedWaiter

\* The places of the stream other than those into which a request was sent.
LEMMA SentKeeps ==
    ASSUME NEW x, SentInto(x), NEW d, d # x
    PROVE  SlotsKept(d)
BY DEF SentInto, SlotsKept

LEMMA Names ==
    /\ \A c \in Call : c \in Request /\ c # Quiesced /\ c # None /\ c \notin Reload
    /\ \A r \in Reload : r \in Request /\ r # Quiesced /\ r # None /\ r \notin Call
    /\ Quiesced \in Request /\ Quiesced # None /\ Quiesced \notin Call \cup Reload
    /\ None \notin Call \cup Reload
BY DisjointAssumption DEF Request

LEMMA TypeParts ==
    TypeOK => /\ call \in [Call -> CallState]
              /\ \A c \in Call : call[c] \in CallState
              /\ stream \in Stream /\ sup \in Supervisor /\ worker \in Worker
              /\ source \in Version /\ executed \subseteq Call /\ loop \in LoopSteps
BY DEF TypeOK

-----------------------------------------------------------------------------
(* The steps of the callers.                                               *)

LEMMA SubmitInv ==
    ASSUME IInv, NEW c \in Call, Submit(c), call[c].pc \in {"new", "waiting", "sending"},
           UNCHANGED << asked, loop, sup, source, worker, executed >>
    PROVE  IInv'
<1>0. TypeOK /\ CallsSound
  BY DEF IInv, WaitersServed
<1>1. \E s \in {"receiving", "sending"} :
         /\ call' = [call EXCEPT ![c] = [@ EXCEPT !.pc = s]]
         /\ \/ s = "receiving" /\ SentInto(c)
            \/ stream' = stream
  <2>1. CASE HasRoom
    <3>1. stream' = Sent(c) /\ call' = [call EXCEPT ![c] = [@ EXCEPT !.pc = "receiving"]]
      BY <2>1 DEF Submit
    <3>2. SentInto(c)
      BY <1>0, <2>1, <3>1, SentFacts, TypeParts, Names
    <3> QED BY <3>1, <3>2
  <2>2. CASE ~HasRoom
    BY <2>2 DEF Submit
  <2> QED BY <2>1, <2>2
<1>2. PICK s \in {"receiving", "sending"} :
         /\ call' = [call EXCEPT ![c] = [@ EXCEPT !.pc = s]]
         /\ \/ s = "receiving" /\ SentInto(c)
            \/ stream' = stream
  BY <1>1
<1>3. /\ call' \in [Call -> CallState] /\ \A d \in Call \ {c} : call'[d] = call[d]
      /\ call'[c].pc = s /\ call'[c].safe = call[c].safe
      /\ call'[c].started = call[c].started /\ call'[c].cancelled = call[c].cancelled
  <2>1. s \in CallSteps
    BY DEF CallSteps
  <2> QED BY <1>0, <1>2, <2>1, StepFacts, TypeParts
<1>4. stream' \in Stream /\ stream'.pending = stream.pending
  BY <1>0, <1>2, TypeParts DEF SentInto
<1>5. TypeOK'
  BY <1>0, <1>3, <1>4 DEF TypeOK
<1>6. Idle
  <2>1. source \in Int
    BY <1>0, CallAssumption DEF TypeOK, Version
  <2> QED BY <1>4, <2>1 DEF Idle
<1>7. NoOrphanedWaiter'
  BY <1>3, <1>6, IdleWaiters
<1>8. CallsSound'
  <2>1. ASSUME NEW d \in Call \ {c} PROVE CallSound(d)'
    <3>1. SlotsKept(d)
      BY <1>2, SentKeeps DEF SlotsKept
    <3>2. Apart(d)
      BY <1>3, <3>1 DEF Apart
    <3> QED BY <1>0, <3>2, ApartSound DEF CallsSound
  <2>2. CallSound(c)'
    <3>1. CallSound(c) /\ ~call[c].started /\ ~call[c].cancelled /\ ~Queued(c) /\ ~call[c].safe
      BY <1>0 DEF CallsSound, CallSound
    <3>2. c # None
      BY Names
    <3>3. CASE s = "receiving" /\ SentInto(c)
      BY <1>3, <3>1, <3>2, <3>3 DEF SentInto, CallSound, Queued
    <3>4. CASE stream' = stream
      BY <1>3, <3>1, <3>4 DEF CallSound, Queued
    <3> QED BY <1>2, <3>3, <3>4
  <2> QED BY <2>1, <2>2 DEF CallsSound
<1> QED BY <1>5, <1>6, <1>7, <1>8, IdleKeeps DEF IInv, WaitersServed

\* The supervisor is isolated, or left alone, by a call that ends.
LEMMA IsolatedParts ==
    ASSUME IInv, TypeOK', sup' \in {sup, Isolation(sup)},
           UNCHANGED << loop, source, worker, stream >>,
           \A d \in Call : call'[d].pc = "waiting" => call[d].pc = "waiting"
    PROVE  NoOrphanedWaiter' /\ OpenMeansServed' /\ Slots' /\ sup'.active = sup.active
<1>1. /\ TypeOK /\ NoOrphanedWaiter /\ OpenMeansServed /\ Slots
      /\ sup \in Supervisor /\ sup' \in Supervisor
  BY TypeParts DEF IInv, WaitersServed, TypeOK
<1>2. Wakes(sup, sup') /\ SameCycle(sup, sup') /\ (sup' # sup => sup'.restarting)
  BY <1>1, IsolationFacts, WakesSelf DEF SameCycle
<1>3. sup.restarting \in BOOLEAN /\ sup'.restarting \in BOOLEAN
  BY <1>1 DEF Supervisor
<1>4. NoOrphanedWaiter'
  BY <1>1, <1>2, <1>3, WaitersMove
<1>5. OpenMeansServed'
  <2>1. CASE sup' = sup
    BY <1>1, <2>1 DEF OpenMeansServed
  <2>2. CASE sup' # sup
    BY <1>2, <2>2 DEF OpenMeansServed
  <2> QED BY <2>1, <2>2
<1>6. Slots' /\ sup'.active = sup.active
  BY <1>1, <1>2 DEF Slots, SameCycle
<1> QED BY <1>4, <1>5, <1>6

LEMMA CallToolInv ==
    ASSUME IInv, NEW c \in Call, CallTool(c)
    PROVE  IInv'
<1>0. TypeOK /\ CallsSound /\ NoOrphanedWaiter
  BY DEF IInv, WaitersServed
<1>1. UNCHANGED << asked, loop, source, worker, executed >> /\ call[c].pc = "new"
  BY DEF CallTool
<1>2. CallSound(c) /\ ~call[c].started /\ ~call[c].cancelled /\ ~Queued(c) /\ ~call[c].safe
  BY <1>0, <1>1 DEF CallsSound, CallSound
<1>3. CASE /\ sup' = Isolation(sup) /\ call' = Answered(c, "disconnected", TRUE)
           /\ UNCHANGED stream
  <2>1. /\ call' \in [Call -> CallState] /\ \A d \in Call \ {c} : call'[d] = call[d]
        /\ call'[c].pc = "done" /\ call'[c].safe = TRUE
        /\ call'[c].started = call[c].started /\ call'[c].cancelled = call[c].cancelled
    <3>1. "disconnected" \in Answers /\ TRUE \in BOOLEAN
      BY DEF Answers
    <3> QED BY <1>0, <1>3, <3>1, AnsweredFacts, TypeParts
  <2>2. sup' \in Supervisor
    BY <1>0, <1>3, IsolationFacts, TypeParts
  <2>3. TypeOK'
    BY <1>0, <1>1, <1>3, <2>1, <2>2 DEF TypeOK
  <2>4. NoOrphanedWaiter' /\ OpenMeansServed' /\ Slots' /\ sup'.active = sup.active
    <3>1. \A d \in Call : call'[d].pc = "waiting" => call[d].pc = "waiting"
      BY <2>1
    <3> QED BY <1>1, <1>3, <2>3, <3>1, IsolatedParts
  <2>5. ASSUME NEW d \in Call PROVE CallSound(d)'
    <3>1. CASE d # c
      <4>1. Apart(d)
        BY <1>1, <1>3, <2>1, <2>4, <3>1 DEF Apart, SlotsKept
      <4> QED BY <1>0, <1>1, <4>1, ApartSound DEF CallsSound
    <3>2. CallSound(c)'
      BY <1>1, <1>2, <1>3, <2>1, <2>4 DEF CallSound, Queued
    <3> QED BY <3>1, <3>2
  <2> QED BY <2>3, <2>4, <2>5 DEF IInv, WaitersServed, CallsSound
<1>4. CASE /\ sup.restarting /\ sup' = [sup EXCEPT !.attached = @ \cup {c}]
           /\ call' = [call EXCEPT ![c] = [@ EXCEPT !.pc = "waiting"]]
           /\ UNCHANGED stream
  <2>1. /\ call' \in [Call -> CallState] /\ \A d \in Call \ {c} : call'[d] = call[d]
        /\ call'[c].pc = "waiting" /\ call'[c].safe = call[c].safe
        /\ call'[c].started = call[c].started /\ call'[c].cancelled = call[c].cancelled
    <3>1. "waiting" \in CallSteps
      BY DEF CallSteps
    <3> QED BY <1>0, <1>4, <3>1, StepFacts, TypeParts
  <2>2. /\ sup' \in Supervisor /\ Wakes(sup, sup') /\ sup'.restarting /\ c \in sup'.attached
        /\ SameCycle(sup, sup')
    <3>1. sup \in Supervisor
      BY <1>0, TypeParts
    <3> QED BY <1>4, <3>1 DEF Supervisor, Wakes, SameCycle
  <2>3. TypeOK'
    BY <1>0, <1>1, <1>4, <2>1, <2>2 DEF TypeOK
  <2>4. NoOrphanedWaiter'
    <3>1. sup.restarting \in BOOLEAN /\ sup'.restarting \in BOOLEAN
      BY <1>0, <2>2 DEF TypeOK, Supervisor
    <3>2. \A d \in Call : call'[d].pc = "waiting" =>
             call[d].pc = "waiting" \/ (d \in sup'.attached /\ sup'.restarting)
      BY <2>1, <2>2
    <3> QED BY <1>0, <1>1, <2>2, <3>1, <3>2, WaitersMove
  <2>5. OpenMeansServed' /\ Slots'
    BY <1>1, <1>4, <2>2 DEF IInv, WaitersServed, OpenMeansServed, Slots, SameCycle
  <2>6. ASSUME NEW d \in Call PROVE CallSound(d)'
    <3>1. CASE d # c
      <4>1. Apart(d)
        BY <1>1, <1>4, <2>1, <2>2, <3>1 DEF Apart, SlotsKept, SameCycle
      <4> QED BY <1>0, <1>1, <4>1, ApartSound DEF CallsSound
    <3>2. CallSound(c)'
      BY <1>1, <1>2, <1>4, <2>1, <2>2 DEF CallSound, Queued, SameCycle
    <3> QED BY <3>1, <3>2
  <2> QED BY <2>3, <2>4, <2>5, <2>6 DEF IInv, WaitersServed, CallsSound
<1>5. CASE Submit(c) /\ UNCHANGED sup
  BY <1>1, <1>5, SubmitInv
<1> QED BY <1>3, <1>4, <1>5 DEF CallTool


\* What the caller is told ends its call: nothing else of the call changes.
LEMMA EndedSound ==
    ASSUME NEW c \in Call, CallSound(c), SlotsKept(c), loop = "down" => loop' = "down",
           call'[c].pc = "done", call'[c].started = call[c].started,
           call[c].cancelled => call'[c].cancelled,
           call'[c].safe /\ Effect[c] = "document" => ~call[c].started,
           c \in sup'.active \cup executed' => c \in sup.active \cup executed,
           ~Queued(c) \/ call'[c].cancelled \/ loop' = "down"
    PROVE  CallSound(c)'
BY DEF CallSound, SlotsKept, Queued

LEMMA GiveUpWaitingInv ==
    ASSUME IInv, NEW c \in Call, NEW a \in {"timeout", "cancelled"}, GiveUpWaiting(c, a)
    PROVE  IInv'
<1>0. TypeOK /\ CallsSound
  BY DEF IInv, WaitersServed
<1>1. UNCHANGED << asked, loop, stream, sup, source, worker, executed >> /\ call[c].pc = "waiting"
  BY DEF GiveUpWaiting
<1>2. CallSound(c) /\ ~call[c].started /\ ~call[c].cancelled /\ ~Queued(c)
  BY <1>0, <1>1 DEF CallsSound, CallSound
<1>3. /\ call' \in [Call -> CallState] /\ \A d \in Call \ {c} : call'[d] = call[d]
      /\ call'[c].pc = "done"
      /\ call'[c].started = call[c].started /\ call'[c].cancelled = call[c].cancelled
  <2>1. a \in Answers /\ (a = "timeout") \in BOOLEAN
    BY DEF Answers
  <2>2. call' = Answered(c, a, a = "timeout")
    BY DEF GiveUpWaiting
  <2> QED BY <1>0, <2>1, <2>2, AnsweredFacts, TypeParts
<1>4. TypeOK'
  BY <1>0, <1>1, <1>3 DEF TypeOK
<1>5. Idle
  <2>1. source \in Int
    BY <1>0, CallAssumption DEF TypeOK, Version
  <2> QED BY <1>1, <2>1 DEF Idle
<1>6. NoOrphanedWaiter'
  BY <1>3, <1>5, IdleWaiters
<1>7. ASSUME NEW d \in Call PROVE CallSound(d)'
  <2>1. CASE d # c
    <3>1. Apart(d)
      BY <1>1, <1>3, <2>1 DEF Apart, SlotsKept
    <3> QED BY <1>0, <1>1, <3>1, ApartSound DEF CallsSound
  <2>2. CASE d = c
    BY <1>1, <1>2, <1>3, <2>2, EndedSound DEF SlotsKept
  <2> QED BY <2>1, <2>2
<1> QED BY <1>4, <1>5, <1>6, <1>7, IdleKeeps DEF IInv, WaitersServed, CallsSound

LEMMA GiveUpInv ==
    ASSUME IInv, NEW c \in Call, NEW a \in {"timeout", "cancelled"}, GiveUp(c, a)
    PROVE  IInv'
<1>0. TypeOK /\ CallsSound
  BY DEF IInv, WaitersServed
<1>1. /\ UNCHANGED << asked, loop, stream, source, worker, executed >>
      /\ sup' \in {sup, Isolation(sup)}
  BY DEF GiveUp
<1> DEFINE r == [call[c] EXCEPT !.pc = "done", !.cancelled = TRUE, !.answer = a,
                    !.safe = /\ a = "timeout"
                             /\ ~call[c].started \/ Effect[c] = "read"]
<1>2. call[c] \in CallState
  BY <1>0, TypeParts
<1>3. /\ r \in CallState /\ r.pc = "done" /\ r.cancelled /\ r.started = call[c].started
      /\ (r.safe <=> a = "timeout" /\ (~call[c].started \/ Effect[c] = "read"))
  <2>1. a \in Answers /\ "done" \in CallSteps
    BY DEF Answers, CallSteps
  <2> QED BY <1>2, <2>1 DEF CallState
<1>4. call' = [call EXCEPT ![c] = r]
  BY DEF GiveUp
<1> HIDE DEF r
<1>5. /\ call' \in [Call -> CallState] /\ call'[c] = r
      /\ \A d \in Call \ {c} : call'[d] = call[d]
  BY <1>0, <1>3, <1>4, OneCall, TypeParts
<1>6. sup' \in Supervisor
  BY <1>0, <1>1, IsolationFacts, TypeParts
<1>7. TypeOK'
  BY <1>0, <1>1, <1>5, <1>6 DEF TypeOK
<1>8. NoOrphanedWaiter' /\ OpenMeansServed' /\ Slots' /\ sup'.active = sup.active
  <2>1. \A d \in Call : call'[d].pc = "waiting" => call[d].pc = "waiting"
    BY <1>3, <1>5
  <2> QED BY <1>1, <1>7, <2>1, IsolatedParts
<1>9. ASSUME NEW d \in Call PROVE CallSound(d)'
  <2>1. SlotsKept(d) /\ CallSound(d)
    BY <1>0, <1>1 DEF SlotsKept, CallsSound
  <2>2. CASE d # c
    <3>1. Apart(d)
      BY <1>1, <1>5, <1>8, <2>1, <2>2 DEF Apart
    <3> QED BY <1>1, <2>1, <3>1, ApartSound
  <2>3. CASE d = c
    <3>1. r.safe /\ Effect[c] = "document" => ~call[c].started
      BY <1>3
    <3> QED BY <1>1, <1>3, <1>5, <1>8, <2>1, <2>3, <3>1, EndedSound
  <2> QED BY <2>2, <2>3
<1> QED BY <1>7, <1>8, <1>9 DEF IInv, WaitersServed, CallsSound

\* A step that leaves the calls and their places alone.
LEMMA CallsApart ==
    ASSUME CallsSound, UNCHANGED call, loop = "down" => loop' = "down",
           \A d \in Call : SlotsKept(d),
           sup'.active \cup executed' \subseteq sup.active \cup executed
    PROVE  CallsSound'
<1>1. ASSUME NEW d \in Call PROVE CallSound(d)'
  <2>1. Apart(d) /\ CallSound(d)
    BY DEF Apart, CallsSound
  <2> QED BY <2>1, ApartSound
<1> QED BY <1>1 DEF CallsSound

LEMMA AskReloadInv ==
    ASSUME IInv, NEW r \in Reload, AskReload(r)
    PROVE  IInv'
<1>0. TypeOK /\ CallsSound /\ NoOrphanedWaiter /\ OpenMeansServed /\ Slots
  BY DEF IInv, WaitersServed
<1>1. UNCHANGED << call, loop, source, worker, executed >>
  BY DEF AskReload
<1>2. asked' \in [Reload -> {"new", "unknown", "deferred", "waiting", "answered", "ended"}]
  BY <1>0 DEF TypeOK, AskReload
<1>3. \/ UNCHANGED << sup, stream >>
      \/ sup' = [sup EXCEPT !.requested = TRUE] /\ UNCHANGED stream
      \/ UNCHANGED sup /\ HasRoom /\ stream' = Sent(r)
  BY DEF AskReload
<1>4. /\ stream' \in Stream /\ stream'.pending = stream.pending
      /\ \A d \in Call : SlotsKept(d)
  <2>1. CASE stream' = stream
    BY <1>0, <2>1, TypeParts DEF SlotsKept
  <2>2. CASE HasRoom /\ stream' = Sent(r)
    <3>1. SentInto(r) /\ \A d \in Call : d # r
      BY <1>0, <2>2, SentFacts, TypeParts, Names
    <3> QED BY <3>1, SentKeeps DEF SentInto
  <2> QED BY <1>3, <2>1, <2>2
<1>5. /\ sup' \in Supervisor /\ SameCycle(sup, sup') /\ Wakes(sup, sup')
      /\ sup'.restarting = sup.restarting /\ sup'.isolated = sup.isolated
      /\ sup'.lost = sup.lost
  <2>1. sup \in Supervisor
    BY <1>0, TypeParts
  <2> QED BY <1>3, <2>1 DEF Supervisor, Wakes, SameCycle
<1>6. TypeOK'
  BY <1>0, <1>1, <1>2, <1>4, <1>5 DEF TypeOK
<1>7. NoOrphanedWaiter'
  <2>1. sup.restarting \in BOOLEAN /\ sup'.restarting \in BOOLEAN
    BY <1>0, <1>5 DEF TypeOK, Supervisor
  <2> QED BY <1>0, <1>1, <1>5, <2>1, WaitersMove
<1>8. OpenMeansServed' /\ Slots'
  BY <1>0, <1>1, <1>4, <1>5 DEF OpenMeansServed, Slots, SameCycle
<1>9. CallsSound'
  BY <1>0, <1>1, <1>4, <1>5, CallsApart DEF SameCycle
<1> QED BY <1>6, <1>7, <1>8, <1>9 DEF IInv, WaitersServed

-----------------------------------------------------------------------------
(* The steps of the environment and of the cycles.                         *)

LEMMA EnvironmentInv ==
    ASSUME IInv, ChangeSource \/ CrashWorker \/ (\E c \in Call : Execute(c))
    PROVE  IInv'
<1>0. TypeOK /\ CallsSound
  BY DEF IInv, WaitersServed
<1>1. UNCHANGED << call, asked, loop, stream, sup >>
  BY DEF ChangeSource, CrashWorker, Execute
<1>2. /\ source' \in Version /\ source' >= source /\ worker' \in Worker
      /\ worker'.code = worker.code
  <2>1. source \in Version /\ worker \in Worker /\ source \in Int
    BY <1>0, CallAssumption DEF TypeOK, Version
  <2>2. CASE ChangeSource
    BY <2>1, <2>2, CallAssumption DEF ChangeSource, Version
  <2>3. CASE CrashWorker
    <3>1. source' = source /\ worker' = [worker EXCEPT !.alive = FALSE]
      BY <2>3 DEF CrashWorker
    <3>2. worker' \in Worker /\ worker'.code = worker.code
      BY <2>1, <3>1 DEF Worker
    <3> QED BY <2>1, <3>1, <3>2
  <2>4. CASE \E c \in Call : Execute(c)
    BY <2>1, <2>4 DEF Execute
  <2> QED BY <2>2, <2>3, <2>4
<1>3. /\ executed' \subseteq Call
      /\ sup'.active \cup executed' \subseteq sup.active \cup executed
  BY <1>0, <1>1 DEF ChangeSource, CrashWorker, Execute, TypeOK
<1>4. TypeOK'
  BY <1>0, <1>1, <1>2, <1>3 DEF TypeOK
<1>5. Idle
  BY <1>1, <1>2 DEF Idle
<1>6. NoOrphanedWaiter'
  BY <1>1, <1>5, IdleWaiters
<1>7. CallsSound'
  BY <1>0, <1>1, <1>3, CallsApart DEF SlotsKept
<1> QED BY <1>4, <1>5, <1>6, <1>7, IdleKeeps DEF IInv, WaitersServed

LEMMA DownInv ==
    ASSUME IInv, Down
    PROVE  IInv'
<1>0. TypeOK /\ CallsSound /\ Slots
  BY DEF IInv, WaitersServed
<1>1. /\ loop' = "down" /\ UNCHANGED << stream, sup, source, worker, executed >>
  BY DEF Down
<1>2. ASSUME NEW c \in Call
      PROVE  /\ call'[c] \in CallState /\ call'[c].pc = "done"
             /\ call'[c].started = call[c].started /\ call'[c].cancelled = call[c].cancelled
             /\ call'[c].safe = call[c].safe
  <2>1. call'[c] = [call[c] EXCEPT !.pc = "done"] /\ call[c] \in CallState
    BY <1>0, TypeParts DEF Down
  <2> QED BY <2>1 DEF CallState, CallSteps
<1>3. /\ call' \in [Call -> CallState]
      /\ asked' \in [Reload -> {"new", "unknown", "deferred", "waiting", "answered", "ended"}]
  <2>1. call' = [c \in Call |-> [call[c] EXCEPT !.pc = "done"]]
    BY DEF Down
  <2>2. \A c \in Call : [call[c] EXCEPT !.pc = "done"] \in CallState
    BY <1>2, <2>1
  <2> QED BY <1>0, <2>1, <2>2 DEF Down, TypeOK
<1>4. TypeOK'
  BY <1>0, <1>1, <1>3 DEF TypeOK, LoopSteps
<1>5. NoOrphanedWaiter' /\ OpenMeansServed'
  BY <1>1 DEF NoOrphanedWaiter, OpenMeansServed
<1>6. Slots'
  BY <1>0, <1>1 DEF Slots
<1>7. ASSUME NEW c \in Call PROVE CallSound(c)'
  <2>1. CallSound(c)
    BY <1>0 DEF CallsSound
  <2>2. call[c].safe /\ Effect[c] = "document" => ~call[c].started
    BY <2>1 DEF CallSound
  <2> QED BY <1>1, <1>2, <2>1, <2>2, EndedSound DEF SlotsKept
<1> QED BY <1>4, <1>5, <1>6, <1>7 DEF IInv, WaitersServed, CallsSound

LEMMA BeginCycleInv ==
    ASSUME IInv, BeginCycle
    PROVE  IInv'
<1>0. TypeOK /\ CallsSound /\ NoOrphanedWaiter /\ OpenMeansServed /\ Slots
  BY DEF IInv, WaitersServed
<1>1. /\ loop = "top" /\ loop' = "opening"
      /\ UNCHANGED << call, asked, stream, source, worker, executed >>
  BY DEF BeginCycle
<1>2. sup.restarting
  BY <1>0, <1>1 DEF OpenMeansServed
<1>3. /\ sup' \in Supervisor /\ Wakes(sup, sup') /\ sup'.restarting = sup.restarting
      /\ sup'.active = sup.active /\ sup'.reloaded = sup.reloaded
      /\ sup'.serving = sup.serving
  <2>1. sup \in Supervisor /\ source \in Version
    BY <1>0, TypeParts
  <2> QED BY <2>1 DEF BeginCycle, Supervisor, Wakes
<1>4. TypeOK'
  BY <1>0, <1>1, <1>3 DEF TypeOK, LoopSteps
<1>5. NoOrphanedWaiter'
  <2>1. sup.restarting \in BOOLEAN /\ sup'.restarting \in BOOLEAN
    BY <1>0, <1>3 DEF TypeOK, Supervisor
  <2> QED BY <1>0, <1>1, <1>3, <2>1, WaitersMove
<1>6. OpenMeansServed' /\ Slots'
  BY <1>0, <1>1, <1>2, <1>3 DEF OpenMeansServed, Slots
<1>7. CallsSound'
  BY <1>0, <1>1, <1>3, CallsApart DEF SlotsKept
<1> QED BY <1>4, <1>5, <1>6, <1>7 DEF IInv, WaitersServed

LEMMA CycleCancelledInv ==
    ASSUME IInv, CycleCancelled
    PROVE  IInv'
<1>0. TypeOK /\ CallsSound /\ NoOrphanedWaiter /\ OpenMeansServed /\ Slots
  BY DEF IInv, WaitersServed
<1>1. /\ loop # "down" /\ loop' = "top" /\ sup.isolated
      /\ UNCHANGED << call, asked, stream, source, executed >>
  BY DEF CycleCancelled
<1>2. sup.restarting
  BY <1>0, <1>1 DEF OpenMeansServed
<1>3. /\ sup' \in Supervisor /\ Wakes(sup, sup') /\ sup'.restarting = sup.restarting
      /\ sup'.active = sup.active /\ sup'.reloaded = sup.reloaded
      /\ sup'.serving = None
  <2>1. sup \in Supervisor
    BY <1>0, TypeParts
  <2> QED BY <2>1 DEF CycleCancelled, Supervisor, Wakes
<1>4. TypeOK'
  <2>1. worker \in Worker
    BY <1>0, TypeParts
  <2>2. worker' \in Worker
    BY <2>1 DEF CycleCancelled, Worker
  <2> QED BY <1>0, <1>1, <1>3, <2>2 DEF TypeOK, LoopSteps
<1>5. NoOrphanedWaiter'
  <2>1. sup.restarting \in BOOLEAN /\ sup'.restarting \in BOOLEAN
    BY <1>0, <1>3 DEF TypeOK, Supervisor
  <2> QED BY <1>0, <1>1, <1>3, <2>1, WaitersMove
<1>6. OpenMeansServed' /\ Slots'
  BY <1>0, <1>1, <1>2, <1>3 DEF OpenMeansServed, Slots
<1>7. CallsSound'
  BY <1>0, <1>1, <1>3, CallsApart DEF SlotsKept
<1> QED BY <1>4, <1>5, <1>6, <1>7 DEF IInv, WaitersServed

LEMMA WaitForRequestInv ==
    ASSUME IInv, WaitForRequest
    PROVE  IInv'
<1>0. TypeOK /\ CallsSound /\ NoOrphanedWaiter /\ OpenMeansServed /\ Slots
  BY DEF IInv, WaitersServed
<1>1. /\ loop = "ready" /\ loop' = "waiting"
      /\ UNCHANGED << call, asked, stream, sup, source, worker, executed >>
  BY DEF WaitForRequest
<1>2. TypeOK'
  BY <1>0, <1>1 DEF TypeOK, LoopSteps
<1>3. NoOrphanedWaiter' /\ OpenMeansServed' /\ Slots'
  BY <1>0, <1>1 DEF NoOrphanedWaiter, OpenMeansServed, Slots
<1>4. CallsSound'
  BY <1>0, <1>1, CallsApart DEF SlotsKept
<1> QED BY <1>2, <1>3, <1>4 DEF IInv, WaitersServed

\* A call is started when it leaves the stream: nothing was told to its caller.
LEMMA StartSound ==
    ASSUME NEW c \in Call, CallSound(c), Queued(c), ~call[c].cancelled, loop # "down",
           call'[c].pc = call[c].pc, call'[c].started, call'[c].safe = call[c].safe,
           SlotsKept(c), ~Queued(c)'
    PROVE  CallSound(c)'
BY DEF CallSound, SlotsKept, Queued

LEMMA OpenedInv ==
    ASSUME IInv, NEW code \in Version, Opened(code)
    PROVE  IInv'
<1>0. TypeOK /\ CallsSound /\ NoOrphanedWaiter /\ OpenMeansServed /\ Slots
  BY DEF IInv, WaitersServed
<1> DEFINE kept == stream.pending
           ready == [sup EXCEPT !.restarting = FALSE, !.lost = FALSE,
                                !.woken = @ \cup sup.attached,
                                !.reloaded = @ /\ kept = None]
<1>1. /\ loop = "opening" /\ ~sup.isolated /\ code \in sup.loaded .. source
      /\ worker' = [alive |-> TRUE, code |-> code]
      /\ stream' = WithoutPending /\ UNCHANGED << asked, source, executed >>
  BY DEF Opened
<1>2. /\ sup \in Supervisor /\ stream \in Stream /\ kept \in Call \cup Reload \cup {None}
      /\ sup.restarting
  BY <1>0, <1>1, TypeParts DEF Stream, OpenMeansServed
<1>3. /\ ready \in Supervisor /\ ~ready.restarting /\ ~ready.isolated /\ ~ready.lost
      /\ ready.woken = sup.woken \cup sup.attached /\ ready.loaded = sup.loaded
      /\ ready.serving = sup.serving /\ ready.active = sup.active
      /\ ready.flagged = sup.flagged
  BY <1>1, <1>2 DEF Supervisor
<1>4. \/ /\ kept \in Call /\ ~call[kept].cancelled
         /\ call' = [call EXCEPT ![kept] = [@ EXCEPT !.started = TRUE]]
         /\ sup' = Started(ready, kept, sup.reloaded) /\ loop' = "ready"
      \/ /\ kept \in Reload /\ call' = call /\ loop' = "reloading"
         /\ sup' = [ready EXCEPT !.serving = kept,
                                 !.flagged = IF sup.reloaded THEN @ \cup {kept} ELSE @]
      \/ sup' = ready /\ loop' = "ready" /\ call' = call
  BY DEF Opened
<1>5. /\ stream' \in Stream /\ stream'.pending = None
      /\ stream'.inbox = stream.inbox /\ stream'.buffer = stream.buffer
      /\ \A d \in Call : SlotsKept(d)
  <2>1. stream' = [stream EXCEPT !.pending = None]
    BY <1>1 DEF WithoutPending
  <2> QED BY <1>2, <2>1, Names DEF Stream, SlotsKept
<1> HIDE DEF ready
<1>6. sup.serving = None
  BY <1>0, <1>1 DEF Slots
<1>7. /\ sup' \in Supervisor /\ ~sup'.restarting /\ ~sup'.isolated /\ ~sup'.lost
      /\ sup'.woken = sup.woken \cup sup.attached /\ sup'.loaded = sup.loaded
      /\ sup'.serving # None => loop' = "reloading"
  <2>1. CASE kept \in Call /\ sup' = Started(ready, kept, sup.reloaded)
    BY <1>3, <1>6, <2>1 DEF Started, Supervisor
  <2>2. CASE /\ kept \in Reload /\ loop' = "reloading"
             /\ sup' = [ready EXCEPT !.serving = kept,
                                     !.flagged = IF sup.reloaded THEN @ \cup {kept} ELSE @]
    BY <1>3, <2>2 DEF Supervisor
  <2>3. CASE sup' = ready
    BY <1>3, <1>6, <2>3
  <2> QED BY <1>4, <2>1, <2>2, <2>3
<1>8. /\ \A d \in Call \ {kept} : call'[d] = call[d]
      /\ \A d \in Call \ {kept} : d \in sup'.active => d \in sup.active
      /\ call' \in [Call -> CallState]
      /\ \A d \in Call : call'[d].pc = call[d].pc
  <2>1. CASE /\ kept \in Call /\ sup' = Started(ready, kept, sup.reloaded)
             /\ call' = [call EXCEPT ![kept] = [@ EXCEPT !.started = TRUE]]
    <3>1. sup'.active = sup.active \cup {kept}
      BY <1>3, <2>1 DEF Started, Supervisor
    <3>2. /\ call' \in [Call -> CallState] /\ \A d \in Call \ {kept} : call'[d] = call[d]
          /\ call'[kept].pc = call[kept].pc
      BY <1>0, <2>1, StartFacts, TypeParts
    <3> QED BY <3>1, <3>2
  <2>2. CASE /\ call' = call
             /\ sup' = [ready EXCEPT !.serving = kept,
                                     !.flagged = IF sup.reloaded THEN @ \cup {kept} ELSE @]
    <3>1. sup'.active = sup.active
      BY <1>3, <2>2 DEF Supervisor
    <3> QED BY <1>0, <2>2, <3>1, TypeParts
  <2>3. CASE sup' = ready /\ call' = call
    BY <1>0, <1>3, <2>3, TypeParts
  <2> QED BY <1>4, <2>1, <2>2, <2>3
<1>9. worker' \in Worker /\ sup.loaded <= worker'.code /\ worker'.code <= source
  <2>1. sup.loaded \in Int /\ source \in Int
    BY <1>2, <1>0, CallAssumption DEF TypeOK, Supervisor, Version
  <2> QED BY <1>1, <2>1 DEF Worker
<1>10. TypeOK'
  <2>1. loop' \in LoopSteps
    BY <1>4 DEF LoopSteps
  <2> QED BY <1>0, <1>1, <1>5, <1>7, <1>8, <1>9, <2>1 DEF TypeOK
<1>11. NoOrphanedWaiter'
  <2>1. Wakes(sup, sup')
    BY <1>7 DEF Wakes
  <2>2. sup.restarting \in BOOLEAN /\ sup'.restarting \in BOOLEAN
    BY <1>2, <1>7 DEF Supervisor
  <2> QED BY <1>0, <1>1, <1>8, <2>1, <2>2, WaitersMove
<1>12. loop' \in {"ready", "reloading"}
  BY <1>4
<1>13. OpenMeansServed' /\ Slots'
  BY <1>1, <1>5, <1>7, <1>9, <1>12 DEF OpenMeansServed, Slots
<1>14. ASSUME NEW d \in Call PROVE CallSound(d)'
  <2>1. CallSound(d) /\ SlotsKept(d)
    BY <1>0, <1>5 DEF CallsSound
  <2>2. CASE d # kept
    <3>1. Apart(d)
      BY <1>1, <1>8, <2>1, <2>2 DEF Apart
    <3> QED BY <1>1, <2>1, <3>1, ApartSound
  <2>3. CASE d = kept /\ ~call[kept].cancelled
    <3>1. /\ Queued(d) /\ ~Queued(d)'
      <4>1. d # None
        BY Names
      <4> QED BY <1>5, <2>1, <2>3, <4>1 DEF CallSound, Queued
    <3>2. call' = [call EXCEPT ![d] = [@ EXCEPT !.started = TRUE]]
      <4>1. d \notin Reload
        BY Names
      <4>2. d \in Call /\ ~call[d].cancelled /\ d = stream.pending
        BY <2>3
      <4> QED BY <4>1, <4>2 DEF Opened
    <3>3. /\ call'[d].pc = call[d].pc /\ call'[d].safe = call[d].safe
          /\ call'[d].started /\ call'[d].cancelled = call[d].cancelled
      BY <1>0, <3>2, StartFacts, TypeParts
    <3> QED BY <1>1, <2>1, <2>3, <3>1, <3>3, StartSound
  <2>4. CASE d = kept /\ call[kept].cancelled
    <3>1. d \notin Reload
      BY Names
    <3>2. call' = call /\ sup' = ready
      BY <1>4, <2>4, <3>1
    <3>3. Apart(d)
      BY <1>1, <1>3, <2>1, <3>2 DEF Apart
    <3> QED BY <1>1, <2>1, <3>3, ApartSound
  <2> QED BY <2>2, <2>3, <2>4
<1> QED BY <1>10, <1>11, <1>13, <1>14 DEF IInv, WaitersServed, CallsSound

-----------------------------------------------------------------------------
(* The requests of a cycle.                                                *)

\* The loop has taken a request out of its place in the stream.
Takes(request, taken) ==
    /\ loop \in {"ready", "waiting"}
    /\ request \in Request /\ taken \in Stream /\ taken.pending = None
    /\ stream.pending = None /\ sup.serving = None
    /\ \/ stream.inbox = request /\ taken.inbox = None /\ taken.buffer = stream.buffer
       \/ stream.buffer = request /\ taken.buffer = None /\ taken.inbox = stream.inbox

LEMMA TakeFacts ==
    ASSUME IInv, TakeRequest
    PROVE  /\ \E request \in Request : \E taken \in Stream :
                 Takes(request, taken) /\ Handle(request, taken)
           /\ UNCHANGED << asked, source, executed >>
<1>1. TypeOK /\ Slots /\ stream \in Stream
  BY TypeParts DEF IInv, WaitersServed
<1>2. CASE /\ loop = "waiting" /\ stream.inbox # None
           /\ Handle(stream.inbox, [stream EXCEPT !.inbox = None])
  <2> DEFINE taken == [stream EXCEPT !.inbox = None]
  <2>1. stream.inbox \in Request /\ stream.pending = None /\ sup.serving = None
    BY <1>1, <1>2 DEF Slots, Stream
  <2>2. /\ taken \in Stream /\ taken.pending = None /\ taken.inbox = None
        /\ taken.buffer = stream.buffer
    BY <1>1, <2>1 DEF Stream
  <2>3. Handle(stream.inbox, taken)
    BY <1>2
  <2> HIDE DEF taken
  <2>4. Takes(stream.inbox, taken)
    BY <1>2, <2>1, <2>2 DEF Takes
  <2> QED BY <2>1, <2>2, <2>3, <2>4 DEF TakeRequest
<1>3. CASE /\ loop = "ready" /\ stream.buffer # None
           /\ Handle(stream.buffer, [stream EXCEPT !.buffer = None])
  <2> DEFINE taken == [stream EXCEPT !.buffer = None]
  <2>1. stream.buffer \in Request /\ stream.pending = None /\ sup.serving = None
    BY <1>1, <1>3 DEF Slots, Stream
  <2>2. /\ taken \in Stream /\ taken.pending = None /\ taken.buffer = None
        /\ taken.inbox = stream.inbox
    BY <1>1, <2>1 DEF Stream
  <2>3. Handle(stream.buffer, taken)
    BY <1>3
  <2> HIDE DEF taken
  <2>4. Takes(stream.buffer, taken)
    BY <1>3, <2>1, <2>2 DEF Takes
  <2> QED BY <2>1, <2>2, <2>3, <2>4 DEF TakeRequest
<1> QED BY <1>2, <1>3 DEF TakeRequest

LEMMA TakesKeeps ==
    ASSUME CallsSound, NEW request, NEW taken, Takes(request, taken), NEW d \in Call
    PROVE  /\ taken.inbox = d => stream.inbox = d
           /\ taken.buffer = d => stream.buffer = d
           /\ taken.pending # d
           /\ d = request => taken.inbox # d /\ taken.buffer # d /\ Queued(d)
<1>1. d # None /\ CallSound(d)
  BY Names DEF CallsSound
<1> QED BY <1>1 DEF Takes, CallSound, Queued

\* The cycle goes on after a request was taken.
LEMMA TakenParts ==
    ASSUME IInv, NEW request, NEW taken, Takes(request, taken), TypeOK', stream' = taken,
           loop' \in {"ready", "reloading"}, worker' = worker, source' = source,
           sup'.serving # None => loop' = "reloading",
           sup'.restarting = sup.restarting, sup'.attached = sup.attached,
           sup'.woken = sup.woken, sup'.isolated = sup.isolated, sup'.lost = sup.lost,
           sup'.loaded = sup.loaded,
           \A d \in Call : call'[d].pc = "waiting" => call[d].pc = "waiting"
    PROVE  NoOrphanedWaiter' /\ OpenMeansServed' /\ Slots'
<1>1. NoOrphanedWaiter /\ OpenMeansServed /\ Slots
  BY DEF IInv, WaitersServed
<1>2. loop \in {"ready", "waiting"} /\ stream'.pending = None
  BY DEF Takes
<1>3. NoOrphanedWaiter'
  BY <1>1, <1>2 DEF NoOrphanedWaiter
<1>4. OpenMeansServed'
  BY <1>1, <1>2 DEF OpenMeansServed
<1> QED BY <1>1, <1>2, <1>3, <1>4 DEF Slots

\* The cycle is left for a planned restart.
LEMMA PlannedParts ==
    ASSUME IInv, NEW s \in Supervisor, NEW taken \in Stream,
           NEW kept \in Call \cup Reload \cup {None}, PlannedRestart(s, taken, kept),
           loop # "down", s.serving = None, s.active = sup.active, s.attached = sup.attached,
           s.woken = sup.woken, s.restarting = sup.restarting,
           UNCHANGED << source, executed >>,
           asked' \in [Reload -> {"new", "unknown", "deferred", "waiting", "answered", "ended"}]
    PROVE  /\ TypeOK' /\ NoOrphanedWaiter' /\ OpenMeansServed' /\ Slots'
           /\ sup'.active = sup.active /\ loop' = "top" /\ call' = call
           /\ stream'.inbox = taken.inbox /\ stream'.buffer = taken.buffer
           /\ stream'.pending = kept
<1>0. TypeOK /\ NoOrphanedWaiter
  BY DEF IInv, WaitersServed
<1>1. /\ loop' = "top" /\ sup' = Reloading(s) /\ stream' = [taken EXCEPT !.pending = kept]
      /\ worker' = [worker EXCEPT !.alive = FALSE] /\ call' = call
  BY DEF PlannedRestart
<1>2. /\ sup' \in Supervisor /\ sup'.restarting /\ sup'.reloaded /\ Wakes(s, sup')
      /\ sup'.serving = None /\ sup'.active = sup.active
  BY <1>1, ReloadingFacts
<1>3. /\ stream' \in Stream /\ stream'.pending = kept
      /\ stream'.inbox = taken.inbox /\ stream'.buffer = taken.buffer
  BY <1>1 DEF Stream
<1>4. worker' \in Worker
  <2>1. worker \in Worker
    BY <1>0, TypeParts
  <2> QED BY <1>1, <2>1 DEF Worker
<1>5. TypeOK'
  BY <1>0, <1>1, <1>2, <1>3, <1>4 DEF TypeOK, LoopSteps
<1>6. NoOrphanedWaiter'
  <2>1. sup.restarting \in BOOLEAN /\ sup'.restarting \in BOOLEAN
    BY <1>0, <1>2 DEF TypeOK, Supervisor
  <2>2. Wakes(sup, sup')
    BY <1>2 DEF Wakes
  <2> QED BY <1>0, <1>1, <2>1, <2>2, WaitersMove
<1>7. OpenMeansServed' /\ Slots'
  BY <1>1, <1>2, <1>3 DEF OpenMeansServed, Slots
<1> QED BY <1>1, <1>2, <1>3, <1>5, <1>6, <1>7

\* A reply ends the call of a caller that still waits for it.
LEMMA RepliedFacts ==
    ASSUME call \in [Call -> CallState], NEW c \in Call, NEW a \in Answers,
           call' = Replied(c, a, FALSE)
    PROVE  /\ call' \in [Call -> CallState] /\ \A d \in Call \ {c} : call'[d] = call[d]
           /\ call'[c].started = call[c].started /\ call'[c].cancelled = call[c].cancelled
           /\ \/ call'[c] = call[c] /\ call[c].pc # "receiving"
              \/ call'[c].pc = "done" /\ ~call'[c].safe
<1>1. CASE call[c].pc = "receiving"
  <2>1. call' = Answered(c, a, FALSE)
    BY <1>1 DEF Replied
  <2> QED BY <2>1, AnsweredFacts
<1>2. CASE call[c].pc # "receiving"
  BY <1>2 DEF Replied
<1> QED BY <1>1, <1>2

LEMMA TakenApart ==
    ASSUME CallsSound, NEW request, NEW taken, Takes(request, taken), stream' = taken,
           NEW d \in Call
    PROVE  SlotsKept(d) /\ (d = request => ~Queued(d)')
BY TakesKeeps DEF SlotsKept, Queued

LEMMA HandleInv ==
    ASSUME IInv, NEW request \in Request, NEW taken \in Stream, Takes(request, taken),
           Handle(request, taken), UNCHANGED << asked, source, executed >>
    PROVE  IInv'
<1>0. TypeOK /\ CallsSound
  BY DEF IInv, WaitersServed
<1> DEFINE next == [sup EXCEPT !.reloaded = FALSE]
           deferred == [next EXCEPT !.requested = @ \/ IsReloadNeeded(request)]
<1>1. /\ sup \in Supervisor /\ loop # "down" /\ sup.serving = None
      /\ \A c \in Call : CallSound(c)
  BY <1>0, TypeParts DEF Takes, CallsSound
<1>2. /\ next \in Supervisor /\ next.restarting = sup.restarting
      /\ next.attached = sup.attached /\ next.woken = sup.woken
      /\ next.isolated = sup.isolated /\ next.lost = sup.lost /\ next.loaded = sup.loaded
      /\ next.serving = None /\ next.active = sup.active
  BY <1>1 DEF Supervisor
<1>3. /\ deferred \in Supervisor /\ deferred.restarting = sup.restarting
      /\ deferred.attached = sup.attached /\ deferred.woken = sup.woken
      /\ deferred.isolated = sup.isolated /\ deferred.lost = sup.lost
      /\ deferred.loaded = sup.loaded /\ deferred.serving = None
      /\ deferred.active = sup.active
  <2>1. PICK b \in BOOLEAN : deferred = [next EXCEPT !.requested = b]
    BY <1>2 DEF Supervisor
  <2> HIDE DEF next, deferred
  <2> QED BY <1>2, <2>1 DEF Supervisor
<1>4. \/ /\ loop' = "ready" /\ sup' = next /\ stream' = taken /\ UNCHANGED << call, worker >>
      \/ /\ request \in Call
         /\ call' \in {call, Replied(request, "transport_lost", FALSE)}
         /\ loop' = "ready" /\ sup' = next /\ stream' = taken /\ UNCHANGED worker
      \/ PlannedRestart(next, taken, Kept(request))
      \/ /\ request \in Call /\ ~IsSkipped(request)
         /\ call' = [call EXCEPT ![request] = [@ EXCEPT !.started = TRUE]]
         /\ sup' = Started(deferred, request, sup.reloaded)
         /\ loop' = "ready" /\ stream' = taken /\ UNCHANGED worker
      \/ /\ request \in Reload
         /\ sup' = [deferred EXCEPT !.serving = request,
                                    !.flagged = IF sup.reloaded THEN @ \cup {request} ELSE @]
         /\ loop' = "reloading" /\ stream' = taken /\ UNCHANGED << call, worker >>
  BY DEF Handle
<1> HIDE DEF next, deferred
<1>5. CASE /\ loop' = "ready" /\ sup' = next /\ stream' = taken /\ UNCHANGED << call, worker >>
  <2>1. TypeOK'
    BY <1>0, <1>2, <1>5 DEF TypeOK, LoopSteps
  <2>2. NoOrphanedWaiter' /\ OpenMeansServed' /\ Slots'
    BY <1>2, <1>5, <2>1, TakenParts
  <2>3. CallsSound'
    BY <1>0, <1>1, <1>2, <1>5, TakenApart, CallsApart
  <2> QED BY <2>1, <2>2, <2>3 DEF IInv, WaitersServed
<1>6. CASE /\ request \in Call
           /\ call' \in {call, Replied(request, "transport_lost", FALSE)}
           /\ loop' = "ready" /\ sup' = next /\ stream' = taken /\ UNCHANGED worker
  <2>1. /\ call' \in [Call -> CallState]
        /\ \A d \in Call \ {request} : call'[d] = call[d]
        /\ call'[request].started = call[request].started
        /\ call'[request].cancelled = call[request].cancelled
        /\ call'[request] = call[request] \/
              (call'[request].pc = "done" /\ ~call'[request].safe)
    <3>1. "transport_lost" \in Answers
      BY DEF Answers
    <3> QED BY <1>0, <1>6, <3>1, RepliedFacts, TypeParts
  <2>2. TypeOK'
    BY <1>0, <1>2, <1>6, <2>1 DEF TypeOK, LoopSteps
  <2>3. NoOrphanedWaiter' /\ OpenMeansServed' /\ Slots'
    <3>1. \A d \in Call : call'[d].pc = "waiting" => call[d].pc = "waiting"
      BY <1>6, <2>1
    <3> QED BY <1>2, <1>6, <2>2, <3>1, TakenParts
  <2>4. ASSUME NEW d \in Call PROVE CallSound(d)'
    <3>1. CallSound(d) /\ SlotsKept(d) /\ (d = request => ~Queued(d)')
      BY <1>0, <1>1, <1>6, TakenApart
    <3>2. CASE call'[d] = call[d]
      BY <1>1, <1>2, <1>6, <3>1, <3>2, ApartSound DEF Apart
    <3>3. CASE d = request /\ call'[d].pc = "done" /\ ~call'[d].safe
      BY <1>2, <1>6, <2>1, <3>1, <3>3 DEF CallSound, Queued, SlotsKept
    <3> QED BY <2>1, <3>2, <3>3
  <2> QED BY <2>2, <2>3, <2>4 DEF IInv, WaitersServed, CallsSound
<1>7. CASE PlannedRestart(next, taken, Kept(request))
  <2>1. /\ Kept(request) \in Call \cup Reload \cup {None}
        /\ Kept(request) \in {request, None}
    BY DEF Kept, Request
  <2>2. /\ TypeOK' /\ NoOrphanedWaiter' /\ OpenMeansServed' /\ Slots'
        /\ sup'.active = sup.active /\ loop' = "top" /\ call' = call
        /\ stream'.inbox = taken.inbox /\ stream'.buffer = taken.buffer
        /\ stream'.pending = Kept(request)
    <3>1. asked' \in [Reload -> {"new", "unknown", "deferred", "waiting", "answered", "ended"}]
      BY <1>0 DEF TypeOK
    <3> QED BY <1>1, <1>2, <1>7, <2>1, <3>1, PlannedParts
  <2>3. ASSUME NEW d \in Call PROVE CallSound(d)'
    <3>1. /\ CallSound(d) /\ d # None
          /\ taken.inbox = d => stream.inbox = d
          /\ taken.buffer = d => stream.buffer = d
          /\ d = request => taken.inbox # d /\ taken.buffer # d /\ Queued(d)
      BY <1>0, <1>1, TakesKeeps, Names
    <3>2. CASE d # request
      <4>1. Apart(d)
        BY <2>1, <2>2, <3>1, <3>2 DEF Apart, SlotsKept
      <4> QED BY <1>1, <3>1, <4>1, ApartSound
    <3>3. CASE d = request
      BY <1>1, <2>2, <3>1, <3>3 DEF CallSound, Queued
    <3> QED BY <3>2, <3>3
  <2> QED BY <2>2, <2>3 DEF IInv, WaitersServed, CallsSound
<1>8. CASE /\ request \in Call /\ ~IsSkipped(request)
           /\ call' = [call EXCEPT ![request] = [@ EXCEPT !.started = TRUE]]
           /\ sup' = Started(deferred, request, sup.reloaded)
           /\ loop' = "ready" /\ stream' = taken /\ UNCHANGED worker
  <2>1. /\ call' \in [Call -> CallState]
        /\ \A d \in Call \ {request} : call'[d] = call[d]
        /\ call'[request].pc = call[request].pc /\ call'[request].safe = call[request].safe
        /\ call'[request].started /\ call'[request].cancelled = call[request].cancelled
    BY <1>0, <1>8, StartFacts, TypeParts
  <2>2. /\ sup' \in Supervisor /\ sup'.restarting = sup.restarting
        /\ sup'.attached = sup.attached /\ sup'.woken = sup.woken
        /\ sup'.isolated = sup.isolated /\ sup'.lost = sup.lost
        /\ sup'.loaded = sup.loaded /\ sup'.serving = None
        /\ sup'.active = sup.active \cup {request}
    BY <1>3, <1>8 DEF Started, Supervisor
  <2>3. TypeOK'
    BY <1>0, <1>8, <2>1, <2>2 DEF TypeOK, LoopSteps
  <2>4. NoOrphanedWaiter' /\ OpenMeansServed' /\ Slots'
    <3>1. \A d \in Call : call'[d].pc = "waiting" => call[d].pc = "waiting"
      BY <1>8, <2>1
    <3> QED BY <1>8, <2>2, <2>3, <3>1, TakenParts
  <2>5. ASSUME NEW d \in Call PROVE CallSound(d)'
    <3>1. CallSound(d) /\ SlotsKept(d) /\ (d = request => ~Queued(d)')
      BY <1>0, <1>1, <1>8, TakenApart
    <3>2. CASE d # request
      BY <1>1, <1>8, <2>1, <2>2, <3>1, <3>2, ApartSound DEF Apart
    <3>3. CASE d = request
      <4>1. Queued(d) /\ ~call[d].cancelled
        BY <1>0, <1>8, <3>3, TakesKeeps DEF IsSkipped
      <4> QED BY <1>1, <2>1, <3>1, <3>3, <4>1, StartSound
    <3> QED BY <3>2, <3>3
  <2> QED BY <2>3, <2>4, <2>5 DEF IInv, WaitersServed, CallsSound
<1>9. CASE /\ request \in Reload
           /\ sup' = [deferred EXCEPT !.serving = request,
                                      !.flagged = IF sup.reloaded THEN @ \cup {request} ELSE @]
           /\ loop' = "reloading" /\ stream' = taken /\ UNCHANGED << call, worker >>
  <2>1. /\ sup' \in Supervisor /\ sup'.restarting = sup.restarting
        /\ sup'.attached = sup.attached /\ sup'.woken = sup.woken
        /\ sup'.isolated = sup.isolated /\ sup'.lost = sup.lost
        /\ sup'.loaded = sup.loaded /\ sup'.active = sup.active
    BY <1>3, <1>9 DEF Supervisor
  <2>2. TypeOK'
    BY <1>0, <1>9, <2>1 DEF TypeOK, LoopSteps
  <2>3. NoOrphanedWaiter' /\ OpenMeansServed' /\ Slots'
    BY <1>9, <2>1, <2>2, TakenParts
  <2>4. CallsSound'
    BY <1>0, <1>1, <1>9, <2>1, TakenApart, CallsApart
  <2> QED BY <2>2, <2>3, <2>4 DEF IInv, WaitersServed
<1> QED BY <1>4, <1>5, <1>6, <1>7, <1>8, <1>9

LEMMA TakeRequestInv ==
    ASSUME IInv, TakeRequest
    PROVE  IInv'
BY TakeFacts, HandleInv

LEMMA FinishReloadInv ==
    ASSUME IInv, FinishReload
    PROVE  IInv'
<1>0. TypeOK /\ CallsSound /\ NoOrphanedWaiter /\ OpenMeansServed /\ Slots
  BY DEF IInv, WaitersServed
<1> DEFINE next == [sup EXCEPT !.serving = None, !.flagged = @ \ {sup.serving}]
<1>1. /\ loop = "reloading" /\ ~sup.isolated /\ UNCHANGED << source, executed >>
      /\ stream.pending = None
  BY <1>0 DEF FinishReload, Slots
<1>2. asked' \in [Reload -> {"new", "unknown", "deferred", "waiting", "answered", "ended"}]
  BY <1>0 DEF FinishReload, TypeOK
<1>3. \/ PlannedRestart(next, stream, None)
      \/ sup' = next /\ loop' = "ready" /\ UNCHANGED << stream, call, worker >>
  BY DEF FinishReload
<1>4. /\ next \in Supervisor /\ next.restarting = sup.restarting
      /\ next.attached = sup.attached /\ next.woken = sup.woken
      /\ next.isolated = sup.isolated /\ next.lost = sup.lost /\ next.loaded = sup.loaded
      /\ next.serving = None /\ next.active = sup.active
  <2>1. sup \in Supervisor
    BY <1>0, TypeParts
  <2> QED BY <2>1 DEF Supervisor
<1> HIDE DEF next
<1>5. CASE PlannedRestart(next, stream, None)
  <2>1. stream \in Stream
    BY <1>0, TypeParts
  <2>2. /\ TypeOK' /\ NoOrphanedWaiter' /\ OpenMeansServed' /\ Slots'
        /\ sup'.active = sup.active /\ loop' = "top" /\ call' = call
        /\ stream'.inbox = stream.inbox /\ stream'.buffer = stream.buffer
        /\ stream'.pending = None
    BY <1>1, <1>2, <1>4, <1>5, <2>1, PlannedParts
  <2>3. \A d \in Call : SlotsKept(d)
    BY <1>1, <2>2 DEF SlotsKept
  <2>4. CallsSound'
    BY <1>0, <1>1, <2>2, <2>3, CallsApart
  <2> QED BY <2>2, <2>4 DEF IInv, WaitersServed
<1>6. CASE sup' = next /\ loop' = "ready" /\ UNCHANGED << stream, call, worker >>
  <2>1. TypeOK'
    BY <1>0, <1>1, <1>2, <1>4, <1>6 DEF TypeOK, LoopSteps
  <2>2. NoOrphanedWaiter' /\ OpenMeansServed' /\ Slots'
    BY <1>0, <1>1, <1>4, <1>6 DEF NoOrphanedWaiter, OpenMeansServed, Slots
  <2>3. CallsSound'
    BY <1>0, <1>1, <1>4, <1>6, CallsApart DEF SlotsKept
  <2> QED BY <2>1, <2>2, <2>3 DEF IInv, WaitersServed
<1> QED BY <1>3, <1>5, <1>6

-----------------------------------------------------------------------------
(* The responders.                                                         *)

\* A responder ends, perhaps with an answer, perhaps with the transport lost.
LEMMA ResponderEnds ==
    ASSUME IInv, NEW c \in sup.active, NEW s \in Supervisor, NEW a \in Answers,
           Wakes(sup, s), SameCycle(sup, s), s = sup \/ s.restarting,
           sup' = Finished(s, c), call' \in {call, Replied(c, a, FALSE)},
           stream' = SignalledQuiescence(c),
           UNCHANGED << asked, loop, source, worker, executed >>
    PROVE  IInv'
<1>0. TypeOK /\ CallsSound /\ NoOrphanedWaiter /\ OpenMeansServed /\ Slots
  BY DEF IInv, WaitersServed
<1>1. c \in Call /\ sup \in Supervisor /\ stream \in Stream
  BY <1>0, TypeParts DEF Supervisor
<1>2. /\ sup' \in Supervisor
      /\ sup'.restarting \/
            (sup'.restarting = s.restarting /\ sup'.isolated = s.isolated)
      /\ Wakes(s, sup') /\ sup'.loaded = s.loaded /\ sup'.serving = s.serving
      /\ sup'.reloaded = s.reloaded /\ sup'.lost = s.lost
      /\ sup'.active = s.active \ {c}
  BY <1>1, FinishedFacts
<1>3. /\ stream' \in Stream /\ stream'.pending = stream.pending
      /\ \A d \in Call : SlotsKept(d)
  <2>1. stream' = stream \/ SentInto(Quiesced)
    BY <1>1, SignalFacts
  <2>2. CASE stream' = stream
    BY <1>1, <2>2 DEF SlotsKept
  <2>3. CASE SentInto(Quiesced)
    BY <2>3, SentKeeps, Names DEF SentInto
  <2> QED BY <2>1, <2>2, <2>3
<1>4. /\ call' \in [Call -> CallState] /\ \A d \in Call \ {c} : call'[d] = call[d]
      /\ call'[c].started = call[c].started /\ call'[c].cancelled = call[c].cancelled
      /\ call'[c] = call[c] \/ (call'[c].pc = "done" /\ ~call'[c].safe)
  BY <1>0, <1>1, RepliedFacts, TypeParts
<1>5. TypeOK'
  BY <1>0, <1>2, <1>3, <1>4 DEF TypeOK
<1>6. NoOrphanedWaiter'
  <2>1. /\ sup.restarting \in BOOLEAN /\ sup'.restarting \in BOOLEAN
        /\ s.restarting \in BOOLEAN
    BY <1>1, <1>2 DEF Supervisor
  <2>2. Wakes(sup, sup')
    BY <1>2, <2>1 DEF Wakes
  <2>3. \A d \in Call : call'[d].pc = "waiting" => call[d].pc = "waiting"
    BY <1>4
  <2> QED BY <1>0, <2>1, <2>2, <2>3, WaitersMove
<1>7. OpenMeansServed'
  <2>1. CASE s = sup
    BY <1>0, <1>2, <2>1 DEF OpenMeansServed
  <2>2. CASE s.restarting
    BY <1>2, <2>2 DEF OpenMeansServed
  <2> QED BY <2>1, <2>2
<1>8. Slots'
  BY <1>0, <1>2, <1>3 DEF Slots, SameCycle
<1>9. sup'.active \subseteq sup.active
  BY <1>2 DEF SameCycle
<1>10. ASSUME NEW d \in Call PROVE CallSound(d)'
  <2>1. CallSound(d) /\ SlotsKept(d)
    BY <1>0, <1>3 DEF CallsSound
  <2>2. CASE call'[d] = call[d]
    BY <1>9, <2>1, <2>2, ApartSound DEF Apart
  <2>3. CASE d = c /\ call'[d].pc = "done" /\ ~call'[d].safe
    <3>1. ~Queued(d) \/ call[d].cancelled \/ loop = "down"
      BY <2>1, <2>3 DEF CallSound
    <3> QED BY <1>4, <1>9, <2>1, <2>3, <3>1, EndedSound
  <2> QED BY <1>4, <2>2, <2>3
<1> QED BY <1>5, <1>6, <1>7, <1>8, <1>10 DEF IInv, WaitersServed, CallsSound

LEMMA ResponderInv ==
    ASSUME IInv, NEW c \in Call, Responder(c)
    PROVE  IInv'
<1>1. sup \in Supervisor
  BY TypeParts DEF IInv, WaitersServed
<1>2. Wakes(sup, sup) /\ SameCycle(sup, sup) /\ {"result", "transport_lost"} \subseteq Answers
  BY WakesSelf DEF SameCycle, Answers
<1>3. CASE Respond(c) \/ CancelResponder(c)
  <2>1. /\ c \in sup.active /\ sup' = Finished(sup, c)
        /\ call' \in {call, Replied(c, "result", FALSE)}
        /\ stream' = SignalledQuiescence(c)
        /\ UNCHANGED << asked, loop, source, worker, executed >>
    BY <1>3 DEF Respond, CancelResponder
  <2> QED BY <1>1, <1>2, <2>1, ResponderEnds
<1>4. CASE LoseTransport(c)
  <2> DEFINE s == [BeginRestart(sup) EXCEPT !.lost = TRUE]
  <2>1. /\ c \in sup.active /\ sup' = Finished(s, c)
        /\ call' \in {call, Replied(c, "transport_lost", FALSE)}
        /\ stream' = SignalledQuiescence(c)
        /\ UNCHANGED << asked, loop, source, worker, executed >>
    BY <1>4 DEF LoseTransport
  <2>2. s \in Supervisor /\ Wakes(sup, s) /\ SameCycle(sup, s) /\ s.restarting
    <3> DEFINE r == BeginRestart(sup)
    <3>1. /\ r \in Supervisor /\ r.restarting /\ Wakes(sup, r) /\ SameCycle(sup, r)
      BY <1>1, BeginRestartFacts
    <3>2. s = [r EXCEPT !.lost = TRUE]
      OBVIOUS
    <3> HIDE DEF r, s
    <3> QED BY <3>1, <3>2 DEF Supervisor, Wakes, SameCycle
  <2> HIDE DEF s
  <2> QED BY <1>2, <2>1, <2>2, ResponderEnds
<1> QED BY <1>3, <1>4 DEF Responder

-----------------------------------------------------------------------------
(* The invariant.                                                          *)

LEMMA InitInv == Init => IInv
<1> SUFFICES ASSUME Init PROVE IInv
  OBVIOUS
<1>1. TypeOK
  <2>1. 0 \in Version
    BY CallAssumption DEF Version
  <2>2. [pc |-> "new", started |-> FALSE, cancelled |-> FALSE, answer |-> "none",
         safe |-> FALSE] \in CallState
    BY DEF CallState, CallSteps, Answers
  <2>3. call \in [Call -> CallState]
    BY <2>2 DEF Init
  <2>4. stream \in Stream /\ sup \in Supervisor /\ worker \in Worker /\ source \in Version
    BY <2>1 DEF Init, Stream, Supervisor, Worker
  <2> QED BY <2>3, <2>4 DEF Init, TypeOK, LoopSteps
<1>2. NoOrphanedWaiter /\ OpenMeansServed /\ Slots
  BY DEF Init, NoOrphanedWaiter, OpenMeansServed, Slots
<1>3. CallsSound
  BY Names DEF Init, CallsSound, CallSound, Queued
<1> QED BY <1>1, <1>2, <1>3 DEF IInv, WaitersServed

LEMMA StutterInv == IInv /\ UNCHANGED vars => IInv'
<1> SUFFICES ASSUME IInv, UNCHANGED vars PROVE IInv'
  OBVIOUS
<1>1. UNCHANGED << call, asked, loop, stream, sup, source, worker, executed >>
  BY DEF vars
<1> QED BY <1>1 DEF IInv, WaitersServed, TypeOK, NoOrphanedWaiter, OpenMeansServed,
                CallsSound, CallSound, Queued, Slots

LEMMA NextInv == IInv /\ [Next]_vars => IInv'
<1> SUFFICES ASSUME IInv, [Next]_vars PROVE IInv'
  OBVIOUS
<1>1. CASE Serve
  <2>1. ReloadFails => Down
    BY DEF ReloadFails
  <2> QED BY <1>1, <2>1, BeginCycleInv, OpenedInv, CycleCancelledInv, WaitForRequestInv,
             TakeRequestInv, FinishReloadInv, DownInv DEF Serve
<1>2. CASE OpenFails
  BY <1>2, DownInv DEF OpenFails
<1>3. ASSUME NEW c \in Call, CallTool(c) PROVE IInv'
  BY <1>3, CallToolInv
<1>4. ASSUME NEW c \in Call, Caller(c) PROVE IInv'
  <2>1. /\ Submit(c) /\ call[c].pc \in {"new", "waiting", "sending"}
        /\ UNCHANGED << asked, loop, sup, source, worker, executed >>
    BY <1>4 DEF Caller, Proceed, SendQueued
  <2> QED BY <2>1, SubmitInv
<1>5. ASSUME NEW c \in Call, NEW a \in {"timeout", "cancelled"},
             GiveUpWaiting(c, a) \/ GiveUp(c, a)
      PROVE  IInv'
  BY <1>5, GiveUpWaitingInv, GiveUpInv
<1>6. ASSUME NEW c \in Call, Execute(c) PROVE IInv'
  BY <1>6, EnvironmentInv
<1>7. ASSUME NEW c \in Call, Responder(c) PROVE IInv'
  BY <1>7, ResponderInv
<1>8. ASSUME NEW r \in Reload, AskReload(r) PROVE IInv'
  BY <1>8, AskReloadInv
<1>9. CASE ChangeSource \/ CrashWorker
  BY <1>9, EnvironmentInv
<1>10. CASE UNCHANGED vars
  BY <1>10, StutterInv
<1> QED BY <1>1, <1>2, <1>3, <1>4, <1>5, <1>6, <1>7, <1>8, <1>9, <1>10 DEF Next, Expire

\* The invariant holds in every state the supervisor reaches.
THEOREM Inductive == Spec => []IInv
<1>1. Init => IInv
  BY InitInv
<1>2. IInv /\ [Next]_vars => IInv'
  BY NextInv
<1> QED BY <1>1, <1>2, PTL DEF Spec

\* Every waiting call has an event that will be set, or is set, and calls are let
\* in only where a loop serves them: call_tool and _serve, for every number of
\* calls and reloads.
THEOREM WaitersServedHolds == Spec => []WaitersServed
<1>1. IInv => WaitersServed
  BY DEF IInv
<1> QED BY <1>1, Inductive, PTL

\* A caller that is told it may repeat a call that writes the document is told the
\* truth: no worker has executed the call, at no later time either.
THEOREM RetrySafeHolds == Spec => []RetrySafe
<1>1. IInv => RetrySafe
  BY DEF IInv, CallsSound, CallSound, RetrySafe
<1> QED BY <1>1, Inductive, PTL

-----------------------------------------------------------------------------
(* The order of the cycles.                                                *)

\* The steps of a cycle that hold on to what the loop serves, and start nothing.
Steady ==
    /\ sup'.active \subseteq sup.active
    /\ sup'.serving = sup.serving
    /\ loop' = loop \/ loop' # "top"
    /\ stream' = stream \/ \E x \in Request : SentInto(x)

LEMMA SteadySteps ==
    ASSUME IInv, [Next]_vars
    PROVE  \/ Steady
           \/ Down \/ (\E code \in Version : Opened(code)) \/ CycleCancelled
           \/ TakeRequest \/ FinishReload
<1>1. sup \in Supervisor /\ stream \in Stream
  BY TypeParts DEF IInv, WaitersServed
<1>2. ASSUME UNCHANGED << loop, sup, stream >> PROVE Steady
  BY <1>2 DEF Steady
<1>3. CASE BeginCycle
  BY <1>1, <1>3 DEF BeginCycle, Steady, Supervisor
<1>4. CASE WaitForRequest \/ ChangeSource \/ CrashWorker \/ UNCHANGED vars
  BY <1>4 DEF WaitForRequest, ChangeSource, CrashWorker, vars, Steady
<1>5. ASSUME NEW c \in Call, Submit(c), UNCHANGED << loop, sup >> PROVE Steady
  <2>1. stream' = stream \/ (HasRoom /\ stream' = Sent(c))
    BY <1>5 DEF Submit
  <2> QED BY <1>1, <1>5, <2>1, SentFacts, Names DEF Steady
<1>6. ASSUME sup' = Isolation(sup), UNCHANGED << loop, stream >> PROVE Steady
  BY <1>1, <1>6, IsolationFacts DEF Steady, SameCycle
<1>7. ASSUME NEW c \in Call, CallTool(c) PROVE Steady
  <2>1. CASE sup' = Isolation(sup) /\ UNCHANGED << loop, stream >>
    BY <1>6, <2>1
  <2>2. CASE sup' = [sup EXCEPT !.attached = @ \cup {c}] /\ UNCHANGED << loop, stream >>
    BY <1>1, <2>2 DEF Steady, Supervisor
  <2>3. CASE Submit(c) /\ UNCHANGED << loop, sup >>
    BY <1>5, <2>3
  <2> QED BY <1>7, <2>1, <2>2, <2>3 DEF CallTool
<1>8. ASSUME NEW c \in Call, Caller(c) PROVE Steady
  BY <1>5, <1>8 DEF Caller, Proceed, SendQueued
<1>9. ASSUME NEW c \in Call, NEW a \in {"timeout", "cancelled"},
             GiveUpWaiting(c, a) \/ GiveUp(c, a)
      PROVE  Steady
  <2>1. UNCHANGED << loop, stream >> /\ sup' \in {sup, Isolation(sup)}
    BY <1>9 DEF GiveUpWaiting, GiveUp
  <2> QED BY <1>2, <1>6, <2>1 DEF Steady
<1>10. ASSUME NEW c \in Call, Execute(c) PROVE Steady
  BY <1>10 DEF Execute, Steady
<1>11. ASSUME NEW c \in Call, Responder(c) PROVE Steady
  <2>1. PICK s \in {sup, [BeginRestart(sup) EXCEPT !.lost = TRUE]} :
           sup' = Finished(s, c) /\ stream' = SignalledQuiescence(c) /\ UNCHANGED loop
    BY <1>11 DEF Responder, Respond, LoseTransport, CancelResponder
  <2>2. s \in Supervisor /\ s.active = sup.active /\ s.serving = sup.serving
    <3>1. BeginRestart(sup) \in Supervisor /\ SameCycle(sup, BeginRestart(sup))
      BY <1>1, BeginRestartFacts
    <3> QED BY <1>1, <2>1, <3>1 DEF Supervisor, SameCycle
  <2>3. sup'.active = s.active \ {c} /\ sup'.serving = s.serving
    BY <2>1, <2>2, FinishedFacts
  <2>4. stream' = stream \/ \E x \in Request : SentInto(x)
    BY <1>1, <2>1, SignalFacts, Names
  <2> QED BY <2>1, <2>2, <2>3, <2>4 DEF Steady
<1>12. ASSUME NEW r \in Reload, AskReload(r) PROVE Steady
  <2>1. CASE sup' = [sup EXCEPT !.requested = TRUE] /\ UNCHANGED << loop, stream >>
    BY <1>1, <2>1 DEF Steady, Supervisor
  <2>2. CASE HasRoom /\ stream' = Sent(r) /\ UNCHANGED << loop, sup >>
    BY <1>1, <2>2, SentFacts, Names DEF Steady
  <2> QED BY <1>2, <1>12, <2>1, <2>2 DEF AskReload
<1> QED BY <1>3, <1>4, <1>7, <1>8, <1>9, <1>10, <1>11, <1>12
        DEF Next, Serve, Expire, OpenFails, ReloadFails

\* What makes a call start: it was in the stream, had not given up, and was either
\* kept over a reload or taken by a loop whose worker is current.
StartsRightly ==
    \A c \in sup'.active \ sup.active :
        /\ ~call[c].started
        /\ sup.lost => ~sup'.lost
        /\ ~IsBusy(sup) /\ c \notin sup'.flagged => worker'.code = source

LEMMA OpenedStarts ==
    ASSUME IInv, NEW code \in Version, Opened(code)
    PROVE  StartsRightly
<1>0. TypeOK /\ CallsSound /\ Slots /\ sup \in Supervisor
  BY TypeParts DEF IInv, WaitersServed
<1> DEFINE kept == stream.pending
           ready == [sup EXCEPT !.restarting = FALSE, !.lost = FALSE,
                                !.woken = @ \cup sup.attached,
                                !.reloaded = @ /\ kept = None]
<1>1. /\ ready \in Supervisor /\ ~ready.lost /\ ready.active = sup.active
      /\ ready.flagged = sup.flagged
  BY <1>0 DEF Supervisor
<1>2. \/ /\ kept \in Call /\ ~call[kept].cancelled /\ sup' = Started(ready, kept, sup.reloaded)
      \/ /\ kept \in Reload
         /\ sup' = [ready EXCEPT !.serving = kept,
                                 !.flagged = IF sup.reloaded THEN @ \cup {kept} ELSE @]
      \/ sup' = ready
  BY DEF Opened
<1> HIDE DEF ready
<1>3. CASE /\ kept \in Call /\ ~call[kept].cancelled
           /\ sup' = Started(ready, kept, sup.reloaded)
  <2>1. kept # None /\ CallSound(kept) /\ Queued(kept) /\ loop # "down"
    BY <1>0, <1>3, Names DEF CallsSound, Queued, Opened
  <2>2. ~call[kept].started /\ sup.reloaded
    BY <1>0, <1>3, <2>1 DEF CallSound, Slots
  <2>3. /\ sup'.active = sup.active \cup {kept} /\ ~sup'.lost /\ kept \in sup'.flagged
    BY <1>1, <1>3, <2>2 DEF Started, Supervisor
  <2> QED BY <2>2, <2>3 DEF StartsRightly
<1>4. CASE sup' = [ready EXCEPT !.serving = kept,
                                !.flagged = IF sup.reloaded THEN @ \cup {kept} ELSE @]
  BY <1>1, <1>4 DEF StartsRightly, Supervisor
<1>5. CASE sup' = ready
  BY <1>1, <1>5 DEF StartsRightly
<1> QED BY <1>2, <1>3, <1>4, <1>5

LEMMA TakenStarts ==
    ASSUME IInv, NEW request \in Request, NEW taken \in Stream, Takes(request, taken),
           Handle(request, taken)
    PROVE  StartsRightly
<1>0. TypeOK /\ CallsSound /\ Slots /\ sup \in Supervisor /\ loop # "down"
  BY TypeParts DEF IInv, WaitersServed, Takes
<1> DEFINE next == [sup EXCEPT !.reloaded = FALSE]
           deferred == [next EXCEPT !.requested = @ \/ IsReloadNeeded(request)]
<1>1. next \in Supervisor /\ next.active = sup.active /\ next.flagged = sup.flagged
  BY <1>0 DEF Supervisor
<1>2. /\ deferred \in Supervisor /\ deferred.active = sup.active
      /\ deferred.flagged = sup.flagged
  <2>1. PICK b \in BOOLEAN : deferred = [next EXCEPT !.requested = b]
    BY <1>1 DEF Supervisor
  <2> HIDE DEF next, deferred
  <2> QED BY <1>1, <2>1 DEF Supervisor
<1>3. \/ sup' = next
      \/ sup' = Reloading(next)
      \/ /\ request \in Call /\ ~IsSkipped(request) /\ ~IsRefused(request)
         /\ IsReloadNeeded(request) => IsBusy(sup)
         /\ sup' = Started(deferred, request, sup.reloaded) /\ UNCHANGED worker
      \/ sup' = [deferred EXCEPT !.serving = request,
                                 !.flagged = IF sup.reloaded THEN @ \cup {request} ELSE @]
  BY DEF Handle, PlannedRestart
<1> HIDE DEF next, deferred
<1>4. CASE sup' = next
  BY <1>1, <1>4 DEF StartsRightly
<1>5. CASE sup' = Reloading(next)
  <2>1. sup'.active = next.active
    BY <1>1, <1>5, ReloadingFacts
  <2> QED BY <1>1, <2>1 DEF StartsRightly
<1>6. CASE /\ request \in Call /\ ~IsSkipped(request) /\ ~IsRefused(request)
           /\ IsReloadNeeded(request) => IsBusy(sup)
           /\ sup' = Started(deferred, request, sup.reloaded) /\ UNCHANGED worker
  <2>1. CallSound(request) /\ Queued(request) /\ ~call[request].cancelled /\ ~sup.lost
    BY <1>0, <1>6, TakesKeeps DEF CallsSound, IsSkipped, IsRefused
  <2>2. ~call[request].started
    BY <1>0, <2>1 DEF CallSound
  <2>3. /\ sup'.active = sup.active \cup {request}
        /\ sup.reloaded => request \in sup'.flagged
    BY <1>2, <1>6 DEF Started, Supervisor
  <2>4. ASSUME ~IsBusy(sup), request \notin sup'.flagged PROVE worker'.code = source
    <3>1. source = sup.loaded
      BY <1>6, <2>3, <2>4 DEF IsReloadNeeded, SourceChanged
    <3>2. sup.loaded <= worker.code /\ worker.code <= source
      BY <1>0 DEF Slots, Takes
    <3>3. worker.code \in Int /\ source \in Int
      BY <1>0, CallAssumption DEF TypeOK, Worker, Version
    <3> QED BY <1>6, <3>1, <3>2, <3>3
  <2> QED BY <2>1, <2>2, <2>3, <2>4 DEF StartsRightly
<1>7. CASE sup' = [deferred EXCEPT !.serving = request,
                                   !.flagged = IF sup.reloaded THEN @ \cup {request} ELSE @]
  BY <1>2, <1>7 DEF StartsRightly, Supervisor
<1> QED BY <1>3, <1>4, <1>5, <1>6, <1>7

LEMMA StepStarts ==
    ASSUME IInv, [Next]_vars
    PROVE  StartsRightly
<1>1. CASE sup'.active \subseteq sup.active
  BY <1>1 DEF StartsRightly
<1>2. CASE Steady \/ Down \/ CycleCancelled \/ FinishReload
  <2>1. sup \in Supervisor
    BY TypeParts DEF IInv, WaitersServed
  <2>2. CASE Steady \/ Down
    BY <1>1, <2>2 DEF Steady, Down
  <2>3. CASE CycleCancelled
    <3>1. sup'.active = sup.active
      BY <2>1, <2>3 DEF CycleCancelled, Supervisor
    <3> QED BY <1>1, <3>1
  <2>4. CASE FinishReload
    <3> DEFINE next == [sup EXCEPT !.serving = None, !.flagged = @ \ {sup.serving}]
    <3>1. next \in Supervisor /\ next.active = sup.active
      BY <2>1 DEF Supervisor
    <3>2. sup' = next \/ sup' = Reloading(next)
      BY <2>4 DEF FinishReload, PlannedRestart
    <3> HIDE DEF next
    <3>3. sup'.active = sup.active
      BY <3>1, <3>2, ReloadingFacts
    <3> QED BY <1>1, <3>3
  <2> QED BY <1>2, <2>2, <2>3, <2>4
<1>3. ASSUME NEW code \in Version, Opened(code) PROVE StartsRightly
  BY <1>3, OpenedStarts
<1>4. CASE TakeRequest
  BY <1>4, TakeFacts, TakenStarts
<1> QED BY <1>2, <1>3, <1>4, SteadySteps

LEMMA StepAwaits ==
    ASSUME IInv, [Next]_vars, loop # "top", loop' = "top"
    PROVE  sup.active = {}
<1>1. CASE Steady \/ Down
  BY <1>1 DEF Steady, Down
<1>2. ASSUME NEW code \in Version, Opened(code) PROVE FALSE
  BY <1>2 DEF Opened
<1>3. CASE CycleCancelled
  BY <1>3 DEF CycleCancelled
<1>4. CASE TakeRequest
  <2>1. PICK request \in Request, taken \in Stream : Handle(request, taken)
    BY <1>4, TakeFacts
  <2>2. ~IsBusy(sup)
    BY <2>1 DEF Handle, IsStaleQuiescence
  <2> QED BY <2>2 DEF IsBusy
<1>5. CASE FinishReload
  BY <1>5 DEF FinishReload
<1> QED BY <1>1, <1>2, <1>3, <1>4, <1>5, SteadySteps

\* A reload that is held stays held, is answered, or goes with the cycle that answers it.
LEMMA StepHolds ==
    ASSUME IInv, [Next]_vars, NEW r \in Reload, asked[r] = "waiting", Held(r)
    PROVE  Held(r)' \/ asked'[r] # "waiting" \/ (loop = "reloading" /\ sup.isolated)
<1>0. /\ Slots /\ TypeOK /\ sup \in Supervisor /\ stream \in Stream
      /\ r # None /\ r # Quiesced /\ r \notin Call /\ None \notin Call \cup Reload
  BY TypeParts, Names DEF IInv, WaitersServed
<1>1. CASE Steady
  BY <1>0, <1>1 DEF Steady, Held, SentInto
<1>2. CASE Down
  BY <1>2 DEF Down
<1>3. ASSUME NEW code \in Version, Opened(code) PROVE Held(r)'
  <2> DEFINE kept == stream.pending
             ready == [sup EXCEPT !.restarting = FALSE, !.lost = FALSE,
                                  !.woken = @ \cup sup.attached,
                                  !.reloaded = @ /\ kept = None]
  <2>1. /\ stream'.inbox = stream.inbox /\ stream'.buffer = stream.buffer
        /\ sup.serving = None
    BY <1>0, <1>3 DEF Opened, WithoutPending, Stream, Slots
  <2>2. CASE r # kept
    BY <1>0, <2>1, <2>2 DEF Held
  <2>3. CASE r = kept
    <3>1. ready \in Supervisor
      BY <1>0 DEF Supervisor
    <3>2. sup' = [ready EXCEPT !.serving = kept,
                               !.flagged = IF sup.reloaded THEN @ \cup {kept} ELSE @]
      BY <1>0, <1>3, <2>3 DEF Opened
    <3> HIDE DEF ready
    <3>3. sup'.serving = r
      BY <2>3, <3>1, <3>2 DEF Supervisor
    <3> QED BY <3>3 DEF Held
  <2> QED BY <2>2, <2>3
<1>4. CASE CycleCancelled
  <2>1. stream' = stream /\ (sup.serving = r => loop = "reloading" /\ sup.isolated)
    BY <1>0, <1>4 DEF CycleCancelled, Slots
  <2> QED BY <2>1 DEF Held
<1>5. CASE TakeRequest
  <2>1. PICK request \in Request, taken \in Stream :
           Takes(request, taken) /\ Handle(request, taken)
    BY <1>5, TakeFacts
  <2>2. /\ r \in {taken.inbox, taken.buffer} \/ r = request
        /\ stream.pending = None /\ sup.serving = None
    BY <1>0, <2>1 DEF Takes, Held
  <2>3. CASE stream' = taken /\ r \in {taken.inbox, taken.buffer}
    BY <2>3 DEF Held
  <2>4. CASE \E s : PlannedRestart(s, taken, Kept(request))
    <3>1. stream' = [taken EXCEPT !.pending = Kept(request)]
      BY <2>4 DEF PlannedRestart
    <3>2. /\ stream'.inbox = taken.inbox /\ stream'.buffer = taken.buffer
          /\ stream'.pending = Kept(request)
      BY <3>1 DEF Stream
    <3>3. r = request => Kept(request) = r
      BY <1>0 DEF Kept
    <3> QED BY <2>2, <3>2, <3>3 DEF Held
  <2>5. \/ stream' = taken /\ (request \in Call \/ request = Quiesced)
        \/ \E s : PlannedRestart(s, taken, Kept(request))
        \/ stream' = taken /\ request \in Reload /\ sup'.serving = request
    <3>1. ASSUME NEW b,
                 sup' = [[[sup EXCEPT !.reloaded = FALSE] EXCEPT !.requested = b]
                           EXCEPT !.serving = request,
                                  !.flagged = IF sup.reloaded THEN @ \cup {request} ELSE @]
          PROVE  sup'.serving = request
      BY <1>0, <3>1 DEF Supervisor
    <3> QED BY <2>1, <3>1 DEF Handle, IsSkipped
  <2>6. CASE request \in Call \/ request = Quiesced
    BY <1>0, <2>2, <2>3, <2>4, <2>5, <2>6
  <2> QED BY <1>0, <2>2, <2>3, <2>4, <2>5, <2>6 DEF Held
<1>6. CASE FinishReload
  <2>1. stream.pending = None /\ loop = "reloading"
    BY <1>0, <1>6 DEF FinishReload, Slots
  <2>2. CASE r = sup.serving
    <3>1. asked' = [asked EXCEPT ![r] = "answered"] /\ asked \in [Reload ->
             {"new", "unknown", "deferred", "waiting", "answered", "ended"}]
      BY <1>0, <1>6, <2>2 DEF FinishReload, TypeOK
    <3> QED BY <3>1
  <2>3. CASE r # sup.serving
    <3>1. stream' = stream \/ stream' = [stream EXCEPT !.pending = None]
      BY <1>6 DEF FinishReload, PlannedRestart
    <3>2. stream'.inbox = stream.inbox /\ stream'.buffer = stream.buffer
      BY <1>0, <3>1 DEF Stream
    <3> QED BY <1>0, <2>1, <2>3, <3>2 DEF Held
  <2> QED BY <2>2, <2>3
<1> QED BY <1>1, <1>2, <1>3, <1>4, <1>5, <1>6, SteadySteps

\* A call is started once, a reload waits until nothing runs, a cycle whose transport
\* is lost takes no call, an idle worker runs the sources as they are, and an accepted
\* reload is carried along: the serve loop over all its cycles.
THEOREM CyclesOrderly == Spec => CyclesAreOrderly
<1>1. ASSUME IInv, [Next]_vars
      PROVE  /\ [\A c \in sup'.active \ sup.active : ~call[c].started]_vars
             /\ [loop # "top" /\ loop' = "top" => sup.active = {}]_vars
             /\ [sup.lost => sup'.active \subseteq sup.active \/ ~sup'.lost]_vars
             /\ [\A c \in sup'.active \ sup.active :
                    ~IsBusy(sup) /\ c \notin sup'.flagged => worker'.code = source]_vars
             /\ [\A r \in Reload :
                   asked[r] = "waiting" /\ Held(r) =>
                      \/ Held(r)'
                      \/ asked[r]' # "waiting"
                      \/ loop = "reloading" /\ sup.isolated]_vars
  <2>1. StartsRightly
    BY <1>1, StepStarts
  <2>2. loop # "top" /\ loop' = "top" => sup.active = {}
    BY <1>1, StepAwaits
  <2>3. \A r \in Reload :
           asked[r] = "waiting" /\ Held(r) =>
              \/ Held(r)'
              \/ asked[r]' # "waiting"
              \/ loop = "reloading" /\ sup.isolated
    BY <1>1, StepHolds
  <2> QED BY <2>1, <2>2, <2>3 DEF StartsRightly
<1>2. IInv /\ [Next]_vars =>
         /\ [\A c \in sup'.active \ sup.active : ~call[c].started]_vars
         /\ [loop # "top" /\ loop' = "top" => sup.active = {}]_vars
         /\ [sup.lost => sup'.active \subseteq sup.active \/ ~sup'.lost]_vars
         /\ [\A c \in sup'.active \ sup.active :
                ~IsBusy(sup) /\ c \notin sup'.flagged => worker'.code = source]_vars
         /\ [\A r \in Reload :
               asked[r] = "waiting" /\ Held(r) =>
                  \/ Held(r)'
                  \/ asked[r]' # "waiting"
                  \/ loop = "reloading" /\ sup.isolated]_vars
  BY <1>1
<1> QED
  BY <1>2, Inductive, PTL
     DEF Spec, CyclesAreOrderly, StartedOnce, ReloadAwaitsQuiescence,
         LostCycleTakesNoCall, RunsCurrentSource, ReloadNotForgotten

=============================================================================
