------------------------- MODULE TabActivationProofs -------------------------
(***************************************************************************)
(* Theorems about TabActivation, for any finite set of calls, any set of   *)
(* documents and objects, and any number of faults: the state of an        *)
(* activation is owned, calls work on the tab they were sent to, and the   *)
(* user gets back the tab that was in front.                               *)
(*                                                                         *)
(* The inductive invariant says what the references of an object count,    *)
(* that an activation under way has exactly one thread, what a call holds  *)
(* at each of its steps, that a token which nothing knows has no events,   *)
(* and that there are always tokens left; and, for as long as nothing has  *)
(* disturbed the calls, that one call runs at a time, which waits for      *)
(* every thread there is.                                                  *)
(***************************************************************************)
EXTENDS TabActivation, FiniteSetTheorems, TLAPS

Alive(t) == thread[t].at # "none"
Undecided(t) == thread[t].at \in {"switch", "check", "finish"}
Open(c) == client[c].at \in {"opening", "waiting"}
Running(c) == client[c].at \notin {"idle", "done"}
Known(t) == IsKnown(t, object, client)

Activating == {"begin", "opening", "waiting", "fallback", "verify", "failed"}
Operating == {"working", "guarded", "worked"}

(* References are held by the table, by threads and by proxies of callers.   *)
Threads(o) == {t \in Token : Alive(t) /\ thread[t].object = o}
Holders(o) == {c \in Client : client[c].held = o}
Listed(o) == IF object[o].published THEN 1 ELSE 0

Counted(o) ==
  object[o].refs = Listed(o) + Cardinality(Threads(o)) + Cardinality(Holders(o))

(* An activation that is not decided is pending on its object, for its       *)
(* document and under its token.                                             *)
ThreadSound(t) ==
  /\ Alive(t) => thread[t].object \in Object /\ thread[t].document \in Doc
  /\ Undecided(t) =>
       /\ object[thread[t].object].state = "pending"
       /\ object[thread[t].object].token = t
       /\ object[thread[t].object].document = thread[t].document

(* What is pending has a thread that will decide it.                         *)
ObjectSound(o) ==
  object[o].state = "pending" =>
    /\ object[o].token \in Token /\ Undecided(object[o].token)
    /\ thread[object[o].token].object = o

(* What a call holds at each step.                                           *)
CallSound(c) ==
  /\ IF Open(c) THEN client[c].token # 0 /\ client[c].held # None
                ELSE client[c].token = 0 /\ client[c].held = None
  /\ Running(c) => client[c].wanted \in Doc
  /\ client[c].at \in Activating =>
       /\ client[c].goal \in Doc
       /\ client[c].phase = "activate" => client[c].restore \in Doc
  /\ client[c].phase = "restore" => client[c].at \in Activating

ForGoal(c) ==
  client[c].token # 0 =>
    \/ thread[client[c].token].document = client[c].goal
    \/ thread[client[c].token].at = "none"

OnTarget(c) ==
  client[c].via # None /\ Target[client[c].via] # None =>
    client[c].touched = client[c].wanted

(* A token that nothing knows has no events.                                 *)
Quiet(t) == ~Known(t) => signalled[t] = {}

(* The activations a call has asked for: no more tokens are taken than that. *)
Past(c, p) ==
  \/ p = "activate" /\ client[c].at # "idle"
       /\ (client[c].at # "begin" \/ client[c].phase # "activate")
  \/ p = "restore"
       /\ (client[c].at = "done" \/ (client[c].phase = "restore" /\ client[c].at # "begin"))

Phase == {"activate", "restore"}
Used(t) == Alive(t) \/ Known(t)
Taken == {t \in Token : Used(t)}
Spent == {e \in Client \X Phase : Past(e[1], e[2])}
TokensSuffice == Cardinality(Taken) <= Cardinality(Spent)

(* What a call that nothing has disturbed does to the tabs.                  *)
Course(c) ==
  /\ client[c].restore \in {None, Home}
  /\ client[c].restore = None => client[c].at \in Operating /\ active = Home
  /\ client[c].phase = "restore" => client[c].goal = Home

Undisturbed ==
  /\ \A c, e \in Client : Running(c) /\ Running(e) => c = e
  /\ \A t \in Token : Alive(t) =>
       /\ signalled[t] = {}
       /\ \E c \in Client : /\ Open(c) /\ client[c].token = t
                            /\ client[c].held = thread[t].object
  /\ \A c \in Client : Open(c) => object[client[c].held].token = client[c].token
  /\ \A c \in Client : Running(c) => Course(c)
  /\ (\A c \in Client : ~Running(c)) => active = Home

Sound ==
  /\ TypeOK
  /\ \A o \in Object : Counted(o) /\ ObjectSound(o)
  /\ \A t \in Token : ThreadSound(t) /\ Quiet(t)
  /\ \A c \in Client : CallSound(c) /\ ForGoal(c) /\ OnTarget(c)
  /\ TokensSuffice

IInv == Sound /\ (~disturbed => Undisturbed)

-----------------------------------------------------------------------------
(* Types and counts. *)

LEMMA CallTypes ==
  ASSUME TypeOK, NEW c \in Client
  PROVE  /\ client[c] \in ClientState
         /\ client[c].phase \in Phase /\ client[c].goal \in Doc \cup {None}
         /\ client[c].wanted \in Doc \cup {None} /\ client[c].restore \in Doc \cup {None}
         /\ client[c].token \in {0} \cup Token /\ client[c].held \in Object \cup {None}
         /\ client[c].via \in Object \cup {None}
         /\ client[c].touched \in Doc \cup {None}
BY DEF TypeOK, ClientState, Phase

LEMMA ObjectTypes ==
  ASSUME TypeOK, NEW o \in Object
  PROVE  /\ object[o] \in ObjectState /\ object[o].refs \in Nat
         /\ object[o].token \in {0} \cup Token /\ object[o].published \in BOOLEAN
BY DEF TypeOK, ObjectState

LEMMA ThreadTypes ==
  ASSUME TypeOK, NEW t \in Token
  PROVE  /\ thread[t] \in ThreadState /\ thread[t].object \in Object \cup {None}
         /\ thread[t].document \in Doc \cup {None} /\ thread[t].outcome \in Signal
BY DEF TypeOK, ThreadState

LEMMA TokenFacts ==
  /\ IsFiniteSet(Token) /\ Cardinality(Token) = 2 * Cardinality(Client)
  /\ 0 \notin Token
<1>1. Cardinality(Client) \in Nat
  BY ActivationAssumption, FS_CardinalityType DEF ActivationAssumption
<1>2. 2 * Cardinality(Client) \in Int /\ 1 \in Int
  BY <1>1
<1>3. /\ IsFiniteSet(1 .. 2 * Cardinality(Client))
      /\ Cardinality(1 .. 2 * Cardinality(Client)) =
           IF 1 > 2 * Cardinality(Client) THEN 0 ELSE 2 * Cardinality(Client) - 1 + 1
  BY <1>2, FS_Interval
<1> QED
  BY <1>1, <1>3 DEF Token

LEMMA CountsAreNat ==
  ASSUME NEW o
  PROVE  /\ IsFiniteSet(Threads(o)) /\ IsFiniteSet(Holders(o))
         /\ Cardinality(Threads(o)) \in Nat /\ Cardinality(Holders(o)) \in Nat
         /\ IsFiniteSet(Threads(o)') /\ IsFiniteSet(Holders(o)')
         /\ Cardinality(Threads(o)') \in Nat /\ Cardinality(Holders(o)') \in Nat
<1>1. /\ Threads(o) \in SUBSET Token /\ Threads(o)' \in SUBSET Token
      /\ Holders(o) \in SUBSET Client /\ Holders(o)' \in SUBSET Client
  BY DEF Threads, Holders
<1>2. /\ IsFiniteSet(Threads(o)) /\ IsFiniteSet(Holders(o))
      /\ IsFiniteSet(Threads(o)') /\ IsFiniteSet(Holders(o)')
  BY <1>1, TokenFacts, ActivationAssumption, FS_Subset DEF ActivationAssumption
<1> QED
  BY <1>2, FS_CardinalityType

LEMMA SpentFacts ==
  /\ IsFiniteSet(Client \X Phase)
  /\ Cardinality(Client \X Phase) = 2 * Cardinality(Client)
  /\ IsFiniteSet(Spent) /\ IsFiniteSet(Spent')
  /\ Cardinality(Spent) \in Nat /\ Cardinality(Spent') \in Nat
  /\ IsFiniteSet(Taken) /\ IsFiniteSet(Taken')
  /\ Cardinality(Taken) \in Nat /\ Cardinality(Taken') \in Nat
<1>1. IsFiniteSet(Phase) /\ Cardinality(Phase) = 2
  <2>1. Phase = {"activate"} \cup {"restore"} /\ "restore" \notin {"activate"}
    BY DEF Phase
  <2>2. IsFiniteSet({"activate"}) /\ Cardinality({"activate"}) = 1
    BY FS_Singleton
  <2> QED
    BY <2>1, <2>2, FS_AddElement
<1>2. Cardinality(Client) \in Nat /\ IsFiniteSet(Client)
  BY ActivationAssumption, FS_CardinalityType DEF ActivationAssumption
<1>3. IsFiniteSet(Client \X Phase) /\ Cardinality(Client \X Phase) = 2 * Cardinality(Client)
  <2>1. /\ IsFiniteSet(Client \X Phase)
        /\ Cardinality(Client \X Phase) = Cardinality(Client) * Cardinality(Phase)
    BY <1>1, <1>2, FS_Product
  <2> QED
    BY <1>1, <1>2, <2>1
<1>4. /\ Spent \in SUBSET (Client \X Phase) /\ Spent' \in SUBSET (Client \X Phase)
      /\ Taken \in SUBSET Token /\ Taken' \in SUBSET Token
  BY DEF Spent, Taken
<1>5. IsFiniteSet(Spent) /\ IsFiniteSet(Spent') /\ IsFiniteSet(Taken) /\ IsFiniteSet(Taken')
  BY <1>3, <1>4, TokenFacts, FS_Subset
<1> QED
  BY <1>3, <1>5, FS_CardinalityType

(* A call that is about to ask for an activation finds a token.              *)
LEMMA TokenLeft ==
  ASSUME Sound, NEW c \in Client, client[c].at = "begin"
  PROVE  Free # {}
<1>1. SUFFICES ASSUME Free = {} PROVE FALSE
  OBVIOUS
<1>2. Taken = Token
  BY <1>1 DEF Free, Taken, Used, Alive, Known
<1>3. Cardinality(Client \X Phase) <= Cardinality(Spent)
  BY <1>2, TokenFacts, SpentFacts DEF Sound, TokensSuffice
<1>4. Spent \in SUBSET (Client \X Phase)
  BY DEF Spent
<1>5. Cardinality(Spent) <= Cardinality(Client \X Phase)
  BY <1>4, SpentFacts, FS_Subset
<1>6. Cardinality(Spent) = Cardinality(Client \X Phase)
  <2>1. /\ Cardinality(Spent) \in Nat
        /\ Cardinality(Client \X Phase) \in Nat
    BY SpentFacts, FS_CardinalityType
  <2> QED
    BY <2>1, <1>3, <1>5
<1>7. Client \X Phase = Spent
  BY <1>4, <1>6, SpentFacts, FS_Subset
<1>8. client[c].phase \in Phase
  BY CallTypes DEF Sound
<1>9. <<c, client[c].phase>> \in Spent
  BY <1>7, <1>8
<1>10. Past(c, client[c].phase)
  BY <1>9 DEF Spent
<1> QED
  BY <1>10 DEF Past

(* Calls only go on, and no other token is taken.                            *)
LEMMA NoTokenTaken ==
  ASSUME Sound, \A t \in Token : Used(t)' => Used(t),
         \A c \in Client : \A p \in Phase : Past(c, p) => Past(c, p)'
  PROVE  TokensSuffice'
<1>1. Taken' \in SUBSET Taken /\ Spent \in SUBSET Spent'
  BY DEF Taken, Spent
<1>2. Cardinality(Taken') <= Cardinality(Taken)
  BY <1>1, SpentFacts, FS_Subset
<1>3. Cardinality(Spent) <= Cardinality(Spent')
  BY <1>1, SpentFacts, FS_Subset
<1> QED
  BY <1>2, <1>3, SpentFacts DEF Sound, TokensSuffice

(* One call asks for an activation, and takes one token.                     *)
LEMMA TokenTaken ==
  ASSUME Sound, NEW c \in Client, NEW p \in Phase, NEW u \in Token,
         \A t \in Token \ {u} : Used(t)' => Used(t),
         client[c].at = "begin", client[c].phase = p, Past(c, p)',
         \A e \in Client : \A q \in Phase : Past(e, q) => Past(e, q)'
  PROVE  TokensSuffice'
<1>1. Taken' \in SUBSET (Taken \cup {u})
  BY DEF Taken
<1>2. ~Past(c, p)
  BY DEF Past
<1>3. Spent \cup {<<c, p>>} \in SUBSET Spent' /\ <<c, p>> \notin Spent
  <2>1. <<c, p>> \notin Spent /\ <<c, p>> \in Spent'
    BY <1>2 DEF Spent
  <2>2. \A e \in Spent : e \in Spent'
    BY DEF Spent
  <2> QED
    BY <2>1, <2>2
<1>4. /\ IsFiniteSet(Taken \cup {u})
      /\ Cardinality(Taken \cup {u}) <= Cardinality(Taken) + 1
      /\ Cardinality(Taken \cup {u}) \in Nat
  <2>1. /\ IsFiniteSet(Taken \cup {u})
        /\ Cardinality(Taken \cup {u}) =
             IF u \in Taken THEN Cardinality(Taken) ELSE Cardinality(Taken) + 1
    BY SpentFacts, FS_AddElement
  <2> QED
    BY <2>1, SpentFacts
<1>5. Cardinality(Spent \cup {<<c, p>>}) = Cardinality(Spent) + 1
  BY <1>3, SpentFacts, FS_AddElement
<1>6. Cardinality(Taken') <= Cardinality(Taken \cup {u})
  BY <1>1, <1>4, FS_Subset
<1>7. Cardinality(Spent \cup {<<c, p>>}) <= Cardinality(Spent')
  BY <1>3, SpentFacts, FS_Subset
<1> QED
  BY <1>4, <1>5, <1>6, <1>7, SpentFacts DEF Sound, TokensSuffice

-----------------------------------------------------------------------------
(* Steps of a call. *)

(* A call goes on with what it holds.                                        *)
LEMMA Moves ==
  ASSUME Sound, NEW c \in Client, NEW r \in ClientState, Become(c, r),
         r.token = client[c].token, r.held = client[c].held,
         r.token # 0 => r.goal = client[c].goal,
         UNCHANGED <<object, thread, signalled>>, active' \in Doc,
         faults' \in 0 .. MaxFaults, disturbed' \in BOOLEAN,
         CallSound(c)', OnTarget(c)',
         \A p \in Phase : Past(c, p) => Past(c, p)'
  PROVE  Sound'
<1>1. TypeOK
  BY DEF Sound
<1>2. client'[c] = r /\ \A e \in Client : e # c => client'[e] = client[e]
  BY <1>1 DEF Become, TypeOK
<1>3. TypeOK'
  <2>1. client' \in [Client -> ClientState]
    BY <1>1 DEF TypeOK, Become
  <2> QED
    BY <1>1, <2>1 DEF TypeOK
<1>4. \A e \in Client : client'[e].token = client[e].token /\ client'[e].held = client[e].held
  BY <1>2
<1>5. ASSUME NEW o \in Object PROVE Counted(o)' /\ ObjectSound(o)'
  <2>1. Holders(o)' = Holders(o) /\ Threads(o)' = Threads(o) /\ Listed(o)' = Listed(o)
    BY <1>4 DEF Holders, Threads, Alive, Listed
  <2>2. Counted(o) /\ ObjectSound(o)
    BY DEF Sound
  <2>3. Counted(o)'
    BY <2>1, <2>2 DEF Counted
  <2>4. ObjectSound(o)'
    BY <2>2 DEF ObjectSound, Undecided
  <2> QED
    BY <2>3, <2>4
<1>6. \A t \in Token : Known(t)' <=> Known(t)
  BY <1>4 DEF Known, IsKnown
<1>7. ASSUME NEW t \in Token PROVE ThreadSound(t)' /\ Quiet(t)'
  <2>1. ThreadSound(t) /\ Quiet(t)
    BY DEF Sound
  <2>2. ThreadSound(t)'
    BY <2>1 DEF ThreadSound, Alive, Undecided
  <2>3. Quiet(t)'
    BY <1>6, <2>1 DEF Quiet
  <2> QED
    BY <2>2, <2>3
<1>8. ASSUME NEW e \in Client, e # c PROVE CallSound(e)' /\ ForGoal(e)' /\ OnTarget(e)'
  BY <1>2, <1>8 DEF Sound, CallSound, ForGoal, OnTarget, Open, Running
<1>9. ForGoal(c)'
  BY <1>2 DEF Sound, ForGoal
<1>10. TokensSuffice'
  <2>1. \A t \in Token : Used(t)' => Used(t)
    BY <1>6 DEF Used, Alive
  <2>2. \A e \in Client : \A p \in Phase : Past(e, p) => Past(e, p)'
    BY <1>2 DEF Past
  <2> QED
    BY <2>1, <2>2, NoTokenTaken
<1> QED
  BY <1>3, <1>5, <1>7, <1>8, <1>9, <1>10 DEF Sound

(* The proxy of a call goes, and with it its reference.                      *)
LEMMA ProxyDropped ==
  ASSUME Sound, NEW c \in Client, LetGo(c),
         client'[c].held = None, \A e \in Client : e # c => client'[e] = client[e],
         UNCHANGED thread
  PROVE  /\ object' \in [Object -> ObjectState]
         /\ \A o \in Object : Counted(o)'
         /\ \A o \in Object : object'[o] = [object[o] EXCEPT !.refs = object'[o].refs]
<1>1. TypeOK
  BY DEF Sound
<1>2. None \notin Object
  BY ActivationAssumption DEF ActivationAssumption
<1>3. ASSUME NEW o \in Object
      PROVE  /\ object'[o] \in ObjectState /\ Counted(o)'
             /\ object'[o] = [object[o] EXCEPT !.refs = object'[o].refs]
  <2>1. Threads(o)' = Threads(o)
    BY DEF Threads, Alive
  <2>2. Counted(o) /\ object[o] \in ObjectState /\ object[o].refs \in Nat
    BY <1>1, ObjectTypes DEF Sound
  <2>3. CASE client[c].held = o
    <3>1. object'[o] = [object[o] EXCEPT !.refs = @ - 1]
      BY <2>3 DEF LetGo
    <3>2. c \in Holders(o) /\ Holders(o)' = Holders(o) \ {c}
      BY <1>2, <2>3 DEF Holders
    <3>3. Cardinality(Holders(o)') = Cardinality(Holders(o)) - 1
      BY <3>2, CountsAreNat, FS_RemoveElement
    <3>4. object'[o].refs = object[o].refs - 1 /\ Listed(o)' = Listed(o)
      BY <2>2, <3>1 DEF ObjectState, Listed
    <3>5. Counted(o)'
      BY <2>1, <2>2, <3>3, <3>4, CountsAreNat DEF Counted, Listed
    <3>6. object'[o].refs \in Nat
      BY <3>5, CountsAreNat DEF Counted, Listed
    <3> QED
      BY <2>2, <3>1, <3>4, <3>5, <3>6 DEF ObjectState
  <2>4. CASE client[c].held # o
    <3>1. object'[o] = object[o]
      BY <2>4 DEF LetGo
    <3>2. Holders(o)' = Holders(o)
      BY <1>2, <2>4 DEF Holders
    <3> QED
      BY <2>1, <2>2, <3>1, <3>2 DEF Counted, Listed, ObjectState
  <2> QED
    BY <2>3, <2>4
<1> QED
  BY <1>3 DEF LetGo

(* A call goes on without its proxy and its token.                           *)
LEMMA LetsGo ==
  ASSUME Sound, NEW c \in Client, NEW r \in ClientState, Become(c, r),
         r.token = 0, r.held = None, LetGo(c), EventsClosed,
         UNCHANGED thread, active' \in Doc,
         faults' \in 0 .. MaxFaults, disturbed' \in BOOLEAN,
         CallSound(c)', OnTarget(c)',
         \A p \in Phase : Past(c, p) => Past(c, p)'
  PROVE  Sound'
<1>1. TypeOK
  BY DEF Sound
<1>2. client'[c] = r /\ \A e \in Client : e # c => client'[e] = client[e]
  BY <1>1 DEF Become, TypeOK
<1>3. /\ object' \in [Object -> ObjectState]
      /\ \A o \in Object : Counted(o)'
      /\ \A o \in Object : object'[o] = [object[o] EXCEPT !.refs = object'[o].refs]
  BY <1>2, ProxyDropped
<1>4. ASSUME NEW o \in Object
      PROVE  /\ object'[o].state = object[o].state /\ object'[o].token = object[o].token
             /\ object'[o].document = object[o].document
  BY <1>1, <1>3 DEF TypeOK, ObjectState
<1>5. \A t \in Token : signalled'[t] \in {signalled[t], {}} /\ Quiet(t)'
  BY DEF EventsClosed, Quiet, Known
<1>6. TypeOK'
  <2>1. client' \in [Client -> ClientState]
    BY <1>1 DEF TypeOK, Become
  <2>2. signalled' \in [Token -> SUBSET Signal]
    BY <1>1, <1>5 DEF EventsClosed, TypeOK
  <2> QED
    BY <1>1, <1>3, <2>1, <2>2 DEF TypeOK
<1>7. ASSUME NEW o \in Object PROVE ObjectSound(o)'
  BY <1>4 DEF Sound, ObjectSound, Undecided
<1>8. ASSUME NEW t \in Token PROVE ThreadSound(t)'
  BY <1>4 DEF Sound, ThreadSound, Alive, Undecided
<1>9. ASSUME NEW e \in Client, e # c PROVE CallSound(e)' /\ ForGoal(e)' /\ OnTarget(e)'
  BY <1>2, <1>9 DEF Sound, CallSound, ForGoal, OnTarget, Open, Running
<1>10. ForGoal(c)'
  BY <1>2 DEF ForGoal
<1>11. TokensSuffice'
  <2>1. \A t \in Token : Known(t)' => Known(t)
    BY <1>2, <1>4, TokenFacts DEF Known, IsKnown
  <2>2. \A t \in Token : Used(t)' => Used(t)
    BY <2>1 DEF Used, Alive
  <2>3. \A e \in Client : \A p \in Phase : Past(e, p) => Past(e, p)'
    BY <1>2 DEF Past
  <2> QED
    BY <2>2, <2>3, NoTokenTaken
<1> QED
  BY <1>3, <1>5, <1>6, <1>7, <1>8, <1>9, <1>10, <1>11 DEF Sound

Steps == {"opening", "waiting", "fallback", "verify", "failed"} \cup Operating

LEMMA SoundGoto ==
  ASSUME Sound, NEW c \in Client, Running(c), NEW step \in Steps, Goto(c, step),
         step \in {"opening", "waiting"} <=> Open(c),
         step \in Activating => client[c].at \in Activating,
         client[c].phase = "restore" => step \in Activating,
         UNCHANGED <<object, thread, signalled>>, active' \in Doc,
         faults' \in 0 .. MaxFaults, disturbed' \in BOOLEAN
  PROVE  Sound'
<1> DEFINE r == [client[c] EXCEPT !.at = step]
<1>1. TypeOK /\ CallSound(c) /\ OnTarget(c)
  BY DEF Sound
<1>2. client[c] \in ClientState
  BY <1>1, CallTypes
<1>3. r \in ClientState /\ Become(c, r)
  BY <1>2 DEF ClientState, Goto, Steps, Operating
<1>4. /\ r.at = step /\ r.phase = client[c].phase /\ r.goal = client[c].goal
      /\ r.wanted = client[c].wanted /\ r.restore = client[c].restore
      /\ r.token = client[c].token /\ r.held = client[c].held
      /\ r.via = client[c].via /\ r.touched = client[c].touched
  BY <1>2 DEF ClientState
<1>5. client'[c] = r
  BY <1>1, <1>3 DEF Become, TypeOK
<1> HIDE DEF r
<1>6. CallSound(c)'
  BY <1>1, <1>4, <1>5 DEF CallSound, Open, Running
<1>7. OnTarget(c)'
  BY <1>1, <1>4, <1>5 DEF OnTarget
<1>8. \A p \in Phase : Past(c, p) => Past(c, p)'
  BY <1>4, <1>5 DEF Past, Running, Steps, Operating
<1> QED
  BY <1>3, <1>4, <1>6, <1>7, <1>8, Moves

LEMMA SoundEnd ==
  ASSUME Sound, NEW c \in Client, ~Open(c), End(c),
         UNCHANGED <<object, thread, signalled>>, active' \in Doc,
         faults' \in 0 .. MaxFaults, disturbed' \in BOOLEAN
  PROVE  Sound'
<1> DEFINE r == [Resting EXCEPT !.at = "done"]
<1>1. TypeOK /\ CallSound(c)
  BY DEF Sound
<1>2. r \in ClientState /\ Become(c, r)
  BY DEF ClientState, Resting, End
<1>3. r.at = "done" /\ r.phase = "activate" /\ r.token = 0 /\ r.held = None /\ r.via = None
  BY DEF Resting
<1>4. client'[c] = r
  BY <1>1, <1>2 DEF Become, TypeOK
<1> HIDE DEF r
<1>5. CallSound(c)' /\ OnTarget(c)' /\ \A p \in Phase : Past(c, p)'
  BY <1>3, <1>4 DEF CallSound, OnTarget, Past, Phase, Open, Running, Activating
<1> QED
  BY <1>1, <1>2, <1>3, <1>5, Moves DEF CallSound

LEMMA SoundRestoring ==
  ASSUME Sound, NEW c \in Client, Become(c, Restoring(c)), Running(c), ~Open(c),
         client[c].at # "begin", client[c].phase = "activate", client[c].restore \in Doc,
         UNCHANGED <<object, thread, signalled, active, faults>>, disturbed' \in BOOLEAN
  PROVE  Sound'
<1> DEFINE r == Restoring(c)
<1>1. TypeOK /\ CallSound(c)
  BY DEF Sound
<1>2. client[c] \in ClientState /\ client[c].token = 0 /\ client[c].held = None
      /\ client[c].wanted \in Doc
  BY <1>1, CallTypes DEF CallSound
<1>3. r \in ClientState
  <2>1. PICK s \in ClientState : s = client[c]
    BY <1>2
  <2>2. s.restore \in Doc
    BY <2>1
  <2>3. r = [s EXCEPT !.at = "begin", !.phase = "restore", !.goal = s.restore,
                      !.via = None, !.touched = None]
    BY <2>1 DEF Restoring
  <2> HIDE DEF r
  <2> QED BY <2>2, <2>3 DEF ClientState
<1>4. /\ r.at = "begin" /\ r.phase = "restore" /\ r.goal = client[c].restore
      /\ r.token = 0 /\ r.held = None /\ r.via = None /\ r.wanted = client[c].wanted
  BY <1>2 DEF ClientState, Restoring
<1>5. client'[c] = r
  BY <1>1 DEF Become, TypeOK
<1> HIDE DEF r
<1>6. CallSound(c)' /\ OnTarget(c)'
  BY <1>2, <1>4, <1>5 DEF CallSound, OnTarget, Open, Running, Activating
<1>7. \A p \in Phase : Past(c, p) => Past(c, p)'
  BY <1>4, <1>5 DEF Past, Running
<1>8. Become(c, r)
  BY DEF r
<1> QED
  BY <1>1, <1>2, <1>3, <1>4, <1>6, <1>7, <1>8, Moves DEF TypeOK

LEMMA SoundLook ==
  ASSUME Sound, NEW c \in Client, NEW d \in Wants[c], Look(c, d)
  PROVE  Sound'
<1> DEFINE r == IF active = d
                THEN [Resting EXCEPT !.at = "working", !.wanted = d]
                ELSE [Resting EXCEPT !.at = "begin", !.wanted = d, !.goal = d,
                                     !.restore = active]
<1>1. TypeOK /\ CallSound(c) /\ active \in Doc /\ d \in Doc /\ client[c].at = "idle"
  BY ActivationAssumption DEF Sound, TypeOK, ActivationAssumption, Look
<1>2. Become(c, r) /\ r \in ClientState
  BY <1>1 DEF ClientState, Resting, Look
<1>3. /\ r.token = 0 /\ r.held = None /\ r.via = None /\ r.wanted \in Doc
      /\ r.phase = "activate" /\ r.at \in {"working", "begin"}
      /\ r.at = "begin" => r.goal \in Doc /\ r.restore \in Doc
  BY <1>1 DEF Resting
<1>4. client'[c] = r
  BY <1>1, <1>2 DEF Become, TypeOK
<1> HIDE DEF r
<1>5. CallSound(c)' /\ OnTarget(c)'
  BY <1>3, <1>4 DEF CallSound, OnTarget, Open, Running, Activating
<1>6. \A p \in Phase : Past(c, p) => Past(c, p)'
  <2>1. \A p : ~Past(c, p)
    BY <1>1, CallTypes DEF Past, Phase, CallSound, Activating
  <2> QED
    BY <2>1
<1>7. client[c].token = 0 /\ client[c].held = None
  BY <1>1 DEF CallSound, Open
<1>8. disturbed' \in BOOLEAN
  BY DEF Look
<1> QED
  BY <1>1, <1>2, <1>3, <1>5, <1>6, <1>7, <1>8, Moves DEF TypeOK, Look

(* The steps of a call that keep what it holds.                              *)
LEMMA SoundPlain ==
  ASSUME Sound, NEW c \in Client,
         \/ RefuseBusy(c) \/ NoBatch(c) \/ Fallback(c) \/ Verify(c) \/ Failed(c)
         \/ Guard(c) \/ GiveBack(c) \/ NotGivenBack(c)
  PROVE  Sound'
<1>1. TypeOK /\ CallSound(c)
  BY DEF Sound
<1>2. active \in Doc /\ faults \in 0 .. MaxFaults /\ disturbed \in BOOLEAN
  BY <1>1 DEF TypeOK
<1>3. Fault => faults' \in 0 .. MaxFaults
  BY <1>2, ActivationAssumption DEF Fault, ActivationAssumption
<1>4. /\ faults' \in 0 .. MaxFaults /\ disturbed' \in BOOLEAN
      /\ UNCHANGED <<object, thread, signalled>>
  BY <1>2, <1>3 DEF RefuseBusy, NoBatch, Fallback, Verify, Failed, Guard, GiveBack,
     NotGivenBack
<1>5. active' \in Doc
  BY <1>1, <1>2 DEF RefuseBusy, NoBatch, Fallback, Verify, Failed, Guard, GiveBack,
     NotGivenBack, CallSound, Activating
<1>6. CASE RefuseBusy(c) \/ NoBatch(c) \/ Fallback(c)
  <2>1. PICK step \in {"fallback", "failed", "verify"} : Goto(c, step)
    BY <1>6 DEF RefuseBusy, NoBatch, Fallback
  <2>2. client[c].at \in {"begin", "fallback"}
    BY <1>6 DEF RefuseBusy, NoBatch, Fallback
  <2> QED
    BY <1>4, <1>5, <2>1, <2>2, SoundGoto DEF Steps, Running, Open, Activating
<1>7. CASE Verify(c)
  <2>1. client[c].at = "verify"
    BY <1>7 DEF Verify
  <2>2. CASE Goto(c, "failed")
    BY <1>4, <1>5, <2>1, <2>2, SoundGoto DEF Steps, Running, Open, Activating
  <2>3. CASE End(c)
    BY <1>4, <1>5, <2>1, <2>3, SoundEnd DEF Open
  <2>4. CASE Goto(c, "working") /\ client[c].phase # "restore"
    BY <1>4, <1>5, <2>1, <2>4, SoundGoto DEF Steps, Running, Open, Activating, Operating
  <2> QED
    BY <1>7, <2>2, <2>3, <2>4 DEF Verify
<1>8. CASE Failed(c)
  <2>1. client[c].at = "failed"
    BY <1>8 DEF Failed
  <2>2. CASE End(c)
    BY <1>4, <1>5, <2>1, <2>2, SoundEnd DEF Open
  <2>3. CASE client[c].phase # "restore" /\ Become(c, Restoring(c))
    <3>1. client[c].phase = "activate"
      BY <1>1, <2>3, CallTypes DEF Phase
    <3>2. client[c].restore \in Doc
      BY <1>1, <2>1, <3>1 DEF CallSound, Activating
    <3> QED
      BY <1>4, <1>8, <2>1, <2>3, <3>1, <3>2, SoundRestoring DEF Running, Open, Failed
  <2> QED
    BY <1>8, <2>2, <2>3 DEF Failed
<1>9. CASE Guard(c)
  <2>1. client[c].at = "working" /\ client[c].phase # "restore"
    BY <1>1, <1>9 DEF Guard, CallSound, Activating
  <2>2. PICK step \in {"guarded", "worked"} : Goto(c, step)
    BY <1>9 DEF Guard
  <2> QED
    BY <1>4, <1>5, <2>1, <2>2, SoundGoto DEF Steps, Running, Open, Activating, Operating
<1>10. CASE GiveBack(c)
  <2>1. client[c].at = "worked" /\ client[c].phase = "activate"
    BY <1>1, <1>10, CallTypes DEF GiveBack, CallSound, Activating, Phase
  <2>2. CASE End(c)
    BY <1>4, <1>5, <2>1, <2>2, SoundEnd DEF Open
  <2>3. CASE client[c].restore # None /\ Become(c, Restoring(c))
    <3>1. client[c].restore \in Doc
      BY <1>1, <2>3, CallTypes
    <3> QED
      BY <1>4, <1>10, <2>1, <2>3, <3>1, SoundRestoring DEF Running, Open, GiveBack
  <2> QED
    BY <1>10, <2>2, <2>3 DEF GiveBack
<1>11. CASE NotGivenBack(c)
  <2>1. client[c].at = "worked" /\ End(c)
    BY <1>11 DEF NotGivenBack
  <2> QED
    BY <1>4, <1>5, <2>1, SoundEnd DEF Open
<1> QED
  BY <1>6, <1>7, <1>8, <1>9, <1>10, <1>11

(* A call that looks again holds what it held, but no tab to restore.        *)
LEMMA SoundValidateAgain ==
  ASSUME Sound, NEW c \in Client, ValidateAgain(c)
  PROVE  Sound'
<1> DEFINE r == [client[c] EXCEPT !.at = "working", !.restore = None,
                                  !.via = None, !.touched = None]
<1>1. TypeOK /\ CallSound(c) /\ client[c].at \in {"working", "worked"}
  BY DEF Sound, ValidateAgain
<1>2. /\ active' \in Doc /\ disturbed' \in BOOLEAN
      /\ UNCHANGED <<object, thread, signalled>>
  BY <1>1 DEF TypeOK, ValidateAgain
<1>3. faults' \in 0 .. MaxFaults
  BY <1>1, ActivationAssumption DEF TypeOK, ValidateAgain, Fault, ActivationAssumption
<1>4. client[c] \in ClientState
  BY <1>1, CallTypes
<1>5. r \in ClientState
  BY <1>4 DEF ClientState
<1>6. /\ r.at = "working" /\ r.phase = client[c].phase /\ r.wanted = client[c].wanted
      /\ r.via = None /\ r.goal = client[c].goal
      /\ r.token = client[c].token /\ r.held = client[c].held
  BY <1>4 DEF ClientState
<1>7. client'[c] = r /\ Become(c, r)
  BY <1>1 DEF ValidateAgain, Become, TypeOK
<1> HIDE DEF r
<1>8. OnTarget(c)'
  BY <1>6, <1>7 DEF OnTarget
<1>9. CallSound(c)'
  BY <1>1, <1>6, <1>7 DEF CallSound, Open, Running, Activating
<1>10. \A p \in Phase : Past(c, p) => Past(c, p)'
  BY <1>1, <1>6, <1>7 DEF Past
<1> QED
  BY <1>2, <1>3, <1>5, <1>6, <1>7, <1>8, <1>9, <1>10, Moves

(* The object that is asked is the one of the document, or else that of the  *)
(* window, and the first looks for its tab itself.                           *)
LEMMA SoundOperate ==
  ASSUME Sound, NEW c \in Client, Operate(c)
  PROVE  Sound'
<1>1. TypeOK /\ CallSound(c) /\ client[c].at = "guarded" /\ client[c].phase # "restore"
  BY DEF Sound, Operate, CallSound, Activating
<1>2. /\ active' \in Doc /\ faults' \in 0 .. MaxFaults /\ disturbed' \in BOOLEAN
      /\ UNCHANGED <<object, thread, signalled>>
  BY <1>1 DEF TypeOK, Operate
<1>3. CASE Goto(c, "worked")
  BY <1>1, <1>2, <1>3, SoundGoto DEF Steps, Running, Open, Activating, Operating
<1>4. ASSUME NEW o \in Routes(client[c].wanted), TargetVerified(o),
             Become(c, [client[c] EXCEPT !.at = "worked", !.via = o, !.touched = active])
      PROVE  Sound'
  <2> DEFINE r == [client[c] EXCEPT !.at = "worked", !.via = o, !.touched = active]
  <2>1. o \in Object /\ (Target[o] = client[c].wanted \/ Target[o] = None)
    BY DEF Routes
  <2>2. client[c] \in ClientState /\ active \in Doc
    BY <1>1, CallTypes DEF TypeOK
  <2>3. r \in ClientState
    BY <2>1, <2>2 DEF ClientState
  <2>4. /\ r.at = "worked" /\ r.phase = client[c].phase /\ r.wanted = client[c].wanted
        /\ r.via = o /\ r.touched = active /\ r.goal = client[c].goal
        /\ r.token = client[c].token /\ r.held = client[c].held
    BY <2>2 DEF ClientState
  <2>5. client'[c] = r /\ Become(c, r)
    BY <1>1, <1>4 DEF Become, TypeOK
  <2> HIDE DEF r
  <2>6. OnTarget(c)'
    BY <1>4, <2>1, <2>4, <2>5 DEF OnTarget, TargetVerified
  <2>7. CallSound(c)'
    BY <1>1, <2>4, <2>5 DEF CallSound, Open, Running, Activating
  <2>8. \A p \in Phase : Past(c, p) => Past(c, p)'
    BY <1>1, <2>4, <2>5 DEF Past
  <2> QED
    BY <1>2, <2>3, <2>4, <2>5, <2>6, <2>7, <2>8, Moves
<1> QED
  BY <1>3, <1>4 DEF Operate

LEMMA SoundLeave ==
  ASSUME Sound, NEW c \in Client, client[c].at = "waiting",
         NEW step \in {"verify", "fallback"}, Leave(c, step),
         UNCHANGED <<thread, active>>,
         faults' \in 0 .. MaxFaults, disturbed' \in BOOLEAN
  PROVE  Sound'
<1> DEFINE r == [client[c] EXCEPT !.at = step, !.held = None, !.token = 0]
<1>1. TypeOK /\ CallSound(c) /\ OnTarget(c)
  BY DEF Sound
<1>2. client[c] \in ClientState
  BY <1>1, CallTypes
<1>3. r \in ClientState /\ Become(c, r)
  BY <1>2 DEF ClientState, Leave
<1>4. /\ r.at = step /\ r.phase = client[c].phase /\ r.goal = client[c].goal
      /\ r.wanted = client[c].wanted /\ r.restore = client[c].restore
      /\ r.token = 0 /\ r.held = None
      /\ r.via = client[c].via /\ r.touched = client[c].touched
  BY <1>2 DEF ClientState
<1>5. client'[c] = r
  BY <1>1, <1>3 DEF Become, TypeOK
<1> HIDE DEF r
<1>6. CallSound(c)'
  BY <1>1, <1>4, <1>5 DEF CallSound, Open, Running, Activating
<1>7. OnTarget(c)'
  BY <1>1, <1>4, <1>5 DEF OnTarget
<1>8. \A p \in Phase : Past(c, p) => Past(c, p)'
  BY <1>4, <1>5 DEF Past
<1>9. LetGo(c) /\ EventsClosed
  BY DEF Leave
<1> QED
  BY <1>1, <1>3, <1>4, <1>6, <1>7, <1>8, <1>9, LetsGo DEF TypeOK

LEMMA SoundGone ==
  ASSUME Sound, NEW c \in Client, LetGo(c), End(c), EventsClosed,
         UNCHANGED <<thread, active>>,
         faults' \in 0 .. MaxFaults, disturbed' \in BOOLEAN
  PROVE  Sound'
<1> DEFINE r == [Resting EXCEPT !.at = "done"]
<1>1. TypeOK
  BY DEF Sound
<1>2. r \in ClientState /\ Become(c, r)
  BY DEF ClientState, Resting, End
<1>3. r.at = "done" /\ r.phase = "activate" /\ r.token = 0 /\ r.held = None /\ r.via = None
  BY DEF Resting
<1>4. client'[c] = r
  BY <1>1, <1>2 DEF Become, TypeOK
<1> HIDE DEF r
<1>5. CallSound(c)' /\ OnTarget(c)' /\ \A p \in Phase : Past(c, p)'
  BY <1>3, <1>4 DEF CallSound, OnTarget, Past, Phase, Open, Running, Activating
<1> QED
  BY <1>1, <1>2, <1>3, <1>5, LetsGo DEF TypeOK

LEMMA SoundEvents ==
  ASSUME Sound, NEW c \in Client,
         \/ OpenEvents(c) \/ Succeeded(c) \/ NotActivated(c) \/ Timeout(c) \/ Die(c)
  PROVE  Sound'
<1>1. TypeOK /\ CallSound(c)
  BY DEF Sound
<1>2. active \in Doc /\ faults \in 0 .. MaxFaults /\ disturbed \in BOOLEAN
  BY <1>1 DEF TypeOK
<1>3. Fault => faults' \in 0 .. MaxFaults
  BY <1>2, ActivationAssumption DEF Fault, ActivationAssumption
<1>4. /\ faults' \in 0 .. MaxFaults /\ disturbed' \in BOOLEAN
      /\ UNCHANGED <<thread, active>>
  BY <1>2, <1>3 DEF OpenEvents, Succeeded, NotActivated, Timeout, Die
<1>5. CASE Succeeded(c) \/ NotActivated(c) \/ Timeout(c)
  <2>1. client[c].at = "waiting" /\ (Leave(c, "verify") \/ Leave(c, "fallback"))
    BY <1>5 DEF Succeeded, NotActivated, Timeout
  <2> QED
    BY <1>4, <2>1, SoundLeave
<1>6. CASE Die(c)
  BY <1>4, <1>6, SoundGone DEF Die
<1>7. CASE OpenEvents(c)
  <2>1. client[c].at = "opening"
    BY <1>7 DEF OpenEvents
  <2>2. CASE LetGo(c) /\ End(c) /\ EventsClosed
    BY <1>4, <2>2, SoundGone
  <2>3. CASE Goto(c, "waiting") /\ UNCHANGED <<object, signalled>>
    BY <1>2, <1>4, <2>1, <2>3, SoundGoto DEF Steps, Running, Open, Activating
  <2> QED
    BY <1>7, <2>2, <2>3 DEF OpenEvents
<1> QED
  BY <1>5, <1>6, <1>7

-----------------------------------------------------------------------------
(* BeginActivation. *)

LEMMA SoundShare ==
  ASSUME Sound, NEW c \in Client, Share(c)
  PROVE  Sound'
<1>1. TypeOK /\ CallSound(c) /\ OnTarget(c) /\ client[c].at = "begin"
  BY DEF Sound, Share
<1>2. PICK o \in Routes(client[c].goal) :
        /\ IsShared(o, client[c].goal)
        /\ Holds(c, o, object[o].token)
        /\ object' = [object EXCEPT ![o].refs = @ + 1]
  BY DEF Share
<1>3. o \in Object /\ ObjectSound(o) /\ object[o] \in ObjectState /\ object[o].refs \in Nat
  BY <1>1, <1>2, ObjectTypes DEF Sound, Routes
<1>4. object[o].token \in Token
  BY <1>2, <1>3 DEF ObjectSound, IsShared
<1> DEFINE r == [client[c] EXCEPT !.at = "opening", !.held = o, !.token = object[o].token]
<1>5. client[c] \in ClientState
  BY <1>1, CallTypes
<1>6. r \in ClientState /\ client' = [client EXCEPT ![c] = r]
  BY <1>2, <1>3, <1>4, <1>5 DEF ClientState, Holds, Become
<1>7. /\ r.at = "opening" /\ r.phase = client[c].phase /\ r.goal = client[c].goal
      /\ r.wanted = client[c].wanted /\ r.restore = client[c].restore
      /\ r.token = object[o].token /\ r.held = o
      /\ r.via = client[c].via /\ r.touched = client[c].touched
  BY <1>5 DEF ClientState
<1>8. client'[c] = r /\ \A e \in Client : e # c => client'[e] = client[e]
  BY <1>1, <1>6 DEF TypeOK
<1> HIDE DEF r
<1>9. \A u \in Object : /\ object'[u] \in ObjectState
                        /\ object'[u].state = object[u].state
                        /\ object'[u].token = object[u].token
                        /\ object'[u].document = object[u].document
                        /\ object'[u].published = object[u].published
                        /\ object'[u].refs = IF u = o THEN object[u].refs + 1 ELSE object[u].refs
  BY <1>1, <1>2, <1>3 DEF TypeOK, ObjectState
<1>10. TypeOK'
  <2>1. client' \in [Client -> ClientState] /\ object' \in [Object -> ObjectState]
    BY <1>1, <1>2, <1>6, <1>9 DEF TypeOK
  <2> QED
    BY <1>1, <2>1 DEF TypeOK, Share
<1>11. UNCHANGED <<thread, signalled>>
  BY DEF Share
<1>12. ASSUME NEW u \in Object PROVE Counted(u)' /\ ObjectSound(u)'
  <2>1. Threads(u)' = Threads(u) /\ Listed(u)' = Listed(u) /\ Counted(u)
    BY <1>9, <1>11 DEF Threads, Alive, Listed, Sound
  <2>2. client[c].held = None /\ None # u
    BY <1>1, ActivationAssumption DEF CallSound, Open, ActivationAssumption
  <2>3. CASE u = o
    <3>1. Holders(u)' = Holders(u) \cup {c} /\ c \notin Holders(u)
      BY <1>7, <1>8, <2>2, <2>3 DEF Holders
    <3>2. Cardinality(Holders(u)') = Cardinality(Holders(u)) + 1
      BY <3>1, CountsAreNat, FS_AddElement
    <3> QED
      BY <1>3, <1>9, <2>1, <2>3, <3>2, CountsAreNat, <1>11 DEF Counted, Listed, Sound, ObjectSound, Undecided
  <2>4. CASE u # o
    <3>1. Holders(u)' = Holders(u)
      BY <1>7, <1>8, <2>2, <2>4 DEF Holders
    <3> QED
      BY <1>9, <1>11, <2>1, <2>4, <3>1 DEF Counted, Sound, ObjectSound, Undecided
  <2> QED
    BY <2>3, <2>4
<1>13. \A t \in Token : Known(t)' <=> Known(t)
  BY <1>1, <1>3, <1>4, <1>7, <1>8, <1>9, TokenFacts DEF Known, IsKnown, CallSound, Open
<1>14. ASSUME NEW t \in Token PROVE ThreadSound(t)' /\ Quiet(t)'
  <2>1. ThreadSound(t) /\ Quiet(t)
    BY DEF Sound
  <2>2. ThreadSound(t)'
    BY <1>9, <1>11, <2>1 DEF ThreadSound, Alive, Undecided
  <2>3. Quiet(t)'
    BY <1>11, <1>13, <2>1 DEF Quiet
  <2> QED
    BY <2>2, <2>3
<1>15. ASSUME NEW e \in Client, e # c PROVE CallSound(e)' /\ ForGoal(e)' /\ OnTarget(e)'
  BY <1>8, <1>11, <1>15 DEF Sound, CallSound, ForGoal, OnTarget, Open, Running
<1>16. CallSound(c)' /\ OnTarget(c)'
  <2>1. object[o].token # 0 /\ o # None
    BY <1>3, <1>4, TokenFacts, ActivationAssumption DEF ActivationAssumption
  <2> QED
    BY <1>1, <1>7, <1>8, <2>1 DEF CallSound, OnTarget, Open, Running, Activating
<1>17. ForGoal(c)'
  <2>1. thread[object[o].token].object = o /\ Undecided(object[o].token)
    BY <1>2, <1>3 DEF ObjectSound, IsShared
  <2>2. object[o].document = thread[object[o].token].document
    BY <1>4, <2>1 DEF Sound, ThreadSound
  <2> QED
    BY <1>2, <1>7, <1>8, <1>11, <2>2 DEF ForGoal, IsShared
<1>18. TokensSuffice'
  <2>1. \A t \in Token : Used(t)' => Used(t)
    BY <1>11, <1>13 DEF Used, Alive
  <2>2. \A e \in Client : \A p \in Phase : Past(e, p) => Past(e, p)'
    BY <1>1, <1>7, <1>8 DEF Past
  <2> QED
    BY <2>1, <2>2, NoTokenTaken
<1> QED
  BY <1>10, <1>12, <1>14, <1>15, <1>16, <1>17, <1>18 DEF Sound

(* A fresh token is one that no thread works for and nothing knows.          *)
LEMMA SoundStart ==
  ASSUME Sound, NEW c \in Client, Start(c)
  PROVE  Sound'
<1>1. TypeOK /\ CallSound(c) /\ OnTarget(c) /\ client[c].at = "begin" /\ client[c].goal \in Doc
  BY DEF Sound, Start, CallSound, Activating
<1> DEFINE token == CHOOSE t \in Free : TRUE
<1>2. token \in Free
  BY <1>1, TokenLeft
<1>3. PICK o \in Routes(client[c].goal) :
        /\ object[o].state # "pending"
        /\ object' = [object EXCEPT ![o] = Begun(o, client[c].goal, token)]
        /\ thread' = [thread EXCEPT ![token] =
              [Unborn EXCEPT !.at = "switch", !.object = o, !.document = client[c].goal]]
        /\ Holds(c, o, object'[o].token)
  BY DEF Start
<1>4. PICK k : k = token
  OBVIOUS
<1> HIDE DEF token
<1>5. k \in Token /\ thread[k].at = "none" /\ ~Known(k) /\ k # 0
  BY <1>2, <1>4, TokenFacts DEF Free, Known
<1>6. o \in Object /\ object[o] \in ObjectState /\ object[o].refs \in Nat
  BY <1>1, <1>3, ObjectTypes DEF Routes
<1>7. \A u \in Object :
        /\ object'[u] \in ObjectState
        /\ object'[u].published = object[u].published
        /\ u # o => object'[u] = object[u]
  <2> DEFINE b == Begun(o, client[c].goal, k)
  <2>1. b \in ObjectState /\ b.published = object[o].published
    <3>1. PICK n \in Nat : n = object[o].refs + 2
      BY <1>6
    <3>2. b = [object[o] EXCEPT !.state = "pending", !.document = client[c].goal,
                                !.token = k, !.refs = n]
      BY <3>1 DEF Begun
    <3>3. PICK x \in ObjectState : x = object[o]
      BY <1>6
    <3>4. PICK d \in Doc : d = client[c].goal
      BY <1>1
    <3>5. b = [x EXCEPT !.state = "pending", !.document = d, !.token = k, !.refs = n]
      BY <3>2, <3>3, <3>4
    <3> HIDE DEF b
    <3>6. b \in ObjectState /\ b.published = x.published
      BY <1>5, <3>5 DEF ObjectState
    <3> QED
      BY <3>3, <3>6
  <2>2. object'[o] = b /\ \A u \in Object : u # o => object'[u] = object[u]
    BY <1>1, <1>3, <1>4, <1>6 DEF TypeOK
  <2> HIDE DEF b
  <2> QED
    BY <1>1, <2>1, <2>2 DEF TypeOK
<1>8. /\ object'[o].state = "pending" /\ object'[o].token = k
      /\ object'[o].document = client[c].goal /\ object'[o].refs = object[o].refs + 2
  BY <1>1, <1>3, <1>4, <1>6 DEF TypeOK, ObjectState, Begun
<1>9. /\ thread'[k].at = "switch" /\ thread'[k].object = o
      /\ thread'[k].document = client[c].goal
      /\ \A t \in Token : t # k => thread'[t] = thread[t]
      /\ thread' \in [Token -> ThreadState]
  BY <1>1, <1>3, <1>4, <1>5, <1>6 DEF TypeOK, ThreadState, Unborn, Signal
<1> DEFINE r == [client[c] EXCEPT !.at = "opening", !.held = o, !.token = k]
<1>10. client[c] \in ClientState
  BY <1>1, CallTypes
<1>11. r \in ClientState /\ client' = [client EXCEPT ![c] = r]
  BY <1>3, <1>5, <1>6, <1>8, <1>10 DEF ClientState, Holds, Become
<1>12. /\ r.at = "opening" /\ r.phase = client[c].phase /\ r.goal = client[c].goal
       /\ r.wanted = client[c].wanted /\ r.restore = client[c].restore
       /\ r.token = k /\ r.held = o
       /\ r.via = client[c].via /\ r.touched = client[c].touched
  BY <1>10 DEF ClientState
<1>13. client'[c] = r /\ \A e \in Client : e # c => client'[e] = client[e]
  BY <1>1, <1>11 DEF TypeOK
<1> HIDE DEF r
<1>14. \A t \in Token : signalled'[t] \in {signalled[t], {}} /\ Quiet(t)'
  BY DEF Start, EventsClosed, Quiet, Known
<1>15. TypeOK'
  <2>1. client' \in [Client -> ClientState]
    BY <1>1, <1>11 DEF TypeOK
  <2>2. object' \in [Object -> ObjectState]
    BY <1>1, <1>3, <1>7 DEF TypeOK
  <2>3. signalled' \in [Token -> SUBSET Signal]
    BY <1>1, <1>14 DEF Start, EventsClosed, TypeOK
  <2>4. active' \in Doc /\ faults' \in 0 .. MaxFaults /\ disturbed' \in BOOLEAN
    BY <1>1 DEF TypeOK, Start
  <2> QED
    BY <1>9, <2>1, <2>2, <2>3, <2>4 DEF TypeOK
<1>16. \A t \in Token : Alive(t) => t # k
  BY <1>5 DEF Alive
<1>17. ASSUME NEW u \in Object PROVE Counted(u)'
  <2>1. Listed(u)' = Listed(u) /\ Counted(u)
    BY <1>7 DEF Listed, Sound
  <2>2. client[c].held = None /\ None # u
    BY <1>1, ActivationAssumption DEF CallSound, Open, ActivationAssumption
  <2>3. CASE u = o
    <3>1. Holders(u)' = Holders(u) \cup {c} /\ c \notin Holders(u)
      BY <1>12, <1>13, <2>2, <2>3 DEF Holders
    <3>2. Threads(u)' = Threads(u) \cup {k} /\ k \notin Threads(u)
      BY <1>5, <1>9, <1>16, <2>3 DEF Threads, Alive
    <3>3. Cardinality(Holders(u)') = Cardinality(Holders(u)) + 1
      BY <3>1, CountsAreNat, FS_AddElement
    <3>4. Cardinality(Threads(u)') = Cardinality(Threads(u)) + 1
      BY <3>2, CountsAreNat, FS_AddElement
    <3> QED
      BY <1>6, <1>8, <2>1, <2>3, <3>3, <3>4, CountsAreNat DEF Counted, Listed
  <2>4. CASE u # o
    <3>1. Holders(u)' = Holders(u)
      BY <1>12, <1>13, <2>2, <2>4 DEF Holders
    <3>2. Threads(u)' = Threads(u)
      BY <1>5, <1>9, <2>4 DEF Threads, Alive
    <3> QED
      BY <1>7, <2>1, <2>4, <3>1, <3>2 DEF Counted
  <2> QED
    BY <2>3, <2>4
<1>18. ASSUME NEW u \in Object PROVE ObjectSound(u)'
  <2>1. CASE u = o
    BY <1>5, <1>8, <1>9, <2>1 DEF ObjectSound, Undecided
  <2>2. CASE u # o
    BY <1>5, <1>7, <1>9, <2>2 DEF Sound, ObjectSound, Undecided
  <2> QED
    BY <2>1, <2>2
<1>19. ASSUME NEW t \in Token PROVE ThreadSound(t)'
  <2>1. CASE t = k
    BY <1>1, <1>6, <1>8, <1>9, <2>1 DEF ThreadSound
  <2>2. CASE t # k
    <3>1. ThreadSound(t) /\ thread'[t] = thread[t]
      BY <1>9, <2>2 DEF Sound
    <3>2. Undecided(t) => thread[t].object # o /\ thread[t].object \in Object
      BY <1>3, <3>1 DEF ThreadSound, Undecided, Alive
    <3> QED
      BY <1>7, <3>1, <3>2 DEF ThreadSound, Undecided, Alive
  <2> QED
    BY <2>1, <2>2
<1>20. ASSUME NEW e \in Client, e # c PROVE CallSound(e)' /\ ForGoal(e)' /\ OnTarget(e)'
  <2>1. client'[e] = client[e] /\ client[e].token # k
    BY <1>5, <1>13, <1>20 DEF Known, IsKnown
  <2>2. client[e].token # 0 => thread'[client[e].token] = thread[client[e].token]
    BY <1>1, <1>9, <2>1, CallTypes
  <2> QED
    BY <2>1, <2>2 DEF Sound, CallSound, ForGoal, OnTarget, Open, Running
<1>21. CallSound(c)' /\ OnTarget(c)' /\ ForGoal(c)'
  <2>1. o # None
    BY <1>6, ActivationAssumption DEF ActivationAssumption
  <2>2. CallSound(c)'
    BY <1>1, <1>5, <1>12, <1>13, <2>1 DEF CallSound, Open, Running, Activating
  <2> QED
    BY <1>1, <1>9, <1>12, <1>13, <2>2 DEF OnTarget, ForGoal
<1>22. TokensSuffice'
  <2>1. ASSUME NEW t \in Token \ {k}, Used(t)' PROVE Used(t)
    <3>1. Alive(t)' => Alive(t)
      BY <1>9 DEF Alive
    <3>2. Known(t)' => Known(t)
      BY <1>7, <1>8, <1>12, <1>13 DEF Known, IsKnown
    <3> QED
      BY <2>1, <3>1, <3>2 DEF Used
  <2>2. \A e \in Client : \A p \in Phase : Past(e, p) => Past(e, p)'
    BY <1>1, <1>12, <1>13 DEF Past
  <2>3. client[c].phase \in Phase
    BY <1>1, CallTypes
  <2>4. ASSUME NEW p \in Phase, p = client[c].phase PROVE Past(c, p)'
    BY <1>12, <1>13, <2>4 DEF Past, Phase
  <2> QED
    BY <1>1, <1>5, <2>1, <2>2, <2>3, <2>4, TokenTaken
<1> QED
  BY <1>14, <1>15, <1>17, <1>18, <1>19, <1>20, <1>21, <1>22 DEF Sound

LEMMA SoundStartFails ==
  ASSUME Sound, NEW c \in Client, StartFails(c)
  PROVE  Sound'
<1>1. TypeOK /\ CallSound(c) /\ OnTarget(c) /\ client[c].at = "begin" /\ client[c].goal \in Doc
  BY DEF Sound, StartFails, CallSound, Activating
<1>2. PICK o \in Routes(client[c].goal) :
        /\ object[o].state # "pending"
        /\ object' = [object EXCEPT ![o] = NotStarted(o, client[c].goal)]
  BY DEF StartFails
<1>3. o \in Object /\ object[o] \in ObjectState
  BY <1>1, <1>2, ObjectTypes DEF Routes
<1>4. PICK x \in ObjectState : x = object[o]
  BY <1>3
<1>5. PICK d \in Doc : d = client[c].goal
  BY <1>1
<1>6. object'[o] = [x EXCEPT !.state = "failed", !.document = d, !.token = 0]
  BY <1>1, <1>2, <1>3, <1>4, <1>5 DEF TypeOK, NotStarted
<1>7. /\ object'[o] \in ObjectState /\ object'[o].state = "failed" /\ object'[o].token = 0
      /\ object'[o].refs = object[o].refs /\ object'[o].published = object[o].published
  BY <1>4, <1>6 DEF ObjectState
<1>8. \A u \in Object : u # o => object'[u] = object[u]
  BY <1>1, <1>2 DEF TypeOK
<1> DEFINE r == [client[c] EXCEPT !.at = "fallback"]
<1>9. client[c] \in ClientState
  BY <1>1, CallTypes
<1>10. r \in ClientState /\ client' = [client EXCEPT ![c] = r]
  BY <1>9 DEF ClientState, StartFails, Goto, Become
<1>11. /\ r.at = "fallback" /\ r.phase = client[c].phase /\ r.goal = client[c].goal
       /\ r.wanted = client[c].wanted /\ r.restore = client[c].restore
       /\ r.token = client[c].token /\ r.held = client[c].held
       /\ r.via = client[c].via /\ r.touched = client[c].touched
  BY <1>9 DEF ClientState
<1>12. client'[c] = r /\ \A e \in Client : e # c => client'[e] = client[e]
  BY <1>1, <1>10 DEF TypeOK
<1> HIDE DEF r
<1>13. \A t \in Token : signalled'[t] \in {signalled[t], {}} /\ Quiet(t)'
  BY DEF StartFails, EventsClosed, Quiet, Known
<1>14. UNCHANGED <<active, thread, disturbed>>
  BY DEF StartFails
<1>15. TypeOK'
  <2>1. client' \in [Client -> ClientState]
    BY <1>1, <1>10 DEF TypeOK
  <2>2. object' \in [Object -> ObjectState]
    BY <1>1, <1>2, <1>7 DEF TypeOK
  <2>3. signalled' \in [Token -> SUBSET Signal]
    BY <1>1, <1>13 DEF StartFails, EventsClosed, TypeOK
  <2>4. faults' \in 0 .. MaxFaults
    BY <1>1, ActivationAssumption DEF StartFails, Fault, TypeOK, ActivationAssumption
  <2> QED
    BY <1>1, <1>14, <2>1, <2>2, <2>3, <2>4 DEF TypeOK
<1>16. ASSUME NEW u \in Object PROVE Counted(u)' /\ ObjectSound(u)'
  <2>1. /\ Listed(u)' = Listed(u) /\ Counted(u) /\ ObjectSound(u)
        /\ object'[u].refs = object[u].refs
    BY <1>7, <1>8 DEF Listed, Sound
  <2>2. Holders(u)' = Holders(u) /\ Threads(u)' = Threads(u)
    BY <1>11, <1>12, <1>14 DEF Holders, Threads, Alive
  <2>3. Counted(u)'
    BY <2>1, <2>2 DEF Counted
  <2>4. ObjectSound(u)'
    BY <1>7, <1>8, <1>14, <2>1 DEF ObjectSound, Undecided
  <2> QED
    BY <2>3, <2>4
<1>17. ASSUME NEW t \in Token PROVE ThreadSound(t)'
  <2>1. ThreadSound(t)
    BY DEF Sound
  <2>2. Undecided(t) => thread[t].object # o /\ thread[t].object \in Object
    BY <1>2, <2>1 DEF ThreadSound, Undecided, Alive
  <2> QED
    BY <1>8, <1>14, <2>1, <2>2 DEF ThreadSound, Undecided, Alive
<1>18. ASSUME NEW e \in Client, e # c PROVE CallSound(e)' /\ ForGoal(e)' /\ OnTarget(e)'
  BY <1>12, <1>14, <1>18 DEF Sound, CallSound, ForGoal, OnTarget, Open, Running
<1>19. CallSound(c)' /\ OnTarget(c)' /\ ForGoal(c)'
  BY <1>1, <1>11, <1>12 DEF CallSound, OnTarget, ForGoal, Open, Running, Activating
<1>20. TokensSuffice'
  <2>1. \A t \in Token : Known(t)' => Known(t)
    BY <1>7, <1>8, <1>11, <1>12, TokenFacts DEF Known, IsKnown
  <2>2. \A t \in Token : Used(t)' => Used(t)
    BY <1>14, <2>1 DEF Used, Alive
  <2>3. \A e \in Client : \A p \in Phase : Past(e, p) => Past(e, p)'
    BY <1>1, <1>11, <1>12 DEF Past
  <2> QED
    BY <2>2, <2>3, NoTokenTaken
<1> QED
  BY <1>13, <1>15, <1>16, <1>17, <1>18, <1>19, <1>20 DEF Sound

-----------------------------------------------------------------------------
(* RunActivation. *)

(* A thread goes on with an activation that is not decided.                  *)
LEMMA SoundAdvance ==
  ASSUME Sound, NEW t \in Token, Switch(t) \/ Check(t)
  PROVE  Sound'
<1>1. TypeOK /\ ThreadSound(t) /\ Undecided(t)
  BY DEF Sound, Switch, Check, Undecided
<1>2. thread[t] \in ThreadState /\ thread[t].document \in Doc
  BY <1>1, ThreadTypes DEF ThreadSound, Undecided, Alive
<1>3. PICK q \in ThreadState :
        /\ Advance(t, q) /\ q.at \in {"check", "finish"}
        /\ q.object = thread[t].object /\ q.document = thread[t].document
  <2> DEFINE On(q) == /\ q \in ThreadState /\ q.at \in {"check", "finish"}
                      /\ q.object = thread[t].object /\ q.document = thread[t].document
  <2>1. \A a \in {"check", "finish"} : On([thread[t] EXCEPT !.at = a])
    BY <1>2 DEF ThreadState
  <2>2. \A w \in Signal : On([thread[t] EXCEPT !.at = "finish", !.outcome = w])
    BY <1>2 DEF ThreadState
  <2> HIDE DEF On
  <2>3. CASE Switch(t)
    <3>1. \E a \in {"check", "finish"} : Advance(t, [thread[t] EXCEPT !.at = a])
      BY <2>3 DEF Switch
    <3>2. \E q : Advance(t, q) /\ On(q)
      BY <2>1, <3>1
    <3> QED
      BY <3>2 DEF On
  <2>4. CASE Check(t)
    <3>1. \/ Advance(t, [thread[t] EXCEPT !.at = "finish"])
          \/ \E w \in Signal : Advance(t, [thread[t] EXCEPT !.at = "finish", !.outcome = w])
      BY <2>4 DEF Check, Signal
    <3>2. \E q : Advance(t, q) /\ On(q)
      BY <2>1, <2>2, <3>1
    <3> QED
      BY <3>2 DEF On
  <2> QED
    BY <2>3, <2>4
<1>4. /\ thread' \in [Token -> ThreadState] /\ thread'[t] = q
      /\ \A u \in Token : u # t => thread'[u] = thread[u]
  BY <1>1, <1>3 DEF Advance, TypeOK
<1>5. UNCHANGED <<object, signalled, client, disturbed>>
  BY DEF Switch, Check
<1>6. \A u \in Token : /\ thread'[u].object = thread[u].object
                       /\ thread'[u].document = thread[u].document
                       /\ Alive(u)' = Alive(u) /\ Undecided(u)' = Undecided(u)
  BY <1>1, <1>3, <1>4 DEF Alive, Undecided
<1>7. TypeOK'
  <2>1. active' \in Doc
    BY <1>1, <1>2 DEF TypeOK, Switch, Check
  <2>2. faults' \in 0 .. MaxFaults
    BY <1>1, ActivationAssumption DEF TypeOK, Switch, Check, Fault, ActivationAssumption
  <2> QED
    BY <1>1, <1>4, <1>5, <2>1, <2>2 DEF TypeOK
<1>8. ASSUME NEW o \in Object PROVE Counted(o)' /\ ObjectSound(o)'
  <2>1. Holders(o)' = Holders(o) /\ Threads(o)' = Threads(o) /\ Listed(o)' = Listed(o)
    BY <1>5, <1>6 DEF Holders, Threads, Listed
  <2>2. Counted(o) /\ ObjectSound(o)
    BY DEF Sound
  <2>3. Counted(o)'
    BY <1>5, <2>1, <2>2 DEF Counted
  <2>4. ObjectSound(o)'
    BY <1>5, <1>6, <2>2 DEF ObjectSound
  <2> QED
    BY <2>3, <2>4
<1>9. ASSUME NEW u \in Token PROVE ThreadSound(u)' /\ Quiet(u)'
  <2>1. ThreadSound(u) /\ Quiet(u)
    BY DEF Sound
  <2>2. ThreadSound(u)'
    BY <1>5, <1>6, <2>1 DEF ThreadSound
  <2>3. Quiet(u)'
    BY <1>5, <2>1 DEF Quiet, Known
  <2> QED
    BY <2>2, <2>3
<1>10. ASSUME NEW e \in Client PROVE CallSound(e)' /\ ForGoal(e)' /\ OnTarget(e)'
  <2>1. CallSound(e) /\ ForGoal(e) /\ OnTarget(e) /\ client[e].token \in {0} \cup Token
    BY <1>1, CallTypes DEF Sound
  <2>2. CallSound(e)' /\ OnTarget(e)'
    BY <1>5, <2>1 DEF CallSound, OnTarget, Open, Running
  <2>3. ForGoal(e)'
    BY <1>5, <1>6, <2>1 DEF ForGoal, Alive
  <2> QED
    BY <2>2, <2>3
<1>11. TokensSuffice'
  <2>1. \A u \in Token : Used(u)' => Used(u)
    BY <1>5, <1>6 DEF Used, Known
  <2>2. \A e \in Client : \A p \in Phase : Past(e, p) => Past(e, p)'
    BY <1>5 DEF Past
  <2> QED
    BY <2>1, <2>2, NoTokenTaken
<1> QED
  BY <1>7, <1>8, <1>9, <1>10, <1>11 DEF Sound

(* The thread that decides an activation is the one that was started for it. *)
LEMMA SoundFinish ==
  ASSUME Sound, NEW t \in Token, Finish(t)
  PROVE  Sound'
<1> DEFINE o == thread[t].object
<1>1. TypeOK /\ ThreadSound(t) /\ thread[t].at = "finish" /\ o \in Object
  BY DEF Sound, Finish, ThreadSound, Alive
<1>2. object[o].token = t
  BY <1>1 DEF ThreadSound, Undecided
<1>3. PICK k : k = o
  OBVIOUS
<1>4. PICK s \in {"succeeded", "failed"} : object' = [object EXCEPT ![k].state = s]
  BY <1>3 DEF Finish
<1>5. PICK q : q = [thread[t] EXCEPT !.at = "signal"]
  OBVIOUS
<1>6. thread' = [thread EXCEPT ![t] = q]
  BY <1>5 DEF Finish, Advance
<1>7. thread[t] \in ThreadState
  BY <1>1, ThreadTypes
<1>8. /\ q \in ThreadState /\ q.at = "signal" /\ q.object = k
      /\ q.document = thread[t].document
  BY <1>3, <1>5, <1>7 DEF ThreadState
<1> HIDE DEF o
<1>9. /\ thread' \in [Token -> ThreadState] /\ thread'[t] = q
      /\ \A u \in Token : u # t => thread'[u] = thread[u]
  BY <1>1, <1>6, <1>8 DEF TypeOK
<1>10. k \in Object /\ object[k].token = t
  BY <1>1, <1>2, <1>3
<1>11. \A u \in Object : /\ object'[u] \in ObjectState
                         /\ object'[u].refs = object[u].refs
                         /\ object'[u].published = object[u].published
                         /\ object'[u].token = object[u].token
                         /\ u # k => object'[u] = object[u]
  BY <1>1, <1>4, <1>10 DEF TypeOK, ObjectState
<1>12. object'[k].state # "pending"
  BY <1>1, <1>4, <1>10 DEF TypeOK, ObjectState
<1>13. UNCHANGED <<active, signalled, client, disturbed, faults>>
  BY DEF Finish
<1>14. \A u \in Token : /\ thread'[u].object = thread[u].object
                        /\ thread'[u].document = thread[u].document
                        /\ Alive(u)' = Alive(u)
                        /\ Undecided(u)' <=> Undecided(u) /\ u # t
  BY <1>1, <1>3, <1>8, <1>9 DEF Alive, Undecided, o
<1>15. TypeOK'
  <2>1. object' \in [Object -> ObjectState]
    BY <1>1, <1>4, <1>11 DEF TypeOK
  <2> QED
    BY <1>1, <1>9, <1>13, <2>1 DEF TypeOK
<1>16. ASSUME NEW u \in Object PROVE Counted(u)' /\ ObjectSound(u)'
  <2>1. Holders(u)' = Holders(u) /\ Threads(u)' = Threads(u) /\ Listed(u)' = Listed(u)
    BY <1>11, <1>13, <1>14 DEF Holders, Threads, Listed
  <2>2. Counted(u) /\ ObjectSound(u)
    BY DEF Sound
  <2>3. Counted(u)'
    BY <1>11, <2>1, <2>2 DEF Counted
  <2>4. CASE u = k
    BY <1>12, <2>3, <2>4 DEF ObjectSound
  <2>5. CASE u # k
    <3>1. object[u].state = "pending" => object[u].token # t
      BY <1>1, <1>3, <2>2, <2>5 DEF ObjectSound, o
    <3> QED
      BY <1>11, <1>14, <2>2, <2>3, <2>5, <3>1 DEF ObjectSound
  <2> QED
    BY <2>4, <2>5
<1>17. ASSUME NEW u \in Token PROVE ThreadSound(u)' /\ Quiet(u)'
  <2>1. ThreadSound(u) /\ Quiet(u)
    BY DEF Sound
  <2>2. Undecided(u) /\ u # t => thread[u].object # k
    BY <1>10, <2>1 DEF ThreadSound
  <2>3. ThreadSound(u)'
    BY <1>11, <1>14, <2>1, <2>2 DEF ThreadSound, Undecided, Alive
  <2>4. Quiet(u)'
    BY <1>11, <1>13, <2>1 DEF Quiet, Known, IsKnown
  <2> QED
    BY <2>3, <2>4
<1>18. ASSUME NEW e \in Client PROVE CallSound(e)' /\ ForGoal(e)' /\ OnTarget(e)'
  <2>1. CallSound(e) /\ ForGoal(e) /\ OnTarget(e) /\ client[e].token \in {0} \cup Token
    BY <1>1, CallTypes DEF Sound
  <2>2. CallSound(e)' /\ OnTarget(e)'
    BY <1>13, <2>1 DEF CallSound, OnTarget, Open, Running
  <2>3. ForGoal(e)'
    BY <1>13, <1>14, <2>1 DEF ForGoal, Alive
  <2> QED
    BY <2>2, <2>3
<1>19. TokensSuffice'
  <2>1. \A u \in Token : Used(u)' => Used(u)
    BY <1>11, <1>13, <1>14 DEF Used, Known, IsKnown
  <2>2. \A e \in Client : \A p \in Phase : Past(e, p) => Past(e, p)'
    BY <1>13 DEF Past
  <2> QED
    BY <2>1, <2>2, NoTokenTaken
<1> QED
  BY <1>15, <1>16, <1>17, <1>18, <1>19 DEF Sound

(* The thread goes and gives its reference back; the event it sets is the    *)
(* one its object names by then.                                             *)
LEMMA SoundSetEvent ==
  ASSUME Sound, NEW t \in Token, SetEvent(t)
  PROVE  Sound'
<1>1. /\ TypeOK /\ ThreadSound(t) /\ thread[t].at = "signal"
      /\ thread[t].object \in Object /\ thread[t].outcome \in Signal
  BY ThreadTypes DEF Sound, SetEvent, ThreadSound, Alive
<1>2. PICK k \in Object : k = thread[t].object
  BY <1>1
<1>3. object' = [object EXCEPT ![k].refs = @ - 1]
  BY <1>2 DEF SetEvent
<1>4. /\ thread' \in [Token -> ThreadState] /\ thread'[t] = Unborn
      /\ \A u \in Token : u # t => thread'[u] = thread[u]
  <2>1. Unborn \in ThreadState /\ thread' = [thread EXCEPT ![t] = Unborn]
    BY DEF Unborn, ThreadState, Signal, SetEvent, Advance
  <2> QED
    BY <1>1, <2>1 DEF TypeOK
<1>5. UNCHANGED <<active, client, disturbed, faults>>
  BY DEF SetEvent
<1>6. object[k] \in ObjectState /\ object[k].refs \in Nat /\ object[k].token \in {0} \cup Token
  BY <1>1, ObjectTypes
<1>7. /\ object'[k].refs = object[k].refs - 1
      /\ \A u \in Object : /\ object'[u].state = object[u].state
                           /\ object'[u].token = object[u].token
                           /\ object'[u].document = object[u].document
                           /\ object'[u].published = object[u].published
                           /\ u # k => object'[u] = object[u]
  BY <1>1, <1>3, <1>6 DEF TypeOK, ObjectState
<1>8. ~Alive(t)' /\ \A u \in Token : u # t => Alive(u)' = Alive(u) /\ Undecided(u)' = Undecided(u)
  BY <1>4 DEF Alive, Undecided, Unborn
<1>9. ASSUME NEW u \in Object PROVE Counted(u)'
  <2>1. Holders(u)' = Holders(u) /\ Listed(u)' = Listed(u) /\ Counted(u)
    BY <1>5, <1>7 DEF Holders, Listed, Sound
  <2>2. CASE u = k
    <3>1. Threads(u)' = Threads(u) \ {t} /\ t \in Threads(u)
      BY <1>1, <1>2, <1>4, <1>8, <2>2 DEF Threads, Alive
    <3>2. Cardinality(Threads(u)') = Cardinality(Threads(u)) - 1
      BY <3>1, CountsAreNat, FS_RemoveElement
    <3> QED
      BY <1>6, <1>7, <2>1, <2>2, <3>2, CountsAreNat DEF Counted, Listed
  <2>3. CASE u # k
    <3>1. Threads(u)' = Threads(u)
      BY <1>2, <1>4, <1>8, <2>3 DEF Threads, Alive
    <3> QED
      BY <1>7, <2>1, <2>3, <3>1 DEF Counted
  <2> QED
    BY <2>2, <2>3
<1>10. TypeOK'
  <2>1. object'[k].refs \in Nat
    BY <1>9, CountsAreNat DEF Counted, Listed
  <2>2. object'[k] \in ObjectState
    BY <1>1, <1>3, <1>6, <1>7, <2>1 DEF TypeOK, ObjectState
  <2>3. object' \in [Object -> ObjectState]
    BY <1>1, <1>3, <2>2 DEF TypeOK
  <2>4. signalled' \in [Token -> SUBSET Signal]
    BY <1>1, <1>2, <1>6 DEF TypeOK, SetEvent
  <2> QED
    BY <1>1, <1>4, <1>5, <2>3, <2>4 DEF TypeOK
<1>11. ASSUME NEW u \in Object PROVE ObjectSound(u)'
  <2>1. ObjectSound(u)
    BY DEF Sound
  <2>2. object[u].state = "pending" => object[u].token # t
    BY <1>1, <2>1 DEF ObjectSound, Undecided
  <2> QED
    BY <1>4, <1>7, <2>1, <2>2 DEF ObjectSound, Undecided
<1>12. \A u \in Token : Known(u)' <=> Known(u)
  BY <1>5, <1>7 DEF Known, IsKnown
<1>13. ASSUME NEW u \in Token PROVE ThreadSound(u)' /\ Quiet(u)'
  <2>1. ThreadSound(u) /\ Quiet(u)
    BY DEF Sound
  <2>2. ThreadSound(u)'
    BY <1>4, <1>7, <1>8, <2>1 DEF ThreadSound, Undecided, Alive, Unborn
  <2>3. ~Known(u) => signalled'[u] = signalled[u]
    BY <1>1, <1>2, <1>6 DEF SetEvent, Known, IsKnown, TypeOK
  <2>4. Quiet(u)'
    BY <1>12, <2>1, <2>3 DEF Quiet
  <2> QED
    BY <2>2, <2>4
<1>14. ASSUME NEW e \in Client PROVE CallSound(e)' /\ ForGoal(e)' /\ OnTarget(e)'
  <2>1. CallSound(e) /\ ForGoal(e) /\ OnTarget(e) /\ client[e].token \in {0} \cup Token
    BY <1>1, CallTypes DEF Sound
  <2>2. CallSound(e)' /\ OnTarget(e)'
    BY <1>5, <2>1 DEF CallSound, OnTarget, Open, Running
  <2>3. ForGoal(e)'
    BY <1>4, <1>5, <2>1 DEF ForGoal, Unborn
  <2> QED
    BY <2>2, <2>3
<1>15. TokensSuffice'
  <2>1. \A u \in Token : Used(u)' => Used(u)
    BY <1>8, <1>12 DEF Used
  <2>2. \A e \in Client : \A p \in Phase : Past(e, p) => Past(e, p)'
    BY <1>5 DEF Past
  <2> QED
    BY <2>1, <2>2, NoTokenTaken
<1> QED
  BY <1>9, <1>10, <1>11, <1>13, <1>14, <1>15 DEF Sound

-----------------------------------------------------------------------------
(* The environment. *)

LEMMA SoundUnpublish ==
  ASSUME Sound, NEW k \in Object, Unpublish(k)
  PROVE  Sound'
<1>1. TypeOK /\ object[k] \in ObjectState /\ object[k].refs \in Nat /\ object[k].published
  BY ObjectTypes DEF Sound, Unpublish
<1>2. object' = [object EXCEPT ![k].published = FALSE, ![k].refs = @ - 1]
  BY DEF Unpublish
<1>3. UNCHANGED <<active, thread, signalled, client, disturbed>>
  BY DEF Unpublish
<1>4. /\ object'[k].refs = object[k].refs - 1 /\ object'[k].published = FALSE
      /\ \A u \in Object : /\ object'[u].state = object[u].state
                           /\ object'[u].token = object[u].token
                           /\ object'[u].document = object[u].document
                           /\ u # k => object'[u] = object[u]
  BY <1>1, <1>2 DEF TypeOK, ObjectState
<1>5. ASSUME NEW u \in Object PROVE Counted(u)' /\ ObjectSound(u)'
  <2>1. Holders(u)' = Holders(u) /\ Threads(u)' = Threads(u) /\ Counted(u) /\ ObjectSound(u)
    BY <1>3 DEF Holders, Threads, Alive, Sound
  <2>2. CASE u = k
    BY <1>1, <1>4, <2>1, <2>2, <1>3, CountsAreNat DEF Counted, Listed, ObjectSound, Undecided
  <2>3. CASE u # k
    BY <1>3, <1>4, <2>1, <2>3 DEF Counted, Listed, ObjectSound, Undecided
  <2> QED
    BY <2>2, <2>3
<1>6. TypeOK'
  <2>1. object'[k].refs \in Nat
    BY <1>5, CountsAreNat DEF Counted, Listed
  <2>2. object'[k] \in ObjectState
    BY <1>1, <1>2, <1>4, <2>1 DEF TypeOK, ObjectState
  <2>3. object' \in [Object -> ObjectState]
    BY <1>1, <1>2, <2>2 DEF TypeOK
  <2>4. faults' \in 0 .. MaxFaults
    BY <1>1, ActivationAssumption DEF TypeOK, Unpublish, Fault, ActivationAssumption
  <2> QED
    BY <1>1, <1>3, <2>3, <2>4 DEF TypeOK
<1>7. \A t \in Token : Known(t)' <=> Known(t)
  BY <1>3, <1>4 DEF Known, IsKnown
<1>8. ASSUME NEW t \in Token PROVE ThreadSound(t)' /\ Quiet(t)'
  <2>1. ThreadSound(t) /\ Quiet(t)
    BY DEF Sound
  <2>2. ThreadSound(t)'
    BY <1>3, <1>4, <2>1 DEF ThreadSound, Undecided, Alive
  <2>3. Quiet(t)'
    BY <1>3, <1>7, <2>1 DEF Quiet
  <2> QED
    BY <2>2, <2>3
<1>9. ASSUME NEW e \in Client PROVE CallSound(e)' /\ ForGoal(e)' /\ OnTarget(e)'
  BY <1>3 DEF Sound, CallSound, ForGoal, OnTarget, Open, Running
<1>10. TokensSuffice'
  <2>1. \A t \in Token : Used(t)' => Used(t)
    BY <1>3, <1>7 DEF Used, Alive
  <2>2. \A e \in Client : \A p \in Phase : Past(e, p) => Past(e, p)'
    BY <1>3 DEF Past
  <2> QED
    BY <2>1, <2>2, NoTokenTaken
<1> QED
  BY <1>5, <1>6, <1>8, <1>9, <1>10 DEF Sound

(* The parts of the invariant but the types do not look at the tab in front. *)
LEMMA SoundSwitched ==
  ASSUME Sound, UNCHANGED <<object, thread, signalled, client>>,
         active' \in Doc, faults' \in 0 .. MaxFaults, disturbed' \in BOOLEAN
  PROVE  Sound'
<1>1. TypeOK'
  BY DEF Sound, TypeOK
<1>2. ASSUME NEW o \in Object PROVE Counted(o)' /\ ObjectSound(o)'
  <2>1. Counted(o) /\ ObjectSound(o)
    BY DEF Sound
  <2>2. Holders(o)' = Holders(o) /\ Threads(o)' = Threads(o) /\ Listed(o)' = Listed(o)
    BY DEF Holders, Threads, Alive, Listed
  <2> QED
    BY <2>1, <2>2 DEF Counted, ObjectSound, Undecided
<1>3. ASSUME NEW t \in Token PROVE ThreadSound(t)' /\ Quiet(t)'
  BY DEF Sound, ThreadSound, Quiet, Undecided, Alive, Known
<1>4. ASSUME NEW e \in Client PROVE CallSound(e)' /\ ForGoal(e)' /\ OnTarget(e)'
  BY DEF Sound, CallSound, ForGoal, OnTarget, Open, Running
<1>5. TokensSuffice'
  <2>1. \A t \in Token : Used(t)' => Used(t)
    BY DEF Used, Alive, Known
  <2>2. \A e \in Client : \A p \in Phase : Past(e, p) => Past(e, p)'
    BY DEF Past
  <2> QED
    BY <2>1, <2>2, NoTokenTaken
<1> QED
  BY <1>1, <1>2, <1>3, <1>4, <1>5 DEF Sound

(* Every step keeps what is owned.                                           *)
LEMMA SoundStep ==
  ASSUME Sound, [Next]_vars
  PROVE  Sound'
<1>1. TypeOK
  BY DEF Sound
<1>2. CASE UNCHANGED vars
  BY <1>1, <1>2, SoundSwitched DEF vars, TypeOK
<1>3. ASSUME NEW c \in Client, ClientStep(c) PROVE Sound'
  BY <1>3, SoundShare, SoundStart, SoundStartFails, SoundPlain, SoundOperate,
     SoundValidateAgain, SoundEvents DEF ClientStep
<1>4. ASSUME NEW t \in Token, ThreadStep(t) PROVE Sound'
  BY <1>4, SoundAdvance, SoundFinish, SoundSetEvent DEF ThreadStep
<1>5. ASSUME NEW d \in Doc, UserSwitches(d) PROVE Sound'
  <2>1. faults' \in 0 .. MaxFaults
    BY <1>1, <1>5, ActivationAssumption DEF TypeOK, UserSwitches, Fault, ActivationAssumption
  <2> QED
    BY <1>5, <2>1, SoundSwitched DEF UserSwitches
<1> QED
  BY <1>2, <1>3, <1>4, <1>5, SoundLook, SoundEvents, SoundUnpublish DEF Next, Rest

-----------------------------------------------------------------------------
(* Calls that nothing disturbs. *)

(* The one call that runs goes on, and the threads do not.                   *)
LEMMA Steers ==
  ASSUME Sound, Undisturbed, NEW c \in Client, Running(c),
         \A e \in Client : e # c => client'[e] = client[e],
         UNCHANGED <<object, thread, signalled>>,
         client'[c].token = client[c].token, client'[c].held = client[c].held,
         Open(c)' <=> Open(c),
         Running(c)' => Course(c)', ~Running(c)' => active' = Home
  PROVE  Undisturbed'
<1>1. \A e \in Client : e # c => ~Running(e) /\ ~Running(e)' /\ ~Open(e)'
  BY DEF Undisturbed, Running, Open
<1>2. \A e, f \in Client : Running(e)' /\ Running(f)' => e = f
  BY <1>1
<1>3. ASSUME NEW t \in Token, Alive(t)'
      PROVE  /\ signalled'[t] = {}
             /\ \E e \in Client : /\ Open(e)' /\ client'[e].token = t
                                  /\ client'[e].held = thread'[t].object
  <2>1. Alive(t)
    BY <1>3 DEF Alive
  <2>2. signalled[t] = {}
    BY <2>1 DEF Undisturbed
  <2>3. PICK e \in Client : Open(e) /\ client[e].token = t /\ client[e].held = thread[t].object
    BY <2>1 DEF Undisturbed
  <2>4. e = c
    BY <2>3 DEF Undisturbed, Running, Open
  <2> QED
    BY <2>2, <2>3, <2>4
<1>4. \A e \in Client : Open(e)' => object'[client'[e].held].token = client'[e].token
  BY <1>1 DEF Undisturbed
<1>5. \A e \in Client : Running(e)' => Course(e)'
  BY <1>1
<1>6. (\A e \in Client : ~Running(e)') => active' = Home
  OBVIOUS
<1> QED
  BY <1>2, <1>3, <1>4, <1>5, <1>6 DEF Undisturbed

(* A thread goes on, and its call waits for it.                              *)
LEMMA ThreadsGoOn ==
  ASSUME Sound, Undisturbed, NEW t \in Token, Alive(t), UNCHANGED client,
         \A o \in Object : object'[o].token = object[o].token,
         \A u \in Token : u # t => thread'[u] = thread[u],
         Alive(t)' => thread'[t].object = thread[t].object /\ signalled' = signalled
  PROVE  Undisturbed'
<1>1. PICK c \in Client : Open(c) /\ client[c].token = t /\ client[c].held = thread[t].object
  BY DEF Undisturbed
<1>2. \A e \in Client : Running(e) => e = c
  BY <1>1 DEF Undisturbed, Running, Open
<1>3. \A u \in Token : u # t => ~Alive(u)
  BY <1>1, <1>2 DEF Undisturbed, Running, Open
<1>4. ASSUME NEW u \in Token, Alive(u)'
      PROVE  /\ signalled'[u] = {}
             /\ \E e \in Client : /\ Open(e)' /\ client'[e].token = u
                                  /\ client'[e].held = thread'[u].object
  <2>1. u = t
    BY <1>3, <1>4 DEF Alive
  <2>2. signalled[t] = {}
    BY DEF Undisturbed
  <2>3. thread'[t].object = thread[t].object /\ signalled' = signalled
    BY <1>4, <2>1
  <2> QED
    BY <1>1, <2>1, <2>2, <2>3 DEF Open
<1>5. \A e \in Client : Open(e) => client[e].held \in Object
  BY CallTypes DEF Sound, CallSound
<1>6. \A e \in Client : Open(e)' => object'[client'[e].held].token = client'[e].token
  BY <1>5 DEF Undisturbed, Open
<1>7. ASSUME NEW e \in Client, Running(e)' PROVE Course(e)'
  <2>1. e = c /\ Course(e)
    BY <1>2, <1>7 DEF Running, Undisturbed
  <2>2. client[e].restore # None
    BY <1>1, <2>1 DEF Course, Open, Operating
  <2> QED
    BY <2>1, <2>2 DEF Course
<1>8. \E e \in Client : Running(e)'
  BY <1>1 DEF Running, Open
<1>9. \A e, f \in Client : Running(e)' /\ Running(f)' => e = f
  BY DEF Running, Undisturbed
<1> QED
  BY <1>4, <1>6, <1>7, <1>8, <1>9 DEF Undisturbed

(* While no call waits for a thread, there is none.                          *)
LEMMA NoThreads ==
  ASSUME Sound, Undisturbed, NEW c \in Client, Running(c), ~Open(c)
  PROVE  /\ \A t \in Token : ~Alive(t)
         /\ \A o \in Object : object[o].state # "pending"
<1>1. \A e \in Client : ~Open(e)
  BY DEF Undisturbed, Running, Open
<1>2. \A t \in Token : ~Alive(t)
  BY <1>1 DEF Undisturbed
<1> QED
  BY <1>2 DEF Sound, ObjectSound, Undecided, Alive

(* No thread is left, and no call waits for one.                             *)
LEMMA Unattended ==
  ASSUME Sound, Undisturbed, NEW c \in Client, Running(c), Running(c)', ~Open(c)',
         \A e \in Client : e # c => client'[e] = client[e],
         \A t \in Token : ~Alive(t)', Course(c)'
  PROVE  Undisturbed'
<1>1. \A e \in Client : e # c => ~Running(e) /\ ~Running(e)' /\ ~Open(e)'
  BY DEF Undisturbed, Running, Open
<1>2. \A e \in Client : ~Open(e)' /\ (Running(e)' => Course(e)')
  BY <1>1
<1>3. \A e, f \in Client : Running(e)' /\ Running(f)' => e = f
  BY <1>1
<1> QED
  BY <1>2, <1>3 DEF Undisturbed

LEMMA UndisturbedLook ==
  ASSUME Sound, Undisturbed, NEW c \in Client, NEW d \in Wants[c], Look(c, d), ~disturbed'
  PROVE  Undisturbed'
<1> DEFINE r == IF active = d
                THEN [Resting EXCEPT !.at = "working", !.wanted = d]
                ELSE [Resting EXCEPT !.at = "begin", !.wanted = d, !.goal = d,
                                     !.restore = active]
<1>1. TypeOK /\ client[c].at = "idle" /\ Become(c, r) /\ UNCHANGED <<active, thread>>
  BY DEF Sound, Look
<1>2. \A e \in Client : ~Running(e)
  BY DEF Look, Running
<1>3. active = Home /\ \A t \in Token : ~Alive(t)
  BY <1>2 DEF Undisturbed, Running, Open
<1>4. Home # None
  BY ActivationAssumption DEF ActivationAssumption
<1>5. /\ r.phase = "activate" /\ r.at \in {"working", "begin"}
      /\ r.restore \in {None, Home} /\ (r.restore = None => r.at = "working")
  BY <1>3, <1>4 DEF Resting
<1>6. client'[c] = r /\ \A e \in Client : e # c => client'[e] = client[e]
  BY <1>1 DEF Become, TypeOK
<1> HIDE DEF r
<1>7. Course(c)' /\ ~Open(c)'
  BY <1>1, <1>3, <1>5, <1>6 DEF Course, Operating, Open
<1>8. \A e \in Client : e # c => ~Running(e)' /\ ~Open(e)'
  BY <1>2, <1>6 DEF Running, Open
<1>9. \A t \in Token : ~Alive(t)'
  BY <1>1, <1>3 DEF Alive
<1>10. Running(c)'
  BY <1>5, <1>6 DEF Running
<1> QED
  BY <1>7, <1>8, <1>9, <1>10 DEF Undisturbed

LEMMA UndisturbedStart ==
  ASSUME Sound, Undisturbed, NEW c \in Client, Start(c)
  PROVE  Undisturbed'
<1> DEFINE u == CHOOSE t \in Free : TRUE
<1>1. TypeOK /\ client[c].at = "begin" /\ Running(c) /\ ~Open(c) /\ Course(c)
  BY DEF Sound, Start, Running, Open, Undisturbed
<1>2. u \in Token /\ u \in Free
  BY <1>1, TokenLeft DEF Free
<1>3. PICK o \in Object :
        /\ object' = [object EXCEPT ![o] = Begun(o, client[c].goal, u)]
        /\ thread' = [thread EXCEPT ![u] = [Unborn EXCEPT !.at = "switch", !.object = o,
                                                         !.document = client[c].goal]]
        /\ Holds(c, o, object'[o].token)
  BY DEF Start, Routes
<1>4. EventsClosed
  BY DEF Start
<1>5. \A t \in Token : ~Alive(t)
  BY <1>1, NoThreads
<1> HIDE DEF u
<1>6. object[o] \in ObjectState /\ client[c] \in ClientState
  BY <1>1, ObjectTypes, CallTypes
<1>7. object'[o].token = u
  BY <1>1, <1>3, <1>6 DEF TypeOK, Begun, ObjectState
<1>8. /\ client'[c].at = "opening" /\ client'[c].held = o /\ client'[c].token = u
      /\ client'[c].restore = client[c].restore /\ client'[c].phase = client[c].phase
      /\ client'[c].goal = client[c].goal
      /\ \A e \in Client : e # c => client'[e] = client[e]
  BY <1>1, <1>3, <1>6, <1>7 DEF TypeOK, Holds, Become, ClientState
<1>9. /\ thread'[u].object = o
      /\ \A t \in Token : t # u => thread'[t] = thread[t]
  BY <1>1, <1>2, <1>3 DEF TypeOK, Unborn
<1>10. signalled[u] = {}
  BY <1>2 DEF Sound, Quiet, Known, Free
<1>11. signalled'[u] = {}
  BY <1>2, <1>4, <1>10 DEF EventsClosed
<1>12. \A e \in Client : e # c => ~Running(e)' /\ ~Open(e)'
  BY <1>1, <1>8 DEF Undisturbed, Running, Open
<1>13. Open(c)' /\ Running(c)'
  BY <1>8 DEF Open, Running
<1>14. Course(c)'
  BY <1>1, <1>8 DEF Course, Operating
<1>15. \A t \in Token : Alive(t)' => t = u
  BY <1>5, <1>9 DEF Alive
<1>16. ASSUME NEW t \in Token, Alive(t)'
       PROVE  /\ signalled'[t] = {}
              /\ \E e \in Client : /\ Open(e)' /\ client'[e].token = t
                                   /\ client'[e].held = thread'[t].object
  BY <1>8, <1>9, <1>11, <1>13, <1>15, <1>16
<1>17. \A e \in Client : Open(e)' => object'[client'[e].held].token = client'[e].token
  BY <1>7, <1>8, <1>12
<1>18. \A e, f \in Client : Running(e)' /\ Running(f)' => e = f
  BY <1>12
<1>19. \A e \in Client : Running(e)' => Course(e)'
  BY <1>12, <1>14
<1> QED
  BY <1>13, <1>16, <1>17, <1>18, <1>19 DEF Undisturbed

LEMMA UndisturbedStartFails ==
  ASSUME Sound, Undisturbed, NEW c \in Client, StartFails(c)
  PROVE  Undisturbed'
<1>1. TypeOK /\ client[c].at = "begin" /\ Running(c) /\ ~Open(c) /\ Course(c)
  BY DEF Sound, StartFails, Running, Open, Undisturbed
<1>2. \A t \in Token : ~Alive(t)'
  BY <1>1, NoThreads DEF StartFails, Alive
<1>3. client[c] \in ClientState /\ Goto(c, "fallback")
  BY <1>1, CallTypes DEF StartFails
<1>4. /\ client'[c].at = "fallback" /\ client'[c].restore = client[c].restore
      /\ client'[c].phase = client[c].phase /\ client'[c].goal = client[c].goal
      /\ \A e \in Client : e # c => client'[e] = client[e]
  BY <1>1, <1>3 DEF TypeOK, Goto, Become, ClientState
<1>5. Running(c)' /\ ~Open(c)' /\ Course(c)'
  BY <1>1, <1>4 DEF Running, Open, Course, Operating
<1> QED
  BY <1>1, <1>2, <1>4, <1>5, Unattended

(* An event of the call was set: its thread is gone.                         *)
LEMMA UndisturbedLeave ==
  ASSUME Sound, Undisturbed, NEW c \in Client, Succeeded(c) \/ NotActivated(c)
  PROVE  Undisturbed'
<1>1. TypeOK /\ Open(c) /\ Running(c) /\ Course(c) /\ UNCHANGED thread
  BY DEF Sound, Succeeded, NotActivated, Running, Open, Undisturbed
<1>2. signalled[client[c].token] # {}
  BY DEF Succeeded, NotActivated
<1>3. PICK step \in {"verify", "fallback"} : Leave(c, step)
  BY DEF Succeeded, NotActivated
<1>4. \A t \in Token : ~Alive(t)
  BY <1>1, <1>2 DEF Undisturbed, Running, Open
<1>5. client[c] \in ClientState
  BY <1>1, CallTypes
<1>6. /\ client'[c].at = step /\ client'[c].restore = client[c].restore
      /\ client'[c].phase = client[c].phase /\ client'[c].goal = client[c].goal
      /\ \A e \in Client : e # c => client'[e] = client[e]
  BY <1>1, <1>3, <1>5 DEF TypeOK, Leave, Become, ClientState
<1>7. client[c].restore # None
  BY <1>1 DEF Course, Open, Operating
<1>8. Running(c)' /\ ~Open(c)' /\ Course(c)'
  BY <1>1, <1>6, <1>7 DEF Running, Open, Course
<1>9. \A t \in Token : ~Alive(t)'
  BY <1>1, <1>4 DEF Alive
<1> QED
  BY <1>1, <1>6, <1>8, <1>9, Unattended

(* The events of an activation exist for as long as its object has not begun *)
(* another one.                                                              *)
LEMMA UndisturbedOpens ==
  ASSUME Sound, Undisturbed, NEW c \in Client, OpenEvents(c)
  PROVE  Undisturbed'
<1>1. TypeOK /\ Open(c) /\ Running(c) /\ Course(c) /\ CallSound(c)
  BY DEF Sound, OpenEvents, Running, Open, Undisturbed
<1>2. Exists(client[c].token, client[c].held, c)
  BY <1>1 DEF Exists, Undisturbed, CallSound
<1>3. Goto(c, "waiting") /\ UNCHANGED <<object, signalled, active, thread>>
  BY <1>2 DEF OpenEvents
<1>4. client[c] \in ClientState
  BY <1>1, CallTypes
<1>5. /\ client'[c].at = "waiting" /\ client'[c].restore = client[c].restore
      /\ client'[c].phase = client[c].phase /\ client'[c].goal = client[c].goal
      /\ client'[c].token = client[c].token /\ client'[c].held = client[c].held
      /\ \A e \in Client : e # c => client'[e] = client[e]
  BY <1>1, <1>3, <1>4 DEF TypeOK, Goto, Become, ClientState
<1>6. client[c].restore # None
  BY <1>1 DEF Course, Open, Operating
<1>7. Running(c)' /\ Open(c)' /\ Course(c)'
  BY <1>1, <1>5, <1>6 DEF Running, Open, Course
<1> QED
  BY <1>1, <1>3, <1>5, <1>7, Steers

(* A call goes to a step that is not the last one.                           *)
LEMMA UndisturbedGoto ==
  ASSUME Sound, Undisturbed, NEW c \in Client, NEW step, Goto(c, step),
         Running(c), ~Open(c), step \notin {"idle", "done", "opening", "waiting"},
         client[c].restore = None => step \in Operating /\ active' = Home,
         UNCHANGED <<object, thread, signalled>>
  PROVE  Undisturbed'
<1>1. TypeOK /\ Course(c) /\ client[c] \in ClientState
  BY CallTypes DEF Sound, Undisturbed
<1>2. /\ client'[c].at = step /\ client'[c].restore = client[c].restore
      /\ client'[c].phase = client[c].phase /\ client'[c].goal = client[c].goal
      /\ client'[c].token = client[c].token /\ client'[c].held = client[c].held
      /\ \A e \in Client : e # c => client'[e] = client[e]
  BY <1>1 DEF TypeOK, Goto, Become, ClientState
<1>3. Running(c)' /\ ~Open(c)' /\ Course(c)'
  BY <1>1, <1>2 DEF Running, Open, Course
<1> QED
  BY <1>2, <1>3, Steers

LEMMA UndisturbedEnd ==
  ASSUME Sound, Undisturbed, NEW c \in Client, End(c), Running(c), ~Open(c),
         active' = Home, UNCHANGED <<object, thread, signalled>>
  PROVE  Undisturbed'
<1>1. TypeOK /\ CallSound(c)
  BY DEF Sound
<1>2. /\ client'[c].at = "done" /\ client'[c].token = 0 /\ client'[c].held = None
      /\ \A e \in Client : e # c => client'[e] = client[e]
  BY <1>1 DEF TypeOK, End, Become, Resting
<1>3. client[c].token = 0 /\ client[c].held = None
  BY <1>1 DEF CallSound
<1>4. ~Running(c)' /\ ~Open(c)'
  BY <1>2 DEF Running, Open
<1> QED
  BY <1>2, <1>3, <1>4, Steers

LEMMA UndisturbedRestoring ==
  ASSUME Sound, Undisturbed, NEW c \in Client, Become(c, Restoring(c)), Running(c), ~Open(c),
         client[c].restore # None, UNCHANGED <<object, thread, signalled>>
  PROVE  Undisturbed'
<1>1. TypeOK /\ Course(c) /\ client[c] \in ClientState
  BY CallTypes DEF Sound, Undisturbed
<1>2. /\ client'[c].at = "begin" /\ client'[c].restore = client[c].restore
      /\ client'[c].phase = "restore" /\ client'[c].goal = client[c].restore
      /\ client'[c].token = client[c].token /\ client'[c].held = client[c].held
      /\ \A e \in Client : e # c => client'[e] = client[e]
  BY <1>1 DEF TypeOK, Become, Restoring, ClientState
<1>3. Running(c)' /\ ~Open(c)' /\ Course(c)'
  BY <1>1, <1>2 DEF Running, Open, Course
<1> QED
  BY <1>2, <1>3, Steers

LEMMA UndisturbedPlain ==
  ASSUME Sound, Undisturbed, NEW c \in Client, ~disturbed',
         \/ NoBatch(c) \/ Fallback(c) \/ Verify(c) \/ Failed(c)
         \/ Guard(c) \/ Operate(c) \/ GiveBack(c)
  PROVE  Undisturbed'
<1>1. TypeOK /\ Running(c) /\ ~Open(c) /\ Course(c)
  BY DEF NoBatch, Fallback, Verify, Failed, Guard, Operate, GiveBack, Running, Open,
     Sound, Undisturbed
<1>2. UNCHANGED <<object, thread, signalled>>
  BY DEF NoBatch, Fallback, Verify, Failed, Guard, Operate, GiveBack
<1>3. CASE NoBatch(c) \/ Fallback(c)
  <2>1. PICK step \in {"fallback", "failed", "verify"} : Goto(c, step)
    BY <1>3 DEF NoBatch, Fallback
  <2>2. client[c].restore # None
    BY <1>1, <1>3 DEF Course, Operating, NoBatch, Fallback
  <2> QED
    BY <1>1, <1>2, <2>1, <2>2, UndisturbedGoto
<1>4. CASE Verify(c)
  <2>1. client[c].restore # None /\ active' = active
    BY <1>1, <1>4 DEF Course, Operating, Verify
  <2>2. CASE Goto(c, "failed")
    BY <1>1, <1>2, <2>1, <2>2, UndisturbedGoto
  <2>3. CASE Goto(c, "working")
    BY <1>1, <1>2, <2>1, <2>3, UndisturbedGoto
  <2>4. CASE End(c) /\ client[c].phase = "restore" /\ IsActive(c)
    <3>1. active' = Home
      BY <1>1, <2>1, <2>4 DEF Course, IsActive
    <3> QED
      BY <1>1, <1>2, <2>4, <3>1, UndisturbedEnd
  <2> QED
    BY <1>4, <2>2, <2>3, <2>4 DEF Verify
<1>5. CASE Failed(c)
  <2>1. client[c].restore # None /\ Become(c, Restoring(c))
    BY <1>1, <1>5 DEF Course, Operating, Failed
  <2> QED
    BY <1>1, <1>2, <2>1, UndisturbedRestoring
<1>6. CASE Guard(c)
  <2>1. PICK step \in {"guarded", "worked"} : Goto(c, step)
    BY <1>6 DEF Guard
  <2>2. client[c].restore = None => active' = Home
    BY <1>1, <1>6 DEF Course, Guard
  <2> QED
    BY <1>1, <1>2, <2>1, <2>2, UndisturbedGoto DEF Operating
<1>7. CASE Operate(c)
  <2>1. client[c].restore = None => active' = Home
    BY <1>1, <1>7 DEF Course, Operate
  <2>2. CASE Goto(c, "worked")
    BY <1>1, <1>2, <2>1, <2>2, UndisturbedGoto DEF Operating
  <2>3. ASSUME NEW o, Become(c, [client[c] EXCEPT !.at = "worked", !.via = o,
                                                  !.touched = active])
        PROVE  Undisturbed'
    <3>1. client[c] \in ClientState
      BY <1>1, CallTypes
    <3>2. /\ client'[c].at = "worked" /\ client'[c].restore = client[c].restore
          /\ client'[c].phase = client[c].phase /\ client'[c].goal = client[c].goal
          /\ client'[c].token = client[c].token /\ client'[c].held = client[c].held
          /\ \A e \in Client : e # c => client'[e] = client[e]
      BY <1>1, <2>3, <3>1 DEF TypeOK, Become, ClientState
    <3>3. Running(c)' /\ ~Open(c)' /\ Course(c)'
      BY <1>1, <2>1, <3>2 DEF Running, Open, Course, Operating
    <3> QED
      BY <1>1, <1>2, <3>2, <3>3, Steers
  <2> QED
    BY <1>7, <2>2, <2>3 DEF Operate
<1>8. CASE GiveBack(c)
  <2>1. CASE client[c].restore = None
    <3>1. active' = Home /\ End(c)
      BY <1>1, <1>8, <2>1 DEF Course, GiveBack
    <3> QED
      BY <1>1, <1>2, <3>1, UndisturbedEnd
  <2>2. CASE client[c].restore # None
    BY <1>1, <1>2, <1>8, <2>2, UndisturbedRestoring DEF GiveBack
  <2> QED
    BY <2>1, <2>2
<1> QED
  BY <1>3, <1>4, <1>5, <1>6, <1>7, <1>8

LEMMA UndisturbedThread ==
  ASSUME Sound, Undisturbed, NEW t \in Token, ThreadStep(t)
  PROVE  Undisturbed'
<1>1. TypeOK /\ thread[t] \in ThreadState /\ Alive(t) /\ UNCHANGED client
  BY ThreadTypes DEF Sound, ThreadStep, Switch, Check, Finish, SetEvent, Alive
<1>2. CASE Switch(t) \/ Check(t) \/ Finish(t)
  <2>1. UNCHANGED signalled
    BY <1>2 DEF Switch, Check, Finish
  <2>2. /\ thread'[t].object = thread[t].object
        /\ \A u \in Token : u # t => thread'[u] = thread[u]
    <3>1. CASE Switch(t) \/ Finish(t)
      BY <1>1, <3>1 DEF Switch, Finish, Advance, TypeOK, ThreadState
    <3>2. CASE Check(t)
      <4> DEFINE verdict == IF active = thread[t].document THEN "success" ELSE "failure"
      <4>1. \/ thread' = [thread EXCEPT ![t] = [thread[t] EXCEPT !.at = "finish",
                                                               !.outcome = verdict]]
            \/ thread' = [thread EXCEPT ![t] = [thread[t] EXCEPT !.at = "finish"]]
        BY <3>2 DEF Check, Advance
      <4> HIDE DEF verdict
      <4>2. DOMAIN thread = Token /\ DOMAIN thread[t] = {"at", "object", "document", "outcome"}
        BY <1>1 DEF TypeOK, ThreadState
      <4>3. \A u \in Token : u # t => thread'[u] = thread[u]
        BY <4>1, <4>2
      <4>4. CASE thread' = [thread EXCEPT ![t] = [thread[t] EXCEPT !.at = "finish"]]
        BY <4>2, <4>3, <4>4
      <4>5. CASE thread' = [thread EXCEPT ![t] = [thread[t] EXCEPT !.at = "finish",
                                                               !.outcome = verdict]]
        <5>1. thread'[t] = [thread[t] EXCEPT !.at = "finish", !.outcome = verdict]
          BY <4>2, <4>5
        <5> QED
          BY <4>2, <4>3, <5>1
      <4> QED
        BY <4>1, <4>4, <4>5
    <3> QED
      BY <1>2, <3>1, <3>2
  <2>3. ASSUME NEW o \in Object PROVE object'[o].token = object[o].token
    <3>1. object[o] \in ObjectState
      BY <1>1, ObjectTypes
    <3>2. CASE Switch(t) \/ Check(t)
      BY <3>2 DEF Switch, Check
    <3>3. CASE Finish(t)
      BY <1>1, <3>1, <3>3 DEF Finish, TypeOK, ObjectState
    <3> QED
      BY <1>2, <3>2, <3>3
  <2> QED
    BY <1>1, <2>1, <2>2, <2>3, ThreadsGoOn
<1>3. CASE SetEvent(t)
  <2>1. thread'[t] = Unborn /\ \A u \in Token : u # t => thread'[u] = thread[u]
    BY <1>1, <1>3 DEF SetEvent, Advance, TypeOK
  <2>2. ASSUME NEW o \in Object PROVE object'[o].token = object[o].token
    <3>1. object[o] \in ObjectState
      BY <1>1, ObjectTypes
    <3> QED
      BY <1>1, <1>3, <3>1 DEF SetEvent, TypeOK, ObjectState
  <2>3. ~Alive(t)'
    BY <2>1 DEF Alive, Unborn
  <2> QED
    BY <1>1, <2>1, <2>2, <2>3, ThreadsGoOn
<1> QED
  BY <1>2, <1>3 DEF ThreadStep

LEMMA UndisturbedUnpublish ==
  ASSUME Sound, Undisturbed, NEW k \in Object, Unpublish(k)
  PROVE  Undisturbed'
<1>1. TypeOK /\ UNCHANGED <<active, thread, signalled, client>>
  BY DEF Sound, Unpublish
<1>2. ASSUME NEW o \in Object PROVE object'[o].token = object[o].token
  <2>1. object[o] \in ObjectState
    BY <1>1, ObjectTypes
  <2> QED
    BY <1>1, <2>1 DEF Unpublish, TypeOK, ObjectState
<1>3. \A e \in Client : Open(e) => client[e].held \in Object
  BY CallTypes DEF Sound, CallSound
<1>4. \A e \in Client : Open(e)' => object'[client'[e].held].token = client'[e].token
  BY <1>1, <1>2, <1>3 DEF Undisturbed, Open
<1> QED
  BY <1>1, <1>4 DEF Undisturbed, Running, Open, Alive, Course

(* What nothing has disturbed goes on as it should until something does.     *)
LEMMA UndisturbedStep ==
  ASSUME Sound, ~disturbed => Undisturbed, [Next]_vars, ~disturbed'
  PROVE  Undisturbed'
<1>1. CASE UNCHANGED vars
  <2>1. UNCHANGED <<active, object, thread, signalled, client, disturbed>>
    BY <1>1 DEF vars
  <2> QED
    BY <2>1 DEF Undisturbed, Running, Open, Alive, Course
<1>2. ASSUME NEW c \in Client, ClientStep(c) PROVE Undisturbed'
  <2>1. ~Timeout(c) /\ ~ValidateAgain(c) /\ ~NotGivenBack(c)
    BY DEF Timeout, ValidateAgain, NotGivenBack
  <2>2. Undisturbed
    BY <1>2, <2>1 DEF ClientStep, Share, RefuseBusy, Start, StartFails, NoBatch, OpenEvents,
       Succeeded, NotActivated, Fallback, Verify, Failed, Guard, Operate, GiveBack
  <2>3. ~Share(c) /\ ~RefuseBusy(c)
    <3>1. SUFFICES ASSUME Share(c) \/ RefuseBusy(c) PROVE FALSE
      OBVIOUS
    <3>2. Running(c) /\ ~Open(c)
      BY <3>1 DEF Share, RefuseBusy, Running, Open
    <3>3. \E o \in Object : object[o].state = "pending"
      BY <3>1 DEF Share, RefuseBusy, IsShared, IsBusy, Routes
    <3> QED
      BY <2>2, <3>2, <3>3, NoThreads
  <2> QED
    BY <1>2, <2>1, <2>2, <2>3, UndisturbedStart, UndisturbedStartFails, UndisturbedOpens,
       UndisturbedLeave, UndisturbedPlain DEF ClientStep
<1>3. ASSUME NEW t \in Token, ThreadStep(t) PROVE Undisturbed'
  <2>1. Undisturbed
    BY <1>3 DEF ThreadStep, Switch, Check, Finish, SetEvent
  <2> QED
    BY <1>3, <2>1, UndisturbedThread
<1>4. ASSUME NEW c \in Client, NEW d \in Wants[c], Look(c, d) PROVE Undisturbed'
  <2>1. Undisturbed
    BY <1>4 DEF Look
  <2> QED
    BY <1>4, <2>1, UndisturbedLook
<1>5. ASSUME NEW o \in Object, Unpublish(o) PROVE Undisturbed'
  <2>1. Undisturbed
    BY <1>5 DEF Unpublish
  <2> QED
    BY <1>5, <2>1, UndisturbedUnpublish
<1>6. /\ \A d \in Doc : ~UserSwitches(d)
      /\ \A c \in Client : ~Die(c)
  BY DEF UserSwitches, Die
<1> QED
  BY <1>1, <1>2, <1>3, <1>4, <1>5, <1>6 DEF Next, Rest

-----------------------------------------------------------------------------
(* The theorems. *)

LEMMA Begins ==
  ASSUME Init
  PROVE  IInv
<1>1. /\ active = Home /\ faults = 0 /\ disturbed = FALSE
      /\ \A o \in Object : object[o] = [state |-> "idle", document |-> None, token |-> 0,
                                        refs |-> 1, published |-> TRUE]
      /\ \A t \in Token : thread[t] = Unborn /\ signalled[t] = {}
      /\ \A c \in Client : client[c] = Resting
  BY DEF Init
<1>2. TypeOK
  <2>1. Resting \in ClientState
    BY DEF Resting, ClientState
  <2>2. Unborn \in ThreadState
    BY DEF Unborn, ThreadState, Signal
  <2>3. [state |-> "idle", document |-> None, token |-> 0, refs |-> 1, published |-> TRUE]
          \in ObjectState
    BY DEF ObjectState
  <2>4. active \in Doc /\ faults \in 0 .. MaxFaults /\ disturbed \in BOOLEAN
    <3>1. Home \in Doc /\ 0 \in 0 .. MaxFaults
      BY ActivationAssumption DEF ActivationAssumption
    <3>2. active = Home /\ faults = 0
      BY DEF Init
    <3>3. disturbed = FALSE
      BY DEF Init
    <3> QED
      BY <3>1, <3>2, <3>3
  <2> QED
    BY <2>1, <2>2, <2>3, <2>4 DEF Init, TypeOK
<1>3. \A t \in Token : ~Alive(t) /\ ~Undecided(t)
  BY <1>1 DEF Alive, Undecided, Unborn
<1>4. \A c \in Client : /\ client[c].at = "idle" /\ client[c].phase = "activate"
                        /\ client[c].token = 0 /\ client[c].held = None
                        /\ client[c].via = None
  BY <1>1 DEF Resting
<1>5. ASSUME NEW o \in Object PROVE Counted(o) /\ ObjectSound(o)
  <2>1. None \notin Object
    BY ActivationAssumption DEF ActivationAssumption
  <2>2. Threads(o) = {} /\ Holders(o) = {}
    BY <1>3, <1>4, <2>1 DEF Threads, Holders
  <2>3. Cardinality(Threads(o)) = 0 /\ Cardinality(Holders(o)) = 0
    BY <2>2, FS_EmptySet
  <2>4. object[o].refs = 1 /\ object[o].published = TRUE /\ object[o].state = "idle"
    BY <1>1
  <2> QED
    BY <2>3, <2>4 DEF Counted, Listed, ObjectSound
<1>6. \A t \in Token : ThreadSound(t) /\ Quiet(t)
  BY <1>1, <1>3 DEF ThreadSound, Quiet
<1>7. \A c \in Client : CallSound(c) /\ ForGoal(c) /\ OnTarget(c)
  BY <1>4 DEF CallSound, ForGoal, OnTarget, Open, Running, Activating
<1>8. TokensSuffice
  <2>1. \A t \in Token : ~Used(t)
    <3>1. \A o \in Object : object[o].token = 0
      BY <1>1
    <3> QED
      BY <1>3, <1>4, <3>1, TokenFacts DEF Used, Known, IsKnown
  <2>2. Taken = {}
    BY <2>1 DEF Taken
  <2>3. Cardinality(Taken) = 0
    BY <2>2, FS_EmptySet
  <2> QED
    BY <2>3, SpentFacts DEF TokensSuffice
<1>9. Undisturbed
  BY <1>1, <1>3, <1>4 DEF Undisturbed, Running, Open
<1> QED
  BY <1>2, <1>5, <1>6, <1>7, <1>8, <1>9 DEF IInv, Sound

(* The invariant holds in every state, whatever the order in which threads,  *)
(* calls, the user and dying workers take their steps.                       *)
THEOREM Inductive == Spec => []IInv
<1>1. Init => IInv
  BY Begins
<1>2. IInv /\ [Next]_vars => IInv'
  BY SoundStep, UndisturbedStep DEF IInv
<1> QED
  BY <1>1, <1>2, PTL DEF Spec

(* The state of an activation is owned: an object of the bridge lives as     *)
(* long as a thread it started, a call it answers or its place in the table, *)
(* and the token that activate_native_document waits for is one for the      *)
(* document it asked for, also when another call started the activation.     *)
THEOREM ActivationCoherentHolds == Spec => []ActivationCoherent
<1>1. IInv => ActivationCoherent
  <2>1. SUFFICES ASSUME Sound PROVE ActivationCoherent
    BY DEF IInv
  <2>2. TypeOK /\ TokenIsForGoal
    BY <2>1 DEF Sound, ForGoal, TokenIsForGoal
  <2>3. ASSUME NEW o \in Object, ~ (object[o].refs > 0)
        PROVE  ~object[o].published /\ Threads(o) = {} /\ Holders(o) = {}
    <3>1. Counted(o) /\ object[o].refs \in Nat
      BY <2>1, ObjectTypes DEF Sound
    <3>2. /\ Listed(o) = 0 /\ Cardinality(Threads(o)) = 0 /\ Cardinality(Holders(o)) = 0
      BY <2>3, <3>1, CountsAreNat DEF Counted, Listed
    <3>3. Threads(o) = {} /\ Holders(o) = {}
      BY <3>2, CountsAreNat, FS_EmptySet
    <3> QED
      BY <3>2, <3>3 DEF Listed
  <2>4. \A t \in Token : Alive(t) => thread[t].object \in Object
    BY <2>1 DEF Sound, ThreadSound
  <2>5. \A t \in Token : Alive(t) => t \in Threads(thread[t].object)
    BY DEF Threads
  <2>6. \A c \in Client : /\ client[c].held \in Object \cup {None}
                          /\ c \in Holders(client[c].held)
    BY <2>2, CallTypes DEF Holders
  <2>7. WorkerOutlived
    BY <2>3, <2>4, <2>5, <2>6 DEF WorkerOutlived, Alive
  <2> QED
    BY <2>2, <2>7 DEF ActivationCoherent
<1> QED
  BY <1>1, Inductive, PTL

(* A call works through the object of a document on the tab of that document *)
(* only; and once calls that nothing has disturbed are over, with no thread  *)
(* left that is about to switch, the tab that was in front is in front       *)
(* again, also after activations and switches that failed.                   *)
THEOREM TabsRespectedHolds == Spec => []TabsRespected
<1>1. IInv => TabsRespected
  <2>1. SUFFICES ASSUME IInv PROVE TabsRespected
    OBVIOUS
  <2>2. WorksOnTarget
    BY <2>1 DEF IInv, Sound, OnTarget, WorksOnTarget
  <2>3. TabGivenBack
    BY <2>1 DEF IInv, Undisturbed, Running, TabGivenBack
  <2> QED
    BY <2>2, <2>3 DEF TabsRespected
<1> QED
  BY <1>1, Inductive, PTL

=============================================================================
