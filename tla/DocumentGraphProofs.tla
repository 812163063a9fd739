------------------------- MODULE DocumentGraphProofs -------------------------
(***************************************************************************)
(* Theorems about two parts of the document graph, GraphRegistry and       *)
(* GraphCapture.                                                           *)
(*                                                                         *)
(* GraphRegistry, for any number of documents, sessions, cursors and       *)
(* uploads: what is registered has its owner, its session and its files,   *)
(* cursors that share a graph agree on it, and a sealed patch is the       *)
(* declared one.  The inductive invariant adds what holds of the GraphOpen *)
(* under way: its route has an owner, its session is open unless it was    *)
(* orphaned, and no cursor reads its directory yet.                        *)
(*                                                                         *)
(* GraphCapture, for any number of readers and edits: a capture leaves     *)
(* caret, session and spools as it says it does, and what it publishes is  *)
(* what the document said at one moment, unless the user edits it four     *)
(* times.  The inductive invariant follows the two passes and counts the   *)
(* edits it takes to make each of them read what the document never said.  *)
(***************************************************************************)
EXTENDS GraphRegistry, GraphCapture, SequenceTheorems, TLAPS

UploadType ==
  [id : UploadIds, session : Sessions, route : Routes, version : 1..MaxVersion,
   bytes : Seq(Range(Declared)), accepted : 0..Len(Declared), seq : Nat, told : Nat,
   state : {"Open", "Sealed", "Validated"}]

OpeningType ==
  [active : {TRUE}, root : CursorIds, session : Sessions, route : Routes,
   expected : 0..MaxVersion, orphan : BOOLEAN]

(* The bytes an upload has accepted are in its file.                         *)
UploadsSound ==
  /\ uploads \subseteq UploadType
  /\ \A u \in uploads : u.accepted <= Len(u.bytes)

(* The capture that is under way.                                            *)
OpeningSound ==
  /\ opening = Idle \/ opening \in OpeningType
  /\ opening.active =>
       /\ owners[opening.route] > 0
       /\ \/ opening.orphan
          \/ \E cap \in caps : cap.id = opening.session /\ cap.route = opening.route
       /\ \A c \in cursors : c.root # opening.root /\ c.id # opening.root

(* Nothing is registered in a process that has ended.                        *)
EndedIsEmpty ==
  ~running => caps = {} /\ cursors = {} /\ uploads = {} /\ opening = Idle

RootsInDir == \A c \in CursorIds : roots[c] # Absent => dir

IInv ==
  /\ RegistryCoherent
  /\ GraphsShared
  /\ UploadsSound /\ OpeningSound /\ EndedIsEmpty /\ RootsInDir

-----------------------------------------------------------------------------
(* Storage. *)

(* What RemoveStorageIfIdle leaves: everything while something is            *)
(* registered, and nothing of an idle registry.                              *)
LEMMA Removed ==
  ASSUME NEW cs, NEW us,
         NEW rs \in [CursorIds -> Absent..MaxVersion],
         NEW fs \in SUBSET UploadIds,
         dir \in BOOLEAN,
         \A c \in CursorIds : rs[c] # Absent => dir,
         RemoveStorageIfIdle(cs, us, rs, fs)
  PROVE  /\ dir' \in BOOLEAN
         /\ roots' \in [CursorIds -> Absent..MaxVersion]
         /\ files' \subseteq fs
         /\ \A c \in CursorIds : roots'[c] # Absent => dir'
         /\ cs # {} \/ us # {} => roots' = rs /\ files' = fs /\ dir' = dir
         /\ cs = {} /\ us = {} /\ ~opening'.active =>
              ~dir' /\ files' = {} /\ \A c \in CursorIds : roots'[c] = Absent
<1>1. Absent \in Absent..MaxVersion
  BY RegistryAssumption DEF RegistryAssumption, Absent
<1>2. CASE cs = {} /\ us = {}
  <2>1. PICK held \in SUBSET {c \in CursorIds : opening'.active /\ opening'.root = c /\ rs[c] # Absent} :
           /\ roots' = [c \in CursorIds |-> IF c \in held THEN rs[c] ELSE Absent]
           /\ dir' = (held # {})
    BY <1>2 DEF RemoveStorageIfIdle
  <2>2. files' = {}
    BY <1>2 DEF RemoveStorageIfIdle
  <2>3. roots' \in [CursorIds -> Absent..MaxVersion]
    BY <1>1, <2>1
  <2>4. \A c \in CursorIds : roots'[c] # Absent => dir'
    BY <2>1
  <2>5. ~opening'.active => held = {}
    BY <2>1
  <2>6. ~opening'.active => ~dir' /\ \A c \in CursorIds : roots'[c] = Absent
    BY <2>1, <2>5
  <2> QED
    BY <1>2, <2>1, <2>2, <2>3, <2>4, <2>6
<1>3. CASE ~(cs = {} /\ us = {})
  BY <1>3 DEF RemoveStorageIfIdle
<1> QED
  BY <1>2, <1>3

(* What stays registered keeps its files when the registry shrinks.          *)
LEMMA Shrinks ==
  ASSUME IInv, NEW rs, NEW fs, NEW cs, NEW us,
         cs \subseteq cursors, us \subseteq uploads,
         rs \in [CursorIds -> Absent..MaxVersion],
         fs \subseteq files,
         \A c \in CursorIds : rs[c] = Absent \/ rs[c] = roots[c],
         \A c \in cs : rs[c.root] = roots[c.root],
         \A u \in us : u.id \in fs,
         RemoveStorageIfIdle(cs, us, rs, fs),
         cursors' = cs, uploads' = us
  PROVE  /\ dir' \in BOOLEAN
         /\ roots' \in [CursorIds -> Absent..MaxVersion]
         /\ files' \subseteq UploadIds
         /\ RootsInDir'
         /\ IdleIsEmpty'
         /\ GraphsShared'
<1>1. /\ dir \in BOOLEAN /\ fs \in SUBSET UploadIds
      /\ \A c \in CursorIds : rs[c] # Absent => dir
  BY DEF IInv, RegistryCoherent, TypeOK, RootsInDir
<1>2. /\ dir' \in BOOLEAN
      /\ roots' \in [CursorIds -> Absent..MaxVersion]
      /\ files' \subseteq fs
      /\ \A c \in CursorIds : roots'[c] # Absent => dir'
      /\ cs # {} \/ us # {} => roots' = rs /\ files' = fs /\ dir' = dir
      /\ cs = {} /\ us = {} /\ ~opening'.active =>
           ~dir' /\ files' = {} /\ \A c \in CursorIds : roots'[c] = Absent
  BY <1>1, Removed
<1>3. RootsInDir'
  BY <1>2 DEF RootsInDir
<1>4. IdleIsEmpty'
  BY <1>2 DEF IdleIsEmpty
<1>5. cs # {} => \A c \in cs : roots'[c.root] = roots[c.root]
  BY <1>2
<1>6. StorageLive'
  <2>1. \A c \in cs : roots[c.root] # Absent
    BY DEF IInv, GraphsShared, StorageLive
  <2>2. cs # {} \/ us # {} => dir
    BY DEF IInv, GraphsShared, StorageLive
  <2>3. \A u \in us : u.id \in files'
    BY <1>2
  <2> QED
    BY <1>2, <1>5, <2>1, <2>2, <2>3 DEF StorageLive
<1>7. SharedGraphAgrees'
  <2>1. \A c \in cs : c \in cursors
    OBVIOUS
  <2> QED
    BY <1>5, <2>1 DEF IInv, GraphsShared, SharedGraphAgrees
<1> QED
  BY <1>1, <1>2, <1>3, <1>4, <1>6, <1>7 DEF GraphsShared


-----------------------------------------------------------------------------
(* The actions. *)

(* The record of a capture that is under way.                                *)
LEMMA OpeningTyped ==
  ASSUME IInv, opening.active
  PROVE  /\ opening \in OpeningType
         /\ opening.root \in CursorIds /\ opening.route \in Routes
         /\ opening.session \in Sessions /\ opening.orphan \in BOOLEAN
<1>1. opening # Idle
  BY DEF Idle
<1>2. opening \in OpeningType
  BY <1>1 DEF IInv, OpeningSound
<1> QED
  BY <1>2 DEF OpeningType

LEMMA PublishInv ==
  ASSUME IInv, NEW r \in Routes, Publish(r)
  PROVE  IInv'
<1> USE DEF Publish, memory, disk
<1>1. owners' \in [Routes -> 0..MaxOwners] /\ \A q \in Routes : owners'[q] >= owners[q]
  BY RegistryAssumption DEF IInv, RegistryCoherent, TypeOK, RegistryAssumption
<1>2. TypeOK'
  BY <1>1 DEF IInv, RegistryCoherent, TypeOK
<1>3. NothingOutlivesItsOwner'
  <2>1. \A x \in caps \cup cursors \cup uploads : x.route \in Routes /\ owners[x.route] > 0
    BY DEF IInv, RegistryCoherent, TypeOK, NothingOutlivesItsOwner, UploadsSound, UploadType
  <2> QED
    BY <1>1, <2>1 DEF NothingOutlivesItsOwner, IInv, RegistryCoherent, TypeOK
<1>4. OpeningSound'
  <2>1. opening.active => opening.route \in Routes
    BY OpeningTyped
  <2>2. opening.active => owners'[opening.route] > 0
    BY <1>1, <2>1 DEF IInv, OpeningSound, RegistryCoherent, TypeOK
  <2> QED
    BY <2>2 DEF IInv, OpeningSound
<1>5. /\ CursorHasItsSession' /\ IdleIsEmpty' /\ SealedIsDeclared' /\ GraphsShared'
      /\ UploadsSound' /\ EndedIsEmpty' /\ RootsInDir'
  BY DEF IInv, RegistryCoherent, CursorHasItsSession, IdleIsEmpty, SealedIsDeclared, GraphsShared,
         StorageLive, SharedGraphAgrees, UploadsSound, EndedIsEmpty, RootsInDir
<1> QED
  BY <1>2, <1>3, <1>4, <1>5 DEF IInv, RegistryCoherent

LEMMA DestroyOwnerInv ==
  ASSUME IInv, NEW r \in Routes, DestroyOwner(r)
  PROVE  IInv'
<1> DEFINE ended == {u \in uploads : u.route = r}
<1>1. /\ running /\ owners[r] > Held(r)
      /\ owners' = [owners EXCEPT ![r] = @ - 1]
      /\ uploads' = uploads \ ended
      /\ cursors' = {c \in cursors : c.route # r}
      /\ caps' = {s \in caps : s.route # r}
      /\ opening' = IF opening.active /\ opening.route = r
                    THEN [opening EXCEPT !.orphan = TRUE] ELSE opening
      /\ running' = running /\ version' = version /\ faults' = faults
  BY DEF DestroyOwner, InvalidateRoute
<1>2. RemoveStorageIfIdle(cursors', uploads', roots, files \ {u.id : u \in ended})
  BY DEF DestroyOwner, InvalidateRoute
<1>3. PICK cs, us, fs :
        /\ cs = {c \in cursors : c.route # r} /\ us = uploads \ ended
        /\ fs = files \ {u.id : u \in ended}
        /\ cursors' = cs /\ uploads' = us
        /\ RemoveStorageIfIdle(cs, us, roots, fs)
  BY <1>1, <1>2
<1>4. \A u \in us : u.id \in fs
  BY <1>3 DEF IInv, RegistryCoherent, TypeOK, GraphsShared, StorageLive
<1>5. /\ dir' \in BOOLEAN
      /\ roots' \in [CursorIds -> Absent..MaxVersion]
      /\ files' \subseteq UploadIds
      /\ RootsInDir' /\ IdleIsEmpty' /\ GraphsShared'
  <2>1. roots \in [CursorIds -> Absent..MaxVersion]
    BY DEF IInv, RegistryCoherent, TypeOK
  <2>2. cs \subseteq cursors /\ us \subseteq uploads /\ fs \subseteq files
    BY <1>3
  <2> QED
    BY <1>3, <1>4, <2>1, <2>2, Shrinks
<1>6. owners' \in [Routes -> 0..MaxOwners]
  <2>1. owners[r] - 1 \in 0..MaxOwners
    BY <1>1, RegistryAssumption DEF IInv, RegistryCoherent, TypeOK, Held, RegistryAssumption
  <2> QED
    BY <1>1, <2>1 DEF IInv, RegistryCoherent, TypeOK
<1>7. TypeOK'
  BY <1>1, <1>5, <1>6 DEF IInv, RegistryCoherent, TypeOK
<1>8. NothingOutlivesItsOwner'
  <2>1. \A x \in caps \cup cursors \cup uploads : x.route \in Routes /\ owners[x.route] > 0
    BY DEF IInv, RegistryCoherent, TypeOK, NothingOutlivesItsOwner, UploadsSound, UploadType
  <2>2. \A x \in caps' \cup cursors' \cup uploads' :
          x \in caps \cup cursors \cup uploads /\ x.route # r
    BY <1>1
  <2> QED
    BY <1>1, <2>1, <2>2 DEF NothingOutlivesItsOwner, IInv, RegistryCoherent, TypeOK
<1>9. CursorHasItsSession'
  BY <1>1 DEF IInv, RegistryCoherent, CursorHasItsSession
<1>10. SealedIsDeclared' /\ UploadsSound' /\ EndedIsEmpty'
  BY <1>1 DEF IInv, RegistryCoherent, SealedIsDeclared, UploadsSound, EndedIsEmpty
<1>11. OpeningSound'
  <2>1. CASE opening = Idle
    BY <1>1, <2>1 DEF OpeningSound, Idle
  <2>2. CASE opening # Idle
    <3>1. opening \in OpeningType /\ opening.active /\ opening.route \in Routes
      BY <2>2 DEF IInv, OpeningSound, OpeningType
    <3>2. opening' \in OpeningType /\ opening'.route = opening.route /\ opening'.root = opening.root
          /\ opening'.session = opening.session
      BY <1>1, <3>1 DEF OpeningType
    <3>3. opening.route = r => opening'.orphan
      BY <1>1, <3>1 DEF OpeningType
    <3>4. opening.route # r => opening' = opening
      BY <1>1
    <3>5. owners'[opening.route] > 0
      BY <1>1, <3>1 DEF IInv, OpeningSound, RegistryCoherent, TypeOK, Held
    <3>6. \/ opening'.orphan
          \/ \E cap \in caps' : cap.id = opening'.session /\ cap.route = opening'.route
      BY <1>1, <3>1, <3>3, <3>4 DEF IInv, OpeningSound
    <3>7. \A c \in cursors' : c.root # opening'.root /\ c.id # opening'.root
      BY <1>1, <3>1, <3>2 DEF IInv, OpeningSound
    <3> QED
      BY <3>2, <3>5, <3>6, <3>7 DEF OpeningSound
  <2> QED
    BY <2>1, <2>2
<1> QED
  BY <1>5, <1>7, <1>8, <1>9, <1>10, <1>11 DEF IInv, RegistryCoherent

LEMMA NegotiateInv ==
  ASSUME IInv, NEW s \in Sessions, NEW r \in Routes, NEW bits \in Requests,
         NegotiateCapabilities(s, r, bits)
  PROVE  IInv'
<1> USE DEF NegotiateCapabilities, disk
<1>1. TypeOK'
  BY DEF IInv, RegistryCoherent, TypeOK
<1>2. NothingOutlivesItsOwner'
  BY DEF IInv, RegistryCoherent, NothingOutlivesItsOwner
<1>3. CursorHasItsSession' /\ OpeningSound'
  BY DEF IInv, RegistryCoherent, CursorHasItsSession, OpeningSound
<1>4. /\ IdleIsEmpty' /\ SealedIsDeclared' /\ GraphsShared'
      /\ UploadsSound' /\ EndedIsEmpty' /\ RootsInDir'
  BY DEF IInv, RegistryCoherent, IdleIsEmpty, SealedIsDeclared, GraphsShared,
         StorageLive, SharedGraphAgrees, UploadsSound, EndedIsEmpty, RootsInDir
<1> QED
  BY <1>1, <1>2, <1>3, <1>4 DEF IInv, RegistryCoherent


LEMMA GraphOpenReusedInv ==
  ASSUME IInv, NEW s \in Sessions, NEW r \in Routes, NEW c \in CursorIds,
         NEW expected \in 0..MaxVersion, GraphOpenReused(s, r, c, expected)
  PROVE  IInv'
<1>a. PICK shared \in Reusable(s, r, expected) :
        /\ roots[shared.root] = expected
        /\ cursors' = cursors \cup {Cursor(c, s, r, shared.root, roots[shared.root], FALSE)}
  BY DEF GraphOpenReused
<1>1. /\ shared \in Reusable(s, r, expected) /\ roots[shared.root] = expected
      /\ cursors' = cursors \cup {Cursor(c, s, r, shared.root, roots[shared.root], FALSE)}
      /\ running /\ owners[r] > 0 /\ Negotiated(s, r, "read") /\ Fresh(c) /\ dir' = TRUE
      /\ UNCHANGED <<running, version, owners, caps, uploads, opening, roots, files, faults>>
  BY <1>a DEF GraphOpenReused, CanOpen
<1>2. /\ shared \in cursors /\ shared.session = s /\ shared.route = r
      /\ shared.version = expected /\ shared.root \in CursorIds
      /\ roots[shared.root] = shared.version /\ shared.version \in 1..MaxVersion
  BY <1>1 DEF Reusable, IInv, RegistryCoherent, TypeOK
<1>3. PICK new : /\ new = [id |-> c, session |-> s, route |-> r, root |-> shared.root,
                           version |-> shared.version, orphan |-> FALSE]
                 /\ cursors' = cursors \cup {new}
  BY <1>1, <1>2 DEF Cursor
<1>4. /\ new.id = c /\ new.session = s /\ new.route = r /\ new.root = shared.root
      /\ new.version = shared.version
      /\ new \in [id : CursorIds, session : Sessions, route : Routes, root : CursorIds,
                  version : 1..MaxVersion, orphan : BOOLEAN]
  BY <1>2, <1>3
<1>5. \A other \in cursors : other.id # c
  BY <1>1 DEF Fresh
<1>6. TypeOK'
  <2>1. \A a, b \in cursors' : a.id = b.id => a = b
    <3>1. \A a, b \in cursors : a.id = b.id => a = b
      BY DEF IInv, RegistryCoherent, TypeOK
    <3>2. \A a \in cursors : a.id # new.id
      BY <1>4, <1>5
    <3> QED
      BY <1>3, <3>1, <3>2
  <2> QED
    BY <2>1, <1>1, <1>3, <1>4 DEF IInv, RegistryCoherent, TypeOK
<1>7. NothingOutlivesItsOwner'
  BY <1>1, <1>3, <1>4 DEF IInv, RegistryCoherent, NothingOutlivesItsOwner
<1>8. CursorHasItsSession'
  BY <1>1, <1>3, <1>4 DEF IInv, RegistryCoherent, CursorHasItsSession, Negotiated
<1>9. GraphsShared'
  <2>1. StorageLive'
    BY <1>1, <1>2, <1>3, <1>4 DEF IInv, GraphsShared, StorageLive
  <2>2. \A x \in cursors' : roots'[x.root] = x.version
    BY <1>1, <1>2, <1>3, <1>4 DEF IInv, GraphsShared, SharedGraphAgrees
  <2>3. \A x, y \in cursors' : x.root = y.root => x.session = y.session /\ x.route = y.route
    <3>1. \A x, y \in cursors : x.root = y.root => x.session = y.session /\ x.route = y.route
      BY DEF IInv, GraphsShared, SharedGraphAgrees
    <3>2. \A x \in cursors : x.root = new.root => x.session = new.session /\ x.route = new.route
      BY <1>2, <1>4, <3>1
    <3> QED
      BY <1>3, <3>1, <3>2
  <2> QED
    BY <2>1, <2>2, <2>3 DEF GraphsShared, SharedGraphAgrees
<1>10. OpeningSound'
  BY <1>1, <1>2, <1>3, <1>4 DEF IInv, OpeningSound, Fresh
<1>11. IdleIsEmpty' /\ SealedIsDeclared' /\ UploadsSound' /\ EndedIsEmpty' /\ RootsInDir'
  BY <1>1, <1>3 DEF IInv, RegistryCoherent, IdleIsEmpty, SealedIsDeclared, UploadsSound, EndedIsEmpty,
              RootsInDir
<1> QED
  BY <1>6, <1>7, <1>8, <1>9, <1>10, <1>11 DEF IInv, RegistryCoherent

LEMMA GraphOpenFreshInv ==
  ASSUME IInv, NEW s \in Sessions, NEW r \in Routes, NEW c \in CursorIds,
         NEW expected \in 0..MaxVersion, GraphOpenFresh(s, r, c, expected)
  PROVE  IInv'
<1> USE DEF GraphOpenFresh, CanOpen
<1>1. /\ opening' \in OpeningType /\ opening'.root = c /\ opening'.session = s
      /\ opening'.route = r /\ opening'.active
  BY DEF OpeningType
<1>2. \A other \in cursors : other.id # c /\ other.root # c
  BY DEF Fresh, IInv, GraphsShared, StorageLive
<1>3. /\ roots' \in [CursorIds -> Absent..MaxVersion]
      /\ \A d \in CursorIds : d # c => roots'[d] = roots[d]
  <2>1. Unpublished \in Absent..MaxVersion
    BY RegistryAssumption DEF RegistryAssumption, Unpublished, Absent
  <2> QED
    BY <2>1 DEF IInv, RegistryCoherent, TypeOK
<1>4. TypeOK'
  BY <1>3 DEF IInv, RegistryCoherent, TypeOK
<1>5. GraphsShared'
  <2>1. \A x \in cursors : x.root \in CursorIds /\ x.root # c
    BY <1>2 DEF IInv, RegistryCoherent, TypeOK
  <2>2. \A x \in cursors : roots'[x.root] = roots[x.root]
    BY <1>3, <2>1
  <2>3. StorageLive'
    BY <2>2 DEF IInv, GraphsShared, StorageLive
  <2>4. SharedGraphAgrees'
    BY <2>2 DEF IInv, GraphsShared, SharedGraphAgrees
  <2> QED
    BY <2>3, <2>4 DEF GraphsShared
<1>6. OpeningSound'
  BY <1>1, <1>2 DEF OpeningSound, Negotiated
<1>7. IdleIsEmpty' /\ RootsInDir' /\ EndedIsEmpty'
  BY <1>1 DEF IInv, RegistryCoherent, IdleIsEmpty, RootsInDir, EndedIsEmpty
<1>8. /\ NothingOutlivesItsOwner' /\ CursorHasItsSession' /\ SealedIsDeclared' /\ UploadsSound'
  BY DEF IInv, RegistryCoherent, NothingOutlivesItsOwner, CursorHasItsSession, SealedIsDeclared,
         UploadsSound
<1> QED
  BY <1>4, <1>5, <1>6, <1>7, <1>8 DEF IInv, RegistryCoherent

LEMMA GraphOpenPublishesInv ==
  ASSUME IInv, GraphOpenPublishes
  PROVE  IInv'
<1> USE DEF GraphOpenPublishes
<1>1. opening \in OpeningType /\ opening.root \in CursorIds /\ opening.route \in Routes
      /\ opening.session \in Sessions /\ opening.orphan \in BOOLEAN
  BY OpeningTyped
<1>2. PICK v : v = version[opening.route]
  OBVIOUS
<1>3. v \in 1..MaxVersion /\ v \in Absent..MaxVersion /\ v # Absent
  BY <1>1, <1>2, RegistryAssumption DEF IInv, RegistryCoherent, TypeOK, Absent, RegistryAssumption
<1>4. roots' = [roots EXCEPT ![opening.root] = v]
  BY <1>2
<1>5. PICK new : /\ new = [id |-> opening.root, session |-> opening.session, route |-> opening.route,
                           root |-> opening.root, version |-> v, orphan |-> opening.orphan]
                 /\ cursors' = cursors \cup {new}
  BY <1>2 DEF Cursor
<1>6. /\ new.id = opening.root /\ new.session = opening.session /\ new.route = opening.route
      /\ new.root = opening.root /\ new.version = v /\ new.orphan = opening.orphan
      /\ new \in [id : CursorIds, session : Sessions, route : Routes, root : CursorIds,
                  version : 1..MaxVersion, orphan : BOOLEAN]
  BY <1>1, <1>3, <1>5
<1>7. \A x \in cursors : x.root # opening.root /\ x.id # opening.root
  BY DEF IInv, OpeningSound
<1>8. /\ roots' \in [CursorIds -> Absent..MaxVersion] /\ roots'[opening.root] = v
      /\ \A d \in CursorIds : d # opening.root => roots'[d] = roots[d]
  BY <1>1, <1>3, <1>4 DEF IInv, RegistryCoherent, TypeOK
<1>9. TypeOK'
  <2>1. \A a, b \in cursors' : a.id = b.id => a = b
    BY <1>5, <1>6, <1>7 DEF IInv, RegistryCoherent, TypeOK
  <2> QED
    BY <2>1, <1>5, <1>6, <1>8 DEF IInv, RegistryCoherent, TypeOK
<1>10. NothingOutlivesItsOwner'
  BY <1>5, <1>6 DEF IInv, RegistryCoherent, NothingOutlivesItsOwner, OpeningSound
<1>11. CursorHasItsSession'
  BY <1>5, <1>6 DEF IInv, RegistryCoherent, CursorHasItsSession, OpeningSound
<1>12. dir /\ dir'
  BY <1>1 DEF IInv, RootsInDir, Unpublished, Absent
<1>13. GraphsShared'
  <2>1. \A x \in cursors : x.root \in CursorIds /\ roots'[x.root] = roots[x.root]
    BY <1>7, <1>8 DEF IInv, RegistryCoherent, TypeOK
  <2>2. StorageLive'
    BY <1>3, <1>5, <1>6, <1>8, <1>12, <2>1 DEF IInv, GraphsShared, StorageLive
  <2>3. \A x \in cursors' : roots'[x.root] = x.version
    BY <1>5, <1>6, <1>8, <2>1 DEF IInv, GraphsShared, SharedGraphAgrees
  <2>4. \A x, y \in cursors' : x.root = y.root => x.session = y.session /\ x.route = y.route
    BY <1>5, <1>6, <1>7 DEF IInv, GraphsShared, SharedGraphAgrees
  <2> QED
    BY <2>2, <2>3, <2>4 DEF GraphsShared, SharedGraphAgrees
<1>14. OpeningSound' /\ EndedIsEmpty'
  BY DEF OpeningSound, Idle, EndedIsEmpty
<1>15. IdleIsEmpty' /\ SealedIsDeclared' /\ UploadsSound'
  BY <1>5 DEF IInv, RegistryCoherent, IdleIsEmpty, SealedIsDeclared, UploadsSound
<1>16. RootsInDir'
  BY <1>12 DEF RootsInDir
<1> QED
  BY <1>9, <1>10, <1>11, <1>13, <1>14, <1>15, <1>16 DEF IInv, RegistryCoherent


LEMMA GraphOpenFailsInv ==
  ASSUME IInv, GraphOpenFails
  PROVE  IInv'
<1>1. /\ running /\ opening.active /\ opening' = Idle
      /\ UNCHANGED <<running, version, owners, caps, cursors, uploads, faults>>
  BY DEF GraphOpenFails
<1>2. PICK cs, us, rs, fs :
        /\ rs = [roots EXCEPT ![opening.root] = Absent]
        /\ cs = cursors /\ us = uploads /\ fs = files
        /\ RemoveStorageIfIdle(cs, us, rs, fs)
  BY DEF GraphOpenFails
<1>3. opening.root \in CursorIds
  BY <1>1, OpeningTyped
<1>4. roots \in [CursorIds -> Absent..MaxVersion] /\ Absent \in Absent..MaxVersion
  BY RegistryAssumption DEF IInv, RegistryCoherent, TypeOK, RegistryAssumption, Absent
<1>5. /\ rs \in [CursorIds -> Absent..MaxVersion]
      /\ \A d \in CursorIds : rs[d] = Absent \/ rs[d] = roots[d]
      /\ \A d \in CursorIds : d # opening.root => rs[d] = roots[d]
  BY <1>2, <1>3, <1>4
<1>6. \A x \in cs : rs[x.root] = roots[x.root]
  BY <1>1, <1>2, <1>5 DEF IInv, OpeningSound, RegistryCoherent, TypeOK
<1>7. \A u \in us : u.id \in fs
  BY <1>2 DEF IInv, GraphsShared, StorageLive
<1>8. /\ cursors' = cs /\ uploads' = us
      /\ cs \subseteq cursors /\ us \subseteq uploads /\ fs \subseteq files
  BY <1>1, <1>2
<1>9. /\ dir' \in BOOLEAN
      /\ roots' \in [CursorIds -> Absent..MaxVersion]
      /\ files' \subseteq UploadIds
      /\ RootsInDir' /\ IdleIsEmpty' /\ GraphsShared'
  <2>1. RemoveStorageIfIdle(cs, us, rs, fs)
    BY <1>2
  <2>2. /\ rs \in [CursorIds -> Absent..MaxVersion]
        /\ \A d \in CursorIds : rs[d] = Absent \/ rs[d] = roots[d]
    BY <1>5
  <2> QED
    BY <1>6, <1>7, <1>8, <2>1, <2>2, Shrinks
<1>10. TypeOK'
  BY <1>1, <1>9 DEF IInv, RegistryCoherent, TypeOK
<1>11. OpeningSound' /\ EndedIsEmpty'
  BY <1>1 DEF OpeningSound, EndedIsEmpty, Idle
<1>12. /\ NothingOutlivesItsOwner' /\ CursorHasItsSession' /\ SealedIsDeclared' /\ UploadsSound'
  BY <1>1 DEF IInv, RegistryCoherent, NothingOutlivesItsOwner, CursorHasItsSession,
              SealedIsDeclared, UploadsSound
<1> QED
  BY <1>9, <1>10, <1>11, <1>12 DEF IInv, RegistryCoherent

LEMMA GraphCloseInv ==
  ASSUME IInv, NEW c \in cursors, GraphClose(c)
  PROVE  IInv'
<1>1. /\ running /\ cursors' = cursors \ {c} /\ opening' = opening
      /\ UNCHANGED <<running, version, owners, caps, uploads, faults>>
  BY DEF GraphClose
<1>2. PICK cs, us, rs, fs :
        /\ cs = cursors \ {c} /\ us = uploads /\ fs = files
        /\ rs = IF \E other \in cs : other.root = c.root
                THEN roots ELSE [roots EXCEPT ![c.root] = Absent]
        /\ RemoveStorageIfIdle(cs, us, rs, fs)
  BY <1>1 DEF GraphClose
<1>3. roots \in [CursorIds -> Absent..MaxVersion] /\ Absent \in Absent..MaxVersion
      /\ \A x \in cursors : x.root \in CursorIds
  BY RegistryAssumption DEF IInv, RegistryCoherent, TypeOK, RegistryAssumption, Absent
<1>4. /\ rs \in [CursorIds -> Absent..MaxVersion]
      /\ \A d \in CursorIds : rs[d] = Absent \/ rs[d] = roots[d]
      /\ \A d \in CursorIds : d # c.root => rs[d] = roots[d]
  BY <1>2, <1>3
<1>5. \A x \in cs : rs[x.root] = roots[x.root]
  BY <1>2, <1>3, <1>4
<1>6. \A u \in us : u.id \in fs
  BY <1>2 DEF IInv, GraphsShared, StorageLive
<1>7. /\ cursors' = cs /\ uploads' = us
      /\ cs \subseteq cursors /\ us \subseteq uploads /\ fs \subseteq files
  BY <1>1, <1>2
<1>8. /\ dir' \in BOOLEAN
      /\ roots' \in [CursorIds -> Absent..MaxVersion]
      /\ files' \subseteq UploadIds
      /\ RootsInDir' /\ IdleIsEmpty' /\ GraphsShared'
  <2>1. RemoveStorageIfIdle(cs, us, rs, fs)
    BY <1>2
  <2>2. /\ rs \in [CursorIds -> Absent..MaxVersion]
        /\ \A d \in CursorIds : rs[d] = Absent \/ rs[d] = roots[d]
    BY <1>4
  <2> QED
    BY <1>5, <1>6, <1>7, <2>1, <2>2, Shrinks
<1>9. TypeOK'
  BY <1>1, <1>8 DEF IInv, RegistryCoherent, TypeOK
<1>10. OpeningSound' /\ EndedIsEmpty'
  BY <1>1 DEF IInv, OpeningSound, EndedIsEmpty
<1>11. /\ NothingOutlivesItsOwner' /\ CursorHasItsSession' /\ SealedIsDeclared' /\ UploadsSound'
  BY <1>1 DEF IInv, RegistryCoherent, NothingOutlivesItsOwner, CursorHasItsSession,
              SealedIsDeclared, UploadsSound
<1> QED
  BY <1>8, <1>9, <1>10, <1>11 DEF IInv, RegistryCoherent

LEMMA DiscardInv ==
  ASSUME IInv, NEW u \in uploads, running, Discard(u)
  PROVE  IInv'
<1>1. /\ uploads' = uploads \ {u} /\ opening' = opening
      /\ UNCHANGED <<running, version, owners, caps, cursors, faults>>
  BY DEF Discard
<1>2. PICK us, fs : /\ us = uploads \ {u} /\ fs = files \ {u.id}
                    /\ RemoveStorageIfIdle(cursors, us, roots, fs)
  BY <1>1 DEF Discard
<1>3. roots \in [CursorIds -> Absent..MaxVersion]
  BY DEF IInv, RegistryCoherent, TypeOK
<1>4. \A w \in us : w.id \in fs
  BY <1>2 DEF IInv, RegistryCoherent, TypeOK, GraphsShared, StorageLive
<1>5. us \subseteq uploads /\ fs \subseteq files /\ cursors' = cursors /\ uploads' = us
  BY <1>1, <1>2
<1>6. /\ dir' \in BOOLEAN
      /\ roots' \in [CursorIds -> Absent..MaxVersion]
      /\ files' \subseteq UploadIds
      /\ RootsInDir' /\ IdleIsEmpty' /\ GraphsShared'
  BY <1>2, <1>3, <1>4, <1>5, Shrinks
<1>7. TypeOK'
  BY <1>1, <1>6 DEF IInv, RegistryCoherent, TypeOK
<1>8. OpeningSound' /\ EndedIsEmpty'
  BY <1>1 DEF IInv, OpeningSound, EndedIsEmpty
<1>9. /\ NothingOutlivesItsOwner' /\ CursorHasItsSession' /\ SealedIsDeclared' /\ UploadsSound'
  BY <1>1 DEF IInv, RegistryCoherent, NothingOutlivesItsOwner, CursorHasItsSession,
              SealedIsDeclared, UploadsSound
<1> QED
  BY <1>6, <1>7, <1>8, <1>9 DEF IInv, RegistryCoherent


LEMMA ChangedInv ==
  ASSUME IInv, running, NEW u \in uploads, NEW new \in UploadType, Changed(u, new),
         new.id = u.id, new.route = u.route, new.accepted <= Len(new.bytes),
         new.state # "Open" => IsPrefix(Declared, new.bytes),
         faults' \in 0..MaxFaults
  PROVE  IInv'
<1>1. /\ uploads' = (uploads \ {u}) \cup {new}
      /\ UNCHANGED <<running, version, owners, caps, cursors, opening, dir, roots, files>>
  BY DEF Changed, disk
<1>2. uploads' \subseteq UploadType /\ \A w \in uploads' : w.accepted <= Len(w.bytes)
  BY <1>1 DEF IInv, UploadsSound
<1>3. TypeOK'
  <2>1. \A w \in uploads' : w.id \in UploadIds /\ w.accepted \in 0..Len(Declared)
    BY <1>2 DEF UploadType
  <2>2. \A a, b \in uploads' : a.id = b.id => a = b
    <3>1. \A a, b \in uploads : a.id = b.id => a = b
      BY DEF IInv, RegistryCoherent, TypeOK
    <3>2. \A a \in uploads \ {u} : a.id # new.id
      BY <3>1
    <3> QED
      BY <1>1, <3>1, <3>2
  <2> QED
    BY <1>1, <2>1, <2>2 DEF IInv, RegistryCoherent, TypeOK
<1>4. NothingOutlivesItsOwner'
  BY <1>1 DEF IInv, RegistryCoherent, NothingOutlivesItsOwner
<1>5. GraphsShared'
  BY <1>1 DEF IInv, GraphsShared, StorageLive, SharedGraphAgrees
<1>6. SealedIsDeclared' /\ UploadsSound'
  BY <1>1, <1>2 DEF IInv, RegistryCoherent, SealedIsDeclared, UploadsSound
<1>7. CursorHasItsSession' /\ IdleIsEmpty' /\ OpeningSound' /\ EndedIsEmpty' /\ RootsInDir'
  BY <1>1 DEF IInv, RegistryCoherent, CursorHasItsSession, IdleIsEmpty, OpeningSound,
              EndedIsEmpty, RootsInDir
<1> QED
  BY <1>3, <1>4, <1>5, <1>6, <1>7 DEF IInv, RegistryCoherent

LEMMA PatchBeginInv ==
  ASSUME IInv, NEW u \in UploadIds, NEW s \in Sessions, NEW r \in Routes,
         PatchBegin(u, s, r, version[r])
  PROVE  IInv'
<1>1. PICK new :
        /\ new = [id |-> u, session |-> s, route |-> r, version |-> version[r], bytes |-> <<>>,
                  accepted |-> 0, seq |-> 1, told |-> 1, state |-> "Open"]
        /\ uploads' = uploads \cup {new}
  BY DEF PatchBegin
<1>2. /\ running /\ owners[r] > 0 /\ \A other \in uploads : other.id # u
      /\ files' = files \cup {u} /\ dir' = TRUE
      /\ UNCHANGED <<running, version, owners, caps, cursors, opening, roots, faults>>
  BY DEF PatchBegin
<1>3. /\ new.id = u /\ new.route = r /\ new.state = "Open" /\ new.accepted = 0
      /\ new.bytes = <<>>
  BY <1>1
<1>4. new \in UploadType
  <2>1. 0 \in 0..Len(Declared) /\ version[r] \in 1..MaxVersion /\ <<>> \in Seq(Range(Declared))
    BY RegistryAssumption DEF IInv, RegistryCoherent, TypeOK, RegistryAssumption
  <2> QED
    BY <1>1, <2>1 DEF UploadType
<1>5. UploadsSound'
  BY <1>1, <1>3, <1>4 DEF IInv, UploadsSound
<1>6. TypeOK'
  <2>1. \A w \in uploads' : w.id \in UploadIds /\ w.accepted \in 0..Len(Declared)
    BY <1>5 DEF UploadsSound, UploadType
  <2>2. \A a, b \in uploads' : a.id = b.id => a = b
    <3>1. \A a, b \in uploads : a.id = b.id => a = b
      BY DEF IInv, RegistryCoherent, TypeOK
    <3>2. \A a \in uploads : a.id # new.id
      BY <1>2, <1>3
    <3> QED
      BY <1>1, <3>1, <3>2
  <2> QED
    BY <1>2, <2>1, <2>2 DEF IInv, RegistryCoherent, TypeOK
<1>7. NothingOutlivesItsOwner'
  BY <1>1, <1>2, <1>3 DEF IInv, RegistryCoherent, NothingOutlivesItsOwner
<1>8. GraphsShared'
  BY <1>1, <1>2, <1>3 DEF IInv, GraphsShared, StorageLive, SharedGraphAgrees
<1>9. SealedIsDeclared'
  BY <1>1, <1>3 DEF IInv, RegistryCoherent, SealedIsDeclared
<1>10. CursorHasItsSession' /\ IdleIsEmpty' /\ OpeningSound' /\ EndedIsEmpty' /\ RootsInDir'
  BY <1>1, <1>2 DEF IInv, RegistryCoherent, CursorHasItsSession, IdleIsEmpty, OpeningSound,
              EndedIsEmpty, RootsInDir
<1> QED
  BY <1>5, <1>6, <1>7, <1>8, <1>9, <1>10 DEF IInv, RegistryCoherent

(* A part of the declared bytes.                                             *)
LEMMA Part ==
  ASSUME NEW a \in Nat, NEW length \in Nat, a + length <= Len(Declared)
  PROVE  /\ SubSeq(Declared, a + 1, a + length) \in Seq(Range(Declared))
         /\ Len(SubSeq(Declared, a + 1, a + length)) = length
<1>1. \A i \in (a + 1)..(a + length) : Declared[i] \in Range(Declared)
  BY RegistryAssumption DEF RegistryAssumption
<1>2. a + 1 \in Int /\ a + length \in Int
  OBVIOUS
<1>3. /\ SubSeq(Declared, a + 1, a + length) \in Seq(Range(Declared))
      /\ Len(SubSeq(Declared, a + 1, a + length)) =
           IF a + 1 <= a + length THEN (a + length) - (a + 1) + 1 ELSE 0
  BY <1>1, <1>2, SubSeqProperties
<1> QED
  BY <1>3

LEMMA PatchChunkInv ==
  ASSUME IInv, NEW u \in uploads, NEW length \in 0..Len(Declared), PatchChunk(u, length)
  PROVE  IInv'
<1> DEFINE payload == SubSeq(Declared, u.accepted + 1, u.accepted + length)
           stored == [u EXCEPT !.bytes = @ \o payload, !.accepted = @ + length, !.seq = @ + 1]
<1>1. /\ running /\ u.state = "Open" /\ length <= Len(Declared) - u.accepted
  BY DEF PatchChunk, InStep
<1>2. /\ u \in UploadType /\ u.accepted \in Nat /\ u.seq \in Nat /\ u.told \in Nat
      /\ u.bytes \in Seq(Range(Declared)) /\ u.accepted <= Len(u.bytes)
      /\ Len(Declared) \in Nat /\ length \in Nat
  BY RegistryAssumption DEF IInv, UploadsSound, UploadType, RegistryAssumption
<1>3. u.accepted + length <= Len(Declared)
  BY <1>1, <1>2
<1>4. payload \in Seq(Range(Declared)) /\ Len(payload) = length
  BY <1>2, <1>3, Part
<1>5. /\ u.bytes \o payload \in Seq(Range(Declared))
      /\ Len(u.bytes \o payload) = Len(u.bytes) + length
  BY <1>2, <1>4, ConcatProperties
<1>6. faults' = faults \/ Fails => faults' \in 0..MaxFaults
  BY RegistryAssumption DEF IInv, RegistryCoherent, TypeOK, RegistryAssumption, Fails
<1>7. ASSUME NEW told \in Nat
      PROVE  LET new == [stored EXCEPT !.told = told]
             IN /\ new \in UploadType /\ new.id = u.id /\ new.route = u.route
                /\ new.accepted <= Len(new.bytes) /\ new.state = "Open"
  <2>1. u.accepted + length \in 0..Len(Declared) /\ u.seq + 1 \in Nat
    BY <1>2, <1>3
  <2>2. u.accepted + length <= Len(u.bytes \o payload)
    <3>1. Len(u.bytes) \in Nat
      BY <1>2
    <3> HIDE DEF payload
    <3> QED
      BY <1>2, <1>5, <3>1
  <2> HIDE DEF payload
  <2> QED
    BY <1>1, <1>2, <1>5, <2>1, <2>2 DEF UploadType
<1>8. stored = [stored EXCEPT !.told = u.told] /\ stored.told = u.told
  BY <1>2 DEF UploadType
<1>9. CASE Changed(u, [stored EXCEPT !.told = @ + 1]) /\ UNCHANGED faults
  <2>1. u.told + 1 \in Nat
    BY <1>2
  <2>2. PICK new : new = [stored EXCEPT !.told = @ + 1] /\ Changed(u, new)
    BY <1>9
  <2>3. new = [stored EXCEPT !.told = u.told + 1]
    BY <1>8, <2>2
  <2>4. /\ new \in UploadType /\ new.id = u.id /\ new.route = u.route
        /\ new.accepted <= Len(new.bytes) /\ new.state = "Open"
    BY <1>7, <2>1, <2>3
  <2> QED
    BY <1>1, <1>6, <1>9, <2>2, <2>4, ChangedInv
<1>10. CASE Fails /\ Changed(u, stored)
  <2>1. PICK new : new = stored /\ Changed(u, new)
    BY <1>10
  <2>2. /\ new \in UploadType /\ new.id = u.id /\ new.route = u.route
        /\ new.accepted <= Len(new.bytes) /\ new.state = "Open"
    <3>1. u.told \in Nat
      BY <1>2
    <3> HIDE DEF stored
    <3>2. LET same == [stored EXCEPT !.told = u.told]
          IN /\ same \in UploadType /\ same.id = u.id /\ same.route = u.route
             /\ same.accepted <= Len(same.bytes) /\ same.state = "Open"
      BY <1>7, <3>1
    <3> QED
      BY <1>8, <2>1, <3>2
  <2> QED
    BY <1>1, <1>6, <1>10, <2>1, <2>2, ChangedInv
<1>11. ASSUME Fails, NEW torn \in 0..length,
              Changed(u, [u EXCEPT !.bytes = @ \o SubSeq(payload, 1, torn)])
       PROVE  IInv'
  <2>1. SubSeq(payload, 1, torn) \in Seq(Range(Declared))
    <3>1. \A i \in 1..torn : payload[i] \in Range(Declared)
      <4> HIDE DEF payload
      <4>1. \A i \in 1..length : payload[i] \in Range(Declared)
        BY <1>4
      <4>2. torn \in Nat /\ torn <= length
        BY <1>2, <1>11
      <4> QED
        BY <1>2, <4>1, <4>2
    <3>2. torn \in Int
      BY <1>2, <1>11
    <3> HIDE DEF payload
    <3>3. 1 \in Int
      OBVIOUS
    <3> QED
      BY <3>1, <3>2, <3>3, SubSeqProperties
  <2>2. PICK more : more = u.bytes \o SubSeq(payload, 1, torn)
    OBVIOUS
  <2>3. more \in Seq(Range(Declared)) /\ Len(more) >= Len(u.bytes)
    <3> HIDE DEF payload
    <3>1. PICK part \in Seq(Range(Declared)) : part = SubSeq(payload, 1, torn)
      BY <2>1
    <3>2. more = u.bytes \o part
      BY <2>2, <3>1
    <3>3. Len(u.bytes) \in Nat /\ Len(part) \in Nat
      BY <1>2
    <3>4. more \in Seq(Range(Declared)) /\ Len(more) = Len(u.bytes) + Len(part)
      BY <1>2, <3>2, ConcatProperties
    <3> QED
      BY <3>3, <3>4
  <2>4. PICK new : new = [u EXCEPT !.bytes = more] /\ Changed(u, new)
    BY <1>11, <2>2
  <2>5. /\ new \in UploadType /\ new.id = u.id /\ new.route = u.route
        /\ new.bytes = more /\ new.accepted = u.accepted /\ new.state = "Open"
    BY <1>1, <1>2, <2>3, <2>4 DEF UploadType
  <2>6. new.accepted <= Len(new.bytes)
    BY <1>2, <2>3, <2>5
  <2> QED
    BY <1>1, <1>6, <1>11, <2>4, <2>5, <2>6, ChangedInv
<1> QED
  BY <1>9, <1>10, <1>11 DEF PatchChunk


(* The bytes whose digest is the declared one begin the file.                *)
LEMMA DigestIsPrefix ==
  ASSUME IInv, NEW u \in uploads, u.accepted = Len(Declared), PatchDigest(u) = Declared
  PROVE  IsPrefix(Declared, u.bytes)
<1>1. u.accepted <= Len(u.bytes)
  BY DEF IInv, UploadsSound
<1>2. SubSeq(u.bytes, 1, Len(Declared)) = Declared
  BY DEF PatchDigest
<1>3. SubSeq(Declared, 1, Len(Declared)) = Declared
  BY RegistryAssumption DEF RegistryAssumption
<1> QED
  BY <1>1, <1>2, <1>3 DEF IsPrefix

LEMMA PatchCommitInv ==
  ASSUME IInv, NEW u \in uploads, PatchCommit(u)
  PROVE  IInv'
<1>1. /\ running /\ u.state = "Open" /\ u.accepted = Len(Declared) /\ PatchDigest(u) = Declared
      /\ u.told = u.seq
  BY DEF PatchCommit, InStep
<1>2. /\ u \in UploadType /\ u.seq \in Nat /\ u.told \in Nat /\ u.accepted <= Len(u.bytes)
  BY DEF IInv, UploadsSound, UploadType
<1>3. IsPrefix(Declared, u.bytes)
  BY <1>1, DigestIsPrefix
<1>4. faults' = faults \/ Fails => faults' \in 0..MaxFaults
  BY RegistryAssumption DEF IInv, RegistryCoherent, TypeOK, RegistryAssumption, Fails
<1>5. PICK new :
        /\ new \in {[u EXCEPT !.state = "Sealed", !.seq = @ + 1, !.told = @ + 1],
                    [u EXCEPT !.state = "Sealed", !.seq = @ + 1],
                    [u EXCEPT !.seq = @ + 1]}
        /\ Changed(u, new)
        /\ faults' = faults \/ Fails
  BY DEF PatchCommit
<1>6. u.seq + 1 \in Nat /\ u.told + 1 \in Nat
  BY <1>2
<1>7. /\ new \in UploadType /\ new.id = u.id /\ new.route = u.route /\ new.bytes = u.bytes
      /\ new.accepted = u.accepted
  BY <1>2, <1>5, <1>6 DEF UploadType
<1>8. faults' \in 0..MaxFaults
  BY <1>4, <1>5
<1> QED
  BY <1>1, <1>2, <1>3, <1>5, <1>7, <1>8, ChangedInv

LEMMA PatchValidateInv ==
  ASSUME IInv, NEW u \in uploads, NEW expected \in 1..MaxVersion, PatchValidate(u, expected)
  PROVE  IInv'
<1>1. running /\ u.state = "Sealed" /\ faults' = faults
  BY DEF PatchValidate
<1>2. u \in UploadType /\ u.accepted <= Len(u.bytes)
  BY DEF IInv, UploadsSound
<1>3. IsPrefix(Declared, u.bytes)
  BY <1>1 DEF IInv, RegistryCoherent, SealedIsDeclared
<1>4. PICK new : new = [u EXCEPT !.state = "Validated"] /\ Changed(u, new)
  BY DEF PatchValidate
<1>5. /\ new \in UploadType /\ new.id = u.id /\ new.route = u.route /\ new.bytes = u.bytes
      /\ new.accepted = u.accepted
  BY <1>2, <1>4 DEF UploadType
<1>6. faults' \in 0..MaxFaults
  BY <1>1 DEF IInv, RegistryCoherent, TypeOK
<1> QED
  BY <1>1, <1>2, <1>3, <1>4, <1>5, <1>6, ChangedInv

LEMMA EditInv ==
  ASSUME IInv, NEW r \in Routes, Edit(r)
  PROVE  IInv'
<1> USE DEF Edit, memory, disk
<1>1. TypeOK'
  <2>1. version' \in [Routes -> 1..MaxVersion]
    BY RegistryAssumption DEF IInv, RegistryCoherent, TypeOK, RegistryAssumption
  <2> QED
    BY <2>1 DEF IInv, RegistryCoherent, TypeOK
<1>2. /\ NothingOutlivesItsOwner' /\ CursorHasItsSession' /\ IdleIsEmpty' /\ SealedIsDeclared'
      /\ GraphsShared' /\ UploadsSound' /\ OpeningSound' /\ EndedIsEmpty' /\ RootsInDir'
  BY DEF IInv, RegistryCoherent, NothingOutlivesItsOwner, CursorHasItsSession, IdleIsEmpty,
         SealedIsDeclared, GraphsShared, StorageLive, SharedGraphAgrees, UploadsSound,
         OpeningSound, EndedIsEmpty, RootsInDir
<1> QED
  BY <1>1, <1>2 DEF IInv, RegistryCoherent

LEMMA CrashInv ==
  ASSUME IInv, Crash
  PROVE  IInv'
<1> USE DEF Crash, disk
<1>1. TypeOK'
  <2>1. owners' \in [Routes -> 0..MaxOwners]
    BY RegistryAssumption DEF RegistryAssumption
  <2> QED
    BY <2>1 DEF IInv, RegistryCoherent, TypeOK
<1>2. /\ NothingOutlivesItsOwner' /\ CursorHasItsSession' /\ IdleIsEmpty' /\ SealedIsDeclared'
      /\ GraphsShared' /\ UploadsSound' /\ EndedIsEmpty' /\ RootsInDir'
  BY DEF IInv, NothingOutlivesItsOwner, CursorHasItsSession, IdleIsEmpty, SealedIsDeclared,
         GraphsShared, StorageLive, SharedGraphAgrees, UploadsSound, EndedIsEmpty, RootsInDir
<1>3. OpeningSound'
  BY DEF OpeningSound, Idle
<1> QED
  BY <1>1, <1>2, <1>3 DEF IInv, RegistryCoherent

LEMMA StartupCleanupInv ==
  ASSUME IInv, StartupCleanup
  PROVE  IInv'
<1> USE DEF StartupCleanup, memory
<1>1. caps = {} /\ cursors = {} /\ uploads = {} /\ opening = Idle
  BY DEF IInv, EndedIsEmpty
<1>2. TypeOK'
  <2>1. Absent \in Absent..MaxVersion
    BY RegistryAssumption DEF RegistryAssumption, Absent
  <2>2. roots' \in [CursorIds -> Absent..MaxVersion] /\ dir' \in BOOLEAN /\ files' \subseteq UploadIds
    BY <2>1
  <2> QED
    BY <1>1, <2>2 DEF IInv, RegistryCoherent, TypeOK
<1>3. /\ NothingOutlivesItsOwner' /\ CursorHasItsSession' /\ IdleIsEmpty' /\ SealedIsDeclared'
      /\ GraphsShared' /\ UploadsSound' /\ EndedIsEmpty' /\ RootsInDir'
  BY <1>1 DEF NothingOutlivesItsOwner, CursorHasItsSession, IdleIsEmpty, SealedIsDeclared,
         GraphsShared, StorageLive, SharedGraphAgrees, UploadsSound, EndedIsEmpty, RootsInDir
<1>4. OpeningSound'
  BY <1>1 DEF OpeningSound, Idle
<1> QED
  BY <1>2, <1>3, <1>4 DEF IInv, RegistryCoherent

-----------------------------------------------------------------------------
LEMMA InitInv == Init => IInv
<1> SUFFICES ASSUME Init PROVE IInv
  OBVIOUS
<1> USE DEF Init
<1>1. TypeOK
  <2>1. Absent \in Absent..MaxVersion
    BY RegistryAssumption DEF RegistryAssumption, Absent
  <2>2. roots \in [CursorIds -> Absent..MaxVersion]
    BY <2>1
  <2>3. owners \in [Routes -> 0..MaxOwners] /\ version \in [Routes -> 1..MaxVersion]
    BY RegistryAssumption DEF RegistryAssumption
  <2>4. faults \in 0..MaxFaults
    BY RegistryAssumption DEF RegistryAssumption
  <2> QED
    BY <2>2, <2>3, <2>4 DEF TypeOK
<1>2. /\ NothingOutlivesItsOwner /\ CursorHasItsSession /\ IdleIsEmpty /\ SealedIsDeclared
      /\ GraphsShared /\ UploadsSound /\ EndedIsEmpty /\ RootsInDir
  BY DEF NothingOutlivesItsOwner, CursorHasItsSession, IdleIsEmpty, SealedIsDeclared,
         GraphsShared, StorageLive, SharedGraphAgrees, UploadsSound, EndedIsEmpty, RootsInDir
<1>3. OpeningSound
  BY DEF OpeningSound, Idle
<1> QED
  BY <1>1, <1>2, <1>3 DEF IInv, RegistryCoherent

LEMMA StutterInv ==
  ASSUME IInv, UNCHANGED vars
  PROVE  IInv'
BY DEF vars, memory, disk, IInv, RegistryCoherent, TypeOK, NothingOutlivesItsOwner,
       CursorHasItsSession, IdleIsEmpty, SealedIsDeclared, GraphsShared, StorageLive,
       SharedGraphAgrees, UploadsSound, OpeningSound, EndedIsEmpty, RootsInDir

LEMMA NextInv ==
  ASSUME IInv, Next
  PROVE  IInv'
<1>1. ASSUME NEW r \in Routes, Publish(r) PROVE IInv'
  BY <1>1, PublishInv
<1>2. ASSUME NEW r \in Routes, DestroyOwner(r) PROVE IInv'
  BY <1>2, DestroyOwnerInv
<1>3. ASSUME NEW r \in Routes, Edit(r) PROVE IInv'
  BY <1>3, EditInv
<1>4. ASSUME NEW s \in Sessions, NEW r \in Routes, NEW bits \in Requests,
             NegotiateCapabilities(s, r, bits)
      PROVE  IInv'
  BY <1>4, NegotiateInv
<1>5. ASSUME NEW s \in Sessions, NEW r \in Routes, NEW c \in CursorIds,
             NEW expected \in 0..MaxVersion, GraphOpenReused(s, r, c, expected)
      PROVE  IInv'
  BY <1>5, GraphOpenReusedInv
<1>6. ASSUME NEW s \in Sessions, NEW r \in Routes, NEW c \in CursorIds,
             NEW expected \in 0..MaxVersion, GraphOpenFresh(s, r, c, expected)
      PROVE  IInv'
  BY <1>6, GraphOpenFreshInv
<1>7. CASE GraphOpenPublishes
  BY <1>7, GraphOpenPublishesInv
<1>8. CASE GraphOpenFails
  BY <1>8, GraphOpenFailsInv
<1>9. ASSUME NEW c \in cursors, GraphClose(c) PROVE IInv'
  BY <1>9, GraphCloseInv
<1>10. ASSUME NEW u \in UploadIds, NEW s \in Sessions, NEW r \in Routes,
              PatchBegin(u, s, r, version[r])
       PROVE  IInv'
  BY <1>10, PatchBeginInv
<1>11. ASSUME NEW u \in uploads, NEW length \in 0..Len(Declared), PatchChunk(u, length)
       PROVE  IInv'
  BY <1>11, PatchChunkInv
<1>12. ASSUME NEW u \in uploads, PatchCommit(u) PROVE IInv'
  BY <1>12, PatchCommitInv
<1>13. ASSUME NEW u \in uploads, PatchAbort(u) PROVE IInv'
  BY <1>13, DiscardInv DEF PatchAbort, InStep
<1>14. ASSUME NEW u \in uploads, NEW expected \in 1..MaxVersion, PatchValidate(u, expected)
       PROVE  IInv'
  BY <1>14, PatchValidateInv
<1>15. ASSUME NEW u \in uploads, NEW r \in Routes, RouteChanged(u, r) PROVE IInv'
  BY <1>15, DiscardInv DEF RouteChanged
<1>16. CASE Crash
  BY <1>16, CrashInv
<1>17. CASE StartupCleanup
  BY <1>17, StartupCleanupInv
<1> QED
  BY <1>1, <1>2, <1>3, <1>4, <1>5, <1>6, <1>7, <1>8, <1>9, <1>10, <1>11, <1>12, <1>13, <1>14,
     <1>15, <1>16, <1>17 DEF Next

(* The inductive invariant holds of every reachable state, whatever the      *)
(* documents, sessions, cursors and uploads and however many they are.       *)
THEOREM Inductive == Spec => []IInv
<1>1. Init => IInv
  BY InitInv
<1>2. IInv /\ [Next]_vars => IInv'
  BY NextInv, StutterInv
<1> QED
  BY <1>1, <1>2, PTL DEF Spec

(* What is registered has its owner, a cursor has its session, an idle       *)
(* registry leaves nothing on disk, and a sealed patch is the declared one.  *)
THEOREM RegistryCoherentHolds == Spec => []RegistryCoherent
<1>1. IInv => RegistryCoherent
  BY DEF IInv
<1> QED
  BY <1>1, Inductive, PTL

(* A registered cursor or upload has its files, and cursors that share a     *)
(* directory read the version they were opened on.                           *)
THEOREM GraphsSharedHolds == Spec => []GraphsShared
<1>1. IInv => GraphsShared
  BY DEF IInv
<1> QED
  BY <1>1, Inductive, PTL

-----------------------------------------------------------------------------
(* What a step does to one upload. *)
Validated(u, w) ==
  u.id = w.id /\ u.state # "Open" =>
    /\ w.bytes = u.bytes
    /\ u.state = "Validated" => w.state = "Validated"

(* An upload that stays as it is.                                            *)
LEMMA KeptUploads ==
  ASSUME IInv, uploads' \subseteq uploads
  PROVE  \A u \in uploads, w \in uploads' : Validated(u, w)
BY DEF IInv, RegistryCoherent, TypeOK, Validated

(* An upload that a handler changes.                                         *)
LEMMA ChangedUpload ==
  ASSUME IInv, NEW x \in uploads, NEW new, Changed(x, new), new.id = x.id, Validated(x, new)
  PROVE  \A u \in uploads, w \in uploads' : Validated(u, w)
<1>1. \A a, b \in uploads : a.id = b.id => a = b
  BY DEF IInv, RegistryCoherent, TypeOK
<1>2. SUFFICES ASSUME NEW u \in uploads, NEW w \in uploads', u.id = w.id
               PROVE  Validated(u, w)
  BY DEF Validated
<1>3. CASE w = new
  BY <1>1, <1>2, <1>3
<1>4. CASE w # new
  BY <1>1, <1>2, <1>4 DEF Changed, Validated
<1> QED
  BY <1>3, <1>4

(* Whoever holds a digest holds the bytes: from the seal on the file of a    *)
(* patch does not change, and a patch that was validated stays validated     *)
(* until it goes.                                                            *)
THEOREM ValidatedStaysHolds == Spec => ValidatedStays
<1> DEFINE Step == \A u \in uploads, w \in uploads' : Validated(u, w)
<1>1. ASSUME IInv, Next PROVE Step
  <2>1. CASE uploads' \subseteq uploads
    BY <1>1, <2>1, KeptUploads
  <2>2. ASSUME NEW u \in UploadIds, NEW s \in Sessions, NEW r \in Routes,
               PatchBegin(u, s, r, version[r])
        PROVE  Step
    <3>1. PICK new : new.id = u /\ uploads' = uploads \cup {new}
      BY <2>2 DEF PatchBegin
    <3>2. \A x \in uploads : x.id # u
      BY <2>2 DEF PatchBegin
    <3>3. \A a, b \in uploads : a.id = b.id => a = b
      BY <1>1 DEF IInv, RegistryCoherent, TypeOK
    <3> QED
      BY <3>1, <3>2, <3>3 DEF Validated
  <2>3. ASSUME NEW u \in uploads, NEW length \in 0..Len(Declared), PatchChunk(u, length)
        PROVE  Step
    <3>1. u \in UploadType /\ u.state = "Open"
      BY <1>1, <2>3 DEF PatchChunk, IInv, UploadsSound
    <3>2. PICK new : new.id = u.id /\ Changed(u, new)
      BY <2>3, <3>1 DEF PatchChunk, UploadType
    <3> QED
      BY <1>1, <3>1, <3>2, ChangedUpload DEF Validated
  <2>4. ASSUME NEW u \in uploads, PatchCommit(u) PROVE Step
    <3>1. u \in UploadType /\ u.state = "Open"
      BY <1>1, <2>4 DEF PatchCommit, IInv, UploadsSound
    <3>2. PICK new : new.id = u.id /\ Changed(u, new)
      BY <2>4, <3>1 DEF PatchCommit, UploadType
    <3> QED
      BY <1>1, <3>1, <3>2, ChangedUpload DEF Validated
  <2>5. ASSUME NEW u \in uploads, NEW expected \in 1..MaxVersion, PatchValidate(u, expected)
        PROVE  Step
    <3>1. u \in UploadType
      BY <1>1 DEF IInv, UploadsSound
    <3>2. PICK new : new = [u EXCEPT !.state = "Validated"] /\ Changed(u, new)
      BY <2>5 DEF PatchValidate
    <3>3. new.id = u.id /\ new.bytes = u.bytes /\ new.state = "Validated"
      BY <3>1, <3>2 DEF UploadType
    <3> QED
      BY <1>1, <3>2, <3>3, ChangedUpload DEF Validated
  <2>6. \/ uploads' \subseteq uploads
        \/ \E u \in UploadIds, s \in Sessions, r \in Routes : PatchBegin(u, s, r, version[r])
        \/ \E u \in uploads, length \in 0..Len(Declared) : PatchChunk(u, length)
        \/ \E u \in uploads : PatchCommit(u)
        \/ \E u \in uploads, expected \in 1..MaxVersion : PatchValidate(u, expected)
    BY <1>1 DEF Next, Publish, DestroyOwner, InvalidateRoute, Edit, NegotiateCapabilities,
                GraphOpenReused, GraphOpenFresh, GraphOpenPublishes, GraphOpenFails, GraphClose,
                PatchAbort, RouteChanged, Discard, Crash, StartupCleanup, memory
  <2> QED
    BY <2>1, <2>2, <2>3, <2>4, <2>5, <2>6
<1>2. IInv /\ [Next]_vars => [Step]_vars
  BY <1>1
<1>3. [Step]_vars =>
        [\A u \in uploads, w \in uploads' :
           u.id = w.id /\ u.state # "Open" =>
             /\ w.bytes = u.bytes
             /\ u.state = "Validated" => w.state = "Validated"]_vars
  BY DEF Validated
<1> QED
  BY <1>2, <1>3, Inductive, PTL DEF Spec, ValidatedStays

(***************************************************************************)
(* The capture.  Before the baseline nothing has been touched.             *)
(***************************************************************************)
Untouched ==
  pc \in {"signal", "checkpoint", "begin", "baseline"} =>
    /\ baseline = None /\ pass = 0 /\ payloads = <<>> /\ edits = 0
    /\ status = "Complete" /\ deferred = "Complete"
    /\ artifact = [p \in Passes |-> None] /\ worker = "none"
    /\ spools = {} /\ ~prepared /\ ~owned /\ spoolRoot
    /\ session = (IF pc = "baseline" THEN "open" ELSE "none")
    /\ caret \in {"user", "moved"} /\ published = None /\ result = "none"
    /\ pc = "checkpoint" => cancel # "absent"

InPass == pc \in {"pass", "read", "restore", "recapture", "passed"}
Underway == InPass \/ pc \in {"join", "abort", "compare", "publish"}

(* While it is under way nothing is published and the session is open.       *)
NothingYet ==
  Underway => /\ baseline # None /\ session = "open" /\ spoolRoot
              /\ result = "none" /\ published = None

(* A pass that is still good has handed over what it read, and the second    *)
(* one is read only after a good first one, whose artifact a thread builds.  *)
PassesInOrder ==
  /\ InPass =>
       /\ spools = {} /\ ~prepared /\ deferred = "Complete"
       /\ pass = 0 => worker = "none" /\ artifact[1] = None
       /\ pass = 1 => worker # "none" /\ artifact[0] # None
       /\ pc \in {"pass", "read"} => status = "Complete"
       /\ pc = "pass" => payloads = <<>>
       /\ pc \in {"restore", "recapture", "passed"} /\ status = "Complete" =>
            artifact[pass] # None /\ payloads = <<>>
  /\ pc = "join" =>
       /\ pass = 1 /\ worker # "none" /\ artifact[0] # None
       /\ spools = {} /\ ~prepared
       /\ deferred = "Complete" => status = "Complete" /\ artifact[1] # None
  /\ pc \in {"compare", "publish"} =>
       /\ pass = 1 /\ worker = "built" /\ deferred = "Complete" /\ status = "Complete"
       /\ artifact[0] # None /\ artifact[1] # None /\ 1 \in spools
  /\ pc = "publish" => artifact[0] = artifact[1]
  /\ pc = "abort" => status # "Complete" /\ worker # "building" /\ (prepared => 1 \in spools)

(* What a capture that is over has left, and what it says of itself.         *)
Over ==
  pc \in {"cleanup", "ended"} =>
    /\ worker # "building" /\ spools = {} /\ session # "open"
    /\ result # "none" /\ (prepared => result = "CleanupFailed")
    /\ (published # None) <=> (result = "Complete")
    /\ published # None =>
         /\ worker = "built" /\ deferred = "Complete" /\ status = "Complete"
         /\ published = artifact[1] /\ artifact[0] = artifact[1] /\ baseline # None
    /\ pc = "ended" /\ spoolRoot =>
         result = "IncompleteCapture" /\ cancel # "absent" /\ session = "none"

(* A cancellation is seen before the session begins or not at all.           *)
CancelledEarly ==
  /\ observed => pc = "ended"
  /\ status # "Cancelled" /\ deferred # "Cancelled"
  /\ result = "Cancelled" =>
       pc = "ended" /\ session = "none" /\ caret \in {"user", "moved"}

(* A caret that can be restored is lost only together with a status that     *)
(* says so, or when the thread has failed.                                   *)
CaretTracked ==
  restorable =>
    /\ caret # "begin"
    /\ baseline # None => baseline[2] # "begin"
    /\ caret = "reader" =>
         \/ pc = "restore"
         \/ pc = "passed" /\ status = "RestoreFailed"
         \/ pc = "join" /\ deferred = "RestoreFailed"
         \/ pc = "abort" /\ (status \in {"RestoreFailed", "CleanupFailed"} \/ worker = "failed")
         \/ pc \in {"cleanup", "ended"} /\ (result \in {"RestoreFailed", "CleanupFailed"}
                                              \/ worker = "failed")

(* What was read is not all what the document said at the baseline.          *)
Torn(sequence) == \E r \in DOMAIN sequence : sequence[r] # baseline[1]

(* The edits of the first pass, if that was fooled.                          *)
Before == IF pass = 1 /\ Torn(artifact[0]) THEN 2 ELSE 0

(* A pass reads something else only after an edit, and needs a second one    *)
(* to find the document as it was when it compares.                          *)
EditsCounted ==
  Underway =>
    /\ edits >= Before
    /\ doc # baseline[1] => edits >= Before + 1
    /\ Torn(payloads) \/ Torn(artifact[pass]) =>
         edits >= Before + 1 /\ (doc = baseline[1] => edits >= Before + 2)
    /\ pc \in {"passed", "join", "compare", "publish"} /\ status = "Complete"
         /\ Torn(artifact[pass]) =>
         edits >= Before + 2 /\ (doc # baseline[1] => edits >= Before + 3)

TornPublished == published # None /\ Torn(published) => edits >= 4

CaptureInv ==
  /\ CaptureTypes
  /\ Untouched
  /\ NothingYet
  /\ PassesInOrder
  /\ Over
  /\ CancelledEarly
  /\ CaretTracked
  /\ EditsCounted
  /\ TornPublished

USE DEF hangul, user, event, read, built, storage, end, Passes, None

(* The steps of the capture, by the part of it they belong to.               *)
Opening == Signal \/ SignalFails \/ Checkpoint \/ BeginSession \/ BaselineFails \/ Baseline
Reading == BeginAttempt \/ Reader \/ ReaderFails \/ Detach \/ DetachFails
Comparing == Restore \/ RestoreFails \/ Recapture \/ RecaptureFails
Deciding == PassFailed \/ StartWorker \/ StartWorkerFails \/ PassesRead
Joining == WorkerFailed \/ DeferredFailed \/ ReplayFails \/ BuildSecond \/ BuildSecondFails
Closing == AbortRetained \/ Differ \/ Equal \/ PublishFailsEarly \/ PublishFailsLate \/ PublishGraph \/ Cleanup
Others == WorkerEnds \/ EditDocument \/ MoveCaret \/ RequestCancel

LEMMA NothingRead == <<>> \in Read /\ \A s \in Read : s \in Seq(Contents)
<1>1. <<>> \in [1..0 -> Contents] /\ 0 \in 0..Readers
  BY CaptureAssumption
<1>2. \A n \in 0..Readers : [1..n -> Contents] \subseteq Seq(Contents)
  OBVIOUS
<1> QED BY <1>1, <1>2 DEF Read

LEMMA OneMoreRead ==
    ASSUME NEW s \in Read, Len(s) < Readers, NEW d \in Contents
    PROVE  Append(s, d) \in Read
<1>1. PICK n \in 0..Readers : s \in [1..n -> Contents]
  BY DEF Read
<1>2. s \in Seq(Contents) /\ Len(s) = n
  BY <1>1
<1>3. n + 1 \in 0..Readers
  BY <1>2, CaptureAssumption
<1>4. Append(s, d) \in [1..(n + 1) -> Contents]
  <2>1. Append(s, d) \in Seq(Contents) /\ Len(Append(s, d)) = n + 1
    BY <1>2
  <2>2. \A t \in Seq(Contents) : t \in [1..Len(t) -> Contents]
    OBVIOUS
  <2> QED BY <2>1, <2>2
<1> QED BY <1>3, <1>4 DEF Read

LEMMA AllRead ==
    ASSUME NEW s \in Read, Len(s) = Readers
    PROVE  s \in [1..Readers -> Contents]
<1>1. PICK n \in 0..Readers : s \in [1..n -> Contents]
  BY DEF Read
<1>2. Len(s) = n
  BY <1>1
<1> QED BY <1>1, <1>2

LEMMA AbortTypes ==
    ASSUME CaptureTypes, NEW s \in Statuses, Abort(s)
    PROVE  CaptureTypes'
<1>1. payloads' \in Read
  BY NothingRead DEF Abort
<1>2. result' \in Statuses /\ session' = "ended" /\ pc' = "cleanup"
  BY DEF Abort, Statuses
<1>3. spools' \subseteq Passes /\ prepared' \in BOOLEAN
  BY DEF Abort, ResetSpools, CaptureTypes
<1>4. UNCHANGED <<hangul, user, event, pass, baseline, status, built, owned, spoolRoot, published>>
  BY DEF Abort
<1> QED BY <1>1, <1>2, <1>3, <1>4 DEF CaptureTypes

LEMMA AbortArtifactsTypes ==
    ASSUME CaptureTypes, NEW s \in Statuses, NEW n \in {1, 2}, AbortArtifacts(s, n)
    PROVE  CaptureTypes'
<1>1. spools' \subseteq Passes
  <2>1. 0..(n - 1) \subseteq Passes /\ spools \subseteq Passes
    BY DEF CaptureTypes
  <2>2. spools' \subseteq spools \cup 0..(n - 1)
    BY DEF AbortArtifacts
  <2> QED BY <2>1, <2>2
<1>2. status' \in Statuses /\ pc' = "abort"
  BY DEF AbortArtifacts, Statuses
<1>3. UNCHANGED <<hangul, user, event, pass, baseline, payloads, built, prepared, owned,
                 spoolRoot, end>>
  BY DEF AbortArtifacts
<1> QED BY <1>1, <1>2, <1>3 DEF CaptureTypes

LEMMA CaptureTypesKept ==
    ASSUME CaptureInv, [CaptureNext]_captureVars
    PROVE  CaptureTypes'
<1>0. CaptureTypes /\ {"Complete", "IncompleteCapture", "StateChanged", "TraversalMismatch",
                       "RestoreFailed", "Cancelled", "PublishFailed"} \subseteq Statuses
  BY DEF CaptureInv, Statuses
<1>1. CASE Opening
  <2>1. CASE Signal
    BY <1>0, <2>1 DEF Signal, CaptureTypes
  <2>2. CASE SignalFails
    BY <1>0, <2>2 DEF SignalFails, CaptureTypes
  <2>3. CASE Checkpoint
    <3>1. {observed', spoolRoot'} \subseteq BOOLEAN
      BY <1>0, <2>3, Zenon DEF Checkpoint, CaptureTypes
    <3>2. result' \in {"none"} \cup Statuses /\ pc' \in {"ended", "begin"}
      BY <1>0, <2>3 DEF Checkpoint, CaptureTypes
    <3> QED BY <1>0, <2>3, <3>1, <3>2 DEF Checkpoint, CaptureTypes
  <2>4. CASE BeginSession
    BY <1>0, <2>4 DEF BeginSession, CaptureTypes
  <2>5. CASE BaselineFails
    BY <1>0, <2>5, AbortTypes DEF BaselineFails, CaptureTypes
  <2>6. CASE Baseline
    BY <1>0, <2>6 DEF Baseline, CaptureTypes, Settled, CaptureInv, Untouched
  <2> QED BY <1>1, <2>1, <2>2, <2>3, <2>4, <2>5, <2>6 DEF Opening
<1>2. CASE Reading
  <2>1. CASE BeginAttempt
    BY <1>0, <2>1, NothingRead DEF BeginAttempt, CaptureTypes
  <2>2. CASE Reader
    BY <1>0, <2>2, OneMoreRead
    DEF Reader, CaptureTypes, CaptureInv, NothingYet, Underway, InPass
  <2>3. CASE ReaderFails
    BY <1>0, <2>3 DEF ReaderFails, CaptureTypes, CaptureInv, NothingYet, Underway, InPass
  <2>4. CASE Detach
    BY <1>0, <2>4, AllRead, NothingRead DEF Detach, CaptureTypes
  <2>5. CASE DetachFails
    BY <1>0, <2>5 DEF DetachFails, CaptureTypes
  <2> QED BY <1>2, <2>1, <2>2, <2>3, <2>4, <2>5 DEF Reading
<1>3. CASE Comparing
  <2>1. CASE Restore
    BY <1>0, <2>1 DEF Restore, CaptureTypes, CaptureInv, NothingYet, Underway, InPass
  <2>2. CASE RestoreFails
    BY <1>0, <2>2 DEF RestoreFails, CaptureTypes
  <2>3. CASE Recapture
    BY <1>0, <2>3 DEF Recapture, CaptureTypes, Settled
  <2>4. CASE RecaptureFails
    BY <1>0, <2>4 DEF RecaptureFails, CaptureTypes
  <2> QED BY <1>3, <2>1, <2>2, <2>3, <2>4 DEF Comparing
<1>4. CASE Deciding
  <2>1. CASE PassFailed
    BY <1>0, <2>1, AbortTypes DEF PassFailed, GiveUp, CaptureTypes
  <2>2. CASE StartWorker
    BY <1>0, <2>2 DEF StartWorker, CaptureTypes
  <2>3. CASE StartWorkerFails
    BY <1>0, <2>3, AbortTypes DEF StartWorkerFails, CaptureTypes
  <2>4. CASE PassesRead
    BY <1>0, <2>4 DEF PassesRead, CaptureTypes
  <2> QED BY <1>4, <2>1, <2>2, <2>3, <2>4 DEF Deciding
<1>5. CASE Joining
  <2>1. CASE WorkerFailed
    BY <1>0, <2>1, AbortArtifactsTypes DEF WorkerFailed, CaptureTypes
  <2>2. CASE DeferredFailed
    BY <1>0, <2>2, AbortArtifactsTypes DEF DeferredFailed, CaptureTypes
  <2>3. CASE ReplayFails
    BY <1>0, <2>3, AbortArtifactsTypes DEF ReplayFails, CaptureTypes
  <2>4. CASE BuildSecond
    BY <1>0, <2>4 DEF BuildSecond, CaptureTypes
  <2>5. CASE BuildSecondFails
    BY <1>0, <2>5 DEF BuildSecondFails, CaptureTypes
  <2> QED BY <1>5, <2>1, <2>2, <2>3, <2>4, <2>5 DEF Joining
<1>6. CASE Closing
  <2>1. CASE AbortRetained
    BY <1>0, <2>1, AbortTypes DEF AbortRetained, CaptureTypes
  <2>2. CASE Differ
    BY <1>0, <2>2, AbortTypes DEF Differ, CaptureTypes
  <2>3. CASE Equal
    BY <1>0, <2>3 DEF Equal, CaptureTypes
  <2>4. CASE PublishFailsEarly
    BY <1>0, <2>4, AbortTypes DEF PublishFailsEarly, CaptureTypes
  <2>5. CASE PublishFailsLate
    <3>1. {prepared', owned', spoolRoot'} \subseteq BOOLEAN
      BY <1>0, <2>5, Zenon DEF PublishFailsLate, CaptureTypes
    <3> QED BY <1>0, <2>5, <3>1 DEF PublishFailsLate, CaptureTypes
  <2>6. CASE PublishGraph
    <3>1. {prepared', owned', spoolRoot'} \subseteq BOOLEAN
      BY <1>0, <2>6, Zenon DEF PublishGraph, CaptureTypes
    <3>2. /\ published' \in {None} \cup [1..Readers -> Contents]
          /\ result' = "Complete" /\ session' = "ended" /\ pc' = "cleanup" /\ spools' = {}
      BY <2>6 DEF PublishGraph, CaptureTypes, CaptureInv
    <3> QED BY <1>0, <2>6, <3>1, <3>2 DEF PublishGraph, CaptureTypes
  <2>7. CASE Cleanup
    <3>1. {prepared', owned', spoolRoot'} \subseteq BOOLEAN
      BY <1>0, <2>7, Zenon DEF Cleanup, CaptureTypes
    <3> QED BY <1>0, <2>7, <3>1 DEF Cleanup, CaptureTypes
  <2> QED BY <1>6, <2>1, <2>2, <2>3, <2>4, <2>5, <2>6, <2>7 DEF Closing
<1>7. CASE Others
  <2>1. CASE WorkerEnds
    BY <1>0, <2>1 DEF WorkerEnds, CaptureTypes
  <2>2. CASE EditDocument
    BY <1>0, <2>2, CaptureAssumption DEF EditDocument, CaptureTypes
  <2>3. CASE MoveCaret
    BY <1>0, <2>3 DEF MoveCaret, CaptureTypes
  <2>4. CASE RequestCancel
    BY <1>0, <2>4 DEF RequestCancel, CaptureTypes
  <2> QED BY <1>7, <2>1, <2>2, <2>3, <2>4 DEF Others
<1>8. CASE UNCHANGED captureVars
  BY <1>0, <1>8 DEF captureVars, CaptureTypes
<1> QED BY <1>1, <1>2, <1>3, <1>4, <1>5, <1>6, <1>7, <1>8
  DEF CaptureNext, Capture, Ended, Opening, Reading, Comparing, Deciding, Joining,
      Closing, Others

LEMMA UntouchedKept ==
    ASSUME CaptureInv, [CaptureNext]_captureVars
    PROVE  Untouched'
<1> USE DEF CaptureInv, Untouched, CaptureTypes
<1>1. CASE Opening
  BY <1>1, CaptureAssumption
  DEF Opening, Signal, SignalFails, Checkpoint, BeginSession, BaselineFails, Baseline,
      Abort, ResetSpools, Cancelled, Settled
<1>2. CASE Reading
  BY <1>2, CaptureAssumption
  DEF Reading, BeginAttempt, Reader, ReaderFails, Detach, DetachFails, Cancelled
<1>3. CASE Comparing
  BY <1>3, CaptureAssumption
  DEF Comparing, Restore, RestoreFails, Recapture, RecaptureFails, Settled
<1>4. CASE Deciding
  BY <1>4, CaptureAssumption
  DEF Deciding, PassFailed, StartWorker, StartWorkerFails, PassesRead, Abort, ResetSpools,
      GiveUp
<1>5. CASE Joining
  BY <1>5, CaptureAssumption
  DEF Joining, WorkerFailed, DeferredFailed, ReplayFails, BuildSecond, BuildSecondFails,
      AbortArtifacts, Joined, Replays
<1>6. CASE Closing
  BY <1>6, CaptureAssumption
  DEF Closing, AbortRetained, Differ, Equal, PublishFailsEarly, PublishFailsLate,
      PublishGraph, Cleanup, Abort, ResetSpools, Mismatch
<1>7. CASE Others
  BY <1>7, CaptureAssumption DEF Others, WorkerEnds, EditDocument, MoveCaret, RequestCancel
<1>8. CASE UNCHANGED captureVars
  BY <1>8 DEF captureVars
<1> QED BY <1>1, <1>2, <1>3, <1>4, <1>5, <1>6, <1>7, <1>8
  DEF CaptureNext, Capture, Ended, Opening, Reading, Comparing, Deciding, Joining,
      Closing, Others

LEMMA NothingYetKept ==
    ASSUME CaptureInv, [CaptureNext]_captureVars
    PROVE  NothingYet'
<1> USE DEF CaptureInv, NothingYet, Underway, InPass, CaptureTypes, Untouched, PassesInOrder
<1>1. CASE Opening
  BY <1>1, CaptureAssumption
  DEF Opening, Signal, SignalFails, Checkpoint, BeginSession, BaselineFails, Baseline,
      Abort, ResetSpools, Cancelled, Settled
<1>2. CASE Reading
  BY <1>2, CaptureAssumption
  DEF Reading, BeginAttempt, Reader, ReaderFails, Detach, DetachFails, Cancelled
<1>3. CASE Comparing
  BY <1>3, CaptureAssumption
  DEF Comparing, Restore, RestoreFails, Recapture, RecaptureFails, Settled
<1>4. CASE Deciding
  BY <1>4, CaptureAssumption
  DEF Deciding, PassFailed, StartWorker, StartWorkerFails, PassesRead, Abort, ResetSpools,
      GiveUp
<1>5. CASE Joining
  BY <1>5, CaptureAssumption
  DEF Joining, WorkerFailed, DeferredFailed, ReplayFails, BuildSecond, BuildSecondFails,
      AbortArtifacts, Joined, Replays
<1>6. CASE Closing
  BY <1>6, CaptureAssumption
  DEF Closing, AbortRetained, Differ, Equal, PublishFailsEarly, PublishFailsLate,
      PublishGraph, Cleanup, Abort, ResetSpools, Mismatch
<1>7. CASE Others
  BY <1>7, CaptureAssumption DEF Others, WorkerEnds, EditDocument, MoveCaret, RequestCancel
<1>8. CASE UNCHANGED captureVars
  BY <1>8 DEF captureVars
<1> QED BY <1>1, <1>2, <1>3, <1>4, <1>5, <1>6, <1>7, <1>8
  DEF CaptureNext, Capture, Ended, Opening, Reading, Comparing, Deciding, Joining,
      Closing, Others

LEMMA PassesInOrderKept ==
    ASSUME CaptureInv, [CaptureNext]_captureVars
    PROVE  PassesInOrder'
<1> USE DEF CaptureInv, PassesInOrder, InPass, CaptureTypes, Untouched
<1>1. CASE Opening
  <2>1. CASE Signal
    BY <2>1, CaptureAssumption DEF Signal
  <2>2. CASE SignalFails
    BY <2>2, CaptureAssumption DEF SignalFails
  <2>3. CASE Checkpoint
    BY <2>3, CaptureAssumption DEF Checkpoint
  <2>4. CASE BeginSession
    BY <2>4, CaptureAssumption DEF BeginSession
  <2>5. CASE BaselineFails
    BY <2>5, CaptureAssumption DEF BaselineFails, Abort, ResetSpools
  <2>6. CASE Baseline
    BY <2>6, CaptureAssumption DEF Baseline, Settled
  <2> QED BY <1>1, <2>1, <2>2, <2>3, <2>4, <2>5, <2>6 DEF Opening
<1>2. CASE Reading
  <2>1. CASE BeginAttempt
    BY <2>1, CaptureAssumption DEF BeginAttempt, Cancelled
  <2>2. CASE Reader
    BY <2>2, CaptureAssumption DEF Reader, Cancelled
  <2>3. CASE ReaderFails
    BY <2>3, CaptureAssumption DEF ReaderFails, Cancelled
  <2>4. CASE Detach
    BY <2>4, CaptureAssumption DEF Detach
  <2>5. CASE DetachFails
    BY <2>5, CaptureAssumption DEF DetachFails
  <2> QED BY <1>2, <2>1, <2>2, <2>3, <2>4, <2>5 DEF Reading
<1>3. CASE Comparing
  <2>1. CASE Restore
    BY <2>1, CaptureAssumption DEF Restore
  <2>2. CASE RestoreFails
    BY <2>2, CaptureAssumption DEF RestoreFails
  <2>3. CASE Recapture
    BY <2>3, CaptureAssumption DEF Recapture, Settled
  <2>4. CASE RecaptureFails
    BY <2>4, CaptureAssumption DEF RecaptureFails
  <2> QED BY <1>3, <2>1, <2>2, <2>3, <2>4 DEF Comparing
<1>4. CASE Deciding
  <2>1. CASE PassFailed
    <3>1. CASE pass = 0
      BY <2>1, <3>1 DEF PassFailed, GiveUp, Abort
    <3>2. CASE pass = 1
      <4>1. /\ pc' = "join" /\ deferred' = status /\ status # "Complete"
            /\ UNCHANGED <<pass, read, artifact, worker, storage>>
        BY <2>1, <3>2 DEF PassFailed, GiveUp
      <4> QED BY <2>1, <3>2, <4>1 DEF PassFailed
    <3> QED BY <3>1, <3>2
  <2>2. CASE StartWorker
    BY <2>2, CaptureAssumption DEF StartWorker
  <2>3. CASE StartWorkerFails
    BY <2>3, CaptureAssumption DEF StartWorkerFails, Abort, ResetSpools
  <2>4. CASE PassesRead
    BY <2>4, CaptureAssumption DEF PassesRead
  <2> QED BY <1>4, <2>1, <2>2, <2>3, <2>4 DEF Deciding
<1>5. CASE Joining
  <2>1. CASE WorkerFailed
    BY <2>1, CaptureAssumption DEF WorkerFailed, AbortArtifacts, Joined
  <2>2. CASE DeferredFailed
    BY <2>2, CaptureAssumption DEF DeferredFailed, AbortArtifacts, Joined
  <2>3. CASE ReplayFails
    BY <2>3, CaptureAssumption DEF ReplayFails, AbortArtifacts, Joined
  <2>4. CASE BuildSecond
    BY <2>4, CaptureAssumption DEF BuildSecond, Joined, Replays
  <2>5. CASE BuildSecondFails
    BY <2>5, CaptureAssumption DEF BuildSecondFails, Joined, Replays
  <2> QED BY <1>5, <2>1, <2>2, <2>3, <2>4, <2>5 DEF Joining
<1>6. CASE Closing
  <2>1. CASE AbortRetained
    BY <2>1, CaptureAssumption DEF AbortRetained, Abort, ResetSpools
  <2>2. CASE Differ
    BY <2>2, CaptureAssumption DEF Differ, Abort, ResetSpools, Mismatch
  <2>3. CASE Equal
    BY <2>3, CaptureAssumption DEF Equal, Mismatch
  <2>4. CASE PublishFailsEarly
    BY <2>4, CaptureAssumption DEF PublishFailsEarly, Abort, ResetSpools
  <2>5. CASE PublishFailsLate
    BY <2>5, CaptureAssumption DEF PublishFailsLate
  <2>6. CASE PublishGraph
    BY <2>6, CaptureAssumption DEF PublishGraph
  <2>7. CASE Cleanup
    BY <2>7, CaptureAssumption DEF Cleanup
  <2> QED BY <1>6, <2>1, <2>2, <2>3, <2>4, <2>5, <2>6, <2>7 DEF Closing
<1>7. CASE Others
  <2>1. CASE WorkerEnds
    BY <2>1, CaptureAssumption DEF WorkerEnds
  <2>2. CASE EditDocument
    BY <2>2, CaptureAssumption DEF EditDocument
  <2>3. CASE MoveCaret
    BY <2>3, CaptureAssumption DEF MoveCaret
  <2>4. CASE RequestCancel
    BY <2>4, CaptureAssumption DEF RequestCancel
  <2> QED BY <1>7, <2>1, <2>2, <2>3, <2>4 DEF Others
<1>8. CASE UNCHANGED captureVars
  BY <1>8 DEF captureVars
<1> QED BY <1>1, <1>2, <1>3, <1>4, <1>5, <1>6, <1>7, <1>8
  DEF CaptureNext, Capture, Ended, Opening, Reading, Comparing, Deciding, Joining,
      Closing, Others

LEMMA AbortOver ==
    ASSUME CaptureTypes, NEW s \in Statuses \ {"Complete"}, Abort(s), worker # "building",
           published = None, prepared => 1 \in spools
    PROVE  Over'
<1>1. /\ pc' = "cleanup" /\ spools' = {} /\ session' = "ended"
      /\ UNCHANGED <<worker, published>>
  BY DEF Abort, ResetSpools
<1>2. /\ result' # "none" /\ result' # "Complete"
      /\ prepared' => result' = "CleanupFailed"
  <2>1. s # "none" /\ s # "Complete"
    BY DEF Statuses
  <2>2. prepared' => prepared
    BY DEF Abort, ResetSpools
  <2> QED BY <2>1, <2>2 DEF Abort
<1> QED BY <1>1, <1>2 DEF Over

LEMMA OverKept ==
    ASSUME CaptureInv, [CaptureNext]_captureVars
    PROVE  Over'
<1> USE DEF CaptureInv, Over, CaptureTypes, Untouched, NothingYet, Underway, InPass,
            PassesInOrder
<1>1. CASE Opening
  BY <1>1, CaptureAssumption
  DEF Opening, Signal, SignalFails, Checkpoint, BeginSession, BaselineFails, Baseline,
      Abort, ResetSpools, Cancelled, Settled
<1>2. CASE Reading
  BY <1>2, CaptureAssumption
  DEF Reading, BeginAttempt, Reader, ReaderFails, Detach, DetachFails, Cancelled
<1>3. CASE Comparing
  BY <1>3, CaptureAssumption
  DEF Comparing, Restore, RestoreFails, Recapture, RecaptureFails, Settled
<1>4. CASE Deciding
  <2>1. CASE PassFailed
    <3>1. CASE pass = 0
      <4>1. /\ Abort(status) /\ status \in Statuses \ {"Complete"} /\ worker # "building"
            /\ published = None /\ (prepared => 1 \in spools)
        BY <2>1, <3>1 DEF PassFailed, GiveUp
      <4> QED BY <4>1, AbortOver
    <3>2. CASE pass = 1
      BY <2>1, <3>2 DEF PassFailed, GiveUp
    <3> QED BY <3>1, <3>2
  <2>2. CASE StartWorker
    BY <2>2, CaptureAssumption DEF StartWorker
  <2>3. CASE StartWorkerFails
    BY <2>3, CaptureAssumption DEF StartWorkerFails, Abort, ResetSpools
  <2>4. CASE PassesRead
    BY <2>4, CaptureAssumption DEF PassesRead
  <2> QED BY <1>4, <2>1, <2>2, <2>3, <2>4 DEF Deciding
<1>5. CASE Joining
  BY <1>5, CaptureAssumption
  DEF Joining, WorkerFailed, DeferredFailed, ReplayFails, BuildSecond, BuildSecondFails,
      AbortArtifacts, Joined, Replays
<1>6. CASE Closing
  <2>1. CASE AbortRetained
    <3>1. /\ Abort(status) /\ status \in Statuses \ {"Complete"} /\ worker # "building"
          /\ published = None /\ (prepared => 1 \in spools)
      BY <2>1 DEF AbortRetained
    <3> QED BY <3>1, AbortOver
  <2>2. CASE Differ
    BY <2>2, CaptureAssumption DEF Differ, Abort, ResetSpools, Mismatch
  <2>3. CASE Equal
    BY <2>3, CaptureAssumption DEF Equal, Mismatch
  <2>4. CASE PublishFailsEarly
    BY <2>4, CaptureAssumption DEF PublishFailsEarly, Abort, ResetSpools
  <2>5. CASE PublishFailsLate
    BY <2>5, CaptureAssumption DEF PublishFailsLate
  <2>6. CASE PublishGraph
    BY <2>6, CaptureAssumption DEF PublishGraph
  <2>7. CASE Cleanup
    BY <2>7, CaptureAssumption DEF Cleanup
  <2> QED BY <1>6, <2>1, <2>2, <2>3, <2>4, <2>5, <2>6, <2>7 DEF Closing
<1>7. CASE Others
  BY <1>7, CaptureAssumption DEF Others, WorkerEnds, EditDocument, MoveCaret, RequestCancel
<1>8. CASE UNCHANGED captureVars
  BY <1>8 DEF captureVars
<1> QED BY <1>1, <1>2, <1>3, <1>4, <1>5, <1>6, <1>7, <1>8
  DEF CaptureNext, Capture, Ended, Opening, Reading, Comparing, Deciding, Joining,
      Closing, Others

LEMMA CancelledEarlyKept ==
    ASSUME CaptureInv, [CaptureNext]_captureVars
    PROVE  CancelledEarly'
<1> USE DEF CaptureInv, CancelledEarly, CaptureTypes, Untouched, NothingYet, Underway,
            InPass, PassesInOrder, Over
<1>1. CASE Opening
  BY <1>1, CaptureAssumption
  DEF Opening, Signal, SignalFails, Checkpoint, BeginSession, BaselineFails, Baseline,
      Abort, ResetSpools, Cancelled, Settled
<1>2. CASE Reading
  BY <1>2, CaptureAssumption
  DEF Reading, BeginAttempt, Reader, ReaderFails, Detach, DetachFails, Cancelled
<1>3. CASE Comparing
  BY <1>3, CaptureAssumption
  DEF Comparing, Restore, RestoreFails, Recapture, RecaptureFails, Settled
<1>4. CASE Deciding
  BY <1>4, CaptureAssumption
  DEF Deciding, PassFailed, StartWorker, StartWorkerFails, PassesRead, Abort, ResetSpools,
      GiveUp
<1>5. CASE Joining
  BY <1>5, CaptureAssumption
  DEF Joining, WorkerFailed, DeferredFailed, ReplayFails, BuildSecond, BuildSecondFails,
      AbortArtifacts, Joined, Replays
<1>6. CASE Closing
  BY <1>6, CaptureAssumption
  DEF Closing, AbortRetained, Differ, Equal, PublishFailsEarly, PublishFailsLate,
      PublishGraph, Cleanup, Abort, ResetSpools, Mismatch
<1>7. CASE Others
  BY <1>7, CaptureAssumption DEF Others, WorkerEnds, EditDocument, MoveCaret, RequestCancel
<1>8. CASE UNCHANGED captureVars
  BY <1>8 DEF captureVars
<1> QED BY <1>1, <1>2, <1>3, <1>4, <1>5, <1>6, <1>7, <1>8
  DEF CaptureNext, Capture, Ended, Opening, Reading, Comparing, Deciding, Joining,
      Closing, Others

LEMMA CaretTrackedKept ==
    ASSUME CaptureInv, [CaptureNext]_captureVars
    PROVE  CaretTracked'
<1> USE DEF CaptureInv, CaretTracked, CaptureTypes, Untouched, NothingYet, Underway, InPass,
            PassesInOrder, Over, CancelledEarly
<1>1. CASE Opening
  <2>1. CASE Signal
    BY <2>1, CaptureAssumption DEF Signal
  <2>2. CASE SignalFails
    BY <2>2, CaptureAssumption DEF SignalFails
  <2>3. CASE Checkpoint
    BY <2>3, CaptureAssumption DEF Checkpoint
  <2>4. CASE BeginSession
    BY <2>4, CaptureAssumption DEF BeginSession
  <2>5. CASE BaselineFails
    BY <2>5, CaptureAssumption DEF BaselineFails, Abort, ResetSpools
  <2>6. CASE Baseline
    BY <2>6, CaptureAssumption DEF Baseline, Settled
  <2> QED BY <1>1, <2>1, <2>2, <2>3, <2>4, <2>5, <2>6 DEF Opening
<1>2. CASE Reading
  BY <1>2, CaptureAssumption
  DEF Reading, BeginAttempt, Reader, ReaderFails, Detach, DetachFails, Cancelled
<1>3. CASE Comparing
  BY <1>3, CaptureAssumption
  DEF Comparing, Restore, RestoreFails, Recapture, RecaptureFails, Settled
<1>4. CASE Deciding
  BY <1>4, CaptureAssumption
  DEF Deciding, PassFailed, StartWorker, StartWorkerFails, PassesRead, Abort, ResetSpools,
      GiveUp
<1>5. CASE Joining
  BY <1>5, CaptureAssumption
  DEF Joining, WorkerFailed, DeferredFailed, ReplayFails, BuildSecond, BuildSecondFails,
      AbortArtifacts, Joined, Replays
<1>6. CASE Closing
  BY <1>6, CaptureAssumption
  DEF Closing, AbortRetained, Differ, Equal, PublishFailsEarly, PublishFailsLate,
      PublishGraph, Cleanup, Abort, ResetSpools, Mismatch
<1>7. CASE Others
  BY <1>7, CaptureAssumption DEF Others, WorkerEnds, EditDocument, MoveCaret, RequestCancel
<1>8. CASE UNCHANGED captureVars
  BY <1>8 DEF captureVars
<1> QED BY <1>1, <1>2, <1>3, <1>4, <1>5, <1>6, <1>7, <1>8
  DEF CaptureNext, Capture, Ended, Opening, Reading, Comparing, Deciding, Joining,
      Closing, Others

LEMMA EditsCountedKept ==
    ASSUME CaptureInv, [CaptureNext]_captureVars
    PROVE  EditsCounted'
<1> USE DEF CaptureInv, EditsCounted, Underway, InPass, Before, Torn, CaptureTypes,
            Untouched, NothingYet, PassesInOrder, Over
<1>1. CASE Opening
  BY <1>1, CaptureAssumption
  DEF Opening, Signal, SignalFails, Checkpoint, BeginSession, BaselineFails, Baseline,
      Abort, ResetSpools, Cancelled, Settled
<1>2. CASE Reading
  <2>1. CASE BeginAttempt
    BY <2>1, CaptureAssumption DEF BeginAttempt, Cancelled
  <2>2. CASE Reader
    BY <2>2, CaptureAssumption DEF Reader, Cancelled
  <2>3. CASE ReaderFails
    BY <2>3, CaptureAssumption DEF ReaderFails, Cancelled
  <2>4. CASE Detach
    BY <2>4, CaptureAssumption DEF Detach
  <2>5. CASE DetachFails
    BY <2>5, CaptureAssumption DEF DetachFails
  <2> QED BY <1>2, <2>1, <2>2, <2>3, <2>4, <2>5 DEF Reading
<1>3. CASE Comparing
  BY <1>3, CaptureAssumption
  DEF Comparing, Restore, RestoreFails, Recapture, RecaptureFails, Settled
<1>4. CASE Deciding
  BY <1>4, CaptureAssumption
  DEF Deciding, PassFailed, StartWorker, StartWorkerFails, PassesRead, Abort, ResetSpools,
      GiveUp
<1>5. CASE Joining
  BY <1>5, CaptureAssumption
  DEF Joining, WorkerFailed, DeferredFailed, ReplayFails, BuildSecond, BuildSecondFails,
      AbortArtifacts, Joined, Replays
<1>6. CASE Closing
  BY <1>6, CaptureAssumption
  DEF Closing, AbortRetained, Differ, Equal, PublishFailsEarly, PublishFailsLate,
      PublishGraph, Cleanup, Abort, ResetSpools, Mismatch
<1>7. CASE Others
  BY <1>7, CaptureAssumption DEF Others, WorkerEnds, EditDocument, MoveCaret, RequestCancel
<1>8. CASE UNCHANGED captureVars
  BY <1>8 DEF captureVars
<1> QED BY <1>1, <1>2, <1>3, <1>4, <1>5, <1>6, <1>7, <1>8
  DEF CaptureNext, Capture, Ended, Opening, Reading, Comparing, Deciding, Joining,
      Closing, Others

LEMMA TornPublishedKept ==
    ASSUME CaptureInv, [CaptureNext]_captureVars
    PROVE  TornPublished'
<1>1. CASE PublishGraph
  BY <1>1 DEF CaptureInv, CaptureTypes, EditsCounted, NothingYet, PassesInOrder, Underway,
              InPass, Before, Torn, TornPublished, PublishGraph
<1>2. CASE ~PublishGraph
  <2>1. published' = published
    BY <1>2 DEF CaptureNext, Capture, Ended, captureVars, Signal, SignalFails, Checkpoint,
                BeginSession, BaselineFails, Baseline, BeginAttempt, Reader, ReaderFails,
                Detach, DetachFails, Restore, RestoreFails, Recapture, RecaptureFails,
                PassFailed, GiveUp, StartWorker, StartWorkerFails, PassesRead, WorkerFailed,
                DeferredFailed, ReplayFails, AbortArtifacts, BuildSecond, BuildSecondFails,
                AbortRetained, Differ, Equal, PublishFailsEarly, PublishFailsLate, Cleanup,
                Abort, WorkerEnds, EditDocument, MoveCaret, RequestCancel
  <2>2. edits' \in Nat /\ edits' >= edits
    BY CaptureAssumption
    DEF CaptureInv, CaptureTypes, CaptureNext, Capture, Ended, captureVars, Signal,
        SignalFails, Checkpoint, BeginSession, BaselineFails, Baseline, BeginAttempt, Reader,
        ReaderFails, Detach, DetachFails, Restore, RestoreFails, Recapture, RecaptureFails,
        PassFailed, GiveUp, StartWorker, StartWorkerFails, PassesRead, WorkerFailed,
        DeferredFailed, ReplayFails, AbortArtifacts, BuildSecond, BuildSecondFails,
        AbortRetained, Differ, Equal, PublishFailsEarly, PublishFailsLate, PublishGraph,
        Cleanup, Abort, WorkerEnds, EditDocument, MoveCaret, RequestCancel
  <2>3. CASE Baseline
    <3>1. published = None
      BY <2>3 DEF Baseline, CaptureInv, Untouched
    <3> QED BY <2>1, <3>1 DEF TornPublished
  <2>4. CASE ~Baseline
    <3>1. baseline' = baseline
      BY <2>4
      DEF CaptureNext, Capture, Ended, captureVars, Signal, SignalFails, Checkpoint,
          BeginSession, BaselineFails, BeginAttempt, Reader, ReaderFails, Detach, DetachFails,
          Restore, RestoreFails, Recapture, RecaptureFails, PassFailed, GiveUp, StartWorker,
          StartWorkerFails, PassesRead, WorkerFailed, DeferredFailed, ReplayFails,
          AbortArtifacts, BuildSecond, BuildSecondFails, AbortRetained, Differ, Equal,
          PublishFailsEarly, PublishFailsLate, PublishGraph, Cleanup, Abort, WorkerEnds,
          EditDocument, MoveCaret, RequestCancel
    <3> QED BY <2>1, <2>2, <3>1 DEF TornPublished, Torn, CaptureInv, CaptureTypes
  <2> QED BY <2>3, <2>4
<1> QED BY <1>1, <1>2

\* The capture stays where its types and its books say, whatever fails, and whoever
\* edits the document, moves the caret or asks for a cancellation.
THEOREM CaptureInductive == CaptureSpec => []CaptureInv
<1>1. CaptureInit => CaptureInv
  <2> SUFFICES ASSUME CaptureInit PROVE CaptureInv
    OBVIOUS
  <2>1. CaptureTypes
    BY CaptureAssumption, NothingRead DEF CaptureInit, CaptureTypes, Statuses
  <2>2. EditsCounted /\ TornPublished /\ NothingYet /\ PassesInOrder
    BY DEF CaptureInit, EditsCounted, TornPublished, NothingYet, PassesInOrder, Underway,
           InPass
  <2> QED BY <2>1, <2>2 DEF CaptureInit, CaptureInv, Untouched, Over, CancelledEarly,
                            CaretTracked
<1>2. CaptureInv /\ [CaptureNext]_captureVars => CaptureInv'
  <2> SUFFICES ASSUME CaptureInv, [CaptureNext]_captureVars PROVE CaptureInv'
    OBVIOUS
  <2>1. CaptureTypes' /\ Untouched' /\ NothingYet' /\ PassesInOrder' /\ Over'
    BY CaptureTypesKept, UntouchedKept, NothingYetKept, PassesInOrderKept, OverKept
  <2>2. CancelledEarly' /\ CaretTracked' /\ EditsCounted' /\ TornPublished'
    BY CancelledEarlyKept, CaretTrackedKept, EditsCountedKept, TornPublishedKept
  <2> QED BY <2>1, <2>2 DEF CaptureInv
<1> QED BY <1>1, <1>2, PTL DEF CaptureSpec

\* However a capture ends - complete, cancelled, refused or failed at any call, its thread
\* included - it gives the caret back or says that it could not, does not end its session
\* under the thread, and leaves nothing behind on the disk that its status does not tell.
THEOREM CaptureTidyHolds == CaptureSpec => []CaptureTidy
<1>1. CaptureInv => CaptureTidy
  <2> SUFFICES ASSUME CaptureInv PROVE CaptureTidy
    OBVIOUS
  <2> USE DEF CaptureInv
  <2>1. CaretGivenBack
    BY DEF CaretTracked, CaretGivenBack, CaptureTypes
  <2>2. WorkerOutlived
    BY DEF Untouched, NothingYet, Underway, InPass, Over, CaptureTypes, WorkerOutlived
  <2>3. NothingLeftBehind
    BY DEF Over, NothingLeftBehind
  <2>4. CancelledTouchesNothing
    BY DEF CancelledEarly, CancelledTouchesNothing
  <2> QED BY <2>1, <2>2, <2>3, <2>4 DEF CaptureTidy
<1> QED BY <1>1, CaptureInductive, PTL

\* A published graph is what every reader of both passes saw, told as a success and only
\* then; to have it differ from the document at the baseline takes four edits, two in each
\* pass, however many readers there are.
THEOREM GraphIsSoundHolds == CaptureSpec => []GraphIsSound
<1>1. CaptureInv => GraphIsSound
  <2> SUFFICES ASSUME CaptureInv PROVE GraphIsSound
    OBVIOUS
  <2> USE DEF CaptureInv
  <2>1. TornTakesFour
    <3> SUFFICES ASSUME published # None, edits < 4, NEW r \in 1..Readers
                 PROVE  published[r] = baseline[1]
      BY DEF TornTakesFour
    <3>1. DOMAIN published = 1..Readers /\ edits \in Nat
      BY DEF CaptureTypes
    <3> QED BY <3>1 DEF TornPublished, Torn
  <2>2. published # None => pc \in {"cleanup", "ended"}
    BY DEF Untouched, NothingYet, Underway, InPass, CaptureTypes
  <2>3. PublishedIsComplete /\ PublishedIsProved
    BY <2>2 DEF Over, PublishedIsComplete, PublishedIsProved
  <2> QED BY <2>1, <2>3 DEF GraphIsSound
<1> QED BY <1>1, CaptureInductive, PTL
=============================================================================
