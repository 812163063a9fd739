---------------------------- MODULE GraphRegistry ----------------------------
(***************************************************************************)
(* The registry behind the graph protocol of the native bridge             *)
(* (DocumentGraphProtocol.cpp): the capability sessions, graph cursors and *)
(* patch uploads of all documents, and the directory under %TEMP% in which *)
(* the captured graphs and the uploaded patches lie.                       *)
(*                                                                         *)
(* A route is a document in a window.  It has an automation object, its    *)
(* owner; a document that is published again has a second one while        *)
(* clients still hold the first.  Every handler runs to its end under the  *)
(* lock of the registry, except GraphOpen: the capture of the document     *)
(* runs without the lock and lets messages in, so the other handlers may   *)
(* run while it is under way.  The process can end at any time.            *)
(***************************************************************************)
EXTENDS Integers, Sequences, FiniteSets, SequencesExt

CONSTANTS
  Routes,      \* documents in windows
  Sessions,    \* document sessions of the clients
  CursorIds,   \* identifiers of cursors and of the directories of their graphs
  UploadIds,   \* identifiers of patch uploads
  Requests,    \* sets of capabilities a client asks for
  Declared,    \* the bytes whose digest a patch is declared with
  MaxOwners,   \* bound: automation objects of one route
  MaxVersion,  \* bound: versions of a document
  MaxSeq,      \* bound: requests of one upload
  MaxFaults    \* bound: failed file operations and lost replies

ASSUME RegistryAssumption ==
  /\ MaxOwners \in Nat /\ MaxVersion \in Nat \ {0}
  /\ MaxSeq \in Nat /\ MaxFaults \in Nat
  /\ Declared \in Seq(Range(Declared)) /\ Len(Declared) > 0

VARIABLES
  running,   \* the bridge is loaded and its registry in use
  owners,    \* automation objects of each route
  version,   \* the version of the document of each route
  caps,      \* capabilitySessions_
  cursors,   \* cursors_
  uploads,   \* uploads_
  opening,   \* the GraphOpen whose capture is under way
  dir,       \* root_ exists
  roots,     \* directories of graphs in it, with the version published there
  files,     \* files of uploads in it
  faults

memory == <<owners, caps, cursors, uploads, opening>>
disk == <<dir, roots, files>>
vars == <<running, version, memory, disk, faults>>

Absent == -1
Unpublished == 0
Idle == [active |-> FALSE]

Init ==
  /\ running = TRUE
  /\ owners = [r \in Routes |-> 0]
  /\ version = [r \in Routes |-> 1]
  /\ caps = {} /\ cursors = {} /\ uploads = {}
  /\ opening = Idle
  /\ dir = FALSE /\ roots = [c \in CursorIds |-> Absent] /\ files = {}
  /\ faults = 0

Fails == faults < MaxFaults /\ faults' = faults + 1

(***************************************************************************)
(* RemoveStorageIfIdle with these cursors, uploads, graphs and files: an   *)
(* idle registry removes root_ and everything in it, except what a capture *)
(* in progress holds open.                                                 *)
(***************************************************************************)
RemoveStorageIfIdle(cs, us, rs, fs) ==
  IF cs = {} /\ us = {}
  THEN /\ \E held \in SUBSET {c \in CursorIds : opening'.active /\ opening'.root = c /\ rs[c] # Absent} :
            /\ roots' = [c \in CursorIds |-> IF c \in held THEN rs[c] ELSE Absent]
            /\ dir' = (held # {})
       /\ files' = {}
  ELSE roots' = rs /\ files' = fs /\ UNCHANGED dir

-----------------------------------------------------------------------------
(* Owners and sessions. *)

Publish(r) ==
  /\ running
  /\ owners[r] < MaxOwners
  /\ owners' = [owners EXCEPT ![r] = @ + 1]
  /\ UNCHANGED <<running, version, caps, cursors, uploads, opening, disk, faults>>

\* A call in progress holds its automation object.
Held(r) == IF opening.active /\ opening.route = r THEN 1 ELSE 0

\* Mutant: the sessions of the route stay open.
InvalidateRouteSessions(r) ==
  LET ended == {u \in uploads : u.route = r}
  IN /\ uploads' = uploads \ ended
     /\ cursors' = {c \in cursors : c.route # r}
     /\ UNCHANGED caps
     /\ opening' = IF opening.active /\ opening.route = r
                   THEN [opening EXCEPT !.orphan = TRUE] ELSE opening
     /\ RemoveStorageIfIdle(cursors', uploads', roots, files \ {u.id : u \in ended})

\* Mutant: the cursors of the route stay.
InvalidateRouteCursors(r) ==
  LET ended == {u \in uploads : u.route = r}
  IN /\ uploads' = uploads \ ended
     /\ UNCHANGED cursors
     /\ caps' = {s \in caps : s.route # r}
     /\ opening' = IF opening.active /\ opening.route = r
                   THEN [opening EXCEPT !.orphan = TRUE] ELSE opening
     /\ RemoveStorageIfIdle(cursors', uploads', roots, files \ {u.id : u \in ended})

(***************************************************************************)
(* The destruction of an automation object invalidates its route.  The     *)
(* directories are removed while the cursors still hold their files, so    *)
(* they stay until root_ goes.                                             *)
(***************************************************************************)
InvalidateRoute(r) ==
  LET ended == {u \in uploads : u.route = r}
  IN /\ uploads' = uploads \ ended
     /\ cursors' = {c \in cursors : c.route # r}
     /\ caps' = {s \in caps : s.route # r}
     /\ opening' = IF opening.active /\ opening.route = r
                   THEN [opening EXCEPT !.orphan = TRUE] ELSE opening
     /\ RemoveStorageIfIdle(cursors', uploads', roots, files \ {u.id : u \in ended})

DestroyOwner(r) ==
  /\ running
  /\ owners[r] > Held(r)
  /\ owners' = [owners EXCEPT ![r] = @ - 1]
  /\ InvalidateRoute(r)
  /\ UNCHANGED <<running, version, faults>>

\* Mutant: a session may be open on two routes.
NegotiateTwice(s, r, bits) ==
  /\ running /\ owners[r] > 0
  /\ caps' = caps \cup {[id |-> s, route |-> r, bits |-> bits]}
  /\ UNCHANGED <<running, version, owners, cursors, uploads, opening, disk, faults>>

NegotiateCapabilities(s, r, bits) ==
  /\ running /\ owners[r] > 0
  /\ \A other \in caps : other.id # s
  /\ caps' = caps \cup {[id |-> s, route |-> r, bits |-> bits]}
  /\ UNCHANGED <<running, version, owners, cursors, uploads, opening, disk, faults>>

Negotiated(s, r, bit) ==
  \E cap \in caps : cap.id = s /\ cap.route = r /\ bit \in cap.bits

-----------------------------------------------------------------------------
(* Cursors. *)

\* An identifier is new: nothing of that name is registered or on disk.
Fresh(c) == /\ roots[c] = Absent
            /\ \A other \in cursors : other.id # c
            /\ opening.active => opening.root # c

Reusable(s, r, expected) ==
  {c \in cursors : c.session = s /\ c.route = r /\ c.version = expected}

Cursor(c, s, r, root, v, orphan) ==
  [id |-> c, session |-> s, route |-> r, root |-> root, version |-> v, orphan |-> orphan]

CanOpen(s, r, c) ==
  /\ running /\ owners[r] > 0 /\ Negotiated(s, r, "read") /\ Fresh(c)

\* The graph of a cursor of the same session, route and version is read again.
GraphOpenReused(s, r, c, expected) ==
  /\ CanOpen(s, r, c)
  /\ \E shared \in Reusable(s, r, expected) :
       /\ roots[shared.root] = expected
       /\ cursors' = cursors \cup {Cursor(c, s, r, shared.root, roots[shared.root], FALSE)}
  /\ dir' = TRUE
  /\ UNCHANGED <<running, version, owners, caps, uploads, opening, roots, files, faults>>

\* A client expects a version, or none (0).
GraphOpenFresh(s, r, c, expected) ==
  /\ CanOpen(s, r, c)
  /\ ~opening.active
  /\ Reusable(s, r, expected) = {}
  /\ dir' = TRUE
  /\ roots' = [roots EXCEPT ![c] = Unpublished]
  /\ opening' = [active |-> TRUE, root |-> c, session |-> s, route |-> r,
                 expected |-> expected, orphan |-> FALSE]
  /\ UNCHANGED <<running, version, owners, caps, cursors, uploads, files, faults>>

\* Mutant: the version of the capture is not compared with the expected one.
GraphOpenPublishesExpected ==
  /\ running /\ opening.active
  /\ roots[opening.root] = Unpublished
  /\ LET v == version[opening.route]
         claimed == IF opening.expected = 0 THEN v ELSE opening.expected
     IN /\ roots' = [roots EXCEPT ![opening.root] = v]
        /\ cursors' = cursors \cup {Cursor(opening.root, opening.session, opening.route,
                                           opening.root, claimed, opening.orphan)}
  /\ opening' = Idle
  /\ UNCHANGED <<running, version, owners, caps, uploads, dir, files, faults>>

\* The capture is published and has the version the client expects.
GraphOpenPublishes ==
  /\ running /\ opening.active
  /\ roots[opening.root] = Unpublished
  /\ LET v == version[opening.route]
     IN /\ opening.expected \in {0, v}
        /\ roots' = [roots EXCEPT ![opening.root] = v]
        /\ cursors' = cursors \cup {Cursor(opening.root, opening.session, opening.route,
                                           opening.root, v, opening.orphan)}
  /\ opening' = Idle
  /\ UNCHANGED <<running, version, owners, caps, uploads, dir, files, faults>>

\* The capture fails or finds another version: StorageGuard.
GraphOpenFails ==
  /\ running /\ opening.active
  /\ opening' = Idle
  /\ RemoveStorageIfIdle(cursors, uploads, [roots EXCEPT ![opening.root] = Absent], files)
  /\ UNCHANGED <<running, version, owners, caps, cursors, uploads, faults>>

\* Mutant: the graph goes with the first of the cursors that share it.
GraphCloseAlone(c) ==
  /\ running /\ owners[c.route] > 0
  /\ Negotiated(c.session, c.route, "read")
  /\ cursors' = cursors \ {c}
  /\ UNCHANGED opening
  /\ RemoveStorageIfIdle(cursors', uploads, [roots EXCEPT ![c.root] = Absent], files)
  /\ UNCHANGED <<running, version, owners, caps, uploads, faults>>

\* GraphClose and GraphCancel.
GraphClose(c) ==
  /\ running /\ owners[c.route] > 0
  /\ Negotiated(c.session, c.route, "read")
  /\ cursors' = cursors \ {c}
  /\ UNCHANGED opening
  /\ LET referenced == \E other \in cursors' : other.root = c.root
     IN RemoveStorageIfIdle(cursors', uploads,
          IF referenced THEN roots ELSE [roots EXCEPT ![c.root] = Absent], files)
  /\ UNCHANGED <<running, version, owners, caps, uploads, faults>>

-----------------------------------------------------------------------------
(***************************************************************************)
(* Uploads.  "told" is the sequence number the client goes on with: it     *)
(* counts the answers it has got.  A request with another one is refused.  *)
(***************************************************************************)
PatchBegin(u, s, r, v) ==
  /\ running /\ owners[r] > 0
  /\ u \notin files /\ \A other \in uploads : other.id # u
  /\ uploads' = uploads \cup
       {[id |-> u, session |-> s, route |-> r, version |-> v, bytes |-> <<>>, accepted |-> 0,
         seq |-> 1, told |-> 1, state |-> "Open"]}
  /\ files' = files \cup {u}
  /\ dir' = TRUE
  /\ UNCHANGED <<running, version, owners, caps, cursors, opening, roots, faults>>

Changed(u, new) ==
  /\ uploads' = (uploads \ {u}) \cup {new}
  /\ UNCHANGED <<running, version, owners, caps, cursors, opening, disk>>

InStep(u) == running /\ owners[u.route] > 0 /\ u.told = u.seq

PatchChunk(u, length) ==
  /\ InStep(u) /\ u.seq < MaxSeq /\ u.state = "Open"
  /\ length <= Len(Declared) - u.accepted
  /\ length = 0 => u.accepted = Len(Declared)
  /\ LET payload == SubSeq(Declared, u.accepted + 1, u.accepted + length)
         stored  == [u EXCEPT !.bytes = @ \o payload, !.accepted = @ + length, !.seq = @ + 1]
     IN \/ /\ Changed(u, [stored EXCEPT !.told = @ + 1])
           /\ UNCHANGED faults
        \* the reply is lost
        \/ /\ Fails
           /\ Changed(u, stored)
        \* the write fails, and part of the payload may be in the file
        \/ /\ Fails
           /\ \E torn \in 0..length :
                Changed(u, [u EXCEPT !.bytes = @ \o SubSeq(payload, 1, torn)])

\* Mutant: the declared digest is taken for the one of the file.
PatchDigestDeclared(u) == IF u.accepted = Len(Declared) THEN Declared ELSE u.bytes

\* PatchDigestFile: the digest of the bytes that were accepted.
PatchDigest(u) == SubSeq(u.bytes, 1, u.accepted)

\* Mutant: an upload can be sealed again.
PatchCommitAgain(u) ==
  /\ InStep(u) /\ u.seq < MaxSeq
  /\ u.accepted = Len(Declared)
  /\ PatchDigest(u) = Declared
  /\ Changed(u, [u EXCEPT !.state = "Sealed", !.seq = @ + 1, !.told = @ + 1])
  /\ UNCHANGED faults

PatchCommit(u) ==
  /\ InStep(u) /\ u.seq < MaxSeq /\ u.state = "Open"
  /\ u.accepted = Len(Declared)
  /\ PatchDigest(u) = Declared
  /\ \/ /\ Changed(u, [u EXCEPT !.state = "Sealed", !.seq = @ + 1, !.told = @ + 1])
        /\ UNCHANGED faults
     \* the reply is lost
     \/ /\ Fails
        /\ Changed(u, [u EXCEPT !.state = "Sealed", !.seq = @ + 1])
     \* the file cannot be renamed: the upload is open again, the chain moved
     \/ /\ Fails
        /\ Changed(u, [u EXCEPT !.seq = @ + 1])

PatchValidate(u, expected) ==
  /\ running /\ owners[u.route] > 0
  /\ Negotiated(u.session, u.route, "validate")
  /\ u.state = "Sealed"
  /\ expected = u.version
  /\ Changed(u, [u EXCEPT !.state = "Validated"])
  /\ UNCHANGED faults

\* Mutant: an idle registry keeps its directory.
DiscardLeaves(u) ==
  /\ uploads' = uploads \ {u}
  /\ files' = files \ {u.id}
  /\ UNCHANGED <<running, version, owners, caps, cursors, opening, dir, roots, faults>>

Discard(u) ==
  /\ uploads' = uploads \ {u}
  /\ UNCHANGED opening
  /\ RemoveStorageIfIdle(cursors, uploads', roots, files \ {u.id})
  /\ UNCHANGED <<running, version, owners, caps, cursors, faults>>

PatchAbort(u) == InStep(u) /\ Discard(u)

\* A request that comes through the automation object of another route.
RouteChanged(u, r) ==
  /\ running /\ owners[r] > 0 /\ r # u.route
  /\ Discard(u)

-----------------------------------------------------------------------------
(* The document is edited. *)
Edit(r) ==
  /\ version[r] < MaxVersion
  /\ version' = [version EXCEPT ![r] = @ + 1]
  /\ UNCHANGED <<running, memory, disk, faults>>

\* The process ends; what is on disk stays.
Crash ==
  /\ running
  /\ running' = FALSE
  /\ owners' = [r \in Routes |-> 0]
  /\ caps' = {} /\ cursors' = {} /\ uploads' = {} /\ opening' = Idle
  /\ UNCHANGED <<version, disk, faults>>

\* The registry of the next process starts with an empty directory.
StartupCleanup ==
  /\ ~running
  /\ running' = TRUE
  /\ dir' = FALSE /\ roots' = [c \in CursorIds |-> Absent] /\ files' = {}
  /\ UNCHANGED <<version, memory, faults>>

Next ==
  \/ \E r \in Routes : Publish(r) \/ DestroyOwner(r) \/ Edit(r)
  \/ \E s \in Sessions, r \in Routes, bits \in Requests : NegotiateCapabilities(s, r, bits)
  \/ \E s \in Sessions, r \in Routes, c \in CursorIds, expected \in 0..MaxVersion :
       GraphOpenReused(s, r, c, expected) \/ GraphOpenFresh(s, r, c, expected)
  \/ GraphOpenPublishes \/ GraphOpenFails
  \/ \E c \in cursors : GraphClose(c)
  \/ \E u \in UploadIds, s \in Sessions, r \in Routes : PatchBegin(u, s, r, version[r])
  \/ \E u \in uploads, length \in 0..Len(Declared) : PatchChunk(u, length)
  \/ \E u \in uploads : PatchCommit(u) \/ PatchAbort(u)
  \/ \E u \in uploads, expected \in 1..MaxVersion : PatchValidate(u, expected)
  \/ \E u \in uploads, r \in Routes : RouteChanged(u, r)
  \/ Crash \/ StartupCleanup

Spec == Init /\ [][Next]_vars

-----------------------------------------------------------------------------
TypeOK ==
  /\ running \in BOOLEAN /\ dir \in BOOLEAN
  /\ owners \in [Routes -> 0..MaxOwners]
  /\ version \in [Routes -> 1..MaxVersion]
  /\ caps \subseteq [id : Sessions, route : Routes, bits : Requests]
  /\ cursors \subseteq [id : CursorIds, session : Sessions, route : Routes, root : CursorIds,
                        version : 1..MaxVersion, orphan : BOOLEAN]
  /\ \A u \in uploads : u.id \in UploadIds /\ u.accepted \in 0..Len(Declared)
  /\ \A a, b \in uploads : a.id = b.id => a = b
  /\ \A a, b \in cursors : a.id = b.id => a = b
  /\ \A a, b \in caps : a.id = b.id => a = b
  /\ roots \in [CursorIds -> Absent..MaxVersion]
  /\ files \subseteq UploadIds
  /\ faults \in 0..MaxFaults

(* A cursor or an upload that is registered has its files: no close,       *)
(* abort, failed open or dying document takes them from under another one. *)
StorageLive ==
  /\ \A c \in cursors : roots[c.root] # Absent
  /\ \A u \in uploads : u.id \in files
  /\ cursors # {} \/ uploads # {} => dir

(* Cursors that share a directory read the same graph: the version a       *)
(* cursor was opened with is the one published where it reads.             *)
SharedGraphAgrees ==
  \A c \in cursors :
    /\ roots[c.root] = c.version
    /\ \A other \in cursors : other.root = c.root =>
         other.session = c.session /\ other.route = c.route

(* Whatever is registered belongs to a route that has an automation        *)
(* object, whose end removes it: nothing is left that nobody can reach.    *)
NothingOutlivesItsOwner ==
  \A x \in caps \cup cursors \cup uploads : owners[x.route] > 0

(* A client can read and close every cursor it has been given, unless its  *)
(* route was invalidated while the cursor was being opened ("orphan", a    *)
(* mark the code does not keep).                                           *)
CursorHasItsSession ==
  \A c \in cursors :
    \/ c.orphan
    \/ \E cap \in caps : cap.id = c.session /\ cap.route = c.route

(* A process that has nothing registered has nothing on disk.              *)
IdleIsEmpty ==
  running /\ cursors = {} /\ uploads = {} /\ ~opening.active =>
    ~dir /\ files = {} /\ \A c \in CursorIds : roots[c] = Absent

(* A sealed patch has the bytes its digest was declared for, whatever the  *)
(* client sent and however often a write was torn and sent again.          *)
SealedIsDeclared ==
  \A u \in uploads : u.state # "Open" => IsPrefix(Declared, u.bytes)

(* A patch is validated only after it was sealed, and from then on only    *)
(* goes away.                                                              *)
ValidatedStays ==
  [][\A u \in uploads, w \in uploads' :
       u.id = w.id /\ u.state # "Open" =>
         /\ w.bytes = u.bytes
         /\ u.state = "Validated" => w.state = "Validated"]_vars

(* Everything registered has its owner: sessions, cursors and uploads go     *)
(* with their document, nothing is left on disk when nothing is registered,  *)
(* and a sealed patch is the one that was declared.                          *)
RegistryCoherent ==
  /\ TypeOK
  /\ NothingOutlivesItsOwner
  /\ CursorHasItsSession
  /\ IdleIsEmpty
  /\ SealedIsDeclared

(* Cursors that share a graph share its storage while one of them is open,   *)
(* and read the version they were opened on.                                 *)
GraphsShared == StorageLive /\ SharedGraphAgrees

=============================================================================
