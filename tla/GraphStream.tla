----------------------------- MODULE GraphStream -----------------------------
(***************************************************************************)
(* The stream of one graph cursor of the native bridge                     *)
(* (DocumentGraphProtocol.cpp): GraphNext cuts the records of a query view *)
(* into fragments and packs the fragments into frames of the size the      *)
(* caller asked for, GraphTerminal ends the stream, and the receiver       *)
(* (AcceptGraphResponseFrame) puts the records together again.  After the  *)
(* terminal frame the blobs of the view are read, chunk by chunk           *)
(* (BlobRead) or all at once (BlobPack).                                   *)
(*                                                                         *)
(* A call is synchronous, but its reply can be lost after the bridge has   *)
(* answered, encoding a reply can fail, and the receiver can be handed a   *)
(* frame it has already seen.  Lengths are bytes and the sizes of the      *)
(* headers are the real ones.                                              *)
(***************************************************************************)
EXTENDS Integers, Sequences, FiniteSets, SequencesExt

CONSTANTS
  Records,      \* for each record of the view, the lengths of its fields
  Budgets,      \* frame sizes a caller asks for, without the frame's header
  BlobLength,   \* length of the one blob of the view
  BlobChunks,   \* chunk sizes a caller asks for when it reads the blob
  Packs,        \* the BlobPack requests a caller can send
  MaxFaults     \* bound: lost replies and failed encodings

ASSUME StreamAssumption ==
  /\ Records \in Seq(Seq(Nat))
  /\ \A r \in DOMAIN Records : Len(Records[r]) > 0
  /\ Budgets \subseteq Nat /\ BlobChunks \subseteq Nat \ {0}
  /\ BlobLength \in Nat /\ MaxFaults \in Nat

VARIABLES
  cursor,   \* GraphCursor: where the stream stands
  client,   \* GraphFragmentContinuationV1: what the receiver has put together
  call,     \* the call in progress
  seen,     \* the two frames the caller was answered with last
  blob,     \* BlobConsumption and the pack, and what the caller has of them
  faults    \* frames lost on their way back, terminal frames not encoded, and
            \* the other replies lost or not encoded, so far

vars == <<cursor, client, call, seen, blob, faults>>

FragmentHeaderBytes == 56
RecordHeaderBytes == 24
FieldHeaderBytes == 24
NoChain == -1       \* the chain digest before any frame
Idle == [phase |-> "idle"]
NoPack == [request |-> "none", bytes |-> 0]

(***************************************************************************)
(* The stream as one sequence: a record is its header followed by its      *)
(* fields, a field its header followed by its bytes.  A digest of a prefix *)
(* of the stream is that prefix.                                           *)
(***************************************************************************)
Value(r, f, from, bytes) == [i \in 1..bytes |-> <<r, f, from + i>>]

FieldTokens(r, f) == <<<<r, f>>>> \o Value(r, f, 0, Records[r][f])

RecordTokens(r) ==
  <<<<r>>>> \o FlattenSeq([f \in DOMAIN Records[r] |-> FieldTokens(r, f)])

Stream == FlattenSeq([r \in DOMAIN Records |-> RecordTokens(r)])

SumSeq(s) == FoldLeft(+, 0, s)

RecordBytes(r) ==
  RecordHeaderBytes + SumSeq([f \in DOMAIN Records[r] |-> FieldHeaderBytes + Records[r][f]])

LogicalBytes == SumSeq([r \in DOMAIN Records |-> RecordBytes(r)])

(***************************************************************************)
(* GraphNext: one fragment, then as many as the frame has room for.        *)
(***************************************************************************)
Exhausted(at) == at.record > Len(Records)

\* Mutant: every fragment of a field begins with the first byte of the field.
FragmentFromStart(at, room) ==
  LET bytes == Records[at.record][at.field]
      take  == IF room < bytes - at.offset THEN room ELSE bytes - at.offset
      last  == at.offset + take = bytes
  IN [record      |-> at.record, field |-> at.field, fieldBytes |-> bytes,
      fieldCount  |-> Len(Records[at.record]), offset |-> at.offset,
      value       |-> Value(at.record, at.field, 0, take),
      firstField  |-> at.offset = 0,
      lastField   |-> last,
      firstRecord |-> at.field = 1 /\ at.offset = 0,
      lastRecord  |-> at.field = Len(Records[at.record]) /\ last]

\* Mutant: the header of the fragment is not counted.
FragmentWide(at, room) ==
  LET bytes == Records[at.record][at.field]
      wide  == room + FragmentHeaderBytes
      take  == IF wide < bytes - at.offset THEN wide ELSE bytes - at.offset
      last  == at.offset + take = bytes
  IN [record      |-> at.record, field |-> at.field, fieldBytes |-> bytes,
      fieldCount  |-> Len(Records[at.record]), offset |-> at.offset,
      value       |-> Value(at.record, at.field, at.offset, take),
      firstField  |-> at.offset = 0,
      lastField   |-> last,
      firstRecord |-> at.field = 1 /\ at.offset = 0,
      lastRecord  |-> at.field = Len(Records[at.record]) /\ last]

Fragment(at, room) ==
  LET bytes == Records[at.record][at.field]
      take  == IF room < bytes - at.offset THEN room ELSE bytes - at.offset
      last  == at.offset + take = bytes
  IN [record      |-> at.record, field |-> at.field, fieldBytes |-> bytes,
      fieldCount  |-> Len(Records[at.record]), offset |-> at.offset,
      value       |-> Value(at.record, at.field, at.offset, take),
      firstField  |-> at.offset = 0,
      lastField   |-> last,
      firstRecord |-> at.field = 1 /\ at.offset = 0,
      lastRecord  |-> at.field = Len(Records[at.record]) /\ last]

\* Mutant: a record starts with the ordinal the record before it ended with.
AdvanceOrdinal(at, fragment) ==
  LET moved == at.reconstructed + Len(fragment.value)
                 + (IF fragment.firstField THEN FieldHeaderBytes ELSE 0)
                 + (IF fragment.firstRecord THEN RecordHeaderBytes ELSE 0)
  IN [at EXCEPT !.reconstructed = moved,
                !.offset = IF fragment.lastField THEN 0 ELSE @ + Len(fragment.value),
                !.field  = IF fragment.lastField THEN @ + 1 ELSE @,
                !.record = IF fragment.lastRecord THEN @ + 1 ELSE @]

\* Where the stream stands after a fragment.
Advance(at, fragment) ==
  LET moved == at.reconstructed + Len(fragment.value)
                 + (IF fragment.firstField THEN FieldHeaderBytes ELSE 0)
                 + (IF fragment.firstRecord THEN RecordHeaderBytes ELSE 0)
  IN [at EXCEPT !.reconstructed = moved,
                !.offset = IF fragment.lastField THEN 0 ELSE @ + Len(fragment.value),
                !.field  = IF fragment.lastRecord THEN 1
                           ELSE IF fragment.lastField THEN @ + 1 ELSE @,
                !.record = IF fragment.lastRecord THEN @ + 1 ELSE @]

RECURSIVE FramePlan(_, _, _)
\* The fragments that fit into what is left of the frame, and where the
\* stream stands after them.
FramePlan(at, left, fragments) ==
  LET room     == left - FragmentHeaderBytes
      fragment == Fragment(at, room)
      remains  == Records[at.record][at.field] - at.offset
  IN IF Exhausted(at) \/ left < FragmentHeaderBytes \/ (remains # 0 /\ room = 0)
     THEN [fragments |-> fragments, at |-> at]
     ELSE FramePlan(Advance(at, fragment), room - Len(fragment.value),
                    Append(fragments, fragment))

\* What the fragments add to the digest of the stream.
FragmentTokens(fragment) ==
  (IF fragment.firstRecord THEN <<<<fragment.record>>>> ELSE <<>>)
    \o (IF fragment.firstField THEN <<<<fragment.record, fragment.field>>>> ELSE <<>>)
    \o fragment.value

Tokens(fragments) == FlattenSeq([i \in DOMAIN fragments |-> FragmentTokens(fragments[i])])

FragmentsSize(fragments) ==
  SumSeq([i \in DOMAIN fragments |-> FragmentHeaderBytes + Len(fragments[i].value)])

Frame(kind, offset, fragments, more, digest) ==
  [kind |-> kind, sequence |-> cursor.nextSequence, previous |-> cursor.previousChain,
   offset |-> offset, total |-> LogicalBytes, records |-> Len(Records),
   fragments |-> fragments, fragmented |-> more, digest |-> digest]

\* The chain digest of a frame: frames of one cursor differ in their sequence.
ChainOf(frame) == frame.sequence

Failure(error) == [kind |-> "error", error |-> error]

-----------------------------------------------------------------------------
Init ==
  /\ cursor = [at |-> [record |-> 1, field |-> 1, offset |-> 0, reconstructed |-> 0],
               nextSequence |-> 1, previousChain |-> 0, hash |-> <<>>, state |-> "Active"]
  \* the receiver has accepted the open receipt, which is frame 0
  /\ client = [nextSequence |-> 1, previousChain |-> 0, active |-> FALSE, record |-> 0,
               ordinal |-> 0, field |-> 0, offset |-> 0, expectFirstField |-> TRUE, reconstructed |-> 0,
               fields |-> <<>>, value |-> <<>>, hash |-> <<>>, records |-> 0,
               completed |-> 0, terminal |-> FALSE, cached |-> NoChain]
  /\ call = Idle
  /\ seen = <<>>
  /\ blob = [next |-> 0, completed |-> FALSE, pack |-> NoPack,
             heard |-> 0, packHeard |-> NoPack]
  /\ faults = [lost |-> 0, terminal |-> 0, other |-> 0]

CanFail == faults.lost + faults.terminal + faults.other < MaxFaults

(***************************************************************************)
(* The caller asks for the frame it expects next.                          *)
(***************************************************************************)
AskNext(budget) ==
  /\ call = Idle
  /\ ~client.terminal
  /\ call' = [phase |-> "asked", sequence |-> client.nextSequence,
              previous |-> client.previousChain, budget |-> budget]
  /\ UNCHANGED <<cursor, client, seen, blob, faults>>

Mismatch == \/ call.sequence # cursor.nextSequence
            \/ call.previous # cursor.previousChain

Answer(reply) == call' = [phase |-> "answered", reply |-> reply, budget |-> call.budget]

NextRefused ==
  /\ call.phase = "asked"
  /\ \/ /\ Mismatch
        /\ Answer(Failure("SequenceMismatch"))
     \/ /\ ~Mismatch /\ ~Exhausted(cursor.at)
        /\ call.budget <= FragmentHeaderBytes
        /\ Answer(Failure("BufferTooSmall"))
  /\ UNCHANGED <<cursor, client, seen, blob, faults>>

\* Mutant: the terminal frame is counted although the digest of the stream
\* could not be finished.
NextTerminalCounted ==
  /\ call.phase = "asked"
  /\ ~Mismatch
  /\ Exhausted(cursor.at)
  /\ cursor' = [cursor EXCEPT !.state = "Terminal", !.nextSequence = @ + 1]
  /\ \/ /\ Answer(Frame("GraphTerminal", LogicalBytes, <<>>, FALSE, cursor.hash))
        /\ UNCHANGED faults
     \/ /\ CanFail
        /\ Answer(Failure("Internal"))
        /\ faults' = [faults EXCEPT !.other = @ + 1]
  /\ UNCHANGED <<client, seen, blob>>

\* The digest of the stream is finished before anything is changed.  Whether
\* the frame could be encoded is not looked at: the cursor moves on, and the
\* caller is answered with nothing.
NextTerminal ==
  /\ call.phase = "asked"
  /\ ~Mismatch
  /\ Exhausted(cursor.at)
  /\ LET moved == [cursor EXCEPT !.state = "Terminal", !.nextSequence = @ + 1]
     IN \/ /\ Answer(Frame("GraphTerminal", LogicalBytes, <<>>, FALSE, cursor.hash))
           /\ cursor' = moved
           /\ UNCHANGED faults
        \/ /\ CanFail
           /\ Answer(Failure("Internal"))
           /\ faults' = [faults EXCEPT !.other = @ + 1]
           /\ UNCHANGED cursor
        \/ /\ CanFail
           /\ Answer(Failure("Empty"))
           /\ faults' = [faults EXCEPT !.terminal = @ + 1]
           /\ cursor' = moved
  /\ UNCHANGED <<client, seen, blob>>

\* Mutant: the stream moves on before its frame is known to be encoded.
NextChunkEarly ==
  /\ call.phase = "asked"
  /\ ~Mismatch
  /\ ~Exhausted(cursor.at)
  /\ call.budget > FragmentHeaderBytes
  /\ LET plan  == FramePlan(cursor.at, call.budget, <<>>)
         frame == Frame("GraphChunk", cursor.at.reconstructed, plan.fragments,
                        plan.at.reconstructed # LogicalBytes, <<>>)
         moved == [cursor EXCEPT !.at = plan.at, !.hash = @ \o Tokens(plan.fragments)]
     IN \/ /\ Answer(frame)
           /\ cursor' = [moved EXCEPT !.nextSequence = @ + 1,
                                      !.previousChain = ChainOf(frame)]
           /\ UNCHANGED faults
        \/ /\ CanFail
           /\ Answer(Failure("Internal"))
           /\ faults' = [faults EXCEPT !.other = @ + 1]
           /\ cursor' = moved
  /\ UNCHANGED <<client, seen, blob>>

\* Mutant: a frame that could not be encoded is counted all the same.
NextChunkCounted ==
  /\ call.phase = "asked"
  /\ ~Mismatch
  /\ ~Exhausted(cursor.at)
  /\ call.budget > FragmentHeaderBytes
  /\ LET plan  == FramePlan(cursor.at, call.budget, <<>>)
         frame == Frame("GraphChunk", cursor.at.reconstructed, plan.fragments,
                        plan.at.reconstructed # LogicalBytes, <<>>)
     IN \/ /\ Answer(frame)
           /\ cursor' = [cursor EXCEPT !.at = plan.at, !.nextSequence = @ + 1,
                                       !.previousChain = ChainOf(frame),
                                       !.hash = @ \o Tokens(plan.fragments)]
           /\ UNCHANGED faults
        \/ /\ CanFail
           /\ Answer(Failure("Internal"))
           /\ faults' = [faults EXCEPT !.other = @ + 1]
           /\ cursor' = [cursor EXCEPT !.nextSequence = @ + 1]
  /\ UNCHANGED <<client, seen, blob>>

NextChunk ==
  /\ call.phase = "asked"
  /\ ~Mismatch
  /\ ~Exhausted(cursor.at)
  /\ call.budget > FragmentHeaderBytes
  /\ LET plan  == FramePlan(cursor.at, call.budget, <<>>)
         frame == Frame("GraphChunk", cursor.at.reconstructed, plan.fragments,
                        plan.at.reconstructed # LogicalBytes, <<>>)
     IN \/ /\ Answer(frame)
           /\ cursor' = [cursor EXCEPT !.at = plan.at, !.nextSequence = @ + 1,
                                       !.previousChain = ChainOf(frame),
                                       !.hash = @ \o Tokens(plan.fragments)]
           /\ UNCHANGED faults
        \/ /\ CanFail
           /\ Answer(Failure("Internal"))
           /\ faults' = [faults EXCEPT !.other = @ + 1]
           /\ UNCHANGED cursor
  /\ UNCHANGED <<client, seen, blob>>

(***************************************************************************)
(* AcceptGraphResponseFrame.  Accepting a fragment yields the receiver     *)
(* after it, or Refused.                                                   *)
(***************************************************************************)
Refused == [refused |-> TRUE]

IsRefused(c) == "refused" \in DOMAIN c

\* The markers a fragment has to carry where the receiver stands.
MarkersFit(c, g) ==
  IF ~c.active
  THEN g.record = c.record + 1 /\ g.firstRecord /\ g.firstField
  ELSE /\ g.record = c.record
       /\ ~g.firstRecord
       /\ IF c.expectFirstField THEN g.firstField /\ g.field > c.field
          ELSE ~g.firstField /\ g.field = c.field

FieldStart(c, g) ==
  IF g.firstField
  THEN [c EXCEPT !.active = TRUE, !.record = g.record, !.field = g.field,
                 !.offset = 0, !.value = <<>>,
                 !.ordinal = IF c.active THEN @ ELSE 0,
                 !.fields = IF c.active THEN @ ELSE <<>>]
  ELSE c

FieldEnd(c, g) ==
  LET fields == c.fields \o <<<<g.record, g.field>>>> \o c.value
      bytes  == RecordHeaderBytes
                  + SumSeq([i \in DOMAIN fields |->
                              IF Len(fields[i]) = 2 THEN FieldHeaderBytes ELSE 1])
  IN IF g.lastRecord
     THEN [c EXCEPT !.hash = @ \o <<<<g.record>>>> \o fields,
                    !.completed = @ + bytes, !.records = @ + 1,
                    !.active = FALSE, !.expectFirstField = TRUE,
                    !.fields = <<>>, !.value = <<>>]
     ELSE [c EXCEPT !.fields = fields, !.ordinal = @ + 1, !.expectFirstField = TRUE,
                    !.value = <<>>]

AcceptFragment(c, g) ==
  IF IsRefused(c) \/ ~MarkersFit(c, g) THEN Refused
  ELSE LET s == FieldStart(c, g)
           t == [s EXCEPT !.value = @ \o g.value, !.offset = @ + Len(g.value),
                          !.reconstructed = @ + Len(g.value)
                            + (IF g.firstField THEN FieldHeaderBytes ELSE 0)
                            + (IF g.firstRecord THEN RecordHeaderBytes ELSE 0)]
       IN IF g.offset # s.offset \/ (g.fieldBytes > 0 /\ g.value = <<>>) THEN Refused
          ELSE IF g.lastField
               THEN IF \/ t.offset # g.fieldBytes
                       \/ g.lastRecord # (t.ordinal + 1 = g.fieldCount)
                    THEN Refused ELSE FieldEnd(t, g)
               ELSE IF g.lastRecord THEN Refused
                    ELSE [t EXCEPT !.expectFirstField = FALSE]

AcceptChunk(c, frame) ==
  LET n == FoldLeft(AcceptFragment, c, frame.fragments)
  IN IF IsRefused(n) THEN Refused
     ELSE IF \/ n.reconstructed > frame.total
             \/ frame.fragmented # (n.reconstructed < frame.total) THEN Refused
     ELSE n

AcceptTerminal(c, frame) ==
  IF \/ c.active \/ frame.offset # frame.total
     \/ c.completed # c.reconstructed \/ c.records # frame.records
     \/ c.completed # frame.total \/ frame.digest # c.hash
  THEN Refused ELSE [c EXCEPT !.terminal = TRUE]

AcceptFrame(c, frame) ==
  IF c.cached = ChainOf(frame) THEN c
  ELSE IF \/ c.terminal \/ frame.sequence # c.nextSequence
          \/ frame.previous # c.previousChain \/ frame.offset # c.reconstructed
       THEN Refused
       ELSE LET n == IF frame.kind = "GraphTerminal" THEN AcceptTerminal(c, frame)
                     ELSE AcceptChunk(c, frame)
            IN IF IsRefused(n) THEN Refused
               ELSE [n EXCEPT !.nextSequence = @ + 1, !.previousChain = ChainOf(frame),
                              !.cached = ChainOf(frame)]

\* A refused frame leaves the receiver where it was.
Receive(frame) ==
  LET n == AcceptFrame(client, frame)
  IN client' = IF IsRefused(n) THEN client ELSE n

TakeReply ==
  /\ call.phase = "answered"
  /\ \/ /\ call.reply.kind = "error"
        /\ UNCHANGED <<client, seen>>
     \/ /\ call.reply.kind # "error"
        /\ Receive(call.reply)
        /\ seen' = SubSeq(<<call.reply>> \o seen, 1, IF seen = <<>> THEN 1 ELSE 2)
  /\ call' = Idle
  /\ UNCHANGED <<cursor, blob, faults>>

\* The call fails on its way back: the caller does not learn what was answered.
LoseReply ==
  /\ call.phase = "answered"
  /\ CanFail
  /\ faults' = IF call.reply.kind = "error" THEN [faults EXCEPT !.other = @ + 1]
               ELSE [faults EXCEPT !.lost = @ + 1]
  /\ call' = Idle
  /\ UNCHANGED <<cursor, client, seen, blob>>

\* The caller hands the receiver a frame a second time.
ReceiveAgain ==
  /\ call = Idle
  /\ \E i \in DOMAIN seen : Receive(seen[i])
  /\ UNCHANGED <<cursor, call, seen, blob, faults>>

(***************************************************************************)
(* BlobRead: only the exact next offset of the blob is answered, and only  *)
(* once.  BlobPack: answered once, and again for the same request.         *)
(***************************************************************************)
BlobRead(maximum) ==
  /\ call = Idle
  /\ client.terminal
  /\ ~blob.completed
  /\ blob.heard = blob.next
  /\ LET chunk == IF maximum < BlobLength - blob.next THEN maximum
                  ELSE BlobLength - blob.next
         moved == [blob EXCEPT !.next = @ + chunk,
                               !.completed = blob.next + chunk = BlobLength]
     IN \/ /\ blob' = [moved EXCEPT !.heard = @ + chunk]
           /\ UNCHANGED faults
        \/ /\ CanFail
           /\ blob' \in {moved, blob}
           /\ faults' = [faults EXCEPT !.other = @ + 1]
  /\ UNCHANGED <<cursor, client, call, seen>>

\* Mutant: a second request is answered like the first.
BlobPackAnew(request) ==
  /\ call = Idle
  /\ cursor.state = "Terminal"
  /\ LET answer == [request |-> request, bytes |-> BlobLength]
     IN \/ /\ blob' = [blob EXCEPT !.pack = answer, !.packHeard = answer]
           /\ UNCHANGED faults
        \/ /\ CanFail
           /\ blob' \in {[blob EXCEPT !.pack = answer], blob}
           /\ faults' = [faults EXCEPT !.other = @ + 1]
  /\ UNCHANGED <<cursor, client, call, seen>>

BlobPack(request) ==
  /\ call = Idle
  /\ cursor.state = "Terminal"
  /\ blob.pack.request \in {"none", request}
  /\ LET answer == [request |-> request, bytes |-> BlobLength]
     IN \/ /\ blob' = [blob EXCEPT !.pack = answer, !.packHeard = answer]
           /\ UNCHANGED faults
        \/ /\ CanFail
           /\ blob' \in {[blob EXCEPT !.pack = answer], blob}
           /\ faults' = [faults EXCEPT !.other = @ + 1]
  /\ UNCHANGED <<cursor, client, call, seen>>

Rest ==
  /\ call = Idle
  /\ client.terminal
  /\ UNCHANGED vars

Next ==
  \/ \E budget \in Budgets : AskNext(budget)
  \/ NextRefused \/ NextTerminal \/ NextChunk
  \/ TakeReply \/ LoseReply \/ ReceiveAgain
  \/ \E maximum \in BlobChunks : BlobRead(maximum)
  \/ \E request \in Packs : BlobPack(request)
  \/ Rest

-----------------------------------------------------------------------------
(***************************************************************************)
(* The caller comes back with a frame large enough for a fragment, the     *)
(* bridge answers and the answer is taken.  Whether a reply is lost is not *)
(* up to them.                                                             *)
(***************************************************************************)
LargestBudget == CHOOSE b \in Budgets : \A c \in Budgets : b >= c

Fairness ==
  /\ SF_vars(AskNext(LargestBudget))
  /\ WF_vars(NextRefused) /\ WF_vars(NextTerminal) /\ WF_vars(NextChunk)
  /\ SF_vars(TakeReply)

Spec == Init /\ [][Next]_vars /\ Fairness

(* The cursor stands inside the stream, and the receiver within a record   *)
(* of it.                                                                  *)
TypeOK ==
  /\ cursor.state \in {"Active", "Terminal"}
  /\ cursor.nextSequence \in Nat /\ cursor.previousChain < cursor.nextSequence
  /\ cursor.at.record \in 1..Len(Records) + 1
  /\ ~Exhausted(cursor.at) =>
       /\ cursor.at.field \in DOMAIN Records[cursor.at.record]
       /\ cursor.at.offset \in 0..Records[cursor.at.record][cursor.at.field]
  /\ client.record \in 0..Len(Records) /\ client.active \in BOOLEAN
  /\ client.terminal \in BOOLEAN
  /\ blob.heard \in 0..blob.next /\ blob.next \in 0..BlobLength

\* What the receiver has of the record it is in.
Partial ==
  IF ~client.active THEN <<>>
  ELSE <<<<client.record>>>> \o client.fields
         \o (IF client.expectFirstField THEN <<>>
             ELSE <<<<client.record, client.field>>>> \o client.value)

(* What the receiver has put together is the beginning of the stream of    *)
(* the view: no record, field or byte is left out, doubled or moved,       *)
(* whatever frame sizes were asked for, however often an encoding failed   *)
(* or a frame was handed over twice.                                       *)
ReceivedIsPrefix == IsPrefix(client.hash \o Partial, Stream)

(* A receiver that has accepted the terminal frame holds the whole stream. *)
TerminalIsWhole == client.terminal => client.hash = Stream /\ ~client.active

(* The two ends count alike: the receiver refuses no frame that answers    *)
(* the request it has made.                                                *)
AnswersAreAccepted ==
  call.phase = "answered" /\ call.reply.kind # "error" =>
    ~IsRefused(AcceptFrame(client, call.reply))

(* A frame is never larger than the caller allowed and never empty.        *)
FramesFit ==
  call.phase = "answered" /\ call.reply.kind = "GraphChunk" =>
    /\ FragmentsSize(call.reply.fragments) <= call.budget
    /\ call.reply.fragments # <<>>

(* Between calls the receiver waits for a frame the bridge no longer has   *)
(* only when a frame was lost or the terminal frame was not encoded: what  *)
(* else failed, the digest of the stream and the encoding of a chunk       *)
(* included, can be asked for again.                                       *)
Stranded == call = Idle /\ cursor.nextSequence # client.nextSequence

StrandedByLossOnly == Stranded => faults.lost + faults.terminal > 0

(* A caller that has a pack of blobs has the one the bridge answers with   *)
(* from then on.                                                           *)
PackAgreed == blob.packHeard # NoPack => blob.packHeard = blob.pack

(* The stream ends unless a frame is lost or the terminal frame is not     *)
(* encoded.  A lost answer that is an error, a chunk that could not be     *)
(* encoded and a digest that could not be finished do not keep it from it. *)
StreamEnds == <>(faults.lost + faults.terminal > 0 \/ client.terminal)

(* The bridge and the receiver agree on where the stream is: what was      *)
(* received is a prefix of it, and the whole at the end, the next answer   *)
(* fits, and only a frame that was lost, or a terminal frame that was not  *)
(* encoded, leaves the two apart.                                          *)
StreamAgrees ==
  /\ TypeOK
  /\ ReceivedIsPrefix
  /\ TerminalIsWhole
  /\ AnswersAreAccepted
  /\ FramesFit
  /\ StrandedByLossOnly
  /\ PackAgreed

=============================================================================
