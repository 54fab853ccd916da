-------------------------- MODULE StreamTaskProofs --------------------------
(***************************************************************************)
(* The safety properties of StreamTask, from what StreamTaskDetector shows  *)
(* of the detector: its events continue the client's queue, every action    *)
(* keeps the inductive invariant, and the invariant implies the properties. *)
(***************************************************************************)
EXTENDS StreamTaskDetector

\* The provers a step is given to in turn, with their time limits in seconds.
USE SMTT(20), SMTT(30), ZenonT(20), SMTT(40), SMTT(50), SMTT(60)

(***************************************************************************)
(* The events of a step continue the stream.                               *)
(***************************************************************************)
Items == Alphabet \cup {RECEIPT, KILLED, FRAME}
Text == Seq(Items)

LEMMA ItemsAre ==
  /\ Alphabet \subseteq Items /\ RECEIPT \in Items /\ KILLED \in Items /\ FRAME \in Items
  /\ RECEIPT \notin Alphabet /\ KILLED \notin Alphabet /\ FRAME \notin Alphabet
  /\ RECEIPT # KILLED /\ RECEIPT # FRAME
  BY MarkerIs DEF Items, RECEIPT, KILLED, FRAME

LEMMA BytesAreText == Bytes \subseteq Text
  BY ItemsAre DEF Bytes, Text

LEMMA TextIs ==
  /\ <<>> \in Text /\ <<RECEIPT>> \in Text /\ <<KILLED>> \in Text
  /\ \A s \in Text : Len(s) \in Nat
  /\ \A s \in Text, x \in Items : Append(s, x) \in Text
  BY ItemsAre DEF Text

LEMMA TextJoin ==
  ASSUME NEW s \in Text, NEW t \in Text
  PROVE  s \o t \in Text
  BY DEF Text

LEMMA TextThree ==
  ASSUME NEW s \in Text, NEW t \in Text, NEW u \in Text
  PROVE  (s \o t) \o u = s \o (t \o u)
  BY DEF Text

\* The items of a receipt.
Note(r) == <<RECEIPT>> \o (IF r.done = "killed" THEN <<KILLED>> ELSE <<>>)

LEMMA NoteIs == \A r : Note(r) \in Text
  BY TextIs, TextJoin DEF Note

\* The response with a receipt in it.
With(s, k, r) == (Take(s, k) \o Note(r)) \o Drop(s, k)

LEMMA WithIs ==
  ASSUME NEW s \in Bytes, NEW k \in 0 .. Len(s), NEW r
  PROVE  /\ Take(s, k) \in Text /\ Drop(s, k) \in Text /\ With(s, k, r) \in Text
         /\ (((Take(s, k) \o <<RECEIPT>>) \o (IF r.done = "killed" THEN <<KILLED>> ELSE <<>>))
               \o Drop(s, k)) = With(s, k, r)
<1> DEFINE kk == IF r.done = "killed" THEN <<KILLED>> ELSE <<>>
           a == Take(s, k)
           z == Drop(s, k)
<1>1. a \in Text /\ z \in Text
  BY TakeIs, DropIs, BytesAreText DEF Bytes
<1>2. kk \in Text /\ <<RECEIPT>> \in Text
  BY TextIs
<1>3. Note(r) = <<RECEIPT>> \o kk
  BY DEF Note
<1>4. With(s, k, r) = (a \o Note(r)) \o z
  BY DEF With
<1> HIDE DEF kk, a, z
<1>5. (a \o <<RECEIPT>>) \o kk = a \o (<<RECEIPT>> \o kk)
  BY <1>1, <1>2, TextThree, Zenon
<1>6. With(s, k, r) \in Text
  BY <1>1, <1>4, NoteIs, TextJoin
<1>7. QED
  BY <1>1, <1>3, <1>4, <1>5, <1>6, Zenon DEF kk, a, z

LEMMA ReceiptIs ==
  ASSUME Ready, receipts # <<>>
  PROVE  /\ completed /\ Len(receipts) = 1 /\ receipts[1] \in ReceiptSet
         /\ receipts[1].at \in 0 .. Len(out) /\ ReceiptOK(receipts[1])
<1>1. completed /\ Len(receipts) = 1 /\ ReceiptOK(receipts[1])
  BY ReadyIs DEF Ready, DetectorOK
<1>2. receipts[1] \in ReceiptSet
  BY <1>1, ReadyIs
<1>3. receipts[1].at \in Nat /\ Len(out) \in Nat /\ receipts[1].at <= Len(out)
  BY <1>1, <1>2, ReadyIs, LenBytes DEF ReceiptOK, ReceiptSet
<1>4. QED
  BY <1>1, <1>2, <1>3

LEMMA StreamIs ==
  ASSUME Ready
  PROVE  /\ Stream \in Text
         /\ receipts = <<>> => Stream = out
         /\ receipts # <<>> => Stream = With(out, receipts[1].at, receipts[1])
<1>1. CASE receipts = <<>>
  <2>1. Stream = out
    BY <1>1 DEF Stream
  <2>2. QED
    BY <1>1, <2>1, ReadyIs, BytesAreText
<1>2. CASE receipts # <<>>
  <2>1. out \in Bytes /\ receipts[1].at \in 0 .. Len(out)
    BY <1>2, ReadyIs, ReceiptIs
  <2>2. Stream = With(out, receipts[1].at, receipts[1]) /\ Stream \in Text
    BY <1>2, <2>1, WithIs, Zenon DEF Stream
  <2>3. QED
    BY <1>2, <2>2
<1>3. QED
  BY <1>1, <1>2

\* A receipt in front of what is added, and one in it.
LEMMA WithFront ==
  ASSUME NEW s \in Bytes, NEW d \in Bytes, NEW k \in 0 .. Len(s), NEW r
  PROVE  With(s \o d, k, r) = With(s, k, r) \o d
<1> DEFINE a == Take(s, k) \o Note(r)
           z == Drop(s, k)
<1>1. Take(s \o d, k) = Take(s, k) /\ Drop(s \o d, k) = z \o d
  BY TakeConcat, DropConcat DEF Bytes
<1>2. a \in Text /\ z \in Text /\ d \in Text
  BY WithIs, NoteIs, TextJoin, BytesAreText
<1>3. With(s \o d, k, r) = a \o (z \o d) /\ With(s, k, r) = a \o z
  BY <1>1 DEF With
<1> HIDE DEF a, z
<1>4. (a \o z) \o d = a \o (z \o d)
  BY <1>2, TextThree, Zenon
<1>5. QED
  BY <1>3, <1>4

LEMMA WithBack ==
  ASSUME NEW s \in Bytes, NEW d \in Bytes, NEW k \in 0 .. Len(d), NEW r
  PROVE  With(s \o d, Len(s) + k, r) = s \o With(d, k, r)
<1> DEFINE a == Take(d, k)
           z == Drop(d, k)
           n == Note(r)
<1>1. Take(s \o d, Len(s) + k) = s \o a
  BY TakeConcat DEF Bytes
<1>a. Drop(s \o d, Len(s) + k) = z
  BY DropFront DEF Bytes
<1>2. a \in Text /\ z \in Text /\ s \in Text /\ n \in Text
  BY WithIs, NoteIs, BytesAreText
<1>3. With(s \o d, Len(s) + k, r) = ((s \o a) \o n) \o z /\ With(d, k, r) = (a \o n) \o z
  BY <1>1, <1>a, Zenon DEF With
<1> HIDE DEF a, z, n
<1>4. (s \o a) \o n = s \o (a \o n)
  BY <1>2, TextThree, Zenon
<1>5. (s \o (a \o n)) \o z = s \o ((a \o n) \o z)
  <2> DEFINE v == a \o n
  <2>1. s \in Text /\ v \in Text /\ z \in Text
    BY <1>2, TextJoin
  <2> HIDE DEF v
  <2>2. (s \o v) \o z = s \o (v \o z)
    BY <2>1, TextThree, Zenon
  <2>3. QED
    BY <2>2 DEF v
<1>6. QED
  BY <1>3, <1>4, <1>5

LEMMA EventsStep ==
  ASSUME Ready, NEW d, NEW done, Adds(d, done)
  PROVE  /\ Events \in Text /\ Stream \in Text
         /\ Stream' = Stream \o Events
<1>1. d \in Bytes /\ out \in Bytes /\ out' = out \o d /\ out' \in Bytes
  BY ReadyIs, JoinBytes DEF Adds
<1>2. Drop(out', Len(out)) = d
  BY <1>1, DropConcat DEF Bytes
<1>3. CASE receipts' = receipts /\ receipts = <<>>
  <2>1. Events = d
    BY <1>2, <1>3 DEF Events
  <2>2. Stream = out /\ Stream' = out'
    BY <1>3 DEF Stream
  <2>3. QED
    BY <1>1, <2>1, <2>2, BytesAreText
<1>4. CASE receipts' = receipts /\ receipts # <<>>
  <2> DEFINE r == receipts[1]
  <2>1. Events = d
    BY <1>2, <1>4 DEF Events
  <2>2. r.at \in 0 .. Len(out)
    BY <1>4, ReceiptIs
  <2>3. r.at \in 0 .. Len(out')
    BY <1>1, <2>2 DEF Bytes
  <2>4. Stream = With(out, r.at, r)
    BY <1>4, StreamIs
  <2>5. Stream' = With(out', r.at, r)
    <3>1. receipts' # <<>> /\ receipts'[1] = r
      BY <1>4
    <3> HIDE DEF r
    <3>2. Stream' = ((Take(out', r.at) \o <<RECEIPT>>)
                       \o (IF r.done = "killed" THEN <<KILLED>> ELSE <<>>)) \o Drop(out', r.at)
      BY <3>1 DEF Stream
    <3>3. QED
      BY <1>1, <2>3, <3>2, WithIs, ZenonT(40)
  <2> HIDE DEF r
  <2>6. QED
    BY <1>1, <2>1, <2>2, <2>4, <2>5, StreamIs, WithFront, BytesAreText, ZenonT(40)
<1>5. CASE receipts' # receipts
  <2>1. receipts = <<>> /\ \E r \in ReceiptSet : receipts' = <<r>> /\ r.at \in Len(out) .. Len(out')
    BY <1>5 DEF Adds
  <2>2. PICK r \in ReceiptSet : receipts' = <<r>> /\ r.at \in Len(out) .. Len(out')
    BY <2>1
  <2> DEFINE k == r.at - Len(out)
  <2>3. k \in 0 .. Len(d) /\ r.at = Len(out) + k /\ r.at \in 0 .. Len(out')
    <3>1. Len(out) \in Nat /\ Len(d) \in Nat /\ Len(out') = Len(out) + Len(d)
      BY <1>1, ConcatIs DEF Bytes
    <3>2. r.at \in Nat /\ Len(out) <= r.at /\ r.at <= Len(out')
      BY <2>2, <3>1 DEF ReceiptSet
    <3>3. QED
      BY <3>1, <3>2
  <2>4. receipts' # <<>> /\ receipts'[1] = r /\ receipts'[Len(receipts')] = r
    BY <2>2
  <2>5. Events = ((Take(d, k) \o <<RECEIPT>>)
                   \o (IF r.done = "killed" THEN <<KILLED>> ELSE <<>>)) \o Drop(d, k)
    BY <1>2, <1>5, <2>4 DEF Events
  <2>6. Stream' = ((Take(out', r.at) \o <<RECEIPT>>)
                     \o (IF r.done = "killed" THEN <<KILLED>> ELSE <<>>)) \o Drop(out', r.at)
    BY <2>4 DEF Stream
  <2> HIDE DEF k
  <2>7. Events = With(d, k, r) /\ Events \in Text
    <3>1. d \in Bytes /\ k \in 0 .. Len(d)
      BY <1>1, <2>3
    <3>2. /\ With(d, k, r) \in Text
          /\ With(d, k, r) = ((Take(d, k) \o <<RECEIPT>>)
               \o (IF r.done = "killed" THEN <<KILLED>> ELSE <<>>)) \o Drop(d, k)
      BY <3>1, WithIs, Zenon
    <3>3. QED
      BY <2>5, <3>2
  <2>8. Stream' = With(out', r.at, r)
    BY <1>1, <2>3, <2>6, WithIs, ZenonT(40)
  <2>9. With(out \o d, Len(out) + k, r) = out \o With(d, k, r)
    BY <1>1, <2>3, WithBack
  <2>10. Stream = out /\ Stream \in Text
    BY <2>1, StreamIs
  <2>11. QED
    BY <1>1, <2>3, <2>7, <2>8, <2>9, <2>10
<1>6. QED
  BY <1>3, <1>4, <1>5

\* How much of the stream the client's queue has.
WireEnds ==
  \E n \in 0 .. Len(Stream) : wire = Take(Stream, n) \/ wire = Append(Take(Stream, n), FRAME)

LEMMA WireEndsIn ==
  ASSUME NEW s \in Text, NEW e \in Text, NEW n \in 0 .. Len(e)
  PROVE  /\ Len(s) + n \in 0 .. Len(s \o e) /\ Take(s \o e, Len(s) + n) = s \o Take(e, n)
         /\ s \o Take(e, n) \in Text
<1>1. Take(s \o e, Len(s) + n) = s \o Take(e, n)
  BY TakeConcat DEF Text
<1>2. Len(s) + n \in 0 .. Len(s \o e)
  BY DEF Text
<1>3. Take(e, n) \in Text
  BY TakeIs DEF Text
<1>4. QED
  BY <1>1, <1>2, <1>3, TextJoin

\* What the queue has after the events of a step, all of them or not.
LEMMA QueueStep ==
  ASSUME Ready, NEW d, NEW done, Adds(d, done), wire = Stream,
         NEW next, NEW terminal, Queued(next) \/ Refused(terminal)
  PROVE  /\ wire' \in Text /\ WireEnds'
         /\ phase' = "end" \/ (phase' = next /\ wire' = Stream')
<1>1. Events \in Text /\ Stream \in Text /\ Stream' = Stream \o Events /\ Stream' \in Text
  BY EventsStep, TextJoin, Zenon
<1>2. CASE Queued(next)
  <2>1. wire' = Stream' /\ phase' = next
    BY <1>1, <1>2 DEF Queued
  <2>2. Len(Stream') \in 0 .. Len(Stream') /\ Take(Stream', Len(Stream')) = Stream'
    <3>1. Stream' \in Text
      BY <1>1
    <3>2. Take(Stream', Len(Stream')) = Stream'
      BY <3>1, TakeAll DEF Text
    <3>3. QED
      BY <3>1, <3>2, TextIs
  <2>3. QED
    BY <1>1, <2>1, <2>2 DEF WireEnds
<1>3. CASE Refused(terminal)
  <2>1. PICK n \in 0 .. Len(Events) - 1 :
          /\ phase' = "end"
          /\ wire' = wire \o Take(Events, n) \/ wire' = Append(wire \o Take(Events, n), FRAME)
    BY <1>3, Zenon DEF Refused, MayEndWith
  <2>2. n \in 0 .. Len(Events)
    BY <1>1, <2>1 DEF Text
  <2>3. /\ Len(Stream) + n \in 0 .. Len(Stream')
        /\ Take(Stream', Len(Stream) + n) = wire \o Take(Events, n)
        /\ wire \o Take(Events, n) \in Text
    BY <1>1, <2>2, WireEndsIn, Zenon
  <2>4. wire' \in Text
    BY <2>1, <2>3, TextIs, ItemsAre, Zenon
  <2>5. WireEnds'
    BY <2>1, <2>3, Zenon DEF WireEnds
  <2>6. QED
    BY <2>1, <2>4, <2>5
<1>4. QED
  BY <1>2, <1>3

-----------------------------------------------------------------------------
(***************************************************************************)
(* The steps keep the invariant.                                           *)
(***************************************************************************)
LEMMA InvReady ==
  ASSUME TypeOK, DetectorOK
  PROVE  Ready
<1>1. DetectorTyped
  BY DEF TypeOK, DetectorTyped, Bytes
<1>2. receipts \in Seq(ReceiptSet)
  BY DEF TypeOK, ReceiptSet, Bytes
<1>3. QED
  BY <1>1, <1>2 DEF TypeOK, Ready

\* What a step of the task adds to the receipts.
LEMMA AddsReceipt ==
  ASSUME Ready, NEW d, NEW done \in {"marker", "killed"}, Adds(d, done), DetectorTyped', DetectorOK'
  PROVE  /\ receipts' \in Seq(ReceiptSet) /\ completed' \in BOOLEAN
         /\ completed' => \/ completed /\ receipts' = receipts
                          \/ /\ receipts'[1].done = done /\ receipts'[1].request = requested
                             /\ done = "marker" => sse
<1>1. CASE receipts' = receipts /\ completed' = completed
  BY <1>1, ReadyIs
<1>2. CASE ~(receipts' = receipts /\ completed' = completed)
  <2>1. completed' = TRUE /\ \E r \in ReceiptSet :
          receipts' = <<r>> /\ r.request = requested /\ r.done = done /\ (done = "marker" => sse)
    BY <1>2 DEF Adds
  <2>2. PICK r \in ReceiptSet :
          receipts' = <<r>> /\ r.request = requested /\ r.done = done /\ (done = "marker" => sse)
    BY <2>1
  <2>3. receipts' \in Seq(ReceiptSet) /\ receipts'[1] = r
    BY <2>2
  <2>4. QED
    BY <2>1, <2>2, <2>3
<1>3. QED
  BY <1>1, <1>2

LEMMA TaskStep ==
  ASSUME StreamInv, phase \in InTask, NEW d, NEW done \in {"marker", "killed"}, Adds(d, done),
         DetectorTyped', DetectorOK', long' \in BOOLEAN,
         UNCHANGED <<head, bodyVars, answered, errorReceipt>>,
         NEW next \in Whole \cup {"end"}, NEW terminal, Queued(next) \/ Refused(terminal),
         next \in InTask => Retained',
         next = "logged" => trailing' = <<>>,
         next \in {"loop", "eof", "logged"} => phase \in {"loop", "eof"} /\ done = "marker"
  PROVE  StreamInv'
<1>1. Ready /\ wire = Stream /\ status = 200
  BY InvReady DEF StreamInv, WireOK, Whole
<1>2. /\ wire' \in Text /\ WireEnds'
      /\ phase' = "end" \/ (phase' = next /\ wire' = Stream')
  BY <1>1, QueueStep
<1>3. /\ receipts' \in Seq(ReceiptSet) /\ completed' \in BOOLEAN
      /\ completed' => \/ completed /\ receipts' = receipts
                       \/ /\ receipts'[1].done = done /\ receipts'[1].request = requested
                          /\ done = "marker" => sse
  BY <1>1, AddsReceipt
<1>4. phase' \in Phases
  BY <1>2 DEF Whole, InTask, Phases
<1>5. TypeOK'
  <2>1. wire' \in Seq(Alphabet \cup {RECEIPT, KILLED, FRAME})
    BY <1>2 DEF Text, Items
  <2>2. receipts' \in Seq([hash : Seq(Alphabet), request : Nat, at : Nat,
                           done : {"marker", "killed"}])
    BY <1>3 DEF ReceiptSet, Bytes
  <2>3. fed' \in Seq(Alphabet) /\ trailing' \in Seq(Alphabet) /\ hashed' \in Seq(Alphabet)
        /\ out' \in Seq(Alphabet) /\ Len(trailing') < MarkerLen
    BY DEF DetectorTyped, Bytes
  <2>4. UNCHANGED <<request, status, sse, body, requested, answered, errorReceipt>>
    BY DEF head, bodyVars
  <2>5. QED
    BY <1>3, <1>4, <2>1, <2>2, <2>3, <2>4 DEF StreamInv, TypeOK
<1>6. WireOK'
  <2>1. phase' \notin Idle
    BY <1>2 DEF Idle, InTask, Whole
  <2>2. phase' \in InTask => Retained'
    BY <1>2 DEF InTask
  <2>3. phase' \in Whole => wire' = Stream' /\ status' = 200
    BY <1>1, <1>2 DEF Whole, InTask, head
  <2>4. phase' = "logged" => trailing' = <<>>
    BY <1>2
  <2>5. phase' \in {"loop", "eof", "logged"} /\ completed' => sse' /\ receipts'[1].done = "marker"
    BY <1>2, <1>3 DEF StreamInv, WireOK, head
  <2>6. QED
    BY <1>2, <2>1, <2>2, <2>3, <2>4, <2>5 DEF WireOK, WireEnds
<1>7. RequestOK'
  <2>1. UNCHANGED <<request, status, sse, body, requested, answered, errorReceipt>>
    BY DEF head, bodyVars
  <2>2. RequestOK /\ errorReceipt = -1 /\ requested \in Nat /\ answered \in Nat
    BY DEF StreamInv, RequestOK, InTask, TypeOK
  <2>3. request.route = "chat" /\ Verdict(request) = 0
    BY <2>2 DEF RequestOK, InTask
  <2>4. completed' => answered' <= receipts'[1].request /\ receipts'[1].request <= requested'
    BY <1>3, <2>1, <2>2 DEF RequestOK
  <2>5. Verdict(request') = Verdict(request)
    BY <2>1
  <2>6. QED
    BY <2>1, <2>2, <2>3, <2>4, <2>5 DEF RequestOK
<1>8. QED
  BY <1>5, <1>6, <1>7 DEF StreamInv

LEMMA OutputKeeps ==
  ASSUME StreamInv, NEW b \in Chunks, Output(b)
  PROVE  StreamInv'
<1>1. /\ phase \in InTask /\ fed' = fed \o b /\ long' = (long \/ Len(b) >= RetainLen)
      /\ sse => Inspect(b)
      /\ ~sse => Plain(b)
      /\ Queued(phase) \/ Refused(~sse /\ phase = "loop")
      /\ UNCHANGED <<head, bodyVars, answered, errorReceipt>> /\ sse' = sse
  BY DEF Output, head
<1>2. b \in Bytes
  BY MarkerAssumption DEF Chunks, Bytes
<1>3. Ready /\ Retained
  BY <1>1, InvReady DEF StreamInv, WireOK
<1>4. long' \in BOOLEAN /\ (~long' => ~long)
  BY <1>1, Zenon
<1>5. (\E d : Adds(d, "marker")) /\ DetectorTyped' /\ DetectorOK' /\ Retained'
  <2>1. CASE sse
    BY <1>1, <1>2, <1>3, <2>1, InspectStep
  <2>2. CASE ~sse
    <3>1. Retained'
      BY <1>1, <2>2 DEF Retained
    <3>2. QED
      BY <1>1, <1>2, <1>3, <1>4, <2>2, <3>1, PlainStep
  <2>3. QED
    BY <2>1, <2>2
<1>6. PICK d : Adds(d, "marker")
  BY <1>5
<1>7. CASE phase \in {"loop", "eof"}
  BY <1>1, <1>4, <1>5, <1>6, <1>7, TaskStep, ZenonT(40) DEF Whole
<1>8. CASE phase = "shutdown"
  BY <1>1, <1>4, <1>5, <1>6, <1>8, TaskStep DEF Whole
<1>9. QED
  BY <1>1, <1>7, <1>8 DEF InTask

LEMMA ShutdownKeeps ==
  ASSUME StreamInv, Shutdown
  PROVE  StreamInv'
<1>1. /\ phase \in InTask /\ ShutdownEvents
      /\ Queued("shutdown") \/ Refused(FALSE)
      /\ UNCHANGED <<head, bodyVars, answered, errorReceipt>>
      /\ fed' = fed /\ long' = long /\ sse' = sse
  BY Zenon DEF Shutdown, head, InTask
<1>2. Ready
  BY InvReady DEF StreamInv
<1>3. (\E d : Adds(d, "killed")) /\ DetectorTyped' /\ DetectorOK' /\ completed'
  BY <1>1, <1>2, ShutdownStep
<1>4. PICK d : Adds(d, "killed")
  BY <1>3
<1>5. Retained' /\ long' \in BOOLEAN /\ "shutdown" \in Whole
  BY <1>1, <1>2, <1>3 DEF Retained, Ready, Whole, InTask
<1>6. PICK next : next = "shutdown"
  OBVIOUS
<1>7. next \in Whole \cup {"end"} /\ next # "logged" /\ next \notin {"loop", "eof", "logged"}
  BY <1>5, <1>6
<1>8. QED
  BY <1>1, <1>3, <1>4, <1>5, <1>6, <1>7, TaskStep, Zenon

LEMMA FinishKeeps ==
  ASSUME StreamInv, Finish
  PROVE  StreamInv'
<1>1. /\ phase \in {"eof", "shutdown"} /\ phase \in InTask
      /\ sse => FinishEvents
      /\ ~sse => UNCHANGED detector
      /\ Queued(AfterFlush) \/ Refused(FALSE)
      /\ UNCHANGED <<head, bodyVars, answered, errorReceipt>>
      /\ fed' = fed /\ long' = long /\ sse' = sse
  BY Zenon DEF Finish, head, InTask
<1>2. Ready
  BY InvReady DEF StreamInv
<1>3. (\E d : Adds(d, "marker")) /\ DetectorTyped' /\ DetectorOK' /\ trailing' = <<>>
  <2>1. CASE sse
    BY <1>1, <1>2, <2>1, FinishStep
  <2>2. CASE ~sse
    <3>1. trailing = <<>> /\ trailing' = trailing /\ out' = out /\ receipts' = receipts
          /\ completed' = completed /\ hashed' = hashed
      BY <1>1, <1>2, <2>2, ReadyIs DEF detector
    <3>2. Adds(<<>>, "marker")
      BY <1>2, <3>1, ReadyIs, EmptyBytes DEF Adds
    <3>3. DetectorTyped' /\ DetectorOK'
      BY <1>1, <1>2, <3>1 DEF Ready, DetectorTyped, DetectorOK, ReceiptOK
    <3>4. QED
      BY <3>1, <3>2, <3>3
  <2>3. QED
    BY <2>1, <2>2
<1>4. PICK d : Adds(d, "marker")
  BY <1>3
<1>5. long' \in BOOLEAN
  BY <1>1, <1>2 DEF Ready
<1>6. /\ AfterFlush \in Whole \cup {"end"} /\ AfterFlush \notin InTask
      /\ AfterFlush \in {"loop", "eof", "logged"} => phase \in {"loop", "eof"}
  BY <1>1 DEF AfterFlush, Whole, InTask
<1>7. QED
  BY <1>1, <1>3, <1>4, <1>5, <1>6, TaskStep, Zenon

\* What a step that leaves the response alone keeps of it.
Still == UNCHANGED <<sse, fed, long, detector>>

LEMMA StillStep ==
  ASSUME StreamInv, Still
  PROVE  /\ DetectorOK' /\ Stream' = Stream /\ Retained = Retained'
         /\ Stream \in Text /\ Len(Stream) \in 0 .. Len(Stream) /\ Take(Stream, Len(Stream)) = Stream
<1>1. UNCHANGED <<sse, fed, long, trailing, completed, hashed, out, receipts>>
  BY DEF Still, detector
<1>2. DetectorOK'
  BY <1>1 DEF StreamInv, DetectorOK, ReceiptOK
<1>3. Stream' = Stream
  BY <1>1 DEF Stream
<1>4. Retained = Retained'
  BY <1>1 DEF Retained
<1>5. Stream \in Text
  BY InvReady, StreamIs DEF StreamInv
<1>6. Take(Stream, Len(Stream)) = Stream
  BY <1>5, TakeAll DEF Text
<1>7. QED
  BY <1>2, <1>3, <1>4, <1>5, <1>6, TextIs

LEMMA StreamErrorKeeps ==
  ASSUME StreamInv, StreamError
  PROVE  StreamInv'
<1>1. /\ phase \in InTask /\ phase' = "end" /\ wire' \in {wire, Append(wire, FRAME)}
      /\ UNCHANGED <<head, bodyVars, answered, errorReceipt>> /\ Still
      /\ UNCHANGED <<request, status, body, requested, answered, errorReceipt, receipts, completed>>
  BY DEF StreamError, MayEndWith, head, bodyVars, Still, detector
<1>2. wire = Stream
  BY <1>1 DEF StreamInv, WireOK, Whole
<1>3. wire' \in Text
  BY <1>1, <1>2, StillStep, TextIs, ItemsAre, Zenon
<1>4. WireEnds'
  BY <1>1, <1>2, StillStep DEF WireEnds
<1>5. WireOK'
  BY <1>1, <1>4 DEF WireOK, WireEnds, Idle, InTask, Whole
<1>6. TypeOK'
  BY <1>1, <1>3 DEF StreamInv, TypeOK, Text, Items, Phases, Still, detector
<1>7. RequestOK'
  BY <1>1 DEF StreamInv, RequestOK, InTask
<1>8. QED
  BY <1>1, <1>5, <1>6, <1>7, StillStep DEF StreamInv

\* What the layers let through, and what they answer.
LEMMA VerdictIs ==
  ASSUME NEW r \in Requests
  PROVE  /\ Verdict(r) \in {0, 200, 401, 403, 413}
         /\ Verdict(r) = 413 => r.declared > MaxBody
         /\ Verdict(r) = 0 /\ r.route = "chat" =>
              /\ r.method = "call" /\ r.token = "tenant" /\ r.origin # "foreign"
              /\ r.declared <= MaxBody
<1>1. Cors(r) \in {0, 200, 403} /\ (Cors(r) = 0 => r.origin # "foreign" /\ r.method # "OPTIONS")
  BY DEF Cors
<1>2. /\ DeclaredLimit(r) \in {0, 413}
      /\ (DeclaredLimit(r) = 413 => r.declared > MaxBody)
      /\ (DeclaredLimit(r) = 0 => ~(r.declared > MaxBody))
  BY DEF DeclaredLimit
<1>3. /\ RouteAuth(r) \in {0, 401, 403}
      /\ (RouteAuth(r) = 0 /\ r.route = "chat" => r.token = "tenant")
  <2>1. RequireAuth(r) \in {0, 401} /\ (RequireAuth(r) = 0 => r.token = "tenant")
    BY DEF RequireAuth
  <2>2. AuthMiddleware(r) \in {0, 401, 403}
    BY DEF AuthMiddleware
  <2>3. CASE r.route = "chat"
    BY <2>1, <2>3 DEF RouteAuth
  <2>4. CASE r.route # "chat"
    BY <2>2, <2>4 DEF RouteAuth
  <2>5. QED
    BY <2>3, <2>4
<1>4. \/ Verdict(r) = Cors(r) /\ Cors(r) # 0
      \/ Verdict(r) = DeclaredLimit(r) /\ Cors(r) = 0 /\ DeclaredLimit(r) # 0
      \/ Verdict(r) = RouteAuth(r) /\ Cors(r) = 0 /\ DeclaredLimit(r) = 0
  BY <1>1, <1>2 DEF Verdict
<1>5. r.method \in {"call", "OPTIONS"} /\ r.declared \in Int /\ MaxBody \in Nat
  BY StreamAssumption DEF Requests
<1>6. QED
  BY <1>1, <1>2, <1>3, <1>4, <1>5

LEMMA EndKeepsWire ==
  ASSUME StreamInv, Still, wire' = wire, phase' = "end"
  PROVE  DetectorOK' /\ WireOK'
<1>1. DetectorOK' /\ Stream' = Stream
  BY StillStep
<1>2. WireOK'
  BY <1>1 DEF StreamInv, WireOK, Idle, InTask, Whole
<1>3. QED
  BY <1>1, <1>2

\* An answer without a response stream.
LEMMA AnswersKeeps ==
  ASSUME StreamInv, phase \in Idle,
         NEW code \in {200, 400, 401, 403, 413, 422, 500, 502, 503}, Answers(code),
         code = 413 => request.declared > MaxBody \/ body = "over"
  PROVE  StreamInv'
<1>1. /\ status' = code /\ phase' = "end" /\ wire' = wire /\ Still
      /\ UNCHANGED <<request, body, requested, answered, errorReceipt, completed, receipts>>
  BY DEF Answers, Still, bodyVars, detector
<1>2. DetectorOK' /\ WireOK'
  BY <1>1, EndKeepsWire
<1>3. TypeOK'
  BY <1>1 DEF StreamInv, TypeOK, Phases, Still, detector
<1>4. RequestOK'
  BY <1>1 DEF StreamInv, RequestOK, Idle
<1>5. QED
  BY <1>2, <1>3, <1>4 DEF StreamInv

LEMMA GateKeeps ==
  ASSUME StreamInv, Refuse \/ AttestationDocument \/ AdminHandler \/ Shed \/ SendFails
  PROVE  StreamInv'
<1>1. CASE Refuse
  <2>1. /\ phase \in Idle /\ Answers(Verdict(request)) /\ Verdict(request) # 0
        /\ request \in Requests
    BY <1>1 DEF Refuse, Idle, StreamInv, TypeOK
  <2>2. QED
    BY <2>1, VerdictIs, AnswersKeeps
<1>2. CASE AttestationDocument
  <2>1. phase \in Idle /\ \E code \in {200, 400, 502} : Answers(code)
    BY <1>2 DEF AttestationDocument, Idle
  <2>2. QED
    BY <2>1, AnswersKeeps
<1>3. CASE AdminHandler
  <2>1. phase \in Idle /\ \E code \in {200, 400, 422, 500} : Answers(code)
    BY <1>3 DEF AdminHandler, Idle
  <2>2. QED
    BY <2>1, AnswersKeeps
<1>4. CASE Shed
  <2>1. phase \in Idle /\ Answers(503)
    BY <1>4 DEF Shed, Idle
  <2>2. QED
    BY <2>1, AnswersKeeps
<1>5. CASE SendFails
  <2>1. phase \in Idle /\ (Answers(502) \/ (body = "over" /\ Answers(413)))
    BY <1>5 DEF SendFails, Idle
  <2>2. QED
    BY <2>1, AnswersKeeps
<1>6. QED
  BY <1>1, <1>2, <1>3, <1>4, <1>5

\* The request moves on, and nothing else changes.
LEMMA MovesKeeps ==
  ASSUME StreamInv, ProxyHandler \/ Admitted \/ Eof \/ ClientGone
  PROVE  StreamInv'
<1>1. /\ wire' = wire /\ Still
      /\ UNCHANGED <<request, status, body, requested, answered, errorReceipt, completed, receipts,
                     fed, out, trailing, hashed>>
  BY DEF ProxyHandler, Admitted, Eof, ClientGone, Still, head, bodyVars, detector
<1>2. /\ phase' \in Phases
      /\ phase' \in Idle => phase \in Idle
      /\ phase' \in InTask => phase \in InTask
      /\ phase' # "logged"
      /\ phase' = "eof" => phase = "loop"
      /\ phase' # "loop"
      /\ phase' # "end" => /\ phase # "end"
                           /\ phase = "gate" => request.route = "chat" /\ Verdict(request) = 0
  BY DEF ProxyHandler, Admitted, Eof, ClientGone, Phases, Idle, InTask
<1>3. DetectorOK' /\ Stream' = Stream /\ Retained' = Retained
  BY <1>1, StillStep
<1>4. TypeOK'
  BY <1>1, <1>2 DEF StreamInv, TypeOK, Still, detector
<1>5. WireOK'
  <2>1. phase' \in Idle => Untouched'
    BY <1>1, <1>2 DEF StreamInv, WireOK, Untouched
  <2>2. phase' \in InTask => Retained'
    BY <1>2, <1>3 DEF StreamInv, WireOK
  <2>3. phase' \in Whole => wire' = Stream' /\ status' = 200
    BY <1>1, <1>2, <1>3 DEF StreamInv, WireOK, Whole
  <2>4. phase' \in {"loop", "eof", "logged"} /\ completed' => sse' /\ receipts'[1].done = "marker"
    BY <1>1, <1>2 DEF StreamInv, WireOK, Still
  <2>5. QED
    BY <1>1, <1>2, <1>3, <2>1, <2>2, <2>3, <2>4 DEF StreamInv, WireOK
<1>6. RequestOK'
  <2>1. Verdict(request') = Verdict(request)
    BY <1>1
  <2>2. errorReceipt' # -1 => phase' = "end"
    BY <1>1, <1>2 DEF StreamInv, RequestOK
  <2>3. phase' \notin {"gate", "end"} \/ requested' > 0 =>
          request'.route = "chat" /\ Verdict(request') = 0
    BY <1>1, <1>2, <2>1 DEF StreamInv, RequestOK
  <2>4. QED
    BY <1>1, <2>2, <2>3 DEF StreamInv, RequestOK
<1>7. QED
  BY <1>3, <1>4, <1>5, <1>6 DEF StreamInv

\* The request body is read, or ends.
LEMMA BodyKeeps ==
  ASSUME StreamInv, (\E n \in 1 .. MaxPiece : ReadBody(n)) \/ BodyEnds
  PROVE  StreamInv'
<1>1. /\ wire' = wire /\ Still /\ phase' = phase /\ phase \in {"send"} \cup InTask
      /\ body = "open" /\ body' \in {"open", "ended", "over", "broken"}
      /\ UNCHANGED <<request, status, answered, errorReceipt, completed, receipts,
                     fed, out, trailing, hashed>>
  BY DEF ReadBody, BodyEnds, Still, head, detector
<1>2. requested' \in Nat /\ requested <= requested' /\ requested' <= MaxBody /\ requested \in Nat
  <2>1. requested \in Nat /\ requested <= MaxBody /\ MaxBody \in Nat
    BY StreamAssumption DEF StreamInv, TypeOK, RequestOK
  <2>2. CASE BodyEnds
    BY <2>1, <2>2 DEF BodyEnds
  <2>3. CASE \E n \in 1 .. MaxPiece : ReadBody(n)
    <3>1. PICK n \in 1 .. MaxPiece : ReadBody(n)
      BY <2>3
    <3>2. (requested' = requested + n /\ requested + n <= MaxBody) \/ requested' = requested
      BY <3>1 DEF ReadBody, WithinLimit
    <3>3. n \in Nat
      BY StreamAssumption
    <3>4. QED
      BY <2>1, <3>2, <3>3
  <2>4. QED
    BY <2>2, <2>3
<1>3. DetectorOK' /\ Stream' = Stream /\ Retained' = Retained
  BY <1>1, StillStep
<1>4. TypeOK'
  BY <1>1, <1>2 DEF StreamInv, TypeOK, Still, detector
<1>5. WireOK'
  BY <1>1, <1>3 DEF StreamInv, WireOK, Untouched, Still
<1>6. RequestOK'
  <2>1. Verdict(request') = Verdict(request)
    BY <1>1
  <2>2. request.route = "chat" /\ Verdict(request) = 0
    BY <1>1 DEF StreamInv, RequestOK, InTask
  <2>3. errorReceipt = -1
    BY <1>1 DEF StreamInv, RequestOK, InTask
  <2>4. answered \in Nat /\ answered <= requested'
    BY <1>2 DEF StreamInv, TypeOK, RequestOK
  <2>5. completed => answered <= receipts[1].request /\ receipts[1].request <= requested'
    <3>1. completed => receipts[1].request \in Nat
      <4>1. completed => receipts # <<>> /\ Ready
        BY InvReady DEF StreamInv, DetectorOK
      <4>2. completed => receipts[1] \in ReceiptSet
        BY <4>1, ReceiptIs
      <4>3. QED
        BY <4>2 DEF ReceiptSet
    <3>2. QED
      BY <1>2, <3>1 DEF StreamInv, RequestOK
  <2>6. status = 413 => request.declared > MaxBody
    BY <1>1 DEF StreamInv, RequestOK
  <2>7. QED
    BY <1>1, <1>2, <2>1, <2>2, <2>3, <2>4, <2>5, <2>6 DEF RequestOK
<1>7. QED
  BY <1>3, <1>4, <1>5, <1>6 DEF StreamInv

LEMMA UpstreamErrorKeeps ==
  ASSUME StreamInv, UpstreamError
  PROVE  StreamInv'
<1>1. /\ phase = "send" /\ phase' = "end" /\ answered' = requested /\ errorReceipt' = requested
      /\ status' \in {429, 500} /\ wire' = wire /\ Still
      /\ UNCHANGED <<request, body, requested, completed, receipts>>
  BY DEF UpstreamError, Answering, Still, bodyVars, detector
<1>2. DetectorOK' /\ WireOK'
  BY <1>1, EndKeepsWire
<1>3. completed = FALSE /\ requested \in Nat
  BY <1>1 DEF StreamInv, WireOK, Idle, Untouched, TypeOK
<1>4. TypeOK'
  BY <1>1, <1>3 DEF StreamInv, TypeOK, Phases, Still, detector
<1>5. RequestOK'
  <2>1. Verdict(request') = Verdict(request)
    BY <1>1
  <2>2. QED
    BY <1>1, <1>3, <2>1 DEF StreamInv, RequestOK
<1>6. QED
  BY <1>2, <1>4, <1>5 DEF StreamInv

LEMMA UpstreamAnswersKeeps ==
  ASSUME StreamInv, UpstreamAnswers
  PROVE  StreamInv'
<1>1. /\ phase = "send" /\ phase' = "loop" /\ answered' = requested /\ status' = 200
      /\ sse' \in BOOLEAN
      /\ UNCHANGED <<request, body, requested, errorReceipt, fed, long, trailing, completed, hashed,
                     out, receipts, wire>>
  BY DEF UpstreamAnswers, Answering, bodyVars, detector
<1>2. /\ fed = <<>> /\ out = <<>> /\ trailing = <<>> /\ hashed = <<>> /\ wire = <<>>
      /\ receipts = <<>> /\ completed = FALSE /\ errorReceipt = -1
  BY <1>1 DEF StreamInv, WireOK, Idle, Untouched
<1>3. Starts(<<>>) = {}
  BY MarkerIs DEF Starts
<1>4. <<>> \o <<>> = <<>> /\ Len(<<>>) = 0
  BY EmptyBytes
<1>5. DetectorOK'
  BY <1>1, <1>2, <1>3, <1>4 DEF DetectorOK
<1>6. Retained'
  BY <1>1, <1>2, <1>4, MarkerIs DEF Retained, AtMost
<1>7. Stream' = <<>>
  BY <1>1, <1>2 DEF Stream
<1>8. WireOK'
  <2>1. Take(<<>>, 0) = <<>>
    BY TakeAll, EmptyBytes, Zenon DEF Bytes
  <2>2. QED
    BY <1>1, <1>2, <1>4, <1>6, <1>7, <2>1 DEF WireOK, Idle, InTask, Whole
<1>9. TypeOK'
  BY <1>1 DEF StreamInv, TypeOK, Phases, InTask
<1>10. RequestOK'
  <2>1. Verdict(request') = Verdict(request)
    BY <1>1
  <2>2. requested \in Nat
    BY DEF StreamInv, TypeOK
  <2>3. QED
    BY <1>1, <1>2, <2>1, <2>2 DEF StreamInv, RequestOK
<1>11. QED
  BY <1>5, <1>8, <1>9, <1>10 DEF StreamInv

LEMMA InitInv == Init => StreamInv
<1> SUFFICES ASSUME Init PROVE StreamInv
  OBVIOUS
<1>1. /\ phase = "gate" /\ request \in Requests /\ status = 0 /\ body \in {"open", "ended"}
      /\ requested = 0 /\ answered = 0 /\ errorReceipt = -1
      /\ sse = FALSE /\ long = FALSE /\ completed = FALSE
      /\ fed = <<>> /\ trailing = <<>> /\ hashed = <<>> /\ out = <<>>
      /\ wire = <<>> /\ receipts = <<>>
  BY DEF Init, DetectorInit
<1>2. <<>> \o <<>> = <<>> /\ Len(<<>>) = 0 /\ Take(<<>>, 0) = <<>>
  BY EmptyBytes, TakeAll, Zenon DEF Bytes
<1>3. Stream = <<>>
  BY <1>1 DEF Stream
<1>4. TypeOK
  <2>1. Len(trailing) < MarkerLen
    BY <1>1, <1>2, MarkerIs
  <2>2. /\ {fed, trailing, hashed, out} \subseteq Seq(Alphabet)
        /\ wire \in Seq(Alphabet \cup {RECEIPT, KILLED, FRAME})
        /\ receipts \in Seq([hash : Seq(Alphabet), request : Nat, at : Nat,
                             done : {"marker", "killed"}])
    BY <1>1
  <2>3. {sse, completed, long} \subseteq BOOLEAN
    BY <1>1, Zenon
  <2>4. /\ request \in Requests /\ phase \in Phases /\ body \in {"open", "ended", "over", "broken"}
        /\ status \in {0, 200, 400, 401, 403, 413, 422, 429, 500, 502, 503}
        /\ {requested, answered} \subseteq Nat /\ errorReceipt \in Nat \cup {-1}
    BY <1>1 DEF Phases
  <2>5. QED
    BY <2>1, <2>2, <2>3, <2>4 DEF TypeOK
<1>5. DetectorOK
  BY <1>1, <1>2 DEF DetectorOK
<1>6. WireOK
  BY <1>1, <1>2, <1>3 DEF WireOK, Idle, InTask, Whole, Untouched
<1>7. RequestOK
  BY <1>1, StreamAssumption DEF RequestOK
<1>8. QED
  BY <1>4, <1>5, <1>6, <1>7 DEF StreamInv

LEMMA NextInv == StreamInv /\ [Next]_vars => StreamInv'
<1> SUFFICES ASSUME StreamInv, [Next]_vars PROVE StreamInv'
  OBVIOUS
<1>1. CASE Refuse \/ AttestationDocument \/ AdminHandler \/ Shed \/ SendFails
  BY <1>1, GateKeeps
<1>2. CASE ProxyHandler \/ Admitted \/ Eof \/ ClientGone
  BY <1>2, MovesKeeps
<1>3. CASE (\E n \in 1 .. MaxPiece : ReadBody(n)) \/ BodyEnds
  BY <1>3, BodyKeeps
<1>4. CASE UpstreamError
  BY <1>4, UpstreamErrorKeeps
<1>5. CASE UpstreamAnswers
  BY <1>5, UpstreamAnswersKeeps
<1>6. CASE \E b \in Chunks : Output(b)
  BY <1>6, OutputKeeps
<1>7. CASE Shutdown
  BY <1>7, ShutdownKeeps
<1>8. CASE Finish
  BY <1>8, FinishKeeps
<1>9. CASE StreamError
  BY <1>9, StreamErrorKeeps
<1>10. CASE UNCHANGED vars
  <2>1. /\ Still /\ UNCHANGED <<wire, phase, request, status, body, requested, answered, errorReceipt,
                                completed, receipts, fed, out, trailing, hashed>>
    BY <1>10 DEF vars, head, bodyVars, detector, Still
  <2>2. DetectorOK' /\ Stream' = Stream /\ Retained' = Retained
    BY <2>1, StillStep
  <2>3. TypeOK'
    BY <2>1 DEF StreamInv, TypeOK, Still, detector
  <2>4. WireOK'
    BY <2>1, <2>2 DEF StreamInv, WireOK, Untouched, Still
  <2>5. RequestOK'
    <3>1. Verdict(request') = Verdict(request)
      BY <2>1
    <3>2. QED
      BY <2>1, <3>1 DEF StreamInv, RequestOK
  <2>6. QED
    BY <2>2, <2>3, <2>4, <2>5 DEF StreamInv
<1>11. QED
  BY <1>1, <1>2, <1>3, <1>4, <1>5, <1>6, <1>7, <1>8, <1>9, <1>10 DEF Next

\* The invariant holds of every request, for every marker, every cut of
\* the response and every size of the body.
THEOREM StreamInvariant == Spec => []StreamInv
<1>1. Init => StreamInv
  BY InitInv
<1>2. StreamInv /\ [Next]_vars => StreamInv'
  BY NextInv
<1>3. QED
  BY <1>1, <1>2, PTL DEF Spec

-----------------------------------------------------------------------------
(***************************************************************************)
(* What the invariant says.                                                *)
(***************************************************************************)
LEMMA InvPassThrough == StreamInv => PassThrough
<1> SUFFICES ASSUME StreamInv PROVE PassThrough
  OBVIOUS
<1>1. out \o trailing = fed /\ (completed => trailing = <<>>)
  BY DEF StreamInv, DetectorOK
<1>2. phase \in InTask => wire = Stream
  BY DEF StreamInv, WireOK, Whole
<1>3. (phase = "logged" => trailing = <<>>) /\ WireEnds
  BY DEF StreamInv, WireOK, WireEnds
<1>4. completed \/ phase = "logged" => trailing = <<>>
  BY <1>1, <1>3
<1>5. QED
  BY <1>1, <1>2, <1>3, <1>4 DEF PassThrough, WireEnds

LEMMA InvOneReceipt == StreamInv => OneReceipt
<1> SUFFICES ASSUME StreamInv PROVE OneReceipt
  OBVIOUS
<1>1. completed => Len(receipts) = 1 /\ receipts # <<>>
  BY DEF StreamInv, DetectorOK
<1>2. ~completed => receipts = <<>> /\ Len(receipts) = 0
  BY DEF StreamInv, DetectorOK
<1>3. errorReceipt # -1 => ~completed
  BY DEF StreamInv, RequestOK
<1>4. Len(receipts) <= 1
  <2>1. CASE completed
    BY <1>1, <2>1
  <2>2. CASE ~completed
    BY <1>2, <2>2
  <2>3. QED
    BY <2>1, <2>2
<1>5. completed \in BOOLEAN
  BY DEF StreamInv, TypeOK
<1>6. completed <=> receipts # <<>>
  BY <1>1, <1>2, <1>5, ZenonT(40)
<1>7. QED
  BY <1>2, <1>3, <1>4, <1>6, Zenon DEF OneReceipt

LEMMA InvMarker == StreamInv => MarkerNeverMissed
<1> SUFFICES ASSUME StreamInv, sse PROVE (Starts(fed) # {} => completed)
                     /\ (completed => Starts(fed) # {} \/ receipts[1].done = "killed")
  BY DEF MarkerNeverMissed
<1>1. Ready
  BY InvReady DEF StreamInv
<1>2. Starts(fed) # {} => completed
  BY <1>1, ReadyIs
<1>3. ASSUME completed, receipts[1].done # "killed" PROVE Starts(fed) # {}
  <2> DEFINE r == receipts[1]
             k == r.at + 1
  <2>1. receipts # <<>>
    BY <1>3 DEF StreamInv, DetectorOK
  <2>2. r \in ReceiptSet /\ ReceiptOK(r) /\ r.at \in 0 .. Len(out)
    BY <1>1, <2>1, ReceiptIs
  <2>3. r.done = "marker" /\ r.at \in Nat
    BY <1>3, <2>2 DEF ReceiptSet
  <2> HIDE DEF r
  <2>4. r.at + MarkerLen <= Len(out) /\ SubSeq(out, r.at + 1, r.at + MarkerLen) = Marker
    BY <2>2, <2>3 DEF ReceiptOK
  <2>5. k \in Nat /\ 1 <= k /\ EndOf(k) = r.at + MarkerLen
    BY <2>3, MarkerIs DEF EndOf
  <2> HIDE DEF k
  <2>6. SubSeq(out, k, EndOf(k)) = Marker /\ EndOf(k) <= Len(out)
    BY <2>4, <2>5 DEF k
  <2>7. out \in Seq(Alphabet) /\ out = fed
    BY <1>1, <1>3, ReadyIs DEF Bytes
  <2>8. k \in Starts(out)
    BY <2>5, <2>6, <2>7, IsStart
  <2>9. QED
    BY <2>7, <2>8
<1>4. QED
  BY <1>2, <1>3

LEMMA InvProbe == StreamInv => ProbeInBounds
<1> SUFFICES ASSUME StreamInv, sse, ~completed, NEW b \in Chunks
             PROVE  /\ Len(Probe(b)) <= 2 * MarkerLen
                    /\ Starts(b) = {} /\ trailing # <<>> /\ Starts(Probe(b)) # {}
                         => /\ First(Probe(b)) <= Len(trailing)
                            /\ CurrentStart(b) \in 1 .. Len(b)
  BY DEF ProbeInBounds
<1>1. DetectorTyped
  BY InvReady DEF StreamInv, Ready
<1>2. b \in Bytes
  BY MarkerAssumption DEF Chunks, Bytes
<1>3. Len(Probe(b)) <= 2 * MarkerLen
  <2> DEFINE n == AtMost(Len(b), RetainLen)
  <2>1. n \in Nat /\ n <= RetainLen /\ Len(Probe(b)) = Len(trailing) + n
    BY <1>1, <1>2, ProbeIs
  <2>2. Len(trailing) \in Nat /\ Len(trailing) < MarkerLen
    BY <1>1, LenBytes DEF DetectorTyped
  <2> HIDE DEF n
  <2>3. QED
    BY <2>1, <2>2, MarkerIs
<1>4. ASSUME Starts(b) = {}, Starts(Probe(b)) # {}
      PROVE  First(Probe(b)) <= Len(trailing) /\ CurrentStart(b) \in 1 .. Len(b)
  <2>1. First(Probe(b)) \in 1 .. Len(trailing) /\ CurrentStart(b) \in 1 .. Len(b)
    BY <1>1, <1>2, <1>4, AcrossSplits
  <2>2. QED
    BY <2>1
<1>5. QED
  BY <1>3, <1>4

LEMMA InvLogged == StreamInv => LoggedOnlyWhole
<1> SUFFICES ASSUME StreamInv, phase = "logged"
             PROVE  /\ wire = Stream /\ out = fed /\ status = 200
                    /\ receipts # <<>> => receipts[1].done = "marker"
                    /\ receipts = <<>> /\ (~sse \/ ~long) => hashed = out
  BY DEF LoggedOnlyWhole
<1>1. Ready /\ wire = Stream /\ status = 200 /\ trailing = <<>>
      /\ (completed => sse /\ receipts[1].done = "marker")
  BY InvReady DEF StreamInv, WireOK, Whole
<1>2. out = fed
  BY <1>1, ReadyIs, EmptyBytes
<1>3. receipts # <<>> => completed
  BY <1>1, ReceiptIs
<1>4. receipts = <<>> /\ (~sse \/ ~long) => hashed = out
  BY DEF StreamInv, DetectorOK
<1>5. QED
  BY <1>1, <1>2, <1>3, <1>4

LEMMA InvRequest == StreamInv => OnlyAdmittedBytesSent /\ RequestHashExactIfReadFirst
<1> SUFFICES ASSUME StreamInv PROVE OnlyAdmittedBytesSent /\ RequestHashExactIfReadFirst
  OBVIOUS
<1>1. RequestOK /\ request \in Requests
  BY DEF StreamInv, TypeOK
<1>2. OnlyAdmittedBytesSent
  BY <1>1, VerdictIs DEF RequestOK, OnlyAdmittedBytesSent, InTask
<1>3. ASSUME NEW q \in RequestHashes PROVE q \in Int /\ answered <= q /\ q <= requested
  <2>1. CASE q \in {errorReceipt} \ {-1}
    BY <1>1, <2>1 DEF RequestOK, StreamInv, TypeOK
  <2>2. CASE \E k \in DOMAIN receipts : q = receipts[k].request
    <3>1. PICK k \in DOMAIN receipts : q = receipts[k].request
      BY <2>2
    <3>2. receipts # <<>> /\ Ready /\ receipts \in Seq(ReceiptSet)
      BY InvReady, ReadyIs DEF StreamInv
    <3>3. completed /\ Len(receipts) = 1
      BY <3>2, ReceiptIs
    <3>4. k = 1
      BY <3>1, <3>2, <3>3
    <3>5. receipts[1].request \in Nat
      BY <3>2, ReceiptIs DEF ReceiptSet
    <3>6. QED
      BY <1>1, <3>1, <3>3, <3>4, <3>5 DEF RequestOK
  <2>3. QED
    BY <2>1, <2>2 DEF RequestHashes
<1>4. ASSUME NEW q \in RequestHashes, answered = requested PROVE q = requested
  <2>1. q \in Int /\ answered <= q /\ q <= requested /\ requested \in Nat
    BY <1>3, <1>4 DEF StreamInv, TypeOK
  <2>2. QED
    BY <1>4, <2>1
<1>5. QED
  BY <1>2, <1>4, Zenon DEF RequestHashExactIfReadFirst, RequestHashExact

LEMMA PartIs ==
  ASSUME NEW S, NEW s \in Seq(S), NEW m \in Nat, NEW n \in Nat, 1 <= m, m <= n, n <= Len(s)
  PROVE  /\ SubSeq(s, m, n) \in Seq(S) /\ Len(SubSeq(s, m, n)) = n - m + 1
         /\ \A i \in 1 .. n - m + 1 : SubSeq(s, m, n)[i] = s[m + i - 1]
  OBVIOUS

LEMMA JoinItems ==
  ASSUME NEW s \in Text, NEW t \in Text
  PROVE  /\ Len(s \o t) = Len(s) + Len(t)
         /\ \A i \in 1 .. Len(s) : (s \o t)[i] = s[i]
         /\ \A i \in Len(s) + 1 .. Len(s) + Len(t) : (s \o t)[i] = t[i - Len(s)]
  BY DEF Text

\* A text whose bytes are those of s, or the frame of an error, has no marker
\* that s does not have.
LEMMA NoStartBeyond ==
  ASSUME NEW s \in Bytes, Starts(s) = {}, NEW w \in Text,
         \A i \in 1 .. Len(w) : (i <= Len(s) /\ w[i] = s[i]) \/ w[i] = FRAME
  PROVE  Starts(w) = {}
<1> SUFFICES ASSUME NEW k \in Starts(w) PROVE FALSE
  OBVIOUS
<1> DEFINE e == k + MarkerLen - 1
           c == SubSeq(w, k, e)
           a == SubSeq(s, k, e)
<1>0. /\ Len(w) \in Nat /\ Len(s) \in Nat /\ w \in Seq(Items) /\ s \in Seq(Items)
      /\ Marker \in Seq(Alphabet) /\ MarkerLen = Len(Marker) /\ MarkerLen \in Nat /\ MarkerLen > 1
  BY TextIs, LenBytes, BytesAreText, MarkerIs DEF Text, MarkerLen
<1>1. k \in 1 .. Len(w) - MarkerLen + 1 /\ c = Marker
  BY DEF Starts
<1>2. k \in Nat /\ 1 <= k /\ e \in Nat /\ k <= e /\ e <= Len(w) /\ e - k + 1 = MarkerLen
  BY <1>0, <1>1
<1> HIDE DEF e
<1>3. c \in Seq(Items) /\ Len(c) = e - k + 1 /\ \A i \in 1 .. e - k + 1 : c[i] = w[k + i - 1]
  BY <1>0, <1>2, PartIs
<1> HIDE DEF c
<1>4. ASSUME NEW i \in 1 .. e - k + 1 PROVE k + i - 1 <= Len(s) /\ w[k + i - 1] = s[k + i - 1]
  <2>1. k + i - 1 \in 1 .. Len(w) /\ i \in 1 .. Len(Marker)
    BY <1>0, <1>2
  <2>2. Marker[i] \in Alphabet
    BY <1>0, <2>1
  <2>3. w[k + i - 1] # FRAME
    BY <1>1, <1>3, <2>2, ItemsAre
  <2>4. QED
    BY <2>1, <2>3
<1>5. e <= Len(s)
  <2>1. e - k + 1 \in 1 .. e - k + 1 /\ k + (e - k + 1) - 1 = e
    BY <1>2
  <2>2. QED
    BY <1>4, <2>1
<1>6. a \in Seq(Items) /\ Len(a) = e - k + 1 /\ \A i \in 1 .. e - k + 1 : a[i] = s[k + i - 1]
  BY <1>0, <1>2, <1>5, PartIs
<1> HIDE DEF a
<1>7. \A i \in 1 .. e - k + 1 : a[i] = c[i]
  BY <1>3, <1>4, <1>6
<1>8. a = c
  BY <1>3, <1>6, <1>7, SeqEqual
<1>9. k \in Starts(s)
  <2>1. SubSeq(s, k, EndOf(k)) = Marker /\ EndOf(k) <= Len(s)
    BY <1>1, <1>5, <1>8 DEF a, e, EndOf
  <2>2. QED
    BY <1>2, <2>1, IsStart DEF Bytes
<1>10. QED
  BY <1>9

LEMMA NoteItems ==
  ASSUME NEW r
  PROVE  /\ Note(r) \in Text /\ Len(Note(r)) \in {1, 2} /\ Note(r)[1] = RECEIPT
         /\ Len(Note(r)) = 2 => Note(r)[2] # RECEIPT
         /\ r.done # "killed" => Len(Note(r)) = 1
<1> DEFINE a == <<RECEIPT>>
           z == IF r.done = "killed" THEN <<KILLED>> ELSE <<>>
<1>1. /\ a \in Text /\ Len(a) = 1 /\ a[1] = RECEIPT
  BY TextIs
<1>2. /\ z \in Text /\ Len(z) \in {0, 1} /\ (r.done # "killed" => Len(z) = 0)
      /\ (Len(z) = 1 => z[1] = KILLED)
  BY TextIs
<1>3. Note(r) = a \o z
  BY DEF Note
<1> HIDE DEF a, z
<1>4. /\ Len(Note(r)) = Len(a) + Len(z) /\ Note(r) \in Text
      /\ \A i \in 1 .. Len(a) : Note(r)[i] = a[i]
      /\ \A i \in Len(a) + 1 .. Len(a) + Len(z) : Note(r)[i] = z[i - Len(a)]
  BY <1>1, <1>2, <1>3, JoinItems, TextJoin
<1>5. Len(Note(r)) = 2 => Note(r)[2] = KILLED
  BY <1>1, <1>2, <1>4
<1>6. QED
  BY <1>1, <1>2, <1>4, <1>5, ItemsAre

LEMMA NoReceiptByte ==
  ASSUME NEW x \in Bytes, NEW i \in 1 .. Len(x)
  PROVE  x[i] # RECEIPT
<1>1. x[i] \in Alphabet
  BY DEF Bytes
<1>2. QED
  BY <1>1, ItemsAre

\* w is s with the receipt of a task that ended with done after its first k bytes.
Marked(w, s, k, done) ==
  /\ w[k + 1] = RECEIPT
  /\ \A i \in 1 .. k : w[i] = s[i]
  /\ \A i \in 1 .. Len(w) : w[i] = RECEIPT => i = k + 1
  /\ done # "killed" => \A i \in k + 2 .. Len(w) : w[i] = s[i - 1]

\* Where the receipt stands among the items.
LEMMA WithItems ==
  ASSUME NEW s \in Bytes, NEW k \in 0 .. Len(s), NEW r
  PROVE  Marked(With(s, k, r), s, k, r.done)
<1> DEFINE a == Take(s, k)
           z == Drop(s, k)
           n == Note(r)
           v == a \o n
           w == With(s, k, r)
<1>0. k \in Nat /\ Len(s) \in Nat /\ k <= Len(s)
  BY LenBytes
<1>1. a \in Bytes /\ Len(a) = k /\ \A i \in 1 .. k : a[i] = s[i]
  BY TakeIs DEF Bytes
<1>2. z \in Bytes /\ Len(z) = Len(s) - k /\ \A i \in 1 .. Len(s) - k : z[i] = s[k + i]
  BY DropIs DEF Bytes
<1>3. /\ n \in Text /\ Len(n) \in {1, 2} /\ n[1] = RECEIPT /\ (Len(n) = 2 => n[2] # RECEIPT)
      /\ (r.done # "killed" => Len(n) = 1)
  BY NoteItems
<1>4. w = v \o z /\ a \in Text /\ z \in Text
  BY <1>1, <1>2, BytesAreText DEF With
<1> HIDE DEF a, z, n, w
<1>5. /\ v \in Text /\ Len(v) = k + Len(n)
      /\ \A i \in 1 .. k : v[i] = a[i]
      /\ \A i \in k + 1 .. k + Len(n) : v[i] = n[i - k]
  BY <1>1, <1>3, <1>4, JoinItems, TextJoin, ZenonT(40)
<1> HIDE DEF v
<1>6. /\ w \in Text /\ Len(w) = Len(v) + Len(z)
      /\ \A i \in 1 .. Len(v) : w[i] = v[i]
      /\ \A i \in Len(v) + 1 .. Len(v) + Len(z) : w[i] = z[i - Len(v)]
  <2>1. v \in Text /\ z \in Text
    BY <1>4, <1>5
  <2>2. /\ v \o z \in Text /\ Len(v \o z) = Len(v) + Len(z)
        /\ \A i \in 1 .. Len(v) : (v \o z)[i] = v[i]
        /\ \A i \in Len(v) + 1 .. Len(v) + Len(z) : (v \o z)[i] = z[i - Len(v)]
    BY <2>1, JoinItems, TextJoin
  <2>3. QED
    BY <1>4, <2>2
<1>7. /\ Len(w) \in Nat /\ Len(v) \in Nat /\ Len(z) \in Nat /\ k + 1 <= Len(v) /\ k + 1 <= Len(w)
  <2>1. Len(n) \in Nat /\ 1 <= Len(n)
    BY <1>3
  <2>2. Len(v) \in Nat /\ k + 1 <= Len(v)
    BY <1>0, <1>5, <2>1
  <2>3. Len(z) \in Nat
    BY <1>4, TextIs
  <2>4. QED
    BY <1>0, <1>6, <2>2, <2>3
<1>8. w[k + 1] = RECEIPT
  <2>1. k + 1 \in k + 1 .. k + Len(n) /\ k + 1 \in 1 .. Len(v) /\ k + 1 - k = 1
    BY <1>0, <1>3, <1>5
  <2>2. QED
    BY <1>3, <1>5, <1>6, <2>1
<1>9. ASSUME NEW i \in 1 .. k PROVE w[i] = s[i]
  <2>1. i \in 1 .. Len(v)
    BY <1>0, <1>7
  <2>2. QED
    BY <1>1, <1>5, <1>6, <2>1
<1>10. ASSUME NEW i \in 1 .. Len(w), w[i] = RECEIPT PROVE i = k + 1
  <2>1. CASE i \in 1 .. k
    <3>1. w[i] = s[i] /\ i \in 1 .. Len(s)
      BY <1>0, <1>9, <2>1
    <3>2. QED
      BY <1>10, <3>1, NoReceiptByte
  <2>2. CASE i \in k + 2 .. Len(v)
    <3>1. i = k + 2 /\ Len(n) = 2 /\ i \in k + 1 .. k + Len(n) /\ i \in 1 .. Len(v) /\ i - k = 2
      <4>1. i \in Nat /\ k + 2 <= i /\ i <= Len(v) /\ Len(v) = k + Len(n)
        BY <1>0, <1>5, <1>7, <2>2
      <4>2. Len(n) = 2
        <5>1. Len(n) = 1 \/ Len(n) = 2
          BY <1>3
        <5>2. ASSUME Len(n) = 1 PROVE FALSE
          <6>1. Len(v) = k + 1 /\ Len(v) \in Nat
            BY <1>7, <4>1, <5>2
          <6>2. k + 2 <= Len(v)
            BY <1>0, <4>1, <6>1
          <6>3. QED
            BY <1>0, <6>1, <6>2
        <5>3. QED
          BY <5>1, <5>2
      <4>3. i = k + 2
        BY <1>0, <4>1, <4>2
      <4>4. QED
        BY <1>0, <4>1, <4>2, <4>3
    <3>2. QED
      BY <1>3, <1>5, <1>6, <1>10, <3>1
  <2>3. CASE i \in Len(v) + 1 .. Len(w)
    <3>1. i - Len(v) \in 1 .. Len(z) /\ i \in Len(v) + 1 .. Len(v) + Len(z)
      BY <1>6, <1>7, <2>3
    <3>2. z[i - Len(v)] = RECEIPT
      BY <1>6, <1>10, <3>1
    <3>3. QED
      BY <1>2, <3>1, <3>2, NoReceiptByte
  <2>4. QED
    BY <1>0, <1>7, <2>1, <2>2, <2>3
<1>11. ASSUME r.done # "killed"
       PROVE  Len(w) = Len(s) + 1 /\ \A i \in k + 2 .. Len(w) : w[i] = s[i - 1]
  <2>1. Len(w) = Len(s) + 1 /\ Len(v) = k + 1
    <3>1. Len(n) = 1 /\ Len(v) = k + Len(n) /\ Len(w) = Len(v) + Len(z) /\ Len(z) = Len(s) - k
      BY <1>2, <1>3, <1>5, <1>6, <1>11
    <3>2. QED
      BY <1>0, <3>1
  <2>2. ASSUME NEW i \in k + 2 .. Len(w) PROVE w[i] = s[i - 1]
    <3> DEFINE j == i - Len(v)
    <3>1. j \in 1 .. Len(s) - k /\ k + j = i - 1 /\ i \in Len(v) + 1 .. Len(v) + Len(z)
      BY <1>0, <1>6, <2>1
    <3>2. w[i] = z[j]
      BY <1>6, <3>1
    <3> HIDE DEF j
    <3>3. z[j] = s[k + j]
      BY <1>2, <3>1
    <3>4. QED
      BY <3>1, <3>2, <3>3
  <2>3. QED
    BY <2>1, <2>2
<1>12. QED
  BY <1>6, <1>7, <1>8, <1>9, <1>10, <1>11 DEF w, Marked

LEMMA StreamItems ==
  ASSUME NEW a \in 0 .. Len(out), NEW r, out \in Bytes, Stream = With(out, a, r)
  PROVE  /\ Stream[a + 1] = RECEIPT
         /\ \A i \in 1 .. a : Stream[i] = out[i]
         /\ \A i \in 1 .. Len(Stream) : Stream[i] = RECEIPT => i = a + 1
         /\ r.done # "killed" => \A i \in a + 2 .. Len(Stream) : Stream[i] = out[i - 1]
<1>1. Marked(Stream, out, a, r.done)
  BY WithItems
<1>2. QED
  BY <1>1 DEF Marked

\* The client's queue: items of the stream, and the frame of an error at most.
LEMMA WireItems ==
  ASSUME StreamInv
  PROVE  \E n \in 0 .. Len(Stream) :
           /\ wire \in Text /\ Stream \in Text /\ Len(wire) \in {n, n + 1}
           /\ \A i \in 1 .. n : wire[i] = Stream[i]
           /\ Len(wire) = n + 1 => wire[n + 1] = FRAME
<1>1. Stream \in Text /\ wire \in Text
  BY InvReady, StreamIs DEF StreamInv, TypeOK, Text, Items
<1>2. PICK n \in 0 .. Len(Stream) :
        wire = Take(Stream, n) \/ wire = Append(Take(Stream, n), FRAME)
  BY DEF StreamInv, WireOK
<1> DEFINE a == Take(Stream, n)
<1>3. a \in Text /\ Len(a) = n /\ (\A i \in 1 .. n : a[i] = Stream[i]) /\ n \in Nat
  BY <1>1, TakeIs, TextIs DEF Text
<1> HIDE DEF a
<1>4. CASE wire = a
  BY <1>1, <1>3, <1>4
<1>5. CASE wire = Append(a, FRAME)
  <2>1. Len(wire) = n + 1 /\ wire[n + 1] = FRAME /\ \A i \in 1 .. n : wire[i] = a[i]
    BY <1>3, <1>5, ItemsAre DEF Text
  <2>2. QED
    BY <1>1, <1>3, <2>1
<1>6. QED
  BY <1>2, <1>4, <1>5 DEF a

\* The response in front of the receipt, all of it without one.
Front == IF receipts = <<>> THEN out ELSE Take(out, receipts[1].at)

LEMMA FrontIs ==
  ASSUME StreamInv, ~long
  PROVE  /\ Front \in Bytes
         /\ sse => Starts(Front) = {}
         /\ receipts # <<>> => /\ Front = Take(out, receipts[1].at)
                               /\ Len(Front) = receipts[1].at /\ receipts[1].hash = Front
<1>1. Ready /\ out \in Bytes
  BY InvReady, ReadyIs DEF StreamInv
<1>2. CASE receipts = <<>>
  <2>1. Front = out /\ ~completed
    BY <1>2 DEF Front, StreamInv, DetectorOK
  <2>2. out \in Seq(Alphabet) /\ trailing \in Seq(Alphabet) /\ out \o trailing = fed
    BY <1>1, ReadyIs DEF Bytes
  <2>3. Starts(out) \subseteq Starts(fed)
    BY <2>2, StartsMove, ZenonT(40)
  <2>4. sse => Starts(fed) = {}
    BY <1>1, <2>1, ReadyIs
  <2>5. QED
    BY <1>1, <1>2, <2>1, <2>3, <2>4
<1>3. CASE receipts # <<>>
  <2>1. Front = Take(out, receipts[1].at)
    BY <1>3 DEF Front
  <2>2. receipts[1].at \in 0 .. Len(out) /\ ReceiptOK(receipts[1])
    BY <1>1, <1>3, ReceiptIs
  <2>3. Front \in Bytes /\ Len(Front) = receipts[1].at
    BY <1>1, <2>1, <2>2, TakeIs DEF Bytes
  <2>4. receipts[1].hash = Front /\ (sse => Starts(Front) = {})
    BY <2>1, <2>2 DEF ReceiptOK
  <2>5. QED
    BY <2>1, <2>3, <2>4
<1>4. QED
  BY <1>2, <1>3

\* Without a receipt in the queue, the client has a beginning of that front.
LEMMA InvReceiptless ==
  ASSUME StreamInv, ~long, sse, ReceiptPlaces = {}
  PROVE  Starts(wire) = {}
<1>1. PICK n \in 0 .. Len(Stream) :
        /\ wire \in Text /\ Stream \in Text /\ Len(wire) \in {n, n + 1}
        /\ \A i \in 1 .. n : wire[i] = Stream[i]
        /\ Len(wire) = n + 1 => wire[n + 1] = FRAME
  BY WireItems
<1>2. Front \in Bytes /\ Starts(Front) = {} /\ Len(Front) \in Nat
  BY FrontIs, LenBytes
<1>3. n \in Nat /\ Len(Stream) \in Nat /\ n <= Len(Stream) /\ Len(wire) \in Nat
  BY <1>1, TextIs
<1>4. n <= Len(Front) /\ \A i \in 1 .. n : Stream[i] = Front[i]
  <2>1. CASE receipts = <<>>
    <3>1. Stream = out /\ Front = out
      BY <2>1 DEF Stream, Front
    <3>2. QED
      BY <1>3, <3>1
  <2>2. CASE receipts # <<>>
    <3> DEFINE r == receipts[1]
    <3>1. Ready /\ out \in Bytes
      BY InvReady, ReadyIs DEF StreamInv
    <3>2. r.at \in 0 .. Len(out) /\ Stream = With(out, r.at, r)
      BY <2>2, <3>1, ReceiptIs, StreamIs
    <3>3. Front = Take(out, r.at) /\ Len(Front) = r.at
      BY <2>2, FrontIs
    <3> HIDE DEF r
    <3>a. r.at \in Nat
      BY <1>2, <3>3
    <3>b. PICK at \in Nat : at = r.at
      BY <3>a
    <3>4. /\ Stream[r.at + 1] = RECEIPT /\ \A i \in 1 .. r.at : Stream[i] = out[i]
      <4>1. out \in Bytes
        BY <3>1
      <4>2. at \in 0 .. Len(out) /\ Stream = With(out, at, r)
        BY <3>2, <3>b
      <4>3. Stream[at + 1] = RECEIPT /\ \A i \in 1 .. at : Stream[i] = out[i]
        BY <4>1, <4>2, StreamItems
      <4>4. QED
        BY <3>b, <4>3
    <3>5. \A i \in 1 .. r.at : Front[i] = out[i]
      BY <3>1, <3>2, <3>3, TakeIs DEF Bytes
    <3>6. r.at \in Nat
      BY <1>2, <3>3
    <3>7. ASSUME n > r.at PROVE FALSE
      <4>1. r.at + 1 \in 1 .. n
        BY <1>3, <3>6, <3>7
      <4>2. wire[r.at + 1] = RECEIPT
        BY <1>1, <3>4, <4>1
      <4>3. r.at + 1 \in DOMAIN wire
        <5>1. n <= Len(wire)
          BY <1>1, <1>3
        <5>2. r.at + 1 \in 1 .. Len(wire) /\ DOMAIN wire = 1 .. Len(wire)
          BY <1>1, <1>3, <4>1, <5>1 DEF Text
        <5>3. QED
          BY <5>2
      <4>4. QED
        BY <4>2, <4>3 DEF ReceiptPlaces
    <3>8. n <= r.at
      BY <1>3, <3>6, <3>7
    <3>9. ASSUME NEW i \in 1 .. n PROVE Stream[i] = Front[i]
      <4>1. i \in 1 .. r.at
        BY <1>3, <3>6, <3>8
      <4>2. QED
        BY <3>4, <3>5, <4>1
    <3>10. QED
      BY <3>3, <3>8, <3>9
  <2>3. QED
    BY <2>1, <2>2
<1>5. ASSUME NEW i \in 1 .. Len(wire)
      PROVE  (i <= Len(Front) /\ wire[i] = Front[i]) \/ wire[i] = FRAME
  <2>1. CASE i \in 1 .. n
    BY <1>1, <1>2, <1>3, <1>4, <2>1
  <2>2. CASE i \notin 1 .. n
    <3>1. i = n + 1 /\ Len(wire) = n + 1
      BY <1>1, <1>3, <2>2
    <3>2. QED
      BY <1>1, <3>1
  <2>3. QED
    BY <2>1, <2>2
<1>6. QED
  BY <1>1, <1>2, <1>5, NoStartBeyond

LEMMA MarkerBytes ==
  ASSUME NEW s \in Bytes, NEW at \in Nat, at + MarkerLen <= Len(s),
         SubSeq(s, at + 1, at + MarkerLen) = Marker, NEW i \in 1 .. MarkerLen
  PROVE  s[at + i] = Marker[i]
<1> DEFINE m == at + 1
           e == at + MarkerLen
<1>1. /\ m \in Nat /\ e \in Nat /\ 1 <= m /\ m <= e /\ e - m + 1 = MarkerLen /\ m + i - 1 = at + i
  BY MarkerIs
<1>a. e <= Len(s) /\ i \in 1 .. e - m + 1 /\ s \in Seq(Alphabet)
  BY <1>1 DEF Bytes
<1> HIDE DEF m, e
<1>2. SubSeq(s, m, e)[i] = s[m + i - 1]
  BY <1>1, <1>a, PartIs
<1>3. QED
  BY <1>1, <1>2 DEF m, e

\* The receipt in the queue has the front, whole, before it and the marker behind.
LEMMA InvReceiptPlace ==
  ASSUME StreamInv, ~long, NEW p \in ReceiptPlaces
  PROVE  /\ Take(wire, p - 1) = Front /\ receipts[1].hash = Front
         /\ receipts[1].done = "marker" =>
              \A i \in 1 .. MarkerLen :
                p + i \in DOMAIN wire => wire[p + i] \in {Marker[i], FRAME}
<1>1. PICK n \in 0 .. Len(Stream) :
        /\ wire \in Text /\ Stream \in Text /\ Len(wire) \in {n, n + 1}
        /\ \A i \in 1 .. n : wire[i] = Stream[i]
        /\ Len(wire) = n + 1 => wire[n + 1] = FRAME
  BY WireItems
<1>2. Ready /\ out \in Bytes /\ Front \in Bytes /\ Len(out) \in Nat
  BY InvReady, ReadyIs, FrontIs, LenBytes DEF StreamInv
<1>3. n \in Nat /\ Len(Stream) \in Nat /\ n <= Len(Stream) /\ Len(wire) \in Nat
  BY <1>1, TextIs
<1>4. p \in Nat /\ 1 <= p /\ p <= n /\ Stream[p] = RECEIPT
  <2>1. p \in 1 .. Len(wire) /\ wire[p] = RECEIPT
    BY <1>1 DEF ReceiptPlaces, Text
  <2>2. p # n + 1
    <3>1. ASSUME p = n + 1 PROVE FALSE
      <4>1. Len(wire) = n + 1
        BY <1>1, <1>3, <2>1, <3>1
      <4>2. QED
        BY <1>1, <2>1, <3>1, <4>1, ItemsAre
    <3>2. QED
      BY <3>1
  <2>3. p \in 1 .. n
    BY <1>1, <1>3, <2>1, <2>2
  <2>4. QED
    BY <1>1, <1>3, <2>1, <2>3
<1>5. receipts # <<>>
  <2>1. ASSUME receipts = <<>> PROVE FALSE
    <3>1. Stream = out
      BY <2>1 DEF Stream
    <3>2. p \in 1 .. Len(out)
      BY <1>2, <1>3, <1>4, <3>1
    <3>3. QED
      BY <1>2, <1>4, <3>1, <3>2, NoReceiptByte
  <2>2. QED
    BY <2>1
<1> DEFINE r == receipts[1]
<1>a. r.at \in 0 .. Len(out) /\ Stream = With(out, r.at, r) /\ ReceiptOK(r)
  BY <1>2, <1>5, ReceiptIs, StreamIs
<1>b. Front = Take(out, r.at) /\ Len(Front) = r.at /\ r.hash = Front
  BY <1>5, FrontIs
<1> HIDE DEF r
<1>c. PICK at \in Nat : at = r.at /\ at \in 0 .. Len(out)
  BY <1>2, <1>a
<1>6. Stream = With(out, at, r) /\ ReceiptOK(r) /\ r.at = at
  BY <1>a, <1>c
<1>7. Front = Take(out, at) /\ Len(Front) = at /\ r.hash = Front
  BY <1>b, <1>c
<1>8. /\ \A i \in 1 .. at : Stream[i] = out[i]
      /\ \A i \in 1 .. Len(Stream) : Stream[i] = RECEIPT => i = at + 1
      /\ r.done # "killed" => \A i \in at + 2 .. Len(Stream) : Stream[i] = out[i - 1]
  <2>1. out \in Bytes
    BY <1>2
  <2>2. at \in 0 .. Len(out) /\ Stream = With(out, at, r)
    BY <1>6, <1>c
  <2>3. QED
    BY <2>1, <2>2, StreamItems
<1>9. p = at + 1 /\ p - 1 = at /\ at + 1 <= n
  <2>1. p \in 1 .. Len(Stream)
    BY <1>3, <1>4
  <2>2. p = at + 1
    BY <1>4, <1>8, <2>1
  <2>3. QED
    BY <1>4, <2>2
<1>10. Take(wire, p - 1) = Front
  <2>1. at \in 0 .. Len(wire)
    BY <1>1, <1>3, <1>9
  <2>2. /\ Take(wire, at) \in Seq(Items) /\ Len(Take(wire, at)) = at
        /\ \A i \in 1 .. at : Take(wire, at)[i] = wire[i]
    BY <1>1, <2>1, TakeIs, ZenonT(40) DEF Text
  <2>3. Front \in Seq(Items) /\ \A i \in 1 .. at : Front[i] = out[i]
    BY <1>2, <1>7, <1>c, TakeIs, BytesAreText, ZenonT(40) DEF Bytes, Text
  <2>4. ASSUME NEW i \in 1 .. at PROVE Take(wire, at)[i] = Front[i]
    <3>1. i \in 1 .. n
      BY <1>3, <1>9
    <3>2. wire[i] = out[i]
      BY <1>1, <1>8, <3>1
    <3>3. QED
      BY <2>2, <2>3, <3>2
  <2>5. Take(wire, at) = Front
    BY <1>7, <2>2, <2>3, <2>4, SeqEqual
  <2>6. QED
    BY <1>9, <2>5
<1>11. ASSUME r.done = "marker", NEW i \in 1 .. MarkerLen, p + i \in DOMAIN wire
       PROVE  wire[p + i] \in {Marker[i], FRAME}
  <2>1. i \in Nat /\ 1 <= i /\ i <= MarkerLen /\ MarkerLen \in Nat
    BY MarkerIs
  <2>2. p + i \in 1 .. Len(wire)
    BY <1>1, <1>11 DEF Text
  <2>3. CASE p + i = n + 1
    <3>1. Len(wire) = n + 1
      BY <1>1, <1>3, <2>2, <2>3
    <3>2. QED
      BY <1>1, <2>3, <3>1
  <2>4. CASE p + i # n + 1
    <3>1. p + i \in 1 .. n
      BY <1>1, <1>3, <2>2, <2>4
    <3>2. p + i \in at + 2 .. Len(Stream) /\ p + i - 1 = at + i
      BY <1>3, <1>9, <2>1, <3>1
    <3>3. wire[p + i] = out[at + i]
      <4>a. PICK q \in Nat : q = at + 1 + i
        BY <2>1
      <4>1. q = p + i /\ q - 1 = at + i /\ q \in at + 2 .. Len(Stream) /\ q \in 1 .. n
        BY <1>9, <2>1, <3>1, <3>2, <4>a
      <4>2. wire[q] = Stream[q]
        BY <1>1, <4>1
      <4>3. r.done # "killed"
        BY <1>11
      <4>4. \A k \in at + 2 .. Len(Stream) : Stream[k] = out[k - 1]
        BY <1>8, <4>3, ZenonT(40)
      <4>5. Stream[q] = out[q - 1]
        BY <4>1, <4>4
      <4>6. QED
        BY <4>1, <4>2, <4>5
    <3>4. out[at + i] = Marker[i]
      <4>1. at + MarkerLen <= Len(out) /\ SubSeq(out, at + 1, at + MarkerLen) = Marker
        BY <1>6, <1>11 DEF ReceiptOK
      <4>2. QED
        BY <1>2, <4>1, MarkerBytes, ZenonT(40)
    <3>5. QED
      BY <3>3, <3>4
  <2>5. QED
    BY <2>3, <2>4
<1>12. QED
  BY <1>7, <1>10, <1>11 DEF r

LEMMA InvReceipt == StreamInv => ReceiptExactForShortSegments
<1> SUFFICES ASSUME StreamInv, ~long PROVE ReceiptHashesPayload /\ ReceiptBeforeDone
  BY DEF ReceiptExactForShortSegments
<1>1. ReceiptHashesPayload
  BY InvReceiptPlace DEF ReceiptHashesPayload
<1>2. sse /\ ReceiptPlaces = {} => Starts(wire) = {}
  BY InvReceiptless
<1>3. \A p \in ReceiptPlaces : sse => Starts(Take(wire, p - 1)) = {}
  BY InvReceiptPlace, FrontIs
<1>4. \A p \in ReceiptPlaces : receipts[1].done = "marker" =>
        \A i \in 1 .. MarkerLen : p + i \in DOMAIN wire => wire[p + i] \in {Marker[i], FRAME}
  BY InvReceiptPlace
<1>5. QED
  BY <1>1, <1>2, <1>3, <1>4 DEF ReceiptBeforeDone

-----------------------------------------------------------------------------
(***************************************************************************)
(* The theorems.                                                           *)
(***************************************************************************)

\* Every variable of the task and its detector keeps its type, so the bytes held
\* back are fewer than the marker has, and a request has one receipt at most.
THEOREM StreamTypes == Spec => []TypeOK
  BY StreamInvariant, PTL DEF StreamInv

\* What inspect hands on and holds back is what the redactor put out, and what
\* the client's queue has is a beginning of it with the receipt in its place.
THEOREM StreamPassesThrough == Spec => []PassThrough
  BY StreamInvariant, InvPassThrough, PTL

\* Holding back marker_len - 1 bytes is enough, however the response is cut and
\* whatever the marker is.
THEOREM StreamMissesNoMarker == Spec => []MarkerNeverMissed
  BY StreamInvariant, InvMarker, PTL

\* The index arithmetic of inspect does not wrap and slices within its buffers.
THEOREM StreamProbeInBounds == Spec => []ProbeInBounds
  BY StreamInvariant, InvProbe, PTL

\* Marker, shutdown and the final flush add one receipt to a response at most.
THEOREM StreamOneReceipt == Spec => []OneReceipt
  BY StreamInvariant, InvOneReceipt, PTL

\* With short segments the receipt hashes exactly the bytes in front of it, and
\* what stands behind it is the marker.
THEOREM StreamReceiptExact == Spec => []ReceiptExactForShortSegments
  BY StreamInvariant, InvReceipt, PTL

\* A response logged as completed was queued whole and not cut by a shutdown, and
\* without a receipt its digest is its own.
THEOREM StreamLoggedWhole == Spec => []LoggedOnlyWhole
  BY StreamInvariant, InvLogged, PTL

\* The upstream gets nothing of a refused request, and never more than
\* MAX_BODY_SIZE of another.
THEOREM StreamAdmittedOnly == Spec => []OnlyAdmittedBytesSent
  BY StreamInvariant, InvRequest, PTL

\* The request hash of every receipt is exact for an upstream that has read the
\* request when it answers.
THEOREM StreamRequestHash == Spec => []RequestHashExactIfReadFirst
  BY StreamInvariant, InvRequest, PTL
=============================================================================
