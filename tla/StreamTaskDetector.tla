------------------------- MODULE StreamTaskDetector -------------------------
(***************************************************************************)
(* The inductive invariant of StreamTask, and its proof for the detector:   *)
(* what one call of inspect, shutdown or finish does to it, for every      *)
(* marker, every segment and every state.                                  *)
(***************************************************************************)
EXTENDS StreamTask, SequenceTheorems, WellFoundedInduction, TLAPS

\* The provers a step is given to in turn, with their time limits in seconds.
USE SMTT(20), SMTT(30), ZenonT(20), SMTT(40), SMTT(50), SMTT(60)

(***************************************************************************)
(* The inductive invariant.                                                *)
(***************************************************************************)

\* What a receipt says of the response it stands in.
ReceiptOK(r) ==
  /\ r.at <= Len(out)
  /\ r.done = "marker" =>
       r.at + MarkerLen <= Len(out) /\ SubSeq(out, r.at + 1, r.at + MarkerLen) = Marker
  /\ ~long => r.hash = Take(out, r.at)
  /\ ~long /\ sse => hashed = Take(out, r.at) /\ Starts(Take(out, r.at)) = {}

\* What holds between two calls of the detector.
DetectorOK ==
  /\ out \o trailing = fed
  /\ completed \/ ~sse => trailing = <<>>
  /\ completed => Len(receipts) = 1 /\ ReceiptOK(receipts[1])
  /\ ~completed => receipts = <<>>
  /\ ~completed /\ sse => Starts(fed) = {}
  /\ ~completed /\ (~sse \/ ~long) => hashed = out

\* As many bytes are held back as can begin a marker.
Retained == ~completed /\ sse => Len(trailing) = AtMost(Len(fed), RetainLen)

\* Before the task there is no response.
Idle == {"gate", "permits", "send"}
Untouched ==
  /\ fed = <<>> /\ out = <<>> /\ trailing = <<>> /\ hashed = <<>> /\ wire = <<>>
  /\ receipts = <<>> /\ completed = FALSE
  /\ answered = 0 /\ errorReceipt = -1

Whole == InTask \cup {"logged"}

\* What the client's queue has of the response, and how it may end.
WireOK ==
  /\ phase \in Idle => Untouched
  /\ phase \in InTask => Retained
  /\ phase \in Whole => wire = Stream /\ status = 200
  /\ phase = "logged" => trailing = <<>>
  /\ phase \in {"loop", "eof", "logged"} /\ completed => sse /\ receipts[1].done = "marker"
  /\ \E n \in 0 .. Len(Stream) :
       wire = Take(Stream, n) \/ wire = Append(Take(Stream, n), FRAME)

\* What was sent on of the request, and what the receipts say of it.
RequestOK ==
  /\ answered <= requested /\ requested <= MaxBody
  /\ phase \notin {"gate", "end"} \/ requested > 0 =>
       request.route = "chat" /\ Verdict(request) = 0
  /\ status = 413 => request.declared > MaxBody \/ body = "over"
  /\ completed => answered <= receipts[1].request /\ receipts[1].request <= requested
  /\ errorReceipt # -1 =>
       phase = "end" /\ ~completed /\ answered <= errorReceipt /\ errorReceipt <= requested

StreamInv == TypeOK /\ DetectorOK /\ WireOK /\ RequestOK

-----------------------------------------------------------------------------
(***************************************************************************)
(* Sequences and their parts.                                              *)
(***************************************************************************)
LEMMA TakeIs ==
  ASSUME NEW S, NEW t \in Seq(S), NEW n \in 0 .. Len(t)
  PROVE  /\ Take(t, n) \in Seq(S) /\ Len(Take(t, n)) = n
         /\ \A i \in 1 .. n : Take(t, n)[i] = t[i]
  BY DEF Take

LEMMA DropIs ==
  ASSUME NEW S, NEW t \in Seq(S), NEW n \in 0 .. Len(t)
  PROVE  /\ Drop(t, n) \in Seq(S) /\ Len(Drop(t, n)) = Len(t) - n
         /\ \A i \in 1 .. Len(t) - n : Drop(t, n)[i] = t[n + i]
  BY DEF Drop

LEMMA TakeDrop ==
  ASSUME NEW S, NEW t \in Seq(S), NEW n \in 0 .. Len(t)
  PROVE  Take(t, n) \o Drop(t, n) = t
<1>1. 1 \in 1 .. Len(t) + 1 /\ n \in 1 - 1 .. Len(t) /\ Len(t) \in n .. Len(t)
  OBVIOUS
<1>2. SubSeq(t, 1, n) \o SubSeq(t, n + 1, Len(t)) = SubSeq(t, 1, Len(t))
  BY <1>1, ConcatAdjacentSubSeq, Zenon
<1>3. QED
  BY <1>2, SubSeqFull, Zenon DEF Take, Drop

LEMMA TakeAll ==
  ASSUME NEW S, NEW t \in Seq(S)
  PROVE  /\ Take(t, Len(t)) = t /\ Drop(t, Len(t)) = <<>>
         /\ Take(t, 0) = <<>> /\ Drop(t, 0) = t
  BY SubSeqFull DEF Take, Drop

LEMMA TakeConcat ==
  ASSUME NEW S, NEW s \in Seq(S), NEW t \in Seq(S)
  PROVE  /\ \A n \in 0 .. Len(s) : Take(s \o t, n) = Take(s, n)
         /\ \A n \in 0 .. Len(t) : Take(s \o t, Len(s) + n) = s \o Take(t, n)
  BY DEF Take

LEMMA DropConcat ==
  ASSUME NEW S, NEW s \in Seq(S), NEW t \in Seq(S)
  PROVE  /\ \A n \in 0 .. Len(s) : Drop(s \o t, n) = Drop(s, n) \o t
         /\ \A n \in 0 .. Len(t) : Drop(s \o t, Len(s) + n) = Drop(t, n)
         /\ Drop(s \o t, Len(s)) = t
<1>1. ASSUME NEW n \in 0 .. Len(s) PROVE Drop(s \o t, n) = Drop(s, n) \o t
  <2> DEFINE u == Drop(s \o t, n)
             v == Drop(s, n) \o t
  <2>1. u \in Seq(S) /\ Len(u) = Len(s) + Len(t) - n
    BY DEF Drop
  <2>2. v \in Seq(S) /\ Len(v) = Len(s) + Len(t) - n
    BY DEF Drop
  <2>3. \A i \in 1 .. Len(s) + Len(t) - n : u[i] = v[i]
    BY DEF Drop
  <2>4. QED
    BY <2>1, <2>2, <2>3, SeqEqual, Zenon
<1>2. \A n \in 0 .. Len(t) : Drop(s \o t, Len(s) + n) = Drop(t, n)
  BY DEF Drop
<1>3. Drop(s \o t, Len(s)) = t
  BY <1>1, TakeAll, ConcatEmptySeq
<1>4. QED
  BY <1>1, <1>2, <1>3

LEMMA DropFront ==
  ASSUME NEW S, NEW s \in Seq(S), NEW t \in Seq(S), NEW n \in 0 .. Len(t)
  PROVE  Drop(s \o t, Len(s) + n) = Drop(t, n)
  BY DropConcat

-----------------------------------------------------------------------------
(***************************************************************************)
(* Where the marker begins.                                                *)
(***************************************************************************)
LEMMA MarkerIs ==
  /\ Marker \in Seq(Alphabet) /\ MarkerLen \in Nat /\ MarkerLen > 1
  /\ RetainLen \in Nat /\ RetainLen = MarkerLen - 1
  /\ 0 \notin Alphabet /\ -1 \notin Alphabet /\ -2 \notin Alphabet
  BY MarkerAssumption DEF MarkerLen, RetainLen

\* Every set of natural numbers has a least element.
LEMMA LeastNatural ==
  ASSUME NEW T \in SUBSET Nat, T # {}
  PROVE  \E n \in T : \A m \in T : n <= m
<1> DEFINE R == OpToRel(<, Nat)
<1>1. IsWellFoundedOn(R, Nat)
  BY NatLessThanWellFounded, Zenon
<1>2. PICK n \in T : \A m \in T : ~(<<m, n>> \in R)
  <2> HIDE DEF R
  <2> QED
    BY <1>1, WFMin, Zenon
<1>3. \A m \in T : m < n => <<m, n>> \in R
  BY DEF OpToRel
<1> HIDE DEF R
<1>4. \A m \in T : ~(m < n)
  BY <1>2, <1>3, Zenon
<1>5. \A m \in T : m \in Nat /\ n \in Nat
  OBVIOUS
<1>6. \A m \in T : n <= m
  BY <1>4, <1>5
<1>7. QED
  BY <1>6

LEMMA FirstIs ==
  ASSUME NEW t \in Seq(Alphabet), Starts(t) # {}
  PROVE  First(t) \in Starts(t) /\ \A j \in Starts(t) : First(t) <= j
<1>1. Starts(t) \in SUBSET Nat
  BY MarkerIs DEF Starts
<1>2. QED
  BY <1>1, LeastNatural DEF First

LEMMA ConcatAssoc ==
  ASSUME NEW s \in Seq(Alphabet), NEW t \in Seq(Alphabet), NEW u \in Seq(Alphabet)
  PROVE  (s \o t) \o u = s \o (t \o u)
  OBVIOUS

LEMMA SubSeqFront ==
  ASSUME NEW s \in Seq(Alphabet), NEW t \in Seq(Alphabet), NEW m \in Nat, NEW n \in Nat,
         1 <= m, n <= Len(s)
  PROVE  SubSeq(s \o t, m, n) = SubSeq(s, m, n)
  OBVIOUS

LEMMA SubSeqBack ==
  ASSUME NEW s \in Seq(Alphabet), NEW t \in Seq(Alphabet), NEW m \in Nat, NEW n \in Nat,
         NEW p \in Nat, NEW q \in Nat, p = Len(s) + m, q = Len(s) + n,
         1 <= m, n <= Len(t)
  PROVE  SubSeq(s \o t, p, q) = SubSeq(t, m, n)
  OBVIOUS

\* The last byte of a marker that begins at k.
EndOf(k) == k + MarkerLen - 1

LEMMA EndIs ==
  ASSUME NEW k \in Nat
  PROVE  EndOf(k) \in Nat /\ EndOf(k) = k + MarkerLen - 1 /\ EndOf(k) > k
  BY MarkerIs DEF EndOf

LEMMA StartsAre ==
  ASSUME NEW t \in Seq(Alphabet), NEW k \in Starts(t)
  PROVE  /\ k \in Nat /\ 1 <= k /\ EndOf(k) <= Len(t)
         /\ SubSeq(t, k, EndOf(k)) = Marker
  BY MarkerIs DEF Starts, EndOf

LEMMA IsStart ==
  ASSUME NEW t \in Seq(Alphabet), NEW k \in Nat, 1 <= k, EndOf(k) <= Len(t),
         SubSeq(t, k, EndOf(k)) = Marker
  PROVE  k \in Starts(t)
  BY MarkerIs DEF Starts, EndOf

LEMMA ConcatIs ==
  ASSUME NEW s \in Seq(Alphabet), NEW t \in Seq(Alphabet)
  PROVE  /\ s \o t \in Seq(Alphabet) /\ Len(s \o t) = Len(s) + Len(t)
         /\ Len(s) \in Nat /\ Len(t) \in Nat
  OBVIOUS

\* A marker stays where it is when the text goes on, and moves with the text
\* when something comes in front.
LEMMA StartsMove ==
  ASSUME NEW s \in Seq(Alphabet), NEW t \in Seq(Alphabet)
  PROVE  /\ \A k \in Starts(s) : k \in Starts(s \o t)
         /\ \A k \in Starts(t) : Len(s) + k \in Starts(s \o t)
         /\ \A k \in Starts(s \o t) :
              /\ EndOf(k) <= Len(s) => k \in Starts(s)
              /\ k > Len(s) => k - Len(s) \in Starts(t)
<1>1. ASSUME NEW k \in Starts(s) PROVE k \in Starts(s \o t)
  <2>0. k \in Nat /\ 1 <= k /\ EndOf(k) \in Nat /\ EndOf(k) <= Len(s)
    BY StartsAre, EndIs
  <2>1. SubSeq(s \o t, k, EndOf(k)) = Marker
    BY <2>0, StartsAre, SubSeqFront
  <2>2. EndOf(k) <= Len(s \o t)
    BY <2>0, ConcatIs
  <2>3. QED
    BY <2>0, <2>1, <2>2, ConcatIs, IsStart, Zenon
<1>2. ASSUME NEW k \in Starts(t) PROVE Len(s) + k \in Starts(s \o t)
  <2> DEFINE p == Len(s) + k
  <2>0. k \in Nat /\ 1 <= k /\ EndOf(k) \in Nat /\ EndOf(k) = k + MarkerLen - 1 /\ EndOf(k) <= Len(t)
    BY StartsAre, EndIs
  <2>1. p \in Nat /\ 1 <= p /\ p = Len(s) + k
    BY <2>0, ConcatIs
  <2> HIDE DEF p
  <2>2. EndOf(p) \in Nat /\ EndOf(p) = Len(s) + EndOf(k)
    BY <2>0, <2>1, EndIs, ConcatIs, MarkerIs
  <2>3. EndOf(p) <= Len(s \o t)
    BY <2>0, <2>2, ConcatIs
  <2>4. SubSeq(s \o t, p, EndOf(p)) = Marker
    <3>1. SubSeq(s \o t, p, EndOf(p)) = SubSeq(t, k, EndOf(k))
      <4>1. /\ k \in Nat /\ 1 <= k /\ EndOf(k) \in Nat /\ EndOf(k) <= Len(t)
            /\ p \in Nat /\ p = Len(s) + k /\ EndOf(p) \in Nat /\ EndOf(p) = Len(s) + EndOf(k)
        BY <2>0, <2>1, <2>2
      <4>2. PICK m \in Nat, n \in Nat, x \in Nat, y \in Nat :
              m = k /\ n = EndOf(k) /\ x = p /\ y = EndOf(p)
        BY <4>1, Zenon
      <4>3. x = Len(s) + m /\ y = Len(s) + n /\ 1 <= m /\ n <= Len(t)
        BY <4>1, <4>2
      <4>4. SubSeq(s \o t, x, y) = SubSeq(t, m, n)
        BY <4>3, SubSeqBack
      <4>5. QED
        BY <4>2, <4>4, Zenon
    <3>2. QED
      BY <3>1, StartsAre
  <2>5. p \in Starts(s \o t)
    BY <2>1, <2>3, <2>4, ConcatIs, IsStart, Zenon
  <2>6. QED
    BY <2>5 DEF p
<1>3. ASSUME NEW k \in Starts(s \o t), EndOf(k) <= Len(s) PROVE k \in Starts(s)
  <2>0. k \in Nat /\ 1 <= k /\ EndOf(k) \in Nat /\ SubSeq(s \o t, k, EndOf(k)) = Marker
    BY StartsAre, EndIs, ConcatIs, Zenon
  <2>1. SubSeq(s, k, EndOf(k)) = Marker
    BY <1>3, <2>0, SubSeqFront
  <2>2. QED
    BY <1>3, <2>0, <2>1, IsStart
<1>4. ASSUME NEW k \in Starts(s \o t), k > Len(s) PROVE k - Len(s) \in Starts(t)
  <2> DEFINE j == k - Len(s)
  <2>0. /\ k \in Nat /\ EndOf(k) \in Nat /\ EndOf(k) = k + MarkerLen - 1
        /\ EndOf(k) <= Len(s \o t) /\ SubSeq(s \o t, k, EndOf(k)) = Marker
    BY StartsAre, EndIs, ConcatIs, Zenon
  <2>1. j \in Nat /\ 1 <= j /\ k = Len(s) + j
    BY <1>4, <2>0, ConcatIs
  <2> HIDE DEF j
  <2>2. EndOf(j) \in Nat /\ EndOf(k) = Len(s) + EndOf(j)
    <3>1. EndOf(j) \in Nat /\ EndOf(j) = j + MarkerLen - 1
      BY <2>1, EndIs, Zenon
    <3>2. QED
      BY <2>0, <2>1, <3>1, ConcatIs, MarkerIs
  <2>3. EndOf(j) <= Len(t)
    BY <2>0, <2>2, ConcatIs
  <2>4. SubSeq(t, j, EndOf(j)) = Marker
    <3>1. SubSeq(s \o t, k, EndOf(k)) = SubSeq(t, j, EndOf(j))
      <4>1. /\ j \in Nat /\ 1 <= j /\ EndOf(j) \in Nat /\ EndOf(j) <= Len(t)
            /\ k \in Nat /\ k = Len(s) + j /\ EndOf(k) \in Nat /\ EndOf(k) = Len(s) + EndOf(j)
        BY <2>0, <2>1, <2>2, <2>3
      <4>2. PICK m \in Nat, n \in Nat, x \in Nat, y \in Nat :
              m = j /\ n = EndOf(j) /\ x = k /\ y = EndOf(k)
        BY <4>1, Zenon
      <4>3. x = Len(s) + m /\ y = Len(s) + n /\ 1 <= m /\ n <= Len(t)
        BY <4>1, <4>2
      <4>4. SubSeq(s \o t, x, y) = SubSeq(t, m, n)
        BY <4>3, SubSeqBack
      <4>5. QED
        BY <4>2, <4>4, Zenon
    <3>2. QED
      BY <2>0, <3>1
  <2>5. j \in Starts(t)
    BY <2>1, <2>3, <2>4, IsStart
  <2>6. QED
    BY <2>5 DEF j
<1>5. QED
  BY <1>1, <1>2, <1>3, <1>4

\* The prefixes of a text without a marker have none.
LEMMA StartsOfPrefix ==
  ASSUME NEW t \in Seq(Alphabet), NEW n \in 0 .. Len(t)
  PROVE  Starts(Take(t, n)) \subseteq Starts(t)
<1>1. Take(t, n) \in Seq(Alphabet) /\ Drop(t, n) \in Seq(Alphabet)
  BY TakeIs, DropIs
<1>2. Take(t, n) \o Drop(t, n) = t
  BY TakeDrop
<1>3. QED
  BY <1>1, <1>2, StartsMove, Zenon

-----------------------------------------------------------------------------
(***************************************************************************)
(* The detector.                                                           *)
(***************************************************************************)
Bytes == Seq(Alphabet)
DetectorTyped ==
  /\ fed \in Bytes /\ trailing \in Bytes /\ hashed \in Bytes /\ out \in Bytes
  /\ Len(trailing) < MarkerLen

LEMMA ProbeIs ==
  ASSUME DetectorTyped, NEW b \in Bytes
  PROVE  LET n == AtMost(Len(b), RetainLen)
         IN  /\ n \in 0 .. Len(b) /\ n <= RetainLen
             /\ Probe(b) \in Bytes /\ Drop(b, n) \in Bytes
             /\ Len(Probe(b)) = Len(trailing) + n
             /\ trailing \o b = Probe(b) \o Drop(b, n)
<1> DEFINE n == AtMost(Len(b), RetainLen)
<1>0. /\ trailing \in Seq(Alphabet) /\ b \in Seq(Alphabet)
      /\ Len(b) \in Nat /\ Len(trailing) \in Nat
  BY DEF DetectorTyped, Bytes
<1>1. n \in 0 .. Len(b) /\ n <= RetainLen
  BY <1>0, MarkerIs DEF AtMost
<1>2. Probe(b) = trailing \o Take(b, n)
  BY DEF Probe
<1> HIDE DEF n
<1>3. /\ Take(b, n) \in Seq(Alphabet) /\ Len(Take(b, n)) = n
      /\ Drop(b, n) \in Seq(Alphabet) /\ b = Take(b, n) \o Drop(b, n)
  BY <1>0, <1>1, TakeIs, DropIs, TakeDrop, Zenon
<1>4. trailing \o (Take(b, n) \o Drop(b, n)) = (trailing \o Take(b, n)) \o Drop(b, n)
  BY <1>0, <1>3, ConcatAssoc, Zenon
<1>5. Probe(b) \in Seq(Alphabet) /\ Len(Probe(b)) = Len(trailing) + n
  BY <1>0, <1>2, <1>3, ConcatIs, ZenonT(40)
<1>6. QED
  BY <1>1, <1>2, <1>3, <1>4, <1>5, Zenon DEF n, Bytes

\* Nothing is missed: a marker that ends in the new text and is not in it lies
\* in the probe.
LEMMA NothingMissed ==
  ASSUME DetectorTyped, out \o trailing = fed, Starts(fed) = {},
         Len(trailing) = AtMost(Len(fed), RetainLen),
         NEW b \in Bytes, Starts(b) = {}, trailing = <<>> \/ Starts(Probe(b)) = {}
  PROVE  Starts(fed \o b) = {}
<1> SUFFICES ASSUME NEW k \in Starts(fed \o b) PROVE FALSE
  OBVIOUS
<1> DEFINE n == AtMost(Len(b), RetainLen)
           j == k - Len(out)
           u == trailing \o b
<1>0. /\ fed \in Seq(Alphabet) /\ out \in Seq(Alphabet) /\ trailing \in Seq(Alphabet)
      /\ b \in Seq(Alphabet)
  BY DEF DetectorTyped, Bytes
<1>1. /\ k \in Nat /\ 1 <= k /\ EndOf(k) \in Nat /\ EndOf(k) = k + MarkerLen - 1
      /\ EndOf(k) <= Len(fed \o b)
  BY <1>0, StartsAre, EndIs, ConcatIs, Zenon
<1>2. /\ Len(fed) \in Nat /\ Len(b) \in Nat /\ Len(out) \in Nat /\ Len(trailing) \in Nat
      /\ Len(fed \o b) = Len(fed) + Len(b) /\ Len(fed) = Len(out) + Len(trailing)
  BY <1>0, ConcatIs
<1>3. ~(k > Len(fed)) /\ ~(EndOf(k) <= Len(fed))
  BY <1>0, StartsMove
<1>4. k > Len(out) /\ Len(trailing) # 0
  <2>1. Len(trailing) = Len(fed) \/ Len(trailing) = RetainLen
    BY DEF AtMost
  <2>2. MarkerLen \in Nat /\ MarkerLen > 1 /\ RetainLen = MarkerLen - 1
    BY MarkerIs
  <2>3. QED
    BY <1>1, <1>2, <1>3, <2>1, <2>2
<1>5. u \in Seq(Alphabet) /\ fed \o b = out \o u
  <2>1. (out \o trailing) \o b = out \o (trailing \o b)
    BY <1>0, ConcatAssoc, ZenonT(40)
  <2>2. QED
    BY <1>0, <2>1, ConcatIs
<1>6. j \in Nat /\ j <= Len(trailing) /\ k = Len(out) + j
  BY <1>1, <1>2, <1>3, <1>4
<1>7. j \in Starts(u)
  <2> HIDE DEF u
  <2>1. QED
    BY <1>0, <1>4, <1>5, StartsMove
<1> HIDE DEF j
<1>8. n \in Nat /\ EndOf(j) <= Len(trailing) + n
  <2>1. EndOf(j) = j + MarkerLen - 1 /\ EndOf(j) \in Nat /\ EndOf(j) <= Len(u) /\ Len(u) = Len(trailing) + Len(b)
    BY <1>0, <1>5, <1>6, <1>7, StartsAre, EndIs, ConcatIs, Zenon
  <2> HIDE DEF u
  <2>2. EndOf(j) <= Len(trailing) + Len(b) /\ EndOf(j) <= Len(trailing) + RetainLen
    BY <1>2, <1>6, <2>1, MarkerIs
  <2>3. QED
    BY <1>2, <2>2, MarkerIs, Zenon DEF AtMost
<1>9. /\ u = Probe(b) \o Drop(b, n) /\ Len(Probe(b)) = Len(trailing) + n
      /\ Probe(b) \in Seq(Alphabet) /\ Drop(b, n) \in Seq(Alphabet)
  BY ProbeIs, Zenon DEF Bytes
<1> HIDE DEF n, u
<1>10. j \in Starts(Probe(b))
  BY <1>7, <1>8, <1>9, StartsMove
<1>11. QED
  BY <1>4, <1>10

\* The text around a marker.
LEMMA SplitAtStart ==
  ASSUME NEW u \in Seq(Alphabet), NEW f \in Starts(u)
  PROVE  /\ f - 1 \in 0 .. Len(u) /\ EndOf(f) \in 0 .. Len(u)
         /\ Take(u, f - 1) \o Marker \o Drop(u, EndOf(f)) = u
<1>1. f \in Nat /\ 1 <= f /\ EndOf(f) \in Nat /\ f < EndOf(f) /\ EndOf(f) <= Len(u)
  BY StartsAre, EndIs
<1>2. SubSeq(u, f, EndOf(f)) = Marker
  BY StartsAre
<1>3. SubSeq(u, 1, f - 1) \o SubSeq(u, f, EndOf(f)) = SubSeq(u, 1, EndOf(f))
  <2>1. 1 \in 1 .. Len(u) + 1 /\ f - 1 \in 1 - 1 .. Len(u) /\ EndOf(f) \in f - 1 .. Len(u)
    BY <1>1
  <2>2. SubSeq(u, 1, f - 1) \o SubSeq(u, f - 1 + 1, EndOf(f)) = SubSeq(u, 1, EndOf(f))
    BY <2>1, ConcatAdjacentSubSeq, Zenon
  <2>3. f - 1 + 1 = f
    BY <1>1
  <2>4. QED
    BY <2>2, <2>3, Zenon
<1>4. EndOf(f) \in 0 .. Len(u) /\ f - 1 \in 0 .. Len(u)
  BY <1>1
<1>5. Take(u, EndOf(f)) \o Drop(u, EndOf(f)) = u
  BY <1>4, TakeDrop, Zenon
<1>6. QED
  BY <1>2, <1>3, <1>4, <1>5, Zenon DEF Take

\* A marker found across begins in the bytes held back and ends in the segment.
LEMMA AcrossSplits ==
  ASSUME DetectorTyped, NEW b \in Bytes, Starts(b) = {}, Starts(Probe(b)) # {}
  PROVE  LET f == First(Probe(b)) IN
         /\ f \in 1 .. Len(trailing)
         /\ CurrentStart(b) \in 1 .. Len(b)
         /\ Take(trailing, f - 1) \o Marker \o Drop(b, CurrentStart(b)) = trailing \o b
<1> DEFINE f == First(Probe(b))
           u == trailing \o b
           n == AtMost(Len(b), RetainLen)
<1>0. /\ trailing \in Seq(Alphabet) /\ b \in Seq(Alphabet) /\ Probe(b) \in Seq(Alphabet)
      /\ Drop(b, n) \in Seq(Alphabet) /\ u = Probe(b) \o Drop(b, n)
  BY ProbeIs, Zenon DEF DetectorTyped, Bytes
<1>1. /\ Len(trailing) \in Nat /\ Len(b) \in Nat /\ u \in Seq(Alphabet)
      /\ Len(u) = Len(trailing) + Len(b) /\ Len(trailing) < MarkerLen
  BY <1>0, ConcatIs DEF DetectorTyped
<1>2. f \in Starts(Probe(b))
  BY <1>0, FirstIs
<1>3. CurrentStart(b) = MarkerLen - (Len(trailing) - (f - 1))
  BY DEF CurrentStart
<1> HIDE DEF f
<1>4. f \in Starts(u)
  <2> HIDE DEF u, n
  <2>1. QED
    BY <1>0, <1>2, StartsMove
<1>5. f \in Nat /\ 1 <= f /\ EndOf(f) \in Nat /\ EndOf(f) = f + MarkerLen - 1 /\ EndOf(f) <= Len(u)
  BY <1>1, <1>4, StartsAre, EndIs, Zenon
<1>6. f <= Len(trailing)
  <2>1. ~(f > Len(trailing))
    BY <1>0, <1>4, StartsMove, Zenon
  <2>2. QED
    BY <1>1, <1>5, <2>1
<1>7. /\ CurrentStart(b) \in 1 .. Len(b) /\ EndOf(f) = Len(trailing) + CurrentStart(b)
      /\ f - 1 \in 0 .. Len(trailing)
  <2> HIDE DEF u
  <2>1. QED
    BY <1>1, <1>3, <1>5, <1>6, MarkerIs
<1>8. Take(u, f - 1) \o Marker \o Drop(u, EndOf(f)) = u
  BY <1>1, <1>4, SplitAtStart, Zenon
<1>9. Take(u, f - 1) = Take(trailing, f - 1)
  BY <1>0, <1>7, TakeConcat, ZenonT(40)
<1>10. Drop(u, Len(trailing) + CurrentStart(b)) = Drop(b, CurrentStart(b))
  <2>1. CurrentStart(b) \in 0 .. Len(b)
    BY <1>1, <1>7
  <2>2. QED
    BY <1>0, <2>1, DropFront, Zenon
<1>11. Take(trailing, f - 1) \o Marker \o Drop(b, CurrentStart(b)) = u
  BY <1>7, <1>8, <1>9, <1>10, Zenon
<1>12. f \in 1 .. Len(trailing)
  BY <1>1, <1>5, <1>6
<1>13. QED
  BY <1>7, <1>11, <1>12, Zenon DEF f

ReceiptSet == [hash : Bytes, request : Nat, at : Nat, done : {"marker", "killed"}]

\* The detector between two calls.
Ready ==
  /\ DetectorTyped /\ DetectorOK
  /\ completed \in BOOLEAN /\ sse \in BOOLEAN /\ long \in BOOLEAN
  /\ requested \in Nat /\ receipts \in Seq(ReceiptSet)

\* A step of the detector adds d to the response, and a receipt in d at most.
Adds(d, done) ==
  /\ d \in Bytes /\ out' = out \o d
  /\ \/ receipts' = receipts /\ completed' = completed
     \/ /\ receipts = <<>> /\ ~completed /\ completed' = TRUE
        /\ \E r \in ReceiptSet :
             /\ receipts' = <<r>> /\ r.at \in Len(out) .. Len(out')
             /\ r.request = requested /\ r.done = done /\ (done = "marker" => sse)

\* What a receipt says stays true as the response grows.
LEMMA ReceiptKept ==
  ASSUME Ready, completed, NEW d \in Bytes, out' = out \o d, receipts' = receipts,
         sse' = sse, sse => hashed' = hashed, ~long' => ~long
  PROVE  Len(receipts') = 1 /\ ReceiptOK(receipts[1])'
<1> DEFINE r == receipts[1]
<1>1. /\ Len(receipts) = 1 /\ r \in ReceiptSet /\ ReceiptOK(r)
      /\ out \in Bytes /\ Len(out) \in Nat /\ r.at \in Nat
  <2>1. Len(receipts) = 1 /\ ReceiptOK(r) /\ out \in Bytes /\ receipts \in Seq(ReceiptSet)
    BY DEF Ready, DetectorOK, DetectorTyped
  <2>2. r \in ReceiptSet
    BY <2>1
  <2>3. QED
    BY <2>1, <2>2 DEF ReceiptSet, Bytes
<1> HIDE DEF r
<1>2. r.at \in 0 .. Len(out) /\ Take(out', r.at) = Take(out, r.at)
  BY <1>1, TakeConcat DEF ReceiptOK, Bytes
<1>3. Len(out') = Len(out) + Len(d) /\ Len(d) \in Nat
  BY <1>1 DEF Bytes
<1>4. r.done = "marker" =>
        r.at + MarkerLen <= Len(out') /\ SubSeq(out', r.at + 1, r.at + MarkerLen) = Marker
  <2> SUFFICES ASSUME r.done = "marker"
               PROVE  r.at + MarkerLen <= Len(out')
                      /\ SubSeq(out', r.at + 1, r.at + MarkerLen) = Marker
    BY Zenon
  <2> DEFINE m == r.at + 1
             n == r.at + MarkerLen
  <2>1. m \in Nat /\ n \in Nat /\ 1 <= m /\ n <= Len(out) /\ SubSeq(out, m, n) = Marker
    <3>1. n <= Len(out) /\ SubSeq(out, m, n) = Marker
      BY <1>1, Zenon DEF ReceiptOK
    <3>2. r.at \in Nat /\ MarkerLen \in Nat
      BY <1>1, MarkerIs
    <3>3. m \in Nat /\ n \in Nat /\ 1 <= m
      BY <3>2
    <3>4. QED
      BY <3>1, <3>3, Zenon
  <2> HIDE DEF m, n
  <2>2. SubSeq(out \o d, m, n) = SubSeq(out, m, n)
    BY <1>1, <2>1, SubSeqFront DEF Bytes
  <2>3. n <= Len(out')
    BY <1>1, <1>3, <2>1
  <2>4. QED
    BY <2>1, <2>2, <2>3 DEF m, n
<1>5. r.at <= Len(out')
  BY <1>1, <1>2, <1>3
<1>6. ReceiptOK(r)'
  BY <1>1, <1>2, <1>4, <1>5, Zenon DEF ReceiptOK, r
<1>7. QED
  BY <1>1, <1>6 DEF r

LEMMA ReadyIs ==
  ASSUME Ready
  PROVE  /\ fed \in Bytes /\ trailing \in Bytes /\ hashed \in Bytes /\ out \in Bytes
         /\ Len(trailing) < MarkerLen /\ out \o trailing = fed
         /\ completed \/ ~sse => trailing = <<>> /\ out = fed
         /\ ~completed => receipts = <<>>
         /\ ~completed /\ sse => Starts(fed) = {}
         /\ ~completed /\ (~sse \/ ~long) => hashed = out
         /\ completed \in BOOLEAN /\ sse \in BOOLEAN /\ long \in BOOLEAN
         /\ requested \in Nat /\ receipts \in Seq(ReceiptSet)
<1>1. trailing = <<>> => out \o trailing = out
  BY ConcatEmptySeq DEF Ready, DetectorTyped, Bytes
<1>2. QED
  BY <1>1 DEF Ready, DetectorTyped, DetectorOK

LEMMA EmptyBytes == <<>> \in Bytes /\ Len(<<>>) = 0 /\ \A s \in Bytes : s \o <<>> = s /\ <<>> \o s = s
  BY ConcatEmptySeq DEF Bytes

LEMMA LenBytes == \A s \in Bytes : Len(s) \in Nat
  BY DEF Bytes

LEMMA JoinBytes ==
  ASSUME NEW s \in Bytes, NEW t \in Bytes
  PROVE  s \o t \in Bytes
  BY ConcatIs DEF Bytes

LEMMA JoinThree ==
  ASSUME NEW s \in Bytes, NEW t \in Bytes, NEW u \in Bytes
  PROVE  (s \o t) \o u = s \o (t \o u)
  BY DEF Bytes

LEMMA ForwardStep ==
  ASSUME Ready, sse, NEW b \in Bytes, Forward(b), fed' = fed \o b, sse' = sse, ~long' => ~long
  PROVE  Adds(b, "marker") /\ DetectorTyped' /\ DetectorOK' /\ completed'
<1>1. completed /\ completed' /\ out' = out \o b /\ trailing' = <<>> /\ out = fed
      /\ hashed' = hashed /\ receipts' = receipts
  BY ReadyIs DEF Forward
<1>2. out' \in Bytes /\ out' = fed' /\ out' \o trailing' = fed'
  BY <1>1, ReadyIs, JoinBytes, EmptyBytes
<1>3. DetectorTyped'
  BY <1>1, <1>2, ReadyIs, EmptyBytes, MarkerIs DEF DetectorTyped
<1>4. Len(receipts') = 1 /\ ReceiptOK(receipts[1])'
  BY <1>1, ReceiptKept
<1>5. DetectorOK'
  BY <1>1, <1>2, <1>4 DEF DetectorOK
<1>6. QED
  BY <1>1, <1>3, <1>5, ReadyIs DEF Adds

LEMMA PlainStep ==
  ASSUME Ready, ~sse, NEW b \in Bytes, Plain(b), fed' = fed \o b, sse' = sse, ~long' => ~long
  PROVE  Adds(b, "marker") /\ DetectorTyped' /\ DetectorOK' /\ completed' = completed
<1>1. /\ completed' = completed /\ out' = out \o b /\ trailing' = <<>> /\ out = fed
      /\ hashed' = hashed \o b /\ receipts' = receipts
  BY ReadyIs DEF Plain
<1>2. out' \in Bytes /\ out' = fed' /\ out' \o trailing' = fed' /\ hashed' \in Bytes
  BY <1>1, ReadyIs, JoinBytes, EmptyBytes
<1>3. DetectorTyped'
  BY <1>1, <1>2, ReadyIs, EmptyBytes, MarkerIs DEF DetectorTyped
<1>4. completed => Len(receipts') = 1 /\ ReceiptOK(receipts[1])'
  BY <1>1, ReceiptKept, Zenon
<1>5. DetectorOK'
  BY <1>1, <1>2, <1>4, ReadyIs, Zenon DEF DetectorOK
<1>6. QED
  BY <1>1, <1>3, <1>5, ReadyIs DEF Adds

LEMMA FinishStep ==
  ASSUME Ready, FinishEvents, fed' = fed, sse' = sse, long' = long
  PROVE  /\ Adds(trailing, "marker") /\ DetectorTyped' /\ DetectorOK'
         /\ completed' = completed /\ trailing' = <<>>
<1>1. /\ completed' = completed /\ out' = out \o trailing /\ trailing' = <<>>
      /\ hashed' = hashed \o trailing /\ receipts' = receipts
  BY DEF FinishEvents
<1>2. out' \in Bytes /\ out' = fed' /\ out' \o trailing' = fed' /\ hashed' \in Bytes
  BY <1>1, ReadyIs, JoinBytes, EmptyBytes
<1>3. DetectorTyped'
  BY <1>1, <1>2, ReadyIs, EmptyBytes, MarkerIs DEF DetectorTyped
<1>4. completed => hashed' = hashed
  BY <1>1, ReadyIs, EmptyBytes, Zenon
<1>5. completed => Len(receipts') = 1 /\ ReceiptOK(receipts[1])'
  BY <1>1, <1>4, ReadyIs, ReceiptKept, Zenon
<1>6. DetectorOK'
  BY <1>1, <1>2, <1>5, ReadyIs, Zenon DEF DetectorOK
<1>7. QED
  BY <1>1, <1>3, <1>6, ReadyIs DEF Adds

\* The step that makes the receipt.
LEMMA ReceiptStep ==
  ASSUME Ready, ~completed, NEW data \in Bytes, NEW digest \in Bytes,
         NEW done \in {"marker", "killed"}, Receipt(data, digest, done),
         trailing' = <<>>, NEW d \in Bytes, out' = out \o d, out' = fed', sse' = sse,
         Len(out) <= Len(data), Len(data) <= Len(out'), Take(out', Len(data)) = data,
         done = "marker" =>
           /\ sse /\ Len(data) + MarkerLen <= Len(out')
           /\ SubSeq(out', Len(data) + 1, Len(data) + MarkerLen) = Marker,
         ~long' => digest = data,
         ~long' /\ sse => Starts(data) = {}
  PROVE  Adds(d, done) /\ DetectorTyped' /\ DetectorOK' /\ completed'
<1> DEFINE r == [hash |-> digest, request |-> requested, at |-> Len(data), done |-> done]
<1>1. completed' = TRUE /\ hashed' = digest /\ receipts = <<>> /\ receipts' = Append(receipts, r)
  BY ReadyIs DEF Receipt
<1>2. /\ r \in ReceiptSet /\ r.hash = digest /\ r.request = requested /\ r.at = Len(data)
      /\ r.done = done
  BY ReadyIs DEF ReceiptSet, Bytes
<1> HIDE DEF r
<1>3. receipts' = <<r>> /\ Len(receipts') = 1 /\ receipts'[1] = r
  BY <1>1
<1>4. out' \in Bytes /\ Len(out') \in Nat /\ Len(out) \in Nat /\ Len(data) \in Nat
  <2>1. out' \in Bytes
    BY ReadyIs, JoinBytes, Zenon
  <2>2. out \in Bytes
    BY ReadyIs
  <2>3. QED
    BY <2>1, <2>2, LenBytes, Zenon
<1>5. out' \o trailing' = fed'
  BY <1>4, EmptyBytes
<1>6. ReceiptOK(receipts[1])'
  BY <1>1, <1>2, <1>3 DEF ReceiptOK
<1>7. DetectorOK'
  BY <1>1, <1>3, <1>5, <1>6 DEF DetectorOK
<1>8. DetectorTyped'
  BY <1>1, <1>4, EmptyBytes, MarkerIs DEF DetectorTyped
<1>9. r.at \in Len(out) .. Len(out')
  BY <1>2, <1>4
<1>10. Adds(d, done)
  BY <1>1, <1>2, <1>3, <1>9 DEF Adds
<1>11. QED
  BY <1>1, <1>7, <1>8, <1>10

\* A receipt in front of a marker.
LEMMA BeforeMarker ==
  ASSUME NEW data \in Bytes, NEW rest \in Bytes, NEW w, w = data \o Marker \o rest
  PROVE  /\ w \in Bytes /\ Len(data) \in Nat /\ Len(data) <= Len(w) /\ Take(w, Len(data)) = data
         /\ Len(data) + MarkerLen <= Len(w)
         /\ SubSeq(w, Len(data) + 1, Len(data) + MarkerLen) = Marker
<1>1. /\ w \in Bytes /\ Len(w) = Len(data) + MarkerLen + Len(rest)
      /\ Len(data) \in Nat /\ Len(rest) \in Nat
  BY MarkerIs DEF Bytes, MarkerLen
<1>2. Take(w, Len(data)) = data
  BY MarkerIs DEF Take, Bytes
<1>3. SubSeq(w, Len(data) + 1, Len(data) + MarkerLen) = Marker
  <2> DEFINE v == data \o Marker
             m == Len(data) + 1
             n == Len(data) + MarkerLen
  <2>1. v \in Bytes /\ Len(v) = n /\ m \in Nat /\ n \in Nat /\ 1 <= m
    BY <1>1, MarkerIs DEF Bytes, MarkerLen
  <2>2. SubSeq(v, m, n) = Marker
    <3>1. Drop(v, Len(data)) = Marker
      BY MarkerIs, DropConcat DEF Bytes
    <3>2. QED
      BY <2>1, <3>1 DEF Drop
  <2> HIDE DEF m, n, v
  <2>3. SubSeq(v \o rest, m, n) = SubSeq(v, m, n)
    BY <2>1, SubSeqFront DEF Bytes
  <2>4. QED
    BY <2>2, <2>3, Zenon DEF m, n, v
<1>4. QED
  BY <1>1, <1>2, <1>3, MarkerIs

LEMMA ShutdownStep ==
  ASSUME Ready, ShutdownEvents, fed' = fed, sse' = sse, long' = long
  PROVE  /\ \E d \in Bytes : Adds(d, "killed")
         /\ DetectorTyped' /\ DetectorOK' /\ completed'
<1>1. CASE completed
  <2>1. UNCHANGED detector
    BY <1>1 DEF ShutdownEvents
  <2>2. DetectorTyped' /\ DetectorOK' /\ completed'
    BY <1>1, <2>1 DEF Ready, DetectorTyped, DetectorOK, ReceiptOK, detector
  <2>3. Adds(<<>>, "killed")
    BY <2>1, ReadyIs, EmptyBytes DEF Adds, detector
  <2>4. QED
    BY <2>2, <2>3, EmptyBytes
<1>2. CASE ~completed
  <2> DEFINE data == out \o trailing
             digest == hashed \o trailing
  <2>1. /\ Receipt(data, digest, "killed") /\ out' = out \o trailing /\ trailing' = <<>>
    BY <1>2 DEF ShutdownEvents
  <2>2. data \in Bytes /\ digest \in Bytes /\ data = fed /\ data = out'
    BY <2>1, ReadyIs, JoinBytes
  <2>3. Len(out) <= Len(data) /\ Len(data) <= Len(out')
    BY <2>1, ReadyIs DEF Bytes
  <2>4. Take(out', Len(data)) = data
    BY <2>2, TakeAll DEF Bytes
  <2>5. (~long' => digest = data) /\ (~long' /\ sse => Starts(data) = {})
    BY <1>2, <2>2, ReadyIs, Zenon
  <2> HIDE DEF data, digest
  <2>6. Adds(trailing, "killed") /\ DetectorTyped' /\ DetectorOK' /\ completed'
    BY <1>2, <2>1, <2>2, <2>3, <2>4, <2>5, ReadyIs, ReceiptStep, ZenonT(40)
  <2>7. QED
    BY <2>6, ReadyIs
<1>3. QED
  BY <1>1, <1>2

LEMMA MarkerInsideStep ==
  ASSUME Ready, sse, NEW b \in Bytes, MarkerInside(b), fed' = fed \o b, sse' = sse,
         long' = (long \/ Len(b) >= RetainLen)
  PROVE  /\ \E d \in Bytes : Adds(d, "marker")
         /\ DetectorTyped' /\ DetectorOK' /\ completed'
<1> DEFINE f == First(b)
           front == Take(b, f - 1)
           rest == Drop(b, EndOf(f))
           before == trailing \o front
           data == out \o before
           digest == hashed \o before
           d == trailing \o b
<1>1. /\ ~completed /\ Starts(b) # {} /\ Receipt(data, digest, "marker")
      /\ out' = (out \o trailing) \o b /\ trailing' = <<>>
  BY DEF MarkerInside
<1>2. b \in Seq(Alphabet) /\ f \in Starts(b)
  BY <1>1, FirstIs DEF Bytes
<1> HIDE DEF f
<1>3. /\ f - 1 \in 0 .. Len(b) /\ EndOf(f) \in 0 .. Len(b) /\ front \o Marker \o rest = b
  BY <1>2, SplitAtStart
<1>4. front \in Bytes /\ rest \in Bytes
  BY <1>2, <1>3, TakeIs, DropIs DEF Bytes
<1>5. long' = TRUE
  <2>1. /\ f \in Nat /\ 1 <= f /\ EndOf(f) \in Nat /\ EndOf(f) = f + MarkerLen - 1
        /\ EndOf(f) <= Len(b) /\ Len(b) \in Nat
    BY <1>2, StartsAre, EndIs, LenBytes
  <2>2. Len(b) >= RetainLen
    BY <2>1, MarkerIs
  <2>3. QED
    BY <2>2, Zenon
<1> HIDE DEF front, rest
<1>6. /\ before \in Bytes /\ data \in Bytes /\ digest \in Bytes /\ d \in Bytes
      /\ out' = out \o d /\ out' = fed'
  <2>1. trailing \in Bytes /\ out \in Bytes /\ hashed \in Bytes /\ out \o trailing = fed
    BY ReadyIs
  <2>2. before \in Bytes /\ d \in Bytes
    BY <1>4, <2>1, JoinBytes
  <2>5. (out \o trailing) \o b = out \o d
    BY <2>1, JoinThree, ZenonT(40)
  <2> HIDE DEF before, d
  <2>3. data \in Bytes /\ digest \in Bytes
    BY <2>1, <2>2, JoinBytes
  <2>4. QED
    BY <1>1, <2>1, <2>2, <2>3, <2>5
<1>7. out' = data \o Marker \o rest
  <2>1. Marker \in Bytes
    BY MarkerIs DEF Bytes
  <2>2. out \in Bytes /\ trailing \in Bytes
    BY ReadyIs
  <2>3. (out \o trailing) \o ((front \o Marker) \o rest) = ((out \o (trailing \o front)) \o Marker) \o rest
    <3> DEFINE s == out \o trailing
               v == front \o Marker
    <3>1. s \in Bytes /\ v \in Bytes
      BY <1>4, <2>1, <2>2, JoinBytes
    <3>2. s \o front = out \o (trailing \o front)
      BY <1>4, <2>2, JoinThree, ZenonT(40)
    <3> HIDE DEF s
    <3>3. (s \o front) \o Marker = s \o v
      <4>1. s \in Bytes /\ front \in Bytes /\ Marker \in Bytes
        BY <1>4, <2>1, <3>1
      <4>2. QED
        BY <4>1, JoinThree, ZenonT(40)
    <3> HIDE DEF v
    <3>4. (s \o v) \o rest = s \o (v \o rest)
      <4>1. s \in Bytes /\ v \in Bytes /\ rest \in Bytes
        BY <1>4, <3>1
      <4>2. QED
        BY <4>1, JoinThree, ZenonT(40)
    <3>5. QED
      BY <3>2, <3>3, <3>4, Zenon DEF s, v
  <2>4. QED
    BY <1>1, <1>3, <2>3
<1>8. Len(out) <= Len(data)
  <2> HIDE DEF before
  <2>1. QED
    BY <1>6, ReadyIs DEF Bytes
<1> HIDE DEF data, digest, d, before
<1>9. /\ Len(data) <= Len(out') /\ Take(out', Len(data)) = data
      /\ Len(data) + MarkerLen <= Len(out')
      /\ SubSeq(out', Len(data) + 1, Len(data) + MarkerLen) = Marker
  BY <1>4, <1>6, <1>7, BeforeMarker, Zenon
<1>10. Adds(d, "marker") /\ DetectorTyped' /\ DetectorOK' /\ completed'
  BY <1>1, <1>5, <1>6, <1>8, <1>9, ReceiptStep, ZenonT(40)
<1>11. QED
  BY <1>6, <1>10

LEMMA MarkerAcrossStep ==
  ASSUME Ready, sse, NEW b \in Bytes, MarkerAcross(b), fed' = fed \o b, sse' = sse, ~long' => ~long
  PROVE  /\ \E d \in Bytes : Adds(d, "marker")
         /\ DetectorTyped' /\ DetectorOK' /\ completed'
<1> DEFINE f == First(Probe(b))
           before == Take(trailing, f - 1)
           rest == Drop(b, CurrentStart(b))
           data == out \o before
           digest == hashed \o before
           d == trailing \o b
<1>1. /\ ~completed /\ Starts(b) = {} /\ Starts(Probe(b)) # {}
      /\ Receipt(data, digest, "marker")
      /\ out' = (data \o Marker) \o rest /\ trailing' = <<>>
  BY DEF MarkerAcross
<1>2. /\ f \in 1 .. Len(trailing) /\ CurrentStart(b) \in 1 .. Len(b)
      /\ (before \o Marker) \o rest = d
  BY <1>1, AcrossSplits, Zenon DEF Ready
<1>3. out \in Bytes /\ trailing \in Bytes /\ hashed \in Bytes /\ Marker \in Bytes
  BY <1>1, ReadyIs, MarkerIs DEF Bytes
<1>a. out \o trailing = fed /\ Starts(fed) = {} /\ (~long => hashed = out)
  BY <1>1, ReadyIs
<1> HIDE DEF f
<1>4. before \in Bytes /\ rest \in Bytes /\ f - 1 \in 0 .. Len(trailing)
  <2>1. f - 1 \in 0 .. Len(trailing) /\ CurrentStart(b) \in 0 .. Len(b)
    BY <1>2, <1>3, LenBytes
  <2>2. QED
    BY <1>3, <2>1, TakeIs, DropIs DEF Bytes
<1>5. before \o Drop(trailing, f - 1) = trailing /\ Drop(trailing, f - 1) \in Bytes
  BY <1>3, <1>4, TakeDrop, DropIs, Zenon DEF Bytes
<1> HIDE DEF before, rest
<1>6. data \in Bytes /\ digest \in Bytes /\ d \in Bytes
  BY <1>3, <1>4, JoinBytes
<1>7. out' = out \o d /\ out' = fed'
  <2> DEFINE v == before \o Marker
  <2>1. v \in Bytes
    BY <1>3, <1>4, JoinBytes
  <2>2. (out \o before) \o Marker = out \o v
    <3>1. out \in Bytes /\ before \in Bytes /\ Marker \in Bytes
      BY <1>3, <1>4
    <3>2. QED
      BY <3>1, JoinThree, ZenonT(40)
  <2> HIDE DEF v
  <2>3. (out \o v) \o rest = out \o (v \o rest)
    <3>1. out \in Bytes /\ v \in Bytes /\ rest \in Bytes
      BY <1>3, <1>4, <2>1
    <3>2. QED
      BY <3>1, JoinThree, ZenonT(40)
  <2>4. (out \o trailing) \o b = out \o (trailing \o b)
    <3>1. out \in Bytes /\ trailing \in Bytes
      BY <1>3
    <3>2. QED
      BY <3>1, JoinThree, ZenonT(40)
  <2>5. QED
    BY <1>1, <1>2, <1>a, <2>2, <2>3, <2>4, Zenon DEF v
<1>8. Len(out) <= Len(data)
  BY <1>3, <1>4 DEF Bytes
<1>9. Starts(data) = {}
  <2> DEFINE tail == Drop(trailing, f - 1)
  <2>1. tail \in Bytes /\ before \o tail = trailing
    BY <1>5
  <2> HIDE DEF tail
  <2>2. data \o tail = out \o (before \o tail)
    <3>1. out \in Bytes /\ before \in Bytes /\ tail \in Bytes
      BY <1>3, <1>4, <2>1
    <3>2. QED
      BY <3>1, JoinThree, ZenonT(40)
  <2>3. data \o tail = fed
    BY <1>a, <2>1, <2>2
  <2> HIDE DEF data
  <2>4. Starts(data) \subseteq Starts(data \o tail)
    BY <1>6, <2>1, StartsMove DEF Bytes
  <2>5. QED
    BY <1>a, <2>3, <2>4
<1>10. ~long' => digest = data
  BY <1>a
<1> HIDE DEF data, digest, d
<1>11. /\ Len(data) <= Len(out') /\ Take(out', Len(data)) = data
       /\ Len(data) + MarkerLen <= Len(out')
       /\ SubSeq(out', Len(data) + 1, Len(data) + MarkerLen) = Marker
  BY <1>1, <1>4, <1>6, BeforeMarker, Zenon
<1>12. Adds(d, "marker") /\ DetectorTyped' /\ DetectorOK' /\ completed'
  BY <1>1, <1>6, <1>7, <1>8, <1>9, <1>10, <1>11, ReceiptStep, ZenonT(40)
<1>13. QED
  BY <1>6, <1>12

LEMMA HoldNewTailStep ==
  ASSUME Ready, sse, Retained, NEW b \in Bytes, HoldNewTail(b), fed' = fed \o b, sse' = sse,
         long' = (long \/ Len(b) >= RetainLen)
  PROVE  /\ \E d \in Bytes : Adds(d, "marker")
         /\ DetectorTyped' /\ DetectorOK' /\ Retained' /\ completed' = completed
<1> DEFINE k == Len(b) - RetainLen
           data == Take(b, k)
           tail == Drop(b, k)
           d == trailing \o data
<1>1. /\ ~completed /\ Starts(b) = {} /\ (trailing = <<>> \/ Starts(Probe(b)) = {})
      /\ Len(b) >= RetainLen
      /\ hashed' = hashed \o data /\ out' = (out \o trailing) \o data
      /\ trailing' = tail /\ completed' = completed /\ receipts' = receipts
  BY DEF HoldNewTail, NoMarker
<1>2. /\ out \in Bytes /\ trailing \in Bytes /\ hashed \in Bytes /\ fed \in Bytes
      /\ receipts = <<>>
  BY <1>1, ReadyIs
<1>a. out \o trailing = fed
  BY ReadyIs
<1>3. k \in 0 .. Len(b) /\ Len(b) - k = RetainLen /\ RetainLen < MarkerLen /\ RetainLen \in Nat
  BY <1>1, LenBytes, MarkerIs
<1>4. /\ data \in Bytes /\ tail \in Bytes /\ data \o tail = b /\ Len(tail) = RetainLen
  BY <1>3, TakeIs, DropIs, TakeDrop, Zenon DEF Bytes
<1> HIDE DEF data, tail, k
<1>5. d \in Bytes /\ hashed' \in Bytes /\ out' \in Bytes /\ fed' \in Bytes
  BY <1>1, <1>2, <1>4, JoinBytes
<1>6. out' = out \o d
  <2>1. out \in Bytes /\ trailing \in Bytes /\ data \in Bytes
    BY <1>2, <1>4
  <2>2. (out \o trailing) \o data = out \o (trailing \o data)
    BY <2>1, JoinThree, ZenonT(40)
  <2>3. QED
    BY <1>1, <2>2
<1>7. out' \o trailing' = fed'
  <2>1. fed \in Bytes /\ data \in Bytes /\ tail \in Bytes
    BY <1>2, <1>4
  <2>2. (fed \o data) \o tail = fed \o (data \o tail)
    BY <2>1, JoinThree, ZenonT(40)
  <2>3. QED
    BY <1>1, <1>4, <1>a, <2>2
<1>8. long' = TRUE
  BY <1>1, Zenon
<1>9. Starts(fed') = {}
  <2>1. Starts(fed) = {} /\ Len(trailing) = AtMost(Len(fed), RetainLen) /\ DetectorTyped
    BY <1>1, ReadyIs DEF Retained, Ready
  <2>2. QED
    BY <1>1, <1>a, <2>1, NothingMissed
<1>10. DetectorTyped'
  BY <1>1, <1>3, <1>4, <1>5 DEF DetectorTyped
<1>11. DetectorOK'
  BY <1>1, <1>2, <1>7, <1>8, <1>9 DEF DetectorOK
<1>12. Retained'
  <2>1. Len(fed') = Len(fed) + Len(b) /\ Len(fed) \in Nat /\ Len(b) \in Nat
    BY <1>2, ConcatIs DEF Bytes
  <2>2. AtMost(Len(fed'), RetainLen) = RetainLen
    BY <1>1, <1>3, <2>1 DEF AtMost
  <2>3. QED
    BY <1>1, <1>4, <2>2 DEF Retained
<1>13. Adds(d, "marker")
  BY <1>1, <1>5, <1>6 DEF Adds
<1>14. QED
  BY <1>1, <1>5, <1>10, <1>11, <1>12, <1>13

LEMMA JoinTailStep ==
  ASSUME Ready, sse, Retained, NEW b \in Bytes, JoinTail(b), fed' = fed \o b, sse' = sse,
         ~long' => ~long
  PROVE  /\ \E d \in Bytes : Adds(d, "marker")
         /\ DetectorTyped' /\ DetectorOK' /\ Retained' /\ completed' = completed
<1> DEFINE held == trailing \o b
           k == IF Len(held) > RetainLen THEN Len(held) - RetainLen ELSE 0
           d == Take(held, k)
           tail == Drop(held, k)
<1>1. /\ ~completed /\ Starts(b) = {} /\ (trailing = <<>> \/ Starts(Probe(b)) = {})
      /\ Len(b) < RetainLen
      /\ hashed' = hashed \o d /\ out' = out \o d
      /\ trailing' = tail /\ completed' = completed /\ receipts' = receipts
  BY DEF JoinTail, NoMarker
<1>2. /\ out \in Bytes /\ trailing \in Bytes /\ hashed \in Bytes /\ fed \in Bytes
      /\ receipts = <<>>
  BY <1>1, ReadyIs
<1>a. out \o trailing = fed /\ (~long => hashed = out)
  BY <1>1, ReadyIs
<1>b. held \in Bytes /\ Len(held) = Len(trailing) + Len(b) /\ Len(held) \in Nat
  BY <1>2, ConcatIs DEF Bytes
<1>c. out \o held = fed'
  <2>1. out \in Bytes /\ trailing \in Bytes
    BY <1>2
  <2>2. (out \o trailing) \o b = out \o (trailing \o b)
    BY <2>1, JoinThree, Zenon
  <2>3. QED
    BY <1>a, <2>2
<1> HIDE DEF held
<1>3. /\ k \in 0 .. Len(held) /\ Len(held) - k = AtMost(Len(held), RetainLen)
      /\ Len(held) - k < MarkerLen
  <2>1. Len(held) \in Nat /\ RetainLen \in Nat /\ RetainLen < MarkerLen /\ MarkerLen \in Nat
    BY <1>b, MarkerIs
  <2>2. CASE Len(held) > RetainLen
    BY <2>1, <2>2 DEF AtMost
  <2>3. CASE ~(Len(held) > RetainLen)
    BY <2>1, <2>3 DEF AtMost
  <2>4. QED
    BY <2>2, <2>3
<1> HIDE DEF k
<1>4. d \in Bytes /\ tail \in Bytes /\ d \o tail = held /\ Len(tail) = Len(held) - k
  BY <1>b, <1>3, TakeIs, DropIs, TakeDrop, ZenonT(40) DEF Bytes
<1> HIDE DEF d, tail
<1>5. hashed' \in Bytes /\ out' \in Bytes /\ fed' \in Bytes
  BY <1>1, <1>2, <1>4, JoinBytes
<1>7. out' \o trailing' = fed'
  <2>1. out \in Bytes /\ d \in Bytes /\ tail \in Bytes
    BY <1>2, <1>4
  <2>2. (out \o d) \o tail = out \o (d \o tail)
    BY <2>1, JoinThree, ZenonT(40)
  <2>3. QED
    BY <1>1, <1>4, <1>c, <2>2, ZenonT(40)
<1>8. ~long' => hashed' = out'
  BY <1>1, <1>a
<1>t. Starts(fed) = {} /\ Len(trailing) = AtMost(Len(fed), RetainLen) /\ DetectorTyped
  BY <1>1, ReadyIs DEF Retained, Ready
<1>9. Starts(fed') = {}
  BY <1>1, <1>a, <1>t, NothingMissed
<1>10. DetectorTyped'
  BY <1>1, <1>3, <1>4, <1>5 DEF DetectorTyped
<1>11. DetectorOK'
  BY <1>1, <1>2, <1>7, <1>8, <1>9 DEF DetectorOK
<1>12. Retained'
  <2>1. Len(fed') = Len(fed) + Len(b) /\ Len(fed) \in Nat /\ Len(b) \in Nat
    BY <1>2, ConcatIs DEF Bytes
  <2>2. AtMost(Len(fed'), RetainLen) = AtMost(Len(held), RetainLen)
    BY <1>b, <1>t, <2>1, MarkerIs DEF AtMost
  <2>3. QED
    BY <1>1, <1>3, <1>4, <2>2 DEF Retained
<1>13. Adds(d, "marker")
  BY <1>1, <1>4 DEF Adds
<1>14. QED
  BY <1>1, <1>4, <1>10, <1>11, <1>12, <1>13

\* inspect does what the detector has to do.
LEMMA InspectStep ==
  ASSUME Ready, sse, Retained, NEW b \in Bytes, Inspect(b), fed' = fed \o b, sse' = sse,
         long' = (long \/ Len(b) >= RetainLen)
  PROVE  /\ \E d \in Bytes : Adds(d, "marker")
         /\ DetectorTyped' /\ DetectorOK' /\ Retained'
<1>1. ~long' => ~long
  BY Zenon
<1>2. completed' => Retained'
  BY DEF Retained
<1>3. CASE Forward(b)
  BY <1>1, <1>2, <1>3, ForwardStep
<1>4. CASE MarkerInside(b)
  BY <1>2, <1>4, MarkerInsideStep
<1>5. CASE MarkerAcross(b)
  BY <1>1, <1>2, <1>5, MarkerAcrossStep
<1>6. CASE HoldNewTail(b)
  BY <1>6, HoldNewTailStep
<1>7. CASE JoinTail(b)
  BY <1>1, <1>7, JoinTailStep
<1>8. QED
  BY <1>3, <1>4, <1>5, <1>6, <1>7 DEF Inspect
=============================================================================
