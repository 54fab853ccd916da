---------------------------- MODULE DoneDetector ----------------------------
(***************************************************************************)
(* The audit receipt of one response (lib.rs, DoneDetector); StreamTask has  *)
(* the task that drives it.  Redacted output goes through the detector,     *)
(* which holds back the last bytes while they could begin the marker        *)
(* `data: [DONE]`, hashes what it lets through and puts a signed receipt in  *)
(* front of the marker, wherever the segments cut it.                       *)
(*                                                                         *)
(* Bytes are small numbers.  A digest is the sequence that was hashed, so    *)
(* two digests agree exactly when the hashed bytes do.  A receipt records    *)
(* its payload_hash, how much of the request its request_hash covers, its     *)
(* place in the response and the frame behind it.                            *)
(***************************************************************************)
EXTENDS Integers, Sequences

CONSTANTS
  Alphabet,   \* bytes that occur
  Marker,     \* SSE_DONE_MARKER
  MaxChunk    \* bound: longest output segment of the redactor

\* Of a marker of two bytes or more, something can be held back.
ASSUME MarkerAssumption ==
  /\ Marker \in Seq(Alphabet) /\ Len(Marker) > 1
  /\ Alphabet \subseteq Nat \ {0} /\ MaxChunk \in Nat \ {0}

VARIABLES
  trailing,   \* DoneDetector.trailing
  completed,  \* DoneDetector.completed
  hashed,     \* what the hasher was updated with
  requested,  \* bytes of the request body in DoneDetector.request_hasher
  out,        \* the data of the events returned so far
  receipts    \* the receipts among those events

detector == <<trailing, completed, hashed, out, receipts>>

MarkerLen == Len(Marker)
\* Faults: one byte more, one byte less is held back.
RetainMore == MarkerLen
RetainLess == MarkerLen - 2
RetainLen == MarkerLen - 1

\* windows(marker_len).position(..): where the marker begins in b.
Starts(b) ==
  {k \in 1 .. Len(b) - MarkerLen + 1 : SubSeq(b, k, k + MarkerLen - 1) = Marker}
First(b) == CHOOSE k \in Starts(b) : \A j \in Starts(b) : k <= j

Take(b, n) == SubSeq(b, 1, n)
Drop(b, n) == SubSeq(b, n + 1, Len(b))
AtMost(n, m) == IF n < m THEN n ELSE m

DetectorInit ==
  /\ trailing = <<>> /\ hashed = <<>> /\ out = <<>> /\ receipts = <<>>
  /\ completed = FALSE /\ requested = 0

\* Fault: the digest is finalised before the last update.
ReceiptStale(data, digest, done) ==
  /\ completed' = TRUE
  /\ hashed' = digest
  /\ receipts' = Append(receipts, [hash |-> hashed, request |-> requested,
                                 at |-> Len(data), done |-> done])

\* Fault: the request hash was finalised when the request was accepted.
ReceiptOfNoRequest(data, digest, done) ==
  /\ completed' = TRUE
  /\ hashed' = digest
  /\ receipts' = Append(receipts, [hash |-> digest, request |-> 0,
                                 at |-> Len(data), done |-> done])

\* receipt_events, once `data` was sent and `digest` is what the hasher has seen.
Receipt(data, digest, done) ==
  /\ completed' = TRUE
  /\ hashed' = digest
  /\ receipts' = Append(receipts, [hash |-> digest, request |-> requested,
                                 at |-> Len(data), done |-> done])

\* inspect, when the receipt was sent already.
Forward(b) ==
  /\ completed
  /\ out' = out \o b
  /\ UNCHANGED <<trailing, completed, hashed, receipts>>

\* inspect, when the chunk has the whole marker.
MarkerInside(b) ==
  /\ ~completed /\ Starts(b) # {}
  /\ LET before == trailing \o Take(b, First(b) - 1)
     IN  /\ Receipt(out \o before, hashed \o before, "marker")
         /\ out' = out \o trailing \o b
  /\ trailing' = <<>>

\* inspect, when the marker begins in the bytes held back.
Probe(b) == trailing \o Take(b, AtMost(Len(b), RetainLen))
\* Fault: off by one.
CurrentStartLate(b) == MarkerLen - (Len(trailing) - First(Probe(b)))
\* 0-based index in the chunk of the first byte behind that marker.
CurrentStart(b) == MarkerLen - (Len(trailing) - (First(Probe(b)) - 1))

MarkerAcross(b) ==
  /\ ~completed /\ Starts(b) = {}
  /\ trailing # <<>> /\ Starts(Probe(b)) # {}
  /\ LET before == Take(trailing, First(Probe(b)) - 1)
     IN  /\ Receipt(out \o before, hashed \o before, "marker")
         /\ out' = out \o before \o Marker \o Drop(b, CurrentStart(b))
  /\ trailing' = <<>>

NoMarker(b) ==
  /\ ~completed /\ Starts(b) = {}
  /\ trailing = <<>> \/ Starts(Probe(b)) = {}

\* inspect, no marker: a chunk that replaces the bytes held back.  The code
\* updates the hasher with the new data only: it tests `trailing` after having
\* emptied it, so the bytes that were held are sent and not hashed.
HoldNewTail(b) ==
  /\ NoMarker(b) /\ Len(b) >= RetainLen
  /\ LET data == Take(b, Len(b) - RetainLen)
     IN  /\ hashed' = hashed \o data
         /\ out' = out \o trailing \o data
  /\ trailing' = Drop(b, Len(b) - RetainLen)
  /\ UNCHANGED <<completed, receipts>>

\* inspect, no marker: a short chunk joins the bytes held back.
JoinTail(b) ==
  /\ NoMarker(b) /\ Len(b) < RetainLen
  /\ LET held == trailing \o b
         emit == IF Len(held) > RetainLen THEN Len(held) - RetainLen ELSE 0
     IN  /\ hashed' = hashed \o Take(held, emit)
         /\ out' = out \o Take(held, emit)
         /\ trailing' = Drop(held, emit)
  /\ UNCHANGED <<completed, receipts>>

Inspect(b) ==
  Forward(b) \/ MarkerInside(b) \/ MarkerAcross(b) \/ HoldNewTail(b) \/ JoinTail(b)

\* Fault: a response that is complete gets a second receipt.
ShutdownEventsAgain ==
  /\ Receipt(out \o trailing, hashed \o trailing, "killed")
  /\ out' = out \o trailing
  /\ trailing' = <<>>

\* shutdown_events: a response that is not complete gets its receipt now.
ShutdownEvents ==
  \/ completed /\ UNCHANGED detector
  \/ /\ ~completed
     /\ Receipt(out \o trailing, hashed \o trailing, "killed")
     /\ out' = out \o trailing
     /\ trailing' = <<>>

\* finish: the bytes held back go out.
FinishEvents ==
  /\ hashed' = hashed \o trailing
  /\ out' = out \o trailing
  /\ trailing' = <<>>
  /\ UNCHANGED <<completed, receipts>>
=============================================================================
