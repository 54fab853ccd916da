----------------------------- MODULE StreamTask -----------------------------
(***************************************************************************)
(* One request from the router to the end of its response (lib.rs): the      *)
(* layers of make_router, the request body that is read, limited and hashed   *)
(* while it is sent on, and the task that forwards the redacted answer       *)
(* through the DONE detector.  The body may still be on its way when the     *)
(* answer begins.  Permits and the queue itself are those of BudgetQueue;    *)
(* here an event is queued or refused.                                      *)
(***************************************************************************)
EXTENDS DoneDetector

CONSTANTS
  MaxBody,    \* MAX_BODY_SIZE
  MaxPiece,   \* bound: longest chunk of the request body
  MaxFed      \* bound: bytes of a response

ASSUME StreamAssumption ==
  MaxBody \in Nat /\ MaxPiece \in Nat \ {0} /\ MaxFed \in Nat

VARIABLES
  request,    \* head of the request
  phase,      \* where the request is; "loop", "eof", "shutdown": its task runs
  status,     \* of the answer, 0 without one
  body,       \* request body: "open", "ended", "over" the limit, "broken"
  answered,   \* history: bytes of the body sent on when the upstream answered
  errorReceipt, \* request bytes its request_hash covers, -1 without one
  sse,        \* is_sse
  fed,        \* history: everything the redactor has put out
  long,       \* history: some segment had marker_len - 1 bytes or more
  wire        \* what the queue of the client took: bytes and the items below

head == <<request, status, sse>>
bodyVars == <<body, requested>>
vars == <<head, phase, bodyVars, answered, errorReceipt, fed, long, detector, wire>>

\* In the wire: an audit receipt, the frame of a shutdown, a terminal error.
RECEIPT == 0
KILLED == -1
FRAME == -2

\* `declared` is the content-length, -1 without one; "call" is the method of the
\* route; a "tenant" token is in the keyring.
Requests ==
  [route : {"chat", "admin", "attestation"}, method : {"call", "OPTIONS"},
   origin : {"none", "listed", "foreign"}, token : {"none", "tenant", "admin"},
   declared : -1 .. MaxBody + 1]

InTask == {"loop", "eof", "shutdown"}
Phases == {"gate", "permits", "send", "logged", "end"} \cup InTask

Init ==
  /\ DetectorInit
  /\ request \in Requests /\ phase = "gate" /\ status = 0
  /\ body = IF request.declared = 0 THEN "ended" ELSE "open"
  /\ answered = 0 /\ errorReceipt = -1
  /\ sse = FALSE /\ fed = <<>> /\ long = FALSE /\ wire = <<>>

-----------------------------------------------------------------------------
\* The layers, outermost first; a layer that does not answer gives 0.
Cors(r) ==
  IF r.origin = "foreign" THEN 403 ELSE IF r.method = "OPTIONS" THEN 200 ELSE 0

DeclaredLimit(r) == IF r.declared > MaxBody THEN 413 ELSE 0

RequireAuth(r) == IF r.token = "tenant" THEN 0 ELSE 401

AuthMiddleware(r) ==
  CASE r.token = "admin" -> 0 [] r.token = "tenant" -> 403 [] OTHER -> 401

RouteAuth(r) ==
  CASE r.route = "chat" -> RequireAuth(r)
    [] r.route = "admin" -> AuthMiddleware(r)
    [] OTHER -> 0

\* The first layer that answers.
Verdict(r) ==
  CASE Cors(r) # 0 -> Cors(r)
    [] Cors(r) = 0 /\ DeclaredLimit(r) # 0 -> DeclaredLimit(r)
    [] OTHER -> RouteAuth(r)

Answers(code) ==
  /\ status' = code /\ phase' = "end"
  /\ UNCHANGED <<request, sse, bodyVars, answered, errorReceipt, fed, long, detector, wire>>

Refuse == phase = "gate" /\ Verdict(request) # 0 /\ Answers(Verdict(request))

\* A nonce of 32 bytes, and an answer of the security module.
AttestationDocument ==
  /\ phase = "gate" /\ Verdict(request) = 0 /\ request.route = "attestation"
  /\ \E code \in {200, 400, 502} : Answers(code)

\* What update_rules does to the rules is in HotReload; admin_metrics only reads.
\* 422 stands for every refusal of the JSON extractor.
AdminHandler ==
  /\ phase = "gate" /\ Verdict(request) = 0 /\ request.route = "admin"
  /\ \E code \in {200, 400, 422, 500} : Answers(code)

ProxyHandler ==
  /\ phase = "gate" /\ Verdict(request) = 0 /\ request.route = "chat"
  /\ phase' = "permits"
  /\ UNCHANGED <<head, bodyVars, answered, errorReceipt, fed, long, detector, wire>>

\* A stream permit and a memory chunk, or the load is shed.
Admitted ==
  /\ phase = "permits" /\ phase' = "send"
  /\ UNCHANGED <<head, bodyVars, answered, errorReceipt, fed, long, detector, wire>>

Shed == phase = "permits" /\ Answers(503)

-----------------------------------------------------------------------------
\* Fault: the chunk that reaches over the limit goes through.
WithinLimitBefore(n) == requested < MaxBody
WithinLimit(n) == requested + n <= MaxBody

\* The HTTP client takes the next chunk of the body, through the counter of
\* enforce_body_limit and the request hasher, also while the answer is read.
ReadBody(n) ==
  /\ phase \in {"send"} \cup InTask /\ body = "open"
  /\ request.declared = -1 \/ requested + n <= request.declared
  /\ \/ WithinLimit(n) /\ requested' = requested + n
        /\ body' = IF requested' = request.declared THEN "ended" ELSE "open"
     \/ ~WithinLimit(n) /\ body' = "over" /\ UNCHANGED requested
  /\ UNCHANGED <<head, phase, answered, errorReceipt, fed, long, detector, wire>>

\* The client's body ends, or its connection fails.
BodyEnds ==
  /\ phase \in {"send"} \cup InTask /\ body = "open"
  /\ \/ request.declared = -1 /\ body' = "ended"
     \/ body' = "broken"
  /\ UNCHANGED <<head, phase, requested, answered, errorReceipt, fed, long, detector, wire>>

\* send() fails or takes 120 s.  contains_body_limit_error finds the limit where
\* the client keeps the cause of its error.
SendFails ==
  /\ phase = "send"
  /\ \/ Answers(502)
     \/ body = "over" /\ Answers(413)

Answering == phase = "send" /\ body \in {"open", "ended"} /\ answered' = requested

\* The upstream answers with an error status: one JSON body with its receipt.
UpstreamError ==
  /\ Answering
  /\ errorReceipt' = requested
  /\ status' \in {429, 500} /\ phase' = "end"
  /\ UNCHANGED <<request, sse, bodyVars, fed, long, detector, wire>>

UpstreamAnswers ==
  /\ Answering
  /\ phase' = "loop" /\ status' = 200 /\ sse' \in BOOLEAN
  /\ UNCHANGED <<request, bodyVars, errorReceipt, fed, long, detector, wire>>

-----------------------------------------------------------------------------
\* A response that is no event stream passes the detector by.
Plain(b) ==
  /\ hashed' = hashed \o b
  /\ out' = out \o b
  /\ UNCHANGED <<trailing, completed, receipts>>

\* The events of this step in order: the data, and the receipt within it.
Events ==
  LET data == Drop(out', Len(out))
      r == receipts'[Len(receipts')]
      k == r.at - Len(out)
  IN  IF receipts' = receipts THEN data
      ELSE Take(data, k) \o <<RECEIPT>>
             \o (IF r.done = "killed" THEN <<KILLED>> ELSE <<>>) \o Drop(data, k)

\* send_terminal_error: the frame is queued, or refused as well.
MayEndWith(w) == wire' \in {w, Append(w, FRAME)}

\* Fault: an event the queue refuses is skipped.
RefusedSkips(terminal) ==
  \E n \in 1 .. Len(Events) : wire' = wire \o Drop(Events, n) /\ UNCHANGED phase

\* The queue refuses an event, and the task returns.
Refused(terminal) ==
  \E n \in 0 .. Len(Events) - 1 :
    /\ phase' = "end"
    /\ IF terminal THEN MayEndWith(wire \o Take(Events, n))
                   ELSE wire' = wire \o Take(Events, n)

Queued(next) == wire' = wire \o Events /\ phase' = next

\* The redactor puts out a segment, in the loop or in the final flush.
Output(b) ==
  /\ phase \in InTask
  /\ Len(fed) + Len(b) <= MaxFed
  /\ fed' = fed \o b
  /\ long' = (long \/ Len(b) >= RetainLen)
  /\ IF sse THEN Inspect(b) ELSE Plain(b)
  /\ Queued(phase) \/ Refused(~sse /\ phase = "loop")
  /\ UNCHANGED <<head, bodyVars, answered, errorReceipt>>

\* The upstream ends.
Eof ==
  /\ phase = "loop" /\ phase' = "eof"
  /\ UNCHANGED <<head, bodyVars, answered, errorReceipt, fed, long, detector, wire>>

\* The shutdown is announced: the receipt, then the final flush.
Shutdown ==
  /\ phase = "loop"
  /\ ShutdownEvents
  /\ Queued("shutdown") \/ Refused(FALSE)
  /\ UNCHANGED <<head, bodyVars, answered, errorReceipt, fed, long>>

\* Fault: every response is logged as completed.
AfterFlushAlways == "logged"

\* The digest is logged if the upstream has ended.
AfterFlush == IF phase = "eof" THEN "logged" ELSE "end"

\* After the final flush.
Finish ==
  /\ phase \in {"eof", "shutdown"}
  /\ IF sse THEN FinishEvents ELSE UNCHANGED detector
  /\ Queued(AfterFlush) \/ Refused(FALSE)
  /\ UNCHANGED <<head, bodyVars, answered, errorReceipt, fed, long>>

\* The upstream is idle for 15 s or unreadable, or its text is rejected.
StreamError ==
  /\ phase \in InTask /\ phase' = "end"
  /\ MayEndWith(wire)
  /\ UNCHANGED <<head, bodyVars, answered, errorReceipt, fed, long, detector>>

\* The client is gone: the handler is dropped, or the loop ends at once.
ClientGone ==
  /\ phase \in {"gate", "permits", "send", "loop"} /\ phase' = "end"
  /\ UNCHANGED <<head, bodyVars, answered, errorReceipt, fed, long, detector, wire>>

Chunks == UNION {[1 .. n -> Alphabet] : n \in 1 .. MaxChunk}

Next ==
  \/ Refuse \/ AttestationDocument \/ AdminHandler \/ ProxyHandler \/ Admitted \/ Shed
  \/ (\E n \in 1 .. MaxPiece : ReadBody(n)) \/ BodyEnds
  \/ SendFails \/ UpstreamError \/ UpstreamAnswers
  \/ (\E b \in Chunks : Output(b)) \/ Eof \/ Shutdown \/ Finish
  \/ StreamError \/ ClientGone

Spec == Init /\ [][Next]_vars

-----------------------------------------------------------------------------
TypeOK ==
  /\ request \in Requests /\ phase \in Phases
  /\ status \in {0, 200, 400, 401, 403, 413, 422, 429, 500, 502, 503}
  /\ body \in {"open", "ended", "over", "broken"}
  /\ {requested, answered} \subseteq Nat /\ errorReceipt \in Nat \cup {-1}
  /\ {sse, completed, long} \subseteq BOOLEAN
  /\ {fed, trailing, hashed, out} \subseteq Seq(Alphabet)
  /\ wire \in Seq(Alphabet \cup {RECEIPT, KILLED, FRAME})
  /\ Len(trailing) < MarkerLen
  /\ receipts \in Seq([hash : Seq(Alphabet), request : Nat, at : Nat,
                       done : {"marker", "killed"}])

\* Everything the detector has returned so far, in order.
Stream ==
  IF receipts = <<>> THEN out
  ELSE Take(out, receipts[1].at) \o <<RECEIPT>>
         \o (IF receipts[1].done = "killed" THEN <<KILLED>> ELSE <<>>)
         \o Drop(out, receipts[1].at)

\* Neither the detector nor the task loses, repeats or reorders a byte, whatever
\* the cuts and whatever the queue refuses: what was handed on and what is held
\* back is what the redactor put out, nothing is held back behind the receipt or
\* at the end, and the client's queue has a beginning of it, all of it as long as
\* the task runs, with a terminal error at most behind it.
PassThrough ==
  /\ out \o trailing = fed
  /\ completed \/ phase = "logged" => trailing = <<>>
  /\ phase \in InTask => wire = Stream
  /\ \E n \in 0 .. Len(Stream) :
       wire = Take(Stream, n) \/ wire = Append(Take(Stream, n), FRAME)

\* Holding back marker_len - 1 bytes is enough: no cut of the response hides the
\* marker from inspect, and only the marker or a shutdown completes a response.
MarkerNeverMissed ==
  sse => /\ Starts(fed) # {} => completed
         /\ completed => Starts(fed) # {} \/ receipts[1].done = "killed"

\* The index arithmetic of inspect is safe for every segment that may come next:
\* a marker found in the probe begins in the bytes held back and ends in the
\* segment, so `marker_len - (trailing_len - start)` does not wrap, the slice
\* behind it exists, and the probe fits its array of twice the marker's length.
ProbeInBounds ==
  sse /\ ~completed =>
    \A b \in Chunks :
      /\ Len(Probe(b)) <= 2 * MarkerLen
      /\ Starts(b) = {} /\ trailing # <<>> /\ Starts(Probe(b)) # {}
           => /\ First(Probe(b)) <= Len(trailing)
              /\ CurrentStart(b) \in 1 .. Len(b)

\* A request has one receipt at most: a shutdown after the marker, or a marker in
\* the final flush after a shutdown, adds none.
OneReceipt ==
  /\ Len(receipts) <= 1 /\ (completed <=> receipts # <<>>)
  /\ errorReceipt # -1 => receipts = <<>>

ReceiptPlaces == {p \in DOMAIN wire : wire[p] = RECEIPT}

\* What verify_e2e.py recomputes: the payload_hash of the receipt a client gets is
\* the digest of the response in front of it.
ReceiptHashesPayload ==
  \A p \in ReceiptPlaces : receipts[1].hash = Take(wire, p - 1)

\* What verify_e2e.py and the tests of lib.rs say of the order: no client gets a
\* marker in front of the receipt, or without one, and behind the receipt the
\* marker asked for comes the marker, as far as the queue took it.
ReceiptBeforeDone ==
  sse => /\ ReceiptPlaces = {} => Starts(wire) = {}
         /\ \A p \in ReceiptPlaces :
              /\ Starts(Take(wire, p - 1)) = {}
              /\ receipts[1].done = "marker" =>
                   \A i \in 1 .. MarkerLen :
                     p + i \in DOMAIN wire => wire[p + i] \in {Marker[i], FRAME}

\* As long as every segment is shorter than the bytes the detector holds back,
\* which is how the tests of lib.rs feed it, the receipt is what its verifiers
\* expect, for every cut of the response, when it is shut down, and when the
\* queue refuses the rest of it.
ReceiptExactForShortSegments ==
  ~long => ReceiptHashesPayload /\ ReceiptBeforeDone

\* `Redaction stream completed successfully` is logged only of a response that was
\* queued whole and not cut by a shutdown; if it has no receipt, the digest logged
\* with it is that of the response (of an event stream as long as its segments are
\* short).
LoggedOnlyWhole ==
  phase = "logged" =>
    /\ wire = Stream /\ out = fed /\ status = 200
    /\ receipts # <<>> => receipts[1].done = "marker"
    /\ receipts = <<>> /\ (~sse \/ ~long) => hashed = out

\* "with every post-redaction output segment" (COMPLIANCE_DRAFT.md): the digest
\* that is logged of a completed response is that of all its segments.
LoggedDigestExact == phase = "logged" => hashed = out

\* The upstream gets nothing of a request that one of the layers refuses, and
\* never more than MAX_BODY_SIZE, declared or not; 413 is said of such bodies only.
OnlyAdmittedBytesSent ==
  /\ requested <= MaxBody
  /\ requested > 0 \/ phase \in InTask =>
       /\ request.route = "chat" /\ request.method = "call"
       /\ request.token = "tenant" /\ request.origin # "foreign"
       /\ request.declared <= MaxBody
  /\ status = 413 => request.declared > MaxBody \/ body = "over"

RequestHashes ==
  {receipts[k].request : k \in DOMAIN receipts} \cup ({errorReceipt} \ {-1})

\* What verify_e2e.py recomputes: the request_hash of a receipt is the digest of
\* the request body, once all of it is there.
RequestHashExact == body = "ended" => \A q \in RequestHashes : q = requested

\* For an upstream that answers when it has the request, and nothing of the body
\* is read after that, every receipt's request_hash is exact, whatever the cut of
\* the body and whichever of marker, shutdown and error status asks for it.
RequestHashExactIfReadFirst == answered = requested => RequestHashExact
=============================================================================
