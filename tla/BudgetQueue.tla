---------------------------- MODULE BudgetQueue ----------------------------
(***************************************************************************)
(* The output path of one proxied response: admission of a request         *)
(* (lib.rs, proxy_with_upstream), the byte-budgeted segments its task       *)
(* produces and the body the client drains (budget_queue.rs).               *)
(*                                                                         *)
(* Every atomic operation on a shared counter (a semaphore or an           *)
(* AtomicUsize) is a step of its own, so handlers, tasks and bodies         *)
(* interleave as they do on a multi-threaded runtime.  Payloads are         *)
(* abstracted to their lengths.                                             *)
(*                                                                         *)
(* A tokio semaphore is its number of unacquired permits and, where the     *)
(* code waits for it, the FIFO queue of waiters.  Permits that tokio has    *)
(* set aside for the first waiter count as unacquired, and nobody passes    *)
(* a waiter: a try_acquire succeeds only when nobody waits.                 *)
(***************************************************************************)
EXTENDS Integers, FiniteSets, Sequences

CONSTANTS
  Streams,              \* slots for requests in progress at the same time
  Tenants,              \* digests of the bearer tokens
  MaxActiveStreams,     \* MAX_ACTIVE_UPSTREAM_STREAMS
  GlobalMemory,         \* permits of AppState.global_memory
  GlobalMemoryChunk,    \* GLOBAL_MEMORY_CHUNK, held by every running task
  TenantMemory,         \* TENANT_MEMORY_BUDGET
  OutputByteBudget,     \* OUTPUT_BYTE_BUDGET, the capacity of a ByteBudget
  QueueItems,           \* items of the channel
  MaxOutput,            \* bound: longest output handed to enqueue
  ErrorFrame,           \* length of a terminal error frame
  MaxSegments,          \* bound: segments one response is cut into
  MaxReloads            \* bound: reloads of the auth file

ASSUME BudgetAssumption ==
  /\ IsFiniteSet(Streams)
  /\ {MaxActiveStreams, GlobalMemory, TenantMemory, MaxReloads} \subseteq Nat
  /\ {GlobalMemoryChunk, OutputByteBudget, QueueItems,
      MaxOutput, ErrorFrame, MaxSegments} \subseteq Nat \ {0}

VARIABLES
  phase,        \* where the handler, then the task it spawns, stands
  sse,          \* is_sse of the upstream answer
  rest,         \* bytes the current enqueue call still has to send
  cur,          \* segments reserved so far; the last one is the current slice
  seg,          \* seg[s][i]: what has become of segment i of stream s
  size,         \* size[s][i]: its length
  sent,         \* history: how many of them were put in the channel
  body,         \* the BudgetedBody
  budget,       \* the tenant semaphore the stream's ByteBudget points to
  epoch,        \* times tenant_budgets was cleared
  tenantFree,   \* unacquired permits of every tenant semaphore
  globalFree, memoryQueue,    \* AppState.global_memory and its waiters
  streamFree, streamQueue,    \* UPSTREAM_STREAM_LIMIT and its waiters
  inUse,        \* PROXY_BYTE_BUDGET_IN_USE
  activeSse     \* ACTIVE_SSE_STREAMS

admissionVars == <<globalFree, memoryQueue, streamFree, streamQueue>>
segmentVars   == <<rest, cur, seg, size, sent>>
vars == <<phase, sse, segmentVars, body, budget, epoch, tenantFree,
          admissionVars, inUse, activeSse>>

Segments == 1 .. MaxSegments

\* A tenant's entry of tenant_budgets is created on first use with all its
\* permits and lives until the map is cleared: one semaphore per clearing.
Semaphores == Tenants \X (0 .. MaxReloads)

(***************************************************************************)
(* Life of a BudgetedSegment.  The producer reserves it ("local", "both"),  *)
(* counts it and waits to send it ("hand"), or gets it back in an           *)
(* EnqueueError::Closed ("error").  The body owns it while "queued" and in  *)
(* "flight".  Either side drops it in three steps: the counter, the global  *)
(* permit, the tenant permit.                                               *)
(***************************************************************************)
SegmentStates == {"none", "local", "both", "hand", "error", "queued", "flight",
                  "p_uncounted", "p_unglobal", "c_uncounted", "c_unglobal"}

HoldsLocal  == SegmentStates \ {"none"}
HoldsGlobal == {"both", "hand", "error", "queued", "flight",
                "p_uncounted", "c_uncounted"}
Counted     == {"hand", "error", "queued", "flight"}

Reserving   == {"local", "both", "hand"}

Phases == {"new", "stream_wait", "memory_wait", "upstream", "loop", "finish",
           "terminal", "unwind_memory", "unwind_stream", "unwind_guard", "done"}

HoldsStreamPermit == {"memory_wait", "upstream", "loop", "finish", "terminal",
                      "unwind_memory", "unwind_stream"}
HoldsMemoryChunk  == {"upstream", "loop", "finish", "terminal", "unwind_memory"}
BeforeTask == {"new", "stream_wait", "memory_wait", "upstream"}
TaskAlive == {"loop", "finish", "terminal",
              "unwind_memory", "unwind_stream", "unwind_guard"}

Goto(s, p) == phase' = [phase EXCEPT ![s] = p]

\* Fault: a waiter that gives up stays in the queue.
WithoutKeeps(q, s) == q

\* A waiter that gives up leaves the queue; it waits there at most once.
Without(q, s) ==
  IF \E k \in 1 .. Len(q) : q[k] = s
  THEN LET k == CHOOSE k \in 1 .. Len(q) : q[k] = s
       IN  SubSeq(q, 1, k - 1) \o SubSeq(q, k + 1, Len(q))
  ELSE q
IsFirst(s, q) == q # <<>> /\ Head(q) = s

Queued(s) == {i \in Segments : seg[s][i] = "queued"}
FirstQueued(s, i) == i \in Queued(s) /\ \A j \in Queued(s) : i <= j

Init ==
  /\ phase = [s \in Streams |-> "new"]
  /\ sse = [s \in Streams |-> FALSE]
  /\ rest = [s \in Streams |-> 0]
  /\ cur = [s \in Streams |-> 0]
  /\ seg = [s \in Streams |-> [i \in Segments |-> "none"]]
  /\ size = [s \in Streams |-> [i \in Segments |-> 0]]
  /\ sent = [s \in Streams |-> 0]
  /\ body = [s \in Streams |-> "none"]
  /\ budget \in [Streams -> {<<t, 0>> : t \in Tenants}]
  /\ epoch = 0
  /\ tenantFree = [m \in Semaphores |-> TenantMemory]
  /\ globalFree = GlobalMemory /\ memoryQueue = <<>>
  /\ streamFree = MaxActiveStreams /\ streamQueue = <<>>
  /\ inUse = 0
  /\ activeSse = 0

-----------------------------------------------------------------------------
(***************************************************************************)
(* Admission, in the request handler.                                      *)
(***************************************************************************)

\* The handler reaches UPSTREAM_STREAM_LIMIT.acquire(), which has no timeout.
Arrive(s) ==
  /\ phase[s] = "new"
  /\ streamQueue' = Append(streamQueue, s)
  /\ Goto(s, "stream_wait")
  /\ UNCHANGED <<sse, segmentVars, body, budget, epoch, tenantFree, globalFree,
                 memoryQueue, streamFree, inUse, activeSse>>

\* The first waiter gets a stream permit and starts waiting for its chunk.
StreamPermit(s) ==
  /\ phase[s] = "stream_wait"
  /\ IsFirst(s, streamQueue) /\ streamFree > 0
  /\ streamFree' = streamFree - 1
  /\ streamQueue' = Tail(streamQueue)
  /\ memoryQueue' = Append(memoryQueue, s)
  /\ Goto(s, "memory_wait")
  /\ UNCHANGED <<sse, segmentVars, body, budget, epoch, tenantFree, globalFree,
                 inUse, activeSse>>

ChunkGranted(s) == IsFirst(s, memoryQueue) /\ globalFree >= GlobalMemoryChunk

MemoryPermit(s) ==
  /\ phase[s] = "memory_wait"
  /\ ChunkGranted(s)
  /\ globalFree' = globalFree - GlobalMemoryChunk
  /\ memoryQueue' = Tail(memoryQueue)
  /\ Goto(s, "upstream")
  /\ UNCHANGED <<sse, segmentVars, body, budget, epoch, tenantFree, streamFree,
                 streamQueue, inUse, activeSse>>

\* Fault: the timeout answers without dropping the stream permit.
MemoryTimeoutLeaks(s) ==
  /\ phase[s] = "memory_wait"
  /\ ~ChunkGranted(s)
  /\ memoryQueue' = Without(memoryQueue, s)
  /\ Goto(s, "done")
  /\ UNCHANGED <<sse, segmentVars, body, budget, epoch, tenantFree, globalFree,
                 streamFree, streamQueue, inUse, activeSse>>

\* The 2 s timeout answers 503.  It polls the acquisition first, so it never
\* drops a chunk that was granted.
MemoryTimeout(s) ==
  /\ phase[s] = "memory_wait"
  /\ ~ChunkGranted(s)
  /\ memoryQueue' = Without(memoryQueue, s)
  /\ Goto(s, "unwind_stream")
  /\ UNCHANGED <<sse, segmentVars, body, budget, epoch, tenantFree, globalFree,
                 streamFree, streamQueue, inUse, activeSse>>

\* The client goes away before there is a response: the handler's future is
\* dropped where it waits.
HandlerDropped(s) ==
  /\ \/ /\ phase[s] = "stream_wait"
        /\ Goto(s, "done")
     \/ /\ phase[s] = "memory_wait"
        /\ Goto(s, "unwind_stream")
     \/ /\ phase[s] = "upstream"
        /\ Goto(s, "unwind_memory")
  /\ streamQueue' = Without(streamQueue, s)
  /\ memoryQueue' = Without(memoryQueue, s)
  /\ UNCHANGED <<sse, segmentVars, body, budget, epoch, tenantFree, globalFree,
                 streamFree, inUse, activeSse>>

\* The upstream request fails, times out (120 s) or answers an error status:
\* the handler returns a response of its own.
UpstreamFailed(s) ==
  /\ phase[s] = "upstream"
  /\ Goto(s, "unwind_memory")
  /\ UNCHANGED <<sse, segmentVars, body, budget, epoch, tenantFree,
                 admissionVars, inUse, activeSse>>

\* The upstream answers: the tenant's semaphore is looked up or created, the
\* task is spawned and owns both permits, the body goes to the client.
UpstreamAnswers(s, t, isSse) ==
  /\ phase[s] = "upstream"
  /\ sse' = [sse EXCEPT ![s] = isSse]
  /\ activeSse' = activeSse + IF isSse THEN 1 ELSE 0
  /\ budget' = [budget EXCEPT ![s] = <<t, epoch>>]
  /\ body' = [body EXCEPT ![s] = "open"]
  /\ Goto(s, "loop")
  /\ UNCHANGED <<segmentVars, epoch, tenantFree, admissionVars, inUse>>

-----------------------------------------------------------------------------
(***************************************************************************)
(* The task: the select loop, the final flush, the terminal error frame.   *)
(***************************************************************************)

Slices(n) == (n + OutputByteBudget - 1) \div OutputByteBudget

\* The redactor (or the DoneDetector behind it) has an output of n bytes and
\* enqueue is called with it.
Enqueue(s, n) ==
  /\ phase[s] \in {"loop", "finish"}
  /\ rest[s] = 0
  /\ cur[s] + Slices(n) + Slices(ErrorFrame) <= MaxSegments
  /\ rest' = [rest EXCEPT ![s] = n]
  /\ UNCHANGED <<sent, phase, sse, cur, seg, size, body, budget, epoch, tenantFree,
                 admissionVars, inUse, activeSse>>

\* The slice enqueue reserves next, and whether the task is about to do so:
\* the previous slice is sent, and one that was refused is dropped.
Slice(s) == IF rest[s] < OutputByteBudget THEN rest[s] ELSE OutputByteBudget
ReadyToReserve(s) ==
  /\ rest[s] > 0
  /\ cur[s] < MaxSegments
  /\ \A i \in Segments :
       seg[s][i] \notin {"local", "both", "hand", "p_uncounted", "p_unglobal"}

\* Faults: the task returns with its output pending; the loop goes on.
EnqueueFailedKeepsRest(s) == Goto(s, "unwind_memory") /\ UNCHANGED rest
EnqueueFailedContinues(s) == UNCHANGED phase /\ rest' = [rest EXCEPT ![s] = 0]

\* A failed enqueue ends the response.  Only a non-SSE stream in its select
\* loop tries to tell the client.
EnqueueFailed(s) ==
  IF phase[s] = "loop" /\ ~sse[s]
  THEN Goto(s, "terminal") /\ rest' = [rest EXCEPT ![s] = ErrorFrame]
  ELSE Goto(s, "unwind_memory") /\ rest' = [rest EXCEPT ![s] = 0]

\* Fault: the output is neither sliced nor compared with what the tenant has free.
TenantPermitUnchecked(s) ==
  /\ ReadyToReserve(s)
  /\ tenantFree' = [tenantFree EXCEPT ![budget[s]] = @ - rest[s]]
  /\ cur' = [cur EXCEPT ![s] = @ + 1]
  /\ seg' = [seg EXCEPT ![s][cur[s] + 1] = "local"]
  /\ size' = [size EXCEPT ![s][cur[s] + 1] = rest[s]]
  /\ UNCHANGED <<sent, phase, sse, rest, body, budget, epoch, admissionVars, inUse,
                 activeSse>>

TenantPermit(s) ==
  /\ ReadyToReserve(s)
  /\ tenantFree[budget[s]] >= Slice(s)
  /\ tenantFree' = [tenantFree EXCEPT ![budget[s]] = @ - Slice(s)]
  /\ cur' = [cur EXCEPT ![s] = @ + 1]
  /\ seg' = [seg EXCEPT ![s][cur[s] + 1] = "local"]
  /\ size' = [size EXCEPT ![s][cur[s] + 1] = Slice(s)]
  /\ UNCHANGED <<sent, phase, sse, rest, body, budget, epoch, admissionVars, inUse,
                 activeSse>>

TenantLimitExceeded(s) ==
  /\ ReadyToReserve(s)
  /\ tenantFree[budget[s]] < Slice(s)
  /\ EnqueueFailed(s)
  /\ UNCHANGED <<sent, sse, cur, seg, size, body, budget, epoch, tenantFree,
                 admissionVars, inUse, activeSse>>

\* Fault: the size of the segment is not compared with what is free.
GlobalAvailableUnchecked(n) == memoryQueue = <<>>

GlobalAvailable(n) == memoryQueue = <<>> /\ globalFree >= n

GlobalPermit(s, i) ==
  /\ seg[s][i] = "local"
  /\ GlobalAvailable(size[s][i])
  /\ globalFree' = globalFree - size[s][i]
  /\ seg' = [seg EXCEPT ![s][i] = "both"]
  /\ UNCHANGED <<sent, phase, sse, rest, cur, size, body, budget, epoch, tenantFree,
                 memoryQueue, streamFree, streamQueue, inUse, activeSse>>

\* The tenant permit already taken is dropped with the failing reserve call.
GlobalLimitExceeded(s, i) ==
  /\ seg[s][i] = "local"
  /\ ~GlobalAvailable(size[s][i])
  /\ tenantFree' = [tenantFree EXCEPT ![budget[s]] = @ + size[s][i]]
  /\ seg' = [seg EXCEPT ![s][i] = "none"]
  /\ size' = [size EXCEPT ![s][i] = 0]
  /\ EnqueueFailed(s)
  /\ UNCHANGED <<sent, sse, cur, body, budget, epoch, admissionVars, inUse,
                 activeSse>>

\* Fault: the gauge counts the whole output, the drop only the slice.
RecordOutput(s, i) ==
  /\ seg[s][i] = "both"
  /\ inUse' = inUse + rest[s]
  /\ seg' = [seg EXCEPT ![s][i] = "hand"]
  /\ UNCHANGED <<sent, phase, sse, rest, cur, size, body, budget, epoch, tenantFree,
                 admissionVars, activeSse>>

RecordInUse(s, i) ==
  /\ seg[s][i] = "both"
  /\ inUse' = inUse + size[s][i]
  /\ seg' = [seg EXCEPT ![s][i] = "hand"]
  /\ UNCHANGED <<sent, phase, sse, rest, cur, size, body, budget, epoch, tenantFree,
                 admissionVars, activeSse>>

QueueFull(s) == Cardinality(Queued(s)) >= QueueItems

Send(s, i) ==
  /\ seg[s][i] = "hand"
  /\ body[s] \in {"open", "polling"}
  /\ ~QueueFull(s)
  /\ seg' = [seg EXCEPT ![s][i] = "queued"]
  /\ rest' = [rest EXCEPT ![s] = @ - size[s][i]]
  /\ sent' = [sent EXCEPT ![s] = @ + 1]
  /\ UNCHANGED <<phase, sse, cur, size, body, budget, epoch, tenantFree,
                 admissionVars, inUse, activeSse>>

\* Faults: enqueue waits without a timeout; the segment it drops is forgotten.
EnqueueWaits(s, i) == FALSE
EnqueueTimeoutLeaks(s, i) ==
  /\ seg[s][i] = "hand"
  /\ body[s] \in {"open", "polling"}
  /\ QueueFull(s)
  /\ seg' = [seg EXCEPT ![s][i] = "none"]
  /\ size' = [size EXCEPT ![s][i] = 0]
  /\ EnqueueFailed(s)
  /\ UNCHANGED <<sent, sse, cur, body, budget, epoch, tenantFree,
                 admissionVars, inUse, activeSse>>

\* The 5 s timeout around enqueue drops the segment that waits for a place in
\* the channel; dropping it starts with the counter.
EnqueueTimeout(s, i) ==
  /\ seg[s][i] = "hand"
  /\ body[s] \in {"open", "polling"}
  /\ QueueFull(s)
  /\ inUse' = inUse - size[s][i]
  /\ seg' = [seg EXCEPT ![s][i] = "p_uncounted"]
  /\ EnqueueFailed(s)
  /\ UNCHANGED <<sent, sse, cur, size, body, budget, epoch, tenantFree,
                 admissionVars, activeSse>>

\* The body is gone: send gives the segment back inside the error.
SendClosed(s, i) ==
  /\ seg[s][i] = "hand"
  /\ body[s] = "dropped"
  /\ seg' = [seg EXCEPT ![s][i] = "error"]
  /\ EnqueueFailed(s)
  /\ UNCHANGED <<sent, sse, cur, size, body, budget, epoch, tenantFree,
                 admissionVars, inUse, activeSse>>

\* The upstream ends, or a shutdown is announced: the rest is flushed.
StreamEnds(s) ==
  /\ phase[s] = "loop" /\ rest[s] = 0
  /\ Goto(s, "finish")
  /\ UNCHANGED <<sse, segmentVars, body, budget, epoch, tenantFree,
                 admissionVars, inUse, activeSse>>

\* Idle for 15 s, unreadable upstream, or a redaction error (in the loop or
\* in the final flush): send_terminal_error.
StreamError(s) ==
  /\ phase[s] \in {"loop", "finish"} /\ rest[s] = 0
  /\ Goto(s, "terminal")
  /\ rest' = [rest EXCEPT ![s] = ErrorFrame]
  /\ UNCHANGED <<sent, sse, cur, seg, size, body, budget, epoch, tenantFree,
                 admissionVars, inUse, activeSse>>

\* The task returns: everything is flushed, the terminal frame is sent, or
\* the select loop saw tx.closed().
TaskReturns(s) ==
  /\ rest[s] = 0
  /\ \/ phase[s] \in {"finish", "terminal"}
     \/ phase[s] = "loop" /\ body[s] = "dropped"
  /\ Goto(s, "unwind_memory")
  /\ UNCHANGED <<sse, segmentVars, body, budget, epoch, tenantFree,
                 admissionVars, inUse, activeSse>>

\* Locals are dropped in reverse order: a segment given back by the channel,
\* the chunk, the stream permit, then the guard and the sender.
ProducerOwns(s) ==
  {i \in Segments : seg[s][i] \in {"local", "both", "hand", "error",
                                   "p_uncounted", "p_unglobal"}}

UnwindMemory(s) ==
  /\ phase[s] = "unwind_memory"
  /\ ProducerOwns(s) = {}
  /\ globalFree' = globalFree + GlobalMemoryChunk
  /\ Goto(s, "unwind_stream")
  /\ UNCHANGED <<sse, segmentVars, body, budget, epoch, tenantFree, memoryQueue,
                 streamFree, streamQueue, inUse, activeSse>>

\* Faults: the stream permit is forgotten; the guard counts every response.
UnwindStreamLeaks(s) ==
  /\ phase[s] = "unwind_stream"
  /\ Goto(s, IF body[s] = "none" THEN "done" ELSE "unwind_guard")
  /\ UNCHANGED <<sse, segmentVars, body, budget, epoch, tenantFree, admissionVars,
                 inUse, activeSse>>
UnwindGuardAlways(s) ==
  /\ phase[s] = "unwind_guard"
  /\ activeSse' = activeSse - 1
  /\ sse' = [sse EXCEPT ![s] = FALSE]
  /\ Goto(s, "done")
  /\ UNCHANGED <<segmentVars, body, budget, epoch, tenantFree,
                 admissionVars, inUse>>

UnwindStream(s) ==
  /\ phase[s] = "unwind_stream"
  /\ streamFree' = streamFree + 1
  /\ Goto(s, IF body[s] = "none" THEN "done" ELSE "unwind_guard")
  /\ UNCHANGED <<sse, segmentVars, body, budget, epoch, tenantFree, globalFree,
                 memoryQueue, streamQueue, inUse, activeSse>>

UnwindGuard(s) ==
  /\ phase[s] = "unwind_guard"
  /\ activeSse' = activeSse - IF sse[s] THEN 1 ELSE 0
  /\ sse' = [sse EXCEPT ![s] = FALSE]
  /\ Goto(s, "done")
  /\ UNCHANGED <<segmentVars, body, budget, epoch, tenantFree,
                 admissionVars, inUse>>

-----------------------------------------------------------------------------
(***************************************************************************)
(* The body, polled by the connection that serves the client.              *)
(***************************************************************************)

\* poll_frame first drops the frame of the previous poll ...
PollFrame(s) ==
  /\ body[s] = "open"
  /\ body' = [body EXCEPT ![s] = "polling"]
  /\ UNCHANGED <<phase, sse, segmentVars, budget, epoch, tenantFree,
                 admissionVars, inUse, activeSse>>

NothingInFlight(s) ==
  \A i \in Segments : seg[s][i] \notin {"flight", "c_uncounted", "c_unglobal"}

\* ... then takes the next segment of the channel,
ReceiveFrame(s, i) ==
  /\ body[s] = "polling" /\ NothingInFlight(s)
  /\ FirstQueued(s, i)
  /\ seg' = [seg EXCEPT ![s][i] = "flight"]
  /\ body' = [body EXCEPT ![s] = "open"]
  /\ UNCHANGED <<sent, phase, sse, rest, cur, size, budget, epoch, tenantFree,
                 admissionVars, inUse, activeSse>>

\* is pending, or ends when the sender is gone.
ReceiveNothing(s) ==
  /\ body[s] = "polling" /\ NothingInFlight(s)
  /\ Queued(s) = {}
  /\ body' = [body EXCEPT ![s] = IF phase[s] = "done" THEN "ended" ELSE "open"]
  /\ UNCHANGED <<phase, sse, segmentVars, budget, epoch, tenantFree,
                 admissionVars, inUse, activeSse>>

\* The client disconnects.
BodyDropped(s) ==
  /\ body[s] = "open"
  /\ body' = [body EXCEPT ![s] = "dropped"]
  /\ UNCHANGED <<phase, sse, segmentVars, budget, epoch, tenantFree,
                 admissionVars, inUse, activeSse>>

-----------------------------------------------------------------------------
(***************************************************************************)
(* Drop of a BudgetedSegment, by whoever owns it.                          *)
(***************************************************************************)

\* A body drops its receiver, hence the queue in order, before in_flight.  An
\* EnqueueError outlives the terminal frame that reports it.
DropStarts(s, i) ==
  \/ seg[s][i] = "flight" /\ \/ body[s] = "polling"
                             \/ body[s] = "dropped" /\ Queued(s) = {}
  \/ FirstQueued(s, i) /\ body[s] = "dropped"
  \/ seg[s][i] = "error" /\ phase[s] # "terminal"

DropCounter(s, i) ==
  /\ DropStarts(s, i)
  /\ inUse' = inUse - size[s][i]
  /\ seg' = [seg EXCEPT ![s][i] = IF @ = "error" THEN "p_uncounted"
                                                 ELSE "c_uncounted"]
  /\ UNCHANGED <<sent, phase, sse, rest, cur, size, body, budget, epoch, tenantFree,
                 admissionVars, activeSse>>

DropGlobalPermit(s, i) ==
  /\ seg[s][i] \in {"p_uncounted", "c_uncounted"}
  /\ globalFree' = globalFree + size[s][i]
  /\ seg' = [seg EXCEPT ![s][i] = IF @ = "p_uncounted" THEN "p_unglobal"
                                                       ELSE "c_unglobal"]
  /\ UNCHANGED <<sent, phase, sse, rest, cur, size, body, budget, epoch, tenantFree,
                 memoryQueue, streamFree, streamQueue, inUse, activeSse>>

\* Fault: permits go back to the semaphore the map has for the tenant now.
DropLookedUpPermit(s, i) ==
  /\ seg[s][i] \in {"p_unglobal", "c_unglobal"}
  /\ tenantFree' = [tenantFree EXCEPT ![<<budget[s][1], epoch>>] = @ + size[s][i]]
  /\ seg' = [seg EXCEPT ![s][i] = "none"]
  /\ size' = [size EXCEPT ![s][i] = 0]
  /\ UNCHANGED <<sent, phase, sse, rest, cur, body, budget, epoch,
                 admissionVars, inUse, activeSse>>

DropLocalPermit(s, i) ==
  /\ seg[s][i] \in {"p_unglobal", "c_unglobal"}
  /\ tenantFree' = [tenantFree EXCEPT ![budget[s]] = @ + size[s][i]]
  /\ seg' = [seg EXCEPT ![s][i] = "none"]
  /\ size' = [size EXCEPT ![s][i] = 0]
  /\ UNCHANGED <<sent, phase, sse, rest, cur, body, budget, epoch,
                 admissionVars, inUse, activeSse>>

-----------------------------------------------------------------------------
\* The auth file watcher clears tenant_budgets; streams keep their semaphore.
ReloadKeyring ==
  /\ epoch < MaxReloads
  /\ epoch' = epoch + 1
  /\ UNCHANGED <<phase, sse, segmentVars, body, budget, tenantFree,
                 admissionVars, inUse, activeSse>>

\* The slot of a response that is over serves another request.
Recycle(s) ==
  /\ phase[s] = "done"
  /\ body[s] \in {"none", "ended", "dropped"}
  /\ \A i \in Segments : seg[s][i] = "none"
  /\ Goto(s, "new")
  /\ cur' = [cur EXCEPT ![s] = 0]
  /\ sent' = [sent EXCEPT ![s] = 0]
  /\ body' = [body EXCEPT ![s] = "none"]
  /\ UNCHANGED <<sse, rest, seg, size, budget, epoch, tenantFree, admissionVars, inUse,
                 activeSse>>

Handler(s) ==
  \/ StreamPermit(s) \/ MemoryPermit(s) \/ MemoryTimeout(s)
  \/ UpstreamFailed(s)
  \/ \E t \in Tenants, isSse \in BOOLEAN : UpstreamAnswers(s, t, isSse)

ReserveAndSend(s) ==
  \/ TenantPermit(s) \/ TenantLimitExceeded(s)
  \/ \E i \in Segments :
       \/ GlobalPermit(s, i) \/ GlobalLimitExceeded(s, i)
       \/ RecordInUse(s, i)
       \/ Send(s, i) \/ EnqueueTimeout(s, i) \/ SendClosed(s, i)

Unwind(s) == UnwindMemory(s) \/ UnwindStream(s) \/ UnwindGuard(s)

Receive(s) == (\E i \in Segments : ReceiveFrame(s, i)) \/ ReceiveNothing(s)

DropSegment(s) ==
  \E i \in Segments :
    DropCounter(s, i) \/ DropGlobalPermit(s, i) \/ DropLocalPermit(s, i)

StreamStep(s) ==
  \/ Arrive(s) \/ HandlerDropped(s) \/ Handler(s)
  \/ \E n \in 1 .. MaxOutput : Enqueue(s, n)
  \/ ReserveAndSend(s)
  \/ StreamEnds(s) \/ StreamError(s) \/ TaskReturns(s)
  \/ Unwind(s)
  \/ PollFrame(s) \/ Receive(s) \/ BodyDropped(s)
  \/ DropSegment(s)
  \/ Recycle(s)

Next == (\E s \in Streams : StreamStep(s)) \/ ReloadKeyring

Spec == Init /\ [][Next]_vars

-----------------------------------------------------------------------------
(***************************************************************************)
(* Fairness.  The runtime polls every ready future; every wait of the       *)
(* handler and of the task ends, by a permit, an answer or a timeout (2 s   *)
(* for the chunk, 120 s for the upstream, 15 s idle, 5 s to enqueue), except *)
(* the one for a stream permit.  Nothing is assumed of the client: it may    *)
(* stop reading for ever without disconnecting.                              *)
(***************************************************************************)
Fairness ==
  \A s \in Streams :
    /\ WF_vars(Handler(s))
    /\ WF_vars(ReserveAndSend(s))
    /\ WF_vars(StreamEnds(s) \/ StreamError(s) \/ TaskReturns(s))
    /\ WF_vars(Unwind(s))
    /\ WF_vars(Receive(s))
    /\ WF_vars(DropSegment(s))

FairSpec == Spec /\ Fairness

-----------------------------------------------------------------------------
(***************************************************************************)
(* Who holds how many permits.  A slot of a stream is its chunk (0) or one  *)
(* of its segments; the bytes held are counted one by one.                  *)
(***************************************************************************)
Slots == Streams \X (0 .. MaxSegments)
MaxHeld == IF OutputByteBudget > GlobalMemoryChunk THEN OutputByteBudget
                                                   ELSE GlobalMemoryChunk
HeldBytes(h) == {x \in Slots \X (1 .. MaxHeld) : x[2] <= h[x[1]]}
Held(h) == Cardinality(HeldBytes(h))

SegmentBytes(p, states) ==
  IF p[2] # 0 /\ seg[p[1]][p[2]] \in states THEN size[p[1]][p[2]] ELSE 0
ChunkBytes(p) ==
  IF p[2] = 0 /\ phase[p[1]] \in HoldsMemoryChunk THEN GlobalMemoryChunk ELSE 0

GlobalHeld == [p \in Slots |-> IF p[2] = 0 THEN ChunkBytes(p)
                                            ELSE SegmentBytes(p, HoldsGlobal)]
TenantHeld(m) == [p \in Slots |-> IF budget[p[1]] = m
                                  THEN SegmentBytes(p, HoldsLocal) ELSE 0]
CountedBytes == [p \in Slots |-> SegmentBytes(p, Counted)]

TypeOK ==
  /\ phase \in [Streams -> Phases]
  /\ sse \in [Streams -> BOOLEAN]
  /\ rest \in [Streams -> Int]
  /\ cur \in [Streams -> 0 .. MaxSegments]
  /\ seg \in [Streams -> [Segments -> SegmentStates]]
  /\ size \in [Streams -> [Segments -> 0 .. OutputByteBudget]]
  /\ sent \in [Streams -> Int]
  /\ body \in [Streams -> {"none", "open", "polling", "ended", "dropped"}]
  /\ budget \in [Streams -> Semaphores]
  /\ epoch \in 0 .. MaxReloads
  /\ tenantFree \in [Semaphores -> Int]
  /\ globalFree \in Int /\ memoryQueue \in Seq(Streams)
  /\ streamFree \in Int /\ streamQueue \in Seq(Streams)
  /\ inUse \in Int /\ activeSse \in Int

\* The global memory budget is exact: in every interleaving of admissions,
\* reservations, refusals, timeouts and drops, the free permits of
\* global_memory and the permits held by tasks and segments add up to the
\* budget.  No path releases a permit twice or loses one, so at most
\* GlobalMemory bytes are ever buffered.
GlobalPermitsConserved ==
  globalFree >= 0 /\ globalFree + Held(GlobalHeld) = GlobalMemory

\* The same of every tenant semaphore, those included that a keyring reload
\* removed from the map while streams still use them.
TenantPermitsConserved ==
  \A m \in Semaphores :
    tenantFree[m] >= 0 /\ tenantFree[m] + Held(TenantHeld(m)) = TenantMemory

\* PROXY_BYTE_BUDGET_IN_USE is the number of bytes of the live segments: the
\* fetch_sub of a drop never wraps, and the gauge never exceeds what the
\* global semaphore has granted.
InUseExact ==
  inUse = Held(CountedBytes) /\ inUse <= GlobalMemory - globalFree

\* A stream permit is held by exactly the handlers past admission and the
\* tasks that have not returned: at most MaxActiveStreams of them.
StreamPermitsConserved ==
  /\ streamFree >= 0
  /\ streamFree + Cardinality({s \in Streams : phase[s] \in HoldsStreamPermit})
       = MaxActiveStreams

\* ACTIVE_SSE_STREAMS, incremented by the handler and decremented by the
\* guard of the task, is the number of SSE tasks alive on every exit path.
ActiveSseExact ==
  activeSse = Cardinality({s \in Streams : sse[s] /\ phase[s] \in TaskAlive})

TaskOK(s) ==
  /\ rest[s] >= 0
  /\ rest[s] > 0 => phase[s] \in {"loop", "finish", "terminal"}
  /\ \A i \in Segments :
       seg[s][i] \in Reserving => 0 < size[s][i] /\ size[s][i] <= rest[s]
  /\ \A i, j \in Segments :
       seg[s][i] \in Reserving /\ seg[s][j] \in Reserving => i = j
  /\ \A i \in Segments : phase[s] \in BeforeTask \/ i > cur[s] => seg[s][i] = "none"

\* What makes the accounting inductive: enqueue runs only inside the task, has
\* at most one slice in the making and still owes at least that slice (so
\* `start + segment_size` never passes the end of the output); a stream that has
\* no task yet has no segment, so looking up its tenant's semaphore cannot move
\* permits from one semaphore to another.
TaskConsistent == \A s \in Streams : TaskOK(s)

\* A waiter is in the queue it waits in, once, and nobody else is: no cancelled
\* request keeps others from the permits (a ghost waiter would block every
\* try_acquire of the output path for ever).
WaitersExact ==
  /\ \A s \in Streams :
       /\ Cardinality({k \in DOMAIN memoryQueue : memoryQueue[k] = s})
            = IF phase[s] = "memory_wait" THEN 1 ELSE 0
       /\ Cardinality({k \in DOMAIN streamQueue : streamQueue[k] = s})
            = IF phase[s] = "stream_wait" THEN 1 ELSE 0

\* Once a reserved slice of the response was lost (no global permit, the 5 s
\* timeout, a closed channel), nothing but the terminal error frame follows it:
\* a data slice enters the channel only when all slices reserved before it did,
\* so the client never receives data with a gap in it.
NoDataAfterGap ==
  [][\A s \in Streams :
       sent'[s] > sent[s] /\ phase[s] # "terminal" => sent'[s] = cur[s]]_vars

\* Every request comes to its end: it gets past the wait for a stream permit,
\* which has no timeout, because the tasks in front of it end, and its own task
\* ends even if its client stops reading (the 5 s timeout).  Once the client has
\* disconnected, everything the response holds is released as well, whatever the
\* task was doing and without any help from the upstream.
RequestsComplete ==
  \A s \in Streams :
    phase[s] # "new"
      ~> /\ phase[s] = "done"
         /\ body[s] = "dropped" => \A i \in Segments : seg[s][i] = "none"

\* What all the responses of a tenant hold, from whichever semaphore.
TenantBytes(t) == [p \in Slots |-> IF budget[p[1]][1] = t
                                   THEN SegmentBytes(p, HoldsLocal) ELSE 0]

\* What PHASE_COMPLETION_REPORT.md and chaos_test.rs say of tenants: all the
\* responses of one tenant together never hold more than the tenant's budget.
\* The code bounds each semaphore; a reload of the auth file clears the map and
\* gives the tenant a second one while its old streams still use the first.
TenantBytesBounded ==
  \A t \in Tenants : Held(TenantBytes(t)) <= TenantMemory

\* What the code does promise of a tenant: until the auth file is reloaded the
\* budget is a bound, and every reload adds one more budget at most, however its
\* responses reserve, refuse, time out and drop around the reloads.
TenantBoundedPerReload ==
  \A t \in Tenants : Held(TenantBytes(t)) <= TenantMemory * (epoch + 1)

\* "queued bytes + in-flight bytes <= configured byte budget" of
\* COMPLIANCE_DRAFT.md, for the budget that also bounds a segment: the queue of a
\* response and its frame in flight stay within the capacity of its ByteBudget.
StreamBytesBounded ==
  \A s \in Streams :
    Held([p \in Slots |-> IF p[1] = s THEN SegmentBytes(p, {"queued", "flight"}) ELSE 0])
      <= OutputByteBudget
=============================================================================
