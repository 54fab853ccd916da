------------------------- MODULE BudgetQueueStreams -------------------------
(***************************************************************************)
(* What is counted per response: the stream permits are conserved, the     *)
(* gauges are exact, no data follows a lost slice of a response, and the   *)
(* queues of admission hold exactly the requests that wait.                *)
(***************************************************************************)
EXTENDS BudgetQueueTasks

\* The provers a step is given to in turn, with their time limits in seconds.
USE SMTT(20), SMTT(30), ZenonT(20), SMTT(40), SMTT(50), SMTT(60)

PermitHolders == {s \in Streams : phase[s] \in HoldsStreamPermit}
SseTasks == {s \in Streams : sse[s] /\ phase[s] \in TaskAlive}

\* What makes the two counts inductive: an SSE response has a task, whose guard
\* has not run yet, and a body, so that the task's unwinding reaches the guard.
SseHasTask ==
  \A s \in Streams : sse[s] => phase[s] \in TaskAlive /\ body[s] # "none"

Gauges == StreamPermitsConserved /\ ActiveSseExact /\ SseHasTask

-----------------------------------------------------------------------------
\* The streams that hold a permit and the SSE tasks are finitely many.
LEMMA HoldersFinite ==
  /\ IsFiniteSet(PermitHolders) /\ Cardinality(PermitHolders) \in Nat
  /\ IsFiniteSet(SseTasks) /\ Cardinality(SseTasks) \in Nat
<1>1. PermitHolders \subseteq Streams /\ SseTasks \subseteq Streams
  BY DEF PermitHolders, SseTasks
<1>2. QED
  BY <1>1, BudgetAssumption, FS_Subset, FS_CardinalityType

\* No response gains or loses a stream permit, or becomes an SSE task or stops
\* being one.
QuietGauge(r) ==
  /\ phase'[r] \in HoldsStreamPermit <=> phase[r] \in HoldsStreamPermit
  /\ sse'[r] = sse[r]
  /\ sse[r] => phase'[r] \in TaskAlive /\ body'[r] # "none"

\* A step that leaves every response's permit and SSE task alone keeps the gauges.
LEMMA QuietGauges ==
  ASSUME Gauges, streamFree' = streamFree, activeSse' = activeSse,
         \A r \in Streams : QuietGauge(r)
  PROVE  Gauges'
<1>1. PermitHolders' = PermitHolders
  BY DEF PermitHolders, QuietGauge
<1>2. SseTasks' = SseTasks
  BY DEF SseTasks, QuietGauge, Gauges, SseHasTask
<1>3. SseHasTask'
  BY DEF SseHasTask, QuietGauge
<1>4. QED
  BY <1>1, <1>2, <1>3, ZenonT(40)
  DEF Gauges, StreamPermitsConserved, ActiveSseExact, PermitHolders, SseTasks

\* A failed enqueue moves a task from one alive phase to another.
LEMMA FailedGauge ==
  ASSUME TypeOK, Gauges, NEW s \in Streams, EnqueueFailed(s), rest[s] > 0, TaskOK(s),
         sse' = sse, body' = body
  PROVE  \A r \in Streams : QuietGauge(r)
<1>1. phase[s] \in {"loop", "finish", "terminal"}
  BY DEF TaskOK
<1>2. OnlyPhase(s) /\ phase'[s] \in {"terminal", "unwind_memory"}
  BY EnqueueFailedOutcome
<1>3. QED
  BY <1>1, <1>2 DEF OnlyPhase, QuietGauge, HoldsStreamPermit, TaskAlive, Gauges, SseHasTask

-----------------------------------------------------------------------------
\* Every step keeps the gauges.
LEMMA GaugesStep ==
  ASSUME TypeOK, TaskConsistent, Gauges, [Next]_vars
  PROVE  Gauges'
<1> USE DEF Goto, segmentVars, admissionVars
<1>0. /\ phase \in [Streams -> Phases] /\ sse \in [Streams -> BOOLEAN]
      /\ body \in [Streams -> {"none", "open", "polling", "ended", "dropped"}]
      /\ rest \in [Streams -> Int]
      /\ streamFree \in Int /\ activeSse \in Int
      /\ \A r \in Streams : TaskOK(r)
      /\ \A r \in Streams : sse[r] => phase[r] \in TaskAlive /\ body[r] # "none"
  BY DEF TypeOK, TaskConsistent, Gauges, SseHasTask
<1>1. ASSUME NEW s \in Streams, Arrive(s)
      PROVE  Gauges'
  BY <1>0, <1>1, QuietGauges DEF Arrive, QuietGauge, HoldsStreamPermit, TaskAlive
<1>2. ASSUME NEW s \in Streams, StreamPermit(s)
      PROVE  Gauges'
  <2>1. PermitHolders' = PermitHolders \cup {s} /\ s \notin PermitHolders
    BY <1>0, <1>2 DEF StreamPermit, PermitHolders, HoldsStreamPermit
  <2>2. Cardinality(PermitHolders') = Cardinality(PermitHolders) + 1
    BY <2>1, HoldersFinite, FS_AddElement, Zenon
  <2>3. streamFree > 0 /\ streamFree' = streamFree - 1
    BY <1>2 DEF StreamPermit
  <2>4. StreamPermitsConserved'
    BY <1>0, <2>2, <2>3, HoldersFinite DEF Gauges, StreamPermitsConserved, PermitHolders
  <2>5. ~sse[s] /\ sse' = sse /\ body' = body /\ activeSse' = activeSse /\ OnlyPhase(s)
    BY <1>0, <1>2, Zenon DEF StreamPermit, TaskAlive, OnlyPhase
  <2>6. SseTasks' = SseTasks /\ SseHasTask'
    BY <1>0, <2>5 DEF SseTasks, SseHasTask, OnlyPhase
  <2>7. QED
    BY <2>4, <2>5, <2>6 DEF Gauges, ActiveSseExact, SseTasks
<1>3. ASSUME NEW s \in Streams, MemoryPermit(s)
      PROVE  Gauges'
  BY <1>0, <1>3, QuietGauges DEF MemoryPermit, QuietGauge, HoldsStreamPermit, TaskAlive
<1>4. ASSUME NEW s \in Streams, MemoryTimeout(s)
      PROVE  Gauges'
  BY <1>0, <1>4, QuietGauges DEF MemoryTimeout, QuietGauge, HoldsStreamPermit, TaskAlive
<1>5. ASSUME NEW s \in Streams, HandlerDropped(s)
      PROVE  Gauges'
  BY <1>0, <1>5, QuietGauges DEF HandlerDropped, QuietGauge, HoldsStreamPermit, TaskAlive
<1>6. ASSUME NEW s \in Streams, UpstreamFailed(s)
      PROVE  Gauges'
  BY <1>0, <1>6, QuietGauges DEF UpstreamFailed, QuietGauge, HoldsStreamPermit, TaskAlive
<1>7. ASSUME NEW s \in Streams, NEW t \in Tenants, NEW isSse \in BOOLEAN, UpstreamAnswers(s, t, isSse)
      PROVE  Gauges'
  <2>1. /\ PermitHolders' = PermitHolders /\ streamFree' = streamFree
        /\ s \notin SseTasks
    BY <1>0, <1>7 DEF UpstreamAnswers, PermitHolders, SseTasks, HoldsStreamPermit, TaskAlive
  <2>2. StreamPermitsConserved'
    BY <2>1 DEF Gauges, StreamPermitsConserved, PermitHolders
  <2>3. /\ isSse => SseTasks' = SseTasks \cup {s} /\ activeSse' = activeSse + 1
        /\ ~isSse => SseTasks' = SseTasks /\ activeSse' = activeSse
    BY <1>0, <1>7, <2>1 DEF UpstreamAnswers, SseTasks, TaskAlive
  <2>4. isSse => Cardinality(SseTasks') = Cardinality(SseTasks) + 1
    BY <2>1, <2>3, HoldersFinite, FS_AddElement
  <2>5. ActiveSseExact'
    BY <2>3, <2>4 DEF Gauges, ActiveSseExact, SseTasks
  <2>6. SseHasTask'
    BY <1>0, <1>7 DEF UpstreamAnswers, SseHasTask, TaskAlive
  <2>7. QED
    BY <2>2, <2>5, <2>6 DEF Gauges
<1>8. ASSUME NEW s \in Streams, NEW n \in 1 .. MaxOutput, Enqueue(s, n)
      PROVE  Gauges'
  BY <1>0, <1>8, QuietGauges DEF Enqueue, QuietGauge, HoldsStreamPermit, TaskAlive
<1>9. ASSUME NEW s \in Streams, TenantPermit(s)
      PROVE  Gauges'
  BY <1>0, <1>9, QuietGauges DEF TenantPermit, QuietGauge, HoldsStreamPermit, TaskAlive
<1>10. ASSUME NEW s \in Streams, TenantLimitExceeded(s)
      PROVE  Gauges'
  <2>1. rest[s] > 0
    BY <1>10 DEF TenantLimitExceeded, ReadyToReserve
  <2>2. /\ EnqueueFailed(s) /\ sse' = sse /\ body' = body
        /\ streamFree' = streamFree /\ activeSse' = activeSse
    BY <1>10 DEF TenantLimitExceeded
  <2>3. QED
    BY <1>0, <2>1, <2>2, FailedGauge, QuietGauges
<1>11. ASSUME NEW s \in Streams, NEW i \in Segments, GlobalPermit(s, i)
      PROVE  Gauges'
  BY <1>0, <1>11, QuietGauges DEF GlobalPermit, QuietGauge, HoldsStreamPermit, TaskAlive
<1>12. ASSUME NEW s \in Streams, NEW i \in Segments, GlobalLimitExceeded(s, i)
      PROVE  Gauges'
  <2>1. rest[s] > 0
    <3>1. size[s][i] \in Int /\ 0 < size[s][i] /\ size[s][i] <= rest[s]
      BY <1>0, <1>12, ConstantTypes DEF GlobalLimitExceeded, TaskOK, Reserving, TypeOK
    <3>2. QED
      BY <1>0, <3>1
  <2>2. /\ EnqueueFailed(s) /\ sse' = sse /\ body' = body
        /\ streamFree' = streamFree /\ activeSse' = activeSse
    BY <1>12 DEF GlobalLimitExceeded
  <2>3. QED
    BY <1>0, <2>1, <2>2, FailedGauge, QuietGauges
<1>13. ASSUME NEW s \in Streams, NEW i \in Segments, RecordInUse(s, i)
      PROVE  Gauges'
  BY <1>0, <1>13, QuietGauges DEF RecordInUse, QuietGauge, HoldsStreamPermit, TaskAlive
<1>14. ASSUME NEW s \in Streams, NEW i \in Segments, Send(s, i)
      PROVE  Gauges'
  BY <1>0, <1>14, QuietGauges DEF Send, QuietGauge, HoldsStreamPermit, TaskAlive
<1>15. ASSUME NEW s \in Streams, NEW i \in Segments, EnqueueTimeout(s, i)
      PROVE  Gauges'
  <2>1. rest[s] > 0
    <3>1. size[s][i] \in Int /\ 0 < size[s][i] /\ size[s][i] <= rest[s]
      BY <1>0, <1>15, ConstantTypes DEF EnqueueTimeout, TaskOK, Reserving, TypeOK
    <3>2. QED
      BY <1>0, <3>1
  <2>2. /\ EnqueueFailed(s) /\ sse' = sse /\ body' = body
        /\ streamFree' = streamFree /\ activeSse' = activeSse
    BY <1>15 DEF EnqueueTimeout
  <2>3. QED
    BY <1>0, <2>1, <2>2, FailedGauge, QuietGauges
<1>16. ASSUME NEW s \in Streams, NEW i \in Segments, SendClosed(s, i)
      PROVE  Gauges'
  <2>1. rest[s] > 0
    <3>1. size[s][i] \in Int /\ 0 < size[s][i] /\ size[s][i] <= rest[s]
      BY <1>0, <1>16, ConstantTypes DEF SendClosed, TaskOK, Reserving, TypeOK
    <3>2. QED
      BY <1>0, <3>1
  <2>2. /\ EnqueueFailed(s) /\ sse' = sse /\ body' = body
        /\ streamFree' = streamFree /\ activeSse' = activeSse
    BY <1>16 DEF SendClosed
  <2>3. QED
    BY <1>0, <2>1, <2>2, FailedGauge, QuietGauges
<1>17. ASSUME NEW s \in Streams, StreamEnds(s)
      PROVE  Gauges'
  BY <1>0, <1>17, QuietGauges DEF StreamEnds, QuietGauge, HoldsStreamPermit, TaskAlive
<1>18. ASSUME NEW s \in Streams, StreamError(s)
      PROVE  Gauges'
  BY <1>0, <1>18, QuietGauges DEF StreamError, QuietGauge, HoldsStreamPermit, TaskAlive
<1>19. ASSUME NEW s \in Streams, TaskReturns(s)
      PROVE  Gauges'
  BY <1>0, <1>19, QuietGauges DEF TaskReturns, QuietGauge, HoldsStreamPermit, TaskAlive
<1>20. ASSUME NEW s \in Streams, UnwindMemory(s)
      PROVE  Gauges'
  BY <1>0, <1>20, QuietGauges DEF UnwindMemory, QuietGauge, HoldsStreamPermit, TaskAlive
<1>21. ASSUME NEW s \in Streams, UnwindStream(s)
      PROVE  Gauges'
  <2>1. /\ PermitHolders' = PermitHolders \ {s} /\ s \in PermitHolders
        /\ streamFree' = streamFree + 1
    BY <1>0, <1>21 DEF UnwindStream, PermitHolders, HoldsStreamPermit
  <2>2. Cardinality(PermitHolders') = Cardinality(PermitHolders) - 1
    BY <2>1, HoldersFinite, FS_RemoveElement, Zenon
  <2>3. StreamPermitsConserved'
    BY <1>0, <2>1, <2>2, HoldersFinite DEF Gauges, StreamPermitsConserved, PermitHolders
  <2>4. SseTasks' = SseTasks /\ activeSse' = activeSse /\ SseHasTask'
    BY <1>0, <1>21 DEF UnwindStream, SseTasks, SseHasTask, TaskAlive
  <2>5. QED
    BY <2>3, <2>4 DEF Gauges, ActiveSseExact, SseTasks
<1>22. ASSUME NEW s \in Streams, UnwindGuard(s)
      PROVE  Gauges'
  <2>1. PermitHolders' = PermitHolders /\ streamFree' = streamFree
    BY <1>0, <1>22 DEF UnwindGuard, PermitHolders, HoldsStreamPermit
  <2>2. StreamPermitsConserved'
    BY <2>1 DEF Gauges, StreamPermitsConserved, PermitHolders
  <2>3. /\ SseTasks' = SseTasks \ {s} /\ (s \in SseTasks <=> sse[s])
        /\ activeSse' = activeSse - IF sse[s] THEN 1 ELSE 0
    BY <1>0, <1>22 DEF UnwindGuard, SseTasks, TaskAlive
  <2>4. Cardinality(SseTasks')
          = IF s \in SseTasks THEN Cardinality(SseTasks) - 1 ELSE Cardinality(SseTasks)
    BY <2>3, HoldersFinite, FS_RemoveElement, ZenonT(40)
  <2>5. ActiveSseExact'
    BY <2>3, <2>4, HoldersFinite DEF Gauges, ActiveSseExact, SseTasks
  <2>6. SseHasTask'
    BY <1>0, <1>22 DEF UnwindGuard, SseHasTask, TaskAlive
  <2>7. QED
    BY <2>2, <2>5, <2>6 DEF Gauges
<1>23. ASSUME NEW s \in Streams, PollFrame(s)
      PROVE  Gauges'
  BY <1>0, <1>23, QuietGauges DEF PollFrame, QuietGauge, HoldsStreamPermit, TaskAlive
<1>24. ASSUME NEW s \in Streams, NEW i \in Segments, ReceiveFrame(s, i)
      PROVE  Gauges'
  BY <1>0, <1>24, QuietGauges DEF ReceiveFrame, QuietGauge, HoldsStreamPermit, TaskAlive
<1>25. ASSUME NEW s \in Streams, ReceiveNothing(s)
      PROVE  Gauges'
  BY <1>0, <1>25, QuietGauges DEF ReceiveNothing, QuietGauge, HoldsStreamPermit, TaskAlive
<1>26. ASSUME NEW s \in Streams, BodyDropped(s)
      PROVE  Gauges'
  BY <1>0, <1>26, QuietGauges DEF BodyDropped, QuietGauge, HoldsStreamPermit, TaskAlive
<1>27. ASSUME NEW s \in Streams, NEW i \in Segments, DropCounter(s, i)
      PROVE  Gauges'
  BY <1>0, <1>27, QuietGauges DEF DropCounter, QuietGauge, HoldsStreamPermit, TaskAlive
<1>28. ASSUME NEW s \in Streams, NEW i \in Segments, DropGlobalPermit(s, i)
      PROVE  Gauges'
  BY <1>0, <1>28, QuietGauges DEF DropGlobalPermit, QuietGauge, HoldsStreamPermit, TaskAlive
<1>29. ASSUME NEW s \in Streams, NEW i \in Segments, DropLocalPermit(s, i)
      PROVE  Gauges'
  BY <1>0, <1>29, QuietGauges DEF DropLocalPermit, QuietGauge, HoldsStreamPermit, TaskAlive
<1>30. ASSUME NEW s \in Streams, Recycle(s)
      PROVE  Gauges'
  BY <1>0, <1>30, QuietGauges DEF Recycle, QuietGauge, HoldsStreamPermit, TaskAlive
<1>31. CASE ReloadKeyring
  BY <1>0, <1>31, QuietGauges DEF ReloadKeyring, QuietGauge
<1>32. CASE UNCHANGED vars
  BY <1>0, <1>32, QuietGauges DEF vars, QuietGauge
<1>33. QED
  BY <1>1, <1>2, <1>3, <1>4, <1>5, <1>6, <1>7, <1>8, <1>9, <1>10,
     <1>11, <1>12, <1>13, <1>14, <1>15, <1>16, <1>17, <1>18, <1>19, <1>20,
     <1>21, <1>22, <1>23, <1>24, <1>25, <1>26, <1>27, <1>28, <1>29, <1>30,
     <1>31, <1>32
  DEF Next, StreamStep, Handler, ReserveAndSend, Unwind, Receive, DropSegment

\* Nothing is held at the start.
LEMMA InitGauges == Init => Gauges
<1> SUFFICES ASSUME Init PROVE Gauges
  OBVIOUS
<1>1. PermitHolders = {} /\ SseTasks = {} /\ SseHasTask
  BY DEF Init, PermitHolders, SseTasks, SseHasTask, HoldsStreamPermit
<1>2. Cardinality(PermitHolders) = 0 /\ Cardinality(SseTasks) = 0
  BY <1>1, FS_EmptySet
<1>3. streamFree = MaxActiveStreams /\ activeSse = 0 /\ MaxActiveStreams \in Nat
  BY ConstantTypes DEF Init
<1>4. QED
  BY <1>1, <1>2, <1>3
  DEF Gauges, StreamPermitsConserved, ActiveSseExact, PermitHolders, SseTasks

\* The gauges are right in every reachable state.
LEMMA GaugesInvariant == Spec => []Gauges
<1>1. TypeOK /\ TaskConsistent /\ Gauges /\ [Next]_vars => Gauges'
  BY GaugesStep
<1>2. QED
  BY <1>1, InitGauges, TypeCorrect, TasksConsistent, PTL DEF Spec

\* UPSTREAM_STREAM_LIMIT neither leaks a permit nor returns one twice, whatever
\* the number of responses and however they end: at most MaxActiveStreams of
\* them are past admission.
THEOREM StreamPermitsExact == Spec => []StreamPermitsConserved
<1>1. Gauges => StreamPermitsConserved
  BY DEF Gauges
<1>2. QED
  BY <1>1, GaugesInvariant, PTL

\* ACTIVE_SSE_STREAMS is the number of SSE tasks alive, on every exit path, so
\* its fetch_sub never wraps.
THEOREM SseGaugeExact == Spec => []ActiveSseExact
<1>1. Gauges => ActiveSseExact
  BY DEF Gauges
<1>2. QED
  BY <1>1, GaugesInvariant, PTL


-----------------------------------------------------------------------------
(***************************************************************************)
(* No data follows a lost slice of a response.                             *)
(***************************************************************************)

InTheMaking(s) == \E i \in Segments : seg[s][i] \in Reserving

\* What makes the action property provable: while the task may still send data,
\* every slice it reserved is in the channel, except the one in the making.
Delivered(s) ==
  /\ sent[s] >= 0
  /\ phase[s] \in BeforeTask => cur[s] = 0 /\ sent[s] = 0
  /\ phase[s] \in {"loop", "finish"}
       => /\ InTheMaking(s) => sent[s] = cur[s] - 1
          /\ ~InTheMaking(s) => sent[s] = cur[s]
AllDelivered == \A s \in Streams : Delivered(s)

-----------------------------------------------------------------------------
\* A response that a step leaves alone keeps its count.
LEMMA OtherDelivered ==
  ASSUME NEW r \in Streams, Delivered(r), phase'[r] = phase[r],
         cur'[r] = cur[r], sent'[r] = sent[r], seg'[r] = seg[r]
  PROVE  Delivered(r)'
  BY DEF Delivered, InTheMaking

\* A task that is past its data owes nothing.
LEMMA PastData ==
  ASSUME NEW s \in Streams, Delivered(s), sent'[s] = sent[s],
         phase'[s] \notin BeforeTask, phase'[s] \notin {"loop", "finish"}
  PROVE  Delivered(s)'
  BY DEF Delivered

\* A step that keeps the task in its phase and a slice in the making, or none.
LEMMA SameSlice ==
  ASSUME NEW s \in Streams, Delivered(s), phase'[s] = phase[s], cur'[s] = cur[s],
         sent'[s] = sent[s], InTheMaking(s)' <=> InTheMaking(s)
  PROVE  Delivered(s)'
  BY DEF Delivered

\* Every step keeps the counts.
LEMMA DeliveredStep ==
  ASSUME TypeOK, TypeOK', TaskConsistent, AllDelivered, [Next]_vars
  PROVE  AllDelivered'
<1> USE DEF Goto, segmentVars, admissionVars
<1>0. /\ phase \in [Streams -> Phases] /\ rest \in [Streams -> Int]
      /\ seg \in [Streams -> [Segments -> SegmentStates]]
      /\ cur \in [Streams -> 0 .. MaxSegments] /\ sent \in [Streams -> Int]
      /\ \A r \in Streams : TaskOK(r) /\ Delivered(r)
  BY DEF TypeOK, TaskConsistent, AllDelivered
<1>1. ASSUME NEW s \in Streams, Arrive(s)
      PROVE  AllDelivered'
  <2>1. ASSUME NEW r \in Streams, r # s PROVE Delivered(r)'
    BY <1>0, <1>1, <2>1, OtherDelivered DEF Arrive
  <2>2. Delivered(s)'
    BY <1>0, <1>1 DEF Arrive, Delivered, BeforeTask
  <2>3. QED
    BY <2>1, <2>2, Zenon DEF AllDelivered
<1>2. ASSUME NEW s \in Streams, StreamPermit(s)
      PROVE  AllDelivered'
  <2>1. ASSUME NEW r \in Streams, r # s PROVE Delivered(r)'
    BY <1>0, <1>2, <2>1, OtherDelivered DEF StreamPermit
  <2>2. Delivered(s)'
    BY <1>0, <1>2 DEF StreamPermit, Delivered, BeforeTask
  <2>3. QED
    BY <2>1, <2>2, Zenon DEF AllDelivered
<1>3. ASSUME NEW s \in Streams, MemoryPermit(s)
      PROVE  AllDelivered'
  <2>1. ASSUME NEW r \in Streams, r # s PROVE Delivered(r)'
    BY <1>0, <1>3, <2>1, OtherDelivered DEF MemoryPermit
  <2>2. Delivered(s)'
    BY <1>0, <1>3 DEF MemoryPermit, Delivered, BeforeTask
  <2>3. QED
    BY <2>1, <2>2, Zenon DEF AllDelivered
<1>4. ASSUME NEW s \in Streams, MemoryTimeout(s)
      PROVE  AllDelivered'
  <2>1. ASSUME NEW r \in Streams, r # s PROVE Delivered(r)'
    BY <1>0, <1>4, <2>1, OtherDelivered DEF MemoryTimeout
  <2>2. Delivered(s)'
    BY <1>0, <1>4, PastData DEF MemoryTimeout, BeforeTask
  <2>3. QED
    BY <2>1, <2>2, Zenon DEF AllDelivered
<1>5. ASSUME NEW s \in Streams, HandlerDropped(s)
      PROVE  AllDelivered'
  <2>1. ASSUME NEW r \in Streams, r # s PROVE Delivered(r)'
    BY <1>0, <1>5, <2>1, OtherDelivered DEF HandlerDropped
  <2>2. Delivered(s)'
    BY <1>0, <1>5, PastData DEF HandlerDropped, BeforeTask
  <2>3. QED
    BY <2>1, <2>2, Zenon DEF AllDelivered
<1>6. ASSUME NEW s \in Streams, UpstreamFailed(s)
      PROVE  AllDelivered'
  <2>1. ASSUME NEW r \in Streams, r # s PROVE Delivered(r)'
    BY <1>0, <1>6, <2>1, OtherDelivered DEF UpstreamFailed
  <2>2. Delivered(s)'
    BY <1>0, <1>6, PastData DEF UpstreamFailed, BeforeTask
  <2>3. QED
    BY <2>1, <2>2, Zenon DEF AllDelivered
<1>7. ASSUME NEW s \in Streams, NEW t \in Tenants, NEW isSse \in BOOLEAN, UpstreamAnswers(s, t, isSse)
      PROVE  AllDelivered'
  <2>1. ASSUME NEW r \in Streams, r # s PROVE Delivered(r)'
    BY <1>0, <1>7, <2>1, OtherDelivered DEF UpstreamAnswers
  <2>2. Delivered(s)'
    <3>1. /\ phase'[s] = "loop" /\ cur' = cur /\ sent' = sent /\ seg' = seg
          /\ phase[s] = "upstream"
      BY <1>0, <1>7 DEF UpstreamAnswers
    <3>2. ~InTheMaking(s) /\ cur[s] = 0 /\ sent[s] = 0
      BY <1>0, <3>1 DEF InTheMaking, TaskOK, BeforeTask, Reserving, Delivered
    <3>3. QED
      BY <3>1, <3>2 DEF Delivered, InTheMaking, BeforeTask
  <2>3. QED
    BY <2>1, <2>2, Zenon DEF AllDelivered
<1>8. ASSUME NEW s \in Streams, NEW n \in 1 .. MaxOutput, Enqueue(s, n)
      PROVE  AllDelivered'
  BY <1>0, <1>8, OtherDelivered DEF Enqueue, AllDelivered
<1>9. ASSUME NEW s \in Streams, TenantPermit(s)
      PROVE  AllDelivered'
  <2>1. ASSUME NEW r \in Streams, r # s PROVE Delivered(r)'
    BY <1>0, <1>9, <2>1, OtherDelivered DEF TenantPermit
  <2>2. Delivered(s)'
    <3>1. /\ phase' = phase /\ cur'[s] = cur[s] + 1 /\ sent' = sent
          /\ phase[s] \notin BeforeTask
      BY <1>0, <1>9 DEF TenantPermit, ReadyToReserve, TaskOK, BeforeTask
    <3>2. ~InTheMaking(s)
      BY <1>9 DEF TenantPermit, ReadyToReserve, Reserving, InTheMaking
    <3>3. InTheMaking(s)'
      <4>1. cur[s] + 1 \in Segments
        BY <1>0, <1>9, ConstantTypes DEF TenantPermit, ReadyToReserve, Segments
      <4>2. seg'[s][cur[s] + 1] = "local"
        BY <1>0, <1>9, <4>1 DEF TenantPermit
      <4>3. QED
        BY <4>1, <4>2 DEF InTheMaking, Reserving
    <3>4. QED
      BY <1>0, <3>1, <3>2, <3>3 DEF Delivered
  <2>3. QED
    BY <2>1, <2>2, Zenon DEF AllDelivered
<1>10. ASSUME NEW s \in Streams, TenantLimitExceeded(s)
      PROVE  AllDelivered'
  <2>1. ASSUME NEW r \in Streams, r # s PROVE Delivered(r)'
    <3>1. phase'[r] = phase[r]
      BY <1>10, <2>1, EnqueueFailedOutcome DEF TenantLimitExceeded, OnlyPhase
    <3>2. cur'[r] = cur[r] /\ sent'[r] = sent[r] /\ seg'[r] = seg[r]
      BY <1>0, <1>10, <2>1 DEF TenantLimitExceeded
    <3>3. QED
      BY <1>0, <3>1, <3>2, OtherDelivered
  <2>2. Delivered(s)'
    <3>1. phase'[s] \in {"terminal", "unwind_memory"} /\ sent' = sent
      BY <1>10, EnqueueFailedOutcome DEF TenantLimitExceeded
    <3>2. QED
      BY <1>0, <3>1, PastData DEF BeforeTask
  <2>3. QED
    BY <2>1, <2>2, Zenon DEF AllDelivered
<1>11. ASSUME NEW s \in Streams, NEW i \in Segments, GlobalPermit(s, i)
      PROVE  AllDelivered'
  <2>1. ASSUME NEW r \in Streams, r # s PROVE Delivered(r)'
    BY <1>0, <1>11, <2>1, OtherDelivered DEF GlobalPermit
  <2>2. Delivered(s)'
    <3>1. phase' = phase /\ cur' = cur /\ sent' = sent
      BY <1>11 DEF GlobalPermit
    <3>2. seg[s][i] \in {"local"} /\ seg'[s][i] \in {"both"}
      BY <1>0, <1>11 DEF GlobalPermit
    <3>3. \A j \in Segments : j # i => seg'[s][j] = seg[s][j]
      BY <1>0, <1>11 DEF GlobalPermit
    <3>4. QED
      BY <1>0, <3>1, <3>2, <3>3, SameSlice DEF InTheMaking, Reserving
  <2>3. QED
    BY <2>1, <2>2, ZenonT(40) DEF AllDelivered
<1>12. ASSUME NEW s \in Streams, NEW i \in Segments, GlobalLimitExceeded(s, i)
      PROVE  AllDelivered'
  <2>1. ASSUME NEW r \in Streams, r # s PROVE Delivered(r)'
    <3>1. phase'[r] = phase[r]
      BY <1>12, <2>1, EnqueueFailedOutcome DEF GlobalLimitExceeded, OnlyPhase
    <3>2. cur'[r] = cur[r] /\ sent'[r] = sent[r] /\ seg'[r] = seg[r]
      BY <1>0, <1>12, <2>1 DEF GlobalLimitExceeded
    <3>3. QED
      BY <1>0, <3>1, <3>2, OtherDelivered
  <2>2. Delivered(s)'
    <3>1. phase'[s] \in {"terminal", "unwind_memory"} /\ sent' = sent
      BY <1>12, EnqueueFailedOutcome DEF GlobalLimitExceeded
    <3>2. QED
      BY <1>0, <3>1, PastData DEF BeforeTask
  <2>3. QED
    BY <2>1, <2>2, Zenon DEF AllDelivered
<1>13. ASSUME NEW s \in Streams, NEW i \in Segments, RecordInUse(s, i)
      PROVE  AllDelivered'
  <2>1. ASSUME NEW r \in Streams, r # s PROVE Delivered(r)'
    <3>1. phase' = phase /\ cur' = cur /\ sent' = sent
      BY <1>13, Zenon DEF RecordInUse
    <3>2. seg'[r] = seg[r]
      BY <1>0, <1>13, <2>1, ZenonT(20) DEF RecordInUse
    <3>3. QED
      BY <1>0, <3>1, <3>2, OtherDelivered, Zenon
  <2>2. Delivered(s)'
    <3>1. phase' = phase /\ cur' = cur /\ sent' = sent
      BY <1>13 DEF RecordInUse
    <3>2. seg[s][i] \in {"both"} /\ seg'[s][i] \in {"hand"}
      BY <1>0, <1>13 DEF RecordInUse
    <3>3. \A j \in Segments : j # i => seg'[s][j] = seg[s][j]
      BY <1>0, <1>13, ZenonT(20) DEF RecordInUse
    <3>4. QED
      BY <1>0, <3>1, <3>2, <3>3, SameSlice DEF InTheMaking, Reserving
  <2>3. QED
    BY <2>1, <2>2, Zenon DEF AllDelivered
<1>14. ASSUME NEW s \in Streams, NEW i \in Segments, Send(s, i)
      PROVE  AllDelivered'
  <2>1. ASSUME NEW r \in Streams, r # s PROVE Delivered(r)'
    BY <1>0, <1>14, <2>1, OtherDelivered DEF Send
  <2>2. Delivered(s)'
    <3>1. /\ phase' = phase /\ cur' = cur /\ sent'[s] = sent[s] + 1
          /\ seg[s][i] = "hand" /\ seg'[s][i] = "queued"
          /\ \A j \in Segments : j # i => seg'[s][j] = seg[s][j]
      BY <1>0, <1>14 DEF Send
    <3>2. InTheMaking(s) /\ phase[s] \notin BeforeTask
      BY <1>0, <3>1 DEF InTheMaking, Reserving, TaskOK
    <3>3. \A j \in Segments : j # i => seg[s][j] \notin Reserving
      BY <1>0, <3>1 DEF TaskOK, Reserving
    <3>4. ~InTheMaking(s)'
      BY <3>1, <3>3 DEF InTheMaking, Reserving
    <3>5. QED
      BY <1>0, <3>1, <3>2, <3>4 DEF Delivered
  <2>3. QED
    BY <2>1, <2>2, Zenon DEF AllDelivered
<1>15. ASSUME NEW s \in Streams, NEW i \in Segments, EnqueueTimeout(s, i)
      PROVE  AllDelivered'
  <2>1. ASSUME NEW r \in Streams, r # s PROVE Delivered(r)'
    <3>1. phase'[r] = phase[r]
      BY <1>15, <2>1, EnqueueFailedOutcome DEF EnqueueTimeout, OnlyPhase
    <3>2. cur'[r] = cur[r] /\ sent'[r] = sent[r] /\ seg'[r] = seg[r]
      BY <1>0, <1>15, <2>1 DEF EnqueueTimeout
    <3>3. QED
      BY <1>0, <3>1, <3>2, OtherDelivered
  <2>2. Delivered(s)'
    <3>1. phase'[s] \in {"terminal", "unwind_memory"} /\ sent' = sent
      BY <1>15, EnqueueFailedOutcome DEF EnqueueTimeout
    <3>2. QED
      BY <1>0, <3>1, PastData DEF BeforeTask
  <2>3. QED
    BY <2>1, <2>2, Zenon DEF AllDelivered
<1>16. ASSUME NEW s \in Streams, NEW i \in Segments, SendClosed(s, i)
      PROVE  AllDelivered'
  <2>1. ASSUME NEW r \in Streams, r # s PROVE Delivered(r)'
    <3>1. phase'[r] = phase[r]
      BY <1>16, <2>1, EnqueueFailedOutcome DEF SendClosed, OnlyPhase
    <3>2. cur'[r] = cur[r] /\ sent'[r] = sent[r] /\ seg'[r] = seg[r]
      BY <1>0, <1>16, <2>1 DEF SendClosed
    <3>3. QED
      BY <1>0, <3>1, <3>2, OtherDelivered
  <2>2. Delivered(s)'
    <3>1. phase'[s] \in {"terminal", "unwind_memory"} /\ sent' = sent
      BY <1>16, EnqueueFailedOutcome DEF SendClosed
    <3>2. QED
      BY <1>0, <3>1, PastData DEF BeforeTask
  <2>3. QED
    BY <2>1, <2>2, Zenon DEF AllDelivered
<1>17. ASSUME NEW s \in Streams, StreamEnds(s)
      PROVE  AllDelivered'
  <2>1. ASSUME NEW r \in Streams, r # s PROVE Delivered(r)'
    BY <1>0, <1>17, <2>1, OtherDelivered DEF StreamEnds
  <2>2. Delivered(s)'
    BY <1>0, <1>17 DEF StreamEnds, Delivered, InTheMaking, BeforeTask
  <2>3. QED
    BY <2>1, <2>2, Zenon DEF AllDelivered
<1>18. ASSUME NEW s \in Streams, StreamError(s)
      PROVE  AllDelivered'
  <2>1. ASSUME NEW r \in Streams, r # s PROVE Delivered(r)'
    BY <1>0, <1>18, <2>1, OtherDelivered DEF StreamError
  <2>2. Delivered(s)'
    BY <1>0, <1>18, PastData DEF StreamError, BeforeTask
  <2>3. QED
    BY <2>1, <2>2, Zenon DEF AllDelivered
<1>19. ASSUME NEW s \in Streams, TaskReturns(s)
      PROVE  AllDelivered'
  <2>1. ASSUME NEW r \in Streams, r # s PROVE Delivered(r)'
    BY <1>0, <1>19, <2>1, OtherDelivered DEF TaskReturns
  <2>2. Delivered(s)'
    BY <1>0, <1>19, PastData DEF TaskReturns, BeforeTask
  <2>3. QED
    BY <2>1, <2>2, Zenon DEF AllDelivered
<1>20. ASSUME NEW s \in Streams, UnwindMemory(s)
      PROVE  AllDelivered'
  <2>1. ASSUME NEW r \in Streams, r # s PROVE Delivered(r)'
    BY <1>0, <1>20, <2>1, OtherDelivered DEF UnwindMemory
  <2>2. Delivered(s)'
    BY <1>0, <1>20, PastData DEF UnwindMemory, BeforeTask
  <2>3. QED
    BY <2>1, <2>2, Zenon DEF AllDelivered
<1>21. ASSUME NEW s \in Streams, UnwindStream(s)
      PROVE  AllDelivered'
  <2>1. ASSUME NEW r \in Streams, r # s PROVE Delivered(r)'
    BY <1>0, <1>21, <2>1, OtherDelivered DEF UnwindStream
  <2>2. Delivered(s)'
    BY <1>0, <1>21, PastData DEF UnwindStream, BeforeTask
  <2>3. QED
    BY <2>1, <2>2, Zenon DEF AllDelivered
<1>22. ASSUME NEW s \in Streams, UnwindGuard(s)
      PROVE  AllDelivered'
  <2>1. ASSUME NEW r \in Streams, r # s PROVE Delivered(r)'
    BY <1>0, <1>22, <2>1, OtherDelivered DEF UnwindGuard
  <2>2. Delivered(s)'
    BY <1>0, <1>22, PastData DEF UnwindGuard, BeforeTask
  <2>3. QED
    BY <2>1, <2>2, Zenon DEF AllDelivered
<1>23. ASSUME NEW s \in Streams, PollFrame(s)
      PROVE  AllDelivered'
  BY <1>0, <1>23, OtherDelivered DEF PollFrame, AllDelivered
<1>24. ASSUME NEW s \in Streams, NEW i \in Segments, ReceiveFrame(s, i)
      PROVE  AllDelivered'
  <2>1. ASSUME NEW r \in Streams, r # s PROVE Delivered(r)'
    BY <1>0, <1>24, <2>1, OtherDelivered DEF ReceiveFrame
  <2>2. Delivered(s)'
    <3>1. phase' = phase /\ cur' = cur /\ sent' = sent
      BY <1>24 DEF ReceiveFrame
    <3>2. seg[s][i] \in {"queued"} /\ seg'[s][i] \in {"flight"}
      BY <1>0, <1>24 DEF ReceiveFrame, FirstQueued, Queued
    <3>3. \A j \in Segments : j # i => seg'[s][j] = seg[s][j]
      BY <1>0, <1>24 DEF ReceiveFrame
    <3>4. QED
      BY <1>0, <3>1, <3>2, <3>3, SameSlice, ZenonT(40) DEF InTheMaking, Reserving
  <2>3. QED
    BY <2>1, <2>2, Zenon DEF AllDelivered
<1>25. ASSUME NEW s \in Streams, ReceiveNothing(s)
      PROVE  AllDelivered'
  BY <1>0, <1>25, OtherDelivered DEF ReceiveNothing, AllDelivered
<1>26. ASSUME NEW s \in Streams, BodyDropped(s)
      PROVE  AllDelivered'
  BY <1>0, <1>26, OtherDelivered DEF BodyDropped, AllDelivered
<1>27. ASSUME NEW s \in Streams, NEW i \in Segments, DropCounter(s, i)
      PROVE  AllDelivered'
  <2>1. ASSUME NEW r \in Streams, r # s PROVE Delivered(r)'
    <3>1. phase' = phase /\ cur' = cur /\ sent' = sent
      BY <1>27, Zenon DEF DropCounter
    <3>2. seg'[r] = seg[r]
      BY <1>0, <1>27, <2>1, ZenonT(20) DEF DropCounter
    <3>3. QED
      BY <1>0, <3>1, <3>2, OtherDelivered, Zenon
  <2>2. Delivered(s)'
    <3>1. phase' = phase /\ cur' = cur /\ sent' = sent
      BY <1>27 DEF DropCounter
    <3>2. seg[s][i] \in {"flight", "queued", "error"} /\ seg'[s][i] \in {"p_uncounted", "c_uncounted"}
      BY <1>0, <1>27, Zenon DEF DropCounter, DropStarts, FirstQueued, Queued
    <3>3. \A j \in Segments : j # i => seg'[s][j] = seg[s][j]
      BY <1>0, <1>27, ZenonT(20) DEF DropCounter
    <3>4. QED
      BY <1>0, <3>1, <3>2, <3>3, SameSlice, ZenonT(40) DEF InTheMaking, Reserving
  <2>3. QED
    BY <2>1, <2>2, Zenon DEF AllDelivered
<1>28. ASSUME NEW s \in Streams, NEW i \in Segments, DropGlobalPermit(s, i)
      PROVE  AllDelivered'
  <2>1. ASSUME NEW r \in Streams, r # s PROVE Delivered(r)'
    <3>1. phase' = phase /\ cur' = cur /\ sent' = sent
      BY <1>28, Zenon DEF DropGlobalPermit
    <3>2. seg'[r] = seg[r]
      BY <1>0, <1>28, <2>1, ZenonT(20) DEF DropGlobalPermit
    <3>3. QED
      BY <1>0, <3>1, <3>2, OtherDelivered, Zenon
  <2>2. Delivered(s)'
    <3>1. phase' = phase /\ cur' = cur /\ sent' = sent
      BY <1>28 DEF DropGlobalPermit
    <3>2. seg[s][i] \in {"p_uncounted", "c_uncounted"} /\ seg'[s][i] \in {"p_unglobal", "c_unglobal"}
      BY <1>0, <1>28 DEF DropGlobalPermit
    <3>3. \A j \in Segments : j # i => seg'[s][j] = seg[s][j]
      BY <1>0, <1>28, ZenonT(20) DEF DropGlobalPermit
    <3>4. QED
      BY <1>0, <3>1, <3>2, <3>3, SameSlice, ZenonT(40) DEF InTheMaking, Reserving
  <2>3. QED
    BY <2>1, <2>2, Zenon DEF AllDelivered
<1>29. ASSUME NEW s \in Streams, NEW i \in Segments, DropLocalPermit(s, i)
      PROVE  AllDelivered'
  <2>1. ASSUME NEW r \in Streams, r # s PROVE Delivered(r)'
    <3>1. phase' = phase /\ cur' = cur /\ sent' = sent
      BY <1>29, Zenon DEF DropLocalPermit
    <3>2. seg'[r] = seg[r]
      BY <1>0, <1>29, <2>1, ZenonT(20) DEF DropLocalPermit
    <3>3. QED
      BY <1>0, <3>1, <3>2, OtherDelivered, Zenon
  <2>2. Delivered(s)'
    <3>1. phase' = phase /\ cur' = cur /\ sent' = sent
      BY <1>29 DEF DropLocalPermit
    <3>2. seg[s][i] \in {"p_unglobal", "c_unglobal"} /\ seg'[s][i] \in {"none"}
      BY <1>0, <1>29 DEF DropLocalPermit
    <3>3. \A j \in Segments : j # i => seg'[s][j] = seg[s][j]
      BY <1>0, <1>29, ZenonT(20) DEF DropLocalPermit
    <3>4. QED
      BY <1>0, <3>1, <3>2, <3>3, SameSlice, ZenonT(40) DEF InTheMaking, Reserving
  <2>3. QED
    BY <2>1, <2>2, Zenon DEF AllDelivered
<1>30. ASSUME NEW s \in Streams, Recycle(s)
      PROVE  AllDelivered'
  <2>1. ASSUME NEW r \in Streams, r # s PROVE Delivered(r)'
    BY <1>0, <1>30, <2>1, OtherDelivered DEF Recycle
  <2>2. Delivered(s)'
    BY <1>0, <1>30 DEF Recycle, Delivered, BeforeTask
  <2>3. QED
    BY <2>1, <2>2, Zenon DEF AllDelivered
<1>31. CASE ReloadKeyring
  BY <1>0, <1>31, OtherDelivered DEF ReloadKeyring, AllDelivered
<1>32. CASE UNCHANGED vars
  BY <1>0, <1>32, OtherDelivered DEF vars, AllDelivered
<1>33. QED
  BY <1>1, <1>2, <1>3, <1>4, <1>5, <1>6, <1>7, <1>8, <1>9, <1>10,
     <1>11, <1>12, <1>13, <1>14, <1>15, <1>16, <1>17, <1>18, <1>19, <1>20,
     <1>21, <1>22, <1>23, <1>24, <1>25, <1>26, <1>27, <1>28, <1>29, <1>30,
     <1>31, <1>32
  DEF Next, StreamStep, Handler, ReserveAndSend, Unwind, Receive, DropSegment

\* Nothing is reserved or sent at the start.
LEMMA InitDelivered == Init => AllDelivered
  BY DEF Init, AllDelivered, Delivered, InTheMaking, Reserving

\* Only send counts a slice as sent.
LEMMA OnlySendSends ==
  ASSUME TypeOK, AllDelivered, [Next]_vars, NEW s \in Streams, sent'[s] > sent[s]
  PROVE  \E i \in Segments : Send(s, i)
<1>0. sent \in [Streams -> Int] /\ sent[s] >= 0
  BY DEF TypeOK, AllDelivered, Delivered
<1>1. sent' # sent
  BY <1>0
<1>2. ASSUME NEW r \in Streams, Recycle(r) PROVE FALSE
  BY <1>0, <1>2 DEF Recycle
<1>3. PICK r \in Streams : \E i \in Segments : Send(r, i)
  <2>1. ASSUME NEW r \in Streams, StreamStep(r), ~\E i \in Segments : Send(r, i)
        PROVE  FALSE
    <3>1. ASSUME Arrive(r) \/ HandlerDropped(r) \/ Handler(r) PROVE FALSE
      <4>1. CASE Arrive(r)
        BY <1>1, <4>1, Zenon DEF Arrive, segmentVars
      <4>2. CASE HandlerDropped(r)
        BY <1>1, <4>2, Zenon DEF HandlerDropped, segmentVars
      <4>3. CASE StreamPermit(r) \/ MemoryPermit(r) \/ MemoryTimeout(r)
        BY <1>1, <4>3, Zenon DEF StreamPermit, MemoryPermit, MemoryTimeout, segmentVars
      <4>4. CASE UpstreamFailed(r)
        BY <1>1, <4>4, Zenon DEF UpstreamFailed, segmentVars
      <4>5. CASE \E t \in Tenants, isSse \in BOOLEAN : UpstreamAnswers(r, t, isSse)
        BY <1>1, <4>5, Zenon DEF UpstreamAnswers, segmentVars
      <4>6. QED
        BY <3>1, <4>1, <4>2, <4>3, <4>4, <4>5, Zenon DEF Handler
    <3>2. ASSUME ReserveAndSend(r) PROVE FALSE
      <4>1. CASE TenantPermit(r) \/ TenantLimitExceeded(r)
        BY <1>1, <4>1, Zenon DEF TenantPermit, TenantLimitExceeded
      <4>2. ASSUME NEW i \in Segments, GlobalPermit(r, i) \/ GlobalLimitExceeded(r, i)
            PROVE  FALSE
        BY <1>1, <4>2, Zenon DEF GlobalPermit, GlobalLimitExceeded
      <4>3. ASSUME NEW i \in Segments,
                   RecordInUse(r, i) \/ EnqueueTimeout(r, i) \/ SendClosed(r, i)
            PROVE  FALSE
        BY <1>1, <4>3, Zenon DEF RecordInUse, EnqueueTimeout, SendClosed
      <4>4. QED
        BY <2>1, <3>2, <4>1, <4>2, <4>3, Zenon DEF ReserveAndSend
    <3>3. ASSUME \/ \E n \in 1 .. MaxOutput : Enqueue(r, n)
                 \/ StreamEnds(r) \/ StreamError(r) \/ TaskReturns(r) \/ Unwind(r)
          PROVE  FALSE
      BY <1>1, <3>3, ZenonT(40) DEF Enqueue, StreamEnds, StreamError, TaskReturns, Unwind,
         UnwindMemory, UnwindStream, UnwindGuard, segmentVars
    <3>4. ASSUME PollFrame(r) \/ Receive(r) \/ BodyDropped(r) \/ DropSegment(r)
          PROVE  FALSE
      BY <1>1, <3>4 DEF PollFrame, Receive, ReceiveFrame, ReceiveNothing, BodyDropped,
         DropSegment, DropCounter, DropGlobalPermit, DropLocalPermit, segmentVars
    <3>5. QED
      BY <1>2, <2>1, <3>1, <3>2, <3>3, <3>4 DEF StreamStep
  <2>2. ~ReloadKeyring /\ ~UNCHANGED vars
    BY <1>1 DEF ReloadKeyring, vars, segmentVars
  <2>3. QED
    BY <2>1, <2>2 DEF Next
<1>4. r = s
  BY <1>0, <1>3 DEF Send
<1>5. QED
  BY <1>3, <1>4

\* A data slice that enters the channel is the last one reserved, and all the
\* slices before it are there.
LEMMA SendInOrder ==
  ASSUME TypeOK, TaskConsistent, AllDelivered, [Next]_vars, NEW s \in Streams,
         sent'[s] > sent[s], phase[s] # "terminal"
  PROVE  sent'[s] = cur[s]
<1>1. PICK i \in Segments : Send(s, i)
  BY OnlySendSends, Zenon
<1>2. /\ sent \in [Streams -> Int] /\ cur[s] \in Int /\ rest[s] \in Int
      /\ size[s][i] \in Int /\ TaskOK(s) /\ Delivered(s)
  BY ConstantTypes DEF TypeOK, TaskConsistent, AllDelivered
<1>3. seg[s][i] = "hand" /\ sent'[s] = sent[s] + 1
  BY <1>1, <1>2 DEF Send
<1>4. InTheMaking(s) /\ phase[s] \in {"loop", "finish"}
  <2>1. seg[s][i] \in Reserving
    BY <1>3, Zenon DEF Reserving
  <2>2. rest[s] > 0
    BY <1>2, <2>1 DEF TaskOK
  <2>3. QED
    BY <1>2, <2>1, <2>2, ZenonT(40) DEF TaskOK, InTheMaking
<1>5. sent[s] = cur[s] - 1
  BY <1>2, <1>4, Zenon DEF Delivered
<1>6. \A m \in Int : m - 1 + 1 = m
  OBVIOUS
<1>7. QED
  BY <1>2, <1>3, <1>5, <1>6, Zenon

\* The channel never receives data behind a lost slice, for any number of
\* responses, slices and any sizes: after a refused reservation, a timeout or a
\* closed channel only the terminal error frame is sent.
THEOREM NoGap == Spec => NoDataAfterGap
<1> DEFINE InOrder == \A s \in Streams :
                        sent'[s] > sent[s] /\ phase[s] # "terminal" => sent'[s] = cur[s]
<1>1. TypeOK /\ TaskConsistent /\ AllDelivered /\ [Next]_vars => InOrder
  BY SendInOrder
<1>2. TypeOK /\ TypeOK' /\ TaskConsistent /\ AllDelivered /\ [Next]_vars => AllDelivered'
  BY DeliveredStep
<1>3. NoDataAfterGap <=> [][InOrder]_vars
  BY DEF NoDataAfterGap
<1> HIDE DEF InOrder
<1>4. QED
  BY <1>1, <1>2, <1>3, InitDelivered, TypeCorrect, TasksConsistent, PTL DEF Spec

-----------------------------------------------------------------------------
(***************************************************************************)
(* The queues of waiters.                                                  *)
(***************************************************************************)
Unique(q) == \A k, l \in 1 .. Len(q) : q[k] = q[l] => k = l
Members(q) == {q[k] : k \in 1 .. Len(q)}
InPhase(p) == {s \in Streams : phase[s] = p}

\* A queue has whoever is in the phase of waiting in it, once.
Waiting ==
  /\ Unique(memoryQueue) /\ Members(memoryQueue) = InPhase("memory_wait")
  /\ Unique(streamQueue) /\ Members(streamQueue) = InPhase("stream_wait")

\* Whoever is new to a queue is in it once.
LEMMA WaiterJoins ==
  ASSUME NEW q \in Seq(Streams), NEW s \in Streams, Unique(q), s \notin Members(q)
  PROVE  Unique(Append(q, s)) /\ Members(Append(q, s)) = Members(q) \cup {s}
<1> DEFINE r == Append(q, s)
<1>1. /\ Len(q) \in Nat /\ Len(r) = Len(q) + 1 /\ r[Len(q) + 1] = s
      /\ \A k \in 1 .. Len(q) : r[k] = q[k]
  OBVIOUS
<1> HIDE DEF r
<1>2. \A k \in 1 .. Len(r) : k \in 1 .. Len(q) \/ k = Len(q) + 1
  BY <1>1
<1>3. \A k \in 1 .. Len(q) : q[k] # s
  BY DEF Members
<1>4. Unique(r)
  BY <1>1, <1>2, <1>3 DEF Unique
<1>5. Members(r) \subseteq Members(q) \cup {s}
  BY <1>1, <1>2 DEF Members
<1>6. Members(q) \cup {s} \subseteq Members(r)
  <2>1. 1 .. Len(q) \subseteq 1 .. Len(r) /\ Len(q) + 1 \in 1 .. Len(r)
    BY <1>1
  <2>2. QED
    BY <1>1, <2>1 DEF Members
<1>7. QED
  BY <1>4, <1>5, <1>6 DEF r

\* The first waiter leaves the others where they are.
LEMMA FirstLeaves ==
  ASSUME NEW q \in Seq(Streams), Unique(q), NEW s, IsFirst(s, q)
  PROVE  Unique(Tail(q)) /\ Members(Tail(q)) = Members(q) \ {s}
<1> DEFINE r == Tail(q)
<1>1. /\ Len(q) \in Nat /\ Len(q) > 0 /\ Len(r) = Len(q) - 1 /\ q[1] = s
      /\ \A k \in 1 .. Len(q) - 1 : r[k] = q[k + 1]
  BY DEF IsFirst
<1> HIDE DEF r
<1>2. \A k \in 1 .. Len(q) - 1 : k + 1 \in 1 .. Len(q) /\ k + 1 # 1
  BY <1>1
<1>3. Unique(r)
  <2> SUFFICES ASSUME NEW k \in 1 .. Len(r), NEW l \in 1 .. Len(r), r[k] = r[l] PROVE k = l
    BY DEF Unique
  <2>1. k + 1 \in 1 .. Len(q) /\ l + 1 \in 1 .. Len(q) /\ q[k + 1] = q[l + 1]
    BY <1>1, <1>2
  <2>2. k + 1 = l + 1
    BY <2>1 DEF Unique
  <2>3. QED
    BY <1>1, <2>2
<1>4. Members(r) \subseteq Members(q) \ {s}
  <2> SUFFICES ASSUME NEW k \in 1 .. Len(r) PROVE r[k] \in Members(q) /\ r[k] # s
    BY DEF Members
  <2>1. k + 1 \in 1 .. Len(q) /\ k + 1 # 1 /\ 1 \in 1 .. Len(q) /\ r[k] = q[k + 1]
    BY <1>1, <1>2
  <2>2. QED
    BY <1>1, <2>1 DEF Members, Unique
<1>5. Members(q) \ {s} \subseteq Members(r)
  <2> SUFFICES ASSUME NEW k \in 1 .. Len(q), q[k] # s PROVE q[k] \in Members(r)
    BY DEF Members
  <2>1. k - 1 \in 1 .. Len(r) /\ r[k - 1] = q[k]
    <3>1. k # 1
      BY <1>1
    <3>2. k - 1 \in 1 .. Len(q) - 1 /\ (k - 1) + 1 = k
      BY <1>1, <3>1
    <3>3. QED
      BY <1>1, <3>2
  <2>2. QED
    BY <2>1 DEF Members
<1>6. QED
  BY <1>3, <1>4, <1>5 DEF r

\* A waiter that gives up, wherever it stands, leaves the others where they are.
LEMMA WaiterLeaves ==
  ASSUME NEW q \in Seq(Streams), Unique(q), NEW s
  PROVE  Unique(Without(q, s)) /\ Members(Without(q, s)) = Members(q) \ {s}
<1>1. CASE s \notin Members(q)
  <2>1. ~\E k \in 1 .. Len(q) : q[k] = s
    BY <1>1 DEF Members
  <2>2. Without(q, s) = q
    BY <2>1 DEF Without
  <2>3. QED
    BY <1>1, <2>2
<1>2. CASE s \in Members(q)
  <2>1. \E k \in 1 .. Len(q) : q[k] = s
    BY <1>2 DEF Members
  <2>2. PICK k \in Nat : /\ k \in 1 .. Len(q) /\ q[k] = s
                         /\ Without(q, s) = SubSeq(q, 1, k - 1) \o SubSeq(q, k + 1, Len(q))
    <3> DEFINE c == CHOOSE k \in 1 .. Len(q) : q[k] = s
    <3>1. c \in 1 .. Len(q) /\ q[c] = s
      BY <2>1
    <3>2. Without(q, s) = SubSeq(q, 1, c - 1) \o SubSeq(q, c + 1, Len(q))
      BY <2>1, Zenon DEF Without
    <3> HIDE DEF c
    <3>3. c \in Nat
      BY <3>1
    <3>4. QED
      BY <3>1, <3>2, <3>3, Zenon
  <2> DEFINE r == Without(q, s)
             At(i) == IF i < k THEN i ELSE i + 1
  <2>3. /\ Len(q) \in Nat /\ Len(r) = Len(q) - 1
        /\ \A i \in 1 .. Len(q) - 1 : r[i] = q[At(i)]
    <3> DEFINE a == SubSeq(q, 1, k - 1)
               b == SubSeq(q, k + 1, Len(q))
    <3>1. /\ a \in Seq(Streams) /\ Len(a) = k - 1 /\ \A i \in 1 .. k - 1 : a[i] = q[i]
      BY <2>2
    <3>2. /\ b \in Seq(Streams) /\ Len(b) = Len(q) - k
          /\ \A i \in 1 .. Len(q) - k : b[i] = q[k + i]
      BY <2>2
    <3> HIDE DEF a, b
    <3>a. a \in Seq(Streams) /\ b \in Seq(Streams)
      BY <3>1, <3>2
    <3>3. /\ Len(a \o b) = Len(a) + Len(b)
          /\ \A i \in 1 .. Len(a) : (a \o b)[i] = a[i]
          /\ \A i \in Len(a) + 1 .. Len(a) + Len(b) : (a \o b)[i] = b[i - Len(a)]
      BY <3>a
    <3>4. r = a \o b
      BY <2>2 DEF a, b
    <3> HIDE DEF r
    <3>5. Len(q) \in Nat /\ Len(r) = Len(q) - 1
      <4>1. Len(r) = Len(a) + Len(b)
        BY <3>3, <3>4
      <4>2. Len(q) \in Nat /\ k \in Nat
        OBVIOUS
      <4>3. Len(a) = k - 1 /\ Len(b) = Len(q) - k
        BY <3>1, <3>2
      <4>4. QED
        BY <4>1, <4>2, <4>3
    <3>6. ASSUME NEW i \in 1 .. Len(q) - 1, i < k PROVE r[i] = q[i]
      BY <2>2, <3>1, <3>3, <3>4, <3>6
    <3>7. ASSUME NEW i \in 1 .. Len(q) - 1, ~(i < k) PROVE r[i] = q[i + 1]
      <4>1. /\ i \in Len(a) + 1 .. Len(a) + Len(b) /\ i - Len(a) \in 1 .. Len(q) - k
            /\ k + (i - Len(a)) = i + 1
        BY <2>2, <3>1, <3>2, <3>7
      <4>2. r[i] = b[i - Len(a)]
        BY <3>3, <3>4, <4>1
      <4>3. b[i - Len(a)] = q[k + (i - Len(a))]
        BY <3>2, <4>1
      <4>4. QED
        BY <4>1, <4>2, <4>3
    <3>8. QED
      BY <3>5, <3>6, <3>7
  <2>4. /\ \A i \in 1 .. Len(q) - 1 : At(i) \in 1 .. Len(q) /\ At(i) # k
        /\ \A i, j \in 1 .. Len(q) - 1 : At(i) = At(j) => i = j
        /\ \A l \in 1 .. Len(q) : l # k => \E i \in 1 .. Len(q) - 1 : At(i) = l
    <3>1. \A i \in 1 .. Len(q) - 1 : At(i) \in 1 .. Len(q) /\ At(i) # k
      BY <2>2, <2>3
    <3>2. \A i, j \in 1 .. Len(q) - 1 : At(i) = At(j) => i = j
      BY <2>2, <2>3
    <3>3. ASSUME NEW l \in 1 .. Len(q), l # k PROVE \E i \in 1 .. Len(q) - 1 : At(i) = l
      <4>1. CASE l < k
        BY <2>2, <2>3, <4>1
      <4>2. CASE l > k
        <5>1. l - 1 \in 1 .. Len(q) - 1 /\ At(l - 1) = l
          BY <2>2, <2>3, <4>2
        <5>2. QED
          BY <5>1
      <4>3. QED
        BY <2>2, <3>3, <4>1, <4>2
    <3>4. QED
      BY <3>1, <3>2, <3>3
  <2> HIDE DEF r, At
  <2>5. Unique(r)
    BY <2>3, <2>4 DEF Unique
  <2>6. Members(r) \subseteq Members(q) \ {s}
    BY <2>2, <2>3, <2>4 DEF Members, Unique
  <2>7. Members(q) \ {s} \subseteq Members(r)
    <3> SUFFICES ASSUME NEW l \in 1 .. Len(q), q[l] # s PROVE q[l] \in Members(r)
      BY DEF Members
    <3>1. PICK i \in 1 .. Len(q) - 1 : At(i) = l
      BY <2>2, <2>4
    <3>2. r[i] = q[l] /\ i \in 1 .. Len(r)
      BY <2>3, <3>1
    <3>3. QED
      BY <3>2 DEF Members
  <2>8. QED
    BY <2>5, <2>6, <2>7 DEF r
<1>3. QED
  BY <1>1, <1>2

\* In a queue where everybody stands once, the places of a waiter are counted.
LEMMA PlacesOf ==
  ASSUME NEW q \in Seq(Streams), Unique(q), NEW s
  PROVE  Cardinality({k \in DOMAIN q : q[k] = s}) = IF s \in Members(q) THEN 1 ELSE 0
<1> DEFINE P == {k \in DOMAIN q : q[k] = s}
<1>1. DOMAIN q = 1 .. Len(q)
  OBVIOUS
<1>2. CASE s \in Members(q)
  <2>1. PICK k \in 1 .. Len(q) : q[k] = s
    BY <1>2 DEF Members
  <2>2. P = {k}
    BY <1>1, <2>1 DEF Unique
  <2>3. QED
    BY <1>2, <2>2, FS_Singleton, Zenon
<1>3. CASE s \notin Members(q)
  <2>1. P = {}
    BY <1>1, <1>3 DEF Members
  <2>2. QED
    BY <1>3, <2>1, FS_EmptySet, ZenonT(40)
<1>4. QED
  BY <1>2, <1>3

-----------------------------------------------------------------------------
\* Nobody begins or stops waiting.
NobodyWaits ==
  /\ memoryQueue' = memoryQueue /\ streamQueue' = streamQueue
  /\ \A r \in Streams :
       /\ phase'[r] = "memory_wait" <=> phase[r] = "memory_wait"
       /\ phase'[r] = "stream_wait" <=> phase[r] = "stream_wait"

LEMMA QuietWaiting ==
  ASSUME Waiting, NobodyWaits
  PROVE  Waiting'
<1>1. InPhase("memory_wait")' = InPhase("memory_wait")
  BY DEF InPhase, NobodyWaits
<1>2. InPhase("stream_wait")' = InPhase("stream_wait")
  BY DEF InPhase, NobodyWaits
<1>3. QED
  BY <1>1, <1>2 DEF Waiting, NobodyWaits, Unique, Members

\* A failed enqueue happens in a task.
LEMMA FailedWaiting ==
  ASSUME Waiting, phase \in [Streams -> Phases], NEW s \in Streams,
         EnqueueFailed(s), phase[s] \notin {"memory_wait", "stream_wait"},
         memoryQueue' = memoryQueue, streamQueue' = streamQueue
  PROVE  Waiting'
<1>1. \E p \in {"terminal", "unwind_memory"} : phase' = [phase EXCEPT ![s] = p]
  BY DEF EnqueueFailed, Goto
<1>2. NobodyWaits
  BY <1>1 DEF NobodyWaits
<1>3. QED
  BY <1>2, QuietWaiting

\* The steps that enter or leave a queue.
LEMMA QueueSteps ==
  ASSUME TypeOK, Waiting, NEW s \in Streams,
         Arrive(s) \/ StreamPermit(s) \/ MemoryPermit(s) \/ MemoryTimeout(s) \/ HandlerDropped(s)
  PROVE  Waiting'
<1> DEFINE m == InPhase("memory_wait")
           w == InPhase("stream_wait")
<1>0. /\ phase \in [Streams -> Phases] /\ memoryQueue \in Seq(Streams) /\ streamQueue \in Seq(Streams)
      /\ Unique(memoryQueue) /\ Members(memoryQueue) = m
      /\ Unique(streamQueue) /\ Members(streamQueue) = w
  BY DEF TypeOK, Waiting
<1>1. s \in m <=> phase[s] = "memory_wait"
  BY DEF InPhase
<1>2. s \in w <=> phase[s] = "stream_wait"
  BY DEF InPhase
<1>3. CASE Arrive(s)
  <2>1. /\ phase[s] = "new" /\ phase' = [phase EXCEPT ![s] = "stream_wait"]
        /\ streamQueue' = Append(streamQueue, s) /\ memoryQueue' = memoryQueue
    BY <1>3 DEF Arrive, Goto
  <2>2. m' = m \ {s} /\ w' = w \cup {s}
    BY <1>0, <2>1 DEF InPhase
  <2>3. Unique(streamQueue') /\ Members(streamQueue') = w \cup {s}
    BY <1>0, <1>2, <2>1, WaiterJoins
  <2>4. QED
    BY <1>0, <1>1, <2>1, <2>2, <2>3, ZenonT(40) DEF Waiting
<1>4. CASE StreamPermit(s)
  <2>1. /\ phase[s] = "stream_wait" /\ phase' = [phase EXCEPT ![s] = "memory_wait"]
        /\ IsFirst(s, streamQueue) /\ streamQueue' = Tail(streamQueue)
        /\ memoryQueue' = Append(memoryQueue, s)
    BY <1>4 DEF StreamPermit, Goto
  <2>2. m' = m \cup {s} /\ w' = w \ {s}
    BY <1>0, <2>1 DEF InPhase
  <2>3. Unique(memoryQueue') /\ Members(memoryQueue') = m \cup {s}
    BY <1>0, <1>1, <2>1, WaiterJoins
  <2>4. Unique(streamQueue') /\ Members(streamQueue') = w \ {s}
    BY <1>0, <2>1, FirstLeaves
  <2>5. QED
    BY <2>2, <2>3, <2>4 DEF Waiting
<1>5. CASE MemoryPermit(s)
  <2>1. /\ phase[s] = "memory_wait" /\ phase' = [phase EXCEPT ![s] = "upstream"]
        /\ IsFirst(s, memoryQueue) /\ memoryQueue' = Tail(memoryQueue)
        /\ streamQueue' = streamQueue
    BY <1>5 DEF MemoryPermit, ChunkGranted, Goto
  <2>2. m' = m \ {s} /\ w' = w \ {s}
    BY <1>0, <2>1 DEF InPhase
  <2>3. Unique(memoryQueue') /\ Members(memoryQueue') = m \ {s}
    BY <1>0, <2>1, FirstLeaves
  <2>4. QED
    BY <1>0, <1>2, <2>1, <2>2, <2>3, ZenonT(40) DEF Waiting
<1>6. CASE MemoryTimeout(s)
  <2>1. /\ phase[s] = "memory_wait" /\ phase' = [phase EXCEPT ![s] = "unwind_stream"]
        /\ memoryQueue' = Without(memoryQueue, s) /\ streamQueue' = streamQueue
    BY <1>6 DEF MemoryTimeout, Goto
  <2>2. m' = m \ {s} /\ w' = w \ {s}
    BY <1>0, <2>1 DEF InPhase
  <2>3. Unique(memoryQueue') /\ Members(memoryQueue') = m \ {s}
    BY <1>0, <2>1, WaiterLeaves
  <2>4. QED
    BY <1>0, <1>2, <2>1, <2>2, <2>3, ZenonT(40) DEF Waiting
<1>7. CASE HandlerDropped(s)
  <2>1. PICK q \in {"done", "unwind_stream", "unwind_memory"} :
          phase[s] # q /\ phase' = [phase EXCEPT ![s] = q]
    BY <1>7 DEF HandlerDropped, Goto
  <2>2. memoryQueue' = Without(memoryQueue, s) /\ streamQueue' = Without(streamQueue, s)
    BY <1>7 DEF HandlerDropped
  <2>3. m' = m \ {s} /\ w' = w \ {s}
    BY <1>0, <2>1 DEF InPhase
  <2>4. Unique(memoryQueue') /\ Members(memoryQueue') = m \ {s}
    BY <1>0, <2>2, WaiterLeaves
  <2>5. Unique(streamQueue') /\ Members(streamQueue') = w \ {s}
    BY <1>0, <2>2, WaiterLeaves
  <2>6. QED
    BY <2>3, <2>4, <2>5 DEF Waiting
<1>8. QED
  BY <1>3, <1>4, <1>5, <1>6, <1>7

\* Every step keeps the queues exact.
LEMMA WaitingStep ==
  ASSUME TypeOK, TaskConsistent, Waiting, [Next]_vars
  PROVE  Waiting'
<1> USE DEF Goto, segmentVars, admissionVars
<1>0. /\ phase \in [Streams -> Phases]
      /\ \A r \in Streams : TaskOK(r)
  BY DEF TypeOK, TaskConsistent
<1>1. ASSUME NEW s \in Streams,
             \/ Arrive(s) \/ StreamPermit(s) \/ MemoryPermit(s) \/ MemoryTimeout(s)
             \/ HandlerDropped(s)
      PROVE  Waiting'
  BY <1>1, QueueSteps
<1>2. ASSUME NEW s \in Streams,
             UpstreamFailed(s) \/ \E t \in Tenants, isSse \in BOOLEAN : UpstreamAnswers(s, t, isSse)
      PROVE  Waiting'
  <2>1. NobodyWaits
    BY <1>0, <1>2 DEF UpstreamFailed, UpstreamAnswers, NobodyWaits
  <2>2. QED
    BY <2>1, QuietWaiting, ZenonT(40)
<1>3. ASSUME NEW s \in Streams,
             \/ \E n \in 1 .. MaxOutput : Enqueue(s, n)
             \/ TenantPermit(s) \/ PollFrame(s) \/ ReceiveNothing(s) \/ BodyDropped(s)
      PROVE  Waiting'
  <2>1. NobodyWaits
    BY <1>3 DEF Enqueue, TenantPermit, PollFrame, ReceiveNothing, BodyDropped, NobodyWaits
  <2>2. QED
    BY <2>1, QuietWaiting
<1>4. ASSUME NEW s \in Streams, NEW i \in Segments,
             \/ GlobalPermit(s, i) \/ RecordInUse(s, i) \/ Send(s, i) \/ ReceiveFrame(s, i)
             \/ DropCounter(s, i) \/ DropGlobalPermit(s, i) \/ DropLocalPermit(s, i)
      PROVE  Waiting'
  <2>1. phase' = phase /\ memoryQueue' = memoryQueue /\ streamQueue' = streamQueue
    BY <1>4, Zenon DEF GlobalPermit, RecordInUse, Send, ReceiveFrame, DropCounter, DropGlobalPermit,
                DropLocalPermit
  <2>2. NobodyWaits
    BY <2>1 DEF NobodyWaits
  <2>3. QED
    BY <2>2, QuietWaiting, Zenon
<1>5. ASSUME NEW s \in Streams, TenantLimitExceeded(s)
      PROVE  Waiting'
  <2>1. phase[s] \notin {"memory_wait", "stream_wait"}
    BY <1>0, <1>5, ZenonT(40) DEF TenantLimitExceeded, ReadyToReserve, TaskOK
  <2>2. QED
    BY <1>0, <1>5, <2>1, FailedWaiting, ZenonT(30) DEF TenantLimitExceeded, admissionVars
<1>6. ASSUME NEW s \in Streams, NEW i \in Segments,
             GlobalLimitExceeded(s, i) \/ EnqueueTimeout(s, i) \/ SendClosed(s, i)
      PROVE  Waiting'
  <2>1. /\ seg[s][i] # "none" /\ EnqueueFailed(s)
        /\ memoryQueue' = memoryQueue /\ streamQueue' = streamQueue
    BY <1>6 DEF GlobalLimitExceeded, EnqueueTimeout, SendClosed
  <2>2. phase[s] \notin {"memory_wait", "stream_wait"}
    BY <1>0, <2>1, ZenonT(40) DEF TaskOK, BeforeTask
  <2>3. QED
    BY <1>0, <2>1, <2>2, FailedWaiting, ZenonT(40)
<1>7. ASSUME NEW s \in Streams,
             \/ StreamEnds(s) \/ StreamError(s) \/ TaskReturns(s)
             \/ UnwindMemory(s) \/ UnwindStream(s) \/ UnwindGuard(s) \/ Recycle(s)
      PROVE  Waiting'
  <2>1. /\ memoryQueue' = memoryQueue /\ streamQueue' = streamQueue
        /\ phase[s] \notin {"memory_wait", "stream_wait"}
        /\ \E q \in Phases \ {"memory_wait", "stream_wait"} : phase' = [phase EXCEPT ![s] = q]
    BY <1>7, Zenon DEF StreamEnds, StreamError, TaskReturns, UnwindMemory, UnwindStream, UnwindGuard,
                Recycle, Phases
  <2>2. NobodyWaits
    BY <1>0, <2>1 DEF NobodyWaits
  <2>3. QED
    BY <2>2, QuietWaiting
<1>8. CASE ReloadKeyring \/ UNCHANGED vars
  <2>1. NobodyWaits
    BY <1>8 DEF ReloadKeyring, vars, NobodyWaits
  <2>2. QED
    BY <2>1, QuietWaiting
<1>9. ASSUME NEW s \in Streams, StreamStep(s)
      PROVE  Waiting'
  <2>1. CASE Arrive(s) \/ HandlerDropped(s) \/ Handler(s) \/ Recycle(s)
    BY <2>1, <1>1, <1>2, <1>7, Zenon DEF Handler
  <2>2. CASE ReserveAndSend(s) \/ \E n \in 1 .. MaxOutput : Enqueue(s, n)
    BY <2>2, <1>3, <1>4, <1>5, <1>6, Zenon DEF ReserveAndSend
  <2>3. CASE StreamEnds(s) \/ StreamError(s) \/ TaskReturns(s) \/ Unwind(s)
    BY <2>3, <1>7, Zenon DEF Unwind
  <2>4. CASE PollFrame(s) \/ Receive(s) \/ BodyDropped(s) \/ DropSegment(s)
    BY <2>4, <1>3, <1>4, Zenon DEF Receive, DropSegment
  <2>5. QED
    BY <1>9, <2>1, <2>2, <2>3, <2>4, Zenon DEF StreamStep
<1>10. QED
  BY <1>8, <1>9, Zenon DEF Next

\* The queues hold exactly those who wait, each once: for any number of requests,
\* no order of arrivals, grants, timeouts and disconnects leaves a ghost in front
\* of the others, or has one wait outside of the queue.
THEOREM QueuesExact == Spec => []WaitersExact
<1>1. Init => Waiting
  <2>1. Unique(<<>>) /\ Members(<<>>) = {}
    BY DEF Unique, Members
  <2>2. Init => InPhase("memory_wait") = {} /\ InPhase("stream_wait") = {}
    BY DEF Init, InPhase
  <2>3. QED
    BY <2>1, <2>2, Zenon DEF Init, Waiting
<1>2. TypeOK /\ TaskConsistent /\ Waiting /\ [Next]_vars => Waiting'
  BY WaitingStep
<1>3. TypeOK /\ Waiting => WaitersExact
  <2> SUFFICES ASSUME TypeOK, Waiting, NEW s \in Streams
               PROVE  /\ Cardinality({k \in DOMAIN memoryQueue : memoryQueue[k] = s})
                            = IF phase[s] = "memory_wait" THEN 1 ELSE 0
                      /\ Cardinality({k \in DOMAIN streamQueue : streamQueue[k] = s})
                            = IF phase[s] = "stream_wait" THEN 1 ELSE 0
    BY DEF WaitersExact
  <2>1. memoryQueue \in Seq(Streams) /\ streamQueue \in Seq(Streams)
    BY DEF TypeOK
  <2>2. /\ s \in Members(memoryQueue) <=> phase[s] = "memory_wait"
        /\ s \in Members(streamQueue) <=> phase[s] = "stream_wait"
    BY DEF Waiting, InPhase
  <2>3. Unique(memoryQueue) /\ Unique(streamQueue)
    BY DEF Waiting
  <2>4. QED
    BY <2>1, <2>2, <2>3, PlacesOf
<1>4. QED
  BY <1>1, <1>2, <1>3, TypeCorrect, TasksConsistent, PTL DEF Spec
=============================================================================
